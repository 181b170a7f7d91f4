----------------------------- MODULE ChangeFile -----------------------------
(***************************************************************************)
(* The copy-on-write change file of partclone-utils (src/changefile.c) on  *)
(* top of the POSIX dispatch table (src/sysdep_posix.c).                   *)
(*                                                                         *)
(* Every system call that changes the file is a step of its own, so that   *)
(* the process can be killed between any two of them; a call made of       *)
(* several of them goes through the values of pc and no other call can     *)
(* start before it has returned (imagemount has a single thread).          *)
(*                                                                         *)
(* Abstractions.  A block's content is a member of Data or Torn, a mixture *)
(* of two writes.  The CRC of a content is the content itself: it detects  *)
(* every mixture.  A file offset is the index of a slot in the order in    *)
(* which the slots were appended; 0 is "no offset", as in the code.  The   *)
(* kernel survives (no power loss), so a write that returned is on disk.   *)
(***************************************************************************)
EXTENDS Integers, Sequences, FiniteSets

CONSTANTS
    N,              \* cf_total_blocks: number of blocks of the image
    Data,           \* contents a block can be given
    Torn,           \* the content of a block whose overwrite was cut short
    None,           \* no content, no trailer
    MaxSlots,       \* bound on the slots appended to the file
    ShortRet,       \* what a short transfer may return: the stale errno
    Counts,         \* blockcount arguments that clients give to cf_init
    TransientOpen   \* can open() fail once on a file that is there?

ASSUME NAssumption == N \in Nat \ {0}
ASSUME DataAssumption == Torn \notin Data /\ None \notin Data /\ Torn # None
ASSUME BoundAssumption == MaxSlots \in Nat
ASSUME ShortRetAssumption == ShortRet \subseteq {"ok", "EIO"}
ASSUME CountsAssumption == Counts \subseteq Nat
ASSUME TransientOpenAssumption == TransientOpen \in BOOLEAN

Blocks  == 0 .. N - 1
Offsets == 0 .. MaxSlots
ZeroMap == [b \in Blocks |-> 0]

ASSUME NoneAssumption == None \notin Blocks /\ None \notin Blocks \X Data

VARIABLES
    hdr,    \* the file: absent, short (of a header), nomap (short of a map), valid,
            \* or foreign (its header is not that of a change file)
    dused,  \* cf_used_blocks in the file's header
    dmap,   \* the block map in the file
    slots,  \* the blocks behind the map: data, then trailer
    st,     \* the handle: closed, init (not verified yet), ready (verified); nohdr,
            \* nodev or unread when cf_verify failed on header, its fields or map
    cnt,    \* cfc_blockcount
    map,    \* cfc_blockmap
    used,   \* cfc_header.cf_used_blocks
    dirty,  \* CF_HEADER_DIRTY in cfc_header.cf_flags
    cur,    \* cfc_curpos
    pc,     \* where the call in progress is; idle when there is none
    buf,    \* the caller's buffer while cf_writeblock runs
    ret     \* what the last call returned

file   == <<hdr, dused, dmap, slots>>
handle == <<st, cnt, map, used, dirty, cur>>
vars   == <<hdr, dused, dmap, slots, st, cnt, map, used, dirty, cur, pc, buf, ret>>

cf_block == [data : Data \cup {Torn}, blk : Blocks \cup {None}, crc : Data \cup {Torn, None}]

Init ==
    /\ hdr = "absent" /\ dused = 0 /\ dmap = ZeroMap /\ slots = <<>>
    /\ st = "closed" /\ cnt = 0 /\ map = ZeroMap /\ used = 0 /\ dirty = FALSE /\ cur = 0
    /\ pc = "idle" /\ buf = None /\ ret = "ok"

-----------------------------------------------------------------------------
(* What a handle sees.                                                     *)

\* cf_readblock's test of the trailer against the block it was asked for.
TrailerMatches(s, b) == s.blk = b /\ s.data \in Data /\ s.crc = s.data

\* The content of block b that map m leads to: None when the map has no
\* entry, Torn when the trailer does not match.
Content(m, b) ==
    IF m[b] = 0 THEN None
    ELSE IF TrailerMatches(slots[m[b]], b) THEN slots[m[b]].data ELSE Torn

Writing == pc \in {"wr_data", "wr_trl"}

Mapped(m) == {b \in Blocks : m[b] # 0}

-----------------------------------------------------------------------------
(* cf_init, cf_verify, cf_create                                           *)

FreshHandle(c) == cnt' = c /\ cur' = 0 /\ dirty' = FALSE

\* Mutant: a map that the file is too short for is accepted.
VerifyOutcome_ShortMap(c) ==
    /\ hdr \in {"nomap", "valid"} /\ N \in {c, c + 1}
    /\ st' = "ready" /\ map' = dmap /\ used' = dused /\ ret' = "ok"

\* cf_verify on a handle with block count c.  It accepts one block more
\* than the image has.  Either read may fail, or come short as the file does.
VerifyOutcome(c) ==
    LET mine == hdr # "foreign" /\ N \in {c, c + 1}
    IN  \/ /\ hdr = "valid" /\ mine
           /\ st' = "ready" /\ map' = dmap /\ used' = dused /\ ret' = "ok"
        \/ /\ \/ st' = "nohdr" /\ ret' = "EIO"
              \/ hdr # "short" /\ ~mine /\ st' = "nodev" /\ ret' = "ENODEV"
              \/ hdr # "short" /\ mine /\ st' = "unread" /\ ret' = "EIO"
           /\ map' = ZeroMap /\ used' = 0

cf_init(c) ==
    /\ pc = "idle" /\ st = "closed"
    /\ \/ /\ hdr # "absent"
          /\ st' = "init" /\ map' = ZeroMap /\ used' = 0 /\ FreshHandle(c) /\ ret' = "ok"
       \/ ret' = "EIO" /\ UNCHANGED handle
    /\ UNCHANGED <<file, pc, buf>>

cf_verify ==
    /\ pc = "idle" /\ st = "init"
    /\ VerifyOutcome(cnt) /\ UNCHANGED <<cnt, cur, dirty>>
    /\ UNCHANGED <<file, pc, buf>>

\* Mutant: the file is created anew each time.
cf_create_Anew ==
    /\ pc = "idle" /\ ~dirty
    /\ hdr' = (IF hdr = "absent" THEN "short" ELSE hdr) /\ pc' = "cr_hdr"
    /\ UNCHANGED <<dused, dmap, slots, handle, buf, ret>>

\* cf_create: opens the file, or creates it when that fails for whatever
\* reason.  Its callers reach it only with a handle they never wrote through.
cf_create ==
    /\ pc = "idle" /\ ~dirty
    /\ \/ hdr # "absent" /\ pc' = "cr_init" /\ UNCHANGED <<hdr, ret>>
       \/ hdr = "absent" /\ hdr' = "short" /\ pc' = "cr_hdr" /\ UNCHANGED ret
       \/ TransientOpen /\ hdr # "absent" /\ pc' = "cr_hdr" /\ UNCHANGED <<hdr, ret>>
       \/ ret' = "EIO" /\ UNCHANGED <<hdr, pc>>
    /\ UNCHANGED <<dused, dmap, slots, handle, buf>>

\* The call in progress returns r; a return of ok from the creation's writes
\* (even of a short one) goes on to open the candidate change file.
CreateAfterWrite(r) ==
    IF r = "ok" THEN pc' = "cr_init" /\ UNCHANGED ret ELSE pc' = "idle" /\ ret' = r

cf_create_header ==
    /\ pc = "cr_hdr"
    /\ \/ /\ hdr' = IF hdr = "short" THEN "nomap" ELSE hdr
          /\ dused' = 0 /\ pc' = "cr_map" /\ UNCHANGED ret
       \/ CreateAfterWrite("EIO") /\ UNCHANGED <<hdr, dused>>
       \/ \E r \in ShortRet : CreateAfterWrite(r) /\ dused' \in {0, dused} /\ UNCHANGED hdr
    /\ UNCHANGED <<dmap, slots, handle, buf>>

cf_create_map ==
    /\ pc = "cr_map"
    /\ \/ hdr' = "valid" /\ dmap' = ZeroMap /\ CreateAfterWrite("ok")
       \/ CreateAfterWrite("EIO") /\ UNCHANGED <<hdr, dmap>>
       \/ \E r \in ShortRet, k \in Blocks :
             /\ CreateAfterWrite(r)
             /\ dmap' = [b \in Blocks |-> IF b < k THEN 0 ELSE dmap[b]]
             /\ UNCHANGED hdr
    /\ UNCHANGED <<dused, slots, handle, buf>>

\* The cf_init and cf_verify at the end of cf_create.  When cf_init fails
\* the caller keeps the handle it had; when cf_verify fails it has a new one
\* without a block map.
cf_create_open ==
    /\ pc = "cr_init" /\ pc' = "idle"
    /\ \/ VerifyOutcome(N) /\ FreshHandle(N)
       \/ ret' = "EIO" /\ UNCHANGED handle
    /\ UNCHANGED <<file, buf>>

-----------------------------------------------------------------------------
(* cf_seek, cf_readblock, cf_writeblock                                    *)

\* Mutant: no test of the block number.
cf_seek_Unchecked(b) ==
    /\ pc = "idle" /\ st = "ready" /\ cur' = b /\ ret' = "ok"
    /\ UNCHANGED <<file, st, cnt, map, used, dirty, pc, buf>>

cf_seek(b) ==
    /\ pc = "idle" /\ st = "ready"
    /\ IF b <= N THEN cur' = b /\ ret' = "ok" ELSE ret' = "ENXIO" /\ UNCHANGED cur
    /\ UNCHANGED <<file, st, cnt, map, used, dirty, pc, buf>>

\* What cf_readblock can return: the error and, with ok, the content.  What is
\* behind the map, where cf_seek may lead, is taken for an offset, and no
\* trailer names such a block.
ReadOutcomes(b) ==
    IF b \notin Blocks THEN {<<"ENXIO", None>>, <<"EIO", None>>, <<"ESRCH", None>>}
    ELSE IF map[b] = 0 THEN {<<"ENXIO", None>>}
    ELSE {<<"EIO", None>>} \cup
         {IF TrailerMatches(slots[map[b]], b) THEN <<"ok", slots[map[b]].data>>
          ELSE <<"ESRCH", None>>}

cf_readblock ==
    /\ pc = "idle" /\ st = "ready"
    /\ \E o \in ReadOutcomes(cur) : ret' = o[1]
    /\ UNCHANGED <<file, handle, pc, buf>>

\* There is no test of the position either: at cur = N an entry behind the
\* map is read and set, and nothing can be said of what follows.
cf_writeblock(d) ==
    /\ pc = "idle" /\ st = "ready"
    /\ cur \in Blocks => map[cur] # 0 \/ Len(slots) < MaxSlots
    /\ pc' = IF cur \in Blocks THEN "wr_data" ELSE "overrun"
    /\ buf' = d
    /\ UNCHANGED <<file, handle, ret>>

WriteReturn(r) == pc' = "idle" /\ ret' = r /\ buf' = None

\* Mutant: a block that is there is written where the last one ended up.
BlockOffset_Last(b) == IF map[b] = 0 THEN 0 ELSE Len(slots)

\* Where cf_writeblock seeks to: 0 is the end of the file.
BlockOffset(b) == map[b]

\* The write of the data: in place when the map has an entry, else at the
\* end of the file.
write_data ==
    /\ pc = "wr_data"
    /\ LET off    == BlockOffset(cur)
           Put(x) == slots' = IF off = 0
                              THEN Append(slots, [data |-> x, blk |-> None, crc |-> None])
                              ELSE [slots EXCEPT ![off].data = x]
       IN  \/ Put(buf) /\ pc' = "wr_trl" /\ UNCHANGED <<ret, buf>>
           \/ WriteReturn("EIO") /\ UNCHANGED slots
           \/ \E r \in ShortRet :
                 /\ WriteReturn(r)
                 /\ \E x \in {Torn} \cup IF off = 0 THEN {} ELSE {buf, slots[off].data} : Put(x)
    /\ UNCHANGED <<hdr, dused, dmap, handle>>

\* Mutants: the offset after the data; the dirty flag or the count forgotten.
RecordNewBlock_Behind(off) ==
    /\ map' = [map EXCEPT ![cur] = off + 1] /\ used' = used + 1 /\ dirty' = TRUE
RecordNewBlock_NotDirty(off) ==
    /\ map' = [map EXCEPT ![cur] = off] /\ used' = used + 1 /\ UNCHANGED dirty
RecordNewBlock_NotCounted(off) ==
    /\ map' = [map EXCEPT ![cur] = off] /\ dirty' = TRUE /\ UNCHANGED used

\* The trailer follows the data; a new block enters the map after both.
RecordNewBlock(off) ==
    /\ map' = [map EXCEPT ![cur] = off] /\ used' = used + 1 /\ dirty' = TRUE

write_trailer ==
    /\ pc = "wr_trl"
    /\ LET off == IF map[cur] = 0 THEN Len(slots) ELSE map[cur]
       IN  \/ /\ slots' = [slots EXCEPT ![off].blk = cur, ![off].crc = buf]
              /\ IF map[cur] = 0 THEN RecordNewBlock(off) ELSE UNCHANGED <<map, used, dirty>>
              /\ WriteReturn("ok")
           \/ WriteReturn("EIO") /\ UNCHANGED <<slots, map, used, dirty>>
           \/ /\ \E r \in ShortRet : WriteReturn(r)
              /\ \E c \in {slots[off].crc} \cup IF map[cur] = 0 THEN {} ELSE {Torn, buf} :
                    slots' = [slots EXCEPT ![off].crc = c]
              /\ UNCHANGED <<map, used, dirty>>
    /\ UNCHANGED <<hdr, dused, dmap, st, cnt, cur>>

-----------------------------------------------------------------------------
(* cf_sync, cf_finish                                                      *)

\* The handle is freed, nothing of it is left.
FreeHandle ==
    /\ st' = "closed" /\ cnt' = 0 /\ map' = ZeroMap /\ used' = 0 /\ dirty' = FALSE /\ cur' = 0

\* cf_sync returns r to its caller, or to cf_finish, which ignores r and
\* frees the handle.
SyncReturn(r, fin) ==
    /\ pc' = "idle"
    /\ IF fin THEN FreeHandle /\ ret' = "ok" ELSE UNCHANGED handle /\ ret' = r

\* The header goes first, without the dirty flag.
SyncHeader(fin) ==
    /\ \/ dused' = used /\ pc' = (IF fin THEN "fi_map" ELSE "sy_map") /\ UNCHANGED <<ret, handle>>
       \/ SyncReturn("EIO", fin) /\ UNCHANGED dused
       \/ \E r \in ShortRet : SyncReturn(r, fin) /\ dused' \in {used, dused}
    /\ UNCHANGED <<hdr, dmap, slots, buf>>

\* Then the map; a short write gets as far as entry k.
SyncMap(fin) ==
    /\ pc = IF fin THEN "fi_map" ELSE "sy_map"
    /\ \/ /\ dmap' = map
          /\ IF fin THEN SyncReturn("ok", fin)
             ELSE /\ dirty' = FALSE /\ pc' = "idle" /\ ret' = "ok"
                  /\ UNCHANGED <<st, cnt, map, used, cur>>
       \/ SyncReturn("EIO", fin) /\ UNCHANGED dmap
       \/ \E r \in ShortRet, k \in Blocks :
             /\ dmap' = [b \in Blocks |-> IF b < k THEN map[b] ELSE dmap[b]]
             /\ SyncReturn(r, fin)
    /\ UNCHANGED <<hdr, dused, slots, buf>>

\* v1_sync and v10_sync call cf_sync on verified handles only.
cf_sync == pc = "idle" /\ st = "ready" /\ SyncHeader(FALSE)

\* cf_sync on a handle that cf_verify rejected.  A header that was not read
\* is written over the file's; the map, if there is one, has what malloc
\* left in it, and writing from a null pointer fails.
cf_sync_unverified ==
    /\ pc = "idle" /\ st \in {"nohdr", "nodev", "unread"}
    /\ \/ st = "nohdr" /\ hdr' = "foreign" /\ ret' \in {"ok", "EIO"} /\ UNCHANGED dmap
       \/ st = "unread" /\ hdr' = "valid" /\ ret' = "ok"
          /\ dmap' \in [Blocks -> 0 .. Len(slots)]
       \/ ret' = "EIO" /\ UNCHANGED <<hdr, dmap>>
    /\ UNCHANGED <<dused, slots, handle, pc, buf>>

cf_finish ==
    /\ pc = "idle" /\ st # "closed"
    /\ \/ dirty /\ SyncHeader(TRUE)
       \/ ~dirty /\ FreeHandle /\ ret' = "ok" /\ UNCHANGED <<file, pc, buf>>

\* The process is killed.  What the map on disk does not reach is lost.
Crash ==
    /\ FreeHandle /\ pc' = "idle" /\ buf' = None /\ ret' = "killed"
    /\ UNCHANGED file

CfStep ==   \* the call in progress goes on
    \/ cf_create_header \/ cf_create_map \/ cf_create_open
    \/ write_data \/ write_trailer
    \/ SyncMap(FALSE) \/ SyncMap(TRUE)

\* What changefile.c leaves to its callers: to write only blocks of the map.
InMap == cur \in Blocks

Next ==
    \/ \E c \in Counts : cf_init(c)
    \/ cf_verify \/ cf_create
    \/ \E b \in 0 .. N + 1 : cf_seek(b)
    \/ cf_readblock
    \/ \E d \in Data : InMap /\ cf_writeblock(d)
    \/ cf_sync \/ cf_finish
    \/ CfStep
    \/ Crash

Spec == Init /\ [][Next]_vars

-----------------------------------------------------------------------------
(* Properties                                                              *)

TypeOK ==
    /\ hdr \in {"absent", "short", "nomap", "valid", "foreign"}
    /\ dused \in Nat /\ dmap \in [Blocks -> Offsets]
    /\ slots \in Seq(cf_block)
    /\ st \in {"closed", "init", "nohdr", "nodev", "unread", "ready"} /\ cnt \in Nat
    /\ map \in [Blocks -> Offsets] /\ used \in Nat /\ dirty \in BOOLEAN /\ cur \in 0 .. N
    /\ pc \in {"idle", "cr_hdr", "cr_map", "cr_init", "wr_data", "wr_trl", "sy_map", "fi_map",
              "overrun"}
    /\ buf \in Data \cup {None}
    /\ ret \in {"ok", "EIO", "ENXIO", "ESRCH", "ENODEV", "killed"}

\* Every entry of the file's map leads to a slot that is in the file and has
\* a complete trailer naming that very block, whatever was cut short and
\* whenever the process was killed; so no two blocks share a slot.
MappedSlot(m, b) == m[b] \in 1 .. Len(slots) /\ slots[m[b]].blk = b
MapsLeadToOwnSlots ==
    /\ \A b \in Mapped(dmap) : MappedSlot(dmap, b)
    /\ \A b \in Mapped(map) : MappedSlot(map, b)

\* A verified handle knows every block of the file's map, at the same slot,
\* and it is dirty whenever it knows more, so cf_finish writes the map.
HandleCoversFile ==
    st = "ready" =>
        /\ \A b \in Mapped(dmap) : map[b] = dmap[b]
        /\ dirty \/ map = dmap

\* The used count never falls behind the map, in memory or in the file, even
\* when the process is killed between the two writes of cf_sync.
UsedCountCoversMap ==
    /\ Cardinality(Mapped(dmap)) <= dused
    /\ Cardinality(Mapped(map)) <= used
    /\ dused <= Len(slots) /\ used <= Len(slots)

\* An entry of the file's map, once written, is never changed or removed:
\* neither a new session nor a failed or repeated cf_sync loses a block.
MapEntriesArePermanent ==
    [][\A b \in Mapped(dmap) : dmap'[b] = dmap[b]]_vars

\* A creation that was cut short, or whose process was killed, leaves a file
\* that no handle is ever ready on: the first block is appended behind a
\* whole header and a whole map.
NoBlockBeforeMap ==
    /\ st = "ready" => hdr = "valid"
    /\ hdr # "valid" => slots = <<>> /\ Mapped(dmap) = {}

\* The overlay that the change file stands for: what the verified handle, or
\* else a new one, reads; what a new one reads; and the write in progress.
openBar == st = "ready"
volBar  == [b \in Blocks |-> Content(IF st = "ready" THEN map ELSE dmap, b)]
durBar  == [b \in Blocks |-> Content(dmap, b)]
busyBar == IF Writing THEN <<cur, buf>> ELSE None

\* The change file implements the copy-on-write overlay.
O == INSTANCE Overlay WITH
        Block <- Blocks, Bad <- Torn,
        open  <- openBar, vol <- volBar, dur <- durBar, busy <- busyBar
ImplementsOverlay == O!Spec
=============================================================================
