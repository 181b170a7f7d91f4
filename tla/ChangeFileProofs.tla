-------------------------- MODULE ChangeFileProofs --------------------------
(***************************************************************************)
(* Proofs about the change file, for every number of blocks, every set of  *)
(* contents and every bound on the slots: its invariants, that it          *)
(* implements the copy-on-write overlay, and that what cf_writeblock       *)
(* acknowledged reads back.  Then about sessions on a raw image, which is  *)
(* served from little else, for every length of a request.                 *)
(***************************************************************************)
EXTENDS ChangeFileHistory, RawImage, SequenceTheorems, FiniteSetTheorems, TLAPS

-----------------------------------------------------------------------------
(* The inductive invariant                                                 *)

\* A call in progress has the handle it needs, and room for its slot.
CallsInProgress ==
    /\ Len(slots) <= MaxSlots
    /\ dirty => st = "ready"
    /\ pc \in {"sy_map", "fi_map"} => st = "ready"
    /\ Writing => st = "ready" /\ cur \in Blocks /\ buf \in Data
    /\ pc = "wr_data" /\ map[cur] = 0 => Len(slots) < MaxSlots

\* The slot that a new block is being written to is the last one and has no
\* trailer yet, so no map entry leads to it.
NewSlotIsFree ==
    pc = "wr_trl" /\ map[cur] = 0 => Len(slots) > 0 /\ slots[Len(slots)].blk = None

SlotInv == TypeOK /\ CallsInProgress /\ NewSlotIsFree /\ MapsLeadToOwnSlots

\* Without a transient failure of open, cf_create writes only into a file
\* that is not a change file yet, and such a file has no entries.
OnlyNewFilesAreFilled ==
    /\ hdr # "valid" => st # "ready" /\ dmap = ZeroMap
    /\ pc \in {"cr_hdr", "cr_map"} => hdr # "valid"

CoverInv == SlotInv /\ OnlyNewFilesAreFilled /\ HandleCoversFile

\* The count is in the file before the map, and there is a slot for the block
\* that is being added.
CountGoesFirst ==
    /\ pc \in {"sy_map", "fi_map"} => dused = used
    /\ pc = "wr_trl" /\ map[cur] = 0 => used < Len(slots)

CountInv == CoverInv /\ CountGoesFirst /\ UsedCountCoversMap

-----------------------------------------------------------------------------
(* Facts about maps and slots                                              *)

\* The map that cf_create writes has no entries.
LEMMA ZeroMapIsEmpty ==
    /\ ZeroMap \in [Blocks -> Offsets]
    /\ \A b \in Blocks : ZeroMap[b] = 0
    /\ Mapped(ZeroMap) = {}
  BY BoundAssumption DEF ZeroMap, Offsets, Mapped

\* A slot that is overwritten in place leaves the others where they are.
LEMMA SlotOverwrite ==
    ASSUME NEW s \in Seq(cf_block), NEW i \in 1 .. Len(s), NEW e \in cf_block
    PROVE  /\ [s EXCEPT ![i] = e] \in Seq(cf_block)
           /\ Len([s EXCEPT ![i] = e]) = Len(s)
           /\ \A j \in 1 .. Len(s) : [s EXCEPT ![i] = e][j] = IF j = i THEN e ELSE s[j]
  <1>1. DOMAIN s = 1 .. Len(s) /\ Len(s) \in Nat
    BY LenProperties
  <1>2. [s EXCEPT ![i] = e] \in Seq(cf_block) /\ Len([s EXCEPT ![i] = e]) = Len(s)
    BY ExceptSeq
  <1>3. QED
    BY <1>1, <1>2

\* A slot that is appended leaves the others where they are.
LEMMA SlotAppend ==
    ASSUME NEW s \in Seq(cf_block), NEW e \in cf_block
    PROVE  /\ Append(s, e) \in Seq(cf_block)
           /\ Len(Append(s, e)) = Len(s) + 1
           /\ \A j \in 1 .. Len(s) : Append(s, e)[j] = s[j]
           /\ Append(s, e)[Len(s) + 1] = e
  BY AppendProperties, LenProperties

-----------------------------------------------------------------------------
(* Type correctness and the slots                                          *)

LEMMA SlotInit == Init => SlotInv
  <1> SUFFICES ASSUME Init PROVE SlotInv
    OBVIOUS
  <1>0. slots \in Seq(cf_block) /\ Len(slots) = 0
    BY EmptySeq DEF Init
  <1>a. dirty \in BOOLEAN
    BY DEF Init
  <1>b. cur \in 0 .. N /\ dused \in Nat /\ used \in Nat /\ cnt \in Nat
    BY NAssumption DEF Init
  <1>c. map \in [Blocks -> Offsets] /\ dmap \in [Blocks -> Offsets]
    BY ZeroMapIsEmpty DEF Init
  <1>1. TypeOK
    BY <1>0, <1>a, <1>b, <1>c DEF Init, TypeOK
  <1>2. CallsInProgress /\ NewSlotIsFree
    BY BoundAssumption DEF Init, CallsInProgress, NewSlotIsFree, Writing
  <1>3. MapsLeadToOwnSlots
    BY ZeroMapIsEmpty DEF Init, MapsLeadToOwnSlots
  <1>4. QED
    BY <1>1, <1>2, <1>3 DEF SlotInv

\* The steps that leave the slots alone and take map and file map from what
\* was there: everything but the two writes of cf_writeblock.
LEMMA SlotFrame ==
    ASSUME SlotInv, slots' = slots, TypeOK', CallsInProgress', pc' # "wr_trl",
           \A b \in Blocks : map'[b] \in {0, map[b], dmap[b]} /\ dmap'[b] \in {0, map[b], dmap[b]}
    PROVE  SlotInv'
  <1>1. MapsLeadToOwnSlots'
    BY DEF SlotInv, MapsLeadToOwnSlots, MappedSlot, Mapped
  <1>2. NewSlotIsFree'
    BY DEF NewSlotIsFree
  <1>3. QED
    BY <1>1, <1>2 DEF SlotInv

\* What the write of the data does to the slots: they stay, but for a new one
\* that has no trailer.
LEMMA WriteDataSlots ==
    ASSUME SlotInv, write_data
    PROVE  /\ slots' \in Seq(cf_block)
           /\ Len(slots') \in {Len(slots), Len(slots) + 1}
           /\ Len(slots') = Len(slots) + 1 => map[cur] = 0 /\ slots'[Len(slots')].blk = None
           /\ map[cur] = 0 /\ pc' = "wr_trl" => Len(slots') = Len(slots) + 1
           /\ \A j \in 1 .. Len(slots) : slots'[j].blk = slots[j].blk
           /\ pc' \in {"idle", "wr_trl"} /\ UNCHANGED <<hdr, dused, dmap, handle>>
           /\ buf' \in {buf, None} /\ ret' \in {ret, "ok", "EIO"}
           /\ pc' = "wr_trl" => buf' = buf
  <1> DEFINE off == map[cur]
  <1>1. /\ cur \in Blocks /\ buf \in Data /\ off \in Offsets /\ Len(slots) \in Nat
        /\ off = 0 => Len(slots) < MaxSlots
        /\ off # 0 => off \in 1 .. Len(slots) /\ slots[off].blk = cur
        /\ slots \in Seq(cf_block) /\ st = "ready"
    BY LenProperties
         DEF write_data, SlotInv, CallsInProgress, Writing, TypeOK, MapsLeadToOwnSlots,
             MappedSlot, Mapped
  <1>2. \E x \in Data \cup {Torn} :
           \/ slots' = slots /\ pc' = "idle"
           \/ off = 0 /\ slots' = Append(slots, [data |-> x, blk |-> None, crc |-> None])
           \/ off # 0 /\ slots' = [slots EXCEPT ![off] = [slots[off] EXCEPT !.data = x]]
    <2>1. ASSUME off # 0 PROVE slots[off].data \in Data \cup {Torn}
      <3>1. slots[off] \in cf_block
        BY <1>1, <2>1, ElementOfSeq
      <3>2. QED
        BY <3>1 DEF cf_block
    <2>2. QED
      BY <1>1, <2>1 DEF write_data, WriteReturn, BlockOffset
  <1>3. PICK x \in Data \cup {Torn} :
           \/ slots' = slots /\ pc' = "idle"
           \/ off = 0 /\ slots' = Append(slots, [data |-> x, blk |-> None, crc |-> None])
           \/ off # 0 /\ slots' = [slots EXCEPT ![off] = [slots[off] EXCEPT !.data = x]]
    BY <1>2
  <1>4. /\ slots' \in Seq(cf_block)
        /\ Len(slots') \in {Len(slots), Len(slots) + 1}
        /\ Len(slots') = Len(slots) + 1 => off = 0 /\ slots'[Len(slots')].blk = None
        /\ off = 0 /\ pc' = "wr_trl" => Len(slots') = Len(slots) + 1
        /\ \A j \in 1 .. Len(slots) : slots'[j].blk = slots[j].blk
    <2>1. CASE slots' = slots /\ pc' = "idle"
      BY <1>1, <2>1
    <2>2. CASE off = 0 /\ slots' = Append(slots, [data |-> x, blk |-> None, crc |-> None])
      <3>1. [data |-> x, blk |-> None, crc |-> None] \in cf_block
        BY DEF cf_block
      <3>2. QED
        BY <1>1, <2>2, <3>1, SlotAppend
    <2>3. CASE off # 0 /\ slots' = [slots EXCEPT ![off] = [slots[off] EXCEPT !.data = x]]
      <3>1. slots[off] \in cf_block
        BY <1>1, <2>3, ElementOfSeq
      <3>2. /\ [slots[off] EXCEPT !.data = x] \in cf_block
            /\ [slots[off] EXCEPT !.data = x].blk = slots[off].blk
        BY <3>1 DEF cf_block
      <3>3. QED
        BY <1>1, <2>3, <3>2, SlotOverwrite
    <2>4. QED
      BY <1>3, <2>1, <2>2, <2>3
  <1>5. /\ pc' \in {"idle", "wr_trl"} /\ UNCHANGED <<hdr, dused, dmap, handle>>
        /\ buf' \in {buf, None} /\ ret' \in {ret, "ok", "EIO"}
        /\ pc' = "wr_trl" => buf' = buf
    BY ShortRetAssumption DEF write_data, WriteReturn
  <1>6. QED
    BY <1>4, <1>5

\* The end of a write that adds no block: the slots keep their trailers.
LEMMA SlotTrailer ==
    ASSUME SlotInv, pc' = "idle", buf' = None, ret' \in {"ok", "EIO"}, st = "ready",
           UNCHANGED <<hdr, dused, dmap, st, cnt, cur>>, UNCHANGED <<map, used, dirty>>,
           slots' \in Seq(cf_block), Len(slots') = Len(slots),
           \A j \in 1 .. Len(slots) : slots'[j].blk = slots[j].blk
    PROVE  SlotInv'
  <1>1. TypeOK /\ CallsInProgress /\ MapsLeadToOwnSlots
    BY DEF SlotInv
  <1>2. TypeOK'
    BY <1>1 DEF TypeOK
  <1>3. CallsInProgress' /\ NewSlotIsFree'
    BY <1>1 DEF CallsInProgress, NewSlotIsFree, Writing
  <1>4. MapsLeadToOwnSlots'
    BY <1>1 DEF MapsLeadToOwnSlots, MappedSlot, Mapped
  <1>5. QED
    BY <1>2, <1>3, <1>4 DEF SlotInv

\* Every step preserves the invariant on slots, whatever open() does.
LEMMA SlotStep == SlotInv /\ [Next]_vars => SlotInv'
  <1> SUFFICES ASSUME SlotInv, [Next]_vars PROVE SlotInv'
    OBVIOUS
  <1> USE NAssumption, DataAssumption, BoundAssumption, ShortRetAssumption, CountsAssumption
  <1>0. TypeOK /\ CallsInProgress /\ NewSlotIsFree /\ MapsLeadToOwnSlots
    BY DEF SlotInv
  <1>1. ASSUME NEW c \in Counts, cf_init(c) PROVE SlotInv'
    <2>a. dirty' \in BOOLEAN
      BY <1>0, <1>1 DEF cf_init, FreshHandle, file, handle, TypeOK
    <2>b. map' \in [Blocks -> Offsets] /\ dmap' \in [Blocks -> Offsets]
      BY <1>0, <1>1, ZeroMapIsEmpty DEF cf_init, FreshHandle, file, handle, TypeOK
    <2>1. TypeOK'
      BY <1>0, <1>1, <2>a, <2>b DEF cf_init, FreshHandle, file, handle, TypeOK
    <2>2. CallsInProgress'
      BY <1>0, <1>1 DEF cf_init, FreshHandle, file, handle, TypeOK, CallsInProgress, Writing
    <2>3. QED
      BY <1>0, <1>1, <2>1, <2>2, SlotFrame, ZeroMapIsEmpty DEF cf_init, FreshHandle, file, handle
  <1>2. ASSUME cf_verify PROVE SlotInv'
    <2>1. TypeOK'
      BY <1>0, <1>2, ZeroMapIsEmpty DEF cf_verify, VerifyOutcome, file, TypeOK
    <2>2. CallsInProgress'
      BY <1>0, <1>2 DEF cf_verify, VerifyOutcome, file, TypeOK, CallsInProgress, Writing
    <2>3. QED
      BY <1>0, <1>2, <2>1, <2>2, SlotFrame, ZeroMapIsEmpty DEF cf_verify, VerifyOutcome, file
  <1>3. ASSUME cf_create PROVE SlotInv'
    <2>1. TypeOK'
      BY <1>0, <1>3, ZeroMapIsEmpty DEF cf_create, handle, TypeOK
    <2>2. CallsInProgress'
      BY <1>0, <1>3 DEF cf_create, handle, TypeOK, CallsInProgress, Writing
    <2>3. QED
      BY <1>0, <1>3, <2>1, <2>2, SlotFrame, ZeroMapIsEmpty DEF cf_create, handle
  <1>4. ASSUME cf_create_header PROVE SlotInv'
    <2>1. TypeOK'
      BY <1>0, <1>4, ZeroMapIsEmpty DEF cf_create_header, CreateAfterWrite, handle, TypeOK
    <2>2. CallsInProgress'
      BY <1>0, <1>4 DEF cf_create_header, CreateAfterWrite, handle, TypeOK, CallsInProgress, Writing
    <2>3. QED
      BY <1>0, <1>4, <2>1, <2>2, SlotFrame, ZeroMapIsEmpty
      DEF cf_create_header, CreateAfterWrite, handle
  <1>5. ASSUME cf_create_map PROVE SlotInv'
    <2>1. TypeOK'
      BY <1>0, <1>5, ZeroMapIsEmpty DEF cf_create_map, CreateAfterWrite, handle, TypeOK
    <2>2. CallsInProgress'
      BY <1>0, <1>5 DEF cf_create_map, CreateAfterWrite, handle, TypeOK, CallsInProgress, Writing
    <2>3. QED
      BY <1>0, <1>5, <2>1, <2>2, SlotFrame, ZeroMapIsEmpty
      DEF cf_create_map, CreateAfterWrite, handle
  <1>6. ASSUME cf_create_open PROVE SlotInv'
    <2>a. dirty' \in BOOLEAN
      BY <1>0, <1>6 DEF cf_create_open, VerifyOutcome, FreshHandle, file, handle, TypeOK
    <2>b. map' \in [Blocks -> Offsets] /\ dmap' \in [Blocks -> Offsets]
      BY <1>0, <1>6, ZeroMapIsEmpty DEF cf_create_open, VerifyOutcome, FreshHandle, file, handle,
         TypeOK
    <2>1. TypeOK'
      BY <1>0, <1>6, <2>a, <2>b DEF cf_create_open, VerifyOutcome, FreshHandle, file, handle, TypeOK
    <2>2. CallsInProgress'
      BY <1>0, <1>6 DEF cf_create_open, VerifyOutcome, FreshHandle, file, handle, TypeOK,
         CallsInProgress, Writing
    <2>3. QED
      BY <1>0, <1>6, <2>1, <2>2, SlotFrame, ZeroMapIsEmpty
      DEF cf_create_open, VerifyOutcome, FreshHandle, file, handle
  <1>7. ASSUME NEW b \in 0 .. N + 1, cf_seek(b) PROVE SlotInv'
    <2>1. TypeOK'
      BY <1>0, <1>7, ZeroMapIsEmpty DEF cf_seek, file, TypeOK
    <2>2. CallsInProgress'
      BY <1>0, <1>7 DEF cf_seek, file, TypeOK, CallsInProgress, Writing
    <2>3. QED
      BY <1>0, <1>7, <2>1, <2>2, SlotFrame, ZeroMapIsEmpty DEF cf_seek, file
  <1>8. ASSUME cf_readblock PROVE SlotInv'
    <2>1. TypeOK'
      BY <1>0, <1>8, ZeroMapIsEmpty DEF cf_readblock, ReadOutcomes, file, handle, TypeOK
    <2>2. CallsInProgress'
      BY <1>0, <1>8 DEF cf_readblock, ReadOutcomes, file, handle, TypeOK, CallsInProgress, Writing
    <2>3. QED
      BY <1>0, <1>8, <2>1, <2>2, SlotFrame, ZeroMapIsEmpty
      DEF cf_readblock, ReadOutcomes, file, handle
  <1>9. ASSUME NEW d \in Data, cf_writeblock(d) PROVE SlotInv'
    <2>1. TypeOK'
      BY <1>0, <1>9, ZeroMapIsEmpty DEF cf_writeblock, file, handle, TypeOK
    <2>2. CallsInProgress'
      BY <1>0, <1>9 DEF cf_writeblock, file, handle, TypeOK, CallsInProgress, Writing
    <2>3. QED
      BY <1>0, <1>9, <2>1, <2>2, SlotFrame, ZeroMapIsEmpty DEF cf_writeblock, file, handle
  <1>10. ASSUME NEW fin \in BOOLEAN, SyncHeader(fin), pc = "idle", st = "ready" PROVE SlotInv'
    <2>a. dirty' \in BOOLEAN
      BY <1>0, <1>10 DEF SyncHeader, SyncReturn, FreeHandle, handle, TypeOK
    <2>b. map' \in [Blocks -> Offsets] /\ dmap' \in [Blocks -> Offsets]
      BY <1>0, <1>10, ZeroMapIsEmpty DEF SyncHeader, SyncReturn, FreeHandle, handle, TypeOK
    <2>1. TypeOK'
      BY <1>0, <1>10, <2>a, <2>b DEF SyncHeader, SyncReturn, FreeHandle, handle, TypeOK
    <2>2. CallsInProgress'
      BY <1>0, <1>10 DEF SyncHeader, SyncReturn, FreeHandle, handle, TypeOK, CallsInProgress,
         Writing
    <2>3. QED
      BY <1>0, <1>10, <2>1, <2>2, SlotFrame, ZeroMapIsEmpty
      DEF SyncHeader, SyncReturn, FreeHandle, handle
  <1>11. ASSUME NEW fin \in BOOLEAN, SyncMap(fin) PROVE SlotInv'
    <2>a. dirty' \in BOOLEAN
      BY <1>0, <1>11 DEF SyncMap, SyncReturn, FreeHandle, handle, TypeOK
    <2>b. map' \in [Blocks -> Offsets] /\ dmap' \in [Blocks -> Offsets]
      BY <1>0, <1>11, ZeroMapIsEmpty DEF SyncMap, SyncReturn, FreeHandle, handle, TypeOK
    <2>1. TypeOK'
      BY <1>0, <1>11, <2>a, <2>b DEF SyncMap, SyncReturn, FreeHandle, handle, TypeOK
    <2>2. CallsInProgress'
      BY <1>0, <1>11 DEF SyncMap, SyncReturn, FreeHandle, handle, TypeOK, CallsInProgress, Writing
    <2>3. QED
      BY <1>0, <1>11, <2>1, <2>2, SlotFrame, ZeroMapIsEmpty
      DEF SyncMap, SyncReturn, FreeHandle, handle
  <1>12. ASSUME pc = "idle", FreeHandle, ret' = "ok", UNCHANGED <<file, pc, buf>> PROVE SlotInv'
    <2>a. dirty' \in BOOLEAN
      BY <1>12 DEF FreeHandle
    <2>b. map' \in [Blocks -> Offsets] /\ dmap' \in [Blocks -> Offsets]
      BY <1>0, <1>12, ZeroMapIsEmpty DEF FreeHandle, file, TypeOK
    <2>1. TypeOK'
      BY <1>0, <1>12, <2>a, <2>b DEF FreeHandle, file, TypeOK
    <2>2. CallsInProgress'
      BY <1>0, <1>12 DEF FreeHandle, file, TypeOK, CallsInProgress, Writing
    <2>3. QED
      BY <1>0, <1>12, <2>1, <2>2, SlotFrame, ZeroMapIsEmpty DEF FreeHandle, file
  <1>13. ASSUME Crash PROVE SlotInv'
    <2>a. dirty' \in BOOLEAN
      BY <1>0, <1>13 DEF Crash, FreeHandle, file, TypeOK
    <2>b. map' \in [Blocks -> Offsets] /\ dmap' \in [Blocks -> Offsets]
      BY <1>0, <1>13, ZeroMapIsEmpty DEF Crash, FreeHandle, file, TypeOK
    <2>1. TypeOK'
      BY <1>0, <1>13, <2>a, <2>b DEF Crash, FreeHandle, file, TypeOK
    <2>2. CallsInProgress'
      BY <1>0, <1>13 DEF Crash, FreeHandle, file, TypeOK, CallsInProgress, Writing
    <2>3. QED
      BY <1>0, <1>13, <2>1, <2>2, SlotFrame, ZeroMapIsEmpty DEF Crash, FreeHandle, file
  <1>14. ASSUME write_data PROVE SlotInv'
    <2>1. /\ cur \in Blocks /\ buf \in Data /\ st = "ready" /\ Len(slots) \in Nat
          /\ map[cur] = 0 => Len(slots) < MaxSlots
      BY <1>0, <1>14, LenProperties DEF write_data, CallsInProgress, Writing, TypeOK
    <2>2. TypeOK'
      BY <1>0, <1>14, WriteDataSlots DEF TypeOK, handle
    <2>3. CallsInProgress'
      BY <1>0, <1>14, <2>1, WriteDataSlots DEF CallsInProgress, Writing, handle
    <2>4. MapsLeadToOwnSlots'
      <3>1. /\ Len(slots') \in {Len(slots), Len(slots) + 1} /\ dmap' = dmap /\ map' = map
            /\ \A j \in 1 .. Len(slots) : slots'[j].blk = slots[j].blk
        BY <1>14, WriteDataSlots DEF handle
      <3>2. QED
        BY <1>0, <2>1, <3>1 DEF MapsLeadToOwnSlots, MappedSlot, Mapped
    <2>5. NewSlotIsFree'
      BY <1>0, <1>14, <2>1, WriteDataSlots DEF NewSlotIsFree, handle
    <2>6. QED
      BY <2>2, <2>3, <2>4, <2>5 DEF SlotInv
  <1>15. ASSUME write_trailer PROVE SlotInv'
    <2> DEFINE off == IF map[cur] = 0 THEN Len(slots) ELSE map[cur]
    <2>1. /\ cur \in Blocks /\ buf \in Data /\ Len(slots) \in Nat /\ Len(slots) <= MaxSlots
          /\ off \in 1 .. Len(slots) /\ slots \in Seq(cf_block) /\ st = "ready"
          /\ map[cur] = 0 => slots[off].blk = None
          /\ map[cur] # 0 => slots[off].blk = cur
      BY <1>0, <1>15, LenProperties DEF write_trailer, CallsInProgress, NewSlotIsFree, Writing,
         TypeOK, Offsets, MapsLeadToOwnSlots, MappedSlot, Mapped
    <2>2. slots[off] \in cf_block
      BY <2>1, ElementOfSeq
    <2>3. /\ pc' = "idle" /\ UNCHANGED <<hdr, dused, dmap, st, cnt, cur>>
          /\ buf' = None /\ ret' \in {"ok", "EIO"}
      BY <1>15 DEF write_trailer, WriteReturn
    <2>4. CASE slots' = [slots EXCEPT ![off].blk = cur, ![off].crc = buf]
               /\ IF map[cur] = 0 THEN RecordNewBlock(off) ELSE UNCHANGED <<map, used, dirty>>
      <3> DEFINE e == [slots[off] EXCEPT !.blk = cur, !.crc = buf]
      <3>1. e \in cf_block /\ e.blk = cur
        BY <2>1, <2>2 DEF cf_block
      <3>2. slots' = [slots EXCEPT ![off] = e]
        BY <2>4
      <3> HIDE DEF e
      <3>3. /\ slots' \in Seq(cf_block) /\ Len(slots') = Len(slots)
            /\ \A j \in 1 .. Len(slots) : slots'[j] = IF j = off THEN e ELSE slots[j]
        BY <2>1, <3>1, <3>2, SlotOverwrite
      <3>4. CASE map[cur] # 0
        <4>1. UNCHANGED <<map, used, dirty>>
          BY <2>4, <3>4
        <4>2. \A j \in 1 .. Len(slots) : slots'[j].blk = slots[j].blk
          BY <2>1, <3>1, <3>3, <3>4
        <4>3. QED
          BY <1>0, <2>1, <2>3, <3>3, <4>1, <4>2, SlotTrailer
      <3>5. CASE map[cur] = 0
        <4>1. /\ map' = [map EXCEPT ![cur] = off] /\ used' = used + 1 /\ dirty' = TRUE
          BY <2>4, <3>5 DEF RecordNewBlock
        <4>2. off \in Offsets /\ map \in [Blocks -> Offsets] /\ dmap \in [Blocks -> Offsets]
          BY <1>0, <2>1 DEF TypeOK, Offsets
        <4>3. map' \in [Blocks -> Offsets] /\ dirty' \in BOOLEAN
          BY <4>1, <4>2
        <4>4. TypeOK'
          BY <1>0, <2>3, <3>3, <4>1, <4>3 DEF TypeOK
        <4>5. CallsInProgress' /\ NewSlotIsFree'
          BY <1>0, <2>1, <2>3, <3>3 DEF CallsInProgress, NewSlotIsFree, Writing
        <4>6. \A b \in Blocks : map[b] # off /\ dmap[b] # off
          BY <1>0, <2>1, <3>5, NoneAssumption DEF MapsLeadToOwnSlots, MappedSlot, Mapped
        <4>7. \A b \in Mapped(dmap) : MappedSlot(dmap, b)'
          BY <1>0, <2>1, <2>3, <3>3, <4>6 DEF MapsLeadToOwnSlots, MappedSlot, Mapped
        <4>8. \A b \in Mapped(map) : MappedSlot(map, b)'
          BY <1>0, <2>1, <3>1, <3>3, <3>5, <4>1, <4>2, <4>6
          DEF MapsLeadToOwnSlots, MappedSlot, Mapped
        <4>9. MappedSlot(map, cur)' /\ Mapped(map)' = Mapped(map) \cup {cur} /\ Mapped(dmap)' = Mapped(dmap)
          BY <2>1, <2>3, <3>1, <3>3, <4>1, <4>2 DEF MappedSlot, Mapped
        <4>10. MapsLeadToOwnSlots'
          BY <2>3, <4>7, <4>8, <4>9 DEF MapsLeadToOwnSlots, MappedSlot
        <4>11. QED
          BY <4>4, <4>5, <4>10 DEF SlotInv
      <3>6. QED
        BY <3>4, <3>5
    <2>5. CASE slots' = slots /\ UNCHANGED <<map, used, dirty>>
      BY <1>0, <2>1, <2>3, <2>5, SlotTrailer
    <2>6. CASE /\ \E c \in {slots[off].crc, Torn, buf} : slots' = [slots EXCEPT ![off].crc = c]
               /\ UNCHANGED <<map, used, dirty>>
      <3>1. PICK c \in {slots[off].crc, Torn, buf} : slots' = [slots EXCEPT ![off].crc = c]
        BY <2>6
      <3> DEFINE e == [slots[off] EXCEPT !.crc = c]
      <3>2. e \in cf_block /\ e.blk = slots[off].blk
        BY <2>1, <2>2 DEF cf_block
      <3>3. slots' = [slots EXCEPT ![off] = e]
        BY <3>1
      <3> HIDE DEF e
      <3>4. /\ slots' \in Seq(cf_block) /\ Len(slots') = Len(slots)
            /\ \A j \in 1 .. Len(slots) : slots'[j] = IF j = off THEN e ELSE slots[j]
        BY <2>1, <3>2, <3>3, SlotOverwrite
      <3>5. \A j \in 1 .. Len(slots) : slots'[j].blk = slots[j].blk
        BY <2>1, <3>2, <3>4
      <3>6. QED
        BY <1>0, <2>1, <2>3, <2>6, <3>4, <3>5, SlotTrailer
    <2>7. QED
      BY <1>15, <2>4, <2>5, <2>6 DEF write_trailer
  <1>16. ASSUME UNCHANGED vars PROVE SlotInv'
    BY <1>0, <1>16 DEF vars, SlotInv, TypeOK, CallsInProgress, NewSlotIsFree, Writing,
                       MapsLeadToOwnSlots, MappedSlot, Mapped
  <1>17. cf_sync => pc = "idle" /\ st = "ready" /\ SyncHeader(FALSE)
    BY DEF cf_sync
  <1>18. cf_finish => \/ pc = "idle" /\ FreeHandle /\ ret' = "ok" /\ UNCHANGED <<file, pc, buf>>
                      \/ (pc = "idle" /\ st = "ready" /\ SyncHeader(TRUE))
    BY <1>0 DEF cf_finish, CallsInProgress
  <1>19. QED
    BY <1>1, <1>2, <1>3, <1>4, <1>5, <1>6, <1>7, <1>8, <1>9, <1>10, <1>11, <1>12, <1>13,
       <1>14, <1>15, <1>16, <1>17, <1>18 DEF Next, CfStep

\* The change file's state is well typed: in particular no operation puts a
\* position, an offset or a slot outside its range, whatever fails.
THEOREM TypeCorrect == Spec => []TypeOK
  <1>1. SlotInv => TypeOK
    BY DEF SlotInv
  <1>2. QED
    BY <1>1, SlotInit, SlotStep, PTL DEF Spec

\* Every entry of the map, in the file and in the handle, leads to a slot
\* whose trailer names the block, for any number of blocks and any sequence
\* of calls, failed and short writes and crashes (cf_writeblock).
THEOREM SlotsAreOwned == Spec => []MapsLeadToOwnSlots
  <1>1. SlotInv => MapsLeadToOwnSlots
    BY DEF SlotInv
  <1>2. QED
    BY <1>1, SlotInit, SlotStep, PTL DEF Spec

-----------------------------------------------------------------------------
(* The handle and the file                                                 *)

LEMMA CoverInit == Init => CoverInv
  <1> SUFFICES ASSUME Init PROVE CoverInv
    OBVIOUS
  <1>1. OnlyNewFilesAreFilled /\ HandleCoversFile
    BY DEF Init, OnlyNewFilesAreFilled, HandleCoversFile
  <1>2. QED
    BY <1>1, SlotInit DEF CoverInv

\* Every step preserves it, as long as open() fails only on missing files.
LEMMA CoverStep ==
    ASSUME ~TransientOpen, CoverInv, [Next]_vars
    PROVE  CoverInv'
  <1>0. /\ TypeOK /\ CallsInProgress /\ OnlyNewFilesAreFilled /\ HandleCoversFile
        /\ SlotInv' /\ TypeOK'
    BY SlotStep DEF CoverInv, SlotInv
  <1> SUFFICES OnlyNewFilesAreFilled' /\ HandleCoversFile'
    BY <1>0 DEF CoverInv
  <1>1. ASSUME NEW c \in Counts, cf_init(c) PROVE OnlyNewFilesAreFilled' /\ HandleCoversFile'
    <2>1. OnlyNewFilesAreFilled'
      BY <1>0, <1>1 DEF cf_init, FreshHandle, file, handle, OnlyNewFilesAreFilled, CallsInProgress
    <2>2. HandleCoversFile'
      BY <1>0, <1>1 DEF cf_init, FreshHandle, file, handle, OnlyNewFilesAreFilled,
         HandleCoversFile, CallsInProgress, Mapped, TypeOK
    <2>3. QED
      BY <2>1, <2>2
  <1>2. ASSUME cf_verify PROVE OnlyNewFilesAreFilled' /\ HandleCoversFile'
    <2>1. OnlyNewFilesAreFilled'
      BY <1>0, <1>2 DEF cf_verify, VerifyOutcome, file, OnlyNewFilesAreFilled, CallsInProgress
    <2>2. HandleCoversFile'
      BY <1>0, <1>2 DEF cf_verify, VerifyOutcome, file, OnlyNewFilesAreFilled, HandleCoversFile,
         CallsInProgress, Mapped, TypeOK
    <2>3. QED
      BY <2>1, <2>2
  <1>3. ASSUME cf_create PROVE OnlyNewFilesAreFilled' /\ HandleCoversFile'
    <2>1. OnlyNewFilesAreFilled'
      BY <1>0, <1>3 DEF cf_create, handle, OnlyNewFilesAreFilled, CallsInProgress
    <2>2. HandleCoversFile'
      BY <1>0, <1>3 DEF cf_create, handle, OnlyNewFilesAreFilled, HandleCoversFile,
         CallsInProgress, Mapped, TypeOK
    <2>3. QED
      BY <2>1, <2>2
  <1>4. ASSUME cf_create_header PROVE OnlyNewFilesAreFilled' /\ HandleCoversFile'
    <2>1. OnlyNewFilesAreFilled'
      BY <1>0, <1>4 DEF cf_create_header, CreateAfterWrite, handle, OnlyNewFilesAreFilled,
         CallsInProgress
    <2>2. HandleCoversFile'
      BY <1>0, <1>4 DEF cf_create_header, CreateAfterWrite, handle, OnlyNewFilesAreFilled,
         HandleCoversFile, CallsInProgress, Mapped, TypeOK
    <2>3. QED
      BY <2>1, <2>2
  <1>5. ASSUME cf_create_map PROVE OnlyNewFilesAreFilled' /\ HandleCoversFile'
    <2>1. dmap = ZeroMap /\ st # "ready" /\ UNCHANGED st
      BY <1>0, <1>5 DEF cf_create_map, handle, OnlyNewFilesAreFilled
    <2>2. dmap' = ZeroMap
      BY <1>5, <2>1 DEF cf_create_map, ZeroMap
    <2>3. pc' \in {"cr_init", "idle"}
      BY <1>5 DEF cf_create_map, CreateAfterWrite
    <2>4. QED
      BY <2>1, <2>2, <2>3 DEF OnlyNewFilesAreFilled, HandleCoversFile
  <1>6. ASSUME cf_create_open PROVE OnlyNewFilesAreFilled' /\ HandleCoversFile'
    <2>1. OnlyNewFilesAreFilled'
      BY <1>0, <1>6 DEF cf_create_open, VerifyOutcome, FreshHandle, file, handle,
         OnlyNewFilesAreFilled, CallsInProgress
    <2>2. HandleCoversFile'
      BY <1>0, <1>6 DEF cf_create_open, VerifyOutcome, FreshHandle, file, handle,
         OnlyNewFilesAreFilled, HandleCoversFile, CallsInProgress, Mapped, TypeOK
    <2>3. QED
      BY <2>1, <2>2
  <1>7. ASSUME NEW b \in 0 .. N + 1, cf_seek(b) PROVE OnlyNewFilesAreFilled' /\ HandleCoversFile'
    <2>1. OnlyNewFilesAreFilled'
      BY <1>0, <1>7 DEF cf_seek, file, OnlyNewFilesAreFilled, CallsInProgress
    <2>2. HandleCoversFile'
      BY <1>0, <1>7 DEF cf_seek, file, OnlyNewFilesAreFilled, HandleCoversFile, CallsInProgress,
         Mapped, TypeOK
    <2>3. QED
      BY <2>1, <2>2
  <1>8. ASSUME cf_readblock PROVE OnlyNewFilesAreFilled' /\ HandleCoversFile'
    <2>1. OnlyNewFilesAreFilled'
      BY <1>0, <1>8 DEF cf_readblock, file, handle, OnlyNewFilesAreFilled, CallsInProgress
    <2>2. HandleCoversFile'
      BY <1>0, <1>8 DEF cf_readblock, file, handle, OnlyNewFilesAreFilled, HandleCoversFile,
         CallsInProgress, Mapped, TypeOK
    <2>3. QED
      BY <2>1, <2>2
  <1>9. ASSUME NEW d \in Data, cf_writeblock(d) PROVE OnlyNewFilesAreFilled' /\ HandleCoversFile'
    <2>1. OnlyNewFilesAreFilled'
      BY <1>0, <1>9 DEF cf_writeblock, file, handle, OnlyNewFilesAreFilled, CallsInProgress
    <2>2. HandleCoversFile'
      BY <1>0, <1>9 DEF cf_writeblock, file, handle, OnlyNewFilesAreFilled, HandleCoversFile,
         CallsInProgress, Mapped, TypeOK
    <2>3. QED
      BY <2>1, <2>2
  <1>10. ASSUME NEW fin \in BOOLEAN, SyncHeader(fin), st = "ready" PROVE OnlyNewFilesAreFilled' /\ HandleCoversFile'
    <2>1. OnlyNewFilesAreFilled'
      BY <1>0, <1>10 DEF SyncHeader, SyncReturn, FreeHandle, handle, OnlyNewFilesAreFilled,
         CallsInProgress
    <2>2. HandleCoversFile'
      BY <1>0, <1>10 DEF SyncHeader, SyncReturn, FreeHandle, handle, OnlyNewFilesAreFilled,
         HandleCoversFile, CallsInProgress, Mapped, TypeOK
    <2>3. QED
      BY <2>1, <2>2
  <1>11. ASSUME NEW fin \in BOOLEAN, SyncMap(fin) PROVE OnlyNewFilesAreFilled' /\ HandleCoversFile'
    <2>1. OnlyNewFilesAreFilled'
      BY <1>0, <1>11 DEF SyncMap, SyncReturn, FreeHandle, handle, OnlyNewFilesAreFilled,
         CallsInProgress
    <2>2. HandleCoversFile'
      BY <1>0, <1>11 DEF SyncMap, SyncReturn, FreeHandle, handle, OnlyNewFilesAreFilled,
         HandleCoversFile, CallsInProgress, Mapped, TypeOK
    <2>3. QED
      BY <2>1, <2>2
  <1>12. ASSUME FreeHandle, pc' = "idle", UNCHANGED file PROVE OnlyNewFilesAreFilled' /\ HandleCoversFile'
    <2>1. OnlyNewFilesAreFilled'
      BY <1>0, <1>12 DEF FreeHandle, file, OnlyNewFilesAreFilled, CallsInProgress
    <2>2. HandleCoversFile'
      BY <1>0, <1>12 DEF FreeHandle, file, OnlyNewFilesAreFilled, HandleCoversFile,
         CallsInProgress, Mapped, TypeOK
    <2>3. QED
      BY <2>1, <2>2
  <1>13. ASSUME write_data PROVE OnlyNewFilesAreFilled' /\ HandleCoversFile'
    <2>1. OnlyNewFilesAreFilled'
      BY <1>0, <1>13 DEF write_data, WriteReturn, handle, OnlyNewFilesAreFilled, CallsInProgress
    <2>2. HandleCoversFile'
      BY <1>0, <1>13 DEF write_data, WriteReturn, handle, OnlyNewFilesAreFilled, HandleCoversFile,
         CallsInProgress, Mapped, TypeOK
    <2>3. QED
      BY <2>1, <2>2
  <1>14. ASSUME write_trailer PROVE OnlyNewFilesAreFilled' /\ HandleCoversFile'
    <2>1. OnlyNewFilesAreFilled'
      BY <1>0, <1>14 DEF write_trailer, WriteReturn, RecordNewBlock, OnlyNewFilesAreFilled,
         CallsInProgress
    <2>2. HandleCoversFile'
      BY <1>0, <1>14 DEF write_trailer, WriteReturn, RecordNewBlock, OnlyNewFilesAreFilled,
         HandleCoversFile, CallsInProgress, Mapped, TypeOK
    <2>3. QED
      BY <2>1, <2>2
  <1>15. ASSUME UNCHANGED vars PROVE OnlyNewFilesAreFilled' /\ HandleCoversFile'
    <2>1. OnlyNewFilesAreFilled'
      BY <1>0, <1>15 DEF vars, OnlyNewFilesAreFilled, CallsInProgress
    <2>2. HandleCoversFile'
      BY <1>0, <1>15 DEF vars, OnlyNewFilesAreFilled, HandleCoversFile, CallsInProgress, Mapped,
         TypeOK
    <2>3. QED
      BY <2>1, <2>2
  <1>16. cf_sync => st = "ready" /\ SyncHeader(FALSE)
    BY DEF cf_sync
  <1>17. cf_finish => \/ FreeHandle /\ pc' = "idle" /\ UNCHANGED file
                      \/ st = "ready" /\ SyncHeader(TRUE)
    BY <1>0 DEF cf_finish, CallsInProgress
  <1>18. Crash => FreeHandle /\ pc' = "idle" /\ UNCHANGED file
    BY DEF Crash
  <1>19. QED
    BY <1>1, <1>2, <1>3, <1>4, <1>5, <1>6, <1>7, <1>8, <1>9, <1>10, <1>11, <1>12, <1>13,
       <1>14, <1>15, <1>16, <1>17, <1>18 DEF Next, CfStep

\* A verified handle knows every block of the file's map, and is dirty when it
\* knows more, so that cf_finish writes what would be lost (cf_sync, cf_finish).
THEOREM HandleCovers ==
    ASSUME ~TransientOpen
    PROVE  Spec => []HandleCoversFile
  <1>1. CoverInv /\ [Next]_vars => CoverInv'
    BY CoverStep
  <1>2. CoverInv => HandleCoversFile
    BY DEF CoverInv
  <1>3. QED
    BY <1>1, <1>2, CoverInit, PTL DEF Spec

\* No step changes or removes an entry of the map in the file: not cf_sync,
\* however it fails, and not the cf_create of a later session.
THEOREM EntriesArePermanent ==
    ASSUME ~TransientOpen
    PROVE  Spec => MapEntriesArePermanent
  <1>1. CoverInv /\ [Next]_vars => CoverInv'
    BY CoverStep
  <1>2. ASSUME CoverInv, [Next]_vars PROVE [\A b \in Mapped(dmap) : dmap'[b] = dmap[b]]_vars
    <2>0. TypeOK /\ CallsInProgress /\ OnlyNewFilesAreFilled /\ HandleCoversFile
      BY <1>2 DEF CoverInv, SlotInv
    <2> SUFFICES ASSUME NEW b \in Mapped(dmap), Next PROVE dmap'[b] = dmap[b]
      BY <1>2
    <2>1. b \in Blocks /\ dmap # ZeroMap
      BY ZeroMapIsEmpty DEF Mapped
    <2>2. CASE cf_create_map
      BY <2>0, <2>1, <2>2 DEF cf_create_map, OnlyNewFilesAreFilled
    <2>3. ASSUME NEW fin \in BOOLEAN, SyncMap(fin) PROVE dmap'[b] = dmap[b]
      <3>1. map[b] = dmap[b]
        BY <2>0, <2>3 DEF SyncMap, CallsInProgress, HandleCoversFile
      <3>2. QED
        BY <2>1, <2>3, <3>1 DEF SyncMap
    <2>4. CASE dmap' = dmap
      BY <2>4
    <2>5. QED
      BY <2>2, <2>3, <2>4 DEF Next, CfStep, cf_init, cf_verify, cf_create, cf_create_header,
         cf_create_open, cf_seek, cf_readblock, cf_writeblock, cf_sync, cf_finish, SyncHeader,
         write_data, write_trailer, Crash, file
  <1>3. QED
    BY <1>1, <1>2, CoverInit, PTL DEF Spec, MapEntriesArePermanent

\* A file that is not a whole change file has no block: what cf_create was
\* killed or failed in the middle of is never opened for writing as it is, by
\* this session or a later one (cf_create, cf_verify).
THEOREM MapGoesFirst ==
    ASSUME ~TransientOpen
    PROVE  Spec => []NoBlockBeforeMap
  <1> DEFINE NoSlots == hdr # "valid" => slots = <<>>
  <1>1. Init => NoSlots
    BY DEF Init
  <1>2. CoverInv /\ [Next]_vars => CoverInv'
    BY CoverStep
  <1>3. ASSUME CoverInv, NoSlots, [Next]_vars PROVE NoSlots'
    <2>0. CallsInProgress /\ OnlyNewFilesAreFilled
      BY <1>3 DEF CoverInv, SlotInv
    <2>1. CASE write_data
      BY <2>0, <2>1 DEF write_data, CallsInProgress, Writing, OnlyNewFilesAreFilled
    <2>2. CASE write_trailer
      BY <2>0, <2>2 DEF write_trailer, CallsInProgress, Writing, OnlyNewFilesAreFilled
    <2>3. CASE slots' = slots /\ (hdr = "valid" => hdr' = "valid")
      BY <1>3, <2>3
    <2>4. CASE cf_create
      BY <2>3, <2>4 DEF cf_create
    <2>5. CASE cf_create_header
      BY <2>3, <2>5 DEF cf_create_header
    <2>6. CASE cf_create_map
      BY <2>3, <2>6 DEF cf_create_map
    <2>7. CASE UNCHANGED <<hdr, slots>>
      BY <2>3, <2>7
    <2>8. QED
      BY <1>3, <2>1, <2>2, <2>4, <2>5, <2>6, <2>7 DEF Next, CfStep, cf_init, cf_verify,
         cf_create_open, cf_seek, cf_readblock, cf_writeblock, cf_sync, cf_finish, SyncHeader,
         SyncMap, Crash, file, vars
  <1>4. CoverInv /\ NoSlots => NoBlockBeforeMap
    BY ZeroMapIsEmpty DEF CoverInv, OnlyNewFilesAreFilled, NoBlockBeforeMap
  <1>5. QED
    BY <1>1, <1>2, <1>3, <1>4, CoverInit, PTL DEF Spec

-----------------------------------------------------------------------------
(* The used count                                                          *)

LEMMA MappedCount ==
    ASSUME NEW m, NEW n, NEW c
    PROVE  /\ IsFiniteSet(Mapped(m)) /\ Cardinality(Mapped(m)) \in Nat
           /\ Mapped(m) \subseteq Mapped(n) => Cardinality(Mapped(m)) <= Cardinality(Mapped(n))
           /\ Mapped(m) = Mapped(n) \cup {c} => Cardinality(Mapped(m)) <= Cardinality(Mapped(n)) + 1
  <1>1. IsFiniteSet(Blocks)
    BY NAssumption, FS_Interval DEF Blocks
  <1>2. IsFiniteSet(Mapped(m)) /\ IsFiniteSet(Mapped(n))
    BY <1>1, FS_Subset DEF Mapped
  <1>3. QED
    BY <1>2, FS_CardinalityType, FS_Subset, FS_AddElement

LEMMA CountInit == Init => CountInv
  <1> SUFFICES ASSUME Init PROVE CountInv
    OBVIOUS
  <1>1. CountGoesFirst
    BY DEF Init, CountGoesFirst
  <1>2. Cardinality(Mapped(dmap)) = 0 /\ Cardinality(Mapped(map)) = 0 /\ Len(slots) = 0
    BY ZeroMapIsEmpty, FS_EmptySet DEF Init
  <1>3. UsedCountCoversMap
    BY <1>2 DEF Init, UsedCountCoversMap
  <1>4. QED
    BY <1>1, <1>3, CoverInit DEF CountInv

\* The steps that add no block.  Each pair of map and count is one that was
\* there, or the file's map with an added part of the handle's.
LEMMA CountFrame ==
    ASSUME TypeOK, UsedCountCoversMap, Mapped(dmap) \subseteq Mapped(map) \/ dused' = dused,
           Len(slots) <= Len(slots'), Len(slots) \in Nat, Len(slots') \in Nat,
           \/ Mapped(map') = {} /\ used' = 0
           \/ map' = map /\ used' = used
           \/ map' = dmap /\ used' = dused,
           \/ Mapped(dmap') = {} /\ dused' \in {0, dused}
           \/ dmap' = dmap /\ dused' \in {used, dused}
           \/ Mapped(dmap') \subseteq Mapped(map) /\ dused' = used
    PROVE  UsedCountCoversMap'
  <1>1. /\ Cardinality(Mapped(map)) <= used /\ Cardinality(Mapped(dmap)) <= dused
        /\ dused <= Len(slots) /\ used <= Len(slots) /\ used \in Nat /\ dused \in Nat
    BY DEF UsedCountCoversMap, TypeOK
  <1>2. /\ Cardinality(Mapped(map)) \in Nat /\ Cardinality(Mapped(dmap)) \in Nat
        /\ Mapped(dmap) \subseteq Mapped(map) => Cardinality(Mapped(dmap)) <= Cardinality(Mapped(map))
        /\ Mapped(dmap') \subseteq Mapped(map) => Cardinality(Mapped(dmap')) <= Cardinality(Mapped(map))
        /\ Cardinality(Mapped(dmap')) \in Nat
    BY MappedCount
  <1>3. Cardinality(Mapped(map')) <= used' /\ used' <= Len(slots')
    <2>1. CASE Mapped(map') = {} /\ used' = 0
      BY <2>1, FS_EmptySet
    <2>2. CASE map' = map /\ used' = used
      <3>1. Mapped(map') = Mapped(map)
        BY <2>2
      <3>2. QED
        BY <1>1, <2>2, <3>1
    <2>3. CASE map' = dmap /\ used' = dused
      <3>1. Mapped(map') = Mapped(dmap)
        BY <2>3
      <3>2. QED
        BY <1>1, <2>3, <3>1
    <2>4. QED
      BY <2>1, <2>2, <2>3
  <1>4. Cardinality(Mapped(dmap')) <= dused' /\ dused' <= Len(slots')
    BY <1>1, <1>2, FS_EmptySet
  <1>5. QED
    BY <1>3, <1>4 DEF UsedCountCoversMap, Mapped

LEMMA CountStep ==
    ASSUME ~TransientOpen, CountInv, [Next]_vars
    PROVE  CountInv'
  <1>0. /\ TypeOK /\ CallsInProgress /\ OnlyNewFilesAreFilled /\ HandleCoversFile /\ CountGoesFirst
        /\ UsedCountCoversMap /\ CoverInv' /\ TypeOK'
    BY CoverStep DEF CountInv, CoverInv, SlotInv
  <1>a. Len(slots) \in Nat /\ Len(slots') \in Nat
    BY <1>0, LenProperties DEF TypeOK
  <1>b. st = "ready" => Mapped(dmap) \subseteq Mapped(map)
    BY <1>0 DEF HandleCoversFile, Mapped
  <1>z. Mapped(ZeroMap) = {}
    BY ZeroMapIsEmpty
  <1> SUFFICES CountGoesFirst' /\ UsedCountCoversMap'
    BY <1>0 DEF CountInv
  <1>1. ASSUME NEW c \in Counts, cf_init(c) PROVE CountGoesFirst' /\ UsedCountCoversMap'
    <2>1. CountGoesFirst'
      BY <1>0, <1>1 DEF cf_init, FreshHandle, file, handle, CountGoesFirst
    <2>2. UsedCountCoversMap'
      BY <1>0, <1>a, <1>b, <1>z, <1>1, CountFrame
      DEF cf_init, FreshHandle, file, handle, CountGoesFirst
    <2>3. QED
      BY <2>1, <2>2
  <1>2. ASSUME cf_verify PROVE CountGoesFirst' /\ UsedCountCoversMap'
    <2>1. CountGoesFirst'
      BY <1>0, <1>2 DEF cf_verify, VerifyOutcome, file, CountGoesFirst
    <2>2. UsedCountCoversMap'
      BY <1>0, <1>a, <1>b, <1>z, <1>2, CountFrame DEF cf_verify, VerifyOutcome, file, CountGoesFirst
    <2>3. QED
      BY <2>1, <2>2
  <1>3. ASSUME cf_create PROVE CountGoesFirst' /\ UsedCountCoversMap'
    <2>1. CountGoesFirst'
      BY <1>0, <1>3 DEF cf_create, handle, CountGoesFirst
    <2>2. UsedCountCoversMap'
      BY <1>0, <1>a, <1>b, <1>z, <1>3, CountFrame DEF cf_create, handle, CountGoesFirst
    <2>3. QED
      BY <2>1, <2>2
  <1>4. ASSUME cf_create_header PROVE CountGoesFirst' /\ UsedCountCoversMap'
    <2>1. CountGoesFirst'
      BY <1>0, <1>4 DEF cf_create_header, CreateAfterWrite, handle, OnlyNewFilesAreFilled,
         CountGoesFirst
    <2>2. UsedCountCoversMap'
      BY <1>0, <1>a, <1>b, <1>z, <1>4, CountFrame
      DEF cf_create_header, CreateAfterWrite, handle, OnlyNewFilesAreFilled, CountGoesFirst
    <2>3. QED
      BY <2>1, <2>2
  <1>5. ASSUME cf_create_map PROVE CountGoesFirst' /\ UsedCountCoversMap'
    <2>1. CountGoesFirst'
      BY <1>0, <1>5 DEF cf_create_map, CreateAfterWrite, handle, OnlyNewFilesAreFilled, ZeroMap,
         CountGoesFirst
    <2>2. UsedCountCoversMap'
      BY <1>0, <1>a, <1>b, <1>z, <1>5, CountFrame
      DEF cf_create_map, CreateAfterWrite, handle, OnlyNewFilesAreFilled, ZeroMap, CountGoesFirst
    <2>3. QED
      BY <2>1, <2>2
  <1>6. ASSUME cf_create_open PROVE CountGoesFirst' /\ UsedCountCoversMap'
    <2>1. CountGoesFirst'
      BY <1>0, <1>6 DEF cf_create_open, VerifyOutcome, FreshHandle, file, handle, CountGoesFirst
    <2>2. UsedCountCoversMap'
      BY <1>0, <1>a, <1>b, <1>z, <1>6, CountFrame
      DEF cf_create_open, VerifyOutcome, FreshHandle, file, handle, CountGoesFirst
    <2>3. QED
      BY <2>1, <2>2
  <1>7. ASSUME NEW b \in 0 .. N + 1, cf_seek(b) PROVE CountGoesFirst' /\ UsedCountCoversMap'
    <2>1. CountGoesFirst'
      BY <1>0, <1>7 DEF cf_seek, file, CountGoesFirst
    <2>2. UsedCountCoversMap'
      BY <1>0, <1>a, <1>b, <1>z, <1>7, CountFrame DEF cf_seek, file, CountGoesFirst
    <2>3. QED
      BY <2>1, <2>2
  <1>8. ASSUME cf_readblock PROVE CountGoesFirst' /\ UsedCountCoversMap'
    <2>1. CountGoesFirst'
      BY <1>0, <1>8 DEF cf_readblock, file, handle, CountGoesFirst
    <2>2. UsedCountCoversMap'
      BY <1>0, <1>a, <1>b, <1>z, <1>8, CountFrame DEF cf_readblock, file, handle, CountGoesFirst
    <2>3. QED
      BY <2>1, <2>2
  <1>9. ASSUME NEW d \in Data, cf_writeblock(d) PROVE CountGoesFirst' /\ UsedCountCoversMap'
    <2>1. CountGoesFirst'
      BY <1>0, <1>9 DEF cf_writeblock, file, handle, CountGoesFirst
    <2>2. UsedCountCoversMap'
      BY <1>0, <1>a, <1>b, <1>z, <1>9, CountFrame DEF cf_writeblock, file, handle, CountGoesFirst
    <2>3. QED
      BY <2>1, <2>2
  <1>10. ASSUME NEW fin \in BOOLEAN, SyncHeader(fin), st = "ready" PROVE CountGoesFirst' /\ UsedCountCoversMap'
    <2>1. CountGoesFirst'
      BY <1>0, <1>10 DEF SyncHeader, SyncReturn, FreeHandle, handle, CountGoesFirst
    <2>2. UsedCountCoversMap'
      BY <1>0, <1>a, <1>b, <1>z, <1>10, CountFrame
      DEF SyncHeader, SyncReturn, FreeHandle, handle, CountGoesFirst
    <2>3. QED
      BY <2>1, <2>2
  <1>11. ASSUME NEW fin \in BOOLEAN, SyncMap(fin) PROVE CountGoesFirst' /\ UsedCountCoversMap'
    <2>1. CountGoesFirst'
      BY <1>0, <1>11 DEF SyncMap, SyncReturn, FreeHandle, handle, CallsInProgress, Mapped,
         CountGoesFirst
    <2>2. UsedCountCoversMap'
      BY <1>0, <1>a, <1>b, <1>z, <1>11, CountFrame
      DEF SyncMap, SyncReturn, FreeHandle, handle, CallsInProgress, Mapped, CountGoesFirst
    <2>3. QED
      BY <2>1, <2>2
  <1>12. ASSUME FreeHandle, pc' = "idle", UNCHANGED file PROVE CountGoesFirst' /\ UsedCountCoversMap'
    <2>1. CountGoesFirst'
      BY <1>0, <1>12 DEF FreeHandle, file, CountGoesFirst
    <2>2. UsedCountCoversMap'
      BY <1>0, <1>a, <1>b, <1>z, <1>12, CountFrame DEF FreeHandle, file, CountGoesFirst
    <2>3. QED
      BY <2>1, <2>2
  <1>13. ASSUME write_data PROVE CountGoesFirst' /\ UsedCountCoversMap'
    <2>1. SlotInv
      BY DEF CountInv, CoverInv
    <2>2. UsedCountCoversMap'
      BY <1>0, <1>a, <1>13, <2>1, WriteDataSlots, CountFrame DEF handle
    <2>3. used <= Len(slots) /\ used \in Nat
      BY <1>0 DEF UsedCountCoversMap, TypeOK
    <2>4. CountGoesFirst'
      BY <1>a, <1>13, <2>1, <2>3, WriteDataSlots DEF handle, CountGoesFirst
    <2>5. QED
      BY <2>2, <2>4
  <1>14. ASSUME write_trailer PROVE CountGoesFirst' /\ UsedCountCoversMap'
    <2>1. CountGoesFirst' /\ UNCHANGED <<dused, dmap, cur>>
      BY <1>14 DEF write_trailer, WriteReturn, CountGoesFirst
    <2>2. DOMAIN slots' = DOMAIN slots
      BY <1>14 DEF write_trailer
    <2>3. Len(slots') = Len(slots)
      BY <1>0, <1>a, <2>2, LenProperties DEF TypeOK
    <2>4. CASE UNCHANGED <<map, used>>
      BY <1>0, <1>a, <2>1, <2>3, <2>4, CountFrame
    <2>5. CASE map[cur] = 0 /\ RecordNewBlock(Len(slots))
      <3>1. /\ cur \in Blocks /\ map \in [Blocks -> Offsets]
            /\ used \in Nat /\ used < Len(slots)
        BY <1>0, <1>14, <2>5 DEF write_trailer, CallsInProgress, Writing, TypeOK, CountGoesFirst
      <3>2. Mapped(map') = Mapped(map) \cup {cur}
        BY <1>a, <2>5, <3>1 DEF RecordNewBlock, Mapped
      <3>3. Cardinality(Mapped(map')) <= Cardinality(Mapped(map)) + 1 /\ Cardinality(Mapped(map)) \in Nat
            /\ Cardinality(Mapped(map')) \in Nat
        BY <3>2, MappedCount
      <3>4. /\ Cardinality(Mapped(map)) <= used /\ Cardinality(Mapped(dmap)) <= dused
            /\ dused <= Len(slots) /\ used \in Nat /\ used' = used + 1
        BY <1>0, <2>5 DEF UsedCountCoversMap, TypeOK, RecordNewBlock
      <3>5. Cardinality(Mapped(map')) <= used' /\ used' <= Len(slots')
        BY <1>a, <2>3, <3>1, <3>3, <3>4
      <3>6. Cardinality(Mapped(dmap')) <= dused' /\ dused' <= Len(slots')
        BY <2>1, <2>3, <3>4
      <3>7. QED
        BY <2>1, <3>5, <3>6 DEF UsedCountCoversMap, Mapped
    <2>6. QED
      BY <1>14, <2>1, <2>4, <2>5 DEF write_trailer
  <1>15. ASSUME UNCHANGED vars PROVE CountGoesFirst' /\ UsedCountCoversMap'
    BY <1>0, <1>15 DEF vars, CountGoesFirst, UsedCountCoversMap, Mapped
  <1>16. cf_sync => st = "ready" /\ SyncHeader(FALSE)
    BY DEF cf_sync
  <1>17. cf_finish => \/ FreeHandle /\ pc' = "idle" /\ UNCHANGED file
                      \/ st = "ready" /\ SyncHeader(TRUE)
    BY <1>0 DEF cf_finish, CallsInProgress
  <1>18. Crash => FreeHandle /\ pc' = "idle" /\ UNCHANGED file
    BY DEF Crash
  <1>19. QED
    BY <1>1, <1>2, <1>3, <1>4, <1>5, <1>6, <1>7, <1>8, <1>9, <1>10, <1>11, <1>12, <1>13,
       <1>14, <1>15, <1>16, <1>17, <1>18 DEF Next, CfStep

\* The used count covers the map, in the file too, even when the process is
\* killed between the header and the map of cf_sync, and never exceeds the
\* number of slots.
THEOREM UsedCountCovers ==
    ASSUME ~TransientOpen
    PROVE  Spec => []UsedCountCoversMap
  <1>1. CountInv /\ [Next]_vars => CountInv'
    BY CountStep
  <1>2. CountInv => UsedCountCoversMap
    BY DEF CountInv
  <1>3. QED
    BY <1>1, <1>2, CountInit, PTL DEF Spec

-----------------------------------------------------------------------------
(* The overlay: the invariant                                              *)

\* The slot that the write in progress fills.
OwnSlot == IF map[cur] = 0 THEN Len(slots) ELSE map[cur]

\* The data is in place before the trailer is written.
DataGoesFirst == pc = "wr_trl" => slots[OwnSlot].data = buf

\* cf_create runs beside a handle that nothing was written through.
CreatesBesideClean == pc \in {"cr_hdr", "cr_map", "cr_init"} => ~dirty

OverlayInv == CoverInv /\ DataGoesFirst /\ CreatesBesideClean

\* What was acknowledged is what the handle, or else a new one, reads.
AckedIsKept ==
    \A b \in Blocks : acked[b] # None /\ ~(Writing /\ b = cur) => volBar[b] = acked[b]

-----------------------------------------------------------------------------
(* The two writes of cf_writeblock                                         *)

\* What is known while a block is being written.
LEMMA WritingFacts ==
    ASSUME CoverInv, Writing
    PROVE  /\ cur \in Blocks /\ buf \in Data /\ st = "ready"
           /\ slots \in Seq(cf_block) /\ Len(slots) \in Nat /\ DOMAIN slots = 1 .. Len(slots)
           /\ map \in [Blocks -> Nat] /\ dmap \in [Blocks -> Nat]
           /\ \A b \in Blocks : map[b] # 0 => map[b] \in 1 .. Len(slots) /\ slots[map[b]].blk = b
           /\ \A b \in Blocks : dmap[b] # 0 => dmap[b] = map[b]
           /\ \A i \in 1 .. Len(slots) : slots[i] \in cf_block
  <1>1. TypeOK /\ CallsInProgress /\ MapsLeadToOwnSlots /\ HandleCoversFile
    BY DEF CoverInv, SlotInv
  <1>2. cur \in Blocks /\ buf \in Data /\ st = "ready"
    BY <1>1 DEF CallsInProgress
  <1>3. slots \in Seq(cf_block) /\ Len(slots) \in Nat /\ DOMAIN slots = 1 .. Len(slots)
    BY <1>1, LenProperties DEF TypeOK
  <1>4. map \in [Blocks -> Nat] /\ dmap \in [Blocks -> Nat]
    BY <1>1, BoundAssumption DEF TypeOK, Offsets
  <1>5. \A b \in Blocks : map[b] # 0 => map[b] \in 1 .. Len(slots) /\ slots[map[b]].blk = b
    BY <1>1 DEF MapsLeadToOwnSlots, MappedSlot, Mapped
  <1>6. \A b \in Blocks : dmap[b] # 0 => dmap[b] = map[b]
    BY <1>1, <1>2 DEF HandleCoversFile, Mapped
  <1>7. \A i \in 1 .. Len(slots) : slots[i] \in cf_block
    BY <1>3, ElementOfSeq
  <1>8. QED
    BY <1>2, <1>3, <1>4, <1>5, <1>6, <1>7

\* The write of the data changes the data of the block's own slot, or adds
\* one to the end.
LEMMA DataWrite ==
    ASSUME OverlayInv, write_data
    PROVE  /\ UNCHANGED <<dmap, handle>> /\ pc' \in {"idle", "wr_trl"}
           /\ \A j \in 1 .. Len(slots) : j # map[cur] => slots'[j] = slots[j]
           /\ map[cur] # 0 => /\ slots'[map[cur]].blk = cur
                              /\ slots'[map[cur]].crc = slots[map[cur]].crc
                              /\ slots'[map[cur]].data \in {buf, Torn, slots[map[cur]].data}
           /\ pc' = "wr_trl" => buf' = buf /\ slots'[OwnSlot'].data = buf
  <1> DEFINE off == map[cur]
  <1>1. Writing /\ CoverInv
    BY DEF write_data, Writing, OverlayInv
  <1>2. /\ cur \in Blocks /\ slots \in Seq(cf_block) /\ Len(slots) \in Nat
        /\ DOMAIN slots = 1 .. Len(slots) /\ off \in Nat
        /\ off # 0 => off \in 1 .. Len(slots) /\ slots[off].blk = cur /\ slots[off] \in cf_block
    BY <1>1, WritingFacts
  <1>3. UNCHANGED <<dmap, handle>> /\ pc' \in {"idle", "wr_trl"} /\ (pc' = "wr_trl" => buf' = buf)
    BY DEF write_data, WriteReturn
  <1>4. CASE slots' = slots /\ pc' = "idle"
    BY <1>2, <1>3, <1>4
  <1>5. ASSUME NEW x, off = 0, x = buf \/ pc' = "idle",
               slots' = Append(slots, [data |-> x, blk |-> None, crc |-> None])
        PROVE  /\ \A j \in 1 .. Len(slots) : slots'[j] = slots[j]
               /\ pc' = "wr_trl" => slots'[OwnSlot'].data = buf
    <2>1. Len(slots') = Len(slots) + 1 /\ slots'[Len(slots) + 1].data = x
      BY <1>2, <1>5, AppendProperties
    <2>2. \A j \in 1 .. Len(slots) : slots'[j] = slots[j]
      BY <1>2, <1>5, AppendProperties
    <2>3. OwnSlot' = Len(slots')
      BY <1>3, <1>5 DEF OwnSlot, handle
    <2>4. QED
      BY <1>5, <2>1, <2>2, <2>3
  <1>6. ASSUME NEW x, off # 0, x = buf \/ pc' = "idle", slots' = [slots EXCEPT ![off].data = x]
        PROVE  /\ \A j \in 1 .. Len(slots) : j # off => slots'[j] = slots[j]
               /\ slots'[off].blk = cur /\ slots'[off].crc = slots[off].crc /\ slots'[off].data = x
               /\ pc' = "wr_trl" => slots'[OwnSlot'].data = buf
    <2>1. \A j \in 1 .. Len(slots) : j # off => slots'[j] = slots[j]
      BY <1>2, <1>6
    <2>2. slots'[off].blk = cur /\ slots'[off].crc = slots[off].crc /\ slots'[off].data = x
      BY <1>2, <1>6 DEF cf_block
    <2>3. OwnSlot' = off
      BY <1>3, <1>6 DEF OwnSlot, handle
    <2>4. QED
      BY <1>6, <2>1, <2>2, <2>3
  <1>7. \/ slots' = slots /\ pc' = "idle"
        \/ \E x \in {buf, Torn} \cup {slots[off].data} :
              /\ x = buf \/ pc' = "idle"
              /\ \/ off = 0 /\ slots' = Append(slots, [data |-> x, blk |-> None, crc |-> None])
                 \/ off # 0 /\ slots' = [slots EXCEPT ![off].data = x]
    BY DEF write_data, WriteReturn, BlockOffset
  <1>8. QED
    BY <1>2, <1>3, <1>4, <1>5, <1>6, <1>7

\* The write of the trailer changes the block's own slot, and a new block
\* enters the map with a trailer that matches.
LEMMA TrailerWrite ==
    ASSUME OverlayInv, write_trailer
    PROVE  /\ UNCHANGED <<dmap, st, cur>> /\ pc' = "idle" /\ buf' = None
           /\ slots[OwnSlot].data = buf
           /\ \A j \in 1 .. Len(slots) : j # OwnSlot => slots'[j] = slots[j]
           /\ DOMAIN slots' = DOMAIN slots
           /\ \/ /\ map' = map /\ map[cur] # 0
                 /\ slots'[map[cur]].data = buf /\ slots'[map[cur]].blk = cur
                 /\ slots'[map[cur]].crc \in {slots[map[cur]].crc, Torn, buf}
              \/ map' = map /\ map[cur] = 0
              \/ /\ map[cur] = 0 /\ map' = [map EXCEPT ![cur] = OwnSlot]
                 /\ slots'[OwnSlot] = [data |-> buf, blk |-> cur, crc |-> buf]
  <1> DEFINE off == IF map[cur] = 0 THEN Len(slots) ELSE map[cur]
  <1>1. Writing /\ CoverInv /\ DataGoesFirst /\ pc = "wr_trl" /\ NewSlotIsFree
    BY DEF write_trailer, Writing, OverlayInv, CoverInv, SlotInv
  <1>2. /\ cur \in Blocks /\ slots \in Seq(cf_block) /\ Len(slots) \in Nat
        /\ DOMAIN slots = 1 .. Len(slots) /\ map \in [Blocks -> Nat]
        /\ \A b \in Blocks : map[b] # 0 => map[b] \in 1 .. Len(slots) /\ slots[map[b]].blk = b
        /\ \A i \in 1 .. Len(slots) : slots[i] \in cf_block
    BY <1>1, WritingFacts
  <1>3. /\ off = OwnSlot /\ off \in 1 .. Len(slots) /\ slots[off].data = buf /\ slots[off] \in cf_block
        /\ map[cur] # 0 => off = map[cur] /\ slots[off].blk = cur
    BY <1>1, <1>2 DEF OwnSlot, DataGoesFirst, NewSlotIsFree
  <1>4. UNCHANGED <<dmap, st, cur>> /\ pc' = "idle" /\ buf' = None
    BY DEF write_trailer, WriteReturn
  <1>5. CASE /\ slots' = [slots EXCEPT ![off].blk = cur, ![off].crc = buf]
             /\ IF map[cur] = 0 THEN RecordNewBlock(off) ELSE UNCHANGED <<map, used, dirty>>
    <2>1. DOMAIN slots' = DOMAIN slots /\ \A j \in 1 .. Len(slots) : j # off => slots'[j] = slots[j]
      BY <1>2, <1>3, <1>5
    <2>2. slots'[off] = [data |-> buf, blk |-> cur, crc |-> buf]
      BY <1>2, <1>3, <1>5 DEF cf_block
    <2>3. \/ map[cur] # 0 /\ map' = map
          \/ map[cur] = 0 /\ map' = [map EXCEPT ![cur] = off]
      BY <1>5 DEF RecordNewBlock
    <2>4. QED
      BY <1>3, <1>4, <2>1, <2>2, <2>3
  <1>6. CASE slots' = slots /\ UNCHANGED <<map, used, dirty>>
    BY <1>2, <1>3, <1>4, <1>6
  <1>7. ASSUME NEW c \in {slots[off].crc} \cup IF map[cur] = 0 THEN {} ELSE {Torn, buf},
               slots' = [slots EXCEPT ![off].crc = c], UNCHANGED <<map, used, dirty>>
        PROVE  /\ DOMAIN slots' = DOMAIN slots
               /\ \A j \in 1 .. Len(slots) : j # off => slots'[j] = slots[j]
               /\ slots'[off].data = buf /\ slots'[off].blk = slots[off].blk /\ slots'[off].crc = c
    <2>1. DOMAIN slots' = DOMAIN slots /\ \A j \in 1 .. Len(slots) : j # off => slots'[j] = slots[j]
      BY <1>2, <1>3, <1>7
    <2>2. slots'[off].data = buf /\ slots'[off].blk = slots[off].blk /\ slots'[off].crc = c
      BY <1>2, <1>3, <1>7 DEF cf_block
    <2>3. QED
      BY <2>1, <2>2
  <1>8. \/ /\ slots' = [slots EXCEPT ![off].blk = cur, ![off].crc = buf]
           /\ IF map[cur] = 0 THEN RecordNewBlock(off) ELSE UNCHANGED <<map, used, dirty>>
        \/ slots' = slots /\ UNCHANGED <<map, used, dirty>>
        \/ /\ \E c \in {slots[off].crc} \cup IF map[cur] = 0 THEN {} ELSE {Torn, buf} :
                 slots' = [slots EXCEPT ![off].crc = c]
           /\ UNCHANGED <<map, used, dirty>>
    BY DEF write_trailer
  <1>9. QED
    BY <1>3, <1>4, <1>5, <1>6, <1>7, <1>8

\* Whatever comes of a write, the contents of the other blocks stay, that of
\* a new block is none or the new one, that of an old one the same, damaged or
\* the new one, and the durable copy is the same copy.
LEMMA WriteContents ==
    ASSUME OverlayInv, write_data \/ write_trailer
    PROVE  \E x \in IF volBar[cur] = None THEN {None, buf} ELSE {volBar[cur], Torn, buf} :
              /\ volBar' = [volBar EXCEPT ![cur] = x]
              /\ durBar' = [durBar EXCEPT ![cur] = IF durBar[cur] = None THEN None ELSE x]
  <1>1. Writing /\ CoverInv
    BY DEF write_data, write_trailer, Writing, OverlayInv
  <1>2. /\ cur \in Blocks /\ buf \in Data /\ st = "ready"
        /\ Len(slots) \in Nat /\ map \in [Blocks -> Nat] /\ dmap \in [Blocks -> Nat]
        /\ \A b \in Blocks : map[b] # 0 => map[b] \in 1 .. Len(slots) /\ slots[map[b]].blk = b
        /\ \A b \in Blocks : dmap[b] # 0 => dmap[b] = map[b]
    BY <1>1, WritingFacts
  <1>3. st' = st /\ dmap' = dmap /\ cur' = cur
    BY DataWrite, TrailerWrite DEF handle
  <1>4. /\ volBar = [b \in Blocks |-> Content(map, b)] /\ durBar = [b \in Blocks |-> Content(dmap, b)]
        /\ volBar' = [b \in Blocks |-> Content(map, b)'] /\ durBar' = [b \in Blocks |-> Content(dmap, b)']
    BY <1>2, <1>3 DEF volBar, durBar
  <1>5. \A b \in Blocks \ {cur} : Content(map, b)' = Content(map, b)
    <2> SUFFICES ASSUME NEW b \in Blocks, b # cur PROVE Content(map, b)' = Content(map, b)
      OBVIOUS
    <2>1. map'[b] = map[b]
      BY <1>2, DataWrite, TrailerWrite DEF handle
    <2>2. ASSUME map[b] # 0 PROVE slots'[map[b]] = slots[map[b]]
      <3>1. map[b] \in 1 .. Len(slots) /\ slots[map[b]].blk = b
        BY <1>2, <2>2
      <3>2. CASE write_data
        <4>1. map[b] # map[cur]
          BY <1>2, <2>2, <3>1
        <4>2. QED
          BY <3>1, <3>2, <4>1, DataWrite
      <3>3. CASE write_trailer
        <4>1. map[cur] = 0 => slots[Len(slots)].blk = None
          BY <1>1, <3>3 DEF write_trailer, CoverInv, SlotInv, NewSlotIsFree
        <4>2. map[b] # OwnSlot
          BY <1>2, <2>2, <3>1, <4>1, NoneAssumption DEF OwnSlot
        <4>3. QED
          BY <3>1, <3>3, <4>2, TrailerWrite
      <3>4. QED
        BY <3>2, <3>3
    <2>3. QED
      BY <2>1, <2>2 DEF Content, TrailerMatches
  <1>6. \A b \in Blocks \ {cur} : Content(dmap, b)' = Content(dmap, b)
    <2> SUFFICES ASSUME NEW b \in Blocks, b # cur PROVE Content(dmap, b)' = Content(dmap, b)
      OBVIOUS
    <2>1. map'[b] = map[b]
      BY <1>2, DataWrite, TrailerWrite DEF handle
    <2>2. CASE dmap[b] = 0
      BY <1>3, <2>2 DEF Content
    <2>3. CASE dmap[b] # 0
      <3>1. dmap[b] = map[b] /\ dmap'[b] = map'[b]
        BY <1>2, <1>3, <2>1, <2>3
      <3>2. QED
        BY <1>5, <3>1 DEF Content
    <2>4. QED
      BY <2>2, <2>3
  <1>7. PICK x \in IF volBar[cur] = None THEN {None, buf} ELSE {volBar[cur], Torn, buf} :
           Content(map, cur)' = x
    <2>1. /\ map[cur] = 0 => volBar[cur] = None
          /\ map[cur] # 0 => volBar[cur] # None
      BY <1>2, <1>4, DataAssumption DEF Content, TrailerMatches
    <2>2. CASE write_data
      <3>1. map' = map
        BY <2>2, DataWrite DEF handle
      <3>2. CASE map[cur] = 0
        BY <1>3, <2>1, <3>1, <3>2 DEF Content
      <3>3. CASE map[cur] # 0
        <4>1. /\ slots[map[cur]].blk = cur /\ slots'[map[cur]].blk = cur
              /\ slots'[map[cur]].crc = slots[map[cur]].crc
              /\ slots'[map[cur]].data \in {buf, Torn, slots[map[cur]].data}
          BY <1>2, <2>2, <3>3, DataWrite
        <4>2. Content(map, cur)' \in {Content(map, cur), Torn, buf}
          BY <1>3, <3>1, <3>3, <4>1 DEF Content, TrailerMatches
        <4>3. QED
          BY <1>2, <1>4, <2>1, <3>3, <4>2
      <3>4. QED
        BY <3>2, <3>3
    <2>3. CASE write_trailer
      <3>1. CASE map' = map /\ map[cur] = 0
        BY <1>3, <2>1, <3>1 DEF Content
      <3>2. CASE /\ map[cur] = 0 /\ map' = [map EXCEPT ![cur] = OwnSlot]
                 /\ slots'[OwnSlot] = [data |-> buf, blk |-> cur, crc |-> buf]
        <4>1. map'[cur] = OwnSlot /\ OwnSlot # 0
          BY <1>1, <1>2, <2>3, <3>2 DEF OwnSlot, write_trailer, CoverInv, SlotInv, NewSlotIsFree
        <4>2. Content(map, cur)' = buf
          BY <1>2, <1>3, <3>2, <4>1 DEF Content, TrailerMatches
        <4>3. QED
          BY <2>1, <3>2, <4>2
      <3>3. CASE /\ map' = map /\ map[cur] # 0
                 /\ slots'[map[cur]].data = buf /\ slots'[map[cur]].blk = cur
                 /\ slots'[map[cur]].crc \in {slots[map[cur]].crc, Torn, buf}
        <4>1. slots[map[cur]].data = buf /\ slots[map[cur]].blk = cur
          BY <1>2, <2>3, <3>3, TrailerWrite DEF OwnSlot
        <4>2. Content(map, cur)' \in {Content(map, cur), Torn, buf}
          BY <1>2, <1>3, <3>3, <4>1 DEF Content, TrailerMatches
        <4>3. QED
          BY <1>2, <1>4, <2>1, <3>3, <4>2
      <3>4. QED
        BY <2>3, <3>1, <3>2, <3>3, TrailerWrite
    <2>4. QED
      BY <2>2, <2>3
  <1>8. Content(dmap, cur)' = IF durBar[cur] = None THEN None ELSE x
    <2>1. CASE dmap[cur] = 0
      BY <1>2, <1>3, <1>4, <2>1 DEF Content
    <2>2. CASE dmap[cur] # 0
      <3>1. dmap[cur] = map[cur] /\ map'[cur] = map[cur]
        BY <1>2, <2>2, DataWrite, TrailerWrite DEF handle
      <3>2. durBar[cur] # None
        BY <1>2, <1>4, <2>2, DataAssumption DEF Content, TrailerMatches
      <3>3. Content(dmap, cur)' = Content(map, cur)'
        BY <1>3, <3>1 DEF Content
      <3>4. QED
        BY <1>7, <3>2, <3>3
    <2>3. QED
      BY <2>1, <2>2
  <1>9. volBar' = [volBar EXCEPT ![cur] = x]
    <2>1. \A b \in Blocks \ {cur} : volBar'[b] = volBar[b]
      BY <1>4, <1>5 DEF Content, TrailerMatches
    <2>2. volBar'[cur] = x
      BY <1>2, <1>3, <1>4, <1>7 DEF Content, TrailerMatches
    <2>3. volBar = [b \in Blocks |-> volBar[b]] /\ volBar' = [b \in Blocks |-> volBar'[b]]
      BY DEF volBar
    <2>4. QED
      BY <1>2, <2>1, <2>2, <2>3
  <1>10. durBar' = [durBar EXCEPT ![cur] = IF durBar[cur] = None THEN None ELSE x]
    <2>1. \A b \in Blocks \ {cur} : durBar'[b] = durBar[b]
      BY <1>4, <1>6 DEF Content, TrailerMatches
    <2>2. durBar'[cur] = IF durBar[cur] = None THEN None ELSE x
      BY <1>2, <1>3, <1>4, <1>8 DEF Content, TrailerMatches
    <2>3. durBar = [b \in Blocks |-> durBar[b]] /\ durBar' = [b \in Blocks |-> durBar'[b]]
      BY DEF durBar
    <2>4. QED
      BY <1>2, <2>1, <2>2, <2>3
  <1>11. QED
    BY <1>9, <1>10

-----------------------------------------------------------------------------
(* The refinement                                                          *)

LEMMA OverlayInit == Init => OverlayInv
  BY CoverInit DEF Init, OverlayInv, DataGoesFirst, CreatesBesideClean

LEMMA OverlayInvStep ==
    ASSUME ~TransientOpen, OverlayInv, [Next]_vars
    PROVE  OverlayInv'
  <1>1. CoverInv'
    BY CoverStep DEF OverlayInv
  <1>2. DataGoesFirst'
    <2>1. CASE write_data
      BY <2>1, DataWrite DEF DataGoesFirst
    <2>2. CASE UNCHANGED vars
      BY <2>2 DEF OverlayInv, DataGoesFirst, OwnSlot, vars
    <2>3. CASE pc' # "wr_trl"
      BY <2>3 DEF DataGoesFirst
    <2>4. QED
      BY <2>1, <2>2, <2>3 DEF OverlayInv, Next, CfStep, cf_init, cf_verify, cf_create,
         cf_create_header,
         cf_create_map, CreateAfterWrite, cf_create_open, cf_seek, cf_readblock, cf_writeblock,
         cf_sync, cf_finish, SyncHeader, SyncMap, SyncReturn, write_trailer, WriteReturn, Crash
  <1>3. CreatesBesideClean'
    <2>1. CASE cf_create \/ cf_create_header \/ cf_create_map
      BY <2>1 DEF OverlayInv, CreatesBesideClean, cf_create, cf_create_header, cf_create_map, handle
    <2>2. CASE UNCHANGED vars
      BY <2>2 DEF OverlayInv, CreatesBesideClean, vars
    <2>3. CASE pc' \notin {"cr_hdr", "cr_map", "cr_init"}
      BY <2>3 DEF CreatesBesideClean
    <2>4. QED
      BY <2>1, <2>2, <2>3 DEF Next, CfStep, cf_init, cf_verify, cf_create_open, cf_seek,
         cf_readblock, cf_writeblock, cf_sync, cf_finish, SyncHeader, SyncMap, SyncReturn,
         write_data, write_trailer, WriteReturn, Crash
  <1>4. QED
    BY <1>1, <1>2, <1>3 DEF OverlayInv

\* What a step that is no write of a block can do, as a handle sees it: the
\* slots stay, and so does the file's map, unless the handle's is flushed.  A
\* handle is replaced only when it knows no more than the file.
Quiet ==
    /\ slots' = slots /\ dmap' = dmap /\ ~Writing /\ ~Writing'
    /\ IF st = "ready" THEN st' = "ready" /\ map' = map ELSE st' # "ready"
Opens ==
    /\ slots' = slots /\ dmap' = dmap /\ ~Writing /\ ~Writing'
    /\ st' = "ready" /\ map' = dmap /\ (st = "ready" => map = dmap)
Closes ==
    /\ slots' = slots /\ dmap' = dmap /\ pc' = "idle" /\ (Writing => ret' # "ok")
    /\ st' # "ready" /\ (st' = "closed" \/ st # "ready" \/ map = dmap)
Flushes ==
    /\ slots' = slots /\ ~Writing /\ ~Writing' /\ st = "ready"
    /\ (st' = "ready" /\ map' = map) \/ st' = "closed"
    /\ \E S \in SUBSET Blocks : dmap' = [b \in Blocks |-> IF b \in S THEN map[b] ELSE dmap[b]]

LEMMA StepKinds ==
    ASSUME OverlayInv, Next
    PROVE  \/ Quiet \/ Opens \/ Closes \/ Flushes \/ write_data \/ write_trailer
           \/ \E d \in Data : InMap /\ cf_writeblock(d)
  <1>0. /\ TypeOK /\ CallsInProgress /\ OnlyNewFilesAreFilled /\ HandleCoversFile
        /\ CreatesBesideClean
    BY DEF OverlayInv, CoverInv, SlotInv
  <1>1. ASSUME NEW c \in Counts, cf_init(c) PROVE Quiet
    BY <1>1 DEF cf_init, FreshHandle, file, handle, Quiet, Writing
  <1>2. ASSUME cf_verify PROVE Quiet \/ Opens
    BY <1>2 DEF cf_verify, VerifyOutcome, file, Quiet, Opens, Writing
  <1>3. ASSUME cf_create PROVE Quiet
    BY <1>3 DEF cf_create, handle, Quiet, Writing
  <1>4. ASSUME cf_create_header PROVE Quiet
    BY <1>4 DEF cf_create_header, CreateAfterWrite, handle, Quiet, Writing
  <1>5. ASSUME cf_create_map PROVE Quiet
    <2>1. dmap = ZeroMap
      BY <1>0, <1>5 DEF cf_create_map, OnlyNewFilesAreFilled
    <2>2. dmap' = dmap
      BY <1>5, <2>1 DEF cf_create_map, ZeroMap
    <2>3. QED
      BY <1>5, <2>2 DEF cf_create_map, CreateAfterWrite, handle, Quiet, Writing
  <1>6. ASSUME cf_create_open PROVE Quiet \/ Opens \/ Closes
    <2>1. st = "ready" => map = dmap
      BY <1>0, <1>6 DEF cf_create_open, CreatesBesideClean, HandleCoversFile
    <2>2. QED
      BY <1>6, <2>1 DEF cf_create_open, VerifyOutcome, FreshHandle, file, handle, Quiet, Opens,
         Closes, Writing
  <1>7. ASSUME NEW b \in 0 .. N + 1, cf_seek(b) PROVE Quiet
    BY <1>7 DEF cf_seek, file, Quiet, Writing
  <1>8. ASSUME cf_readblock PROVE Quiet
    BY <1>8 DEF cf_readblock, file, handle, Quiet, Writing
  <1>9. ASSUME NEW fin \in BOOLEAN, SyncHeader(fin), pc = "idle", st = "ready" PROVE Quiet \/ Closes
    BY <1>9 DEF SyncHeader, SyncReturn, FreeHandle, handle, Quiet, Closes, Writing
  <1>10. ASSUME NEW fin \in BOOLEAN, SyncMap(fin) PROVE Flushes
    <2>1. st = "ready" /\ ~Writing /\ ~Writing' /\ slots' = slots
      BY <1>0, <1>10 DEF SyncMap, SyncReturn, CallsInProgress, Writing
    <2>2. (st' = "ready" /\ map' = map) \/ st' = "closed"
      BY <1>10, <2>1 DEF SyncMap, SyncReturn, FreeHandle, handle
    <2>3. \E S \in SUBSET Blocks : dmap' = [b \in Blocks |-> IF b \in S THEN map[b] ELSE dmap[b]]
      <3>1. CASE dmap' = map
        <4>1. dmap' = [b \in Blocks |-> IF b \in Blocks THEN map[b] ELSE dmap[b]]
          BY <1>0, <3>1 DEF TypeOK
        <4>2. QED
          BY <4>1
      <3>2. CASE dmap' = dmap
        <4> WITNESS {} \in SUBSET Blocks
        <4> QED
          BY <1>0, <3>2 DEF TypeOK
      <3>3. ASSUME NEW k \in Blocks, dmap' = [b \in Blocks |-> IF b < k THEN map[b] ELSE dmap[b]]
            PROVE  \E S \in SUBSET Blocks : dmap' = [b \in Blocks |-> IF b \in S THEN map[b] ELSE dmap[b]]
        <4>1. dmap' = [b \in Blocks |-> IF b \in {a \in Blocks : a < k} THEN map[b] ELSE dmap[b]]
          BY <3>3
        <4>2. QED
          BY <4>1
      <3>4. QED
        BY <1>10, <3>1, <3>2, <3>3 DEF SyncMap
    <2>4. QED
      BY <2>1, <2>2, <2>3 DEF Flushes
  <1>11. ASSUME FreeHandle, pc' = "idle", Writing => ret' = "killed", UNCHANGED file PROVE Closes
    BY <1>11 DEF FreeHandle, file, Closes, Writing
  <1>12. cf_sync => pc = "idle" /\ st = "ready" /\ SyncHeader(FALSE)
    BY DEF cf_sync
  <1>13. cf_finish => \/ FreeHandle /\ pc' = "idle" /\ ~Writing /\ UNCHANGED file
                      \/ pc = "idle" /\ st = "ready" /\ SyncHeader(TRUE)
    BY <1>0 DEF cf_finish, CallsInProgress, Writing
  <1>14. Crash => FreeHandle /\ pc' = "idle" /\ ret' = "killed" /\ UNCHANGED file
    BY DEF Crash
  <1>15. QED
    BY <1>1, <1>2, <1>3, <1>4, <1>5, <1>6, <1>7, <1>8, <1>9, <1>10, <1>11, <1>12, <1>13, <1>14
       DEF Next, CfStep

LEMMA OverlayStep ==
    ASSUME OverlayInv, [Next]_vars
    PROVE  [O!Next]_(O!ovars)
  <1>0. TypeOK /\ CallsInProgress /\ HandleCoversFile
    BY DEF OverlayInv, CoverInv, SlotInv
  <1>a. ASSUME slots' = slots, dmap' = dmap PROVE durBar' = durBar
    BY <1>a DEF durBar, Content, TrailerMatches
  <1>b. st' # "ready" => volBar' = durBar'
    BY DEF volBar, durBar
  <1>1. CASE UNCHANGED vars
    BY <1>1 DEF vars, O!ovars, openBar, volBar, durBar, busyBar, Content, TrailerMatches, Writing
  <1>2. CASE Quiet
    <2>1. volBar' = volBar
      BY <1>2 DEF Quiet, volBar, Content, TrailerMatches
    <2>2. openBar' = openBar /\ busyBar' = busyBar
      BY <1>2 DEF Quiet, openBar, busyBar
    <2>3. QED
      BY <1>2, <1>a, <2>1, <2>2 DEF Quiet, O!ovars
  <1>3. CASE Opens
    <2>1. volBar' = durBar
      BY <1>3 DEF Opens, volBar, durBar, Content, TrailerMatches
    <2>2. openBar' = TRUE /\ busyBar = None /\ busyBar' = None
      BY <1>3 DEF Opens, openBar, busyBar
    <2>3. O!Open
      BY <1>3, <1>a, <2>1, <2>2 DEF Opens, O!Open
    <2>4. QED
      BY <2>3 DEF O!Next
  <1>4. CASE Closes
    <2>1. openBar' = FALSE /\ busyBar' = None
      BY <1>4 DEF Closes, openBar, busyBar, Writing
    <2>2. O!Close
      BY <1>4, <1>a, <1>b, <2>1 DEF Closes, O!Close
    <2>3. QED
      BY <2>2 DEF O!Next
  <1>5. ASSUME NEW d \in Data, InMap, cf_writeblock(d) PROVE O!Next
    <2>1. openBar /\ openBar' /\ cur \in Blocks
      BY <1>5 DEF InMap, cf_writeblock, handle, openBar
    <2>2. busyBar = None /\ busyBar' = <<cur, d>>
      BY <1>5, <2>1 DEF cf_writeblock, handle, busyBar, Writing
    <2>3. volBar' = volBar /\ durBar' = durBar
      BY <1>5 DEF cf_writeblock, file, handle, volBar, durBar, Content, TrailerMatches
    <2>4. openBar' = openBar
      BY <1>5 DEF cf_writeblock, handle, openBar
    <2>5. O!StartWrite(cur, d)
      BY <2>1, <2>2, <2>3, <2>4 DEF O!StartWrite
    <2>6. QED
      BY <2>1, <2>5 DEF O!Next
  <1>6. CASE write_data \/ write_trailer
    <2>1. Writing /\ CoverInv
      BY <1>6 DEF write_data, write_trailer, Writing, OverlayInv
    <2>2. cur \in Blocks /\ buf \in Data /\ st = "ready"
      BY <2>1, WritingFacts
    <2>3. busyBar = <<cur, buf>> /\ busyBar # None
      BY <2>1, <2>2, NoneAssumption DEF busyBar
    <2>4. busyBar' \in {busyBar, None}
      BY <1>6, <2>1, <2>3, DataWrite, TrailerWrite DEF busyBar, Writing, handle
    <2>5. openBar /\ openBar' = openBar
      BY <1>6, <2>2, DataWrite, TrailerWrite DEF openBar, handle
    <2>6. O!WriteStep
      BY <1>6, <2>3, <2>4, <2>5, WriteContents DEF O!WriteStep
    <2>7. QED
      BY <2>6 DEF O!Next
  <1>7. CASE Flushes
    <2>1. PICK S \in SUBSET Blocks : dmap' = [b \in Blocks |-> IF b \in S THEN map[b] ELSE dmap[b]]
      BY <1>7 DEF Flushes
    <2>2. durBar' = [b \in Blocks |-> IF b \in S THEN volBar[b] ELSE durBar[b]]
      BY <1>7, <2>1 DEF Flushes, durBar, volBar, Content, TrailerMatches
    <2>3. openBar /\ busyBar = None /\ busyBar' = None
      BY <1>7 DEF Flushes, openBar, busyBar
    <2>4. \/ openBar' = openBar /\ volBar' = volBar
          \/ openBar' = FALSE /\ volBar' = durBar'
      <3>1. CASE st' = "ready"
        BY <1>7, <3>1 DEF Flushes, openBar, volBar, Content, TrailerMatches
      <3>2. CASE st' # "ready"
        BY <1>b, <3>2 DEF openBar
      <3>3. QED
        BY <3>1, <3>2
    <2>5. O!Flush
      BY <2>2, <2>3, <2>4 DEF O!Flush
    <2>6. QED
      BY <2>5 DEF O!Next
  <1>8. QED
    BY <1>1, <1>2, <1>3, <1>4, <1>5, <1>6, <1>7, StepKinds

\* The change file is a copy-on-write overlay: a step of changefile.c, a
\* failed or short transfer and a kill included, damages no block but the one
\* that is being written, and what became durable stays so.
THEOREM OverlayIsImplemented ==
    ASSUME ~TransientOpen
    PROVE  Spec => ImplementsOverlay
  <1>1. Init => O!Init
    <2> SUFFICES ASSUME Init PROVE O!Init
      OBVIOUS
    <2>1. openBar = FALSE /\ busyBar = None
      BY DEF Init, openBar, busyBar, Writing
    <2>2. volBar = [b \in Blocks |-> None] /\ durBar = volBar
      BY ZeroMapIsEmpty DEF Init, volBar, durBar, Content
    <2>3. QED
      BY <2>1, <2>2 DEF O!Init
  <1>2. OverlayInv /\ [Next]_vars => OverlayInv'
    BY OverlayInvStep
  <1>3. OverlayInv /\ [Next]_vars => [O!Next]_(O!ovars)
    BY OverlayStep
  <1>4. QED
    BY <1>1, <1>2, <1>3, OverlayInit, PTL DEF Spec, ImplementsOverlay, O!Spec

-----------------------------------------------------------------------------
(* Acknowledged writes                                                     *)

HistInv == OverlayInv /\ AckedIsKept

LEMMA HistStep ==
    ASSUME ~TransientOpen, HistInv, [HNext]_<<vars, acked>>
    PROVE  HistInv'
  <1>0. /\ OverlayInv /\ AckedIsKept /\ OverlayInv' /\ HandleCoversFile
    BY OverlayInvStep DEF HistInv, HNext, OverlayInv, CoverInv
  <1>1. CASE UNCHANGED <<vars, acked>>
    BY <1>0, <1>1 DEF HistInv, AckedIsKept, vars, volBar, Content, TrailerMatches, Writing
  <1>2. CASE Next /\ Owed
    <2> SUFFICES ASSUME NEW b \in Blocks, acked'[b] # None, ~(Writing /\ b = cur)'
                 PROVE  volBar'[b] = acked'[b]
      BY <1>0 DEF HistInv, AckedIsKept
    <2>1. acked'[b] = IF Writing /\ pc' = "idle" /\ b = cur THEN IF ret' = "ok" /\ Whole THEN buf ELSE None
                      ELSE IF st # "closed" /\ st' = "closed" /\ dmap'[b] = 0 THEN None
                      ELSE acked[b]
      BY <1>2 DEF Owed
    <2>2. acked[b] # None /\ ~(Writing /\ b = cur) => volBar[b] = acked[b]
      BY <1>0 DEF AckedIsKept
    <2>3. /\ volBar[b] = Content(IF st = "ready" THEN map ELSE dmap, b)
          /\ volBar'[b] = Content(IF st = "ready" THEN map ELSE dmap, b)'
      BY DEF volBar, Content, TrailerMatches
    <2>4. CASE Quiet
      <3>1. volBar'[b] = volBar[b]
        BY <2>4 DEF Quiet, volBar, Content, TrailerMatches
      <3>2. QED
        BY <2>1, <2>2, <2>4, <3>1 DEF Quiet
    <2>5. CASE Opens
      <3>1. volBar'[b] = volBar[b]
        BY <2>5 DEF Opens, volBar, Content, TrailerMatches
      <3>2. QED
        BY <2>1, <2>2, <2>5, <3>1 DEF Opens
    <2>6. CASE Closes
      <3>1. acked'[b] = acked[b] /\ ~(Writing /\ b = cur)
        BY <2>1, <2>6 DEF Closes
      <3>2. CASE st = "ready" /\ st' = "closed"
        <4>1. dmap[b] = map[b]
          BY <1>0, <2>1, <2>6, <3>1, <3>2 DEF Closes, HandleCoversFile, Mapped
        <4>2. volBar'[b] = volBar[b]
          BY <2>6, <3>2, <4>1 DEF Closes, volBar, Content, TrailerMatches
        <4>3. QED
          BY <2>2, <3>1, <4>2
      <3>3. CASE st # "ready" \/ map = dmap
        <4>1. volBar'[b] = volBar[b]
          BY <2>6, <3>3 DEF Closes, volBar, Content, TrailerMatches
        <4>2. QED
          BY <2>2, <3>1, <4>1
      <3>4. QED
        BY <2>6, <3>2, <3>3 DEF Closes
    <2>7. CASE Flushes
      <3>1. acked'[b] = acked[b] /\ ~Writing /\ st = "ready"
        BY <2>1, <2>7 DEF Flushes
      <3>2. CASE st' = "ready" /\ map' = map
        <4>1. volBar'[b] = volBar[b]
          BY <2>7, <3>1, <3>2 DEF Flushes, volBar, Content, TrailerMatches
        <4>2. QED
          BY <2>2, <3>1, <4>1
      <3>3. CASE st' = "closed"
        <4>1. dmap'[b] # 0
          BY <2>1, <3>1, <3>3
        <4>2. dmap'[b] \in {map[b], dmap[b]}
          BY <2>7 DEF Flushes
        <4>3. dmap'[b] = map[b]
          BY <1>0, <3>1, <4>1, <4>2 DEF HandleCoversFile, Mapped
        <4>4. volBar'[b] = volBar[b]
          BY <2>7, <3>1, <3>3, <4>3 DEF Flushes, volBar, Content, TrailerMatches
        <4>5. QED
          BY <2>2, <3>1, <4>4
      <3>4. QED
        BY <2>7, <3>2, <3>3 DEF Flushes
    <2>8. ASSUME NEW d \in Data, cf_writeblock(d) PROVE volBar'[b] = acked'[b]
      <3>1. acked'[b] = acked[b] /\ ~Writing
        BY <2>1, <2>8 DEF cf_writeblock, handle, Writing
      <3>2. volBar'[b] = volBar[b]
        BY <2>8 DEF cf_writeblock, file, handle, volBar, Content, TrailerMatches
      <3>3. QED
        BY <2>2, <3>1, <3>2
    <2>9. CASE write_data \/ write_trailer
      <3>1. Writing /\ CoverInv
        BY <1>0, <2>9 DEF write_data, write_trailer, Writing, OverlayInv
      <3>2. cur \in Blocks /\ buf \in Data /\ st = "ready" /\ st' = st /\ cur' = cur
        BY <1>0, <2>9, <3>1, WritingFacts, DataWrite, TrailerWrite DEF handle
      <3>3. CASE b # cur
        <4>1. \E x : volBar' = [volBar EXCEPT ![cur] = x]
          BY <1>0, <2>9, WriteContents
        <4>2. volBar'[b] = volBar[b]
          BY <3>3, <4>1 DEF volBar
        <4>3. QED
          BY <2>1, <2>2, <3>2, <3>3, <4>2
      <3>4. CASE b = cur
        <4>1. pc' = "idle" /\ Whole /\ acked'[b] = buf
          BY <1>0, <2>1, <2>9, <3>1, <3>2, <3>4, DataWrite, TrailerWrite DEF Writing
        <4>2. write_trailer /\ map'[cur] \in DOMAIN slots' /\ slots'[map'[cur]].crc = buf
          BY <2>9, <4>1 DEF Whole, write_data
        <4>3. map'[cur] # 0 /\ slots'[map'[cur]].blk = cur /\ slots'[map'[cur]].data = buf
          <5>1. DOMAIN slots' = 1 .. Len(slots) /\ Len(slots) \in Nat /\ map \in [Blocks -> Nat]
            BY <1>0, <3>1, <4>2, WritingFacts, TrailerWrite
          <5>2. map'[cur] # 0
            BY <4>2, <5>1
          <5>3. QED
            BY <1>0, <3>2, <4>2, <5>1, <5>2, TrailerWrite
        <4>4. Content(map, b)' = buf
          BY <3>2, <3>4, <4>2, <4>3 DEF Content, TrailerMatches
        <4>5. QED
          BY <2>3, <3>2, <4>1, <4>4 DEF Content, TrailerMatches
      <3>5. QED
        BY <3>3, <3>4
    <2>10. QED
      BY <1>0, <1>2, <2>4, <2>5, <2>6, <2>7, <2>8, <2>9, StepKinds
  <1>3. QED
    BY <1>1, <1>2 DEF HNext

\* A write that cf_writeblock acknowledged after whole transfers reads back
\* from every later verified handle: through failed writes of the same and of
\* other blocks, failed or cut short flushes, kills and new sessions.
THEOREM AckedWritesAreKept ==
    ASSUME ~TransientOpen
    PROVE  HSpec => []AckedWritesReadBack
  <1>1. HInit => HistInv
    BY OverlayInit DEF HInit, HistInv, AckedIsKept
  <1>2. HistInv /\ [HNext]_<<vars, acked>> => HistInv'
    BY HistStep
  <1>3. HistInv => AckedWritesReadBack
    BY DEF HistInv, AckedIsKept, AckedWritesReadBack, volBar
  <1>4. QED
    BY <1>1, <1>2, <1>3, PTL DEF HSpec

-----------------------------------------------------------------------------
(* Sessions on a raw image: the inductive invariant                        *)

\* A request stays inside of the image, and so does the change file's position.
RequestInImage ==
    /\ at \in {"read", "write", "w_create", "w_data", "w_done"} =>
          rst = "ready" /\ rem >= 1 /\ curblock + rem <= N
    /\ at = "w_data" => cur = curblock

\* Which call into changefile.c can be in progress where in librawimage.c.
CallsFromLibrary ==
    /\ pc \in {"idle", "cr_hdr", "cr_map", "cr_init", "wr_data", "wr_trl", "sy_map", "fi_map"}
    /\ pc \in {"cr_hdr", "cr_map", "cr_init"} => at = "w_create"
    /\ Writing => at = "w_done"
    /\ pc = "sy_map" => at \in {"idle", "c_fin"} /\ rst # "closed" /\ st = "ready"
    /\ pc = "fi_map" => at = "c_end" /\ st = "ready" /\ wrote
    /\ at # "idle" => rst # "closed"

\* The flags RAW_HAVE_CFDEP and RAW_CF_VERIFIED together stand for a verified
\* handle, and nothing was written through any other.
FlagsMeanHandle ==
    /\ rst \in {"closed", "open"} => ~cfdep
    /\ dirty => WriteReady /\ st = "ready" /\ wrote
    /\ at \in {"w_data", "w_done"} => WriteReady
    /\ at = "w_done" => wrote
    /\ at = "w_create" => ~WriteReady /\ (pc = "idle" /\ ret = "ok" => st = "ready")
    /\ WriteReady /\ at # "c_end" => st = "ready"
    /\ at = "c_end" /\ pc = "idle" => st = "closed" /\ ~dirty
    /\ at \in {"v_cf", "v_done"} => rst = "open"

RawInv == RTypeOK /\ RequestInImage /\ CallsFromLibrary /\ FlagsMeanHandle

-----------------------------------------------------------------------------
(* Every step preserves it                                                 *)

LEMMA RawStep == RawInv /\ [RNext]_<<vars, rvars>> => RawInv'
  <1> SUFFICES ASSUME RawInv, [RNext]_<<vars, rvars>> PROVE RawInv'
    OBVIOUS
  <1> USE NAssumption, MaxBlocksAssumption
  <1>0. RTypeOK /\ RequestInImage /\ CallsFromLibrary /\ FlagsMeanHandle
    BY DEF RawInv
  <1>1. ASSUME NEW mode \in BOOLEAN, rawimage_open(mode) PROVE RawInv'
    <2>1. RTypeOK'
      BY <1>0, <1>1 DEF rawimage_open, Idle, flags, vars, RTypeOK, RequestInImage
    <2>2. RequestInImage'
      BY <1>0, <1>1 DEF rawimage_open, Idle, flags, vars, RTypeOK, RequestInImage
    <2>3. CallsFromLibrary'
      BY <1>0, <1>1 DEF rawimage_open, Idle, flags, vars, CallsFromLibrary, FlagsMeanHandle,
         WriteReady, Writing
    <2>4. FlagsMeanHandle'
      BY <1>0, <1>1 DEF rawimage_open, Idle, flags, vars, RequestInImage, CallsFromLibrary,
         FlagsMeanHandle, WriteReady, Writing
    <2>5. QED
      BY <2>1, <2>2, <2>3, <2>4 DEF RawInv
  <1>2. ASSUME rawimage_verify PROVE RawInv'
    <2>1. RTypeOK'
      BY <1>0, <1>2 DEF rawimage_verify, cf_init, FreshHandle, Idle, flags, vars, file, handle,
         RTypeOK, RequestInImage
    <2>2. RequestInImage'
      BY <1>0, <1>2 DEF rawimage_verify, cf_init, FreshHandle, Idle, flags, vars, file, handle,
         RTypeOK, RequestInImage
    <2>3. CallsFromLibrary'
      BY <1>0, <1>2 DEF rawimage_verify, cf_init, FreshHandle, Idle, flags, vars, file, handle,
         CallsFromLibrary, FlagsMeanHandle, WriteReady, Writing
    <2>4. FlagsMeanHandle'
      BY <1>0, <1>2 DEF rawimage_verify, cf_init, FreshHandle, Idle, flags, vars, file, handle,
         RequestInImage, CallsFromLibrary, FlagsMeanHandle, WriteReady, Writing
    <2>5. QED
      BY <2>1, <2>2, <2>3, <2>4 DEF RawInv
  <1>3. ASSUME verify_cf PROVE RawInv'
    <2>1. RTypeOK'
      BY <1>0, <1>3 DEF verify_cf, cf_verify, VerifyOutcome, vars, file, RTypeOK, RequestInImage
    <2>2. RequestInImage'
      BY <1>0, <1>3 DEF verify_cf, cf_verify, VerifyOutcome, vars, file, RTypeOK, RequestInImage
    <2>3. CallsFromLibrary'
      BY <1>0, <1>3 DEF verify_cf, cf_verify, VerifyOutcome, vars, file, CallsFromLibrary,
         FlagsMeanHandle, WriteReady, Writing
    <2>4. FlagsMeanHandle'
      BY <1>0, <1>3 DEF verify_cf, cf_verify, VerifyOutcome, vars, file, RequestInImage,
         CallsFromLibrary, FlagsMeanHandle, WriteReady, Writing
    <2>5. QED
      BY <2>1, <2>2, <2>3, <2>4 DEF RawInv
  <1>4. ASSUME verify_done PROVE RawInv'
    <2>1. RTypeOK'
      BY <1>0, <1>4 DEF verify_done, vars, RTypeOK, RequestInImage
    <2>2. RequestInImage'
      BY <1>0, <1>4 DEF verify_done, vars, RTypeOK, RequestInImage
    <2>3. CallsFromLibrary'
      BY <1>0, <1>4 DEF verify_done, vars, CallsFromLibrary, FlagsMeanHandle, WriteReady, Writing
    <2>4. FlagsMeanHandle'
      BY <1>0, <1>4 DEF verify_done, vars, RequestInImage, CallsFromLibrary, FlagsMeanHandle,
         WriteReady, Writing
    <2>5. QED
      BY <2>1, <2>2, <2>3, <2>4 DEF RawInv
  <1>5. ASSUME NEW b \in 0 .. N, rawimage_seek(b) PROVE RawInv'
    <2>1. RTypeOK'
      BY <1>0, <1>5 DEF rawimage_seek, cf_seek, Idle, flags, vars, file, RTypeOK, RequestInImage
    <2>2. RequestInImage'
      BY <1>0, <1>5 DEF rawimage_seek, cf_seek, Idle, flags, vars, file, RTypeOK, RequestInImage
    <2>3. CallsFromLibrary'
      BY <1>0, <1>5 DEF rawimage_seek, cf_seek, Idle, flags, vars, file, CallsFromLibrary,
         FlagsMeanHandle, WriteReady, Writing
    <2>4. FlagsMeanHandle'
      BY <1>0, <1>5 DEF rawimage_seek, cf_seek, Idle, flags, vars, file, RequestInImage,
         CallsFromLibrary, FlagsMeanHandle, WriteReady, Writing
    <2>5. QED
      BY <2>1, <2>2, <2>3, <2>4 DEF RawInv
  <1>6. ASSUME NEW op \in {"read", "write"}, NEW n \in 1 .. MaxBlocks, Request(op, n) PROVE RawInv'
    <2>1. RTypeOK'
      <3>1. {rw, cfopen, cfver, cfdep, seeked, wrote}' \subseteq BOOLEAN
        BY <1>0, <1>6 DEF Request, Idle, flags, vars, RTypeOK
      <3>2. Len(obs') <= 1
        BY <1>0, <1>6 DEF Request, Idle, flags, vars, RTypeOK
      <3>3. QED
        BY <1>0, <1>6, <3>1, <3>2 DEF Request, Idle, flags, vars, RTypeOK, RequestInImage
    <2>2. RequestInImage'
      BY <1>0, <1>6 DEF Request, Idle, flags, vars, RTypeOK, RequestInImage
    <2>3. CallsFromLibrary'
      BY <1>0, <1>6 DEF Request, Idle, flags, vars, CallsFromLibrary, FlagsMeanHandle, WriteReady,
         Writing
    <2>4. FlagsMeanHandle'
      BY <1>0, <1>6 DEF Request, Idle, flags, vars, RequestInImage, CallsFromLibrary,
         FlagsMeanHandle, WriteReady, Writing
    <2>5. QED
      BY <2>1, <2>2, <2>3, <2>4 DEF RawInv
  <1>7. ASSUME read_image PROVE RawInv'
    <2>1. RTypeOK'
      BY <1>0, <1>7 DEF read_image, flags, vars, RTypeOK, RequestInImage
    <2>2. RequestInImage'
      BY <1>0, <1>7 DEF read_image, flags, vars, RTypeOK, RequestInImage
    <2>3. CallsFromLibrary'
      BY <1>0, <1>7 DEF read_image, flags, vars, CallsFromLibrary, FlagsMeanHandle, WriteReady,
         Writing
    <2>4. FlagsMeanHandle'
      BY <1>0, <1>7 DEF read_image, flags, vars, RequestInImage, CallsFromLibrary,
         FlagsMeanHandle, WriteReady, Writing
    <2>5. QED
      BY <2>1, <2>2, <2>3, <2>4 DEF RawInv
  <1>8. ASSUME read_block PROVE RawInv'
    <2>1. RTypeOK'
      <3>1. {rw, cfopen, cfver, cfdep, seeked, wrote}' \subseteq BOOLEAN
        BY <1>0, <1>8 DEF read_block, flags, file, RTypeOK
      <3>2. Len(obs') <= 1
        <4>1. obs' = <<>> \/ \E e : obs' = <<e>>
          BY <1>8 DEF read_block
        <4>2. ASSUME NEW e, obs' = <<e>> PROVE Len(obs') <= 1
          BY <4>2
        <4>3. CASE obs' = <<>>
          BY <4>3
        <4>4. QED
          BY <4>1, <4>2, <4>3
      <3>3. QED
        BY <1>0, <1>8, <3>1, <3>2 DEF read_block, flags, file, RTypeOK, RequestInImage
    <2>2. RequestInImage'
      BY <1>0, <1>8 DEF read_block, flags, file, RTypeOK, RequestInImage
    <2>3. CallsFromLibrary'
      BY <1>0, <1>8 DEF read_block, flags, file, CallsFromLibrary, FlagsMeanHandle, WriteReady,
         Writing
    <2>4. FlagsMeanHandle'
      BY <1>0, <1>8 DEF read_block, flags, file, RequestInImage, CallsFromLibrary,
         FlagsMeanHandle, WriteReady, Writing
    <2>5. QED
      BY <2>1, <2>2, <2>3, <2>4 DEF RawInv
  <1>9. ASSUME write_start PROVE RawInv'
    <2>1. RTypeOK'
      BY <1>0, <1>9 DEF write_start, cf_seek, cf_create, flags, vars, file, handle, RTypeOK,
         RequestInImage
    <2>2. RequestInImage'
      BY <1>0, <1>9 DEF write_start, cf_seek, cf_create, flags, vars, file, handle, RTypeOK,
         RequestInImage
    <2>3. CallsFromLibrary'
      BY <1>0, <1>9 DEF write_start, cf_seek, cf_create, flags, vars, file, handle,
         CallsFromLibrary, FlagsMeanHandle, WriteReady, Writing
    <2>4. FlagsMeanHandle'
      BY <1>0, <1>9 DEF write_start, cf_seek, cf_create, flags, vars, file, handle,
         RequestInImage, CallsFromLibrary, FlagsMeanHandle, WriteReady, Writing
    <2>5. QED
      BY <2>1, <2>2, <2>3, <2>4 DEF RawInv
  <1>10. ASSUME write_created PROVE RawInv'
    <2>1. RTypeOK'
      <3>1. {rw, cfopen, cfver, cfdep, seeked, wrote}' \subseteq BOOLEAN
        BY <1>0, <1>10 DEF write_created, flags, vars, RTypeOK
      <3>2. Len(obs') <= 1
        BY <1>0, <1>10 DEF write_created, flags, vars, RTypeOK
      <3>3. QED
        BY <1>0, <1>10, <3>1, <3>2 DEF write_created, flags, vars, RTypeOK, RequestInImage
    <2>2. RequestInImage'
      BY <1>0, <1>10 DEF write_created, flags, vars, RTypeOK, RequestInImage
    <2>3. CallsFromLibrary'
      BY <1>0, <1>10 DEF write_created, flags, vars, CallsFromLibrary, FlagsMeanHandle,
         WriteReady, Writing
    <2>4. FlagsMeanHandle'
      BY <1>0, <1>10 DEF write_created, flags, vars, RequestInImage, CallsFromLibrary,
         FlagsMeanHandle, WriteReady, Writing
    <2>5. QED
      BY <2>1, <2>2, <2>3, <2>4 DEF RawInv
  <1>11. ASSUME NEW d \in Data, write_block(d) PROVE RawInv'
    <2>1. RTypeOK'
      BY <1>0, <1>11 DEF write_block, cf_writeblock, flags, file, handle, RTypeOK, RequestInImage
    <2>2. RequestInImage'
      BY <1>0, <1>11 DEF write_block, cf_writeblock, flags, file, handle, RTypeOK, RequestInImage
    <2>3. CallsFromLibrary'
      BY <1>0, <1>11 DEF write_block, cf_writeblock, flags, file, handle, CallsFromLibrary,
         FlagsMeanHandle, WriteReady, Writing, RequestInImage,
         RTypeOK, Blocks
    <2>4. FlagsMeanHandle'
      BY <1>0, <1>11 DEF write_block, cf_writeblock, flags, file, handle, RequestInImage,
         CallsFromLibrary, FlagsMeanHandle, WriteReady, Writing
    <2>5. QED
      BY <2>1, <2>2, <2>3, <2>4 DEF RawInv
  <1>12. ASSUME write_done PROVE RawInv'
    <2>1. RTypeOK'
      BY <1>0, <1>12 DEF write_done, flags, vars, RTypeOK, RequestInImage
    <2>2. RequestInImage'
      BY <1>0, <1>12 DEF write_done, flags, vars, RTypeOK, RequestInImage
    <2>3. CallsFromLibrary'
      BY <1>0, <1>12 DEF write_done, flags, vars, CallsFromLibrary, FlagsMeanHandle, WriteReady,
         Writing
    <2>4. FlagsMeanHandle'
      BY <1>0, <1>12 DEF write_done, flags, vars, RequestInImage, CallsFromLibrary,
         FlagsMeanHandle, WriteReady, Writing
    <2>5. QED
      BY <2>1, <2>2, <2>3, <2>4 DEF RawInv
  <1>13. ASSUME rawimage_sync PROVE RawInv'
    <2>1. RTypeOK'
      BY <1>0, <1>13 DEF rawimage_sync, Idle, cf_sync, SyncHeader, SyncReturn, handle, rvars,
         RTypeOK, RequestInImage
    <2>2. RequestInImage'
      BY <1>0, <1>13 DEF rawimage_sync, Idle, cf_sync, SyncHeader, SyncReturn, handle, rvars,
         RTypeOK, RequestInImage
    <2>3. CallsFromLibrary'
      BY <1>0, <1>13 DEF rawimage_sync, Idle, cf_sync, SyncHeader, SyncReturn, handle, rvars,
         CallsFromLibrary, FlagsMeanHandle, WriteReady, Writing
    <2>4. FlagsMeanHandle'
      BY <1>0, <1>13 DEF rawimage_sync, Idle, cf_sync, SyncHeader, SyncReturn, handle, rvars,
         RequestInImage, CallsFromLibrary, FlagsMeanHandle, WriteReady, Writing
    <2>5. QED
      BY <2>1, <2>2, <2>3, <2>4 DEF RawInv
  <1>14. ASSUME rawimage_close PROVE RawInv'
    <2>1. RTypeOK'
      BY <1>0, <1>14 DEF rawimage_close, Idle, cf_sync, SyncHeader, SyncReturn,
         cf_sync_unverified, NoMap, flags, vars, handle, RTypeOK, RequestInImage
    <2>2. RequestInImage'
      BY <1>0, <1>14 DEF rawimage_close, Idle, cf_sync, SyncHeader, SyncReturn,
         cf_sync_unverified, NoMap, flags, vars, handle, RTypeOK, RequestInImage
    <2>3. CallsFromLibrary'
      BY <1>0, <1>14 DEF rawimage_close, Idle, cf_sync, SyncHeader, SyncReturn,
         cf_sync_unverified, NoMap, flags, vars, handle, CallsFromLibrary, FlagsMeanHandle,
         WriteReady, Writing
    <2>4. FlagsMeanHandle'
      BY <1>0, <1>14 DEF rawimage_close, Idle, cf_sync, SyncHeader, SyncReturn,
         cf_sync_unverified, NoMap, flags, vars, handle, RequestInImage, CallsFromLibrary,
         FlagsMeanHandle, WriteReady, Writing
    <2>5. QED
      BY <2>1, <2>2, <2>3, <2>4 DEF RawInv
  <1>15. ASSUME close_finish PROVE RawInv'
    <2>1. RTypeOK'
      BY <1>0, <1>15 DEF close_finish, cf_finish, SyncHeader, SyncReturn, FreeHandle, flags, vars,
         file, handle, RTypeOK, RequestInImage
    <2>2. RequestInImage'
      BY <1>0, <1>15 DEF close_finish, cf_finish, SyncHeader, SyncReturn, FreeHandle, flags, vars,
         file, handle, RTypeOK, RequestInImage
    <2>3. CallsFromLibrary'
      BY <1>0, <1>15 DEF close_finish, cf_finish, SyncHeader, SyncReturn, FreeHandle, flags, vars,
         file, handle, CallsFromLibrary, FlagsMeanHandle, WriteReady, Writing
    <2>4. FlagsMeanHandle'
      BY <1>0, <1>15 DEF close_finish, cf_finish, SyncHeader, SyncReturn, FreeHandle, flags, vars,
         file, handle, RequestInImage, CallsFromLibrary, FlagsMeanHandle, WriteReady, Writing
    <2>5. QED
      BY <2>1, <2>2, <2>3, <2>4 DEF RawInv
  <1>16. ASSUME close_done PROVE RawInv'
    <2>1. RTypeOK'
      <3>1. {rw, cfopen, cfver, cfdep, seeked, wrote}' \subseteq BOOLEAN
        BY <1>0, <1>16 DEF close_done, Reset, vars, RTypeOK
      <3>2. Len(obs') <= 1
        BY <1>0, <1>16 DEF close_done, Reset, vars, RTypeOK
      <3>3. QED
        BY <1>0, <1>16, <3>1, <3>2 DEF close_done, Reset, vars, RTypeOK, RequestInImage
    <2>2. RequestInImage'
      BY <1>0, <1>16 DEF close_done, Reset, vars, RTypeOK, RequestInImage
    <2>3. CallsFromLibrary'
      BY <1>0, <1>16 DEF close_done, Reset, vars, CallsFromLibrary, FlagsMeanHandle, WriteReady,
         Writing
    <2>4. FlagsMeanHandle'
      BY <1>0, <1>16 DEF close_done, Reset, vars, RequestInImage, CallsFromLibrary,
         FlagsMeanHandle, WriteReady, Writing
    <2>5. QED
      BY <2>1, <2>2, <2>3, <2>4 DEF RawInv
  <1>17. ASSUME Killed PROVE RawInv'
    <2>1. RTypeOK'
      <3>1. {rw, cfopen, cfver, cfdep, seeked, wrote}' \subseteq BOOLEAN
        BY <1>0, <1>17 DEF Killed, Crash, Reset, FreeHandle, RTypeOK
      <3>2. Len(obs') <= 1
        BY <1>0, <1>17 DEF Killed, Crash, Reset, FreeHandle, RTypeOK
      <3>3. QED
        BY <1>0, <1>17, <3>1, <3>2 DEF Killed, Crash, Reset, FreeHandle, RTypeOK, RequestInImage
    <2>2. RequestInImage'
      BY <1>0, <1>17 DEF Killed, Crash, Reset, FreeHandle, RTypeOK, RequestInImage
    <2>3. CallsFromLibrary'
      BY <1>0, <1>17 DEF Killed, Crash, Reset, FreeHandle, CallsFromLibrary, FlagsMeanHandle,
         WriteReady, Writing
    <2>4. FlagsMeanHandle'
      BY <1>0, <1>17 DEF Killed, Crash, Reset, FreeHandle, RequestInImage, CallsFromLibrary,
         FlagsMeanHandle, WriteReady, Writing
    <2>5. QED
      BY <2>1, <2>2, <2>3, <2>4 DEF RawInv
  <1>18. ASSUME cf_create_header, UNCHANGED rvars PROVE RawInv'
    <2>1. RTypeOK'
      BY <1>0, <1>18 DEF cf_create_header, CreateAfterWrite, handle, rvars, RTypeOK, RequestInImage
    <2>2. RequestInImage'
      BY <1>0, <1>18 DEF cf_create_header, CreateAfterWrite, handle, rvars, RTypeOK, RequestInImage
    <2>3. CallsFromLibrary'
      BY <1>0, <1>18 DEF cf_create_header, CreateAfterWrite, handle, rvars, CallsFromLibrary,
         FlagsMeanHandle, WriteReady, Writing
    <2>4. FlagsMeanHandle'
      BY <1>0, <1>18 DEF cf_create_header, CreateAfterWrite, handle, rvars, RequestInImage,
         CallsFromLibrary, FlagsMeanHandle, WriteReady, Writing
    <2>5. QED
      BY <2>1, <2>2, <2>3, <2>4 DEF RawInv
  <1>19. ASSUME cf_create_map, UNCHANGED rvars PROVE RawInv'
    <2>1. RTypeOK'
      BY <1>0, <1>19 DEF cf_create_map, CreateAfterWrite, handle, rvars, RTypeOK, RequestInImage
    <2>2. RequestInImage'
      BY <1>0, <1>19 DEF cf_create_map, CreateAfterWrite, handle, rvars, RTypeOK, RequestInImage
    <2>3. CallsFromLibrary'
      BY <1>0, <1>19 DEF cf_create_map, CreateAfterWrite, handle, rvars, CallsFromLibrary,
         FlagsMeanHandle, WriteReady, Writing
    <2>4. FlagsMeanHandle'
      BY <1>0, <1>19 DEF cf_create_map, CreateAfterWrite, handle, rvars, RequestInImage,
         CallsFromLibrary, FlagsMeanHandle, WriteReady, Writing
    <2>5. QED
      BY <2>1, <2>2, <2>3, <2>4 DEF RawInv
  <1>20. ASSUME cf_create_open, UNCHANGED rvars PROVE RawInv'
    <2>1. RTypeOK'
      BY <1>0, <1>20 DEF cf_create_open, VerifyOutcome, FreshHandle, file, handle, rvars, RTypeOK,
         RequestInImage
    <2>2. RequestInImage'
      BY <1>0, <1>20 DEF cf_create_open, VerifyOutcome, FreshHandle, file, handle, rvars, RTypeOK,
         RequestInImage,
         CallsFromLibrary
    <2>3. CallsFromLibrary'
      BY <1>0, <1>20 DEF cf_create_open, VerifyOutcome, FreshHandle, file, handle, rvars,
         CallsFromLibrary, FlagsMeanHandle, WriteReady, Writing
    <2>4. FlagsMeanHandle'
      BY <1>0, <1>20 DEF cf_create_open, VerifyOutcome, FreshHandle, file, handle, rvars,
         RequestInImage, CallsFromLibrary, FlagsMeanHandle, WriteReady, Writing
    <2>5. QED
      BY <2>1, <2>2, <2>3, <2>4 DEF RawInv
  <1>21. ASSUME write_data, UNCHANGED rvars PROVE RawInv'
    <2>1. RTypeOK'
      BY <1>0, <1>21 DEF write_data, WriteReturn, handle, rvars, RTypeOK, RequestInImage
    <2>2. RequestInImage'
      BY <1>0, <1>21 DEF write_data, WriteReturn, handle, rvars, RTypeOK, RequestInImage
    <2>3. CallsFromLibrary'
      BY <1>0, <1>21 DEF write_data, WriteReturn, handle, rvars, CallsFromLibrary,
         FlagsMeanHandle, WriteReady, Writing
    <2>4. FlagsMeanHandle'
      BY <1>0, <1>21 DEF write_data, WriteReturn, handle, rvars, RequestInImage, CallsFromLibrary,
         FlagsMeanHandle, WriteReady, Writing
    <2>5. QED
      BY <2>1, <2>2, <2>3, <2>4 DEF RawInv
  <1>22. ASSUME write_trailer, UNCHANGED rvars PROVE RawInv'
    <2>1. RTypeOK'
      BY <1>0, <1>22 DEF write_trailer, WriteReturn, RecordNewBlock, rvars, RTypeOK, RequestInImage
    <2>2. RequestInImage'
      BY <1>0, <1>22 DEF write_trailer, WriteReturn, RecordNewBlock, rvars, RTypeOK, RequestInImage
    <2>3. CallsFromLibrary'
      BY <1>0, <1>22 DEF write_trailer, WriteReturn, RecordNewBlock, rvars, CallsFromLibrary,
         FlagsMeanHandle, WriteReady, Writing
    <2>4. FlagsMeanHandle'
      BY <1>0, <1>22 DEF write_trailer, WriteReturn, RecordNewBlock, rvars, RequestInImage,
         CallsFromLibrary, FlagsMeanHandle, WriteReady, Writing
    <2>5. QED
      BY <2>1, <2>2, <2>3, <2>4 DEF RawInv
  <1>23. ASSUME NEW fin \in BOOLEAN, SyncMap(fin), UNCHANGED rvars PROVE RawInv'
    <2>1. RTypeOK'
      BY <1>0, <1>23 DEF SyncMap, SyncReturn, FreeHandle, handle, rvars, RTypeOK, RequestInImage
    <2>2. RequestInImage'
      BY <1>0, <1>23 DEF SyncMap, SyncReturn, FreeHandle, handle, rvars, RTypeOK, RequestInImage,
         CallsFromLibrary
    <2>3. CallsFromLibrary'
      BY <1>0, <1>23 DEF SyncMap, SyncReturn, FreeHandle, handle, rvars, CallsFromLibrary,
         FlagsMeanHandle, WriteReady, Writing
    <2>4. FlagsMeanHandle'
      BY <1>0, <1>23 DEF SyncMap, SyncReturn, FreeHandle, handle, rvars, RequestInImage,
         CallsFromLibrary, FlagsMeanHandle, WriteReady, Writing
    <2>5. QED
      BY <2>1, <2>2, <2>3, <2>4 DEF RawInv
  <1>24. ASSUME UNCHANGED <<vars, rvars>> PROVE RawInv'
    <2>1. RTypeOK'
      BY <1>0, <1>24 DEF vars, rvars, RTypeOK, RequestInImage
    <2>2. RequestInImage'
      BY <1>0, <1>24 DEF vars, rvars, RTypeOK, RequestInImage
    <2>3. CallsFromLibrary'
      BY <1>0, <1>24 DEF vars, rvars, CallsFromLibrary, FlagsMeanHandle, WriteReady, Writing
    <2>4. FlagsMeanHandle'
      BY <1>0, <1>24 DEF vars, rvars, RequestInImage, CallsFromLibrary, FlagsMeanHandle,
         WriteReady, Writing
    <2>5. QED
      BY <2>1, <2>2, <2>3, <2>4 DEF RawInv
  <1>25. QED
    BY <1>1, <1>2, <1>3, <1>4, <1>5, <1>6, <1>7, <1>8, <1>9, <1>10, <1>11, <1>12, <1>13, <1>14,
       <1>15, <1>16, <1>17, <1>18, <1>19, <1>20, <1>21, <1>22, <1>23, <1>24 DEF RNext, CfStep

LEMMA RawInit == RInit => RawInv
  <1> SUFFICES ASSUME RInit PROVE RawInv
    OBVIOUS
  <1>1. RTypeOK
    <2>1. Len(obs) <= 1
      BY DEF RInit
    <2>2. {rw, cfopen, cfver, cfdep, seeked, wrote} \subseteq BOOLEAN
      BY DEF RInit
    <2>3. QED
      BY <2>1, <2>2, NAssumption, MaxBlocksAssumption DEF RInit, RTypeOK
  <1>2. RequestInImage /\ CallsFromLibrary /\ FlagsMeanHandle
    BY DEF RInit, Init, RequestInImage, CallsFromLibrary, FlagsMeanHandle, WriteReady, Writing
  <1>3. QED
    BY <1>1, <1>2 DEF RawInv

\* The variables of librawimage.c keep their types: a request of any length
\* that the kernel may make stays inside of the image.
THEOREM RawTypeCorrect == RSpec => []RTypeOK
  <1>1. RawInv => RTypeOK
    BY DEF RawInv
  <1>2. QED
    BY <1>1, RawInit, RawStep, PTL DEF RSpec

\* rawimage_writeblocks never replaces a handle through which blocks were
\* written, and what it takes for ready to write has a block map.
THEOREM RawWritesShareOneHandle == RSpec => []WritesShareOneHandle
  <1>1. RawInv => WritesShareOneHandle
    BY DEF RawInv, FlagsMeanHandle, WritesShareOneHandle
  <1>2. QED
    BY <1>1, RawInit, RawStep, PTL DEF RSpec

\* No request gets to the entry behind the block map.
THEOREM RawRequestsStayInMap == RSpec => []RequestsStayInMap
  <1>1. RawInv => RequestsStayInMap
    BY NAssumption DEF RawInv, RTypeOK, RequestInImage, CallsFromLibrary, RequestsStayInMap, Blocks
  <1>2. QED
    BY <1>1, RawInit, RawStep, PTL DEF RSpec

\* Where a short read is never taken for success, every block that
\* rawimage_readblocks reports as read is the change, if there is one, and
\* else the block of the image.
THEOREM RawBlocksAreRight ==
    ASSUME "ok" \notin ShortRet
    PROVE  RSpec => []EveryBlockIsRight
  <1>1. RInit => EveryBlockIsRight
    BY DEF RInit, EveryBlockIsRight
  <1>2. RawInv /\ EveryBlockIsRight /\ [RNext]_<<vars, rvars>> => EveryBlockIsRight'
    <2> SUFFICES ASSUME RawInv, EveryBlockIsRight, [RNext]_<<vars, rvars>> PROVE EveryBlockIsRight'
      OBVIOUS
    <2>1. CASE obs' \in {obs, <<>>}
      BY <2>1 DEF EveryBlockIsRight
    <2>2. ASSUME NEW e, e.got = e.want, obs' = <<e>> PROVE EveryBlockIsRight'
      BY <2>2 DEF EveryBlockIsRight
    <2>3. ASSUME NEW b, NEW r \in BaseRead(b), r[1] = "ok" PROVE r[2] = <<"base", b>>
      BY <2>3 DEF BaseRead
    <2>4. CASE read_image
      <3>1. PICK o \in BaseRead(curblock) :
               obs' = IF o[1] = "ok" THEN <<[got |-> o[2], want |-> Wanted(curblock)]>> ELSE <<>>
        BY <2>4 DEF read_image
      <3>2. o[1] = "ok" => o[2] = Wanted(curblock)
        BY <2>3, <2>4 DEF read_image, Wanted
      <3>3. QED
        BY <2>1, <2>2, <3>1, <3>2
    <2>5. CASE read_block
      <3>a. curblock \in Blocks
        BY <2>5, NAssumption DEF RawInv, RTypeOK, RequestInImage, read_block, Blocks
      <3>0. PICK o \in IF st = "ready" THEN ReadOutcomes(curblock) ELSE {<<"ENXIO", None>>, <<"EIO", None>>} :
              \E r \in AfterChangeFile(o, curblock) :
                 \/ r[1] = "ok" /\ obs' = <<[got |-> r[2], want |-> Wanted(curblock)]>>
                 \/ obs' = <<>>
        BY <2>5 DEF read_block
      <3>1. PICK r \in AfterChangeFile(o, curblock) :
               \/ r[1] = "ok" /\ obs' = <<[got |-> r[2], want |-> Wanted(curblock)]>>
               \/ obs' = <<>>
        BY <3>0
      <3>2. ASSUME r[1] = "ok" PROVE r[2] = Wanted(curblock)
        <4>1. CASE o[1] = "ENXIO"
          <5>1. r \in BaseRead(curblock)
            BY <4>1 DEF AfterChangeFile
          <5>2. ~(st = "ready" /\ map[curblock] # 0)
            BY <3>a, <4>1 DEF ReadOutcomes
          <5>3. QED
            BY <2>3, <3>2, <5>1, <5>2 DEF Wanted
        <4>2. CASE o[1] # "ENXIO"
          <5>1. r = o
            BY <4>2 DEF AfterChangeFile
          <5>2. /\ st = "ready" /\ map[curblock] # 0
                /\ TrailerMatches(slots[map[curblock]], curblock) /\ r[2] = slots[map[curblock]].data
            BY <3>2, <4>2, <5>1 DEF ReadOutcomes
          <5>3. QED
            BY <5>2 DEF Wanted, Content
        <4>3. QED
          BY <4>1, <4>2
      <3>3. QED
        BY <2>1, <2>2, <3>1, <3>2
    <2>6. QED
      BY <2>1, <2>4, <2>5 DEF RNext, rawimage_open, rawimage_verify, verify_cf, verify_done,
         rawimage_seek, Request, write_start, write_created, write_block, write_done,
         rawimage_sync, rawimage_close, close_finish, close_done, Killed, Reset, rvars
  <1>3. QED
    BY <1>1, <1>2, RawInit, RawStep, PTL DEF RSpec

-----------------------------------------------------------------------------
(* Sessions that write nothing                                             *)

\* A handle is only ready on a whole file, a file is only created where there
\* was none, and before the first write the handle is what is in the file.
HandleIsFile ==
    /\ dmap = [b \in Blocks |-> dmap[b]] /\ map = [b \in Blocks |-> map[b]]
    /\ hdr # "valid" => st # "ready"
    /\ pc \in {"cr_hdr", "cr_map"} => hdr # "valid"
    /\ st = "ready" /\ ~wrote => map = dmap /\ used = dused

LEMMA HandleIsFileStep ==
    ASSUME ~TransientOpen, RawInv, HandleIsFile, [RNext]_<<vars, rvars>>
    PROVE  HandleIsFile'
  <1>0. FlagsMeanHandle /\ CallsFromLibrary
    BY DEF RawInv
  <1>1. ASSUME rawimage_verify PROVE HandleIsFile'
    BY <1>0, <1>1 DEF HandleIsFile, FlagsMeanHandle, CallsFromLibrary, rawimage_verify, cf_init,
       ZeroMap, file, handle, vars
  <1>2. ASSUME verify_cf PROVE HandleIsFile'
    BY <1>0, <1>2 DEF HandleIsFile, FlagsMeanHandle, CallsFromLibrary, verify_cf, cf_verify,
       VerifyOutcome, ZeroMap, file, vars
  <1>3. ASSUME write_start PROVE HandleIsFile'
    BY <1>0, <1>3 DEF HandleIsFile, FlagsMeanHandle, CallsFromLibrary, write_start, cf_create,
       cf_seek, file, handle
  <1>4. ASSUME NEW d \in Data, write_block(d) PROVE HandleIsFile'
    BY <1>0, <1>4 DEF HandleIsFile, FlagsMeanHandle, CallsFromLibrary, write_block, cf_writeblock,
       file, handle
  <1>5. ASSUME \/ rawimage_sync
                \/ rawimage_close PROVE HandleIsFile'
    BY <1>0, <1>5 DEF HandleIsFile, FlagsMeanHandle, CallsFromLibrary, rawimage_sync,
       rawimage_close, cf_sync, cf_sync_unverified, SyncHeader, SyncReturn, handle, vars, rvars,
       NoMap
  <1>6. ASSUME close_finish PROVE HandleIsFile'
    BY <1>0, <1>6 DEF HandleIsFile, FlagsMeanHandle, CallsFromLibrary, close_finish, cf_finish,
       SyncHeader, SyncReturn, FreeHandle, ZeroMap, file, handle, vars
  <1>7. ASSUME close_done PROVE HandleIsFile'
    BY <1>0, <1>7 DEF HandleIsFile, FlagsMeanHandle, CallsFromLibrary, close_done, Reset, vars
  <1>8. ASSUME Killed PROVE HandleIsFile'
    BY <1>0, <1>8 DEF HandleIsFile, FlagsMeanHandle, CallsFromLibrary, Killed, Crash, FreeHandle,
       ZeroMap, file
  <1>9. ASSUME cf_create_header, UNCHANGED rvars PROVE HandleIsFile'
    BY <1>0, <1>9 DEF HandleIsFile, FlagsMeanHandle, CallsFromLibrary, cf_create_header,
       CreateAfterWrite, handle, rvars
  <1>10. ASSUME cf_create_map, UNCHANGED rvars PROVE HandleIsFile'
    BY <1>0, <1>10 DEF HandleIsFile, FlagsMeanHandle, CallsFromLibrary, cf_create_map,
       CreateAfterWrite, ZeroMap, handle, rvars
  <1>11. ASSUME cf_create_open, UNCHANGED rvars PROVE HandleIsFile'
    BY <1>0, <1>11 DEF HandleIsFile, FlagsMeanHandle, CallsFromLibrary, cf_create_open,
       VerifyOutcome, ZeroMap, file, handle, rvars
  <1>12. ASSUME write_data \/ write_trailer, UNCHANGED rvars PROVE HandleIsFile'
    BY <1>0, <1>12 DEF HandleIsFile, FlagsMeanHandle, CallsFromLibrary, write_data, write_trailer,
       RecordNewBlock, WriteReturn, Writing, handle, rvars
  <1>13. ASSUME NEW fin \in BOOLEAN, SyncMap(fin), UNCHANGED rvars PROVE HandleIsFile'
    BY <1>0, <1>13 DEF HandleIsFile, FlagsMeanHandle, CallsFromLibrary, SyncMap, SyncReturn,
       FreeHandle, ZeroMap, handle, rvars
  <1>14. CASE UNCHANGED <<vars, wrote>>
    BY <1>14 DEF HandleIsFile, vars
  <1>15. CASE UNCHANGED <<file, st, map, used, pc, wrote>>
    BY <1>15 DEF HandleIsFile, file
  <1>16. QED
    BY <1>1, <1>2, <1>3, <1>4, <1>5, <1>6, <1>7, <1>8, <1>9, <1>10, <1>11, <1>12, <1>13, <1>14,
       <1>15 DEF RNext, CfStep, rawimage_open, verify_done,
       rawimage_seek, cf_seek, Request, read_image, read_block, write_created, write_done, rvars,
       vars

\* A session that writes no block, and has no handle that cf_verify rejected,
\* leaves the change file as it was, through rawimage_sync and through the
\* cf_sync of rawimage_close, which write it again.
THEOREM RawOnlyWritesTouchFile ==
    ASSUME ~TransientOpen
    PROVE  RSpec => OnlyWritesTouchFile
  <1>1. RInit => HandleIsFile
    BY DEF RInit, Init, HandleIsFile, ZeroMap
  <1>2. RawInv /\ HandleIsFile /\ [RNext]_<<vars, rvars>> => HandleIsFile'
    BY HandleIsFileStep
  <1>3. RawInv /\ HandleIsFile /\ [RNext]_<<vars, rvars>> =>
          [~wrote /\ ~NoMap /\ at \notin {"write", "w_create"} => file' = file]_<<vars, rvars>>
    <2> SUFFICES ASSUME RawInv, HandleIsFile, RNext, ~wrote, ~NoMap, at \notin {"write", "w_create"}
                 PROVE  file' = file
      OBVIOUS
    <2>0. FlagsMeanHandle /\ CallsFromLibrary
      BY DEF RawInv
    <2>1. CASE rawimage_sync \/ rawimage_close
      BY <2>1 DEF HandleIsFile, NoMap, rawimage_sync, rawimage_close, cf_sync, SyncHeader, file,
         vars
    <2>2. CASE close_finish
      BY <2>0, <2>2 DEF FlagsMeanHandle, close_finish, cf_finish, file, vars
    <2>3. CASE \E fin \in BOOLEAN : SyncMap(fin)
      BY <2>0, <2>3 DEF CallsFromLibrary, HandleIsFile, SyncMap, file
    <2>4. CASE cf_create_header \/ cf_create_map \/ write_data \/ write_trailer
      BY <2>0, <2>4 DEF CallsFromLibrary, FlagsMeanHandle, Writing,
         cf_create_header, cf_create_map, write_data, write_trailer
    <2>5. QED
      BY <2>1, <2>2, <2>3, <2>4 DEF RNext, CfStep, rawimage_open, rawimage_verify, cf_init,
         verify_cf,
         cf_verify, verify_done, rawimage_seek, cf_seek, Request, read_image, read_block,
         write_start,
         write_created, write_block, cf_writeblock, write_done, close_done, Killed, Crash,
         cf_create_open, vars, file
  <1>4. QED
    BY <1>1, <1>2, <1>3, RawInit, RawStep, PTL DEF RSpec, OnlyWritesTouchFile
=============================================================================
