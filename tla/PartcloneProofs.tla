--------------------------- MODULE PartcloneProofs --------------------------
(***************************************************************************)
(* Proofs about sessions on a partclone image, for every number of blocks, *)
(* every bitmap, every length of a request and every bound on the slots,   *)
(* whether or not an open can fail once.                                   *)
(***************************************************************************)
EXTENDS Partclone, IndexProofs

-----------------------------------------------------------------------------
(* The inductive invariant                                                 *)

\* A request stays inside of the image, and so does the change file's position.
RequestInImage ==
    /\ at \in {"read", "write", "w_create", "w_data", "w_done"} =>
          pst = "ready" /\ rem >= 1 /\ curblock + rem <= N
    /\ at = "w_data" => cur = curblock

\* Which call into changefile.c can be in progress where in libpartclone.c.
CallsFromLibrary ==
    /\ pc \in {"idle", "cr_hdr", "cr_map", "cr_init", "wr_data", "wr_trl", "sy_map", "fi_map"}
    /\ pc \in {"cr_hdr", "cr_map", "cr_init"} => at = "w_create"
    /\ Writing => at = "w_done"
    /\ pc = "sy_map" => at \in {"idle", "c_fin"} /\ pst # "closed" /\ st = "ready" /\ wrote
    /\ pc = "fi_map" => at = "c_end" /\ st = "ready" /\ wrote
    /\ at # "idle" => pst # "closed"

\* The flags PC_HAVE_CFDEP and PC_CF_VERIFIED together stand for a verified
\* handle; they are set on the way to a write, and nothing was written
\* through any other handle.
FlagsMeanHandle ==
    /\ pst \in {"closed", "open"} => ~cfdep
    /\ dirty => WriteReady /\ st = "ready" /\ wrote
    /\ WriteReady /\ ~wrote => at \in {"write", "w_data"}
    /\ at \in {"w_data", "w_done"} => WriteReady
    /\ at = "w_done" => wrote
    /\ at = "w_create" => ~WriteReady /\ (pc = "idle" /\ ret = "ok" => st = "ready")
    /\ WriteReady /\ at # "c_end" => st = "ready"
    /\ at = "c_end" /\ pc = "idle" => st = "closed" /\ ~dirty
    /\ at \in {"v_load", "v_done"} => pst = "open"

PcInv == PTypeOK /\ RequestInImage /\ CallsFromLibrary /\ FlagsMeanHandle

-----------------------------------------------------------------------------
(* Every step preserves it                                                 *)

LEMMA PcStep == PcInv /\ [PNext]_<<vars, pvars>> => PcInv'
  <1> SUFFICES ASSUME PcInv, [PNext]_<<vars, pvars>> PROVE PcInv'
    OBVIOUS
  <1> USE NAssumption, MaxBlocksAssumption
  <1>0. PTypeOK /\ RequestInImage /\ CallsFromLibrary /\ FlagsMeanHandle
    BY DEF PcInv
  <1>1. ASSUME NEW mode \in BOOLEAN, partclone_open(mode) PROVE PcInv'
    <2>1. PTypeOK'
      BY <1>0, <1>1 DEF partclone_open, Idle, flags, pos, vars, PTypeOK, RequestInImage
    <2>2. RequestInImage'
      BY <1>0, <1>1 DEF partclone_open, Idle, flags, pos, vars, PTypeOK, RequestInImage
    <2>3. CallsFromLibrary'
      BY <1>0, <1>1 DEF partclone_open, Idle, flags, pos, vars, CallsFromLibrary, FlagsMeanHandle,
         WriteReady, Writing
    <2>4. FlagsMeanHandle'
      BY <1>0, <1>1 DEF partclone_open, Idle, flags, pos, vars, RequestInImage, CallsFromLibrary,
         FlagsMeanHandle, WriteReady, Writing
    <2>5. QED
      BY <2>1, <2>2, <2>3, <2>4 DEF PcInv
  <1>2. ASSUME partclone_verify PROVE PcInv'
    <2>1. PTypeOK'
      BY <1>0, <1>2 DEF partclone_verify, cf_init, FreshHandle, Idle, flags, pos, session, vars,
         file, handle, PTypeOK, RequestInImage
    <2>2. RequestInImage'
      BY <1>0, <1>2 DEF partclone_verify, cf_init, FreshHandle, Idle, flags, pos, session, vars,
         file, handle, PTypeOK, RequestInImage
    <2>3. CallsFromLibrary'
      BY <1>0, <1>2 DEF partclone_verify, cf_init, FreshHandle, Idle, flags, pos, session, vars,
         file, handle, CallsFromLibrary, FlagsMeanHandle, WriteReady, Writing
    <2>4. FlagsMeanHandle'
      BY <1>0, <1>2 DEF partclone_verify, cf_init, FreshHandle, Idle, flags, pos, session, vars,
         file, handle, RequestInImage, CallsFromLibrary, FlagsMeanHandle, WriteReady, Writing
    <2>5. QED
      BY <2>1, <2>2, <2>3, <2>4 DEF PcInv
  <1>3. ASSUME verify_load PROVE PcInv'
    <2>1. PTypeOK'
      BY <1>0, <1>3 DEF verify_load, cf_verify, VerifyOutcome, pos, session, vars, file, PTypeOK,
         RequestInImage
    <2>2. RequestInImage'
      BY <1>0, <1>3 DEF verify_load, cf_verify, VerifyOutcome, pos, session, vars, file, PTypeOK,
         RequestInImage
    <2>3. CallsFromLibrary'
      BY <1>0, <1>3 DEF verify_load, cf_verify, VerifyOutcome, pos, session, vars, file,
         CallsFromLibrary, FlagsMeanHandle, WriteReady, Writing
    <2>4. FlagsMeanHandle'
      BY <1>0, <1>3 DEF verify_load, cf_verify, VerifyOutcome, pos, session, vars, file,
         RequestInImage, CallsFromLibrary, FlagsMeanHandle, WriteReady, Writing
    <2>5. QED
      BY <2>1, <2>2, <2>3, <2>4 DEF PcInv
  <1>4. ASSUME verify_done PROVE PcInv'
    <2>1. PTypeOK'
      BY <1>0, <1>4 DEF verify_done, pos, session, vars, PTypeOK, RequestInImage
    <2>2. RequestInImage'
      BY <1>0, <1>4 DEF verify_done, pos, session, vars, PTypeOK, RequestInImage
    <2>3. CallsFromLibrary'
      BY <1>0, <1>4 DEF verify_done, pos, session, vars, CallsFromLibrary, FlagsMeanHandle,
         WriteReady, Writing
    <2>4. FlagsMeanHandle'
      BY <1>0, <1>4 DEF verify_done, pos, session, vars, RequestInImage, CallsFromLibrary,
         FlagsMeanHandle, WriteReady, Writing
    <2>5. QED
      BY <2>1, <2>2, <2>3, <2>4 DEF PcInv
  <1>5. ASSUME NEW b \in 0 .. N, partclone_seek(b) PROVE PcInv'
    <2>1. PTypeOK'
      <3>1. {given, rw, cfopen, cfver, cfdep, fresh, wrote}' \subseteq BOOLEAN
        BY <1>0, <1>5 DEF partclone_seek, cf_seek, Idle, flags, session, vars, file, PTypeOK
      <3>2. nvbcount' \in Nat
        <4>1. v1_seek(Bitmap, precalculate_sumcount(Bitmap, N), b) \in Nat
          BY SeekIsNat
        <4>2. QED
          BY <1>5, <4>1 DEF partclone_seek
      <3>3. QED
        BY <1>0, <1>5, <3>1, <3>2 DEF partclone_seek, cf_seek, Idle, flags, session, vars, file,
           PTypeOK, RequestInImage
    <2>2. RequestInImage'
      BY <1>0, <1>5 DEF partclone_seek, cf_seek, Idle, flags, session, vars, file, PTypeOK,
         RequestInImage
    <2>3. CallsFromLibrary'
      BY <1>0, <1>5 DEF partclone_seek, cf_seek, Idle, flags, session, vars, file,
         CallsFromLibrary, FlagsMeanHandle, WriteReady, Writing
    <2>4. FlagsMeanHandle'
      BY <1>0, <1>5 DEF partclone_seek, cf_seek, Idle, flags, session, vars, file, RequestInImage,
         CallsFromLibrary, FlagsMeanHandle, WriteReady, Writing
    <2>5. QED
      BY <2>1, <2>2, <2>3, <2>4 DEF PcInv
  <1>6. ASSUME NEW n \in 1 .. MaxBlocks, partclone_readblocks(n) PROVE PcInv'
    <2>1. PTypeOK'
      BY <1>0, <1>6 DEF partclone_readblocks, Idle, flags, pos, session, vars, PTypeOK,
         RequestInImage
    <2>2. RequestInImage'
      BY <1>0, <1>6 DEF partclone_readblocks, Idle, flags, pos, session, vars, PTypeOK,
         RequestInImage
    <2>3. CallsFromLibrary'
      BY <1>0, <1>6 DEF partclone_readblocks, Idle, flags, pos, session, vars, CallsFromLibrary,
         FlagsMeanHandle, WriteReady, Writing
    <2>4. FlagsMeanHandle'
      BY <1>0, <1>6 DEF partclone_readblocks, Idle, flags, pos, session, vars, RequestInImage,
         CallsFromLibrary, FlagsMeanHandle, WriteReady, Writing
    <2>5. QED
      BY <2>1, <2>2, <2>3, <2>4 DEF PcInv
  <1>7. ASSUME NEW n \in 1 .. MaxBlocks, partclone_writeblocks(n) PROVE PcInv'
    <2>1. PTypeOK'
      BY <1>0, <1>7 DEF partclone_writeblocks, Writeable, Idle, flags, pos, session, vars,
         PTypeOK, RequestInImage
    <2>2. RequestInImage'
      BY <1>0, <1>7 DEF partclone_writeblocks, Writeable, Idle, flags, pos, session, vars,
         PTypeOK, RequestInImage
    <2>3. CallsFromLibrary'
      BY <1>0, <1>7 DEF partclone_writeblocks, Writeable, Idle, flags, pos, session, vars,
         CallsFromLibrary, FlagsMeanHandle, WriteReady, Writing
    <2>4. FlagsMeanHandle'
      BY <1>0, <1>7 DEF partclone_writeblocks, Writeable, Idle, flags, pos, session, vars,
         RequestInImage, CallsFromLibrary, FlagsMeanHandle, WriteReady, Writing
    <2>5. QED
      BY <2>1, <2>2, <2>3, <2>4 DEF PcInv
  <1>8. ASSUME v1_readblock PROVE PcInv'
    <2>1. PTypeOK'
      <3>1. {given, rw, cfopen, cfver, cfdep, fresh, wrote}' \subseteq BOOLEAN
        BY <1>0, <1>8 DEF v1_readblock, flags, session, file, PTypeOK
      <3>2. nvbcount' \in Nat
        BY <1>0, <1>8 DEF v1_readblock, flags, session, file, PTypeOK
      <3>3. QED
        BY <1>0, <1>8, <3>1, <3>2 DEF v1_readblock, flags, session, file, PTypeOK, RequestInImage
    <2>2. RequestInImage'
      BY <1>0, <1>8 DEF v1_readblock, flags, session, file, PTypeOK, RequestInImage
    <2>3. CallsFromLibrary'
      BY <1>0, <1>8 DEF v1_readblock, flags, session, file, CallsFromLibrary, FlagsMeanHandle,
         WriteReady, Writing
    <2>4. FlagsMeanHandle'
      BY <1>0, <1>8 DEF v1_readblock, flags, session, file, RequestInImage, CallsFromLibrary,
         FlagsMeanHandle, WriteReady, Writing
    <2>5. QED
      BY <2>1, <2>2, <2>3, <2>4 DEF PcInv
  <1>9. ASSUME v1_writeblock PROVE PcInv'
    <2>1. PTypeOK'
      BY <1>0, <1>9 DEF v1_writeblock, cf_seek, cf_create, flags, pos, session, vars, file,
         handle, PTypeOK, RequestInImage
    <2>2. RequestInImage'
      BY <1>0, <1>9 DEF v1_writeblock, cf_seek, cf_create, flags, pos, session, vars, file,
         handle, PTypeOK, RequestInImage
    <2>3. CallsFromLibrary'
      BY <1>0, <1>9 DEF v1_writeblock, cf_seek, cf_create, flags, pos, session, vars, file,
         handle, CallsFromLibrary, FlagsMeanHandle, WriteReady, Writing
    <2>4. FlagsMeanHandle'
      BY <1>0, <1>9 DEF v1_writeblock, cf_seek, cf_create, flags, pos, session, vars, file,
         handle, RequestInImage, CallsFromLibrary, FlagsMeanHandle, WriteReady, Writing
    <2>5. QED
      BY <2>1, <2>2, <2>3, <2>4 DEF PcInv
  <1>10. ASSUME write_created PROVE PcInv'
    <2>1. PTypeOK'
      <3>1. {given, rw, cfopen, cfver, cfdep, fresh, wrote}' \subseteq BOOLEAN
        BY <1>0, <1>10 DEF write_created, pos, session, vars, PTypeOK
      <3>2. nvbcount' \in Nat
        BY <1>0, <1>10 DEF write_created, pos, session, vars, PTypeOK
      <3>3. QED
        BY <1>0, <1>10, <3>1, <3>2 DEF write_created, pos, session, vars, PTypeOK, RequestInImage
    <2>2. RequestInImage'
      BY <1>0, <1>10 DEF write_created, pos, session, vars, PTypeOK, RequestInImage
    <2>3. CallsFromLibrary'
      BY <1>0, <1>10 DEF write_created, pos, session, vars, CallsFromLibrary, FlagsMeanHandle,
         WriteReady, Writing
    <2>4. FlagsMeanHandle'
      BY <1>0, <1>10 DEF write_created, pos, session, vars, RequestInImage, CallsFromLibrary,
         FlagsMeanHandle, WriteReady, Writing
    <2>5. QED
      BY <2>1, <2>2, <2>3, <2>4 DEF PcInv
  <1>11. ASSUME NEW d \in Data, write_block(d) PROVE PcInv'
    <2>1. PTypeOK'
      BY <1>0, <1>11 DEF write_block, cf_writeblock, flags, pos, session, file, handle, PTypeOK,
         RequestInImage
    <2>2. RequestInImage'
      BY <1>0, <1>11 DEF write_block, cf_writeblock, flags, pos, session, file, handle, PTypeOK,
         RequestInImage
    <2>3. CallsFromLibrary'
      BY <1>0, <1>11 DEF write_block, cf_writeblock, flags, pos, session, file, handle,
         CallsFromLibrary, FlagsMeanHandle, WriteReady, Writing, RequestInImage,
         PTypeOK, Blocks
    <2>4. FlagsMeanHandle'
      BY <1>0, <1>11 DEF write_block, cf_writeblock, flags, pos, session, file, handle,
         RequestInImage, CallsFromLibrary, FlagsMeanHandle, WriteReady, Writing
    <2>5. QED
      BY <2>1, <2>2, <2>3, <2>4 DEF PcInv
  <1>12. ASSUME write_done PROVE PcInv'
    <2>1. PTypeOK'
      <3>1. {given, rw, cfopen, cfver, cfdep, fresh, wrote}' \subseteq BOOLEAN
        BY <1>0, <1>12 DEF write_done, flags, session, vars, PTypeOK
      <3>2. nvbcount' \in Nat
        BY <1>0, <1>12 DEF write_done, flags, session, vars, PTypeOK
      <3>3. QED
        BY <1>0, <1>12, <3>1, <3>2 DEF write_done, flags, session, vars, PTypeOK, RequestInImage
    <2>2. RequestInImage'
      BY <1>0, <1>12 DEF write_done, flags, session, vars, PTypeOK, RequestInImage
    <2>3. CallsFromLibrary'
      BY <1>0, <1>12 DEF write_done, flags, session, vars, CallsFromLibrary, FlagsMeanHandle,
         WriteReady, Writing
    <2>4. FlagsMeanHandle'
      BY <1>0, <1>12 DEF write_done, flags, session, vars, RequestInImage, CallsFromLibrary,
         FlagsMeanHandle, WriteReady, Writing
    <2>5. QED
      BY <2>1, <2>2, <2>3, <2>4 DEF PcInv
  <1>13. ASSUME partclone_sync PROVE PcInv'
    <2>1. PTypeOK'
      BY <1>0, <1>13 DEF partclone_sync, Idle, cf_sync, SyncHeader, SyncReturn, handle, pvars,
         PTypeOK, RequestInImage
    <2>2. RequestInImage'
      BY <1>0, <1>13 DEF partclone_sync, Idle, cf_sync, SyncHeader, SyncReturn, handle, pvars,
         PTypeOK, RequestInImage
    <2>3. CallsFromLibrary'
      BY <1>0, <1>13 DEF partclone_sync, Idle, cf_sync, SyncHeader, SyncReturn, handle, pvars,
         CallsFromLibrary, FlagsMeanHandle, WriteReady, Writing
    <2>4. FlagsMeanHandle'
      BY <1>0, <1>13 DEF partclone_sync, Idle, cf_sync, SyncHeader, SyncReturn, handle, pvars,
         RequestInImage, CallsFromLibrary, FlagsMeanHandle, WriteReady, Writing
    <2>5. QED
      BY <2>1, <2>2, <2>3, <2>4 DEF PcInv
  <1>14. ASSUME partclone_close PROVE PcInv'
    <2>1. PTypeOK'
      BY <1>0, <1>14 DEF partclone_close, Idle, cf_sync, SyncHeader, SyncReturn, flags, pos,
         session, vars, handle, PTypeOK, RequestInImage
    <2>2. RequestInImage'
      BY <1>0, <1>14 DEF partclone_close, Idle, cf_sync, SyncHeader, SyncReturn, flags, pos,
         session, vars, handle, PTypeOK, RequestInImage
    <2>3. CallsFromLibrary'
      BY <1>0, <1>14 DEF partclone_close, Idle, cf_sync, SyncHeader, SyncReturn, flags, pos,
         session, vars, handle, CallsFromLibrary, FlagsMeanHandle, WriteReady, Writing
    <2>4. FlagsMeanHandle'
      BY <1>0, <1>14 DEF partclone_close, Idle, cf_sync, SyncHeader, SyncReturn, flags, pos,
         session, vars, handle, RequestInImage, CallsFromLibrary, FlagsMeanHandle, WriteReady,
         Writing
    <2>5. QED
      BY <2>1, <2>2, <2>3, <2>4 DEF PcInv
  <1>15. ASSUME v1_finish PROVE PcInv'
    <2>1. PTypeOK'
      BY <1>0, <1>15 DEF v1_finish, cf_finish, SyncHeader, SyncReturn, FreeHandle, flags, pos,
         session, vars, file, handle, PTypeOK, RequestInImage
    <2>2. RequestInImage'
      BY <1>0, <1>15 DEF v1_finish, cf_finish, SyncHeader, SyncReturn, FreeHandle, flags, pos,
         session, vars, file, handle, PTypeOK, RequestInImage
    <2>3. CallsFromLibrary'
      BY <1>0, <1>15 DEF v1_finish, cf_finish, SyncHeader, SyncReturn, FreeHandle, flags, pos,
         session, vars, file, handle, CallsFromLibrary, FlagsMeanHandle, WriteReady, Writing
    <2>4. FlagsMeanHandle'
      BY <1>0, <1>15 DEF v1_finish, cf_finish, SyncHeader, SyncReturn, FreeHandle, flags, pos,
         session, vars, file, handle, RequestInImage, CallsFromLibrary, FlagsMeanHandle,
         WriteReady, Writing
    <2>5. QED
      BY <2>1, <2>2, <2>3, <2>4 DEF PcInv
  <1>16. ASSUME close_done PROVE PcInv'
    <2>1. PTypeOK'
      <3>1. {given, rw, cfopen, cfver, cfdep, fresh, wrote}' \subseteq BOOLEAN
        BY <1>0, <1>16 DEF close_done, Reset, vars, PTypeOK
      <3>2. nvbcount' \in Nat
        BY <1>0, <1>16 DEF close_done, Reset, vars, PTypeOK
      <3>3. QED
        BY <1>0, <1>16, <3>1, <3>2 DEF close_done, Reset, vars, PTypeOK, RequestInImage
    <2>2. RequestInImage'
      BY <1>0, <1>16 DEF close_done, Reset, vars, PTypeOK, RequestInImage
    <2>3. CallsFromLibrary'
      BY <1>0, <1>16 DEF close_done, Reset, vars, CallsFromLibrary, FlagsMeanHandle, WriteReady,
         Writing
    <2>4. FlagsMeanHandle'
      BY <1>0, <1>16 DEF close_done, Reset, vars, RequestInImage, CallsFromLibrary,
         FlagsMeanHandle, WriteReady, Writing
    <2>5. QED
      BY <2>1, <2>2, <2>3, <2>4 DEF PcInv
  <1>17. ASSUME Killed PROVE PcInv'
    <2>1. PTypeOK'
      <3>1. {given, rw, cfopen, cfver, cfdep, fresh, wrote}' \subseteq BOOLEAN
        BY <1>0, <1>17 DEF Killed, Crash, Reset, FreeHandle, PTypeOK
      <3>2. nvbcount' \in Nat
        BY <1>0, <1>17 DEF Killed, Crash, Reset, FreeHandle, PTypeOK
      <3>3. QED
        BY <1>0, <1>17, <3>1, <3>2 DEF Killed, Crash, Reset, FreeHandle, PTypeOK, RequestInImage
    <2>2. RequestInImage'
      BY <1>0, <1>17 DEF Killed, Crash, Reset, FreeHandle, PTypeOK, RequestInImage
    <2>3. CallsFromLibrary'
      BY <1>0, <1>17 DEF Killed, Crash, Reset, FreeHandle, CallsFromLibrary, FlagsMeanHandle,
         WriteReady, Writing
    <2>4. FlagsMeanHandle'
      BY <1>0, <1>17 DEF Killed, Crash, Reset, FreeHandle, RequestInImage, CallsFromLibrary,
         FlagsMeanHandle, WriteReady, Writing
    <2>5. QED
      BY <2>1, <2>2, <2>3, <2>4 DEF PcInv
  <1>18. ASSUME cf_create_header, UNCHANGED pvars PROVE PcInv'
    <2>1. PTypeOK'
      BY <1>0, <1>18 DEF cf_create_header, CreateAfterWrite, handle, pvars, PTypeOK, RequestInImage
    <2>2. RequestInImage'
      BY <1>0, <1>18 DEF cf_create_header, CreateAfterWrite, handle, pvars, PTypeOK, RequestInImage
    <2>3. CallsFromLibrary'
      BY <1>0, <1>18 DEF cf_create_header, CreateAfterWrite, handle, pvars, CallsFromLibrary,
         FlagsMeanHandle, WriteReady, Writing
    <2>4. FlagsMeanHandle'
      BY <1>0, <1>18 DEF cf_create_header, CreateAfterWrite, handle, pvars, RequestInImage,
         CallsFromLibrary, FlagsMeanHandle, WriteReady, Writing
    <2>5. QED
      BY <2>1, <2>2, <2>3, <2>4 DEF PcInv
  <1>19. ASSUME cf_create_map, UNCHANGED pvars PROVE PcInv'
    <2>1. PTypeOK'
      BY <1>0, <1>19 DEF cf_create_map, CreateAfterWrite, handle, pvars, PTypeOK, RequestInImage
    <2>2. RequestInImage'
      BY <1>0, <1>19 DEF cf_create_map, CreateAfterWrite, handle, pvars, PTypeOK, RequestInImage
    <2>3. CallsFromLibrary'
      BY <1>0, <1>19 DEF cf_create_map, CreateAfterWrite, handle, pvars, CallsFromLibrary,
         FlagsMeanHandle, WriteReady, Writing
    <2>4. FlagsMeanHandle'
      BY <1>0, <1>19 DEF cf_create_map, CreateAfterWrite, handle, pvars, RequestInImage,
         CallsFromLibrary, FlagsMeanHandle, WriteReady, Writing
    <2>5. QED
      BY <2>1, <2>2, <2>3, <2>4 DEF PcInv
  <1>20. ASSUME cf_create_open, UNCHANGED pvars PROVE PcInv'
    <2>1. PTypeOK'
      BY <1>0, <1>20 DEF cf_create_open, VerifyOutcome, FreshHandle, file, handle, pvars, PTypeOK,
         RequestInImage
    <2>2. RequestInImage'
      BY <1>0, <1>20 DEF cf_create_open, VerifyOutcome, FreshHandle, file, handle, pvars, PTypeOK,
         RequestInImage,
         CallsFromLibrary
    <2>3. CallsFromLibrary'
      BY <1>0, <1>20 DEF cf_create_open, VerifyOutcome, FreshHandle, file, handle, pvars,
         CallsFromLibrary, FlagsMeanHandle, WriteReady, Writing
    <2>4. FlagsMeanHandle'
      BY <1>0, <1>20 DEF cf_create_open, VerifyOutcome, FreshHandle, file, handle, pvars,
         RequestInImage, CallsFromLibrary, FlagsMeanHandle, WriteReady, Writing
    <2>5. QED
      BY <2>1, <2>2, <2>3, <2>4 DEF PcInv
  <1>21. ASSUME write_data, UNCHANGED pvars PROVE PcInv'
    <2>1. PTypeOK'
      BY <1>0, <1>21 DEF write_data, WriteReturn, handle, pvars, PTypeOK, RequestInImage
    <2>2. RequestInImage'
      BY <1>0, <1>21 DEF write_data, WriteReturn, handle, pvars, PTypeOK, RequestInImage
    <2>3. CallsFromLibrary'
      BY <1>0, <1>21 DEF write_data, WriteReturn, handle, pvars, CallsFromLibrary,
         FlagsMeanHandle, WriteReady, Writing
    <2>4. FlagsMeanHandle'
      BY <1>0, <1>21 DEF write_data, WriteReturn, handle, pvars, RequestInImage, CallsFromLibrary,
         FlagsMeanHandle, WriteReady, Writing
    <2>5. QED
      BY <2>1, <2>2, <2>3, <2>4 DEF PcInv
  <1>22. ASSUME write_trailer, UNCHANGED pvars PROVE PcInv'
    <2>1. PTypeOK'
      BY <1>0, <1>22 DEF write_trailer, WriteReturn, RecordNewBlock, pvars, PTypeOK, RequestInImage
    <2>2. RequestInImage'
      BY <1>0, <1>22 DEF write_trailer, WriteReturn, RecordNewBlock, pvars, PTypeOK, RequestInImage
    <2>3. CallsFromLibrary'
      BY <1>0, <1>22 DEF write_trailer, WriteReturn, RecordNewBlock, pvars, CallsFromLibrary,
         FlagsMeanHandle, WriteReady, Writing
    <2>4. FlagsMeanHandle'
      BY <1>0, <1>22 DEF write_trailer, WriteReturn, RecordNewBlock, pvars, RequestInImage,
         CallsFromLibrary, FlagsMeanHandle, WriteReady, Writing
    <2>5. QED
      BY <2>1, <2>2, <2>3, <2>4 DEF PcInv
  <1>23. ASSUME NEW fin \in BOOLEAN, SyncMap(fin), UNCHANGED pvars PROVE PcInv'
    <2>1. PTypeOK'
      BY <1>0, <1>23 DEF SyncMap, SyncReturn, FreeHandle, handle, pvars, PTypeOK, RequestInImage
    <2>2. RequestInImage'
      BY <1>0, <1>23 DEF SyncMap, SyncReturn, FreeHandle, handle, pvars, PTypeOK, RequestInImage,
         CallsFromLibrary
    <2>3. CallsFromLibrary'
      BY <1>0, <1>23 DEF SyncMap, SyncReturn, FreeHandle, handle, pvars, CallsFromLibrary,
         FlagsMeanHandle, WriteReady, Writing
    <2>4. FlagsMeanHandle'
      BY <1>0, <1>23 DEF SyncMap, SyncReturn, FreeHandle, handle, pvars, RequestInImage,
         CallsFromLibrary, FlagsMeanHandle, WriteReady, Writing
    <2>5. QED
      BY <2>1, <2>2, <2>3, <2>4 DEF PcInv
  <1>24. ASSUME UNCHANGED <<vars, pvars>> PROVE PcInv'
    <2>1. PTypeOK'
      BY <1>0, <1>24 DEF vars, pvars, PTypeOK, RequestInImage
    <2>2. RequestInImage'
      BY <1>0, <1>24 DEF vars, pvars, PTypeOK, RequestInImage
    <2>3. CallsFromLibrary'
      BY <1>0, <1>24 DEF vars, pvars, CallsFromLibrary, FlagsMeanHandle, WriteReady, Writing
    <2>4. FlagsMeanHandle'
      BY <1>0, <1>24 DEF vars, pvars, RequestInImage, CallsFromLibrary, FlagsMeanHandle,
         WriteReady, Writing
    <2>5. QED
      BY <2>1, <2>2, <2>3, <2>4 DEF PcInv
  <1>25. QED
    BY <1>1, <1>2, <1>3, <1>4, <1>5, <1>6, <1>7, <1>8, <1>9, <1>10, <1>11, <1>12, <1>13, <1>14,
       <1>15, <1>16, <1>17, <1>18, <1>19, <1>20, <1>21, <1>22, <1>23, <1>24 DEF PNext, CfStep

LEMMA PcInit == PInit => PcInv
  <1> SUFFICES ASSUME PInit PROVE PcInv
    OBVIOUS
  <1>1. PTypeOK
    <2>1. {given, rw, cfopen, cfver, cfdep, fresh, wrote} \subseteq BOOLEAN
      BY DEF PInit
    <2>2. QED
      BY <2>1, NAssumption, MaxBlocksAssumption DEF PInit, PTypeOK
  <1>2. RequestInImage /\ CallsFromLibrary /\ FlagsMeanHandle
    BY DEF PInit, Init, RequestInImage, CallsFromLibrary, FlagsMeanHandle, WriteReady, Writing
  <1>3. QED
    BY <1>1, <1>2 DEF PcInv

\* The variables of libpartclone.c keep their types: v1_nvbcount after every
\* seek, the one behind the last block too, and requests of any length.
THEOREM PcTypeCorrect == PSpec => []PTypeOK
  <1>1. PcInv => PTypeOK
    BY DEF PcInv
  <1>2. QED
    BY <1>1, PcInit, PcStep, PTL DEF PSpec

\* v1_writeblock never replaces a handle through which blocks were written,
\* and what it takes for ready to write has a block map.
THEOREM PcWritesShareOneHandle == PSpec => []WritesShareOneHandle
  <1>1. PcInv => WritesShareOneHandle
    BY DEF PcInv, FlagsMeanHandle, WritesShareOneHandle
  <1>2. QED
    BY <1>1, PcInit, PcStep, PTL DEF PSpec

\* No request gets to the entry behind the block map.
THEOREM PcRequestsStayInMap == PSpec => []RequestsStayInMap
  <1>1. PcInv => RequestsStayInMap
    BY NAssumption DEF PcInv, PTypeOK, RequestInImage, CallsFromLibrary, RequestsStayInMap, Blocks
  <1>2. QED
    BY <1>1, PcInit, PcStep, PTL DEF PSpec

\* A session touches the change file only to write a block: partclone_verify,
\* reads, partclone_sync and partclone_close leave it as it was.
THEOREM PcOnlyWritesTouchFile == PSpec => OnlyWritesTouchFile
  <1>1. PcInv /\ [PNext]_<<vars, pvars>> =>
          [file' # file => wrote \/ at \in {"write", "w_create"}]_<<vars, pvars>>
    <2> SUFFICES ASSUME PcInv, PNext, ~wrote, at \notin {"write", "w_create"} PROVE file' = file
      OBVIOUS
    <2>0. FlagsMeanHandle /\ CallsFromLibrary
      BY DEF PcInv
    <2>1. ~partclone_sync
      BY <2>0 DEF FlagsMeanHandle, partclone_sync, Idle, WriteReady
    <2>2. CASE partclone_close
      BY <2>0, <2>2 DEF FlagsMeanHandle, partclone_close, Idle, WriteReady, file, vars
    <2>3. CASE v1_finish
      BY <2>0, <2>3 DEF FlagsMeanHandle, v1_finish, cf_finish, file, vars
    <2>4. CASE CfStep
      BY <2>0, <2>4 DEF CallsFromLibrary, FlagsMeanHandle, Writing, CfStep, cf_create_header,
         cf_create_map, cf_create_open, write_data, write_trailer, SyncMap
    <2>5. QED
      BY <2>1, <2>2, <2>3, <2>4 DEF PNext, partclone_open, partclone_verify, cf_init, verify_load,
         cf_verify, verify_done, partclone_seek, cf_seek, partclone_readblocks,
         partclone_writeblocks, v1_readblock, v1_writeblock, write_created, write_block,
         cf_writeblock, write_done, close_done, Killed, Crash, vars, file
  <1>2. QED
    BY <1>1, PcInit, PcStep, PTL DEF PSpec, OnlyWritesTouchFile

-----------------------------------------------------------------------------
(* The first block after a seek                                            *)

\* Until a block was done, v1_nvbcount is the number of the current block
\* among the stored ones.
SeekIsCounted == fresh /\ curblock < N => nvbcount = Preceding(Bitmap, curblock)

\* No two stored blocks have the same number, so that the stored block with
\* the number of block b is b.
LEMMA StoredBlockIsIt ==
    ASSUME Bitmap \in [Blocks -> {0, 1}], NEW b \in Blocks, Bitmap[b] = 1
    PROVE  StoredBlock(Preceding(Bitmap, b)) = <<"base", b>>
  <1>0. b \in Nat /\ Blocks \subseteq Nat
    BY NAssumption DEF Blocks
  <1>1. ASSUME NEW x \in Blocks, NEW y \in Blocks, x < y, Bitmap[x] = 1
        PROVE  Preceding(Bitmap, x) # Preceding(Bitmap, y)
    <2> DEFINE between == {i \in x + 1 .. y - 1 : Bitmap[i] # 0}
    <2>1. /\ Preceding(Bitmap, x) \in Nat
          /\ Preceding(Bitmap, x + 1) = Preceding(Bitmap, x) + 1
      BY <1>0, <1>1, PrecedingStep
    <2>2. Preceding(Bitmap, y) = Preceding(Bitmap, x + 1) + Cardinality(between)
      <3>1. \A i \in x + 1 .. y - 1 : Bitmap[i] \in {0, 1}
        BY NAssumption DEF Blocks
      <3>2. QED
        BY <1>0, <1>1, <3>1, PrecedingSplit
    <2>3. Cardinality(between) \in Nat
      <3>1. IsFiniteSet(x + 1 .. y - 1)
        BY <1>0, FS_Interval
      <3>2. QED
        BY <3>1, FS_Subset, FS_CardinalityType
    <2>4. QED
      BY <2>1, <2>2, <2>3
  <1>2. ASSUME NEW y \in Blocks, Bitmap[y] = 1, Preceding(Bitmap, y) = Preceding(Bitmap, b)
        PROVE  y = b
    BY <1>0, <1>1, <1>2
  <1>3. (CHOOSE y \in Blocks : Bitmap[y] = 1 /\ Preceding(Bitmap, y) = Preceding(Bitmap, b)) = b
    BY <1>2
  <1>4. QED
    BY <1>3 DEF StoredBlock

LEMMA SeekIsCountedStep ==
    ASSUME Bitmap \in [Blocks -> {0, 1}], SeekIsCounted, [PNext]_<<vars, pvars>>
    PROVE  SeekIsCounted'
  <1>1. ASSUME NEW b \in 0 .. N, partclone_seek(b) PROVE SeekIsCounted'
    <2>1. b < N => v1_seek(Bitmap, precalculate_sumcount(Bitmap, N), b) = Preceding(Bitmap, b)
      <3>1. N \in Nat /\ \A i \in 0 .. N - 1 : Bitmap[i] \in {0, 1}
        BY NAssumption DEF Blocks
      <3>2. BucketStart(b) \in 0 .. b
        BY BucketContains
      <3>3. b < N => b \in 0 .. N - 1 /\ \A i \in BucketStart(b) .. b - 1 : Bitmap[i] \in {0, 1}
        BY <3>1, <3>2
      <3>4. QED
        BY <3>1, <3>3, SeekCounts
    <2>2. QED
      BY <1>1, <2>1 DEF SeekIsCounted, partclone_seek
  <1>2. CASE UNCHANGED <<pos, fresh>>
    BY <1>2 DEF SeekIsCounted, pos
  <1>3. CASE fresh' = FALSE
    BY <1>3 DEF SeekIsCounted
  <1>4. QED
    BY <1>1, <1>2, <1>3 DEF PNext, partclone_open, partclone_verify, verify_load, verify_done,
       partclone_readblocks, partclone_writeblocks, v1_readblock, v1_writeblock, write_created,
       write_block, write_done, partclone_sync, partclone_close, v1_finish, close_done, Killed,
       Reset, pvars, pos

\* The first block of a request is the right one, whatever the seek before
\* it, whatever the size of a bucket, and whatever the change file did: the
\* change, the stored block of that very number, or zeros.
THEOREM FirstBlockIsRightAlways ==
    ASSUME Bitmap \in [Blocks -> {0, 1}]
    PROVE  PSpec => []FirstBlockIsRight
  <1>1. PInit => SeekIsCounted /\ FirstBlockIsRight
    BY DEF PInit, SeekIsCounted, FirstBlockIsRight, NoObs
  <1>2. SeekIsCounted /\ [PNext]_<<vars, pvars>> => SeekIsCounted'
    BY SeekIsCountedStep
  <1>3. PcInv /\ SeekIsCounted /\ FirstBlockIsRight /\ [PNext]_<<vars, pvars>> => FirstBlockIsRight'
    <2> SUFFICES ASSUME PcInv, SeekIsCounted, FirstBlockIsRight, [PNext]_<<vars, pvars>>
                 PROVE  FirstBlockIsRight'
      OBVIOUS
    <2>1. CASE UNCHANGED obs \/ obs' = NoObs
      BY <2>1 DEF FirstBlockIsRight, Succeeded, CfFailed, NoObs
    <2>2. ASSUME v1_readblock PROVE FirstBlockIsRight'
      <3>0. curblock \in Blocks /\ curblock < N
        BY <2>2, NAssumption DEF PcInv, PTypeOK, RequestInImage, v1_readblock, Blocks
      <3>1. PICK o \in ChangeFileRead(curblock) :
              \E g \in IF o[1] = "ok" THEN {o[2]}
                       ELSE IF Bitmap[curblock] # 0 THEN {StoredBlock(nvbcount), Eof} ELSE {Zero} :
                obs' = [blk |-> curblock, got |-> g, want |-> Wanted(curblock),
                        first |-> fresh, cf |-> o[1]]
        BY <2>2 DEF v1_readblock
      <3>2. PICK g \in IF o[1] = "ok" THEN {o[2]}
                       ELSE IF Bitmap[curblock] # 0 THEN {StoredBlock(nvbcount), Eof} ELSE {Zero} :
                obs' = [blk |-> curblock, got |-> g, want |-> Wanted(curblock),
                        first |-> fresh, cf |-> o[1]]
        BY <3>1
      <3>3. SUFFICES ASSUME g # Eof, fresh
                     PROVE  g = IF o[1] \in {"EIO", "ESRCH"} THEN Image(curblock) ELSE Wanted(curblock)
        BY <3>2 DEF FirstBlockIsRight, Succeeded, CfFailed, Image, Blocks
      <3>4. CASE o[1] = "ok"
        <4>1. st = "ready" /\ map[curblock] # 0 /\ TrailerMatches(slots[map[curblock]], curblock)
              /\ o[2] = slots[map[curblock]].data
          BY <3>4 DEF ChangeFileRead, ReadOutcomes
        <4>2. QED
          BY <3>2, <3>4, <4>1 DEF Wanted, Content
      <3>5. CASE o[1] # "ok"
        <4>1. g = Image(curblock)
          <5>1. CASE Bitmap[curblock] = 1
            BY <3>0, <3>2, <3>3, <3>5, <5>1, StoredBlockIsIt DEF SeekIsCounted, Image
          <5>2. CASE Bitmap[curblock] # 1
            BY <3>0, <3>2, <3>5, <5>2 DEF Image
          <5>3. QED
            BY <5>1, <5>2
        <4>2. o[1] \notin {"EIO", "ESRCH"} => Wanted(curblock) = Image(curblock)
          BY <3>0, <3>5 DEF ChangeFileRead, ReadOutcomes, Wanted
        <4>3. QED
          BY <4>1, <4>2
      <3>6. QED
        BY <3>4, <3>5
    <2>3. QED
      BY <2>1, <2>2 DEF PNext, partclone_open, partclone_verify, verify_load, verify_done,
         partclone_seek, partclone_readblocks, partclone_writeblocks, v1_writeblock, write_created,
         write_block, write_done, partclone_sync, partclone_close, v1_finish, close_done, Killed,
         Reset, pvars
  <1>4. QED
    BY <1>1, <1>2, <1>3, PcInit, PcStep, PTL DEF PSpec
=============================================================================
