--------------------------- MODULE NtfsCloneProofs --------------------------
(***************************************************************************)
(* Proofs about sessions on an ntfsclone image, for every set of images,   *)
(* every number of clusters, every length of a request and every bound on  *)
(* the slots, whether or not an open can fail once.                        *)
(***************************************************************************)
EXTENDS NtfsClone, IndexProofs

-----------------------------------------------------------------------------
(* The inductive invariant                                                 *)

\* The part of the type invariant that is not about the index.
SessionTypeOK ==
    /\ {given, asked, rw, cfopen, cfver, cfdep, seeked, wrote} \subseteq BOOLEAN
    /\ nst \in {"closed", "open", "failed", "ready"}
    /\ curblock \in 0 .. N /\ rem \in 0 .. MaxBlocks /\ nr \in 0 .. N
    /\ at \in {"idle", "v_load", "v_done", "read", "write", "w_create", "w_data", "w_done",
               "c_fin", "c_end"}

\* A request stays inside of the image, and so does the change file's position.
RequestInImage ==
    /\ at \in {"read", "write", "w_create", "w_data", "w_done"} =>
          nst = "ready" /\ rem >= 1 /\ curblock + rem <= N
    /\ at = "w_data" => cur = curblock

\* Which call into changefile.c can be in progress where in libntfsclone.c.
CallsFromLibrary ==
    /\ pc \in {"idle", "cr_hdr", "cr_map", "cr_init", "wr_data", "wr_trl", "sy_map", "fi_map"}
    /\ pc \in {"cr_hdr", "cr_map", "cr_init"} => at = "w_create"
    /\ Writing => at = "w_done"
    /\ pc = "sy_map" => at \in {"idle", "c_fin"} /\ nst # "closed" /\ st = "ready" /\ wrote
    /\ pc = "fi_map" => at = "c_end" /\ st = "ready" /\ wrote
    /\ at # "idle" => nst # "closed"

\* The flags NC_HAVE_CFDEP and NC_CF_VERIFIED together stand for a verified
\* handle; they are set on the way to a write, and nothing was written
\* through any other handle.
FlagsMeanHandle ==
    /\ nst \in {"closed", "open"} => ~cfdep
    /\ dirty => WriteReady /\ st = "ready" /\ wrote
    /\ WriteReady /\ ~wrote => at \in {"write", "w_data"}
    /\ at \in {"w_data", "w_done"} => WriteReady
    /\ at = "w_done" => wrote
    /\ at = "w_create" => ~WriteReady /\ (pc = "idle" /\ ret = "ok" => st = "ready")
    /\ WriteReady /\ at # "c_end" => st = "ready"
    /\ at = "c_end" /\ pc = "idle" => st = "closed" /\ ~dirty
    /\ at \in {"v_load", "v_done"} => nst = "open"

\* The trailing cluster is counted from v10_verify on, the handle that v10_init
\* opened before that has the count of clusters that cf_create gives to a file,
\* and cf_verify did not reject it for its header.
CountsAgree ==
    /\ at = "v_load" => nr = N - 1
    /\ at = "v_done" \/ nst = "ready" => nr = N
    /\ nst = "open" /\ at = "idle" => st = "closed"
    /\ at = "v_load" /\ st = "init" => cnt = N
    /\ at = "v_done" /\ hdr = "valid" => ret # "ENODEV"

NcInv == SessionTypeOK /\ RequestInImage /\ CallsFromLibrary /\ FlagsMeanHandle /\ CountsAgree

-----------------------------------------------------------------------------
(* Every step preserves it                                                 *)

LEMMA NcStep == NcInv /\ [NNext]_<<vars, ncvars>> => NcInv'
  <1> SUFFICES ASSUME NcInv, [NNext]_<<vars, ncvars>> PROVE NcInv'
    OBVIOUS
  <1> USE NAssumption, NtfsMaxBlocksAssumption
  <1>0. SessionTypeOK /\ RequestInImage /\ CallsFromLibrary /\ FlagsMeanHandle /\ CountsAgree
    BY DEF NcInv
  <1>1. ASSUME NEW mode \in BOOLEAN, ntfsclone_open(mode) PROVE NcInv'
    <2>1. SessionTypeOK'
      BY <1>0, <1>1 DEF ntfsclone_open, Idle, flags, pos, options, vars, SessionTypeOK,
         RequestInImage
    <2>2. RequestInImage'
      BY <1>0, <1>1 DEF ntfsclone_open, Idle, flags, pos, options, vars, SessionTypeOK,
         RequestInImage
    <2>3. CallsFromLibrary'
      BY <1>0, <1>1 DEF ntfsclone_open, Idle, flags, pos, options, vars, CallsFromLibrary,
         FlagsMeanHandle, WriteReady, Writing
    <2>4. FlagsMeanHandle'
      BY <1>0, <1>1 DEF ntfsclone_open, Idle, flags, pos, options, vars, RequestInImage,
         CallsFromLibrary, FlagsMeanHandle, WriteReady, Writing
    <2>5. CountsAgree'
      BY <1>0, <1>1 DEF ntfsclone_open, Idle, flags, pos, options, vars, CallsFromLibrary,
         RequestInImage, CountsAgree
    <2>6. QED
      BY <2>1, <2>2, <2>3, <2>4, <2>5 DEF NcInv
  <1>2. ASSUME ntfsclone_verify PROVE NcInv'
    <2>1. SessionTypeOK'
      BY <1>0, <1>2 DEF ntfsclone_verify, ClustersForInit, HeaderClusters, cf_init, FreshHandle, Idle, flags,
         pos, options, vars, file, handle, SessionTypeOK, RequestInImage
    <2>2. RequestInImage'
      BY <1>0, <1>2 DEF ntfsclone_verify, ClustersForInit, HeaderClusters, cf_init, FreshHandle, Idle, flags,
         pos, options, vars, file, handle, SessionTypeOK, RequestInImage
    <2>3. CallsFromLibrary'
      BY <1>0, <1>2 DEF ntfsclone_verify, ClustersForInit, HeaderClusters, cf_init, FreshHandle, Idle, flags,
         pos, options, vars, file, handle, CallsFromLibrary, FlagsMeanHandle, WriteReady, Writing
    <2>4. FlagsMeanHandle'
      BY <1>0, <1>2 DEF ntfsclone_verify, ClustersForInit, HeaderClusters, cf_init, FreshHandle, Idle, flags,
         pos, options, vars, file, handle, RequestInImage, CallsFromLibrary, FlagsMeanHandle,
         WriteReady, Writing
    <2>5. CountsAgree'
      BY <1>0, <1>2 DEF ntfsclone_verify, ClustersForInit, HeaderClusters, cf_init, FreshHandle, Idle, flags,
         pos, options, vars, file, handle, CallsFromLibrary, RequestInImage, CountsAgree
    <2>6. QED
      BY <2>1, <2>2, <2>3, <2>4, <2>5 DEF NcInv
  <1>3. ASSUME verify_load PROVE NcInv'
    <2>1. SessionTypeOK'
      <3>1. nr' \in 0 .. N
        BY <1>0, <1>3 DEF verify_load, CountsAgree
      <3>2. QED
        BY <1>0, <1>3, <3>1 DEF verify_load, cf_verify, VerifyOutcome, pos, options, vars, file,
           SessionTypeOK
    <2>2. RequestInImage'
      BY <1>0, <1>3 DEF verify_load, cf_verify, VerifyOutcome, pos, options, vars, file,
         SessionTypeOK, RequestInImage
    <2>3. CallsFromLibrary'
      BY <1>0, <1>3 DEF verify_load, cf_verify, VerifyOutcome, pos, options, vars, file,
         CallsFromLibrary, FlagsMeanHandle, WriteReady, Writing
    <2>4. FlagsMeanHandle'
      BY <1>0, <1>3 DEF verify_load, cf_verify, VerifyOutcome, pos, options, vars, file,
         RequestInImage, CallsFromLibrary, FlagsMeanHandle, WriteReady, Writing
    <2>5. CountsAgree'
      BY <1>0, <1>3 DEF verify_load, cf_verify, VerifyOutcome, pos, options, vars, file,
         CallsFromLibrary, RequestInImage, CountsAgree
    <2>6. QED
      BY <2>1, <2>2, <2>3, <2>4, <2>5 DEF NcInv
  <1>4. ASSUME verify_done PROVE NcInv'
    <2>1. SessionTypeOK'
      BY <1>0, <1>4 DEF verify_done, pos, options, vars, SessionTypeOK, RequestInImage
    <2>2. RequestInImage'
      BY <1>0, <1>4 DEF verify_done, pos, options, vars, SessionTypeOK, RequestInImage
    <2>3. CallsFromLibrary'
      BY <1>0, <1>4 DEF verify_done, pos, options, vars, CallsFromLibrary, FlagsMeanHandle,
         WriteReady, Writing
    <2>4. FlagsMeanHandle'
      BY <1>0, <1>4 DEF verify_done, pos, options, vars, RequestInImage, CallsFromLibrary,
         FlagsMeanHandle, WriteReady, Writing
    <2>5. CountsAgree'
      BY <1>0, <1>4 DEF verify_done, pos, options, vars, CallsFromLibrary, RequestInImage,
         CountsAgree
    <2>6. QED
      BY <2>1, <2>2, <2>3, <2>4, <2>5 DEF NcInv
  <1>5. ASSUME NEW b \in 0 .. N, ntfsclone_seek(b) PROVE NcInv'
    <2>1. SessionTypeOK'
      BY <1>0, <1>5 DEF ntfsclone_seek, cf_seek, Idle, flags, options, vars, file, SessionTypeOK,
         RequestInImage
    <2>2. RequestInImage'
      BY <1>0, <1>5 DEF ntfsclone_seek, cf_seek, Idle, flags, options, vars, file, SessionTypeOK,
         RequestInImage
    <2>3. CallsFromLibrary'
      BY <1>0, <1>5 DEF ntfsclone_seek, cf_seek, Idle, flags, options, vars, file,
         CallsFromLibrary, FlagsMeanHandle, WriteReady, Writing
    <2>4. FlagsMeanHandle'
      BY <1>0, <1>5 DEF ntfsclone_seek, cf_seek, Idle, flags, options, vars, file, RequestInImage,
         CallsFromLibrary, FlagsMeanHandle, WriteReady, Writing
    <2>5. CountsAgree'
      BY <1>0, <1>5 DEF ntfsclone_seek, cf_seek, Idle, flags, options, vars, file,
         CallsFromLibrary, RequestInImage, CountsAgree
    <2>6. QED
      BY <2>1, <2>2, <2>3, <2>4, <2>5 DEF NcInv
  <1>6. ASSUME NEW op \in {"read", "write"}, NEW n \in 1 .. MaxBlocks, Request(op, n) PROVE NcInv'
    <2>1. SessionTypeOK'
      <3>1. {given, asked, rw, cfopen, cfver, cfdep, seeked, wrote}' \subseteq BOOLEAN
        BY <1>0, <1>6 DEF Request, Idle, flags, pos, options, vars, SessionTypeOK
      <3>2. QED
        BY <1>0, <1>6, <3>1 DEF Request, Idle, flags, pos, options, vars, SessionTypeOK,
           RequestInImage
    <2>2. RequestInImage'
      BY <1>0, <1>6 DEF Request, Idle, flags, pos, options, vars, SessionTypeOK, RequestInImage
    <2>3. CallsFromLibrary'
      BY <1>0, <1>6 DEF Request, Idle, flags, pos, options, vars, CallsFromLibrary,
         FlagsMeanHandle, WriteReady, Writing
    <2>4. FlagsMeanHandle'
      BY <1>0, <1>6 DEF Request, Idle, flags, pos, options, vars, RequestInImage,
         CallsFromLibrary, FlagsMeanHandle, WriteReady, Writing
    <2>5. CountsAgree'
      BY <1>0, <1>6 DEF Request, Idle, flags, pos, options, vars, CallsFromLibrary,
         RequestInImage, CountsAgree
    <2>6. QED
      BY <2>1, <2>2, <2>3, <2>4, <2>5 DEF NcInv
  <1>7. ASSUME v10_readblock PROVE NcInv'
    <2>1. SessionTypeOK'
      <3>1. {given, asked, rw, cfopen, cfver, cfdep, seeked, wrote}' \subseteq BOOLEAN
        BY <1>0, <1>7 DEF v10_readblock, flags, options, file, SessionTypeOK
      <3>2. QED
        BY <1>0, <1>7, <3>1 DEF v10_readblock, flags, options, file, SessionTypeOK, RequestInImage
    <2>2. RequestInImage'
      BY <1>0, <1>7 DEF v10_readblock, flags, options, file, SessionTypeOK, RequestInImage
    <2>3. CallsFromLibrary'
      BY <1>0, <1>7 DEF v10_readblock, flags, options, file, CallsFromLibrary, FlagsMeanHandle,
         WriteReady, Writing
    <2>4. FlagsMeanHandle'
      BY <1>0, <1>7 DEF v10_readblock, flags, options, file, RequestInImage, CallsFromLibrary,
         FlagsMeanHandle, WriteReady, Writing
    <2>5. CountsAgree'
      BY <1>0, <1>7 DEF v10_readblock, flags, options, file, CallsFromLibrary, RequestInImage,
         CountsAgree
    <2>6. QED
      BY <2>1, <2>2, <2>3, <2>4, <2>5 DEF NcInv
  <1>8. ASSUME v10_writeblock PROVE NcInv'
    <2>1. SessionTypeOK'
      BY <1>0, <1>8 DEF v10_writeblock, cf_seek, cf_create, flags, pos, options, vars, file,
         handle, SessionTypeOK, RequestInImage
    <2>2. RequestInImage'
      BY <1>0, <1>8 DEF v10_writeblock, cf_seek, cf_create, flags, pos, options, vars, file,
         handle, SessionTypeOK, RequestInImage
    <2>3. CallsFromLibrary'
      BY <1>0, <1>8 DEF v10_writeblock, cf_seek, cf_create, flags, pos, options, vars, file,
         handle, CallsFromLibrary, FlagsMeanHandle, WriteReady, Writing
    <2>4. FlagsMeanHandle'
      BY <1>0, <1>8 DEF v10_writeblock, cf_seek, cf_create, flags, pos, options, vars, file,
         handle, RequestInImage, CallsFromLibrary, FlagsMeanHandle, WriteReady, Writing
    <2>5. CountsAgree'
      BY <1>0, <1>8 DEF v10_writeblock, cf_seek, cf_create, flags, pos, options, vars, file,
         handle, CallsFromLibrary, RequestInImage, CountsAgree
    <2>6. QED
      BY <2>1, <2>2, <2>3, <2>4, <2>5 DEF NcInv
  <1>9. ASSUME write_created PROVE NcInv'
    <2>1. SessionTypeOK'
      <3>1. {given, asked, rw, cfopen, cfver, cfdep, seeked, wrote}' \subseteq BOOLEAN
        BY <1>0, <1>9 DEF write_created, pos, options, vars, SessionTypeOK
      <3>2. QED
        BY <1>0, <1>9, <3>1 DEF write_created, pos, options, vars, SessionTypeOK, RequestInImage
    <2>2. RequestInImage'
      BY <1>0, <1>9 DEF write_created, pos, options, vars, SessionTypeOK, RequestInImage
    <2>3. CallsFromLibrary'
      BY <1>0, <1>9 DEF write_created, pos, options, vars, CallsFromLibrary, FlagsMeanHandle,
         WriteReady, Writing
    <2>4. FlagsMeanHandle'
      BY <1>0, <1>9 DEF write_created, pos, options, vars, RequestInImage, CallsFromLibrary,
         FlagsMeanHandle, WriteReady, Writing
    <2>5. CountsAgree'
      BY <1>0, <1>9 DEF write_created, pos, options, vars, CallsFromLibrary, RequestInImage,
         CountsAgree
    <2>6. QED
      BY <2>1, <2>2, <2>3, <2>4, <2>5 DEF NcInv
  <1>10. ASSUME NEW d \in Data, write_block(d) PROVE NcInv'
    <2>1. SessionTypeOK'
      BY <1>0, <1>10 DEF write_block, cf_writeblock, flags, pos, options, file, handle,
         SessionTypeOK, RequestInImage
    <2>2. RequestInImage'
      BY <1>0, <1>10 DEF write_block, cf_writeblock, flags, pos, options, file, handle,
         SessionTypeOK, RequestInImage
    <2>3. CallsFromLibrary'
      BY <1>0, <1>10 DEF write_block, cf_writeblock, flags, pos, options, file, handle,
         CallsFromLibrary, FlagsMeanHandle, WriteReady, Writing, RequestInImage,
         SessionTypeOK, Blocks
    <2>4. FlagsMeanHandle'
      BY <1>0, <1>10 DEF write_block, cf_writeblock, flags, pos, options, file, handle,
         RequestInImage, CallsFromLibrary, FlagsMeanHandle, WriteReady, Writing
    <2>5. CountsAgree'
      BY <1>0, <1>10 DEF write_block, cf_writeblock, flags, pos, options, file, handle,
         CallsFromLibrary, RequestInImage, CountsAgree
    <2>6. QED
      BY <2>1, <2>2, <2>3, <2>4, <2>5 DEF NcInv
  <1>11. ASSUME write_done PROVE NcInv'
    <2>1. SessionTypeOK'
      <3>1. {given, asked, rw, cfopen, cfver, cfdep, seeked, wrote}' \subseteq BOOLEAN
        BY <1>0, <1>11 DEF write_done, flags, options, vars, SessionTypeOK
      <3>2. QED
        BY <1>0, <1>11, <3>1 DEF write_done, flags, options, vars, SessionTypeOK, RequestInImage
    <2>2. RequestInImage'
      BY <1>0, <1>11 DEF write_done, flags, options, vars, SessionTypeOK, RequestInImage
    <2>3. CallsFromLibrary'
      BY <1>0, <1>11 DEF write_done, flags, options, vars, CallsFromLibrary, FlagsMeanHandle,
         WriteReady, Writing
    <2>4. FlagsMeanHandle'
      BY <1>0, <1>11 DEF write_done, flags, options, vars, RequestInImage, CallsFromLibrary,
         FlagsMeanHandle, WriteReady, Writing
    <2>5. CountsAgree'
      BY <1>0, <1>11 DEF write_done, flags, options, vars, CallsFromLibrary, RequestInImage,
         CountsAgree
    <2>6. QED
      BY <2>1, <2>2, <2>3, <2>4, <2>5 DEF NcInv
  <1>12. ASSUME ntfsclone_sync PROVE NcInv'
    <2>1. SessionTypeOK'
      BY <1>0, <1>12 DEF ntfsclone_sync, Idle, cf_sync, SyncHeader, SyncReturn, handle, ncvars,
         SessionTypeOK, RequestInImage
    <2>2. RequestInImage'
      BY <1>0, <1>12 DEF ntfsclone_sync, Idle, cf_sync, SyncHeader, SyncReturn, handle, ncvars,
         SessionTypeOK, RequestInImage
    <2>3. CallsFromLibrary'
      BY <1>0, <1>12 DEF ntfsclone_sync, Idle, cf_sync, SyncHeader, SyncReturn, handle, ncvars,
         CallsFromLibrary, FlagsMeanHandle, WriteReady, Writing
    <2>4. FlagsMeanHandle'
      BY <1>0, <1>12 DEF ntfsclone_sync, Idle, cf_sync, SyncHeader, SyncReturn, handle, ncvars,
         RequestInImage, CallsFromLibrary, FlagsMeanHandle, WriteReady, Writing
    <2>5. CountsAgree'
      BY <1>0, <1>12 DEF ntfsclone_sync, Idle, cf_sync, SyncHeader, SyncReturn, handle, ncvars,
         CallsFromLibrary, RequestInImage, CountsAgree
    <2>6. QED
      BY <2>1, <2>2, <2>3, <2>4, <2>5 DEF NcInv
  <1>13. ASSUME ntfsclone_close PROVE NcInv'
    <2>1. SessionTypeOK'
      BY <1>0, <1>13 DEF ntfsclone_close, Idle, cf_sync, SyncHeader, SyncReturn, flags, pos,
         options, vars, handle, SessionTypeOK, RequestInImage
    <2>2. RequestInImage'
      BY <1>0, <1>13 DEF ntfsclone_close, Idle, cf_sync, SyncHeader, SyncReturn, flags, pos,
         options, vars, handle, SessionTypeOK, RequestInImage
    <2>3. CallsFromLibrary'
      BY <1>0, <1>13 DEF ntfsclone_close, Idle, cf_sync, SyncHeader, SyncReturn, flags, pos,
         options, vars, handle, CallsFromLibrary, FlagsMeanHandle, WriteReady, Writing
    <2>4. FlagsMeanHandle'
      BY <1>0, <1>13 DEF ntfsclone_close, Idle, cf_sync, SyncHeader, SyncReturn, flags, pos,
         options, vars, handle, RequestInImage, CallsFromLibrary, FlagsMeanHandle, WriteReady,
         Writing
    <2>5. CountsAgree'
      BY <1>0, <1>13 DEF ntfsclone_close, Idle, cf_sync, SyncHeader, SyncReturn, flags, pos,
         options, vars, handle, CallsFromLibrary, RequestInImage, CountsAgree
    <2>6. QED
      BY <2>1, <2>2, <2>3, <2>4, <2>5 DEF NcInv
  <1>14. ASSUME v10_finish PROVE NcInv'
    <2>1. SessionTypeOK'
      BY <1>0, <1>14 DEF v10_finish, cf_finish, SyncHeader, SyncReturn, FreeHandle, flags, pos,
         options, vars, file, handle, SessionTypeOK, RequestInImage
    <2>2. RequestInImage'
      BY <1>0, <1>14 DEF v10_finish, cf_finish, SyncHeader, SyncReturn, FreeHandle, flags, pos,
         options, vars, file, handle, SessionTypeOK, RequestInImage
    <2>3. CallsFromLibrary'
      BY <1>0, <1>14 DEF v10_finish, cf_finish, SyncHeader, SyncReturn, FreeHandle, flags, pos,
         options, vars, file, handle, CallsFromLibrary, FlagsMeanHandle, WriteReady, Writing
    <2>4. FlagsMeanHandle'
      BY <1>0, <1>14 DEF v10_finish, cf_finish, SyncHeader, SyncReturn, FreeHandle, flags, pos,
         options, vars, file, handle, RequestInImage, CallsFromLibrary, FlagsMeanHandle,
         WriteReady, Writing
    <2>5. CountsAgree'
      BY <1>0, <1>14 DEF v10_finish, cf_finish, SyncHeader, SyncReturn, FreeHandle, flags, pos,
         options, vars, file, handle, CallsFromLibrary, RequestInImage, CountsAgree
    <2>6. QED
      BY <2>1, <2>2, <2>3, <2>4, <2>5 DEF NcInv
  <1>15. ASSUME close_done PROVE NcInv'
    <2>1. SessionTypeOK'
      <3>1. {given, asked, rw, cfopen, cfver, cfdep, seeked, wrote}' \subseteq BOOLEAN
        BY <1>0, <1>15 DEF close_done, Reset, options, vars, SessionTypeOK
      <3>2. QED
        BY <1>0, <1>15, <3>1 DEF close_done, Reset, options, vars, SessionTypeOK, RequestInImage
    <2>2. RequestInImage'
      BY <1>0, <1>15 DEF close_done, Reset, options, vars, SessionTypeOK, RequestInImage
    <2>3. CallsFromLibrary'
      BY <1>0, <1>15 DEF close_done, Reset, options, vars, CallsFromLibrary, FlagsMeanHandle,
         WriteReady, Writing
    <2>4. FlagsMeanHandle'
      BY <1>0, <1>15 DEF close_done, Reset, options, vars, RequestInImage, CallsFromLibrary,
         FlagsMeanHandle, WriteReady, Writing
    <2>5. CountsAgree'
      BY <1>0, <1>15 DEF close_done, Reset, options, vars, CallsFromLibrary, RequestInImage,
         CountsAgree
    <2>6. QED
      BY <2>1, <2>2, <2>3, <2>4, <2>5 DEF NcInv
  <1>16. ASSUME Killed PROVE NcInv'
    <2>1. SessionTypeOK'
      <3>1. {given, asked, rw, cfopen, cfver, cfdep, seeked, wrote}' \subseteq BOOLEAN
        BY <1>0, <1>16 DEF Killed, Crash, Reset, FreeHandle, options, SessionTypeOK
      <3>2. QED
        BY <1>0, <1>16, <3>1 DEF Killed, Crash, Reset, FreeHandle, options, SessionTypeOK,
           RequestInImage
    <2>2. RequestInImage'
      BY <1>0, <1>16 DEF Killed, Crash, Reset, FreeHandle, options, SessionTypeOK, RequestInImage
    <2>3. CallsFromLibrary'
      BY <1>0, <1>16 DEF Killed, Crash, Reset, FreeHandle, options, CallsFromLibrary,
         FlagsMeanHandle, WriteReady, Writing
    <2>4. FlagsMeanHandle'
      BY <1>0, <1>16 DEF Killed, Crash, Reset, FreeHandle, options, RequestInImage,
         CallsFromLibrary, FlagsMeanHandle, WriteReady, Writing
    <2>5. CountsAgree'
      BY <1>0, <1>16 DEF Killed, Crash, Reset, FreeHandle, options, CallsFromLibrary,
         RequestInImage, CountsAgree
    <2>6. QED
      BY <2>1, <2>2, <2>3, <2>4, <2>5 DEF NcInv
  <1>17. ASSUME cf_create_header, UNCHANGED ncvars PROVE NcInv'
    <2>1. SessionTypeOK'
      BY <1>0, <1>17 DEF cf_create_header, CreateAfterWrite, handle, ncvars, SessionTypeOK,
         RequestInImage
    <2>2. RequestInImage'
      BY <1>0, <1>17 DEF cf_create_header, CreateAfterWrite, handle, ncvars, SessionTypeOK,
         RequestInImage
    <2>3. CallsFromLibrary'
      BY <1>0, <1>17 DEF cf_create_header, CreateAfterWrite, handle, ncvars, CallsFromLibrary,
         FlagsMeanHandle, WriteReady, Writing
    <2>4. FlagsMeanHandle'
      BY <1>0, <1>17 DEF cf_create_header, CreateAfterWrite, handle, ncvars, RequestInImage,
         CallsFromLibrary, FlagsMeanHandle, WriteReady, Writing
    <2>5. CountsAgree'
      BY <1>0, <1>17 DEF cf_create_header, CreateAfterWrite, handle, ncvars, CallsFromLibrary,
         RequestInImage, CountsAgree
    <2>6. QED
      BY <2>1, <2>2, <2>3, <2>4, <2>5 DEF NcInv
  <1>18. ASSUME cf_create_map, UNCHANGED ncvars PROVE NcInv'
    <2>1. SessionTypeOK'
      BY <1>0, <1>18 DEF cf_create_map, CreateAfterWrite, handle, ncvars, SessionTypeOK,
         RequestInImage
    <2>2. RequestInImage'
      BY <1>0, <1>18 DEF cf_create_map, CreateAfterWrite, handle, ncvars, SessionTypeOK,
         RequestInImage
    <2>3. CallsFromLibrary'
      BY <1>0, <1>18 DEF cf_create_map, CreateAfterWrite, handle, ncvars, CallsFromLibrary,
         FlagsMeanHandle, WriteReady, Writing
    <2>4. FlagsMeanHandle'
      BY <1>0, <1>18 DEF cf_create_map, CreateAfterWrite, handle, ncvars, RequestInImage,
         CallsFromLibrary, FlagsMeanHandle, WriteReady, Writing
    <2>5. CountsAgree'
      BY <1>0, <1>18 DEF cf_create_map, CreateAfterWrite, handle, ncvars, CallsFromLibrary,
         RequestInImage, CountsAgree
    <2>6. QED
      BY <2>1, <2>2, <2>3, <2>4, <2>5 DEF NcInv
  <1>19. ASSUME cf_create_open, UNCHANGED ncvars PROVE NcInv'
    <2>1. SessionTypeOK'
      BY <1>0, <1>19 DEF cf_create_open, VerifyOutcome, FreshHandle, file, handle, ncvars,
         SessionTypeOK, RequestInImage
    <2>2. RequestInImage'
      BY <1>0, <1>19 DEF cf_create_open, VerifyOutcome, FreshHandle, file, handle, ncvars,
         SessionTypeOK, RequestInImage,
         CallsFromLibrary
    <2>3. CallsFromLibrary'
      BY <1>0, <1>19 DEF cf_create_open, VerifyOutcome, FreshHandle, file, handle, ncvars,
         CallsFromLibrary, FlagsMeanHandle, WriteReady, Writing
    <2>4. FlagsMeanHandle'
      BY <1>0, <1>19 DEF cf_create_open, VerifyOutcome, FreshHandle, file, handle, ncvars,
         RequestInImage, CallsFromLibrary, FlagsMeanHandle, WriteReady, Writing
    <2>5. CountsAgree'
      BY <1>0, <1>19 DEF cf_create_open, VerifyOutcome, FreshHandle, file, handle, ncvars,
         CallsFromLibrary, RequestInImage, CountsAgree
    <2>6. QED
      BY <2>1, <2>2, <2>3, <2>4, <2>5 DEF NcInv
  <1>20. ASSUME write_data, UNCHANGED ncvars PROVE NcInv'
    <2>1. SessionTypeOK'
      BY <1>0, <1>20 DEF write_data, WriteReturn, handle, ncvars, SessionTypeOK, RequestInImage
    <2>2. RequestInImage'
      BY <1>0, <1>20 DEF write_data, WriteReturn, handle, ncvars, SessionTypeOK, RequestInImage
    <2>3. CallsFromLibrary'
      BY <1>0, <1>20 DEF write_data, WriteReturn, handle, ncvars, CallsFromLibrary,
         FlagsMeanHandle, WriteReady, Writing
    <2>4. FlagsMeanHandle'
      BY <1>0, <1>20 DEF write_data, WriteReturn, handle, ncvars, RequestInImage,
         CallsFromLibrary, FlagsMeanHandle, WriteReady, Writing
    <2>5. CountsAgree'
      BY <1>0, <1>20 DEF write_data, WriteReturn, handle, ncvars, CallsFromLibrary,
         RequestInImage, CountsAgree, Writing
    <2>6. QED
      BY <2>1, <2>2, <2>3, <2>4, <2>5 DEF NcInv
  <1>21. ASSUME write_trailer, UNCHANGED ncvars PROVE NcInv'
    <2>1. SessionTypeOK'
      BY <1>0, <1>21 DEF write_trailer, WriteReturn, RecordNewBlock, ncvars, SessionTypeOK,
         RequestInImage
    <2>2. RequestInImage'
      BY <1>0, <1>21 DEF write_trailer, WriteReturn, RecordNewBlock, ncvars, SessionTypeOK,
         RequestInImage
    <2>3. CallsFromLibrary'
      BY <1>0, <1>21 DEF write_trailer, WriteReturn, RecordNewBlock, ncvars, CallsFromLibrary,
         FlagsMeanHandle, WriteReady, Writing
    <2>4. FlagsMeanHandle'
      BY <1>0, <1>21 DEF write_trailer, WriteReturn, RecordNewBlock, ncvars, RequestInImage,
         CallsFromLibrary, FlagsMeanHandle, WriteReady, Writing
    <2>5. CountsAgree'
      BY <1>0, <1>21 DEF write_trailer, WriteReturn, RecordNewBlock, ncvars, CallsFromLibrary,
         RequestInImage, CountsAgree, Writing
    <2>6. QED
      BY <2>1, <2>2, <2>3, <2>4, <2>5 DEF NcInv
  <1>22. ASSUME NEW fin \in BOOLEAN, SyncMap(fin), UNCHANGED ncvars PROVE NcInv'
    <2>1. SessionTypeOK'
      BY <1>0, <1>22 DEF SyncMap, SyncReturn, FreeHandle, handle, ncvars, SessionTypeOK,
         RequestInImage
    <2>2. RequestInImage'
      BY <1>0, <1>22 DEF SyncMap, SyncReturn, FreeHandle, handle, ncvars, SessionTypeOK,
         RequestInImage,
         CallsFromLibrary
    <2>3. CallsFromLibrary'
      BY <1>0, <1>22 DEF SyncMap, SyncReturn, FreeHandle, handle, ncvars, CallsFromLibrary,
         FlagsMeanHandle, WriteReady, Writing
    <2>4. FlagsMeanHandle'
      BY <1>0, <1>22 DEF SyncMap, SyncReturn, FreeHandle, handle, ncvars, RequestInImage,
         CallsFromLibrary, FlagsMeanHandle, WriteReady, Writing
    <2>5. CountsAgree'
      BY <1>0, <1>22 DEF SyncMap, SyncReturn, FreeHandle, handle, ncvars, CallsFromLibrary,
         RequestInImage, CountsAgree
    <2>6. QED
      BY <2>1, <2>2, <2>3, <2>4, <2>5 DEF NcInv
  <1>23. ASSUME UNCHANGED <<vars, ncvars>> PROVE NcInv'
    <2>1. SessionTypeOK'
      BY <1>0, <1>23 DEF vars, ncvars, SessionTypeOK, RequestInImage
    <2>2. RequestInImage'
      BY <1>0, <1>23 DEF vars, ncvars, SessionTypeOK, RequestInImage
    <2>3. CallsFromLibrary'
      BY <1>0, <1>23 DEF vars, ncvars, CallsFromLibrary, FlagsMeanHandle, WriteReady, Writing
    <2>4. FlagsMeanHandle'
      BY <1>0, <1>23 DEF vars, ncvars, RequestInImage, CallsFromLibrary, FlagsMeanHandle,
         WriteReady, Writing
    <2>5. CountsAgree'
      BY <1>0, <1>23 DEF vars, ncvars, CallsFromLibrary, RequestInImage, CountsAgree
    <2>6. QED
      BY <2>1, <2>2, <2>3, <2>4, <2>5 DEF NcInv
  <1>24. QED
    BY <1>1, <1>2, <1>3, <1>4, <1>5, <1>6, <1>7, <1>8, <1>9, <1>10, <1>11, <1>12, <1>13, <1>14,
       <1>15, <1>16, <1>17, <1>18, <1>19, <1>20, <1>21, <1>22, <1>23
    DEF NNext, CfStep, ntfsclone_readblocks, ntfsclone_writeblocks

LEMMA NcInit == NInit => NcInv
  <1> SUFFICES ASSUME NInit PROVE NcInv
    OBVIOUS
  <1>1. SessionTypeOK
    <2>1. {given, asked, rw, cfopen, cfver, cfdep, seeked, wrote} \subseteq BOOLEAN
      BY DEF NInit
    <2>2. QED
      BY <2>1, NAssumption, NtfsMaxBlocksAssumption DEF NInit, SessionTypeOK
  <1>2. RequestInImage /\ CallsFromLibrary /\ FlagsMeanHandle /\ CountsAgree
    BY DEF NInit, Init, RequestInImage, CallsFromLibrary, FlagsMeanHandle, CountsAgree,
       WriteReady, Writing
  <1>3. QED
    BY <1>1, <1>2 DEF NcInv

\* v10_writeblock never replaces a handle through which blocks were written,
\* and what it takes for ready to write has a block map.
THEOREM NcWritesShareOneHandle == NSpec => []WritesShareOneHandle
  <1>1. NcInv => WritesShareOneHandle
    BY DEF NcInv, FlagsMeanHandle, WritesShareOneHandle
  <1>2. QED
    BY <1>1, NcInit, NcStep, PTL DEF NSpec

\* No request gets to the entry behind the block map.
THEOREM NcRequestsStayInMap == NSpec => []RequestsStayInMap
  <1>1. NcInv => RequestsStayInMap
    BY NAssumption DEF NcInv, SessionTypeOK, RequestInImage, CallsFromLibrary, RequestsStayInMap,
       Blocks
  <1>2. QED
    BY <1>1, NcInit, NcStep, PTL DEF NSpec

\* The file that one session created is taken for its own by the next one:
\* v10_init and cf_create agree on the count with the trailing cluster.
THEOREM NcVerifyAcceptsOwnFile == NSpec => []VerifyAcceptsOwnFile
  <1>1. NcInv => VerifyAcceptsOwnFile
    BY DEF NcInv, RequestInImage, CountsAgree, VerifyAcceptsOwnFile
  <1>2. QED
    BY <1>1, NcInit, NcStep, PTL DEF NSpec

\* A session touches the change file only to write a block: ntfsclone_verify,
\* reads, ntfsclone_sync and ntfsclone_close leave it as it was.
THEOREM NcOnlyWritesTouchFile == NSpec => OnlyWritesTouchFile
  <1>1. NcInv /\ [NNext]_<<vars, ncvars>> =>
          [file' # file => wrote \/ at \in {"write", "w_create"}]_<<vars, ncvars>>
    <2> SUFFICES ASSUME NcInv, NNext, ~wrote, at \notin {"write", "w_create"} PROVE file' = file
      OBVIOUS
    <2>0. FlagsMeanHandle /\ CallsFromLibrary
      BY DEF NcInv
    <2>1. ~ntfsclone_sync
      BY <2>0 DEF FlagsMeanHandle, ntfsclone_sync, Idle, WriteReady
    <2>2. CASE ntfsclone_close
      BY <2>0, <2>2 DEF FlagsMeanHandle, ntfsclone_close, Idle, WriteReady, file, vars
    <2>3. CASE v10_finish
      BY <2>0, <2>3 DEF FlagsMeanHandle, v10_finish, cf_finish, file, vars
    <2>4. CASE CfStep
      BY <2>0, <2>4 DEF CallsFromLibrary, FlagsMeanHandle, Writing, CfStep, cf_create_header,
         cf_create_map, cf_create_open, write_data, write_trailer, SyncMap
    <2>5. QED
      BY <2>1, <2>2, <2>3, <2>4 DEF NNext, ntfsclone_open, ntfsclone_verify, cf_init, verify_load,
         cf_verify, verify_done, ntfsclone_seek, cf_seek, ntfsclone_readblocks,
         ntfsclone_writeblocks, Request, v10_readblock, v10_writeblock, write_created, write_block,
         cf_writeblock, write_done, close_done, Killed, Crash, vars, file
  <1>2. QED
    BY <1>1, NcInit, NcStep, PTL DEF NSpec, OnlyWritesTouchFile

-----------------------------------------------------------------------------
(* The type of the index                                                   *)

\* The bits of the index are those of clusters, and the current bucket is one
\* of the image or the one behind its last.
IndexTypeOK ==
    /\ image \in NtfsImages /\ ix.bitmap \subseteq Blocks /\ bucket \in 0 .. Bucket(N)

LEMMA IndexStep ==
    ASSUME NcInv, IndexTypeOK, [NNext]_<<vars, ncvars>>
    PROVE  IndexTypeOK'
  <1>1. CASE verify_load
    <2>1. CASE UNCHANGED ix
      BY <1>1, <2>1 DEF verify_load, IndexTypeOK, options, pos
    <2>2. ASSUME NEW v \in v10_verify(image.atoms, N - 1, Tolerant),
                 ix' = [bitmap |-> v.bitmap, offset |-> v.offset]
          PROVE  IndexTypeOK'
      <3>1. Tolerant \in BOOLEAN
        BY DEF Tolerant
      <3>2. v \in ScanStates(N - 1)
        BY <2>2, <3>1, NAssumption, NtfsImagesAssumption, VerifyType DEF IndexTypeOK
      <3>3. ix'.bitmap \subseteq Blocks
        BY <2>2, <3>2, NAssumption DEF ScanStates, Blocks
      <3>4. QED
        BY <1>1, <3>3 DEF verify_load, IndexTypeOK, options, pos
    <2>3. QED
      BY <1>1, <2>1, <2>2 DEF verify_load, NcInv, CountsAgree
  <1>2. ASSUME NEW b \in 0 .. N, ntfsclone_seek(b) PROVE IndexTypeOK'
    <2>1. Redirect(image.minor, N, b) \in 0 .. N
      BY NAssumption DEF Redirect
    <2>2. Bucket(Redirect(image.minor, N, b)) \in 0 .. Bucket(N)
      BY <2>1, NAssumption, BucketMonotone
    <2>3. bucket' \in {bucket, Bucket(Redirect(image.minor, N, b))}
      BY <1>2 DEF ntfsclone_seek, v10_seek, NcInv, CountsAgree
    <2>4. QED
      BY <1>2, <2>2, <2>3 DEF ntfsclone_seek, IndexTypeOK, options
  <1>3. CASE close_done \/ Killed
    <2>1. Bucket(N) \in Nat
      BY NAssumption, BucketMonotone
    <2>2. QED
      BY <1>3, <2>1 DEF close_done, Killed, Reset, options, NoIndex, IndexTypeOK
  <1>4. CASE UNCHANGED <<image, ix, bucket>>
    BY <1>4 DEF IndexTypeOK
  <1>5. QED
    BY <1>1, <1>2, <1>3, <1>4 DEF NNext, ntfsclone_open, ntfsclone_verify, verify_done,
       ntfsclone_readblocks, ntfsclone_writeblocks, Request, v10_readblock, v10_writeblock,
       write_created, write_block, write_done, ntfsclone_sync, ntfsclone_close, v10_finish,
       options, pos, ncvars

\* The variables of libntfsclone.c keep their types: whatever is damaged, and
\* whatever a read at the end of the file returns, v10_verify sets no bit of
\* a cluster that the image does not have.
THEOREM NcTypeCorrect == NSpec => []NcTypeOK
  <1>1. NInit => IndexTypeOK
    <2>1. Bucket(N) \in Nat
      BY NAssumption, BucketMonotone
    <2>2. QED
      BY <2>1 DEF NInit, IndexTypeOK, NoIndex
  <1>2. NcInv /\ IndexTypeOK /\ [NNext]_<<vars, ncvars>> => IndexTypeOK'
    BY IndexStep
  <1>3. NcInv /\ IndexTypeOK => NcTypeOK
    BY DEF NcInv, SessionTypeOK, IndexTypeOK, NcTypeOK
  <1>4. QED
    BY <1>1, <1>2, <1>3, NcInit, NcStep, PTL DEF NSpec

-----------------------------------------------------------------------------
(* What the index says of the image                                        *)

\* What v10_verify made of the image, from its return until the image is
\* closed.
Verified == nst = "ready" \/ at = "v_done"
IndexInv ==
    Verified => (Tolerant \/ Whole) /\ (Whole => IndexIsRight(ix, image.atoms, N - 1))

LEMMA IndexInvStep ==
    ASSUME NcInv, IndexTypeOK, IndexInv, [NNext]_<<vars, ncvars>>
    PROVE  IndexInv'
  <1>0. UNCHANGED options /\ image \in NtfsImages
    BY DEF IndexTypeOK, NNext, ntfsclone_open, ntfsclone_verify, verify_load, verify_done,
       ntfsclone_seek, ntfsclone_readblocks, ntfsclone_writeblocks, Request, v10_readblock,
       v10_writeblock, write_created, write_block, write_done, ntfsclone_sync, ntfsclone_close,
       v10_finish, close_done, Killed, Reset, ncvars, options
  <1>1. (Tolerant' <=> Tolerant) /\ (Whole' <=> Whole) /\ image' = image
    BY <1>0 DEF options, Tolerant, Whole
  <1>2. CASE ~Verified'
    BY <1>2 DEF IndexInv
  <1>3. CASE Verified /\ UNCHANGED ix
    BY <1>1, <1>3 DEF IndexInv
  <1>4. CASE verify_load /\ Verified'
    <2>1. ~Verified
      BY <1>4 DEF verify_load, Verified, NcInv, FlagsMeanHandle
    <2>2. PICK v \in v10_verify(image.atoms, N - 1, Tolerant) :
             v.error = "ok" /\ ix' = [bitmap |-> v.bitmap, offset |-> v.offset]
      BY <1>4 DEF verify_load, Verified, NcInv, CountsAgree
    <2>3. /\ image.atoms \in Seq(Atom) /\ N - 1 \in Nat /\ Tolerant \in BOOLEAN
          /\ N - 1 + image.minor \in {N - 1, N - 1 + 1} /\ Covers(image.atoms, N - 1 + image.minor)
      BY <1>0, NAssumption, NtfsImagesAssumption, NtfsCoverAssumption DEF Tolerant
    <2>4. (Tolerant \/ Whole) /\ (Whole => IndexIsRight(v, image.atoms, N - 1))
      BY <2>2, <2>3, VerifyRight DEF Whole
    <2>5. ix'.bitmap = v.bitmap /\ ix'.offset = v.offset
      BY <2>2
    <2>6. IndexIsRight(v, image.atoms, N - 1) => IndexIsRight(ix', image.atoms, N - 1)
      BY <2>5 DEF IndexIsRight
    <2>7. QED
      BY <1>1, <2>4, <2>6 DEF IndexInv
  <1>5. QED
    <2>1. Verified' => verify_load \/ (Verified /\ UNCHANGED ix)
      BY DEF Verified, NNext, Idle, ntfsclone_open, ntfsclone_verify, verify_done,
         ntfsclone_seek, ntfsclone_readblocks, ntfsclone_writeblocks, Request, v10_readblock,
         v10_writeblock, write_created, write_block, write_done, ntfsclone_sync, ntfsclone_close,
         v10_finish, close_done, Killed, Reset, ncvars
    <2>2. QED
      BY <1>2, <1>3, <1>4, <2>1

\* A block that is read while the image is undamaged.
LEMMA ReadStep ==
    ASSUME NcInv, IndexTypeOK, IndexInv, NEW o \in ChangeFileRead(curblock),
           NEW r \in AfterChangeFile(o, curblock), r[1] = "ok"
    PROVE  /\ o[1] = "ok" => r[2] = Wanted(curblock)
           /\ o[1] \in {"ENXIO", "EINVAL"} /\ Whole /\ ~Stale(curblock) /\ curblock < N - 1
                 /\ nst = "ready" => r[2] = Wanted(curblock)
  <1>1. CASE o[1] = "ok"
    <2>1. st = "ready" /\ o \in ReadOutcomes(curblock)
      BY <1>1 DEF ChangeFileRead
    <2>2. map[curblock] # 0 /\ o[2] = Content(map, curblock)
      BY <1>1, <2>1 DEF ReadOutcomes, Content
    <2>3. r = o
      BY <1>1 DEF AfterChangeFile
    <2>4. QED
      BY <1>1, <2>1, <2>2, <2>3 DEF Wanted
  <1>2. ASSUME o[1] \in {"ENXIO", "EINVAL"}, Whole, ~Stale(curblock), curblock < N - 1, nst = "ready"
        PROVE  r[2] = Wanted(curblock)
    <2>0. curblock \in Blocks
      BY <1>2, NAssumption DEF NcInv, SessionTypeOK, Blocks
    <2>1. ~(st = "ready" /\ map[curblock] # 0)
      BY <1>2, <2>0 DEF ChangeFileRead, ReadOutcomes
    <2>2. Wanted(curblock) = ClusterContent(image.atoms, curblock)
      BY <2>1 DEF Wanted
    <2>3. r = ReadImage(image.atoms, ix, bucket, bsfcount, curblock)
      BY <1>2 DEF AfterChangeFile
    <2>4. IndexIsRight(ix, image.atoms, N - 1)
      BY <1>2 DEF IndexInv, Verified
    <2>5. curblock \in 0 .. (N - 1) - 1 /\ N - 1 \in Nat
      BY <1>2, NAssumption DEF NcInv, SessionTypeOK
    <2>6. image.atoms \in Seq(Atom) /\ Covers(image.atoms, N - 1 + image.minor)
      BY NtfsImagesAssumption, NtfsCoverAssumption DEF IndexTypeOK
    <2>7. Undamaged(image.atoms)
      BY <1>2 DEF Whole
    <2>8. curblock \in ix.bitmap /\ Bucket(curblock) = bucket =>
             BucketStart(curblock) + bsfcount = FirstUsed(ix.bitmap, curblock)
      BY <1>2 DEF Stale
    <2>9. ReadImage(image.atoms, ix, bucket, bsfcount, curblock) =
             <<"ok", ClusterContent(image.atoms, curblock)>>
      BY <2>4, <2>5, <2>6, <2>7, <2>8, ReadRight
    <2>10. QED
      BY <2>2, <2>3, <2>9
  <1>3. QED
    BY <1>1, <1>2

LEMMA BlockIsRightStep ==
    ASSUME NcInv, IndexTypeOK, IndexInv, BlockIsRight, [NNext]_<<vars, ncvars>>
    PROVE  BlockIsRight'
  <1>1. CASE obs' = <<>>
    BY <1>1 DEF BlockIsRight
  <1>2. CASE UNCHANGED <<obs, image>>
    BY <1>2 DEF BlockIsRight, Whole
  <1>3. ASSUME NEW o \in ChangeFileRead(curblock), NEW r \in AfterChangeFile(o, curblock),
               r[1] = "ok", v10_readblock,
               obs' = <<[blk |-> curblock, got |-> r[2], want |-> Wanted(curblock),
                         stale |-> Stale(curblock), cf |-> o[1]]>>
        PROVE  BlockIsRight'
    <2>1. nst = "ready"
      BY <1>3 DEF v10_readblock, NcInv, RequestInImage
    <2>2. Whole' <=> Whole
      BY <1>3 DEF v10_readblock, options, Whole
    <2>3. /\ o[1] = "ok" => r[2] = Wanted(curblock)
          /\ o[1] \in {"ENXIO", "EINVAL"} /\ Whole /\ ~Stale(curblock) /\ curblock < N - 1
                /\ nst = "ready" => r[2] = Wanted(curblock)
      BY <1>3, ReadStep
    <2>4. DOMAIN obs' = {1} /\ obs'[1].blk = curblock /\ obs'[1].got = r[2]
          /\ obs'[1].want = Wanted(curblock) /\ obs'[1].stale = Stale(curblock)
          /\ obs'[1].cf = o[1]
      BY <1>3
    <2>5. QED
      BY <2>1, <2>2, <2>3, <2>4 DEF BlockIsRight
  <1>4. QED
    BY <1>1, <1>2, <1>3 DEF NNext, ntfsclone_open, ntfsclone_verify, verify_load, verify_done,
       ntfsclone_seek, ntfsclone_readblocks, ntfsclone_writeblocks, Request, v10_readblock,
       v10_writeblock, write_created, write_block, write_done, ntfsclone_sync, ntfsclone_close,
       v10_finish, close_done, Killed, Reset, ncvars, options

LEMMA IndexInit == NInit => IndexTypeOK /\ IndexInv /\ BlockIsRight
  <1>1. Bucket(N) \in Nat
    BY NAssumption, BucketMonotone
  <1>2. QED
    BY <1>1 DEF NInit, IndexTypeOK, NoIndex, IndexInv, Verified, BlockIsRight

\* ntfsclone_verify accepts a damaged image only with -T or with a name for
\* the change file, whose flag is the same bit: without one it is refused.
THEOREM NcRefusesDamage == NSpec => [](~given => RefusesDamage)
  <1>1. IndexInv => (~given => RefusesDamage)
    BY DEF IndexInv, Verified, RefusesDamage, Tolerant
  <1>2. NcInv /\ IndexTypeOK /\ [NNext]_<<vars, ncvars>> => IndexTypeOK'
    BY IndexStep
  <1>3. NcInv /\ IndexTypeOK /\ IndexInv /\ [NNext]_<<vars, ncvars>> => IndexInv'
    BY IndexInvStep
  <1>4. QED
    BY <1>1, <1>2, <1>3, IndexInit, NcInit, NcStep, PTL DEF NSpec

\* v10_readblock gives the reader the change, if there is one, and else the
\* cluster of the undamaged image, unless the change file fails or the count
\* kept for the bucket is stale.
THEOREM NcBlockIsRight == NSpec => []BlockIsRight
  <1>1. NcInv /\ IndexTypeOK /\ [NNext]_<<vars, ncvars>> => IndexTypeOK'
    BY IndexStep
  <1>2. NcInv /\ IndexTypeOK /\ IndexInv /\ [NNext]_<<vars, ncvars>> => IndexInv'
    BY IndexInvStep
  <1>3. NcInv /\ IndexTypeOK /\ IndexInv /\ BlockIsRight /\ [NNext]_<<vars, ncvars>>
          => BlockIsRight'
    BY BlockIsRightStep
  <1>4. QED
    BY <1>1, <1>2, <1>3, IndexInit, NcInit, NcStep, PTL DEF NSpec
=============================================================================
