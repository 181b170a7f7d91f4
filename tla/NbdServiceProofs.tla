-------------------------- MODULE NbdServiceProofs --------------------------
(***************************************************************************)
(* Proofs about the imagemount process, for every set of settings, every   *)
(* number of termination signals and every length of the queue.            *)
(***************************************************************************)
EXTENDS NbdService, SequenceTheorems, TLAPS

-----------------------------------------------------------------------------
(* The inductive invariants                                                *)

\* The handler counts one death each time it is armed: someonedied is 0 when
\* it is to count in it, and timetoleave is at most 3.
CountsOnce ==
    /\ armed /\ diedp = "died" => died = 0
    /\ armed /\ diedp = "ttl" => ttl <= 3

\* Nobody uses the device before nbd_connect, and no handler is installed
\* before nbd_service_requests.
StartsQuiet ==
    /\ spc \in {"open", "verify", "daemon", "connect"} =>
          sock = "down" /\ \A c \in Children : child[c] = "none"
    /\ spc \in {"open", "verify", "daemon", "connect", "start"} =>
          ~armed /\ diedp = "none" /\ died = 0

ServiceInv == NTypeOK /\ CountsOnce /\ StartsQuiet

\* A request of a child in the socket, or being served, is of one that was
\* started.
AskersWereStarted ==
    /\ \A i \in 1 .. Len(q) : q[i] \in Helpers => child[q[i]] # "none"
    /\ req \in Helpers => child[req] # "none"

\* There is no umount before the handler counts in timetoleave, and it only
\* does if there is a mount.
UmountsAfterArming ==
    /\ diedp # "ttl" => \A u \in Umounts : child[u] = "none"
    /\ diedp = "ttl" => opt.mount
    /\ spc = "punt" => diedp = "ttl"

\* Once the loop is to end, or has ended, the handler has been spent.
LeavesWhenSpent ==
    ~opt.nofork /\ diedp = "ttl" /\ (ttl >= 3 \/ spc \in {"final", "disc"}) => ~armed

UmountInv == ServiceInv /\ AskersWereStarted /\ UmountsAfterArming /\ LeavesWhenSpent

\* Until the image is served, its handle is one that image_open returned,
\* and before the server becomes a daemon it has been verified.
ImageIsChecked ==
    /\ spc \in {"open", "verify", "daemon"} =>
          img \in [file : Files, raw : BOOLEAN, tolerant : BOOLEAN,
                   handle : {NoHandle, "ntfsclone", "partclone", "raw"}]
    /\ spc \in {"verify", "daemon"} /\ img.handle = "raw" => img.file # "absent" /\ img.raw
    /\ spc = "daemon" => Sound

-----------------------------------------------------------------------------
(* Type correctness                                                        *)

LEMMA Pids ==
    /\ NoPid \notin Children /\ DoIt \in Children /\ Mounter \in Helpers
    /\ Helpers \subseteq Children /\ Umounts \subseteq Helpers
    /\ Mounter \notin Umounts /\ DoIt \notin Helpers
    /\ User \notin Children /\ DISC \notin Children /\ User # DISC /\ DISC # NoPid
  BY NbdBoundAssumption DEF NoPid, Children, DoIt, Helpers, Mounter, Umounts, User, DISC

\* What a signal does to a call that sleeps.
LEMMA InterruptEnds ==
    ASSUME NTypeOK, Interrupt
    PROVE  /\ spc' \in {spc, "leave", "disc"}
           /\ spc' # spc => (spc' = "leave" /\ spc \in {"read", "reply"}) \/ (spc' = "disc" /\ spc = "final")
           /\ sync' \in BOOLEAN /\ req' \in {req, NoPid}
  <1>1. sync' \in BOOLEAN
    BY Zenon DEF Interrupt, NTypeOK
  <1>2. QED
    BY <1>1 DEF Interrupt, Waiting

\* A death that the handler counts leaves the counters within their bounds.
LEMMA ReapchildCounts ==
    ASSUME NTypeOK, CountsOnce, NEW c \in Children, nbd_reapchild(c)
    PROVE  /\ ttl' \in 0 .. 4 /\ died' \in 0 .. 1 /\ armed' \in BOOLEAN /\ diedp' = diedp
           /\ who' \in Children \cup {NoPid} /\ CountsOnce'
           /\ spc' \in {spc, "leave", "disc"}
           /\ spc' # spc => (spc' = "leave" /\ spc \in {"read", "reply"}) \/ (spc' = "disc" /\ spc = "final")
           /\ sync' \in BOOLEAN /\ req' \in {req, NoPid}
           /\ (armed' => armed /\ died' = died /\ ttl' = ttl)
  <1>1. armed' \in BOOLEAN
    BY Zenon DEF nbd_reapchild, NTypeOK, sigs
  <1>2. /\ spc' \in {spc, "leave", "disc"}
        /\ spc' # spc => (spc' = "leave" /\ spc \in {"read", "reply"}) \/ (spc' = "disc" /\ spc = "final")
        /\ sync' \in BOOLEAN /\ req' \in {req, NoPid}
    BY InterruptEnds DEF nbd_reapchild, NTypeOK, sigs
  <1>3. diedp' = diedp /\ who' \in Children \cup {NoPid}
    BY DEF nbd_reapchild, NTypeOK, sigs
  <1>4. ttl' \in 0 .. 4 /\ died' \in 0 .. 1 /\ (armed' => armed /\ died' = died /\ ttl' = ttl)
    BY DEF nbd_reapchild, NTypeOK, CountsOnce, sigs
  <1>5. CountsOnce'
    BY <1>3, <1>4 DEF CountsOnce
  <1>6. QED
    BY <1>1, <1>2, <1>3, <1>4, <1>5

LEMMA ServiceInit == Init => ServiceInv
  <1> SUFFICES ASSUME Init PROVE ServiceInv
    OBVIOUS
  <1>1. {pidfile, armed, sync} \subseteq BOOLEAN
    BY DEF Init
  <1>2. q \in Seq(Helpers \cup {User, DISC})
    BY DEF Init
  <1>3. QED
    BY <1>1, <1>2, NbdBoundAssumption, Pids DEF Init, ServiceInv, NTypeOK, CountsOnce, StartsQuiet

LEMMA ServiceStep ==
    ASSUME ServiceInv, [Next]_nvars
    PROVE  ServiceInv'
  <1> USE DEF ServiceInv
  <1>1. CASE open_image
    BY <1>1, Pids DEF open_image, Goto, sigs, run, NTypeOK, CountsOnce, StartsQuiet
  <1>2. CASE verify_image
    BY <1>2, Pids DEF verify_image, Goto, sigs, run, NTypeOK, CountsOnce, StartsQuiet
  <1>3. CASE daemonize
    BY <1>3, Pids DEF daemonize, Goto, run, sigs, NTypeOK, CountsOnce, StartsQuiet
  <1>4. CASE nbd_connect
    BY <1>4, Pids DEF nbd_connect, Goto, sigs, run, NTypeOK, CountsOnce, StartsQuiet
  <1>5. CASE start_mount
    <2>1. {pidfile', armed'} \subseteq BOOLEAN
      BY <1>5, Zenon DEF start_mount, create_pid_file, NTypeOK, sigs
    <2>2. ttl' \in {0, 3}
      BY <1>5 DEF start_mount
    <2>3. died' = 0 /\ who' = who /\ diedp' \in {"none", "died"}
      BY <1>5 DEF start_mount, StartsQuiet, sigs
    <2>4. child' \in [Children -> {"none", "run", "wait", "served", "zombie", "gone"}]
          /\ toreap' \in Children \cup {NoPid}
      BY <1>5, Pids DEF start_mount, Fork, NTypeOK
    <2>5. spc' = "top" /\ UNCHANGED <<opt, img, q, req, sock, sync, terms>>
      BY <1>5 DEF start_mount, Goto
    <2>6. QED
      BY <2>1, <2>2, <2>3, <2>4, <2>5 DEF NTypeOK, CountsOnce, StartsQuiet
  <1>6. CASE loop_test
    BY <1>6, Pids DEF loop_test, Goto, sigs, run, NTypeOK, CountsOnce, StartsQuiet
  <1>7. CASE reap
    BY <1>7, Pids DEF reap, Goto, Collect, sigs, run, NTypeOK, CountsOnce, StartsQuiet
  <1>8. CASE enter_read
    BY <1>8, Pids DEF enter_read, Goto, sigs, run, NTypeOK, CountsOnce, StartsQuiet
  <1>9. CASE read_request
    <2>1. /\ spc = "read" /\ spc' \in {"serve", "leave"} /\ ttl' \in {ttl, 1} /\ terms' \in 0 .. MaxTerm
          /\ UNCHANGED <<run, sigs, toreap, child, sock, sync>>
      BY <1>9, NbdBoundAssumption DEF read_request, Goto, NTypeOK
    <2>2. q' \in Seq(Helpers \cup {User, DISC}) /\ req' \in Helpers \cup {User, DISC, NoPid}
      BY <1>9 DEF read_request, NTypeOK
    <2>3. NTypeOK'
      BY <2>1, <2>2 DEF sigs, run, NTypeOK
    <2>4. CountsOnce' /\ StartsQuiet'
      BY <2>1 DEF sigs, run, NTypeOK, CountsOnce, StartsQuiet
    <2>5. QED
      BY <2>3, <2>4
  <1>10. CASE serve
    <2>1. sync' \in BOOLEAN
      BY <1>10, Zenon DEF serve, NTypeOK
    <2>2. /\ spc = "serve" /\ spc' \in {"reply", "payload"} /\ ttl' \in {ttl, 1}
          /\ UNCHANGED <<run, sigs, toreap, child, q, req, sock, terms>>
      BY <1>10 DEF serve, Goto
    <2>3. QED
      BY <2>1, <2>2 DEF sigs, run, NTypeOK, CountsOnce, StartsQuiet
  <1>24. CASE read_payload
    BY <1>24, Pids DEF read_payload, Goto, sigs, run, NTypeOK, CountsOnce, StartsQuiet
  <1>25. CASE send_reply
    BY <1>25, Pids DEF send_reply, Goto, sigs, run, NTypeOK, CountsOnce, StartsQuiet
  <1>26. CASE read_lost
    BY <1>26, Pids DEF read_lost, Goto, sigs, run, NTypeOK, CountsOnce, StartsQuiet
  <1>11. CASE leave_test
    <2>1. armed' \in BOOLEAN
      BY <1>11, Zenon DEF leave_test, NTypeOK, sigs
    <2>2. /\ ttl' \in {ttl, 3} /\ diedp' \in {"none", "died", "ttl"} /\ spc' \in {"top", "punt"}
          /\ UNCHANGED <<run, died, who, toreap, child, q, req, sock, sync, terms>>
      BY <1>11 DEF leave_test, NTypeOK, Goto
    <2>3. CountsOnce'
      BY <1>11 DEF leave_test, CountsOnce
    <2>4. NTypeOK'
      BY <2>1, <2>2 DEF NTypeOK, run
    <2>5. StartsQuiet'
      BY <2>2 DEF StartsQuiet
    <2>6. QED
      BY <2>3, <2>4, <2>5
  <1>12. CASE punt
    BY <1>12, Pids DEF punt, Goto, Fork, sigs, run, NTypeOK, CountsOnce, StartsQuiet
  <1>13. CASE final_reap
    BY <1>13, Pids DEF final_reap, Goto, Collect, sigs, run, NTypeOK, CountsOnce,
       StartsQuiet
  <1>14. CASE nbd_disconnect
    BY <1>14, Pids DEF nbd_disconnect, Goto, remove_pid_file, sigs, run, NTypeOK, CountsOnce, StartsQuiet
  <1>15. CASE close_and_exit
    BY <1>15, Pids DEF close_and_exit, Goto, sigs, run, NTypeOK, CountsOnce, StartsQuiet
  <1>16. CASE nbd_finish
    BY <1>16, InterruptEnds, Pids, NbdBoundAssumption
    DEF nbd_finish, sigs, run, NTypeOK, CountsOnce, StartsQuiet
  <1>17. ASSUME NEW c \in Helpers, Ask(c) PROVE ServiceInv'
    BY <1>17, Pids DEF Ask, CanSend, sigs, run, NTypeOK, CountsOnce, StartsQuiet
  <1>18. ASSUME NEW c \in Children, Exit(c) PROVE ServiceInv'
    <2>1. nbd_reapchild(c)
      BY <1>18 DEF Exit
    <2>2. /\ ttl' \in 0 .. 4 /\ died' \in 0 .. 1 /\ armed' \in BOOLEAN /\ diedp' = diedp
          /\ who' \in Children \cup {NoPid} /\ CountsOnce'
          /\ spc' \in {spc, "leave", "disc"}
          /\ spc' # spc => (spc' = "leave" /\ spc \in {"read", "reply"}) \/ (spc' = "disc" /\ spc = "final")
          /\ sync' \in BOOLEAN /\ req' \in {req, NoPid}
          /\ (armed' => armed /\ died' = died /\ ttl' = ttl)
      BY <2>1, ReapchildCounts
    <2>3. child' = [child EXCEPT ![c] = "zombie"] /\ UNCHANGED <<run, toreap, q, sock, terms>>
      BY <1>18 DEF Exit
    <2>4. NTypeOK'
      BY <2>2, <2>3 DEF NTypeOK, run
    <2>5. StartsQuiet'
      <3>1. CASE spc \in {"open", "verify", "daemon", "connect"}
        BY <3>1, <1>18, Pids DEF Exit, StartsQuiet
      <3>2. CASE spc = "start"
        BY <3>2, <2>1, <2>2 DEF StartsQuiet, nbd_reapchild, sigs
      <3>3. CASE spc \notin {"open", "verify", "daemon", "connect", "start"}
        BY <3>3, <2>2 DEF StartsQuiet
      <3>4. QED
        BY <3>1, <3>2, <3>3
    <2>6. QED
      BY <2>2, <2>4, <2>5
  <1>19. CASE UserRequest
    BY <1>19, Pids DEF UserRequest, CanSend, sigs, run, NTypeOK, CountsOnce, StartsQuiet
  <1>20. CASE Disc
    BY <1>20, Pids DEF Disc, CanSend, sigs, run, NTypeOK, CountsOnce, StartsQuiet
  <1>21. CASE ShutDown
    BY <1>21, Pids DEF ShutDown, sigs, run, NTypeOK, CountsOnce, StartsQuiet
  <1>22. CASE UNCHANGED nvars
    BY <1>22, Pids DEF nvars, NTypeOK, CountsOnce, StartsQuiet
  <1>23. QED
    BY <1>1, <1>2, <1>3, <1>4, <1>5, <1>6, <1>7, <1>8, <1>9, <1>10, <1>11, <1>12, <1>13, <1>14,
       <1>15, <1>16, <1>17, <1>18, <1>19, <1>20, <1>21, <1>22,
       <1>24, <1>25, <1>26 DEF Next, Server

\* The types of imagemount's variables, the counters of its handlers and the
\* queue of requests included.
THEOREM ServiceTypeCorrect == Spec => []NTypeOK
  <1>1. ServiceInv => NTypeOK
    BY DEF ServiceInv
  <1>2. QED
    BY ServiceInit, ServiceStep, <1>1, PTL DEF Spec

-----------------------------------------------------------------------------
(* The device outlives the umounts                                         *)

\* No child goes back to what it was before it was started.
LEMMA StartedOnce ==
    ASSUME ServiceInv, AskersWereStarted, [Next]_nvars
    PROVE  \A c \in Children : child'[c] = "none" => child[c] = "none"
  <1> USE DEF ServiceInv
  <1>1. CASE open_image
    BY <1>1, Pids DEF open_image, Goto, sigs, run, NTypeOK
  <1>2. CASE verify_image
    BY <1>2, Pids DEF verify_image, Goto, sigs, run, NTypeOK
  <1>3. CASE daemonize
    BY <1>3, Pids DEF daemonize, Goto, run, sigs, NTypeOK
  <1>4. CASE nbd_connect
    BY <1>4, Pids DEF nbd_connect, Goto, sigs, run, NTypeOK
  <1>5. CASE start_mount
    BY <1>5, Pids DEF start_mount, Goto, Fork, create_pid_file, sigs, run, NTypeOK
  <1>6. CASE loop_test
    BY <1>6, Pids DEF loop_test, Goto, sigs, run, NTypeOK
  <1>7. CASE reap
    BY <1>7, Pids DEF reap, Goto, Collect, sigs, run, NTypeOK
  <1>8. CASE enter_read
    BY <1>8, Pids DEF enter_read, Goto, sigs, run, NTypeOK
  <1>9. CASE read_request
    BY <1>9, Pids DEF read_request, Goto, Waiting, sigs, run, NTypeOK
  <1>10. CASE serve
    BY <1>10, Pids DEF serve, Goto, sigs, run, NTypeOK
  <1>24. CASE read_payload
    BY <1>24, Pids DEF read_payload, Goto, sigs, run, NTypeOK
  <1>25. CASE send_reply
    BY <1>25, Pids DEF send_reply, Goto, sigs, run, NTypeOK
  <1>26. CASE read_lost
    BY <1>26, Pids DEF read_lost, Goto, sigs, run, NTypeOK
  <1>11. CASE leave_test
    BY <1>11, Pids DEF leave_test, Goto, sigs, run, NTypeOK
  <1>12. CASE punt
    BY <1>12, Pids DEF punt, Goto, Fork, sigs, run, NTypeOK
  <1>13. CASE final_reap
    BY <1>13, Pids DEF final_reap, Goto, Collect, sigs, run, NTypeOK
  <1>14. CASE nbd_disconnect
    BY <1>14, Pids DEF nbd_disconnect, Goto, remove_pid_file, sigs, run, NTypeOK
  <1>15. CASE close_and_exit
    BY <1>15, Pids DEF close_and_exit, Goto, sigs, run, NTypeOK
  <1>16. CASE nbd_finish
    BY <1>16, InterruptEnds, Pids DEF nbd_finish, sigs, run, NTypeOK
  <1>17. ASSUME NEW c \in Helpers, Ask(c) PROVE \A d \in Children : child'[d] = "none" => child[d] = "none"
    BY <1>17, Pids DEF Ask, CanSend, sigs, run, NTypeOK
  <1>18. ASSUME NEW c \in Children, Exit(c) PROVE \A d \in Children : child'[d] = "none" => child[d] = "none"
    BY <1>18, Pids DEF Exit, nbd_reapchild, Interrupt, Waiting, Over, sigs, run, NTypeOK
  <1>19. CASE UserRequest
    BY <1>19, Pids DEF UserRequest, CanSend, sigs, run, NTypeOK
  <1>20. CASE Disc
    BY <1>20, Pids DEF Disc, CanSend, sigs, run, NTypeOK
  <1>21. CASE ShutDown
    BY <1>21, Pids DEF ShutDown, sigs, run, NTypeOK
  <1>22. CASE UNCHANGED nvars
    BY <1>22, Pids DEF nvars, NTypeOK
  <1>23. QED
    BY <1>1, <1>2, <1>3, <1>4, <1>5, <1>6, <1>7, <1>8, <1>9, <1>10, <1>11, <1>12, <1>13, <1>14,
       <1>15, <1>16, <1>17, <1>18, <1>19, <1>20, <1>21, <1>22,
       <1>24, <1>25, <1>26 DEF Next, Server

LEMMA AskersStep ==
    ASSUME ServiceInv, AskersWereStarted, [Next]_nvars
    PROVE  AskersWereStarted'
  <1> USE DEF ServiceInv
  <1>0. \A c \in Children : child'[c] = "none" => child[c] = "none"
    BY StartedOnce
  <1>1. CASE open_image
    BY <1>1, <1>0, Pids DEF open_image, Goto, sigs, run, NTypeOK, AskersWereStarted
  <1>2. CASE verify_image
    BY <1>2, <1>0, Pids DEF verify_image, Goto, sigs, run, NTypeOK, AskersWereStarted
  <1>3. CASE daemonize
    BY <1>3, <1>0, Pids DEF daemonize, Goto, run, sigs, NTypeOK, AskersWereStarted
  <1>4. CASE nbd_connect
    BY <1>4, <1>0, Pids DEF nbd_connect, Goto, sigs, run, NTypeOK, AskersWereStarted
  <1>5. CASE start_mount
    BY <1>5, <1>0, Pids DEF start_mount, Goto, Fork, create_pid_file, sigs, run, NTypeOK,
       AskersWereStarted
  <1>6. CASE loop_test
    BY <1>6, <1>0, Pids DEF loop_test, Goto, sigs, run, NTypeOK, AskersWereStarted
  <1>7. CASE reap
    BY <1>7, <1>0, Pids DEF reap, Goto, Collect, sigs, run, NTypeOK, AskersWereStarted
  <1>8. CASE enter_read
    BY <1>8, <1>0, Pids DEF enter_read, Goto, sigs, run, NTypeOK, AskersWereStarted
  <1>9. CASE read_request
    BY <1>9, <1>0, Pids DEF read_request, Goto, Waiting, sigs, run, NTypeOK, AskersWereStarted
  <1>10. CASE serve
    BY <1>10, <1>0, Pids DEF serve, Goto, sigs, run, NTypeOK, AskersWereStarted
  <1>24. CASE read_payload
    BY <1>24, <1>0, Pids DEF read_payload, Goto, sigs, run, NTypeOK, AskersWereStarted
  <1>25. CASE send_reply
    BY <1>25, <1>0, Pids DEF send_reply, Goto, sigs, run, NTypeOK, AskersWereStarted
  <1>26. CASE read_lost
    BY <1>26, <1>0, Pids DEF read_lost, Goto, sigs, run, NTypeOK, AskersWereStarted
  <1>11. CASE leave_test
    BY <1>11, <1>0, Pids DEF leave_test, Goto, sigs, run, NTypeOK, AskersWereStarted
  <1>12. CASE punt
    BY <1>12, <1>0, Pids DEF punt, Goto, Fork, sigs, run, NTypeOK, AskersWereStarted
  <1>13. CASE final_reap
    BY <1>13, <1>0, Pids DEF final_reap, Goto, Collect, sigs, run, NTypeOK,
       AskersWereStarted
  <1>14. CASE nbd_disconnect
    BY <1>14, <1>0, Pids DEF nbd_disconnect, Goto, remove_pid_file, sigs, run, NTypeOK, AskersWereStarted
  <1>15. CASE close_and_exit
    BY <1>15, <1>0, Pids DEF close_and_exit, Goto, sigs, run, NTypeOK, AskersWereStarted
  <1>16. CASE nbd_finish
    BY <1>16, InterruptEnds, <1>0, Pids DEF nbd_finish, sigs, run, NTypeOK, AskersWereStarted
  <1>17. ASSUME NEW c \in Helpers, Ask(c) PROVE AskersWereStarted'
    BY <1>17, <1>0, Pids DEF Ask, CanSend, sigs, run, NTypeOK, AskersWereStarted
  <1>18. ASSUME NEW c \in Children, Exit(c) PROVE AskersWereStarted'
    BY <1>18, <1>0, Pids DEF Exit, nbd_reapchild, Interrupt, Waiting, Over, sigs, run, NTypeOK,
       AskersWereStarted
  <1>19. CASE UserRequest
    BY <1>19, <1>0, Pids DEF UserRequest, CanSend, sigs, run, NTypeOK, AskersWereStarted
  <1>20. CASE Disc
    BY <1>20, <1>0, Pids DEF Disc, CanSend, sigs, run, NTypeOK, AskersWereStarted
  <1>21. CASE ShutDown
    BY <1>21, <1>0, Pids DEF ShutDown, sigs, run, NTypeOK, AskersWereStarted
  <1>22. CASE UNCHANGED nvars
    BY <1>22, <1>0, Pids DEF nvars, NTypeOK, AskersWereStarted
  <1>23. QED
    BY <1>1, <1>2, <1>3, <1>4, <1>5, <1>6, <1>7, <1>8, <1>9, <1>10, <1>11, <1>12, <1>13, <1>14,
       <1>15, <1>16, <1>17, <1>18, <1>19, <1>20, <1>21, <1>22,
       <1>24, <1>25, <1>26 DEF Next, Server

\* wait() and waitpid() collect no child that was not started.
LEMMA CollectsZombies ==
    ASSUME NEW corpse \in Children \cup {NoPid}, Collect(corpse)
    PROVE  \A c \in Children : child[c] = "none" => child'[c] = "none"
  <1>1. corpse = NoPid \/ child[corpse] = "zombie"
    BY DEF Collect, Zombies
  <1>2. \A c \in Children : child'[c] = IF c = corpse THEN "gone" ELSE child[c]
    BY DEF Collect
  <1>3. QED
    BY <1>1, <1>2, Pids

LEMMA UmountStep ==
    ASSUME UmountInv, [Next]_nvars
    PROVE  UmountInv'
  <1> USE DEF UmountInv
  <1>a. ServiceInv' /\ AskersWereStarted'
    BY ServiceStep, AskersStep
  <1>b. \A u \in Umounts : u \in Children /\ u \in Helpers
    BY Pids
  <1> SUFFICES UmountsAfterArming' /\ LeavesWhenSpent'
    BY <1>a
  <1>1. CASE open_image
    BY <1>1, <1>a, <1>b, Pids DEF open_image, Goto, sigs, run, ServiceInv, NTypeOK, StartsQuiet,
       AskersWereStarted, UmountsAfterArming, LeavesWhenSpent
  <1>2. CASE verify_image
    BY <1>2, <1>a, <1>b, Pids DEF verify_image, Goto, sigs, run, ServiceInv, NTypeOK, StartsQuiet,
       AskersWereStarted, UmountsAfterArming, LeavesWhenSpent
  <1>3. CASE daemonize
    BY <1>3, <1>a, <1>b, Pids DEF daemonize, Goto, run, sigs, ServiceInv, NTypeOK, StartsQuiet,
       AskersWereStarted, UmountsAfterArming, LeavesWhenSpent
  <1>4. CASE nbd_connect
    BY <1>4, <1>a, <1>b, Pids DEF nbd_connect, Goto, sigs, run, ServiceInv, NTypeOK, StartsQuiet,
       AskersWereStarted, UmountsAfterArming, LeavesWhenSpent
  <1>5. CASE start_mount
    BY <1>5, <1>a, <1>b, Pids DEF start_mount, Goto, Fork, create_pid_file, sigs, run, ServiceInv,
       NTypeOK, StartsQuiet, AskersWereStarted, UmountsAfterArming, LeavesWhenSpent
  <1>6. CASE loop_test
    BY <1>6, <1>a, <1>b, Pids DEF loop_test, Goto, sigs, run, ServiceInv, NTypeOK, StartsQuiet,
       AskersWereStarted, UmountsAfterArming, LeavesWhenSpent
  <1>7. CASE reap
    <2>1. \A c \in Children : child[c] = "none" => child'[c] = "none"
      BY <1>7, CollectsZombies DEF reap
    <2>2. QED
      BY <1>7, <1>b, <2>1 DEF reap, Goto, run, UmountsAfterArming, LeavesWhenSpent
  <1>8. CASE enter_read
    BY <1>8, <1>a, <1>b, Pids DEF enter_read, Goto, sigs, run, ServiceInv, NTypeOK, StartsQuiet,
       AskersWereStarted, UmountsAfterArming, LeavesWhenSpent
  <1>9. CASE read_request
    BY <1>9, <1>a, <1>b, Pids DEF read_request, Goto, Waiting, sigs, run, ServiceInv, NTypeOK,
       StartsQuiet, AskersWereStarted, UmountsAfterArming, LeavesWhenSpent
  <1>10. CASE serve
    BY <1>10, <1>a, <1>b, Pids DEF serve, Goto, sigs, run, ServiceInv, NTypeOK, StartsQuiet,
       AskersWereStarted, UmountsAfterArming, LeavesWhenSpent
  <1>24. CASE read_payload
    BY <1>24, <1>a, <1>b, Pids DEF read_payload, Goto, sigs, run, ServiceInv, NTypeOK, StartsQuiet,
       AskersWereStarted, UmountsAfterArming, LeavesWhenSpent
  <1>25. CASE send_reply
    BY <1>25, <1>a, <1>b, Pids DEF send_reply, Goto, sigs, run, ServiceInv, NTypeOK, StartsQuiet,
       AskersWereStarted, UmountsAfterArming, LeavesWhenSpent
  <1>26. CASE read_lost
    BY <1>26, <1>a, <1>b, Pids DEF read_lost, Goto, sigs, run, ServiceInv, NTypeOK, StartsQuiet,
       AskersWereStarted, UmountsAfterArming, LeavesWhenSpent
  <1>11. CASE leave_test
    BY <1>11, <1>a, <1>b, Pids DEF leave_test, Goto, sigs, run, ServiceInv, NTypeOK, StartsQuiet,
       AskersWereStarted, UmountsAfterArming, LeavesWhenSpent
  <1>12. CASE punt
    BY <1>12, <1>a, <1>b, Pids DEF punt, Goto, Fork, sigs, run, ServiceInv, NTypeOK, StartsQuiet,
       AskersWereStarted, UmountsAfterArming, LeavesWhenSpent
  <1>13. CASE final_reap
    <2>1. \A c \in Children : child[c] = "none" => child'[c] = "none"
      BY <1>13, CollectsZombies DEF final_reap
    <2>2. QED
      BY <1>13, <1>b, <2>1 DEF final_reap, Goto, sigs, run, UmountsAfterArming, LeavesWhenSpent
  <1>14. CASE nbd_disconnect
    BY <1>14, <1>a, <1>b, Pids DEF nbd_disconnect, Goto, remove_pid_file, sigs, run, ServiceInv, NTypeOK,
       StartsQuiet, AskersWereStarted, UmountsAfterArming, LeavesWhenSpent
  <1>15. CASE close_and_exit
    BY <1>15, <1>a, <1>b, Pids DEF close_and_exit, Goto, sigs, run, ServiceInv, NTypeOK,
       StartsQuiet, AskersWereStarted, UmountsAfterArming, LeavesWhenSpent
  <1>16. CASE nbd_finish
    BY <1>16, InterruptEnds, <1>a, <1>b, Pids DEF nbd_finish, sigs, run, ServiceInv, NTypeOK,
       StartsQuiet, AskersWereStarted, UmountsAfterArming, LeavesWhenSpent
  <1>17. ASSUME NEW c \in Helpers, Ask(c) PROVE UmountsAfterArming' /\ LeavesWhenSpent'
    BY <1>17, <1>a, <1>b, Pids DEF Ask, CanSend, sigs, run, ServiceInv, NTypeOK, StartsQuiet,
       AskersWereStarted, UmountsAfterArming, LeavesWhenSpent
  <1>18. ASSUME NEW c \in Children, Exit(c) PROVE UmountsAfterArming' /\ LeavesWhenSpent'
    <2>1. nbd_reapchild(c) /\ child' = [child EXCEPT ![c] = "zombie"] /\ opt' = opt
          /\ child[c] # "none"
      BY <1>18 DEF Exit, run
    <2>2. /\ diedp' = diedp /\ (armed' => armed /\ ttl' = ttl)
          /\ spc' \in {spc, "leave"} \/ (spc' = "disc" /\ spc = "final")
      BY <2>1, ReapchildCounts DEF ServiceInv
    <2>3. UmountsAfterArming'
      BY <2>1, <2>2, <1>b DEF UmountsAfterArming, ServiceInv, NTypeOK
    <2>4. LeavesWhenSpent'
      BY <2>1, <2>2 DEF LeavesWhenSpent
    <2>5. QED
      BY <2>3, <2>4
  <1>19. CASE UserRequest
    BY <1>19, <1>a, <1>b, Pids DEF UserRequest, CanSend, sigs, run, ServiceInv, NTypeOK,
       StartsQuiet, AskersWereStarted, UmountsAfterArming, LeavesWhenSpent
  <1>20. CASE Disc
    BY <1>20, <1>a, <1>b, Pids DEF Disc, CanSend, sigs, run, ServiceInv, NTypeOK, StartsQuiet,
       AskersWereStarted, UmountsAfterArming, LeavesWhenSpent
  <1>21. CASE ShutDown
    BY <1>21, <1>a, <1>b, Pids DEF ShutDown, sigs, run, ServiceInv, NTypeOK, StartsQuiet,
       AskersWereStarted, UmountsAfterArming, LeavesWhenSpent
  <1>22. CASE UNCHANGED nvars
    BY <1>22, <1>a, <1>b, Pids DEF nvars, ServiceInv, NTypeOK, StartsQuiet, AskersWereStarted,
       UmountsAfterArming, LeavesWhenSpent
  <1>23. QED
    BY <1>1, <1>2, <1>3, <1>4, <1>5, <1>6, <1>7, <1>8, <1>9, <1>10, <1>11, <1>12, <1>13, <1>14,
       <1>15, <1>16, <1>17, <1>18, <1>19, <1>20, <1>21, <1>22,
       <1>24, <1>25, <1>26 DEF Next, Server

LEMMA UmountInit == Init => UmountInv
  BY ServiceInit, Pids DEF Init, UmountInv, AskersWereStarted, UmountsAfterArming, LeavesWhenSpent

\* The server does not end its loop while a umount that it started may still
\* need the device, unless the one signal that nbd_reapchild was armed for was
\* spent on another child, or a further umount could not be forked: for any
\* number of termination signals, umounts and requests.
THEOREM UmountsAreServed == Spec => []UmountIsServed
  <1>1. UmountInv => UmountIsServed
    BY DEF UmountInv, ServiceInv, NTypeOK, UmountsAfterArming, LeavesWhenSpent, UmountIsServed,
       Alive
  <1>2. QED
    BY UmountInit, UmountStep, <1>1, PTL DEF Spec

-----------------------------------------------------------------------------
(* What is connected is a verified image                                   *)

\* image_open returns a handle of a known type, and a raw one only for a file
\* that can be read, if raw images are asked for.
LEMMA OpenFinds ==
    ASSUME NEW f \in Files, NEW raw \in BOOLEAN, NEW o \in image_open(f, raw)
    PROVE  /\ o[2] \in {NoHandle, "ntfsclone", "partclone", "raw"}
           /\ o[2] = "raw" => f # "absent" /\ raw
  <1> DEFINE K == {i \in DOMAIN known_types : Probe(known_types[i], f)}
  <1>1. K \subseteq 1 .. 3 /\ (3 \in K => f # "absent")
    <2>1. DOMAIN known_types = 1 .. 3 /\ known_types[3] = "raw"
      BY DEF known_types
    <2>2. QED
      BY <2>1 DEF Probe, rawimage_probe
  <1>2. PICK hits \in SUBSET K :
          o \in IF hits = {} THEN {<<"ENOENT", NoHandle>>}
               ELSE LET itidx == CHOOSE i \in hits : \A j \in hits : i <= j
                    IN  IF itidx < Len(known_types) \/ raw
                        THEN {<<"ok", known_types[itidx]>>, <<"EIO", known_types[itidx]>>}
                        ELSE {<<"ok", NoHandle>>}
    BY DEF image_open
  <1> HIDE DEF K
  <1> DEFINE it == CHOOSE i \in hits : \A j \in hits : i <= j
  <1>3. CASE hits = {}
    BY <1>2, <1>3 DEF NoHandle
  <1>4. CASE hits # {}
    <2>1. \E i \in hits : \A j \in hits : i <= j
      <3>1. CASE 1 \in hits
        BY <1>1, <3>1
      <3>2. CASE 1 \notin hits /\ 2 \in hits
        BY <1>1, <3>2
      <3>3. CASE 1 \notin hits /\ 2 \notin hits
        <4>0. \A i \in hits : i = 3
          BY <1>1, <3>3
        <4>1. hits = {3}
          BY <1>4, <4>0
        <4>2. QED
          BY <4>1
      <3>4. QED
        BY <3>1, <3>2, <3>3
    <2>2. it \in hits
      BY <2>1
    <2>3. o \in IF it < Len(known_types) \/ raw
                THEN {<<"ok", known_types[it]>>, <<"EIO", known_types[it]>>}
                ELSE {<<"ok", NoHandle>>}
      BY <1>2, <1>4
    <2> HIDE DEF it
    <2>4. it \in 1 .. 3 /\ (it = 3 => f # "absent")
      BY <1>1, <2>2
    <2>5. QED
      BY <2>3, <2>4 DEF known_types, NoHandle
  <1>5. QED
    BY <1>3, <1>4

\* An image that image_verify accepts is sound.
LEMMA VerifiedIsSound ==
    ASSUME ImageIsChecked, spc = "verify", "ok" \in image_verify(img.handle, img.file, img.tolerant)
    PROVE  Sound
  BY DEF ImageIsChecked, image_verify, Sound, NoHandle

LEMMA ImageStep ==
    ASSUME ServiceInv, ImageIsChecked, [Next]_nvars
    PROVE  ImageIsChecked'
  <1> USE DEF ServiceInv
  <1>1. CASE open_image
    <2>1. PICK o \in image_open(img.file, img.raw) :
            img' = [img EXCEPT !.handle = o[2]] /\ spc' \in {"verify", "end"}
      BY <1>1 DEF open_image, Goto
    <2>2. img.file \in Files /\ img.raw \in BOOLEAN
      BY <1>1 DEF open_image, ImageIsChecked
    <2>3. o[2] \in {NoHandle, "ntfsclone", "partclone", "raw"}
          /\ (o[2] = "raw" => img.file # "absent" /\ img.raw)
      BY <2>2, OpenFinds
    <2>4. QED
      BY <1>1, <2>1, <2>3 DEF open_image, ImageIsChecked
  <1>2. CASE verify_image
    <2>1. img' = img /\ spc = "verify" /\ (spc' = "daemon" => Sound) /\ spc' \in {"daemon", "close"}
      BY <1>2, VerifiedIsSound DEF verify_image, Goto, run
    <2>2. Sound' = Sound
      BY <2>1 DEF Sound
    <2>3. QED
      BY <2>1, <2>2 DEF ImageIsChecked
  <1>3. CASE daemonize
    BY <1>3 DEF daemonize, Goto, ImageIsChecked
  <1>4. CASE nbd_connect
    BY <1>4, Pids DEF nbd_connect, Goto, sigs, run, StartsQuiet, ImageIsChecked, Sound
  <1>5. CASE start_mount
    BY <1>5, Pids DEF start_mount, Goto, Fork, create_pid_file, sigs, run, StartsQuiet,
       ImageIsChecked, Sound
  <1>6. CASE loop_test
    BY <1>6, Pids DEF loop_test, Goto, sigs, run, StartsQuiet, ImageIsChecked, Sound
  <1>7. CASE reap
    BY <1>7, Pids DEF reap, Goto, Collect, sigs, run, StartsQuiet, ImageIsChecked, Sound
  <1>8. CASE enter_read
    BY <1>8, Pids DEF enter_read, Goto, sigs, run, StartsQuiet, ImageIsChecked, Sound
  <1>9. CASE read_request
    BY <1>9, Pids DEF read_request, Goto, Waiting, sigs, run, StartsQuiet, ImageIsChecked, Sound
  <1>10. CASE serve
    BY <1>10, Pids DEF serve, Goto, sigs, run, StartsQuiet, ImageIsChecked, Sound
  <1>24. CASE read_payload
    BY <1>24, Pids DEF read_payload, Goto, sigs, run, StartsQuiet, ImageIsChecked, Sound
  <1>25. CASE send_reply
    BY <1>25, Pids DEF send_reply, Goto, sigs, run, StartsQuiet, ImageIsChecked, Sound
  <1>26. CASE read_lost
    BY <1>26, Pids DEF read_lost, Goto, sigs, run, StartsQuiet, ImageIsChecked, Sound
  <1>11. CASE leave_test
    BY <1>11, Pids DEF leave_test, Goto, sigs, run, StartsQuiet, ImageIsChecked, Sound
  <1>12. CASE punt
    BY <1>12, Pids DEF punt, Goto, Fork, sigs, run, StartsQuiet, ImageIsChecked, Sound
  <1>13. CASE final_reap
    BY <1>13, Pids DEF final_reap, Goto, Collect, sigs, run, StartsQuiet,
       ImageIsChecked, Sound
  <1>14. CASE nbd_disconnect
    BY <1>14, Pids DEF nbd_disconnect, Goto, remove_pid_file, sigs, run, StartsQuiet, ImageIsChecked, Sound
  <1>15. CASE close_and_exit
    BY <1>15, Pids DEF close_and_exit, Goto, sigs, run, StartsQuiet, ImageIsChecked, Sound
  <1>16. CASE nbd_finish
    BY <1>16, InterruptEnds, Pids DEF nbd_finish, sigs, run, StartsQuiet, ImageIsChecked, Sound
  <1>17. ASSUME NEW c \in Helpers, Ask(c) PROVE ImageIsChecked'
    BY <1>17, Pids DEF Ask, CanSend, sigs, run, StartsQuiet, ImageIsChecked, Sound
  <1>18. ASSUME NEW c \in Children, Exit(c) PROVE ImageIsChecked'
    <2>1. spc \notin {"open", "verify", "daemon"}
      BY <1>18 DEF Exit, StartsQuiet
    <2>2. spc' \in {spc, "leave", "disc"}
      BY <1>18 DEF Exit, nbd_reapchild, Interrupt, sigs
    <2>3. QED
      BY <2>1, <2>2 DEF ImageIsChecked
  <1>19. CASE UserRequest
    BY <1>19, Pids DEF UserRequest, CanSend, sigs, run, StartsQuiet, ImageIsChecked, Sound
  <1>20. CASE Disc
    BY <1>20, Pids DEF Disc, CanSend, sigs, run, StartsQuiet, ImageIsChecked, Sound
  <1>21. CASE ShutDown
    BY <1>21, Pids DEF ShutDown, sigs, run, StartsQuiet, ImageIsChecked, Sound
  <1>22. CASE UNCHANGED nvars
    BY <1>22, Pids DEF nvars, StartsQuiet, ImageIsChecked, Sound
  <1>23. QED
    BY <1>1, <1>2, <1>3, <1>4, <1>5, <1>6, <1>7, <1>8, <1>9, <1>10, <1>11, <1>12, <1>13, <1>14,
       <1>15, <1>16, <1>17, <1>18, <1>19, <1>20, <1>21, <1>22,
       <1>24, <1>25, <1>26 DEF Next, Server

\* The kernel is connected to an image that was opened by the type that its
\* file is of and verified, and to the bytes of any other file only on
\* demand: image_open, image_verify and their errors in main of imagemount.
THEOREM ServedImageIsSound == Spec => ServesSoundImage
  <1> DEFINE SoundInv == ServiceInv /\ ImageIsChecked
  <1>1. Init => SoundInv
    BY ServiceInit DEF Init, ImageIsChecked, NoHandle
  <1>2. SoundInv /\ [Next]_nvars => SoundInv'
    BY ServiceStep, ImageStep
  <1>3. ASSUME ServiceInv, ImageIsChecked, [Next]_nvars
        PROVE  [spc' = "connect" => Sound]_nvars
    <2> SUFFICES ASSUME Next, spc' = "connect" PROVE Sound
      BY <1>3
    <2>1. spc # "connect"
      BY <1>3, Pids DEF Next, Server, ServiceInv, StartsQuiet, open_image, verify_image,
         daemonize, nbd_connect,
         start_mount, loop_test, reap, enter_read, read_request, read_lost, serve, read_payload,
         send_reply, leave_test, punt,
         final_reap, nbd_disconnect, close_and_exit, nbd_finish, Ask, Exit, UserRequest, Disc,
         ShutDown, Goto, CanSend
    <2>2. daemonize
      BY <2>1, <1>3 DEF Next, Server, open_image, verify_image, nbd_connect,
         start_mount, loop_test, reap, enter_read, read_request, read_lost, serve, read_payload,
         send_reply, leave_test, punt,
         final_reap, nbd_disconnect, close_and_exit, nbd_finish, Ask, Exit, UserRequest, Disc,
         ShutDown, Goto, nbd_reapchild, Interrupt, sigs
    <2>3. QED
      BY <2>2, <1>3 DEF daemonize, ImageIsChecked
  <1>4. SoundInv /\ [Next]_nvars => [spc' = "connect" => Sound]_nvars
    BY <1>3
  <1>5. QED
    BY <1>1, <1>2, <1>4, PTL DEF Spec, ServesSoundImage
=============================================================================
