----------------------------- MODULE NbdService -----------------------------
(***************************************************************************)
(* The life of the imagemount process (src/imagemount.c): connecting the   *)
(* network block device, the request loop, its signal handlers, the        *)
(* children that mount and unmount, and the way out to image_close.        *)
(*                                                                         *)
(* The handlers run between any two steps of the loop.  read() of the next *)
(* request is two steps, since a signal that comes after the loop's tests  *)
(* and before the process sleeps in read() does not interrupt it.  How a   *)
(* request is served is in NbdRequest; here it is only who waits for the   *)
(* answer, whether its payload has yet to come, and whether the next read  *)
(* will find a header.  The kernel's side of the device is external: it    *)
(* queues requests, and shuts the socket down after DISC.                  *)
(***************************************************************************)
EXTENDS Libimage, FiniteSets

CONSTANTS
    Settings,   \* how the server may be run
    MaxTerm,    \* bound on the termination signals sent
    MaxQueue    \* bound on the requests in the socket

\* mount: was -m given?  early: may the kernel shut the socket down before
\* DISC is answered?  exhausted: may malloc() fail?  nofork: may fork()?
ASSUME SettingsAssumption ==
    Settings \subseteq [mount : BOOLEAN, early : BOOLEAN, exhausted : BOOLEAN, nofork : BOOLEAN]
ASSUME NbdBoundAssumption == MaxTerm \in Nat /\ MaxQueue \in Nat \ {0}

\* Process ids, and the two other ends of a request.
NoPid    == 0
DoIt     == 1                               \* sits in NBD_DO_IT
Mounter  == 2
Umounts  == 3 .. MaxTerm + 3                \* one for each signal and one for DISC
Helpers  == {Mounter} \cup Umounts          \* children that do I/O on the device
Children == {DoIt} \cup Helpers
User     == -1
DISC     == -2

VARIABLES
    opt,        \* how the server is run
    img,        \* the file, -R, -T (or -c), and the handle; <<>> once it is served
    pidfile,    \* is there a pid file?
    spc,        \* where the server is
    ttl,        \* timetoleave
    died,       \* someonedied
    who,        \* whodied
    toreap,     \* svc_toreap
    armed,      \* is nbd_reapchild installed (SA_RESETHAND: for one signal)?
    diedp,      \* what the handler counts in: none, died or ttl
    child,      \* none, run, wait (for an answer), served, zombie or gone
    q,          \* requests in the socket, by who waits for the answer
    req,        \* the request being served
    sock,       \* up, closing (DISC is queued), replied (DISC is answered) or down
    sync,       \* does the socket go on with a header, behind the payload?
    terms       \* termination signals sent, and buffers that could not be had

nvars == <<opt, img, pidfile, spc, ttl, died, who, toreap, armed, diedp, child, q, req, sock, sync, terms>>
sigs  == <<died, who, armed, diedp>>
run   == <<opt, img, pidfile>>

Init ==
    /\ opt \in Settings
    /\ img \in [file : Files, raw : BOOLEAN, tolerant : BOOLEAN, handle : {NoHandle}]
    /\ pidfile = FALSE
    /\ spc = "open" /\ ttl = 0 /\ died = 0 /\ who = NoPid /\ toreap = NoPid
    /\ armed = FALSE /\ diedp = "none" /\ child = [c \in Children |-> "none"]
    /\ q = <<>> /\ req = NoPid /\ sock = "down" /\ sync = TRUE /\ terms = 0

Over    == spc \in {"end", "killed"}
Waiting == spc = "read" /\ q = <<>> /\ sock # "down"   \* asleep in read()

-----------------------------------------------------------------------------
(* The signal handlers                                                     *)

\* A signal ends a call that sleeps, with EINTR.  read() of a request and
\* wait() are not called again; read() of a payload is, for a byte too many
\* if it is time to leave; write() of a reply is not, if it is time to leave
\* or if some of the reply was written.
Interrupt ==
    IF Waiting THEN spc' = "leave" /\ UNCHANGED <<req, sync>>
    ELSE \/ UNCHANGED <<spc, req, sync>>
         \/ spc = "payload" /\ sock # "down" /\ ttl' # 0 /\ sync' = FALSE /\ UNCHANGED <<spc, req>>
         \/ spc = "reply" /\ sock # "down" /\ spc' = "leave" /\ req' = NoPid /\ UNCHANGED sync
         \/ spc = "final" /\ toreap # NoPid /\ who = NoPid /\ spc' = "disc" /\ UNCHANGED <<req, sync>>

\* nbd_finish.  It is installed before the loop and stays until the end.
nbd_finish ==
    /\ spc \notin {"open", "verify", "daemon", "connect", "start", "end", "killed"} /\ terms < MaxTerm
    /\ ttl' = 1 /\ terms' = terms + 1 /\ Interrupt
    /\ UNCHANGED <<run, sigs, toreap, child, q, sock>>

\* Mutant: the handler stays installed.
nbd_reapchild_Again(c) ==
    IF armed /\ ~Over
    THEN /\ who' = c
         /\ died' = IF diedp = "died" THEN died + 1 ELSE died
         /\ ttl'  = IF diedp = "ttl" THEN ttl + 1 ELSE ttl
         /\ UNCHANGED <<armed, diedp>> /\ Interrupt
    ELSE UNCHANGED <<sigs, spc, ttl, req, sync>>

\* nbd_reapchild, as child c dies: counts in what diedp points to, once.
nbd_reapchild(c) ==
    IF armed /\ ~Over
    THEN /\ who' = c /\ armed' = FALSE
         /\ died' = IF diedp = "died" THEN died + 1 ELSE died
         /\ ttl'  = IF diedp = "ttl" THEN ttl + 1 ELSE ttl
         /\ UNCHANGED diedp /\ Interrupt
    ELSE UNCHANGED <<sigs, spc, ttl, req, sync>>

-----------------------------------------------------------------------------
(* The kernel and the children                                             *)

CanSend == sock = "up" /\ Len(q) < MaxQueue

\* mount() or umount() needs a block of the device.
Ask(c) ==
    /\ child[c] = "run" /\ CanSend
    /\ q' = Append(q, c) /\ child' = [child EXCEPT ![c] = "wait"]
    /\ UNCHANGED <<run, spc, ttl, sigs, toreap, req, sock, sync, terms>>

\* ... and returns when it was answered, or with an error if it never will be.
\* NBD_DO_IT returns when the socket is shut down.
Exit(c) ==
    /\ \/ c \in Helpers /\ child[c] \in {"run", "served"}
       \/ child[c] \in {"run", "wait"} /\ sock = "down"
    /\ child' = [child EXCEPT ![c] = "zombie"]
    /\ nbd_reapchild(c)
    /\ UNCHANGED <<run, toreap, q, sock, terms>>

\* Some other process uses the device.
UserRequest ==
    /\ CanSend /\ q' = Append(q, User)
    /\ UNCHANGED <<run, spc, ttl, sigs, toreap, child, req, sock, sync, terms>>

\* nbd-client -d: DISC is the last request.
Disc ==
    /\ CanSend /\ q' = Append(q, DISC) /\ sock' = "closing"
    /\ UNCHANGED <<run, spc, ttl, sigs, toreap, child, req, sync, terms>>

ShutDown ==
    /\ sock = "replied" \/ (opt.early /\ sock = "closing")
    /\ sock' = "down"
    /\ UNCHANGED <<run, spc, ttl, sigs, toreap, child, q, req, sync, terms>>

-----------------------------------------------------------------------------
(* main up to nbd_service_requests, and its preamble                       *)

Goto(s) == spc' = s

\* An image that cannot be opened is not closed.
open_image ==
    /\ spc = "open"
    /\ \E o \in image_open(img.file, img.raw) :
          /\ img' = [img EXCEPT !.handle = o[2]]
          /\ Goto(IF o[1] = "ok" THEN "verify" ELSE "end")
    /\ UNCHANGED <<opt, pidfile, ttl, sigs, toreap, child, q, req, sock, sync, terms>>

verify_image ==
    /\ spc = "verify"
    /\ \E error \in image_verify(img.handle, img.file, img.tolerant) :
          Goto(IF error = "ok" THEN "daemon" ELSE "close")
    /\ UNCHANGED <<run, ttl, sigs, toreap, child, q, req, sock, sync, terms>>

\* nbd_check_capabilities, nbd_daemon_mode.  From here on the image is the
\* one that was verified.
daemonize ==
    /\ spc = "daemon"
    /\ \/ Goto("connect") /\ img' = <<>>
       \/ Goto("close") /\ UNCHANGED img
    /\ UNCHANGED <<opt, pidfile, ttl, sigs, toreap, child, q, req, sock, sync, terms>>

\* A failure of NBD_SET_TIMEOUT is reported although the child was started.
nbd_connect ==
    /\ spc = "connect"
    /\ \/ Goto("start") /\ child' = [child EXCEPT ![DoIt] = "run"] /\ sock' = "up"
       \/ Goto("close") /\ child' = [child EXCEPT ![DoIt] = "run"] /\ sock' = "up"
       \/ Goto("close") /\ UNCHANGED <<child, sock>>
    /\ UNCHANGED <<run, ttl, sigs, toreap, q, req, sync, terms>>

Fork(c) == child' = [child EXCEPT ![c] = "run"] /\ toreap' = c

\* The file may not be had, and nobody looks.
create_pid_file == pidfile' \in BOOLEAN
remove_pid_file == pidfile' = FALSE

start_mount ==
    /\ spc = "start" /\ Goto("top") /\ create_pid_file
    /\ ttl' \in {0} \cup IF opt.exhausted THEN {3} ELSE {}
    /\ IF ~opt.mount THEN UNCHANGED <<sigs, child, toreap>>
       ELSE /\ armed' = TRUE /\ diedp' = "died" /\ UNCHANGED <<died, who>>
            /\ \/ Fork(Mounter)
               \/ opt.nofork /\ UNCHANGED <<child, toreap>>
    /\ UNCHANGED <<opt, img, q, req, sock, sync, terms>>

-----------------------------------------------------------------------------
(* The request loop                                                        *)

Zombies == {c \in Children : child[c] = "zombie"}
Alive   == {c \in Children : child[c] \in {"run", "wait", "served"}}

\* waitpid(whodied, WNOHANG), or wait() for any child, which sleeps as long
\* as there are only living ones.
Collect(corpse) ==
    /\ \/ who # NoPid /\ corpse = IF who \in Zombies THEN who ELSE NoPid
       \/ who = NoPid /\ corpse \in Zombies
       \/ who = NoPid /\ Zombies \cup Alive = {} /\ corpse = NoPid
    /\ child' = [c \in Children |-> IF c = corpse THEN "gone" ELSE child[c]]

loop_test ==
    /\ spc = "top"
    /\ Goto(IF ttl >= 3 THEN "final" ELSE IF died > 0 THEN "reap" ELSE "toread")
    /\ UNCHANGED <<run, ttl, sigs, toreap, child, q, req, sock, sync, terms>>

reap ==
    /\ spc = "reap" /\ Goto("toread")
    /\ \E corpse \in Children \cup {NoPid} :
          Collect(corpse) /\ toreap' = IF toreap = corpse THEN NoPid ELSE toreap
    /\ died' = 0 /\ who' = NoPid
    /\ UNCHANGED <<run, ttl, armed, diedp, q, req, sock, sync, terms>>

enter_read ==
    /\ spc = "toread" /\ Goto("read")
    /\ UNCHANGED <<run, ttl, sigs, toreap, child, q, req, sock, sync, terms>>

\* A request whose buffer is too large to be allocated is the last one, but
\* it is served.  A socket that was shut down gives what is left in it, then
\* end of file, which is not told from an interrupted read.
read_request ==
    /\ spc = "read"
    /\ \/ /\ q # <<>> /\ sync /\ Goto("serve") /\ req' = Head(q) /\ q' = Tail(q)
          /\ \/ UNCHANGED <<ttl, terms>>
             \/ opt.exhausted /\ terms < MaxTerm /\ ttl' = 1 /\ terms' = terms + 1
       \/ q = <<>> /\ sock = "down" /\ Goto("leave") /\ UNCHANGED <<req, q, ttl, terms>>
    /\ UNCHANGED <<run, sigs, toreap, child, sock, sync>>

\* "We've obviously lost sync with the kernel": what is read is no header, or
\* starts within one.  A short read may happen to end where a header starts.
read_lost ==
    /\ spc = "read" /\ ~sync /\ Goto("leave") /\ sync' \in BOOLEAN
    /\ q' \in {q} \cup IF q # <<>> THEN {Tail(q)} ELSE {}
    /\ UNCHANGED <<run, ttl, sigs, toreap, child, req, sock, terms>>

\* Mutant: DISC is answered and forgotten.
serve_NoLeave ==
    /\ spc = "serve" /\ Goto("reply") /\ UNCHANGED <<ttl, sync>>
    /\ UNCHANGED <<run, sigs, toreap, child, q, req, sock, terms>>

\* All of the request may have come, or its payload has yet to, or is never
\* read because a priming read failed.
serve ==
    /\ spc = "serve" /\ ttl' = IF req = DISC THEN 1 ELSE ttl
    /\ \/ Goto("reply") /\ UNCHANGED sync
       \/ req # DISC /\ Goto("payload") /\ UNCHANGED sync
       \/ req # DISC /\ Goto("reply") /\ sync' = FALSE
    /\ UNCHANGED <<run, sigs, toreap, child, q, req, sock, terms>>

\* The rest of the payload, and what a signal has made the server read on top
\* of that, which is of the next request.  End of file is taken for a short
\* read, again and again.
read_payload ==
    /\ spc = "payload" /\ sock # "down" /\ (sync \/ q # <<>>) /\ Goto("reply")
    /\ UNCHANGED <<run, ttl, sigs, toreap, child, q, req, sock, sync, terms>>

\* Nobody handles SIGPIPE.
send_reply ==
    /\ spc = "reply" /\ req' = NoPid
    /\ IF sock = "down" THEN Goto("killed") /\ UNCHANGED <<child, sock>>
       ELSE /\ Goto("leave")
            /\ child' = [c \in Children |-> IF c = req THEN "served" ELSE child[c]]
            /\ sock' = IF req = DISC THEN "replied" ELSE sock
    /\ UNCHANGED <<run, ttl, sigs, toreap, q, sync, terms>>

\* Mutant: without a mount there is nothing to finish.
leave_test_MountOnly ==
    /\ spc = "leave" /\ Goto("top") /\ UNCHANGED <<ttl, armed, diedp>>
    /\ UNCHANGED <<run, died, who, toreap, child, q, req, sock, sync, terms>>

\* "Check to see if we received a termination signal."
leave_test ==
    /\ spc = "leave"
    /\ IF ttl # 1 THEN Goto("top") /\ UNCHANGED <<ttl, armed, diedp>>
       ELSE IF ~opt.mount THEN ttl' = 3 /\ Goto("top") /\ UNCHANGED <<armed, diedp>>
       ELSE diedp' = "ttl" /\ armed' = TRUE /\ Goto("punt") /\ UNCHANGED ttl
    /\ UNCHANGED <<run, died, who, toreap, child, q, req, sock, sync, terms>>

NextPid(u) == \A v \in Umounts : (child[v] = "none") <=> (v >= u)

\* Mutant: the umount is not waited for.
punt_Leaves ==
    /\ spc = "punt" /\ Goto("top") /\ ttl' = 3 /\ \E u \in Umounts : NextPid(u) /\ Fork(u)
    /\ UNCHANGED <<run, sigs, q, req, sock, sync, terms>>

\* The umount is started with the handler in place.
punt ==
    /\ spc = "punt" /\ Goto("top")
    /\ \/ ttl' = 2 /\ \E u \in Umounts : NextPid(u) /\ Fork(u)
       \/ opt.nofork /\ ttl' = 3 /\ UNCHANGED <<child, toreap>>
    /\ UNCHANGED <<run, sigs, q, req, sock, sync, terms>>

\* Mutant: the child to reap is waited for.
final_reap_Waits ==
    /\ spc = "final" /\ Goto("disc")
    /\ toreap = NoPid \/ toreap \notin Alive
    /\ UNCHANGED <<run, ttl, sigs, toreap, child, q, req, sock, sync, terms>>

final_reap ==
    /\ spc = "final" /\ Goto("disc")
    /\ IF toreap = NoPid THEN UNCHANGED child
       ELSE \E corpse \in Children \cup {NoPid} : Collect(corpse)
    /\ UNCHANGED <<run, ttl, sigs, toreap, q, req, sock, sync, terms>>

-----------------------------------------------------------------------------
(* The end of main                                                         *)

\* The end of nbd_service_requests, too.  Nobody reads the DISC that this
\* ioctl sends.
nbd_disconnect ==
    /\ spc = "disc" /\ Goto("close") /\ remove_pid_file
    /\ sock' = IF sock = "up" THEN "closing" ELSE sock
    /\ UNCHANGED <<opt, img, ttl, sigs, toreap, child, q, req, sync, terms>>

\* image_close, then the process ends and its end of the socket with it.
close_and_exit ==
    /\ spc = "close" /\ Goto("end") /\ sock' = "down"
    /\ UNCHANGED <<run, ttl, sigs, toreap, child, q, req, sync, terms>>

Server ==
    \/ open_image \/ verify_image \/ daemonize \/ nbd_connect \/ start_mount
    \/ loop_test \/ reap \/ enter_read \/ read_request \/ (q # <<>> /\ read_lost)
    \/ serve \/ read_payload \/ send_reply
    \/ leave_test \/ punt \/ final_reap
    \/ nbd_disconnect \/ close_and_exit

Next ==
    \/ Server \/ read_lost
    \/ nbd_finish
    \/ \E c \in Helpers : Ask(c)
    \/ \E c \in Children : Exit(c)
    \/ UserRequest \/ Disc \/ ShutDown

\* The server and the children are scheduled, and the kernel sends the rest of
\* a payload, takes what it is sent, and shuts the socket down some time after
\* DISC is answered.  Nobody has to send a request, and a server that is out of
\* sync may sleep in front of an empty queue.
Fairness ==
    /\ WF_nvars(Server) /\ WF_nvars(ShutDown)
    /\ \A c \in Children : WF_nvars(Exit(c))

Spec == Init /\ [][Next]_nvars /\ Fairness

-----------------------------------------------------------------------------
(* Properties                                                              *)

NTypeOK ==
    /\ spc \in {"open", "verify", "daemon", "connect", "start", "top", "reap", "toread", "read",
                "serve", "payload", "reply", "leave", "punt", "final", "disc", "close", "end", "killed"}
    /\ pidfile \in BOOLEAN /\ ttl \in 0 .. 4 /\ died \in 0 .. 1 /\ armed \in BOOLEAN /\ diedp \in {"none", "died", "ttl"}
    /\ {who, toreap} \subseteq Children \cup {NoPid}
    /\ child \in [Children -> {"none", "run", "wait", "served", "zombie", "gone"}]
    /\ q \in Seq(Helpers \cup {User, DISC}) /\ req \in Helpers \cup {User, DISC, NoPid}
    /\ sock \in {"up", "closing", "replied", "down"} /\ sync \in BOOLEAN /\ terms \in 0 .. MaxTerm

\* "Open the image", "Verify the image", "Process requests": what the kernel
\* is connected to is a verified image of the file's own type.  A damaged
\* ntfsclone image needs -T, or a named change file, which sets the same bit;
\* a file that fits no type, or whose probe failed, is served as raw bytes
\* only with -R.
Sound ==
    CASE img.handle = "ntfsclone" -> img.file = "ntfsclone" \/ (img.file = "ntfsdamaged" /\ img.tolerant)
      [] img.handle = "partclone" -> img.file = "partclone"
      [] img.handle = "raw"       -> img.file # "absent" /\ img.raw
      [] OTHER                    -> FALSE
ServesSoundImage == [][spc' = "connect" => Sound]_nvars

\* The server never goes on: it sleeps until somebody sends a request, or
\* reads the end of the file where a payload should go on.
Stuck ==
    \/ Waiting
    \/ spc = "payload" /\ (sock = "down" \/ (~sync /\ q = <<>>))

\* "Set finish flag and let service request loop finish up": a server that
\* was told to leave, and is not stuck in read() for ever, ends, if there is
\* no file system to unmount.
LeavesWhenAwake == ~opt.mount /\ []<>~Stuck => (ttl = 1 ~> Over)

\* DISC was read and not answered: a signal interrupted the reply to it.
Unanswered == sock = "closing" /\ req # DISC /\ \A i \in DOMAIN q : q[i] # DISC

\* "run nbd-client -d to disconnect": after DISC the image is closed, which
\* is what writes the change file's map, and the pid file is gone, if the
\* kernel waits for the answer, the server is in sync and no signal interrupts
\* the answer.
DisconnectCloses ==
    sock = "closing" /\ ~opt.mount /\ ~opt.early ~> (spc = "end" /\ ~pidfile) \/ ~sync \/ Unanswered

\* The last reap does not stop the server for good: no child it could wait
\* for depends on the answers that nobody gives any more, if the umount could
\* be started, and the server did not come here straight from starting the
\* mount, for want of a buffer.
FinalReapReturns ==
    spc = "final" /\ ~(opt.mount /\ opt.nofork) /\ toreap # Mounter ~> spc # "final"

\* "... and potentially umount the filesystem": the server does not go while
\* a umount that it started may still need the device, unless the one signal
\* that the handler was armed for was spent on the death of another child, or
\* a further umount could not be started.
UmountIsServed ==
    spc = "disc" /\ Umounts \cap Alive # {} /\ ~opt.nofork => diedp = "ttl" /\ ~armed
=============================================================================
