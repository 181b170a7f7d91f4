----------------------------- MODULE NbdRequest -----------------------------
(***************************************************************************)
(* One request of the network block device, as nbd_service_requests in     *)
(* imagemount.c serves it: the read buffer, the payload of a write as it   *)
(* comes over the socket, the image, and the reply.                        *)
(*                                                                         *)
(* The socket is a stream of headers and of bytes of payload; the kernel   *)
(* sends a header in one piece.  The image is an array of bytes that the   *)
(* libraries read and write in blocks, each of which may fail.  What the   *)
(* loop does between requests is in NbdService.                            *)
(***************************************************************************)
EXTENDS Integers, Sequences, FiniteSets

CONSTANTS
    BlockSize,  \* svc_blocksize, a power of two: the code masks
    BlockCount, \* svc_blockcount
    InitBuf,    \* READBUF_INITIAL
    MaxQueue,   \* bound on the requests in the socket
    MaxRequests \* bound on the requests that the kernel sends

ASSUME RequestAssumption ==
    /\ BlockSize \in Nat \ {0} /\ BlockCount \in Nat \ {0}
    /\ InitBuf \in Nat \ {0} /\ MaxQueue \in Nat \ {0} /\ MaxRequests \in Nat

VARIABLES
    disk,       \* the bytes of the image, changes included
    readbuf,    \* readbuf and readbuf_size
    stream,     \* what the kernel has sent and the server has not read
    avail,      \* how much of it is there to be read
    sent,       \* requests that the kernel has sent
    closed,     \* has the kernel shut the socket down?
    ttl,        \* timetoleave
    hit,        \* history: a signal has interrupted a payload
    at,         \* where the server is
    req,        \* request
    rembp,      \* rembp, as an index into readbuf
    remlen,     \* remlen
    error,      \* error
    reply       \* the last reply, and whether all of it was written

qvars  == <<disk, readbuf, stream, avail, sent, closed, ttl, hit, at, req, rembp, remlen, error, reply>>
socket == <<stream, avail, sent, closed>>

Bytes  == 0 .. BlockSize * BlockCount - 1
Old(o) == [byte |-> "old", of |-> o]
New(o) == [byte |-> "new", of |-> o]
Junk   == [byte |-> "junk", of |-> 0]

\* A byte of payload, as against the header of a request.
IsByte(x) == "cmd" \notin DOMAIN x
NoReq     == [cmd |-> "none", off |-> 0, len |-> 0]
NoReply   == [req |-> NoReq, error |-> "ok", data |-> <<>>, whole |-> TRUE]

-----------------------------------------------------------------------------
(* startblock, sboffs, eboffs, blockcount                                  *)

startblock(r) == r.off \div BlockSize
sboffs(r)     == r.off % BlockSize
endblock(r)   == (r.off + r.len - 1) \div BlockSize
eboffs(r)     == (r.off + r.len - 1) % BlockSize
blockcount(r) == endblock(r) - startblock(r) + 1

Blank(n) == [i \in 0 .. n - 1 |-> Junk]
Fits(i, n) == i >= 0 /\ i + n - 1 \in DOMAIN readbuf

\* n bytes of f from index j on, put into g from index i on.
Put(g, i, f, j, n) == [k \in DOMAIN g |-> IF k \in i .. i + n - 1 THEN f[j + k - i] ELSE g[k]]

Init ==
    /\ disk = [o \in Bytes |-> Old(o)] /\ readbuf = Blank(InitBuf)
    /\ stream = <<>> /\ avail = 0 /\ sent = 0 /\ closed = FALSE /\ ttl = 0 /\ hit = FALSE
    /\ at = "idle" /\ req = NoReq /\ rembp = 0 /\ remlen = 0 /\ error = "ok" /\ reply = NoReply

-----------------------------------------------------------------------------
(* The kernel                                                              *)

Ranges   == {p \in Bytes \X (1 .. BlockSize * BlockCount) : p[1] + p[2] <= BlockSize * BlockCount}
Requests == {[cmd |-> c, off |-> p[1], len |-> p[2]] : c \in {"read", "write", "other"}, p \in Ranges}
            \cup {[cmd |-> c, off |-> 0, len |-> 0] : c \in {"disc", "other"}}

Payload(r) == IF r.cmd = "write" THEN [i \in 1 .. r.len |-> New(r.off + i - 1)] ELSE <<>>
Headers    == {i \in DOMAIN stream : ~IsByte(stream[i])}

Send(r) ==
    /\ ~closed /\ Cardinality(Headers) < MaxQueue /\ sent < MaxRequests
    /\ \A i \in Headers : stream[i].cmd # "disc"
    /\ stream' = stream \o <<r>> \o Payload(r) /\ sent' = sent + 1
    /\ UNCHANGED <<disk, readbuf, avail, closed, ttl, hit, at, req, rembp, remlen, error, reply>>

Deliver ==
    /\ \E n \in avail + 1 .. Len(stream) : avail' = n
    /\ UNCHANGED <<disk, readbuf, stream, sent, closed, ttl, hit, at, req, rembp, remlen, error, reply>>

\* The kernel gives up on the device: what it has not sent never comes.
Shut ==
    /\ ~closed /\ closed' = TRUE /\ stream' = SubSeq(stream, 1, avail)
    /\ UNCHANGED <<disk, readbuf, avail, sent, ttl, hit, at, req, rembp, remlen, error, reply>>

-----------------------------------------------------------------------------
(* nbd_service_requests, one request                                       *)

\* A header, or what is taken for one: the magic is wrong and the next reads
\* are as lost as this one.
read_header ==
    /\ at = "idle" /\ avail > 0
    /\ stream' = Tail(stream) /\ avail' = avail - 1
    /\ IF IsByte(Head(stream)) THEN at' = "lost" /\ UNCHANGED <<req, reply>>
       ELSE at' = "grow" /\ req' = Head(stream) /\ reply' = NoReply
    /\ UNCHANGED <<disk, readbuf, sent, closed, ttl, hit, rembp, remlen, error>>

\* Mutant: as many bytes as the request has.
Required_Length(r) == r.len

\* req_readbuf, for a request that spans blocks.
Required(r) == blockcount(r) * BlockSize

\* The last byte of an empty request at offset 0 is the one before: it
\* spans all there is.
NoMemory(r) == r.off = 0 /\ r.len = 0

\* "Calculate the required read buffer and adjust if necessary": a request
\* within a block leaves the buffer as it is.  malloc is called until it has
\* the memory, or given up if that is more than there can be.
grow_buffer ==
    /\ at = "grow" /\ at' = req.cmd
    /\ IF NoMemory(req) THEN ttl' = 1 /\ error' = "ENOMEM" ELSE UNCHANGED <<ttl, error>>
    /\ readbuf' = IF endblock(req) > startblock(req) /\ Required(req) > Cardinality(DOMAIN readbuf)
                  THEN Blank(Required(req)) ELSE readbuf
    /\ UNCHANGED <<disk, socket, hit, req, rembp, remlen, reply>>

\* image_seek and image_readblocks of n blocks from block b on into the
\* buffer at index i, the first k of them if that fails.
ReadBlocks(b, n, i, next) ==
    IF ~Fits(i, n * BlockSize) THEN at' = "overrun" /\ UNCHANGED <<readbuf, error>>
    ELSE \E k \in 0 .. n :
            /\ readbuf' = Put(readbuf, i, disk, b * BlockSize, k * BlockSize)
            /\ IF k = n THEN error' = "ok" /\ at' = next ELSE error' = "EIO" /\ at' = "reply"

serve_read ==
    /\ at = "read" /\ ReadBlocks(startblock(req), blockcount(req), 0, "reply")
    /\ UNCHANGED <<disk, socket, ttl, hit, req, rembp, remlen, reply>>

\* "partial leading block write, ech."
prime_lead ==
    /\ at = "write"
    /\ IF sboffs(req) # 0 THEN ReadBlocks(startblock(req), 1, 0, "tail")
       ELSE at' = "tail" /\ error' = "ok" /\ UNCHANGED readbuf
    /\ UNCHANGED <<disk, socket, ttl, hit, req, rembp, remlen, reply>>

\* Mutants: an offset for a length, and the other way round.
PayloadLength_Less(r) == r.len - 1
PayloadLength_More(r) == r.len + 1

\* The bytes that follow the header of a write.
PayloadLength(r) == r.len

\* "partial trailing block write, double ech."
prime_tail ==
    /\ at = "tail" /\ rembp' = 0 /\ remlen' = PayloadLength(req)
    /\ IF eboffs(req) # BlockSize - 1 /\ blockcount(req) # 1
       THEN ReadBlocks(endblock(req), 1, (blockcount(req) - 1) * BlockSize, "payload")
       ELSE at' = "payload" /\ UNCHANGED <<readbuf, error>>
    /\ UNCHANGED <<disk, socket, ttl, hit, req, reply>>

\* Mutant: twice as far.
Advance_Twice(n) == rembp' = rembp + 2 * n

Advance(n) == rembp' = rembp + n

\* A read() of the payload gets n bytes of it, to the start of the buffer
\* and not to sboffs.
read_payload ==
    /\ at = "payload" /\ avail > 0
    /\ \E n \in 1 .. avail :
          /\ n <= remlen
          /\ stream' = SubSeq(stream, n + 1, Len(stream)) /\ avail' = avail - n
          /\ IF Fits(rembp, n) THEN readbuf' = Put(readbuf, rembp, stream, 1, n)
             ELSE UNCHANGED readbuf
          /\ at' = IF ~Fits(rembp, n) THEN "overrun" ELSE IF n = remlen THEN "store" ELSE at
          /\ remlen' = remlen - n /\ Advance(n)
    /\ UNCHANGED <<disk, sent, closed, ttl, hit, req, error, reply>>

\* k blocks of the buffer reach the image.
StoreBlocks(k) == disk' = Put(disk, startblock(req) * BlockSize, readbuf, 0, k * BlockSize)

store ==
    /\ at = "store" /\ at' = "reply"
    /\ \E k \in 0 .. blockcount(req) :
          StoreBlocks(k) /\ error' = IF k = blockcount(req) THEN "ok" ELSE "EIO"
    /\ UNCHANGED <<readbuf, socket, ttl, hit, req, rembp, remlen, reply>>

serve_other ==
    /\ at \in {"disc", "other"} /\ at' = "reply"
    /\ IF at = "disc" THEN ttl' = 1 /\ UNCHANGED error ELSE error' = "EINVAL" /\ UNCHANGED ttl
    /\ UNCHANGED <<disk, readbuf, socket, hit, req, rembp, remlen, reply>>

\* Mutant: the data is taken from the start of the buffer.
ReplyData_Start(r) == [i \in 1 .. r.len |-> readbuf[i - 1]]

\* replyappend
ReplyData(r) == [i \in 1 .. r.len |-> readbuf[sboffs(r) + i - 1]]

\* The request is done with: its reply was written, all of it or not.
Replied(data, whole) ==
    /\ at' = "idle" /\ req' = NoReq
    /\ reply' = [req |-> req, error |-> error, data |-> data, whole |-> whole]

\* Nobody reads what is written to a socket that was shut down: SIGPIPE,
\* which has no handler, ends the server.
BrokenPipe == closed /\ at' = "killed" /\ UNCHANGED <<req, reply>>

\* write() of the reply.  The data follows the one to a read without error.
send_reply ==
    /\ at = "reply"
    /\ \/ BrokenPipe
       \/ ~closed /\ req.cmd = "read" /\ error = "ok" /\ at' = "data" /\ UNCHANGED <<req, reply>>
       \/ ~closed /\ (req.cmd # "read" \/ error # "ok") /\ Replied(<<>>, TRUE)
    /\ UNCHANGED <<disk, readbuf, socket, ttl, hit, rembp, remlen, error>>

\* write() of the data.
send_data ==
    /\ at = "data"
    /\ \/ BrokenPipe
       \/ ~closed /\ Replied(ReplyData(req), TRUE)
    /\ UNCHANGED <<disk, readbuf, socket, ttl, hit, rembp, remlen, error>>

\* A signal interrupts one of them.  If some was written, write() returns how
\* much, and the rest is not written; if not, it returns -1, and is called
\* again unless it is time to leave.  Either way the server goes on to the
\* next request.
cut_reply ==
    /\ at \in {"reply", "data"} /\ ~closed /\ ttl' \in {ttl, 1} /\ Replied(<<>>, FALSE)
    /\ \/ UNCHANGED error
       \/ at = "data" /\ ttl' = 1 /\ error' = "EINTR"
    /\ UNCHANGED <<disk, readbuf, socket, hit, rembp, remlen>>

\* read() of the payload sleeps.
Awaiting == at = "payload" /\ avail = 0 /\ ~closed

\* A termination signal; one is sent.
Term ==
    /\ ttl = 0 /\ ttl' = 1 /\ ~Awaiting
    /\ UNCHANGED <<disk, readbuf, socket, at, hit, req, rembp, remlen, error, reply>>

\* One that interrupts that read(): it returns -1, which is not negative in
\* rlength, a size_t, so that one byte more is read, to one byte before.
TermInPayload ==
    /\ ttl = 0 /\ ttl' = 1 /\ Awaiting /\ hit' = TRUE
    /\ remlen' = remlen + 1 /\ rembp' = rembp - 1
    /\ UNCHANGED <<disk, readbuf, socket, at, req, error, reply>>

Leave ==
    /\ at = "idle" /\ ttl = 1 /\ at' = "left"
    /\ UNCHANGED <<disk, readbuf, socket, ttl, hit, req, rembp, remlen, error, reply>>

Server ==
    \/ read_header \/ grow_buffer \/ serve_read
    \/ prime_lead \/ prime_tail \/ read_payload \/ store
    \/ serve_other \/ send_reply \/ send_data

Next ==
    \/ Server \/ cut_reply \/ Leave \/ Term \/ TermInPayload
    \/ \E r \in Requests : Send(r)
    \/ Deliver \/ Shut

\* The server is scheduled, the image's calls return, and the kernel sends
\* what it has begun to send and takes what it is sent; nobody has to send a
\* request.
Fairness == WF_qvars(Server) /\ WF_qvars(Deliver)

Spec == Init /\ [][Next]_qvars /\ Fairness

-----------------------------------------------------------------------------
(* Properties                                                              *)

QTypeOK ==
    /\ DOMAIN disk = Bytes /\ avail \in 0 .. Len(stream) /\ ttl \in {0, 1}
    /\ at \in {"idle", "grow", "read", "write", "tail", "payload", "store", "disc", "other",
               "reply", "data", "lost", "overrun", "left", "killed"}
    /\ req \in Requests \cup {NoReq} /\ rembp \in -1 .. BlockSize * BlockCount
    /\ remlen \in 0 .. BlockSize * BlockCount + 1 /\ error \in {"ok", "EIO", "EINVAL", "ENOMEM", "EINTR"}

\* No request of any shape reaches outside of the read buffer, if a block
\* fits in what it is at first and no signal interrupts a payload.
BufferInBounds == at = "overrun" => hit

\* However the payload of a write comes in pieces, what goes to the image
\* starts with all of it, in order, if no signal interrupts it.
StoresOwnPayload ==
    at = "store" /\ ~hit => \A i \in 0 .. req.len - 1 : readbuf[i] = New(req.off + i)

\* As long as no signal interrupts a payload, the server reads a header where
\* one is, unless the request before was a write of parts of blocks
\* whose priming read failed: that leaves its payload in the socket.
StaysInSync ==
    ~hit /\ at = "idle" /\ stream # <<>> /\ IsByte(Head(stream)) =>
        /\ reply.req.cmd = "write" /\ reply.error = "EIO"
        /\ sboffs(reply.req) # 0 \/ eboffs(reply.req) # BlockSize - 1

\* The request path implements the block device of BlockDevice.
D == INSTANCE BlockDevice WITH content <- disk, cur <- req, answer <- reply, spoilt <- hit
ImplementsDevice == D!DSpec

\* Every request that was begun is answered in whole, unless the socket is
\* shut down under it, or a signal interrupts its payload or its reply.
Serving  == at \notin {"idle", "lost", "left", "killed"}
Answered == at = "idle" /\ reply.whole
Cut      == at = "idle" /\ ~reply.whole
RequestIsAnswered == Serving ~> Answered \/ Cut \/ closed \/ hit
=============================================================================
