-------------------------- MODULE NbdRequestProofs --------------------------
(***************************************************************************)
(* Proofs about the request path of imagemount, for every block size,      *)
(* every number of blocks, every first size of the buffer, and any number  *)
(* of requests in the socket.                                              *)
(***************************************************************************)
EXTENDS NbdRequest, SequenceTheorems, FiniteSetTheorems, TLAPS

-----------------------------------------------------------------------------
(* The inductive invariants                                                *)

\* The bytes of payload that can be in the socket, and how many follow a
\* header.
Sent    == {New(o) : o \in Bytes}
Owes(r) == IF r.cmd = "write" THEN r.len ELSE 0

\* The request that is being served is the one that the steps are for.
ServesOwnRequest ==
    /\ at \in {"idle", "lost", "left"} => req = NoReq
    /\ at \notin {"idle", "lost", "left"} => req \in Requests
    /\ at \in {"read", "disc", "other"} => req.cmd = at
    /\ at = "data" => req.cmd = "read"
    /\ at \in {"write", "tail", "payload", "store"} => req.cmd = "write"

\* What was read of a payload and what is left make up the payload; a signal
\* moves one byte from the one to the other, once.
PayloadAddsUp ==
    /\ at = "payload" => remlen >= 1 /\ rembp + remlen = req.len
    /\ at = "store" => rembp = req.len
    /\ hit => ttl = 1
    /\ ~hit => rembp >= 0

\* The read buffer is an array of some size.
BufferIs(n) == DOMAIN readbuf = 0 .. n - 1

RequestInv ==
    /\ QTypeOK /\ stream \in Seq(Requests \cup Sent) /\ \E n \in Nat \ {0} : BufferIs(n)
    /\ ServesOwnRequest /\ PayloadAddsUp

\* The blocks of a request fit in the buffer, from grow_buffer on.
Span(r) == blockcount(r) * BlockSize
BufferFits ==
    \E n \in Nat \ {0} :
        /\ BufferIs(n) /\ n >= BlockSize
        /\ at \in {"read", "write", "tail", "payload", "store"} => n >= Span(req)

BoundsInv == RequestInv /\ BufferFits /\ BufferInBounds

\* The stream s starts with k bytes of a payload, which go to offset o and on;
\* the payload of each header follows it, and there are no other bytes.  It
\* may have been cut off, if the socket was shut down.
Parses(s, o, k, cut) ==
    /\ \A i \in 1 .. Len(s) : i <= k => s[i] = New(o + i - 1)
    /\ \A j \in 1 .. Len(s) : ~IsByte(s[j]) =>
          \A i \in 1 .. Owes(s[j]) : j + i <= Len(s) => s[j + i] = New(s[j].off + i - 1)
    /\ \A i \in 1 .. Len(s) : IsByte(s[i]) =>
          i <= k \/ \E j \in 1 .. i - 1 : ~IsByte(s[j]) /\ i <= j + Owes(s[j])
    /\ ~cut =>
          /\ k <= Len(s)
          /\ \A j \in 1 .. Len(s) : ~IsByte(s[j]) => j + Owes(s[j]) <= Len(s)

\* The payload of a write of parts of blocks whose priming read failed is not
\* read.
Unread(r, e) == r.cmd = "write" /\ e = "EIO" /\ (sboffs(r) # 0 \/ eboffs(r) # BlockSize - 1)

InSync ==
    /\ at \in {"grow", "read", "write", "tail", "disc", "other"} =>
          Parses(stream, req.off, Owes(req), closed)
    /\ at = "payload" => Parses(stream, req.off + rembp, remlen, closed)
    /\ at = "store" => Parses(stream, 0, 0, closed)
    /\ at \in {"reply", "data"} =>
          \/ Parses(stream, 0, 0, closed)
          \/ Unread(req, error) /\ Parses(stream, req.off, req.len, closed)
    /\ at = "idle" =>
          \/ Parses(stream, 0, 0, closed)
          \/ Unread(reply.req, reply.error) /\ reply.req.len \in Nat \ {0}
             /\ Parses(stream, reply.req.off, reply.req.len, closed)

\* What was read of the payload is in the buffer.
HoldsPayload ==
    at \in {"payload", "store"} => \A i \in 0 .. rembp - 1 : readbuf[i] = New(req.off + i)

SyncInv == RequestInv /\ (~hit => InSync /\ HoldsPayload)

\* Before a reply: the blocks that were read are in the buffer, and the bytes
\* of whole blocks that were written are in the image.
ReadyToReply ==
    at \in {"reply", "data"} /\ error = "ok" =>
        /\ req.cmd = "read" =>
              \A i \in 0 .. Span(req) - 1 : readbuf[i] = disk[startblock(req) * BlockSize + i]
        /\ req.cmd = "write" /\ D!Aligned(req) /\ ~hit => \A o \in D!Named(req) : disk[o] = New(o)

DeviceInv == SyncInv /\ ReadyToReply

-----------------------------------------------------------------------------
(* Blocks and bytes                                                        *)

LEMMA DivMod ==
    ASSUME NEW n \in Nat, NEW d \in Nat \ {0}
    PROVE  n \div d \in Nat /\ n % d \in 0 .. d - 1 /\ n = (n \div d) * d + (n % d)
  <1>1. n % d \in 0 .. d - 1
    OBVIOUS
  <1>2. n \div d \in Nat
    OBVIOUS
  <1>3. n = d * (n \div d) + (n % d)
    BY <1>1, <1>2
  <1>4. d * (n \div d) = (n \div d) * d
    BY <1>2
  <1>5. QED
    BY <1>1, <1>2, <1>3, <1>4

\* A larger number of blocks has at least a block more of bytes.
LEMMA MoreBlocks ==
    ASSUME NEW p \in Nat, NEW q \in Nat, NEW d \in Nat \ {0}
    PROVE  /\ p * d \in Nat
           /\ q < p => q * d + d <= p * d
           /\ q <= p => q * d <= p * d /\ (p - q) * d = p * d - q * d
           /\ (p + 1) * d = p * d + d
  <1>1. p * d \in Nat
    OBVIOUS
  <1>2. ASSUME q < p PROVE q * d + d <= p * d
    <2>1. p * d = q * d + (p - q) * d
      BY <1>2
    <2>2. (p - q) * d >= d
      BY <1>2
    <2>3. QED
      BY <1>2, <2>1, <2>2
  <1>3. ASSUME q <= p PROVE (p - q) * d = p * d - q * d
    BY <1>3
  <1>4. (p + 1) * d = p * d + d
    OBVIOUS
  <1>5. ASSUME q <= p PROVE q * d <= p * d
    BY <1>2, <1>5
  <1>6. QED
    BY <1>1, <1>2, <1>3, <1>4, <1>5

\* A number has one quotient.
LEMMA DivUnique ==
    ASSUME NEW n \in Nat, NEW d \in Nat \ {0}, NEW p \in Nat, p * d <= n, n < p * d + d
    PROVE  n \div d = p
  <1> DEFINE q == n \div d
  <1>1. q \in Nat /\ q * d <= n /\ n < q * d + d
    BY DivMod
  <1> HIDE DEF q
  <1>2. ~(p < q)
    BY <1>1, MoreBlocks
  <1>3. ~(q < p)
    BY <1>1, MoreBlocks
  <1>4. q = p
    BY <1>1, <1>2, <1>3
  <1>5. QED
    BY <1>4 DEF q

\* The number of bytes of the device.
Size == BlockSize * BlockCount

LEMMA SizeIsNat == Size \in Nat \ {0} /\ Bytes = 0 .. Size - 1 /\ Size = BlockCount * BlockSize
  <1>1. Size \in Nat /\ Size = BlockCount * BlockSize
    BY RequestAssumption DEF Size
  <1>2. Size # 0
    BY RequestAssumption DEF Size
  <1>3. QED
    BY <1>1, <1>2 DEF Size, Bytes

\* The first byte of the first block of a request.
First(r) == startblock(r) * BlockSize

\* Where the blocks of a request are, which the code finds by masks and
\* shifts: they hold its bytes, and are blocks of the device.
LEMMA BlocksOfRequest ==
    ASSUME NEW r, r.off \in Nat, r.len \in Nat \ {0}, r.off + r.len <= Size
    PROVE  /\ startblock(r) \in Nat /\ endblock(r) \in Nat /\ startblock(r) <= endblock(r)
           /\ blockcount(r) \in Nat \ {0}
           /\ sboffs(r) \in 0 .. BlockSize - 1 /\ eboffs(r) \in 0 .. BlockSize - 1
           /\ First(r) \in Nat /\ Span(r) \in Nat /\ endblock(r) * BlockSize \in Nat
           /\ r.off = First(r) + sboffs(r)
           /\ r.off + r.len - 1 = endblock(r) * BlockSize + eboffs(r)
           /\ Span(r) = endblock(r) * BlockSize - First(r) + BlockSize
           /\ (blockcount(r) - 1) * BlockSize = endblock(r) * BlockSize - First(r)
           /\ First(r) + Span(r) <= Size
           /\ sboffs(r) + r.len <= Span(r) /\ r.len <= Span(r)
  <1> DEFINE s == startblock(r)
             e == endblock(r)
             z == r.off + r.len - 1
             c == blockcount(r)
  <1>0. z \in Nat /\ r.off <= z /\ z < Size /\ Size \in Nat /\ BlockSize \in Nat \ {0} /\ BlockCount \in Nat \ {0}
    BY SizeIsNat, RequestAssumption
  <1>1. s \in Nat /\ sboffs(r) \in 0 .. BlockSize - 1 /\ r.off = s * BlockSize + sboffs(r)
    BY <1>0, DivMod DEF startblock, sboffs
  <1>2. e \in Nat /\ eboffs(r) \in 0 .. BlockSize - 1 /\ z = e * BlockSize + eboffs(r)
    BY <1>0, DivMod DEF endblock, eboffs
  <1>3. c = e - s + 1
    BY DEF blockcount
  <1>4. Size = BlockCount * BlockSize
    BY SizeIsNat
  <1> HIDE DEF s, e, z, c
  <1>5. s * BlockSize \in Nat /\ e * BlockSize \in Nat
    BY <1>0, <1>1, <1>2, MoreBlocks
  <1>6. s <= e
    <2> SUFFICES ASSUME e < s PROVE FALSE
      BY <1>1, <1>2
    <2>1. e * BlockSize + BlockSize <= s * BlockSize
      BY <1>0, <1>1, <1>2, MoreBlocks
    <2>2. QED
      BY <2>1, <1>0, <1>1, <1>2, <1>5
  <1>7. c \in Nat \ {0} /\ c - 1 = e - s /\ c - 1 \in Nat
    BY <1>1, <1>2, <1>3, <1>6
  <1>8. (c - 1) * BlockSize = e * BlockSize - s * BlockSize
    BY <1>0, <1>1, <1>2, <1>6, <1>7, MoreBlocks
  <1>9. c * BlockSize = (c - 1) * BlockSize + BlockSize
    <2>1. (c - 1 + 1) * BlockSize = (c - 1) * BlockSize + BlockSize
      BY <1>0, <1>7, MoreBlocks
    <2>2. c - 1 + 1 = c
      BY <1>7
    <2>3. QED
      BY <2>1, <2>2
  <1>10. e < BlockCount
    <2> SUFFICES ASSUME BlockCount <= e PROVE FALSE
      BY <1>0, <1>2
    <2>1. BlockCount * BlockSize <= e * BlockSize
      BY <1>0, <1>2, MoreBlocks
    <2>2. QED
      BY <2>1, <1>0, <1>2, <1>4, <1>5
  <1>11. e * BlockSize + BlockSize <= Size
    BY <1>0, <1>2, <1>4, <1>10, MoreBlocks
  <1>12. First(r) = s * BlockSize /\ Span(r) = c * BlockSize
    BY DEF First, Span, s, c
  <1>13. Span(r) = e * BlockSize - s * BlockSize + BlockSize /\ Span(r) \in Nat
         /\ First(r) + Span(r) <= Size
    BY <1>0, <1>5, <1>8, <1>9, <1>11, <1>12, <1>6, MoreBlocks, <1>1, <1>2
  <1>14. sboffs(r) + r.len <= Span(r) /\ r.len <= Span(r)
    <2>1. r.off + r.len - 1 = e * BlockSize + eboffs(r) /\ r.off = s * BlockSize + sboffs(r)
      BY <1>1, <1>2 DEF z
    <2>2. QED
      BY <1>0, <1>1, <1>2, <1>5, <1>13, <2>1
  <1>15. QED
    BY <1>1, <1>2, <1>5, <1>6, <1>7, <1>8, <1>12, <1>13, <1>14 DEF s, e, z, c

-----------------------------------------------------------------------------
(* Requests                                                                *)

LEMMA RequestFacts ==
    ASSUME NEW r \in Requests
    PROVE  /\ r.cmd \in {"read", "write", "disc", "other"} /\ r.off \in Nat /\ r.len \in Nat
           /\ r.cmd \in {"read", "write"} => r.len \in Nat \ {0}
           /\ r.len = 0 => r.off = 0
           /\ r.off + r.len <= Size /\ ~IsByte(r) /\ r # NoReq /\ Owes(r) \in Nat
           /\ r.cmd = "write" => Owes(r) = r.len
           /\ r.cmd # "write" => Owes(r) = 0
  <1>0. Size \in Nat \ {0} /\ Bytes = 0 .. Size - 1
    BY SizeIsNat
  <1>1. CASE \E c \in {"read", "write", "other"}, p \in Ranges : r = [cmd |-> c, off |-> p[1], len |-> p[2]]
    <2>1. PICK c \in {"read", "write", "other"}, p \in Ranges : r = [cmd |-> c, off |-> p[1], len |-> p[2]]
      BY <1>1
    <2>2. p[1] \in Bytes /\ p[2] \in 1 .. Size /\ p[1] + p[2] <= Size
      BY DEF Ranges, Size
    <2>3. QED
      BY <1>0, <2>1, <2>2 DEF IsByte, NoReq, Owes
  <1>2. CASE \E c \in {"disc", "other"} : r = [cmd |-> c, off |-> 0, len |-> 0]
    BY <1>0, <1>2 DEF IsByte, NoReq, Owes
  <1>3. QED
    BY <1>1, <1>2 DEF Requests

\* A request without a range is none for a larger buffer.
LEMMA EmptyRequests ==
    ASSUME NEW r \in Requests, r.len = 0
    PROVE  ~(endblock(r) > startblock(r))
  <1>1. r.off = 0
    BY RequestFacts
  <1>2. startblock(r) = 0 /\ endblock(r) = -1
    BY <1>1, RequestAssumption DEF startblock, endblock
  <1>3. QED
    BY <1>2

\* The blocks of a request that has a range, as a read or a write does.
LEMMA BlocksOfTransfer ==
    ASSUME NEW r \in Requests, r.cmd \in {"read", "write"} \/ r.len # 0
    PROVE  /\ r.off \in Nat /\ r.len \in Nat \ {0} /\ r.off + r.len <= Size
           /\ startblock(r) \in Nat /\ endblock(r) \in Nat /\ startblock(r) <= endblock(r)
           /\ blockcount(r) \in Nat \ {0}
           /\ sboffs(r) \in 0 .. BlockSize - 1 /\ eboffs(r) \in 0 .. BlockSize - 1
           /\ First(r) \in Nat /\ Span(r) \in Nat /\ endblock(r) * BlockSize \in Nat
           /\ r.off = First(r) + sboffs(r)
           /\ r.off + r.len - 1 = endblock(r) * BlockSize + eboffs(r)
           /\ Span(r) = endblock(r) * BlockSize - First(r) + BlockSize
           /\ (blockcount(r) - 1) * BlockSize = endblock(r) * BlockSize - First(r)
           /\ First(r) + Span(r) <= Size
           /\ sboffs(r) + r.len <= Span(r) /\ r.len <= Span(r)
  BY RequestFacts, BlocksOfRequest

LEMMA SentAreBytes ==
    /\ \A o : IsByte(New(o))
    /\ \A x \in Requests \cup Sent : IsByte(x) <=> x \in Sent
    /\ \A x \in Requests \cup Sent : ~IsByte(x) => x \in Requests
  <1>1. \A o : IsByte(New(o))
    BY DEF IsByte, New
  <1>2. QED
    BY <1>1, RequestFacts DEF Sent

-----------------------------------------------------------------------------
(* The stream and the buffer                                               *)

LEMMA PayloadIsSent ==
    ASSUME NEW r \in Requests
    PROVE  /\ Payload(r) \in Seq(Requests \cup Sent) /\ Len(Payload(r)) = Owes(r)
           /\ \A i \in 1 .. Owes(r) : Payload(r)[i] = New(r.off + i - 1)
  <1>1. CASE r.cmd = "write"
    <2>1. r.len \in Nat /\ Owes(r) = r.len /\ r.off \in Nat /\ r.off + r.len <= Size
      BY <1>1, RequestFacts
    <2>2. \A i \in 1 .. r.len : New(r.off + i - 1) \in Requests \cup Sent
      BY <2>1, SizeIsNat DEF Sent
    <2>3. Payload(r) = [i \in 1 .. r.len |-> New(r.off + i - 1)]
      BY <1>1 DEF Payload
    <2>4. Payload(r) \in Seq(Requests \cup Sent) /\ Len(Payload(r)) = r.len
      BY <2>1, <2>2, <2>3
    <2>5. QED
      BY <2>1, <2>3, <2>4
  <1>2. CASE r.cmd # "write"
    BY <1>2, RequestFacts DEF Payload
  <1>3. QED
    BY <1>1, <1>2

LEMMA Concatenated ==
    ASSUME NEW S, NEW u \in Seq(S), NEW p \in Seq(S)
    PROVE  /\ u \o p \in Seq(S) /\ Len(u \o p) = Len(u) + Len(p)
           /\ \A i \in 1 .. Len(u) : (u \o p)[i] = u[i]
           /\ \A i \in 1 .. Len(p) : (u \o p)[Len(u) + i] = p[i]
  <1>1. /\ u \o p \in Seq(S) /\ Len(u \o p) = Len(u) + Len(p) /\ Len(u) \in Nat /\ Len(p) \in Nat
        /\ \A i \in 1 .. Len(u) + Len(p) : (u \o p)[i] = IF i <= Len(u) THEN u[i] ELSE p[i - Len(u)]
    BY ConcatProperties, LenProperties
  <1> DEFINE t == u \o p
             m == Len(u)
             n == Len(p)
  <1>2. /\ m \in Nat /\ n \in Nat
        /\ \A i \in 1 .. m + n : t[i] = IF i <= m THEN u[i] ELSE p[i - m]
    BY <1>1
  <1> HIDE DEF t, m, n
  <1>3. ASSUME NEW i \in 1 .. n PROVE t[m + i] = p[i]
    <2>1. m + i \in 1 .. m + n /\ ~(m + i <= m) /\ m + i - m = i
      BY <1>2
    <2>2. QED
      BY <1>2, <2>1
  <1>4. \A i \in 1 .. m : t[i] = u[i]
    BY <1>2
  <1>5. QED
    BY <1>1, <1>3, <1>4 DEF t, m, n

\* A request is put to the end of the stream, its payload after it.
LEMMA StreamSend ==
    ASSUME NEW s \in Seq(Requests \cup Sent), NEW r \in Requests
    PROVE  /\ s \o <<r>> \o Payload(r) \in Seq(Requests \cup Sent)
           /\ Len(s \o <<r>> \o Payload(r)) = Len(s) + 1 + Owes(r) /\ Len(s) \in Nat
           /\ \A i \in 1 .. Len(s) : (s \o <<r>> \o Payload(r))[i] = s[i]
           /\ (s \o <<r>> \o Payload(r))[Len(s) + 1] = r
           /\ \A i \in 1 .. Owes(r) : (s \o <<r>> \o Payload(r))[Len(s) + 1 + i] = New(r.off + i - 1)
  <1> DEFINE X == Requests \cup Sent
             P == Payload(r)
             u == s \o <<r>>
             t == u \o P
  <1>1. P \in Seq(X) /\ Len(P) = Owes(r) /\ Owes(r) \in Nat
        /\ \A i \in 1 .. Owes(r) : P[i] = New(r.off + i - 1)
    BY PayloadIsSent, RequestFacts
  <1>2. u \in Seq(X) /\ Len(u) = Len(s) + 1 /\ Len(s) \in Nat
        /\ (\A i \in 1 .. Len(s) : u[i] = s[i]) /\ u[Len(s) + 1] = r
    OBVIOUS
  <1> HIDE DEF P, u, X
  <1>3. /\ t \in Seq(X) /\ Len(t) = Len(u) + Len(P)
        /\ \A i \in 1 .. Len(u) : t[i] = u[i]
        /\ \A i \in 1 .. Len(P) : t[Len(u) + i] = P[i]
    <2>1. P \in Seq(X) /\ u \in Seq(X)
      BY <1>1, <1>2
    <2>2. QED
      BY <2>1, Concatenated
  <1> HIDE DEF t
  <1>4. /\ t \in Seq(X) /\ Len(t) = Len(s) + 1 + Owes(r) /\ Len(s) \in Nat
        /\ \A i \in 1 .. Len(s) : t[i] = s[i]
        /\ t[Len(s) + 1] = r
        /\ \A i \in 1 .. Owes(r) : t[Len(s) + 1 + i] = New(r.off + i - 1)
    BY <1>1, <1>2, <1>3
  <1>5. QED
    BY <1>4 DEF t, u, P, X

\* The first n elements are taken off the stream.
LEMMA StreamDrop ==
    ASSUME NEW s \in Seq(Requests \cup Sent), NEW n \in 0 .. Len(s)
    PROVE  /\ SubSeq(s, n + 1, Len(s)) \in Seq(Requests \cup Sent)
           /\ Len(SubSeq(s, n + 1, Len(s))) = Len(s) - n
           /\ \A i \in 1 .. Len(s) - n : SubSeq(s, n + 1, Len(s))[i] = s[i + n]
  <1>1. Len(s) \in Nat /\ n \in Nat /\ n <= Len(s)
    OBVIOUS
  <1> DEFINE t == SubSeq(s, n + 1, Len(s))
  <1>2. Len(t) = Len(s) - n /\ \A i \in 1 .. Len(t) : t[i] = s[n + 1 + i - 1]
    BY <1>1, SubSeqProperties
  <1>3. t \in Seq(Requests \cup Sent)
    BY <1>1, SubSeqProperties
  <1>4. QED
    BY <1>1, <1>2, <1>3

LEMMA StreamTail ==
    ASSUME NEW s \in Seq(Requests \cup Sent), Len(s) > 0
    PROVE  /\ Tail(s) \in Seq(Requests \cup Sent) /\ Len(Tail(s)) = Len(s) - 1
           /\ \A i \in 1 .. Len(s) - 1 : Tail(s)[i] = s[i + 1]
           /\ Head(s) = s[1] /\ s[1] \in Requests \cup Sent
  OBVIOUS

\* The stream is cut off behind the first a elements.
LEMMA StreamCut ==
    ASSUME NEW s \in Seq(Requests \cup Sent), NEW a \in 0 .. Len(s)
    PROVE  /\ SubSeq(s, 1, a) \in Seq(Requests \cup Sent) /\ Len(SubSeq(s, 1, a)) = a
           /\ \A i \in 1 .. a : SubSeq(s, 1, a)[i] = s[i]
  <1>1. Len(s) \in Nat /\ a \in Nat /\ a <= Len(s)
    OBVIOUS
  <1>2. QED
    BY <1>1, SubSeqProperties

\* Reads fill the buffer, or part of it, and do not change its size.
LEMMA ReadBlocksKeeps ==
    ASSUME NEW b, NEW n, NEW i, NEW next \in {"tail", "payload", "reply"}, ReadBlocks(b, n, i, next)
    PROVE  /\ DOMAIN readbuf' = DOMAIN readbuf
           /\ at' \in {"overrun", next, "reply"}
           /\ error' \in {error, "ok", "EIO"}
           /\ at' = "overrun" <=> ~Fits(i, n * BlockSize)
           /\ at' = "reply" /\ next # "reply" => error' = "EIO"
           /\ at' = "reply" => error' = "EIO" \/
                 readbuf' = Put(readbuf, i, disk, b * BlockSize, n * BlockSize)
  <1>1. CASE ~Fits(i, n * BlockSize)
    BY <1>1 DEF ReadBlocks
  <1>2. CASE Fits(i, n * BlockSize)
    <2>1. PICK k \in 0 .. n :
            /\ readbuf' = Put(readbuf, i, disk, b * BlockSize, k * BlockSize)
            /\ IF k = n THEN error' = "ok" /\ at' = next ELSE error' = "EIO" /\ at' = "reply"
      BY <1>2 DEF ReadBlocks
    <2>2. DOMAIN readbuf' = DOMAIN readbuf
      BY <2>1 DEF Put
    <2>3. CASE k = n
      BY <1>2, <2>1, <2>2, <2>3
    <2>4. CASE k # n
      BY <1>2, <2>1, <2>2, <2>4
    <2>5. QED
      BY <2>3, <2>4
  <1>3. QED
    BY <1>1, <1>2

-----------------------------------------------------------------------------
(* Type correctness                                                        *)

LEMMA RequestInit == Init => RequestInv
  <1> SUFFICES ASSUME Init PROVE RequestInv
    OBVIOUS
  <1>1. Size \in Nat \ {0} /\ Bytes = 0 .. Size - 1 /\ Size = BlockSize * BlockCount
    BY SizeIsNat DEF Size
  <1>2. QTypeOK
    BY <1>1 DEF Init, QTypeOK, NoReq, Size
  <1>3. BufferIs(InitBuf) /\ InitBuf \in Nat \ {0}
    BY RequestAssumption DEF Init, BufferIs, Blank
  <1>4. stream \in Seq(Requests \cup Sent) /\ ServesOwnRequest /\ PayloadAddsUp
    BY DEF Init, ServesOwnRequest, PayloadAddsUp
  <1>5. QED
    BY <1>2, <1>3, <1>4 DEF RequestInv

\* What the writes of a reply do, whether or not a signal interrupts them.
LEMMA ReplySteps ==
    ASSUME send_reply \/ send_data \/ cut_reply
    PROVE  /\ at \in {"reply", "data"} /\ ttl' \in {ttl, 1} /\ error' \in {error, "EINTR"}
           /\ UNCHANGED <<disk, readbuf, stream, avail, closed, hit, rembp, remlen>>
           /\ \/ /\ at' = "idle" /\ req' = NoReq /\ reply'.req = req /\ reply'.error = error
                 /\ reply'.whole /\ req.cmd = "read" /\ error = "ok" => reply'.data = ReplyData(req)
              \/ at' = "killed" /\ UNCHANGED <<req, reply>>
              \/ at' = "data" /\ UNCHANGED <<req, reply, error>> /\ req.cmd = "read" /\ error = "ok"
  BY DEF send_reply, send_data, cut_reply, Replied, BrokenPipe, socket

\* A step that leaves the stream, and the buffer's size, as they are.
LEMMA QuietStep ==
    ASSUME RequestInv, stream' \in Seq(Requests \cup Sent), DOMAIN readbuf' = DOMAIN readbuf,
           QTypeOK', ServesOwnRequest', PayloadAddsUp'
    PROVE  RequestInv'
  BY DEF RequestInv, BufferIs

LEMMA RequestStep ==
    ASSUME RequestInv, [Next]_qvars
    PROVE  RequestInv'
  <1>0. Size \in Nat \ {0} /\ Bytes = 0 .. Size - 1 /\ Size = BlockSize * BlockCount
        /\ BlockSize \in Nat \ {0} /\ BlockCount \in Nat \ {0}
    BY SizeIsNat, RequestAssumption DEF Size
  <1>t. /\ QTypeOK /\ stream \in Seq(Requests \cup Sent) /\ Len(stream) \in Nat
        /\ ServesOwnRequest /\ PayloadAddsUp
    BY DEF RequestInv
  <1> DEFINE Others == UNCHANGED <<disk, readbuf, ttl, hit, at, req, rembp, remlen, error>>
  <1>a. ASSUME NEW r \in Requests, Send(r) PROVE RequestInv'
    <2>1. stream' \in Seq(Requests \cup Sent) /\ Len(stream') = Len(stream) + 1 + Owes(r)
          /\ Owes(r) \in Nat
      <3>1. stream' = stream \o <<r>> \o Payload(r)
        BY <1>a DEF Send
      <3>2. /\ stream \o <<r>> \o Payload(r) \in Seq(Requests \cup Sent)
            /\ Len(stream \o <<r>> \o Payload(r)) = Len(stream) + 1 + Owes(r)
        BY <1>t, StreamSend
      <3>3. QED
        BY <3>1, <3>2, RequestFacts
    <2>2. Others /\ avail' = avail
      BY <1>a DEF Send
    <2>3. QTypeOK'
      BY <1>t, <2>1, <2>2 DEF QTypeOK
    <2>4. ServesOwnRequest' /\ PayloadAddsUp'
      BY <1>t, <2>2 DEF ServesOwnRequest, PayloadAddsUp
    <2>5. QED
      BY <2>1, <2>2, <2>3, <2>4, QuietStep
  <1>b. CASE Deliver
    <2>1. Others /\ stream' = stream /\ avail' \in 0 .. Len(stream)
      BY <1>b, <1>t DEF Deliver, QTypeOK
    <2>2. QTypeOK'
      BY <1>t, <2>1 DEF QTypeOK
    <2>3. ServesOwnRequest' /\ PayloadAddsUp'
      BY <1>t, <2>1 DEF ServesOwnRequest, PayloadAddsUp
    <2>4. QED
      BY <1>t, <2>1, <2>2, <2>3, QuietStep
  <1>c. CASE Shut
    <2>1. Others /\ avail' = avail /\ avail \in 0 .. Len(stream)
          /\ stream' = SubSeq(stream, 1, avail)
      BY <1>c, <1>t DEF Shut, QTypeOK
    <2>2. stream' \in Seq(Requests \cup Sent) /\ Len(stream') = avail
      BY <1>t, <2>1, StreamCut
    <2>3. QTypeOK'
      BY <1>t, <2>1, <2>2 DEF QTypeOK
    <2>4. ServesOwnRequest' /\ PayloadAddsUp'
      BY <1>t, <2>1 DEF ServesOwnRequest, PayloadAddsUp
    <2>5. QED
      BY <2>1, <2>2, <2>3, <2>4, QuietStep
  <1>d. CASE read_header
    <2>1. Len(stream) > 0 /\ avail > 0 /\ avail \in 0 .. Len(stream)
      BY <1>d, <1>t DEF read_header, QTypeOK
    <2>2. /\ stream' \in Seq(Requests \cup Sent) /\ Len(stream') = Len(stream) - 1
          /\ Head(stream) \in Requests \cup Sent
      BY <1>d, <1>t, <2>1, StreamTail DEF read_header
    <2>3. /\ UNCHANGED <<disk, readbuf, ttl, hit, rembp, remlen, error>>
          /\ avail' \in 0 .. Len(stream')
      BY <1>d, <2>1, <2>2 DEF read_header
    <2>4. (at' = "lost" /\ req' = NoReq) \/ (at' = "grow" /\ req' \in Requests)
      BY <1>d, <1>t, <2>2, SentAreBytes DEF read_header, ServesOwnRequest
    <2>5. QTypeOK'
      BY <1>t, <2>3, <2>4 DEF QTypeOK
    <2>6. ServesOwnRequest' /\ PayloadAddsUp'
      BY <1>t, <2>3, <2>4 DEF ServesOwnRequest, PayloadAddsUp
    <2>7. QED
      BY <2>2, <2>3, <2>5, <2>6, QuietStep
  <1>e. CASE grow_buffer
    <2>1. req \in Requests /\ at' = req.cmd /\ req.cmd \in {"read", "write", "disc", "other"}
      BY <1>e, <1>t, RequestFacts DEF grow_buffer, ServesOwnRequest
    <2>2. /\ UNCHANGED <<disk, stream, avail, hit, req, rembp, remlen>>
          /\ ttl' \in {ttl, 1} /\ error' \in {error, "ENOMEM"}
      BY <1>e DEF grow_buffer, socket
    <2>3. QTypeOK'
      BY <1>t, <2>1, <2>2 DEF QTypeOK
    <2>4. ServesOwnRequest' /\ PayloadAddsUp'
      BY <1>t, <2>1, <2>2 DEF ServesOwnRequest, PayloadAddsUp, QTypeOK
    <2>5. CASE readbuf' = readbuf
      BY <1>t, <2>2, <2>3, <2>4, <2>5, QuietStep
    <2>6. CASE readbuf' # readbuf
      <3>1. readbuf' = Blank(Required(req)) /\ endblock(req) > startblock(req)
        BY <1>e, <2>6 DEF grow_buffer
      <3>2. req.len # 0
        BY <2>1, <3>1, EmptyRequests
      <3>3. blockcount(req) \in Nat \ {0} /\ Span(req) \in Nat
        BY <2>1, <3>2, BlocksOfTransfer
      <3>4. Required(req) = Span(req) /\ Span(req) # 0
        BY <1>0, <3>3 DEF Required, Span
      <3>5. BufferIs(Span(req))' 
        BY <2>2, <3>1, <3>4 DEF BufferIs, Blank, Span, blockcount, startblock, endblock
      <3>6. (\E n \in Nat \ {0} : BufferIs(n))'
        BY <2>2, <3>3, <3>4, <3>5 DEF Span, blockcount, startblock, endblock
      <3>7. QED
        BY <1>t, <2>2, <2>3, <2>4, <3>6 DEF RequestInv
    <2>7. QED
      BY <2>5, <2>6
  <1>f. CASE serve_read
    <2>1. /\ DOMAIN readbuf' = DOMAIN readbuf /\ at' \in {"overrun", "reply"}
          /\ error' \in {error, "ok", "EIO"}
      BY <1>f, ReadBlocksKeeps DEF serve_read
    <2>2. UNCHANGED <<disk, stream, avail, ttl, hit, req, rembp, remlen>>
      BY <1>f DEF serve_read, socket
    <2>3. QTypeOK'
      BY <1>t, <2>1, <2>2 DEF QTypeOK
    <2>4. ServesOwnRequest' /\ PayloadAddsUp'
      BY <1>f, <1>t, <2>1, <2>2 DEF ServesOwnRequest, PayloadAddsUp, serve_read
    <2>5. QED
      BY <1>t, <2>1, <2>2, <2>3, <2>4, QuietStep
  <1>g. CASE prime_lead
    <2>1. /\ DOMAIN readbuf' = DOMAIN readbuf /\ at' \in {"overrun", "tail", "reply"}
          /\ error' \in {error, "ok", "EIO"}
      BY <1>g, ReadBlocksKeeps DEF prime_lead
    <2>2. UNCHANGED <<disk, stream, avail, ttl, hit, req, rembp, remlen>>
      BY <1>g DEF prime_lead, socket
    <2>3. QTypeOK'
      BY <1>t, <2>1, <2>2 DEF QTypeOK
    <2>4. ServesOwnRequest' /\ PayloadAddsUp'
      BY <1>g, <1>t, <2>1, <2>2 DEF ServesOwnRequest, PayloadAddsUp, prime_lead
    <2>5. QED
      BY <1>t, <2>1, <2>2, <2>3, <2>4, QuietStep
  <1>h. CASE prime_tail
    <2>1. /\ DOMAIN readbuf' = DOMAIN readbuf /\ at' \in {"overrun", "payload", "reply"}
          /\ error' \in {error, "ok", "EIO"}
      BY <1>h, ReadBlocksKeeps DEF prime_tail
    <2>2. UNCHANGED <<disk, stream, avail, ttl, hit, req>> /\ rembp' = 0 /\ remlen' = req.len
      BY <1>h DEF prime_tail, socket, PayloadLength
    <2>3. req \in Requests /\ req.cmd = "write" /\ req.len \in Nat \ {0} /\ req.len <= Size
      BY <1>h, <1>t, <1>0, RequestFacts DEF prime_tail, ServesOwnRequest
    <2>4. QTypeOK'
      BY <1>t, <1>0, <2>1, <2>2, <2>3 DEF QTypeOK
    <2>5. ServesOwnRequest' /\ PayloadAddsUp'
      BY <1>t, <2>1, <2>2, <2>3 DEF ServesOwnRequest, PayloadAddsUp
    <2>6. QED
      BY <1>t, <2>1, <2>2, <2>4, <2>5, QuietStep
  <1>i. CASE read_payload
    <2>1. PICK n \in 1 .. avail :
            /\ n <= remlen
            /\ stream' = SubSeq(stream, n + 1, Len(stream)) /\ avail' = avail - n
            /\ IF Fits(rembp, n) THEN readbuf' = Put(readbuf, rembp, stream, 1, n)
               ELSE UNCHANGED readbuf
            /\ at' = IF ~Fits(rembp, n) THEN "overrun" ELSE IF n = remlen THEN "store" ELSE at
            /\ remlen' = remlen - n /\ rembp' = rembp + n
      BY <1>i DEF read_payload, Advance
    <2>2. at = "payload" /\ UNCHANGED <<disk, ttl, hit, req, error>>
      BY <1>i DEF read_payload
    <2>3. avail \in 0 .. Len(stream) /\ n \in Nat /\ remlen \in Nat /\ rembp \in Int
          /\ n \in 0 .. Len(stream)
      BY <1>t, <1>0 DEF QTypeOK
    <2>4. stream' \in Seq(Requests \cup Sent) /\ Len(stream') = Len(stream) - n
      BY <1>t, <2>1, <2>3, StreamDrop
    <2>5. DOMAIN readbuf' = DOMAIN readbuf
      BY <2>1 DEF Put
    <2>6. req \in Requests /\ req.cmd = "write" /\ req.len \in Nat \ {0} /\ req.len <= Size
      BY <2>2, <1>t, <1>0, RequestFacts DEF ServesOwnRequest
    <2>7. rembp + remlen = req.len
      BY <1>t, <2>2 DEF PayloadAddsUp
    <2>8. QTypeOK'
      <3>1. avail' \in 0 .. Len(stream')
        BY <2>1, <2>3, <2>4, <1>t
      <3>2. rembp' \in -1 .. BlockSize * BlockCount /\ remlen' \in 0 .. BlockSize * BlockCount + 1
        BY <1>0, <1>t, <2>1, <2>3, <2>6, <2>7 DEF QTypeOK
      <3>3. at' \in {"payload", "overrun", "store"}
        BY <2>1, <2>2
      <3>4. QED
        BY <1>t, <2>2, <3>1, <3>2, <3>3 DEF QTypeOK
    <2>9. ServesOwnRequest' /\ PayloadAddsUp'
      BY <1>t, <2>1, <2>2, <2>3, <2>6, <2>7 DEF ServesOwnRequest, PayloadAddsUp
    <2>10. QED
      BY <2>4, <2>5, <2>8, <2>9, QuietStep
  <1>j. CASE store
    <2>1. PICK k \in 0 .. blockcount(req) :
            StoreBlocks(k) /\ error' = IF k = blockcount(req) THEN "ok" ELSE "EIO"
      BY <1>j DEF store
    <2>2. at = "store" /\ at' = "reply"
          /\ UNCHANGED <<readbuf, stream, avail, ttl, hit, req, rembp, remlen>>
      BY <1>j DEF store, socket
    <2>3. DOMAIN disk' = DOMAIN disk /\ error' \in {"ok", "EIO"}
      BY <2>1 DEF StoreBlocks, Put
    <2>4. QTypeOK'
      BY <1>t, <2>2, <2>3 DEF QTypeOK
    <2>5. ServesOwnRequest' /\ PayloadAddsUp'
      BY <1>t, <2>2 DEF ServesOwnRequest, PayloadAddsUp
    <2>6. QED
      BY <1>t, <2>2, <2>4, <2>5, QuietStep
  <1>k. CASE serve_other
    <2>1. UNCHANGED <<disk, readbuf, stream, avail, hit, req, rembp, remlen>> /\ at' = "reply"
          /\ ttl' \in {ttl, 1} /\ error' \in {error, "EINVAL"} /\ at \in {"disc", "other"}
      BY <1>k DEF serve_other, socket
    <2>2. QTypeOK'
      BY <1>t, <2>1 DEF QTypeOK
    <2>3. ServesOwnRequest' /\ PayloadAddsUp'
      BY <1>t, <2>1 DEF ServesOwnRequest, PayloadAddsUp, QTypeOK
    <2>4. QED
      BY <1>t, <2>1, <2>2, <2>3, QuietStep
  <1>l. CASE send_reply \/ send_data \/ cut_reply
    <2>1. /\ UNCHANGED <<disk, readbuf, stream, avail, hit, rembp, remlen>>
          /\ at \in {"reply", "data"} /\ ttl' \in {ttl, 1} /\ error' \in {error, "EINTR"}
          /\ \/ at' = "idle" /\ req' = NoReq
             \/ at' = "killed" /\ req' = req
             \/ at' = "data" /\ req' = req /\ req.cmd = "read"
      BY <1>l, ReplySteps
    <2>2. QTypeOK'
      BY <1>t, <2>1 DEF QTypeOK
    <2>3. ServesOwnRequest' /\ PayloadAddsUp'
      BY <1>t, <2>1 DEF ServesOwnRequest, PayloadAddsUp, QTypeOK
    <2>4. QED
      BY <1>t, <2>1, <2>2, <2>3, QuietStep
  <1>m. CASE Leave \/ Term
    <2>1. UNCHANGED <<disk, readbuf, stream, avail, hit, req, rembp, remlen, error>>
          /\ ttl' \in {ttl, 1} /\ (at' = at \/ (at = "idle" /\ at' = "left"))
      BY <1>m DEF Leave, Term, socket
    <2>2. QTypeOK'
      BY <1>t, <2>1 DEF QTypeOK
    <2>3. ServesOwnRequest' /\ PayloadAddsUp'
      BY <1>t, <2>1 DEF ServesOwnRequest, PayloadAddsUp, QTypeOK
    <2>4. QED
      BY <1>t, <2>1, <2>2, <2>3, QuietStep
  <1>n. CASE TermInPayload
    <2>1. UNCHANGED <<disk, readbuf, stream, avail, req, error, at>> /\ ttl = 0 /\ ttl' = 1 /\ hit'
          /\ remlen' = remlen + 1 /\ rembp' = rembp - 1 /\ at = "payload"
      BY <1>n DEF TermInPayload, socket, Awaiting
    <2>2. ~hit /\ rembp >= 0 /\ rembp + remlen = req.len /\ rembp \in Int /\ remlen \in Nat
      BY <1>t, <1>0, <2>1 DEF PayloadAddsUp, QTypeOK
    <2>3. req \in Requests /\ req.len \in Nat /\ req.len <= Size
      BY <2>1, <1>t, <1>0, RequestFacts DEF ServesOwnRequest
    <2>4. QTypeOK'
      BY <1>t, <1>0, <2>1, <2>2, <2>3 DEF QTypeOK
    <2>5. ServesOwnRequest' /\ PayloadAddsUp'
      BY <1>t, <2>1, <2>2, <2>3 DEF ServesOwnRequest, PayloadAddsUp, QTypeOK
    <2>6. QED
      BY <1>t, <2>1, <2>4, <2>5, QuietStep
  <1>o. CASE UNCHANGED qvars
    <2>1. Others /\ UNCHANGED <<stream, avail>>
      BY <1>o DEF qvars
    <2>2. QTypeOK' /\ ServesOwnRequest' /\ PayloadAddsUp'
      BY <1>t, <2>1 DEF QTypeOK, ServesOwnRequest, PayloadAddsUp
    <2>3. QED
      BY <1>t, <2>1, <2>2, QuietStep
  <1>z. QED
    BY <1>a, <1>b, <1>c, <1>d, <1>e, <1>f, <1>g, <1>h, <1>i, <1>j, <1>k, <1>l, <1>m, <1>n, <1>o
    DEF Next, Server

\* The types of the variables of the request path, of the indexes into the
\* buffer and the counts of bytes that are left too: they stay within the
\* device whatever is sent, cut off or interrupted.
THEOREM RequestTypeCorrect == Spec => []QTypeOK
  <1>1. RequestInv => QTypeOK
    BY DEF RequestInv
  <1>2. QED
    BY RequestInit, RequestStep, <1>1, PTL DEF Spec

-----------------------------------------------------------------------------
(* The read buffer                                                         *)

\* Only grow_buffer changes the size of the buffer, and only there is a
\* request begun that needs one.
LEMMA BufferKept ==
    ASSUME RequestInv, [Next]_qvars, ~grow_buffer
    PROVE  /\ DOMAIN readbuf' = DOMAIN readbuf
           /\ at' \in {"read", "write", "tail", "payload", "store"} =>
                 at \in {"read", "write", "tail", "payload", "store"} /\ req' = req
  <1>a. ASSUME NEW r \in Requests, Send(r)
        PROVE  UNCHANGED <<readbuf, at, req>>
    BY <1>a DEF Send
  <1>b. CASE Deliver \/ Shut \/ Term \/ TermInPayload \/ UNCHANGED qvars
    BY <1>b DEF Deliver, Shut, Term, TermInPayload, qvars
  <1>c. CASE read_header \/ serve_other \/ Leave \/ store
    BY <1>c DEF read_header, serve_other, Leave, store
  <1>i. CASE send_reply \/ send_data \/ cut_reply
    BY <1>i, ReplySteps
  <1>d. CASE serve_read
    BY <1>d, ReadBlocksKeeps DEF serve_read
  <1>e. CASE prime_lead
    BY <1>e, ReadBlocksKeeps DEF prime_lead
  <1>f. CASE prime_tail
    BY <1>f, ReadBlocksKeeps DEF prime_tail
  <1>g. CASE read_payload
    BY <1>g DEF read_payload, Put
  <1>h. QED
    BY <1>a, <1>b, <1>c, <1>d, <1>e, <1>f, <1>g, <1>i DEF Next, Server

LEMMA BufferStep ==
    ASSUME RequestInv, BufferFits, [Next]_qvars
    PROVE  BufferFits'
  <1>1. PICK n \in Nat \ {0} :
          /\ BufferIs(n) /\ n >= BlockSize
          /\ at \in {"read", "write", "tail", "payload", "store"} => n >= Span(req)
    BY DEF BufferFits
  <1>2. CASE ~grow_buffer
    <2>1. BufferIs(n)' /\ (at' \in {"read", "write", "tail", "payload", "store"} => n >= Span(req'))
      BY <1>1, <1>2, BufferKept DEF BufferIs
    <2>2. Span(req)' = Span(req')
      BY DEF Span, blockcount, startblock, endblock
    <2>3. QED
      BY <1>1, <2>1, <2>2 DEF BufferFits
  <1>3. CASE grow_buffer
    <2>1. req \in Requests /\ req' = req /\ at' = req.cmd
      BY <1>3 DEF grow_buffer, RequestInv, ServesOwnRequest
    <2>2. Cardinality(DOMAIN readbuf) = n
      BY <1>1, FS_Interval DEF BufferIs
    <2>3. Span(req)' = Span(req)
      BY <2>1 DEF Span, blockcount, startblock, endblock
    <2>4. CASE req.len # 0
      <3>1. /\ Span(req) = endblock(req) * BlockSize - First(req) + BlockSize /\ Span(req) \in Nat
            /\ startblock(req) \in Nat /\ endblock(req) \in Nat /\ startblock(req) <= endblock(req)
            /\ First(req) \in Nat
        BY <2>1, <2>4, BlocksOfTransfer
      <3>2. Required(req) = Span(req)
        BY DEF Required, Span
      <3>3. CASE endblock(req) > startblock(req) /\ Span(req) > n
        <4>1. readbuf' = Blank(Span(req))
          BY <1>3, <2>2, <3>2, <3>3 DEF grow_buffer
        <4>2. DOMAIN readbuf' = 0 .. Span(req) - 1 /\ Span(req) \in Nat \ {0} /\ Span(req) >= BlockSize
          BY <1>1, <3>1, <3>3, <4>1, RequestAssumption DEF Blank
        <4>3. QED
          BY <2>3, <4>2 DEF BufferFits, BufferIs
      <3>4. CASE ~(endblock(req) > startblock(req) /\ Span(req) > n)
        <4>1. readbuf' = readbuf
          BY <1>3, <2>2, <3>2, <3>4 DEF grow_buffer
        <4>2. n >= Span(req)
          <5>1. CASE endblock(req) > startblock(req)
            BY <1>1, <3>1, <3>4, <5>1
          <5>2. CASE endblock(req) = startblock(req)
            <6>1. Span(req) = BlockSize
              BY <3>1, <5>2, RequestAssumption DEF First
            <6>2. QED
              BY <1>1, <6>1
          <5>3. QED
            BY <3>1, <5>1, <5>2
        <4>3. QED
          BY <1>1, <2>3, <4>1, <4>2 DEF BufferFits, BufferIs
      <3>5. QED
        BY <3>3, <3>4
    <2>5. CASE req.len = 0
      <3>1. req.cmd \notin {"read", "write"} /\ ~(endblock(req) > startblock(req))
        BY <2>1, <2>5, RequestFacts, EmptyRequests
      <3>2. at' \in {"disc", "other"} /\ readbuf' = readbuf
        BY <1>3, <2>1, <3>1, RequestFacts DEF grow_buffer
      <3>3. QED
        BY <1>1, <3>2 DEF BufferFits, BufferIs
    <2>6. QED
      BY <2>4, <2>5
  <1>4. QED
    BY <1>2, <1>3

\* Every index that is used is in the buffer.
LEMMA InBoundsStep ==
    ASSUME BoundsInv, [Next]_qvars
    PROVE  BufferInBounds'
  <1>1. RequestInv /\ BufferFits /\ BufferInBounds
    BY DEF BoundsInv
  <1>2. PICK n \in Nat \ {0} :
          /\ BufferIs(n) /\ n >= BlockSize
          /\ at \in {"read", "write", "tail", "payload", "store"} => n >= Span(req)
    BY <1>1 DEF BufferFits
  <1>3. BlockSize \in Nat \ {0} /\ Size \in Nat
    BY RequestAssumption, SizeIsNat
  <1>4. CASE serve_read
    <2>1. req \in Requests /\ req.cmd = "read" /\ n >= Span(req)
      BY <1>1, <1>2, <1>4 DEF serve_read, RequestInv, ServesOwnRequest
    <2>2. Span(req) \in Nat \ {0}
      <3>1. Span(req) \in Nat /\ req.len \in Nat \ {0} /\ req.len <= Span(req)
        BY <1>3, <2>1, BlocksOfTransfer
      <3>2. QED
        BY <3>1
    <2>3. Fits(0, blockcount(req) * BlockSize)
      BY <1>2, <2>1, <2>2 DEF Fits, BufferIs, Span
    <2>4. QED
      BY <1>4, <2>3, ReadBlocksKeeps DEF serve_read, BufferInBounds
  <1>5. CASE prime_lead
    <2>1. Fits(0, 1 * BlockSize)
      BY <1>2, <1>3 DEF Fits, BufferIs
    <2>2. QED
      BY <1>5, <2>1, ReadBlocksKeeps DEF prime_lead, BufferInBounds
  <1>6. CASE prime_tail
    <2>1. req \in Requests /\ req.cmd = "write" /\ n >= Span(req)
      BY <1>1, <1>2, <1>6 DEF prime_tail, RequestInv, ServesOwnRequest
    <2> DEFINE i == (blockcount(req) - 1) * BlockSize
    <2>2. i + BlockSize = Span(req) /\ i \in Nat /\ Span(req) \in Nat
      <3>1. blockcount(req) \in Nat \ {0} /\ Span(req) \in Nat
            /\ i = endblock(req) * BlockSize - First(req)
            /\ Span(req) = endblock(req) * BlockSize - First(req) + BlockSize
            /\ endblock(req) * BlockSize \in Nat /\ First(req) \in Nat
        BY <2>1, BlocksOfTransfer
      <3>2. i \in Nat
        BY <1>3, <3>1
      <3>3. QED
        BY <1>3, <3>1, <3>2
    <2> HIDE DEF i
    <2>3. Fits(i, 1 * BlockSize)
      BY <1>2, <1>3, <2>1, <2>2 DEF Fits, BufferIs
    <2>4. QED
      BY <1>6, <2>3, ReadBlocksKeeps DEF prime_tail, BufferInBounds, i
  <1>7. CASE read_payload
    <2>1. PICK m \in 1 .. avail : m <= remlen /\ (at' = "overrun" => ~Fits(rembp, m)) /\ hit' = hit
      BY <1>7 DEF read_payload
    <2>2. req \in Requests /\ req.cmd = "write" /\ n >= Span(req) /\ rembp + remlen = req.len
          /\ (~hit => rembp >= 0) /\ rembp \in Int /\ remlen \in Nat /\ avail \in Nat
      BY <1>1, <1>2, <1>7, SizeIsNat DEF read_payload, RequestInv, ServesOwnRequest,
         PayloadAddsUp, QTypeOK, Size
    <2>3. req.len <= Span(req) /\ Span(req) \in Nat /\ req.len \in Nat
      BY <1>3, <2>2, BlocksOfTransfer
    <2>4. ~hit => Fits(rembp, m)
      BY <1>2, <2>1, <2>2, <2>3 DEF Fits, BufferIs
    <2>5. QED
      BY <2>1, <2>4 DEF BufferInBounds
  <1>8. CASE ~(serve_read \/ prime_lead \/ prime_tail \/ read_payload)
    <2>1. at' = "overrun" => at = "overrun" /\ (hit => hit')
      <3>1. ASSUME NEW r \in Requests, Send(r) PROVE at' = at /\ hit' = hit
        BY <3>1 DEF Send
      <3>2. CASE grow_buffer
        <4>1. req \in Requests
          BY <1>1, <3>2 DEF grow_buffer, RequestInv, ServesOwnRequest
        <4>2. at' # "overrun"
          BY <3>2, <4>1, RequestFacts DEF grow_buffer
        <4>3. QED
          BY <4>2
      <3>3. CASE Deliver \/ Shut \/ Term \/ TermInPayload \/ UNCHANGED qvars
        BY <3>3 DEF Deliver, Shut, Term, TermInPayload, qvars, Awaiting
      <3>4. CASE read_header \/ serve_other \/ Leave \/ store
        BY <3>4 DEF read_header, serve_other, Leave, store
      <3>5. CASE send_reply \/ send_data \/ cut_reply
        BY <3>5, ReplySteps
      <3>6. QED
        BY <1>8, <3>1, <3>2, <3>3, <3>4, <3>5 DEF Next, Server
    <2>2. QED
      BY <1>1, <2>1 DEF BufferInBounds
  <1>9. QED
    BY <1>4, <1>5, <1>6, <1>7, <1>8

\* No request reaches outside of the read buffer, whatever its offset and
\* length, if a block fits in the buffer as it is first allocated and no
\* signal interrupts a payload: the sizes of req_readbuf, and the reads of
\* nbd_service_requests that prime partial blocks.
THEOREM BufferIsInBounds ==
    ASSUME InitBuf >= BlockSize
    PROVE  Spec => []BufferInBounds
  <1>1. Init => BoundsInv
    <2> SUFFICES ASSUME Init PROVE BoundsInv
      OBVIOUS
    <2>1. BufferIs(InitBuf) /\ InitBuf \in Nat \ {0}
      BY RequestAssumption DEF Init, BufferIs, Blank
    <2>2. BufferFits
      BY <2>1 DEF BufferFits, Init
    <2>3. BufferInBounds
      BY DEF BufferInBounds, Init
    <2>4. QED
      BY <2>2, <2>3, RequestInit DEF BoundsInv
  <1>2. BoundsInv /\ [Next]_qvars => BoundsInv'
    BY RequestStep, BufferStep, InBoundsStep DEF BoundsInv
  <1>3. BoundsInv => BufferInBounds
    BY DEF BoundsInv
  <1>4. QED
    BY <1>1, <1>2, <1>3, PTL DEF Spec

-----------------------------------------------------------------------------
(* The stream is read where it was written                                 *)

\* Elements of the stream that are headers.
LEMMA HeaderFacts ==
    ASSUME NEW s \in Seq(Requests \cup Sent), NEW j \in 1 .. Len(s), ~IsByte(s[j])
    PROVE  s[j] \in Requests /\ Owes(s[j]) \in Nat
  <1>1. s[j] \in Requests \cup Sent
    BY ElementOfSeq
  <1>2. QED
    BY <1>1, SentAreBytes, RequestFacts

\* Where no payload is owed, there is a header, and what follows it is its own.
LEMMA ParsesHeader ==
    ASSUME NEW s \in Seq(Requests \cup Sent), NEW o, NEW cut, Parses(s, o, 0, cut), Len(s) > 0
    PROVE  /\ ~IsByte(s[1])
           /\ Parses(Tail(s), s[1].off, Owes(s[1]), cut)
  <1> DEFINE t == Tail(s)
             r == s[1]
  <1>0. Len(s) \in Nat /\ Len(t) = Len(s) - 1 /\ \A i \in 1 .. Len(s) - 1 : t[i] = s[i + 1]
    BY StreamTail
  <1>1. ~IsByte(s[1])
    BY <1>0 DEF Parses
  <1>2. r \in Requests /\ Owes(r) \in Nat
    BY <1>0, <1>1, HeaderFacts
  <1> HIDE DEF t
  <1>3. ASSUME NEW i \in 1 .. Len(t), i <= Owes(r) PROVE t[i] = New(r.off + i - 1)
    <2>1. 1 \in 1 .. Len(s) /\ i \in 1 .. Owes(r) /\ 1 + i <= Len(s) /\ t[i] = s[1 + i]
      BY <1>0, <1>2, <1>3
    <2>2. QED
      BY <1>1, <2>1 DEF Parses
  <1>4. ASSUME NEW j \in 1 .. Len(t), ~IsByte(t[j]), NEW i \in 1 .. Owes(t[j]), j + i <= Len(t)
        PROVE  t[j + i] = New(t[j].off + i - 1)
    <2>1. t[j] = s[j + 1] /\ j + 1 \in 1 .. Len(s)
      BY <1>0
    <2>2. Owes(t[j]) \in Nat
      BY <1>4, <2>1, HeaderFacts
    <2>3. j + 1 + i <= Len(s) /\ t[j + i] = s[j + 1 + i]
      BY <1>0, <1>4, <2>2
    <2>4. QED
      BY <1>4, <2>1, <2>3 DEF Parses
  <1>5. ASSUME NEW i \in 1 .. Len(t), IsByte(t[i])
        PROVE  i <= Owes(r) \/ \E j \in 1 .. i - 1 : ~IsByte(t[j]) /\ i <= j + Owes(t[j])
    <2>1. t[i] = s[i + 1] /\ i + 1 \in 1 .. Len(s) /\ i \in Nat
      BY <1>0
    <2>2. PICK j \in 1 .. i + 1 - 1 : ~IsByte(s[j]) /\ i + 1 <= j + Owes(s[j])
      BY <1>5, <2>1 DEF Parses
    <2>3. j \in 1 .. Len(s) /\ Owes(s[j]) \in Nat
      BY <1>0, <2>1, <2>2, HeaderFacts
    <2>4. CASE j = 1
      BY <2>1, <2>2, <2>3, <2>4
    <2>5. CASE j # 1
      <3>1. j - 1 \in 1 .. i - 1 /\ t[j - 1] = s[j - 1 + 1] /\ j - 1 + 1 = j
        BY <1>0, <2>1, <2>3, <2>5
      <3>2. ~IsByte(t[j - 1]) /\ i <= j - 1 + Owes(t[j - 1])
        BY <2>1, <2>2, <2>3, <3>1
      <3>3. QED
        BY <3>1, <3>2
    <2>6. QED
      BY <2>4, <2>5
  <1>6. ASSUME ~cut
        PROVE  Owes(r) <= Len(t) /\ \A j \in 1 .. Len(t) : ~IsByte(t[j]) => j + Owes(t[j]) <= Len(t)
    <2>1. \A j \in 1 .. Len(s) : ~IsByte(s[j]) => j + Owes(s[j]) <= Len(s)
      BY <1>6 DEF Parses
    <2>2. Owes(r) <= Len(t)
      <3>1. 1 + Owes(r) <= Len(s)
        BY <1>0, <1>1, <2>1
      <3>2. QED
        BY <1>0, <1>2, <3>1
    <2>3. ASSUME NEW j \in 1 .. Len(t), ~IsByte(t[j]) PROVE j + Owes(t[j]) <= Len(t)
      <3>1. t[j] = s[j + 1] /\ j + 1 \in 1 .. Len(s)
        BY <1>0
      <3>2. Owes(t[j]) \in Nat /\ j + 1 + Owes(t[j]) <= Len(s)
        BY <2>1, <2>3, <3>1, HeaderFacts
      <3>3. QED
        BY <1>0, <3>2
    <2>4. QED
      BY <2>2, <2>3
  <1>7. Parses(t, r.off, Owes(r), cut)
    BY <1>3, <1>4, <1>5, <1>6 DEF Parses
  <1>8. QED
    BY <1>1, <1>7 DEF t

\* Part of the payload is read.
LEMMA ParsesDrop ==
    ASSUME NEW s \in Seq(Requests \cup Sent), NEW o \in Int, NEW k \in Nat, NEW cut, Parses(s, o, k, cut),
           NEW n \in 0 .. Len(s), n <= k
    PROVE  Parses(SubSeq(s, n + 1, Len(s)), o + n, k - n, cut)
  <1> DEFINE t == SubSeq(s, n + 1, Len(s))
  <1>0. /\ Len(s) \in Nat /\ n \in Nat /\ n <= Len(s)
        /\ Len(t) = Len(s) - n /\ \A i \in 1 .. Len(s) - n : t[i] = s[i + n]
    BY StreamDrop
  <1> HIDE DEF t
  <1>1. ASSUME NEW i \in 1 .. Len(t), i <= k - n PROVE t[i] = New(o + n + i - 1)
    <2>1. i + n \in 1 .. Len(s) /\ i + n <= k /\ t[i] = s[i + n]
      BY <1>0, <1>1
    <2>2. t[i] = New(o + (i + n) - 1)
      BY <2>1 DEF Parses
    <2>3. o + (i + n) - 1 = o + n + i - 1
      BY <1>0
    <2>4. QED
      BY <2>2, <2>3
  <1>2. ASSUME NEW j \in 1 .. Len(t), ~IsByte(t[j]), NEW i \in 1 .. Owes(t[j]), j + i <= Len(t)
        PROVE  t[j + i] = New(t[j].off + i - 1)
    <2>1. t[j] = s[j + n] /\ j + n \in 1 .. Len(s)
      BY <1>0
    <2>2. Owes(t[j]) \in Nat
      BY <1>2, <2>1, HeaderFacts
    <2>3. j + n + i <= Len(s) /\ t[j + i] = s[j + n + i]
      BY <1>0, <1>2, <2>2
    <2>4. QED
      BY <1>2, <2>1, <2>3 DEF Parses
  <1>3. ASSUME NEW i \in 1 .. Len(t), IsByte(t[i])
        PROVE  i <= k - n \/ \E j \in 1 .. i - 1 : ~IsByte(t[j]) /\ i <= j + Owes(t[j])
    <2>1. t[i] = s[i + n] /\ i + n \in 1 .. Len(s) /\ i \in Nat
      BY <1>0
    <2>2. CASE i + n <= k
      BY <1>0, <2>1, <2>2
    <2>3. CASE ~(i + n <= k)
      <3>1. PICK j \in 1 .. i + n - 1 : ~IsByte(s[j]) /\ i + n <= j + Owes(s[j])
        BY <1>3, <2>1, <2>3 DEF Parses
      <3>0. j \in 1 .. Len(s)
        BY <1>0, <2>1
      <3>2. j \in 1 .. Len(s) /\ Owes(s[j]) \in Nat
        BY <3>0, <3>1, HeaderFacts
      <3>3. ~(j <= n)
        <4> SUFFICES ASSUME j <= n PROVE FALSE
          OBVIOUS
        <4>1. j <= k
          BY <1>0, <3>2
        <4>2. s[j] = New(o + j - 1)
          BY <3>2, <4>1 DEF Parses
        <4>3. QED
          BY <3>1, <4>2, SentAreBytes
      <3>4. j - n \in 1 .. i - 1 /\ t[j - n] = s[j - n + n] /\ j - n + n = j
        BY <1>0, <2>1, <3>2, <3>3
      <3>5. ~IsByte(t[j - n]) /\ i <= j - n + Owes(t[j - n])
        <4>1. t[j - n] = s[j]
          BY <3>4
        <4>2. i <= j - n + Owes(s[j])
          BY <1>0, <2>1, <3>1, <3>2
        <4>3. QED
          BY <3>1, <4>1, <4>2
      <3>6. QED
        BY <3>4, <3>5
    <2>4. QED
      BY <2>2, <2>3
  <1>4. ASSUME ~cut
        PROVE  k - n <= Len(t) /\ \A j \in 1 .. Len(t) : ~IsByte(t[j]) => j + Owes(t[j]) <= Len(t)
    <2>1. k <= Len(s) /\ \A j \in 1 .. Len(s) : ~IsByte(s[j]) => j + Owes(s[j]) <= Len(s)
      BY <1>4 DEF Parses
    <2>2. ASSUME NEW j \in 1 .. Len(t), ~IsByte(t[j]) PROVE j + Owes(t[j]) <= Len(t)
      <3>1. t[j] = s[j + n] /\ j + n \in 1 .. Len(s)
        BY <1>0
      <3>2. Owes(t[j]) \in Nat /\ j + n + Owes(t[j]) <= Len(s)
        BY <2>1, <2>2, <3>1, HeaderFacts
      <3>3. QED
        BY <1>0, <3>2
    <2>3. k - n <= Len(t)
      BY <1>0, <2>1
    <2>4. QED
      BY <2>2, <2>3
  <1>5. Parses(t, o + n, k - n, cut)
    BY <1>1, <1>2, <1>3, <1>4 DEF Parses
  <1>6. QED
    BY <1>5 DEF t

\* A request is sent.
LEMMA ParsesSend ==
    ASSUME NEW s \in Seq(Requests \cup Sent), NEW o, NEW k \in Nat, NEW cut, Parses(s, o, k, cut), ~cut,
           NEW r \in Requests
    PROVE  Parses(s \o <<r>> \o Payload(r), o, k, cut)
  <1> DEFINE t == s \o <<r>> \o Payload(r)
             h == Len(s) + 1
  <1>0. /\ t \in Seq(Requests \cup Sent) /\ Len(t) = h + Owes(r) /\ Len(s) \in Nat /\ Owes(r) \in Nat
        /\ \A i \in 1 .. Len(s) : t[i] = s[i]
        /\ t[h] = r
        /\ \A i \in 1 .. Owes(r) : t[h + i] = New(r.off + i - 1)
    BY StreamSend, RequestFacts
  <1>1. ~IsByte(r)
    BY RequestFacts
  <1> HIDE DEF t
  <1>2. \A i \in 1 .. Len(t) : i \in 1 .. Len(s) \/ i = h \/ (i - h \in 1 .. Owes(r) /\ i = h + (i - h))
    BY <1>0
  <1>3. \A i \in 1 .. Len(t) : i > h => IsByte(t[i])
    <2> SUFFICES ASSUME NEW i \in 1 .. Len(t), i > h PROVE IsByte(t[i])
      OBVIOUS
    <2>1. i - h \in 1 .. Owes(r) /\ i = h + (i - h)
      BY <1>0
    <2>2. t[i] = New(r.off + (i - h) - 1)
      BY <1>0, <2>1
    <2>3. QED
      BY <2>2, SentAreBytes
  <1>4. k <= Len(s) /\ \A j \in 1 .. Len(s) : ~IsByte(s[j]) => j + Owes(s[j]) <= Len(s)
    BY DEF Parses
  <1>5. ASSUME NEW i \in 1 .. Len(t), i <= k PROVE t[i] = New(o + i - 1)
    <2>1. i \in 1 .. Len(s) /\ t[i] = s[i]
      BY <1>0, <1>4, <1>5
    <2>2. QED
      BY <1>5, <2>1 DEF Parses
  <1>6. ASSUME NEW j \in 1 .. Len(t), ~IsByte(t[j]), NEW i \in 1 .. Owes(t[j]), j + i <= Len(t)
        PROVE  t[j + i] = New(t[j].off + i - 1)
    <2>1. CASE j \in 1 .. Len(s)
      <3>1. t[j] = s[j] /\ Owes(s[j]) \in Nat /\ j + Owes(s[j]) <= Len(s)
        BY <1>0, <1>4, <1>6, <2>1, HeaderFacts
      <3>2. j + i \in 1 .. Len(s) /\ j + i <= Len(s)
        BY <1>0, <2>1, <3>1
      <3>3. s[j + i] = New(s[j].off + i - 1)
        BY <1>6, <2>1, <3>1, <3>2 DEF Parses
      <3>4. QED
        BY <1>0, <3>1, <3>2, <3>3
    <2>2. CASE j = h
      BY <1>0, <2>2
    <2>3. QED
      BY <1>0, <1>3, <1>6, <2>1, <2>2
  <1>7. ASSUME NEW i \in 1 .. Len(t), IsByte(t[i])
        PROVE  i <= k \/ \E j \in 1 .. i - 1 : ~IsByte(t[j]) /\ i <= j + Owes(t[j])
    <2>1. CASE i \in 1 .. Len(s)
      <3>1. t[i] = s[i]
        BY <1>0, <2>1
      <3>2. CASE i <= k
        BY <3>2
      <3>3. CASE ~(i <= k)
        <4>1. PICK j \in 1 .. i - 1 : ~IsByte(s[j]) /\ i <= j + Owes(s[j])
          BY <1>7, <2>1, <3>1, <3>3 DEF Parses
        <4>2. t[j] = s[j]
          BY <1>0, <2>1
        <4>3. QED
          BY <4>1, <4>2
      <3>4. QED
        BY <3>2, <3>3
    <2>2. CASE i > h
      <3>1. h \in 1 .. i - 1 /\ ~IsByte(t[h]) /\ i <= h + Owes(t[h])
        BY <1>0, <1>1, <2>2
      <3>2. QED
        BY <3>1
    <2>3. i # h
      BY <1>0, <1>1, <1>7
    <2>4. QED
      BY <1>0, <2>1, <2>2, <2>3
  <1>8. k <= Len(t) /\ \A j \in 1 .. Len(t) : ~IsByte(t[j]) => j + Owes(t[j]) <= Len(t)
    <2>1. k <= Len(t)
      BY <1>0, <1>4
    <2>2. ASSUME NEW j \in 1 .. Len(t), ~IsByte(t[j]) PROVE j + Owes(t[j]) <= Len(t)
      <3>1. CASE j \in 1 .. Len(s)
        <4>1. t[j] = s[j] /\ Owes(s[j]) \in Nat /\ j + Owes(s[j]) <= Len(s)
          BY <1>0, <1>4, <2>2, <3>1, HeaderFacts
        <4>2. QED
          BY <1>0, <4>1
      <3>2. CASE j = h
        BY <1>0, <3>2
      <3>3. QED
        BY <1>0, <1>3, <2>2, <3>1, <3>2
    <2>3. QED
      BY <2>1, <2>2
  <1>9. Parses(t, o, k, cut)
    BY <1>5, <1>6, <1>7, <1>8 DEF Parses
  <1>10. QED
    BY <1>9 DEF t

\* The socket is shut down.
LEMMA ParsesCut ==
    ASSUME NEW s \in Seq(Requests \cup Sent), NEW o, NEW k \in Nat, NEW cut, Parses(s, o, k, cut),
           NEW a \in 0 .. Len(s)
    PROVE  Parses(SubSeq(s, 1, a), o, k, TRUE)
  <1> DEFINE t == SubSeq(s, 1, a)
  <1>0. /\ Len(s) \in Nat /\ Len(t) = a /\ \A i \in 1 .. a : t[i] = s[i]
    BY StreamCut
  <1> HIDE DEF t
  <1>1. ASSUME NEW i \in 1 .. Len(t), i <= k PROVE t[i] = New(o + i - 1)
    <2>1. i \in 1 .. Len(s) /\ t[i] = s[i]
      BY <1>0
    <2>2. QED
      BY <1>1, <2>1 DEF Parses
  <1>2. ASSUME NEW j \in 1 .. Len(t), ~IsByte(t[j]), NEW i \in 1 .. Owes(t[j]), j + i <= Len(t)
        PROVE  t[j + i] = New(t[j].off + i - 1)
    <2>1. t[j] = s[j] /\ j \in 1 .. Len(s)
      BY <1>0
    <2>2. Owes(t[j]) \in Nat
      BY <1>2, <2>1, HeaderFacts
    <2>3. j + i <= Len(s) /\ t[j + i] = s[j + i]
      BY <1>0, <1>2, <2>2
    <2>4. QED
      BY <1>2, <2>1, <2>3 DEF Parses
  <1>3. ASSUME NEW i \in 1 .. Len(t), IsByte(t[i])
        PROVE  i <= k \/ \E j \in 1 .. i - 1 : ~IsByte(t[j]) /\ i <= j + Owes(t[j])
    <2>1. t[i] = s[i] /\ i \in 1 .. Len(s)
      BY <1>0
    <2>2. CASE ~(i <= k)
      <3>1. PICK j \in 1 .. i - 1 : ~IsByte(s[j]) /\ i <= j + Owes(s[j])
        BY <1>3, <2>1, <2>2 DEF Parses
      <3>2. t[j] = s[j]
        BY <1>0
      <3>3. QED
        BY <3>1, <3>2
    <2>3. QED
      BY <2>2
  <1>4. Parses(t, o, k, TRUE)
    BY <1>1, <1>2, <1>3 DEF Parses
  <1>5. QED
    BY <1>4 DEF t

\* Where no payload is owed, it does not matter where it would go.
LEMMA ParsesNone ==
    ASSUME NEW s, NEW o, NEW p, NEW cut, Len(s) \in Nat, Parses(s, o, 0, cut)
    PROVE  Parses(s, p, 0, cut)
  <1>1. \A i \in 1 .. Len(s) : ~(i <= 0)
    OBVIOUS
  <1>2. \A i \in 1 .. Len(s) : i <= 0 => s[i] = New(p + i - 1)
    BY <1>1
  <1> DEFINE Rest ==
               /\ \A j \in 1 .. Len(s) : ~IsByte(s[j]) =>
                     \A i \in 1 .. Owes(s[j]) : j + i <= Len(s) => s[j + i] = New(s[j].off + i - 1)
               /\ \A i \in 1 .. Len(s) : IsByte(s[i]) =>
                     i <= 0 \/ \E j \in 1 .. i - 1 : ~IsByte(s[j]) /\ i <= j + Owes(s[j])
               /\ ~cut =>
                     /\ 0 <= Len(s)
                     /\ \A j \in 1 .. Len(s) : ~IsByte(s[j]) => j + Owes(s[j]) <= Len(s)
  <1>3. Rest
    BY Zenon DEF Parses
  <1>4. QED
    BY <1>2, <1>3, Zenon DEF Parses

LEMMA SyncStep ==
    ASSUME SyncInv, [Next]_qvars
    PROVE  SyncInv'
  <1>0. RequestInv /\ RequestInv'
    BY RequestStep DEF SyncInv
  <1>1. /\ stream \in Seq(Requests \cup Sent) /\ Len(stream) \in Nat /\ avail \in 0 .. Len(stream)
        /\ ServesOwnRequest /\ PayloadAddsUp /\ rembp \in Int /\ remlen \in Nat
    BY <1>0, SizeIsNat DEF RequestInv, QTypeOK, Size
  <1>2. hit => hit'
    <2>1. ASSUME NEW r \in Requests, Send(r) PROVE hit' = hit
      BY <2>1 DEF Send
    <2>2. QED
      BY <2>1 DEF Next, Server, read_header, grow_buffer, serve_read, prime_lead, prime_tail,
         read_payload, store, serve_other, send_reply, send_data, cut_reply, Leave, Term, TermInPayload, Deliver, Shut,
         qvars
  <1> SUFFICES ASSUME ~hit' PROVE InSync' /\ HoldsPayload'
    BY <1>0 DEF SyncInv
  <1>3. ~hit /\ InSync /\ HoldsPayload
    BY <1>2 DEF SyncInv
  <1>r. at \notin {"idle", "lost", "left"} =>
          req \in Requests /\ req.off \in Nat /\ req.len \in Nat /\ Owes(req) \in Nat
    BY <1>1, RequestFacts DEF ServesOwnRequest
  <1>s. Owes(req)' = Owes(req') /\ sboffs(req)' = sboffs(req') /\ eboffs(req)' = eboffs(req')
        /\ sboffs(reply.req)' = sboffs(reply'.req) /\ eboffs(reply.req)' = eboffs(reply'.req)
    BY DEF Owes, sboffs, eboffs
  <1>a. ASSUME NEW r \in Requests, Send(r) PROVE InSync' /\ HoldsPayload'
    <2>1. /\ UNCHANGED <<readbuf, closed, at, req, rembp, remlen, error, reply>> /\ ~closed
          /\ stream' = stream \o <<r>> \o Payload(r)
      BY <1>a DEF Send
    <2>2. ASSUME NEW o, NEW k \in Nat, Parses(stream, o, k, closed)
          PROVE  Parses(stream', o, k, closed')
      BY <1>1, <2>1, <2>2, ParsesSend
    <2>3. HoldsPayload'
      BY <1>3, <2>1 DEF HoldsPayload
    <2>4. InSync'
      BY <1>1, <1>3, <1>r, <1>s, <2>1, <2>2 DEF InSync, Unread
    <2>5. QED
      BY <2>3, <2>4
  <1>b. CASE Deliver \/ Term \/ UNCHANGED qvars
    <2>1. UNCHANGED <<readbuf, closed, at, req, rembp, remlen, error, reply, stream>>
      BY <1>b DEF Deliver, Term, qvars, socket
    <2>2. QED
      BY <1>3, <1>s, <2>1 DEF InSync, HoldsPayload, Unread
  <1>c. CASE Shut
    <2>1. /\ UNCHANGED <<readbuf, at, req, rembp, remlen, error, reply>> /\ closed' = TRUE
          /\ stream' = SubSeq(stream, 1, avail)
      BY <1>c DEF Shut
    <2>2. ASSUME NEW o, NEW k \in Nat, Parses(stream, o, k, closed)
          PROVE  Parses(stream', o, k, closed')
      BY <1>1, <2>1, <2>2, ParsesCut
    <2>3. HoldsPayload'
      BY <1>3, <2>1 DEF HoldsPayload
    <2>4. InSync'
      BY <1>1, <1>3, <1>r, <1>s, <2>1, <2>2 DEF InSync, Unread
    <2>5. QED
      BY <2>3, <2>4
  <1>d. CASE read_header
    <2>1. /\ at = "idle" /\ stream' = Tail(stream) /\ closed' = closed /\ Len(stream) > 0
          /\ at' \in {"lost", "grow"}
          /\ IsByte(Head(stream)) => at' = "lost"
          /\ ~IsByte(Head(stream)) => req' = Head(stream)
      BY <1>1, <1>d DEF read_header
    <2>2. Head(stream) = stream[1]
      BY <1>1, <2>1, StreamTail
    <2>3. CASE IsByte(stream[1])
      BY <2>1, <2>2, <2>3 DEF InSync, HoldsPayload
    <2>4. CASE ~IsByte(stream[1])
      <3>1. Parses(stream, 0, 0, closed)
        <4>1. ASSUME reply.req.len \in Nat \ {0}, Parses(stream, reply.req.off, reply.req.len, closed)
              PROVE  FALSE
          <5>1. 1 \in 1 .. Len(stream) /\ 1 <= reply.req.len
            BY <1>1, <2>1, <4>1
          <5>2. stream[1] = New(reply.req.off + 1 - 1)
            BY <4>1, <5>1 DEF Parses
          <5>3. QED
            BY <2>4, <5>2, SentAreBytes
        <4>2. QED
          BY <1>3, <2>1, <4>1 DEF InSync
      <3>2. Parses(stream', stream[1].off, Owes(stream[1]), closed')
        BY <1>1, <2>1, <3>1, ParsesHeader
      <3>3. req' = stream[1]
        BY <2>1, <2>2, <2>4
      <3>4. Parses(stream', req'.off, Owes(req'), closed')
        BY <3>2, <3>3
      <3>5. QED
        BY <1>s, <2>1, <3>4 DEF InSync, HoldsPayload
    <2>5. QED
      BY <2>3, <2>4
  <1>e. CASE grow_buffer
    <2>1. /\ at = "grow" /\ at' \in {"read", "write", "disc", "other"}
          /\ UNCHANGED <<stream, closed, req>>
      BY <1>e, <1>r, RequestFacts DEF grow_buffer, socket
    <2>2. QED
      BY <1>3, <1>s, <2>1 DEF InSync, HoldsPayload
  <1>f. CASE serve_read \/ serve_other
    <2>1. at \in {"read", "disc", "other"} /\ at' \in {"overrun", "reply"} /\ UNCHANGED <<stream, closed, req>>
      BY <1>f, ReadBlocksKeeps DEF serve_read, serve_other, socket
    <2>2. Owes(req) = 0
      BY <1>1, <1>r, <2>1, RequestFacts DEF ServesOwnRequest
    <2>3. Parses(stream, req.off, 0, closed)
      BY <1>3, <2>1, <2>2 DEF InSync
    <2>4. Parses(stream, 0, 0, closed)
      BY <1>1, <2>3, ParsesNone
    <2>5. QED
      BY <2>1, <2>4 DEF InSync, HoldsPayload
  <1>g. CASE prime_lead
    <2>1. /\ at = "write" /\ at' \in {"overrun", "tail", "reply"} /\ UNCHANGED <<stream, closed, req>>
          /\ at' = "reply" => sboffs(req) # 0 /\ error' = "EIO"
      BY <1>g, ReadBlocksKeeps DEF prime_lead, socket
    <2>2. req.cmd = "write" /\ Owes(req) = req.len /\ Parses(stream, req.off, req.len, closed)
          /\ Parses(stream, req.off, Owes(req), closed)
      BY <1>1, <1>3, <1>r, <2>1, RequestFacts DEF ServesOwnRequest, InSync
    <2>3. QED
      BY <1>s, <2>1, <2>2 DEF InSync, HoldsPayload, Unread
  <1>h. CASE prime_tail
    <2>1. /\ at = "tail" /\ at' \in {"overrun", "payload", "reply"} /\ UNCHANGED <<stream, closed, req>>
          /\ at' = "reply" => eboffs(req) # BlockSize - 1 /\ error' = "EIO"
          /\ rembp' = 0 /\ remlen' = req.len
      BY <1>h, ReadBlocksKeeps DEF prime_tail, socket, PayloadLength
    <2>2. req.cmd = "write" /\ Parses(stream, req.off, req.len, closed) /\ req.off + 0 = req.off
      BY <1>1, <1>3, <1>r, <2>1, RequestFacts DEF ServesOwnRequest, InSync
    <2>3. InSync'
      BY <1>s, <2>1, <2>2 DEF InSync, Unread
    <2>4. HoldsPayload'
      BY <2>1 DEF HoldsPayload
    <2>5. QED
      BY <2>3, <2>4
  <1>i. CASE read_payload
    <2>1. PICK n \in 1 .. avail :
            /\ n <= remlen
            /\ stream' = SubSeq(stream, n + 1, Len(stream))
            /\ IF Fits(rembp, n) THEN readbuf' = Put(readbuf, rembp, stream, 1, n)
               ELSE UNCHANGED readbuf
            /\ at' = IF ~Fits(rembp, n) THEN "overrun" ELSE IF n = remlen THEN "store" ELSE at
            /\ remlen' = remlen - n /\ rembp' = rembp + n
      BY <1>i DEF read_payload, Advance
    <2>2. at = "payload" /\ UNCHANGED <<req, closed>>
      BY <1>i DEF read_payload
    <2>3. n \in Nat /\ n \in 0 .. Len(stream) /\ rembp >= 0 /\ rembp \in Nat /\ req.off \in Nat
      BY <1>1, <1>3, <1>r, <2>2 DEF PayloadAddsUp
    <2>4. Parses(stream, req.off + rembp, remlen, closed)
      BY <1>3, <2>2 DEF InSync
    <2>5. Parses(stream', req.off + rembp + n, remlen - n, closed)
      BY <1>1, <2>1, <2>3, <2>4, ParsesDrop
    <2>6. req.off + rembp + n = req.off + (rembp + n)
      BY <2>3
    <2>7. Parses(stream', req.off + rembp', remlen', closed)
      BY <2>1, <2>5, <2>6
    <2>8. InSync'
      <3>1. CASE at' = "overrun"
        BY <3>1 DEF InSync
      <3>2. CASE at' = "payload"
        BY <2>2, <2>7, <3>2 DEF InSync
      <3>3. CASE at' = "store"
        <4>1. remlen' = 0 /\ Len(stream') \in Nat
          BY <1>0, <1>1, <2>1, <2>2, <3>3, LenProperties DEF RequestInv
        <4>2. Parses(stream', 0, 0, closed)
          BY <2>7, <4>1, ParsesNone
        <4>3. QED
          BY <2>2, <3>3, <4>2 DEF InSync
      <3>4. QED
        BY <2>1, <2>2, <3>1, <3>2, <3>3
    <2>9. HoldsPayload'
      <3> SUFFICES ASSUME at' \in {"payload", "store"}, NEW i \in 0 .. rembp' - 1
                   PROVE  readbuf'[i] = New(req'.off + i)
        BY DEF HoldsPayload
      <3>1. Fits(rembp, n) /\ readbuf' = Put(readbuf, rembp, stream, 1, n)
        BY <2>1
      <3>2. i \in DOMAIN readbuf /\ i \in 0 .. rembp + n - 1
        <4>1. PICK z \in Nat \ {0} : DOMAIN readbuf = 0 .. z - 1
          BY <1>0 DEF RequestInv, BufferIs
        <4>2. rembp + n - 1 \in 0 .. z - 1
          BY <3>1, <4>1 DEF Fits
        <4>3. QED
          BY <2>1, <2>3, <4>1, <4>2
      <3>3. readbuf'[i] = IF i \in rembp .. rembp + n - 1 THEN stream[1 + i - rembp] ELSE readbuf[i]
        BY <3>1, <3>2 DEF Put
      <3>4. CASE i \in rembp .. rembp + n - 1
        <4>1. 1 + i - rembp \in 1 .. Len(stream) /\ 1 + i - rembp <= remlen
          BY <1>1, <2>1, <2>3, <3>4
        <4>2. stream[1 + i - rembp] = New(req.off + rembp + (1 + i - rembp) - 1)
          BY <2>4, <4>1 DEF Parses
        <4>3. req.off + rembp + (1 + i - rembp) - 1 = req.off + i
          BY <2>3, <3>4
        <4>4. QED
          BY <2>2, <3>3, <3>4, <4>2, <4>3
      <3>5. CASE i \notin rembp .. rembp + n - 1
        <4>1. i \in 0 .. rembp - 1
          BY <2>3, <3>2, <3>5
        <4>2. readbuf[i] = New(req.off + i)
          BY <1>3, <2>2, <4>1 DEF HoldsPayload
        <4>3. QED
          BY <2>2, <3>3, <3>5, <4>2
      <3>6. QED
        BY <3>4, <3>5
    <2>10. QED
      BY <2>8, <2>9
  <1>j. CASE store
    <2>1. at = "store" /\ at' = "reply" /\ UNCHANGED <<stream, closed, req>>
      BY <1>j DEF store, socket
    <2>2. QED
      BY <1>3, <2>1 DEF InSync, HoldsPayload
  <1>k. CASE send_reply \/ send_data \/ cut_reply
    <2>1. /\ at \in {"reply", "data"} /\ UNCHANGED <<stream, closed>>
          /\ \/ at' = "idle" /\ reply'.req = req /\ reply'.error = error
             \/ at' = "killed"
             \/ at' = "data" /\ UNCHANGED <<req, error>>
      BY <1>k, ReplySteps
    <2>2. Unread(req, error) => req.len \in Nat \ {0}
      BY <1>r, <2>1, RequestFacts DEF Unread
    <2>3. QED
      BY <1>3, <1>s, <2>1, <2>2 DEF InSync, HoldsPayload, Unread
  <1>l. CASE Leave
    BY <1>l DEF Leave, InSync, HoldsPayload
  <1>m. CASE TermInPayload
    BY <1>m DEF TermInPayload
  <1>z. QED
    BY <1>a, <1>b, <1>c, <1>d, <1>e, <1>f, <1>g, <1>h, <1>i, <1>j, <1>k, <1>l, <1>m DEF Next, Server

LEMMA SyncInit == Init => SyncInv
  <1> SUFFICES ASSUME Init PROVE SyncInv
    OBVIOUS
  <1>1. Parses(stream, 0, 0, closed)
    BY DEF Init, Parses
  <1>2. InSync /\ HoldsPayload
    BY <1>1 DEF Init, InSync, HoldsPayload
  <1>3. QED
    BY <1>2, RequestInit DEF SyncInv

\* As long as no signal interrupts a payload, nbd_service_requests reads a
\* header where the kernel has put one, whatever the requests, the pieces that
\* they come in and the failures of the image, unless a priming read failed:
\* then the payload of a write of parts of blocks is still in the socket.
THEOREM ServerStaysInSync == Spec => []StaysInSync
  <1>1. SyncInv => StaysInSync
    <2> SUFFICES ASSUME SyncInv, ~hit, at = "idle", stream # <<>>, IsByte(Head(stream))
                 PROVE  Unread(reply.req, reply.error)
      BY DEF StaysInSync, Unread
    <2>1. stream \in Seq(Requests \cup Sent) /\ Len(stream) \in Nat /\ Len(stream) > 0
      BY DEF SyncInv, RequestInv
    <2>2. Head(stream) = stream[1]
      BY <2>1, StreamTail
    <2>3. ~Parses(stream, 0, 0, closed)
      BY <2>1, <2>2, ParsesHeader
    <2>4. QED
      BY <2>3 DEF SyncInv, InSync
  <1>2. QED
    BY SyncInit, SyncStep, <1>1, PTL DEF Spec

\* However its payload comes in pieces, a write goes to the image with all of
\* it and in order, if no signal interrupts it: the bookkeeping of rembp and
\* remlen in nbd_service_requests.
THEOREM WriteStoresOwnPayload == Spec => []StoresOwnPayload
  <1>1. SyncInv => StoresOwnPayload
    BY DEF SyncInv, RequestInv, PayloadAddsUp, HoldsPayload, StoresOwnPayload
  <1>2. QED
    BY SyncInit, SyncStep, <1>1, PTL DEF Spec

-----------------------------------------------------------------------------
(* The request path implements the block device                            *)

\* The blocks that a request reads and writes are the ones it touches.
LEMMA BlocksAreTouched ==
    ASSUME NEW r \in Requests, r.cmd \in {"read", "write"},
           NEW o \in Bytes, First(r) <= o, o <= First(r) + Span(r) - 1
    PROVE  o \in D!Touched(r)
  <1> DEFINE z == r.off + r.len - 1
  <1>0. BlockSize \in Nat \ {0} /\ Size \in Nat /\ o \in Nat
    BY RequestAssumption, SizeIsNat
  <1>1. /\ r.off \in Nat /\ r.len \in Nat \ {0}
        /\ startblock(r) \in Nat /\ endblock(r) \in Nat
        /\ First(r) \in Nat /\ Span(r) \in Nat /\ endblock(r) * BlockSize \in Nat
        /\ sboffs(r) \in 0 .. BlockSize - 1 /\ eboffs(r) \in 0 .. BlockSize - 1
        /\ r.off = First(r) + sboffs(r) /\ z = endblock(r) * BlockSize + eboffs(r)
        /\ Span(r) = endblock(r) * BlockSize - First(r) + BlockSize
    BY BlocksOfTransfer
  <1>2. First(r) = startblock(r) * BlockSize
    BY DEF First
  <1>3. SUFFICES \E p \in r.off .. z : o \div BlockSize = p \div BlockSize
    BY DEF D!Touched, D!Bytes, D!Named, Bytes
  <1>4. r.off \in r.off .. z /\ z \in r.off .. z
    BY <1>1
  <1>5. CASE o < r.off
    <2>1. startblock(r) * BlockSize <= o /\ o < startblock(r) * BlockSize + BlockSize
      BY <1>0, <1>1, <1>2, <1>5
    <2>2. o \div BlockSize = startblock(r)
      BY <1>0, <1>1, <2>1, DivUnique
    <2>3. r.off \div BlockSize = startblock(r)
      BY DEF startblock
    <2>4. QED
      BY <1>4, <2>2, <2>3
  <1>6. CASE o > z
    <2>1. endblock(r) * BlockSize <= o /\ o < endblock(r) * BlockSize + BlockSize
      BY <1>0, <1>1, <1>6
    <2>2. o \div BlockSize = endblock(r)
      BY <1>0, <1>1, <2>1, DivUnique
    <2>3. z \div BlockSize = endblock(r)
      BY DEF endblock
    <2>4. QED
      BY <1>4, <2>2, <2>3
  <1>7. CASE r.off <= o /\ o <= z
    <2>1. o \in r.off .. z
      BY <1>0, <1>1, <1>7
    <2>2. QED
      BY <2>1
  <1>8. QED
    BY <1>0, <1>1, <1>5, <1>6, <1>7

\* A request for whole blocks starts where its first block does.
LEMMA AlignedStarts ==
    ASSUME NEW r \in Requests, r.cmd \in {"read", "write"}, D!Aligned(r)
    PROVE  First(r) = r.off
  <1>0. BlockSize \in Nat \ {0} /\ Size \in Nat /\ Bytes = 0 .. Size - 1
    BY RequestAssumption, SizeIsNat
  <1>1. /\ r.off \in Nat /\ First(r) \in Nat /\ Span(r) \in Nat \ {0} /\ First(r) <= r.off
        /\ First(r) + Span(r) <= Size
    <2>1. /\ r.off \in Nat /\ First(r) \in Nat /\ Span(r) \in Nat /\ First(r) + Span(r) <= Size
          /\ r.off = First(r) + sboffs(r) /\ sboffs(r) \in 0 .. BlockSize - 1
          /\ r.len \in Nat \ {0} /\ r.len <= Span(r)
      BY <1>0, BlocksOfTransfer
    <2>2. QED
      BY <1>0, <2>1
  <1>2. First(r) \in Bytes /\ First(r) <= First(r) /\ First(r) <= First(r) + Span(r) - 1
    BY <1>0, <1>1
  <1>3. First(r) \in D!Touched(r)
    BY <1>2, BlocksAreTouched
  <1>4. First(r) \in D!Named(r)
    BY <1>3 DEF D!Aligned
  <1>5. QED
    BY <1>1, <1>4 DEF D!Named

\* What store does to the image: it writes blocks of the buffer, the first
\* ones of the request or all of them.
LEMMA StoreChanges ==
    ASSUME RequestInv, NEW k \in 0 .. blockcount(req), at = "store", StoreBlocks(k)
    PROVE  /\ req \in Requests /\ req.cmd = "write"
           /\ DOMAIN disk' = Bytes
           /\ k * BlockSize \in Nat /\ k * BlockSize <= Span(req)
           /\ \A o \in Bytes : disk'[o] = IF o \in First(req) .. First(req) + k * BlockSize - 1
                                          THEN readbuf[o - First(req)] ELSE disk[o]
  <1>1. req \in Requests /\ req.cmd = "write" /\ DOMAIN disk = Bytes
    BY DEF RequestInv, ServesOwnRequest, QTypeOK
  <1>2. blockcount(req) \in Nat /\ First(req) \in Nat /\ BlockSize \in Nat \ {0} /\ Size \in Nat
    BY <1>1, BlocksOfTransfer, RequestAssumption, SizeIsNat
  <1>3. k \in Nat /\ k <= blockcount(req)
    BY <1>2
  <1>4. k * BlockSize \in Nat /\ k * BlockSize <= Span(req)
    BY <1>2, <1>3, MoreBlocks DEF Span
  <1>5. disk' = [o \in Bytes |-> IF o \in First(req) .. First(req) + k * BlockSize - 1
                                 THEN readbuf[0 + o - First(req)] ELSE disk[o]]
    BY <1>1 DEF StoreBlocks, Put, First
  <1>6. \A o \in Bytes : 0 + o - First(req) = o - First(req)
    BY <1>2, SizeIsNat
  <1>7. QED
    BY <1>1, <1>4, <1>5, <1>6

LEMMA ReadyStep ==
    ASSUME DeviceInv, [Next]_qvars
    PROVE  ReadyToReply'
  <1>0. RequestInv /\ SyncInv /\ ReadyToReply /\ RequestInv'
    BY RequestStep DEF DeviceInv, SyncInv
  <1>1. Span(req)' = Span(req') /\ startblock(req)' = startblock(req')
        /\ D!Aligned(req)' = D!Aligned(req') /\ D!Named(req)' = D!Named(req')
    BY DEF Span, blockcount, startblock, endblock, D!Aligned, D!Named, D!Touched, D!Bytes
  <1>2. BlockSize \in Nat \ {0} /\ Size \in Nat /\ Bytes = 0 .. Size - 1
    BY RequestAssumption, SizeIsNat
  <1>a. ASSUME NEW r \in Requests, Send(r) PROVE ReadyToReply'
    <2>1. UNCHANGED <<disk, readbuf, hit, at, req, error>>
      BY <1>a DEF Send
    <2>2. QED
      BY <1>0, <1>1, <2>1 DEF ReadyToReply
  <1>b. CASE Deliver \/ Shut \/ Term \/ UNCHANGED qvars
    <2>1. UNCHANGED <<disk, readbuf, hit, at, req, error>>
      BY <1>b DEF Deliver, Shut, Term, qvars
    <2>2. QED
      BY <1>0, <1>1, <2>1 DEF ReadyToReply
  <1>c. CASE at' \notin {"reply", "data"} \/ error' = "EIO"
    BY <1>c DEF ReadyToReply
  <1>k. CASE send_reply \/ send_data \/ cut_reply
    <2>1. CASE at' = "data"
      <3>1. UNCHANGED <<disk, readbuf, hit, req, error>> /\ at \in {"reply", "data"}
        BY <1>k, <2>1, ReplySteps
      <3>2. QED
        BY <1>0, <1>1, <2>1, <3>1 DEF ReadyToReply
    <2>2. CASE at' \in {"idle", "killed"}
      BY <1>c, <2>2
    <2>3. QED
      BY <1>k, <2>1, <2>2, ReplySteps
  <1>d. CASE read_header \/ read_payload \/ Leave \/ TermInPayload
    <2>1. at' \notin {"reply", "data"}
      BY <1>d DEF read_header, read_payload, Leave, TermInPayload, Awaiting
    <2>2. QED
      BY <1>c, <2>1
  <1>e. CASE grow_buffer
    <2>1. req \in Requests /\ at' = req.cmd
      BY <1>e, <1>0 DEF grow_buffer, RequestInv, ServesOwnRequest
    <2>2. at' \notin {"reply", "data"}
      BY <2>1, RequestFacts
    <2>3. QED
      BY <1>c, <2>2
  <1>f. CASE prime_lead
    <2>1. at' \in {"reply", "data"} => error' = "EIO"
      BY <1>f, ReadBlocksKeeps DEF prime_lead
    <2>2. QED
      BY <1>c, <2>1
  <1>g. CASE prime_tail
    <2>1. at' \in {"reply", "data"} => error' = "EIO"
      BY <1>g, ReadBlocksKeeps DEF prime_tail
    <2>2. QED
      BY <1>c, <2>1
  <1>h. CASE serve_other
    <2>1. req \in Requests /\ req' = req /\ req.cmd \in {"disc", "other"}
      BY <1>h, <1>0 DEF serve_other, RequestInv, ServesOwnRequest
    <2>2. QED
      BY <2>1 DEF ReadyToReply
  <1>i. CASE serve_read
    <2>1. req \in Requests /\ req.cmd = "read" /\ UNCHANGED <<req, disk>>
      BY <1>i, <1>0 DEF serve_read, RequestInv, ServesOwnRequest
    <2>0. at' # "data"
      BY <1>i, ReadBlocksKeeps DEF serve_read
    <2>2. CASE at' = "reply" /\ error' # "EIO"
      <3>1. /\ readbuf' = Put(readbuf, 0, disk, First(req), Span(req))
            /\ Fits(0, Span(req))
        BY <1>i, <2>2, ReadBlocksKeeps DEF serve_read, First, Span
      <3>2. First(req) \in Nat /\ Span(req) \in Nat
        BY <2>1, BlocksOfTransfer
      <3>3. ASSUME NEW i \in 0 .. Span(req) - 1
            PROVE  readbuf'[i] = disk[First(req) + i]
        <4>1. PICK z \in Nat \ {0} : DOMAIN readbuf = 0 .. z - 1
          BY <1>0 DEF RequestInv, BufferIs
        <4>2. Span(req) - 1 \in 0 .. z - 1
          BY <3>1, <3>2, <4>1 DEF Fits
        <4>3. i \in DOMAIN readbuf /\ i \in 0 .. 0 + Span(req) - 1 /\ First(req) + i - 0 = First(req) + i
          BY <3>2, <4>1, <4>2
        <4>4. readbuf'[i] = disk[First(req) + i - 0]
          BY <3>1, <4>3 DEF Put
        <4>5. QED
          BY <4>3, <4>4
      <3>4. QED
        BY <1>1, <2>1, <3>3 DEF ReadyToReply, First
    <2>3. QED
      BY <1>c, <2>0, <2>2
  <1>j. CASE store
    <2>1. PICK k \in 0 .. blockcount(req) :
            StoreBlocks(k) /\ error' = IF k = blockcount(req) THEN "ok" ELSE "EIO"
      BY <1>j DEF store
    <2>2. at = "store" /\ UNCHANGED <<readbuf, hit, req>>
      BY <1>j DEF store
    <2>3. /\ req \in Requests /\ req.cmd = "write"
          /\ \A o \in Bytes : disk'[o] = IF o \in First(req) .. First(req) + k * BlockSize - 1
                                         THEN readbuf[o - First(req)] ELSE disk[o]
      BY <1>0, <2>1, <2>2, StoreChanges
    <2>4. ASSUME k = blockcount(req), D!Aligned(req), ~hit, NEW o \in D!Named(req)
          PROVE  disk'[o] = New(o)
      <3>1. First(req) = req.off
        BY <2>3, <2>4, AlignedStarts
      <3>2. /\ req.off \in Nat /\ req.len \in Nat \ {0} /\ req.off + req.len <= Size
            /\ Span(req) \in Nat /\ req.len <= Span(req) /\ Span(req) = k * BlockSize
        <4>1. Span(req) = k * BlockSize
          BY <2>4 DEF Span
        <4>2. QED
          BY <2>3, <4>1, BlocksOfTransfer
      <3>3. o \in req.off .. req.off + req.len - 1
        BY DEF D!Named
      <3>4. o \in Bytes /\ o \in First(req) .. First(req) + k * BlockSize - 1
            /\ o - First(req) \in 0 .. req.len - 1 /\ req.off + (o - First(req)) = o
        BY <1>2, <3>1, <3>2, <3>3
      <3>5. rembp = req.len /\ \A i \in 0 .. rembp - 1 : readbuf[i] = New(req.off + i)
        BY <1>0, <2>2, <2>4 DEF SyncInv, HoldsPayload, RequestInv, PayloadAddsUp
      <3>6. QED
        BY <2>3, <3>4, <3>5
    <2>5. CASE error' = "ok"
      <3>1. k = blockcount(req)
        BY <2>1, <2>5
      <3>2. QED
        BY <1>1, <2>2, <2>3, <2>4, <3>1 DEF ReadyToReply
    <2>6. QED
      BY <1>c, <2>1, <2>5
  <1>z. QED
    BY <1>a, <1>b, <1>d, <1>e, <1>f, <1>g, <1>h, <1>i, <1>j, <1>k DEF Next, Server

\* Every step of the request path is one of the block device, or none.
LEMMA DeviceStep ==
    ASSUME DeviceInv, [Next]_qvars
    PROVE  [D!Spoil \/ D!Take \/ D!Change \/ D!Answer]_(D!dvars)
  <1>0. RequestInv /\ SyncInv /\ ReadyToReply /\ ServesOwnRequest
    BY DEF DeviceInv, SyncInv, RequestInv
  <1>2. BlockSize \in Nat \ {0} /\ Size \in Nat /\ Bytes = 0 .. Size - 1
    BY RequestAssumption, SizeIsNat
  <1>a. ASSUME NEW r \in Requests, Send(r) PROVE UNCHANGED D!dvars
    BY <1>a DEF Send, D!dvars
  <1>b. CASE Deliver \/ Shut \/ Term \/ Leave \/ UNCHANGED qvars
    BY <1>b DEF Deliver, Shut, Term, Leave, qvars, D!dvars
  <1>c. CASE grow_buffer \/ serve_read \/ prime_lead \/ prime_tail \/ read_payload \/ serve_other
    BY <1>c DEF grow_buffer, serve_read, prime_lead, prime_tail, read_payload, serve_other, D!dvars
  <1>d. CASE read_header
    <2>1. req = NoReq
      BY <1>0, <1>d DEF read_header, ServesOwnRequest
    <2>2. CASE IsByte(Head(stream))
      BY <1>d, <2>2 DEF read_header, D!dvars
    <2>3. CASE ~IsByte(Head(stream))
      <3>1. req' = Head(stream) /\ reply' = NoReply /\ UNCHANGED <<disk, hit>>
        BY <1>d, <2>3 DEF read_header
      <3>2. Head(stream) # NoReq
        <4>1. stream \in Seq(Requests \cup Sent) /\ Len(stream) > 0
          BY <1>0, <1>d DEF RequestInv, QTypeOK, read_header
        <4>2. Head(stream) \in Requests
          BY <2>3, <4>1, StreamTail, SentAreBytes
        <4>3. QED
          BY <4>2, RequestFacts
      <3>3. D!Take
        BY <2>1, <3>1, <3>2 DEF D!Take, D!NoReq, D!NoReply, NoReq, NoReply
      <3>4. QED
        BY <3>3
    <2>4. QED
      BY <2>2, <2>3
  <1>e. CASE TermInPayload
    <2>1. D!Spoil
      BY <1>e DEF TermInPayload, D!Spoil
    <2>2. QED
      BY <2>1
  <1>f. CASE store
    <2>1. PICK k \in 0 .. blockcount(req) : StoreBlocks(k)
      BY <1>f DEF store
    <2>2. at = "store" /\ UNCHANGED <<reply, hit, req>>
      BY <1>f DEF store
    <2>3. /\ req \in Requests /\ req.cmd = "write" /\ DOMAIN disk' = Bytes
          /\ k * BlockSize \in Nat /\ k * BlockSize <= Span(req)
          /\ \A o \in Bytes : disk'[o] = IF o \in First(req) .. First(req) + k * BlockSize - 1
                                         THEN readbuf[o - First(req)] ELSE disk[o]
      BY <1>0, <2>1, <2>2, StoreChanges
    <2>4. /\ First(req) \in Nat /\ Span(req) \in Nat /\ req.off \in Nat /\ req.len \in Nat \ {0}
          /\ req.off + req.len <= Size
      BY <2>3, BlocksOfTransfer
    <2>5. D!Bytes = Bytes
      BY DEF D!Bytes, Bytes
    <2>6. ASSUME NEW o \in Bytes \ D!Touched(req) PROVE disk'[o] = disk[o]
      <3>1. ~(o \in First(req) .. First(req) + k * BlockSize - 1)
        <4> SUFFICES ASSUME o \in First(req) .. First(req) + k * BlockSize - 1 PROVE FALSE
          OBVIOUS
        <4>1. First(req) <= o /\ o <= First(req) + Span(req) - 1
          BY <1>2, <2>3, <2>4
        <4>2. QED
          BY <2>3, <4>1, BlocksAreTouched
      <3>2. QED
        BY <2>3, <3>1
    <2>7. ASSUME D!Aligned(req), ~hit, NEW o \in D!Named(req)
          PROVE  disk'[o] \in {disk[o], D!New(o)}
      <3>1. First(req) = req.off
        BY <2>3, <2>7, AlignedStarts
      <3>2. o \in req.off .. req.off + req.len - 1 /\ o \in Bytes
        BY <1>2, <2>4 DEF D!Named
      <3>3. o - First(req) \in 0 .. req.len - 1 /\ req.off + (o - First(req)) = o
        BY <2>4, <3>1, <3>2
      <3>4. rembp = req.len /\ \A i \in 0 .. rembp - 1 : readbuf[i] = New(req.off + i)
        BY <1>0, <2>2, <2>7 DEF SyncInv, HoldsPayload, RequestInv, PayloadAddsUp
      <3>5. readbuf[o - First(req)] = New(o)
        BY <3>3, <3>4
      <3>6. New(o) = D!New(o)
        BY DEF New, D!New
      <3>7. QED
        BY <2>3, <3>2, <3>5, <3>6
    <2>8. D!Change
      BY <2>2, <2>3, <2>5, <2>6, <2>7 DEF D!Change
    <2>9. QED
      BY <2>8
  <1>g. CASE (send_reply \/ send_data \/ cut_reply) /\ at' = "idle"
    <2>1. at \in {"reply", "data"} /\ req' = NoReq /\ UNCHANGED <<disk, hit>> /\ req \in Requests
      BY <1>0, <1>g, ReplySteps DEF ServesOwnRequest
    <2>2. /\ reply'.req = req /\ reply'.error = error
          /\ reply'.whole /\ req.cmd = "read" /\ error = "ok" => reply'.data = ReplyData(req)
      BY <1>g, ReplySteps
    <2>3. req # NoReq
      BY <2>1, RequestFacts
    <2>4. ASSUME error = "ok", req.cmd = "read", reply'.whole
          PROVE  reply'.data = [i \in 1 .. req.len |-> disk[req.off + i - 1]]
      <3>1. /\ First(req) \in Nat /\ Span(req) \in Nat /\ req.off \in Nat /\ req.len \in Nat \ {0}
            /\ req.off = First(req) + sboffs(req) /\ sboffs(req) \in 0 .. BlockSize - 1
            /\ sboffs(req) + req.len <= Span(req)
        BY <1>2, <2>1, <2>4, BlocksOfTransfer
      <3>2. \A i \in 0 .. Span(req) - 1 : readbuf[i] = disk[First(req) + i]
        BY <1>0, <2>1, <2>4 DEF ReadyToReply, First
      <3>3. ASSUME NEW i \in 1 .. req.len
            PROVE  readbuf[sboffs(req) + i - 1] = disk[req.off + i - 1]
        <4>1. sboffs(req) + i - 1 \in 0 .. Span(req) - 1
              /\ First(req) + (sboffs(req) + i - 1) = req.off + i - 1
          BY <1>2, <3>1
        <4>2. QED
          BY <3>2, <4>1
      <3>4. ReplyData(req) = [i \in 1 .. req.len |-> disk[req.off + i - 1]]
        BY <3>3 DEF ReplyData
      <3>5. QED
        BY <2>2, <2>4, <3>4
    <2>5. ASSUME error = "ok", req.cmd = "write", D!Aligned(req), ~hit, NEW o \in D!Named(req)
          PROVE  disk[o] = D!New(o)
      BY <1>0, <2>1, <2>5 DEF ReadyToReply, New, D!New
    <2>6. D!Answer
      BY <2>1, <2>2, <2>3, <2>4, <2>5 DEF D!Answer, D!NoReq, NoReq
    <2>7. QED
      BY <2>6
  <1>h. CASE (send_reply \/ send_data \/ cut_reply) /\ at' # "idle"
    BY <1>h, ReplySteps DEF D!dvars
  <1>z. QED
    BY <1>a, <1>b, <1>c, <1>d, <1>e, <1>f, <1>g, <1>h DEF Next, Server

\* The request path of imagemount implements the block device: a read is
\* answered with the bytes of the image, unless a signal cuts the answer
\* short, and a write of whole blocks changes its own bytes and no others, for
\* every size of blocks, of the device and of the buffer, wherever the image,
\* the socket or a signal fails it.
THEOREM DeviceIsImplemented == Spec => ImplementsDevice
  <1>1. Init => DeviceInv
    <2> SUFFICES ASSUME Init PROVE DeviceInv
      OBVIOUS
    <2>1. ReadyToReply
      BY DEF Init, ReadyToReply
    <2>2. QED
      BY <2>1, SyncInit DEF DeviceInv
  <1>2. DeviceInv /\ [Next]_qvars => DeviceInv'
    BY SyncStep, ReadyStep DEF DeviceInv
  <1>3. Init => D!DInit
    BY DEF Init, D!DInit, D!Bytes, Bytes, D!Old, Old, D!NoReq, NoReq, D!NoReply, NoReply
  <1>4. DeviceInv /\ [Next]_qvars => [D!Spoil \/ D!Take \/ D!Change \/ D!Answer]_(D!dvars)
    BY DeviceStep
  <1>5. QED
    BY <1>1, <1>2, <1>3, <1>4, PTL DEF Spec, ImplementsDevice, D!DSpec
=============================================================================
