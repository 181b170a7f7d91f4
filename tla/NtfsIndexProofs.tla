--------------------------- MODULE NtfsIndexProofs --------------------------
(***************************************************************************)
(* Seeking and reading in an ntfsclone image: for every number of clusters *)
(* and size of the buckets, every set of used clusters, every damage and   *)
(* every run of seeks and reads.                                           *)
(***************************************************************************)
EXTENDS NtfsIndex, IndexProofs

-----------------------------------------------------------------------------
(* The images that ntfsclone writes                                        *)

\* The clusters where an atom starts, how many of them are before cluster x,
\* and the start of the next atom.
Starts(n, u)    == {c \in 0 .. n - 1 : c = 0 \/ c \in u \/ c - 1 \in u}
Rank(n, u, x)   == Cardinality({d \in Starts(n, u) : d < x})
NthStart(n, u, i) == CHOOSE c \in Starts(n, u) : Rank(n, u, c) = i - 1
NextStart(n, u, c) ==
    CHOOSE d \in c + 1 .. n : /\ d = n \/ d \in Starts(n, u)
                              /\ \A e \in c + 1 .. d - 1 : e \notin Starts(n, u)

\* Written in these terms.
LEMMA WrittenAtoms ==
    ASSUME NEW n, NEW u
    PROVE  Written(n, u) = [i \in 1 .. Cardinality(Starts(n, u)) |->
               IF NthStart(n, u, i) \in u THEN Used
               ELSE Empty(NextStart(n, u, NthStart(n, u, i)) - NthStart(n, u, i))]
  BY DEF Written, Starts, Rank, NthStart, NextStart

\* Rank counts the starts one by one.
LEMMA RankStep ==
    ASSUME NEW n \in Nat \ {0}, NEW u, NEW x \in Nat
    PROVE  /\ Rank(n, u, 0) = 0 /\ Rank(n, u, x) \in Nat
           /\ Rank(n, u, x + 1) = Rank(n, u, x) + IF x \in Starts(n, u) THEN 1 ELSE 0
           /\ Rank(n, u, n) = Cardinality(Starts(n, u))
  <1> DEFINE S == Starts(n, u)
             R(y) == {d \in S : d < y}
  <1>1. \A d \in S : d \in Nat /\ d < n
    BY DEF Starts
  <1>2. R(0) = {} /\ R(n) = S
    BY <1>1
  <1>3. \A y \in Nat : IsFiniteSet(R(y))
    <2> SUFFICES ASSUME NEW y \in Nat PROVE IsFiniteSet(R(y))
      OBVIOUS
    <2>1. R(y) \subseteq 0 .. y - 1 /\ IsFiniteSet(0 .. y - 1)
      BY <1>1, FS_Interval
    <2>2. QED
      BY <2>1, FS_Subset
  <1>4. R(x + 1) = IF x \in S THEN R(x) \cup {x} ELSE R(x)
    BY <1>1
  <1>5. x \notin R(x)
    OBVIOUS
  <1> HIDE DEF S, R
  <1>6. Cardinality(R(0)) = 0 /\ Cardinality(R(x)) \in Nat
    BY <1>2, <1>3, FS_EmptySet, FS_CardinalityType
  <1>7. Cardinality(R(x + 1)) = Cardinality(R(x)) + IF x \in S THEN 1 ELSE 0
    <2>1. CASE x \in S
      <3>1. Cardinality(R(x) \cup {x}) = Cardinality(R(x)) + 1
        BY <1>3, <1>5, FS_AddElement
      <3>2. QED
        BY <1>4, <2>1, <3>1
    <2>2. CASE x \notin S
      BY <1>4, <1>6, <2>2
    <2>3. QED
      BY <2>1, <2>2
  <1>8. \A y : Rank(n, u, y) = Cardinality(R(y))
    BY DEF Rank, R, S
  <1>9. QED
    BY <1>2, <1>6, <1>7, <1>8 DEF S

\* A later cluster has no smaller rank, and a greater one behind a start.
LEMMA RankAscends ==
    ASSUME NEW n \in Nat \ {0}, NEW u, NEW x \in Nat, NEW y \in Nat, x <= y
    PROVE  /\ Rank(n, u, x) <= Rank(n, u, y)
           /\ x < y /\ x \in Starts(n, u) => Rank(n, u, x) < Rank(n, u, y)
  <1> DEFINE R(z) == Rank(n, u, z)
             T == {k \in Nat : /\ R(x) <= R(x + k)
                               /\ k > 0 /\ x \in Starts(n, u) => R(x) < R(x + k)}
  <1>0. \A z \in Nat : /\ R(z) \in Nat
                       /\ R(z + 1) = R(z) + IF z \in Starts(n, u) THEN 1 ELSE 0
    BY RankStep
  <1> HIDE DEF R
  <1>1. 0 \in T
    BY <1>0
  <1>2. ASSUME NEW k \in Nat, k \in T PROVE k + 1 \in T
    <2>1. x + (k + 1) = (x + k) + 1 /\ x + k \in Nat /\ k + 1 \in Nat
      OBVIOUS
    <2>2. R(x + (k + 1)) = R(x + k) + IF x + k \in Starts(n, u) THEN 1 ELSE 0
      BY <1>0, <2>1
    <2>3. R(x + k) \in Nat /\ R(x) \in Nat /\ R(x) <= R(x + k)
      BY <1>0, <1>2, <2>1
    <2>4. CASE k = 0
      BY <2>1, <2>2, <2>3, <2>4
    <2>5. CASE k # 0
      <3>1. x \in Starts(n, u) => R(x) < R(x + k)
        BY <1>2, <2>5
      <3>2. QED
        BY <2>1, <2>2, <2>3, <3>1
    <2>6. QED
      BY <2>4, <2>5
  <1>3. y - x \in T
    <2> HIDE DEF T
    <2>1. \A k \in Nat : k \in T
      BY <1>1, <1>2, NatSetInduction
    <2>2. QED
      BY <2>1
  <1>4. x + (y - x) = y
    OBVIOUS
  <1>5. QED
    BY <1>3, <1>4 DEF R

\* Every number up to the count of the starts has its start, and only one.
LEMMA NthStartIs ==
    ASSUME NEW n \in Nat \ {0}, NEW u, NEW i \in 1 .. Cardinality(Starts(n, u))
    PROVE  /\ NthStart(n, u, i) \in Starts(n, u) /\ Rank(n, u, NthStart(n, u, i)) = i - 1
           /\ \A c \in Starts(n, u) : Rank(n, u, c) = i - 1 => c = NthStart(n, u, i)
  <1> DEFINE R(z) == Rank(n, u, z)
             S == Starts(n, u)
             T == {x \in Nat : R(x) >= i}
             a == NthStart(n, u, i)
  <1>0. /\ R(0) = 0 /\ R(n) = Cardinality(S)
        /\ \A z \in Nat : R(z) \in Nat /\ R(z + 1) = R(z) + IF z \in S THEN 1 ELSE 0
    BY RankStep
  <1>1. \A c \in S : c \in Nat
    BY DEF Starts
  <1>2. \A c, d \in S : c < d => R(c) < R(d)
    BY <1>1, RankAscends
  <1> HIDE DEF R, S
  <1>3. i \in Nat /\ i >= 1 /\ R(n) >= i
    BY <1>0 DEF S
  <1>4. PICK x \in T : \A y \in T : x <= y
    <2>1. T \in SUBSET Nat /\ T # {}
      BY <1>3
    <2>2. QED
      BY <2>1, LeastElement
  <1>5. x \in Nat /\ x # 0 /\ R(x) >= i
    BY <1>0, <1>3, <1>4
  <1>6. x - 1 \in Nat /\ (x - 1) + 1 = x /\ ~(R(x - 1) >= i)
    BY <1>4, <1>5
  <1>7. R(x) = R(x - 1) + IF x - 1 \in S THEN 1 ELSE 0
    BY <1>0, <1>6
  <1>8. x - 1 \in S /\ R(x - 1) = i - 1
    BY <1>0, <1>3, <1>5, <1>6, <1>7
  <1>9. a \in S /\ R(a) = i - 1
    BY <1>8 DEF NthStart, R, S
  <1> HIDE DEF a
  <1>10. ASSUME NEW c \in S, R(c) = i - 1 PROVE c = a
    <2>1. c \in Nat /\ a \in Nat /\ R(c) = R(a) /\ R(c) \in Nat
      BY <1>0, <1>1, <1>9, <1>10
    <2>2. ~(c < a) /\ ~(a < c)
      BY <1>2, <1>9, <2>1
    <2>3. QED
      BY <2>1, <2>2
  <1>11. QED
    BY <1>9, <1>10 DEF a, R, S

\* The atom that starts at c ends where the next one starts, or at the end.
LEMMA NextStartIs ==
    ASSUME NEW n \in Nat \ {0}, NEW u, NEW c \in Starts(n, u)
    PROVE  /\ NextStart(n, u, c) \in c + 1 .. n
           /\ NextStart(n, u, c) = n \/ NextStart(n, u, c) \in Starts(n, u)
           /\ Rank(n, u, NextStart(n, u, c)) = Rank(n, u, c) + 1
           /\ c \in u => NextStart(n, u, c) = c + 1
  <1> DEFINE S == Starts(n, u)
             Stop(d) == (d = n \/ d \in S) /\ \A e \in c + 1 .. d - 1 : e \notin S
             T == {d \in c + 1 .. n : d = n \/ d \in S}
             a == NextStart(n, u, c)
             R(z) == Rank(n, u, z)
  <1>0. c \in 0 .. n - 1
    BY DEF Starts
  <1>1. PICK d \in T : \A e \in T : d <= e
    <2>1. T \in SUBSET Nat /\ T # {}
      BY <1>0
    <2>2. QED
      BY <2>1, LeastElement
  <1>2. d \in c + 1 .. n /\ Stop(d)
    BY <1>0, <1>1
  <1>3. a \in c + 1 .. n /\ Stop(a)
    <2>1. a = CHOOSE x \in c + 1 .. n : Stop(x)
      BY DEF NextStart
    <2> HIDE DEF Stop, a
    <2>2. QED
      BY <1>2, <2>1
  <1> HIDE DEF a
  <1>4. c \in u => a = c + 1
    <2> SUFFICES ASSUME c \in u, a # c + 1 PROVE FALSE
      OBVIOUS
    <2>1. c + 1 \in c + 1 .. a - 1 /\ c + 1 \in 0 .. n - 1 /\ (c + 1) - 1 = c
      BY <1>0, <1>3
    <2>2. c + 1 \in S
      BY <2>1 DEF Starts
    <2>3. QED
      BY <1>3, <2>1, <2>2
  <1>5. R(a) = R(c) + 1
    <2> DEFINE U == {k \in Nat : c + 1 + k <= a => R(c + 1 + k) = R(c) + 1}
    <2>0. \A z \in Nat : R(z) \in Nat /\ R(z + 1) = R(z) + IF z \in S THEN 1 ELSE 0
      BY RankStep
    <2> HIDE DEF R, S
    <2>1. 0 \in U
      <3>1. c \in S /\ c \in Nat /\ c + 1 + 0 = c + 1
        BY <1>0 DEF S
      <3>2. QED
        BY <2>0, <3>1
    <2>2. ASSUME NEW k \in Nat, k \in U PROVE k + 1 \in U
      <3>1. SUFFICES ASSUME c + 1 + (k + 1) <= a PROVE R(c + 1 + (k + 1)) = R(c) + 1
        OBVIOUS
      <3>2. c + 1 + k \in c + 1 .. a - 1 /\ c + 1 + (k + 1) = (c + 1 + k) + 1 /\ c + 1 + k \in Nat
            /\ c + 1 + k <= a
        BY <1>0, <1>3, <3>1
      <3>3. c + 1 + k \notin S
        BY <1>3, <3>2
      <3>4. R(c + 1 + k) = R(c) + 1 /\ R(c) \in Nat
        BY <1>0, <2>0, <2>2, <3>2
      <3>5. QED
        BY <2>0, <3>2, <3>3, <3>4
    <2>3. a - (c + 1) \in U
      <3> HIDE DEF U
      <3>1. \A k \in Nat : k \in U
        BY <2>1, <2>2, NatSetInduction
      <3>2. a - (c + 1) \in Nat
        BY <1>0, <1>3
      <3>3. QED
        BY <3>1, <3>2
    <2>4. c + 1 + (a - (c + 1)) = a /\ a <= a
      BY <1>0, <1>3
    <2>5. QED
      BY <2>3, <2>4
  <1>6. QED
    BY <1>3, <1>4, <1>5 DEF a

\* The atoms start where they should, have clusters and end at the last one.
LEMMA WrittenCovers ==
    ASSUME NEW n \in Nat \ {0}, NEW u, NEW s, s = Written(n, u)
    PROVE  s \in Seq(Atom) /\ Undamaged(s) /\ Covers(s, n)
  <1> DEFINE L == Cardinality(Starts(n, u))
             Nth(i) == NthStart(n, u, i)
             E(i) == IF i = L + 1 THEN n ELSE Nth(i)
             R(x) == Rank(n, u, x)
  <1>1. /\ R(0) = 0 /\ R(n) = L /\ L \in Nat
        /\ 0 \in Starts(n, u) /\ \A c \in Starts(n, u) : c \in 0 .. n - 1
    <2>1. R(0) = 0 /\ R(n) = L /\ R(n) \in Nat
      BY RankStep
    <2>2. 0 \in Starts(n, u) /\ \A c \in Starts(n, u) : c \in 0 .. n - 1
      BY DEF Starts
    <2>3. QED
      BY <2>1, <2>2
  <1>2. \A i \in 1 .. L : /\ Nth(i) \in Starts(n, u) /\ R(Nth(i)) = i - 1
                          /\ \A c \in Starts(n, u) : R(c) = i - 1 => c = Nth(i)
    BY NthStartIs
  <1>3. \A c \in Starts(n, u) : /\ NextStart(n, u, c) \in c + 1 .. n
                                /\ NextStart(n, u, c) = n \/ NextStart(n, u, c) \in Starts(n, u)
                                /\ R(NextStart(n, u, c)) = R(c) + 1
                                /\ c \in u => NextStart(n, u, c) = c + 1
    BY NextStartIs
  <1>4. s = [i \in 1 .. L |-> IF Nth(i) \in u THEN Used
                              ELSE Empty(NextStart(n, u, Nth(i)) - Nth(i))]
    BY WrittenAtoms
  <1>5. \A x \in 0 .. n - 1 : R(x) \in Nat /\ (x \in Starts(n, u) => R(x) < L)
    <2> SUFFICES ASSUME NEW x \in 0 .. n - 1 PROVE R(x) \in Nat /\ (x \in Starts(n, u) => R(x) < L)
      OBVIOUS
    <2>1. x \in Nat /\ x < n /\ x <= n
      OBVIOUS
    <2>2. QED
      BY <1>1, <2>1, RankStep, RankAscends
  <1> HIDE DEF L, Nth, R
  <1>6. L >= 1 /\ E(1) = 0 /\ E(L + 1) = n
    <2>1. 0 \in 0 .. n - 1 /\ L >= 1
      BY <1>1, <1>5
    <2>2. Nth(1) = 0
      BY <1>1, <1>2, <2>1
    <2>3. QED
      BY <1>1, <2>1, <2>2
  <1>7. ASSUME NEW i \in 1 .. L
        PROVE  /\ s[i] \in Atom /\ s[i] # Damaged /\ Width(s[i]) \in Nat /\ Width(s[i]) >= 1
               /\ E(i + 1) = E(i) + Width(s[i]) /\ E(i) \in 0 .. n - 1
    <2> DEFINE c == Nth(i)
               d == NextStart(n, u, c)
    <2>1. c \in Starts(n, u) /\ R(c) = i - 1 /\ c \in 0 .. n - 1
      BY <1>1, <1>2
    <2>2. d \in c + 1 .. n /\ (d = n \/ d \in Starts(n, u)) /\ R(d) = i /\ (c \in u => d = c + 1)
      <3>1. (i - 1) + 1 = i
        BY <1>1
      <3>2. QED
        BY <1>3, <2>1, <3>1
    <2>3. E(i) = c
      BY <1>1
    <2> HIDE DEF d, c
    <2>4. E(i + 1) = d
      <3>1. CASE d = n
        <4>1. i = L
          BY <1>1, <2>2, <3>1
        <4>2. QED
          BY <3>1, <4>1
      <3>2. CASE d # n
        <4>1. d \in Starts(n, u) /\ d \in 0 .. n - 1
          BY <1>1, <2>2, <3>2
        <4>2. i < L
          BY <1>5, <2>2, <4>1
        <4>3. i + 1 \in 1 .. L /\ (i + 1) - 1 = i /\ i + 1 # L + 1
          BY <1>1, <4>2
        <4>4. d = Nth(i + 1)
          BY <1>2, <2>2, <4>1, <4>3
        <4>5. QED
          BY <4>3, <4>4
      <3>3. QED
        BY <3>1, <3>2
    <2>5. s[i] = IF c \in u THEN Used ELSE Empty(d - c)
      BY <1>4 DEF c, d
    <2>6. d - c \in Nat /\ d - c >= 1 /\ c + (d - c) = d
      BY <2>1, <2>2
    <2>7. Used \in Atom /\ Used # Damaged /\ Width(Used) = 1
      BY DEF Atom, Width, Used, Damaged
    <2>8. Empty(d - c) \in Atom /\ Empty(d - c) # Damaged /\ Width(Empty(d - c)) = d - c
      <3>1. Empty(d - c) = <<"empty", d - c>>
        BY DEF Empty
      <3>2. <<"empty", d - c>> # Used /\ <<"empty", d - c>> # Damaged
        BY DEF Used, Damaged
      <3>3. <<"empty", d - c>> \in {"empty"} \X Nat
        BY <2>6
      <3>4. QED
        BY <3>1, <3>2, <3>3 DEF Atom, Width
    <2>9. Width(s[i]) = d - c
      <3>1. CASE c \in u
        BY <2>1, <2>2, <2>5, <2>7, <3>1
      <3>2. CASE c \notin u
        BY <2>5, <2>8, <3>2
      <3>3. QED
        BY <3>1, <3>2
    <2> HIDE DEF E
    <2>10. E(i + 1) = E(i) + Width(s[i]) /\ E(i) \in 0 .. n - 1
      BY <2>1, <2>3, <2>4, <2>6, <2>9
    <2>11. s[i] \in Atom /\ s[i] # Damaged
      BY <2>5, <2>7, <2>8
    <2>12. QED
      BY <2>6, <2>9, <2>10, <2>11
  <1>8. s \in Seq(Atom) /\ Len(s) = L /\ DOMAIN s = 1 .. L
    <2>1. DOMAIN s = 1 .. L /\ s = [i \in 1 .. L |-> s[i]]
      BY <1>4
    <2>2. s \in [1 .. L -> Atom]
      BY <1>7, <2>1
    <2> HIDE DEF E
    <2>3. QED
      BY <1>1, <2>1, <2>2
  <1>9. Undamaged(s)
    BY <1>7, <1>8 DEF Undamaged
  <1> HIDE DEF E
  <1>10. \A i \in 1 .. L + 1 : ClusterOf(s, i) = E(i)
    <2> DEFINE T == {k \in Nat : k <= L => ClusterOf(s, k + 1) = E(k + 1)}
    <2>0. ClusterOf(s, 1) = 0 /\ \A i \in 1 .. L : ClusterOf(s, i + 1) = ClusterOf(s, i) + Width(s[i])
      BY <1>8, ClusterOfStep
    <2>1. 0 \in T
      BY <1>6, <2>0
    <2>2. ASSUME NEW k \in Nat, k \in T PROVE k + 1 \in T
      <3>1. SUFFICES ASSUME k + 1 <= L PROVE ClusterOf(s, (k + 1) + 1) = E((k + 1) + 1)
        OBVIOUS
      <3>2. k + 1 \in 1 .. L /\ k <= L
        BY <1>1, <3>1
      <3>3. QED
        BY <1>7, <2>0, <2>2, <3>2
    <2>3. QED
      <3> HIDE DEF T
      <3>1. \A k \in Nat : k \in T
        BY <2>1, <2>2, NatSetInduction
      <3> SUFFICES ASSUME NEW i \in 1 .. L + 1 PROVE ClusterOf(s, i) = E(i)
        OBVIOUS
      <3>2. i - 1 \in Nat /\ i - 1 <= L /\ (i - 1) + 1 = i
        BY <1>1
      <3>3. i - 1 \in T
        BY <3>1, <3>2
      <3>4. QED
        BY <3>2, <3>3 DEF T
  <1>11. Covers(s, n)
    <2>1. s # <<>>
      BY <1>6, <1>8
    <2>2. L \in 1 .. L /\ L \in 1 .. L + 1 /\ L + 1 \in 1 .. L + 1
      BY <1>1, <1>6
    <2>3. ClusterOf(s, L) < n /\ ClusterOf(s, L + 1) = n
      BY <1>6, <1>7, <1>10, <2>2
    <2>4. QED
      BY <1>7, <1>8, <2>1, <2>3 DEF Covers
  <1>12. QED
    BY <1>8, <1>9, <1>11

\* Damage takes clusters away: the atoms behind it seem to start earlier.
LEMMA DamagedCovers ==
    ASSUME NEW n \in Nat \ {0}, NEW s \in Seq(Atom), Undamaged(s), Covers(s, n), NEW hit,
           NEW t, t = [i \in DOMAIN s |-> IF i \in hit THEN Damaged ELSE s[i]]
    PROVE  t \in Seq(Atom) /\ Covers(t, n)
  <1> DEFINE L == Len(s)
  <1>0. L \in Nat /\ DOMAIN s = 1 .. L /\ Damaged \in Atom /\ s # <<>>
    BY DEF Atom, Covers
  <1>1. t \in Seq(Atom) /\ Len(t) = L /\ DOMAIN t = 1 .. L
    <2>1. t \in [1 .. L -> Atom]
      BY <1>0
    <2>2. QED
      BY <1>0, <2>1
  <1>2. \A i \in 1 .. L : t[i] = IF i \in hit THEN Damaged ELSE s[i]
    BY <1>0
  <1>3. \A i \in 1 .. L : /\ Width(t[i]) \in Nat /\ Width(s[i]) \in Nat
                          /\ Width(t[i]) <= Width(s[i])
    <2>1. Width(Damaged) = 0
      BY DEF Width, Used, Damaged
    <2>2. \A i \in 1 .. L : Width(t[i]) \in Nat /\ Width(s[i]) \in Nat
      BY <1>0, <1>1, WidthIsNat
    <2>3. ASSUME NEW i \in 1 .. L PROVE Width(t[i]) <= Width(s[i])
      <3>1. CASE i \in hit
        <4>1. t[i] = Damaged
          BY <1>2, <3>1
        <4>2. QED
          BY <2>1, <2>2, <4>1
      <3>2. CASE i \notin hit
        <4>1. t[i] = s[i]
          BY <1>2, <3>2
        <4>2. QED
          BY <2>2, <4>1
      <3>3. QED
        BY <3>1, <3>2
    <2>4. QED
      BY <2>2, <2>3
  <1>4. ClusterOf(t, L) <= ClusterOf(s, L)
    <2> DEFINE T == {k \in Nat : k + 1 <= L => ClusterOf(t, k + 1) <= ClusterOf(s, k + 1)}
    <2>0. /\ ClusterOf(s, 1) = 0 /\ ClusterOf(t, 1) = 0
          /\ \A i \in 1 .. L : /\ ClusterOf(s, i) \in Nat /\ ClusterOf(t, i) \in Nat
                               /\ ClusterOf(s, i + 1) = ClusterOf(s, i) + Width(s[i])
                               /\ ClusterOf(t, i + 1) = ClusterOf(t, i) + Width(t[i])
      <3>1. \A i \in 1 .. L : i \in 1 .. L + 1
        OBVIOUS
      <3>2. QED
        BY <1>1, <3>1, ClusterOfStep
    <2>1. 0 \in T
      BY <2>0
    <2>2. ASSUME NEW k \in Nat, k \in T PROVE k + 1 \in T
      <3>1. SUFFICES ASSUME (k + 1) + 1 <= L
                     PROVE  ClusterOf(t, (k + 1) + 1) <= ClusterOf(s, (k + 1) + 1)
        OBVIOUS
      <3>2. k + 1 \in 1 .. L /\ k + 1 <= L
        BY <1>0, <3>1
      <3>3. ClusterOf(t, k + 1) <= ClusterOf(s, k + 1)
        BY <2>2, <3>2
      <3> DEFINE j == k + 1
      <3>4. /\ ClusterOf(s, j) \in Nat /\ ClusterOf(t, j) \in Nat
            /\ ClusterOf(s, j + 1) = ClusterOf(s, j) + Width(s[j])
            /\ ClusterOf(t, j + 1) = ClusterOf(t, j) + Width(t[j])
            /\ Width(t[j]) \in Nat /\ Width(s[j]) \in Nat /\ Width(t[j]) <= Width(s[j])
        BY <1>3, <2>0, <3>2
      <3>5. QED
        BY <3>3, <3>4
    <2>3. QED
      <3> HIDE DEF T
      <3>1. \A k \in Nat : k \in T
        BY <2>1, <2>2, NatSetInduction
      <3>2. L - 1 \in Nat /\ (L - 1) + 1 = L /\ L <= L
        BY <1>0
      <3>3. L - 1 \in T
        BY <3>1, <3>2
      <3>4. QED
        BY <3>2, <3>3 DEF T
  <1>5. ClusterOf(t, L) < n
    <2>1. L \in 1 .. L + 1
      BY <1>0
    <2>2. ClusterOf(t, L) \in Nat /\ ClusterOf(s, L) \in Nat
      BY <1>1, <2>1, ClusterOfStep
    <2>3. QED
      BY <1>4, <2>2 DEF Covers
  <1>6. \A i \in DOMAIN t : t[i] # Damaged => Width(t[i]) >= 1
    BY <1>0, <1>1, <1>2 DEF Covers, Undamaged
  <1>7. Undamaged(t) => t = s
    <2> SUFFICES ASSUME Undamaged(t) PROVE t = s
      OBVIOUS
    <2>1. \A i \in 1 .. L : t[i] = s[i]
      BY <1>1, <1>2 DEF Undamaged
    <2>2. QED
      BY <1>0, <1>1, <2>1
  <1>8. Undamaged(t) => ClusterOf(t, Len(t) + 1) = n
    BY <1>7 DEF Covers
  <1>9. QED
    BY <1>0, <1>1, <1>5, <1>6, <1>8 DEF Covers

\* What ntfsclone writes covers the clusters, damaged or not.
LEMMA ImagesCover ==
    ASSUME NEW n \in Nat \ {0}, NEW im \in Images(n)
    PROVE  im \in Seq(Atom) /\ Covers(im, n)
  <1>1. PICK u \in SUBSET (0 .. n - 1) :
           \E hit \in SUBSET DOMAIN Written(n, u) :
               im = [i \in DOMAIN Written(n, u) |->
                        IF i \in hit THEN Damaged ELSE Written(n, u)[i]]
    BY DEF Images
  <1> DEFINE s == Written(n, u)
  <1>2. s \in Seq(Atom) /\ Undamaged(s) /\ Covers(s, n)
    BY WrittenCovers
  <1> HIDE DEF s
  <1>3. PICK hit : im = [i \in DOMAIN s |-> IF i \in hit THEN Damaged ELSE s[i]]
    BY <1>1 DEF s
  <1>4. QED
    BY <1>2, <1>3, DamagedCovers

-----------------------------------------------------------------------------
(* The inductive invariant                                                 *)

ImageIsSound ==
    /\ nr \in 1 .. MaxClusters /\ minor \in {0, 1} /\ tolerant \in BOOLEAN
    /\ image \in Seq(Atom) /\ Covers(image, nr + minor)

\* Where v10_bsfcount says that the current bucket's first used cluster is.
First == BucketStart(entry) + bsfcount

\* It is there, or where the seek went that entered the bucket and stopped
\* looking, and no used cluster of the bucket is before it.
EntryIsKept ==
    /\ entry \in 0 .. nr + 1 /\ bucket = Bucket(entry) /\ First \in BucketStart(entry) .. entry
    /\ bsfcount \in Int
    /\ phase # "ready" => entry = 0 /\ bsfcount = 0 /\ got = <<>>
    /\ phase = "ready" =>
          /\ First \in ix.bitmap \/ First = entry
          /\ \A q \in BucketStart(entry) .. First - 1 : q \notin ix.bitmap

IndexIsVerified ==
    /\ phase \in {"open", "ready", "failed"} /\ curblock \in 0 .. nr + 1
    /\ phase = "ready" => /\ ix.bitmap \subseteq 0 .. nr
                          /\ tolerant \/ Undamaged(image)
                          /\ Undamaged(image) => IndexIsRight(ix, image, nr)

IndexInv == ImageIsSound /\ EntryIsKept /\ IndexIsVerified /\ ReadsOwnCluster

-----------------------------------------------------------------------------
(* Every step preserves it                                                 *)

\* v10_seek stops at the first used cluster of the bucket, or where it goes.
LEMMA SeekStops ==
    ASSUME NEW bits, NEW c \in Nat, NEW b, NEW f, Bucket(c) # b
    PROVE  /\ v10_seek(bits, b, f, c).bucket = Bucket(c)
           /\ \E p \in BucketStart(c) .. c :
                 /\ v10_seek(bits, b, f, c).bsfcount = p - BucketStart(c)
                 /\ p \in bits \/ p = c
                 /\ \A q \in BucketStart(c) .. p - 1 : q \notin bits
  <1> DEFINE T == {p \in BucketStart(c) .. c : p \in bits \/ p = c}
             Stop(p) == /\ p \in bits \/ p = c
                        /\ \A q \in BucketStart(c) .. p - 1 : q \notin bits
             e == CHOOSE p \in BucketStart(c) .. c : Stop(p)
  <1>1. BucketStart(c) \in 0 .. c
    BY BucketContains
  <1>2. T \in SUBSET Nat /\ T # {}
    BY <1>1
  <1>3. PICK p \in T : \A q \in T : p <= q
    BY <1>2, LeastElement
  <1>4. p \in BucketStart(c) .. c /\ Stop(p)
    BY <1>1, <1>3
  <1>5. e \in BucketStart(c) .. c /\ Stop(e)
    <2> HIDE DEF Stop
    <2>1. QED
      BY <1>4
  <1>6. v10_seek(bits, b, f, c) = [bucket |-> Bucket(c), bsfcount |-> e - BucketStart(c)]
    BY DEF v10_seek
  <1> HIDE DEF e
  <1>7. QED
    BY <1>5, <1>6

\* A count that was kept for the bucket leads to its first used cluster, if
\* the bucket was entered at or behind that.
LEMMA EnteredWellIsFirst ==
    ASSUME ImageIsSound, EntryIsKept, phase = "ready", NEW c \in Nat, c \in ix.bitmap,
           Bucket(c) = bucket, EnteredWell(c)
    PROVE  BucketStart(c) + bsfcount = FirstUsed(ix.bitmap, c)
  <1> DEFINE B == BucketStart(c)
             f == FirstUsed(ix.bitmap, c)
  <1>0. nr \in Nat /\ entry \in Nat /\ bsfcount \in Int
    BY DEF ImageIsSound, EntryIsKept
  <1>1. BucketStart(entry) = B /\ B \in 0 .. c
    BY <1>0, SameBucket, BucketContains DEF EntryIsKept
  <1>2. /\ First = B + bsfcount /\ First \in B .. entry
        /\ First \in ix.bitmap \/ First = entry
        /\ \A q \in B .. First - 1 : q \notin ix.bitmap
    BY <1>1 DEF EntryIsKept, First
  <1>3. PICK q \in B .. c : q \in ix.bitmap /\ q <= entry
    BY DEF EnteredWell
  <1>4. f \in B .. c /\ f \in ix.bitmap /\ \A r \in B .. f - 1 : r \notin ix.bitmap
    BY FirstUsedIsFirst
  <1> HIDE DEF f, B
  <1>5. First \in Int /\ q \in Int /\ f \in Int /\ B \in Int
    BY <1>0, <1>1, <1>2, <1>3, <1>4
  <1>6. First <= q
    BY <1>1, <1>2, <1>3, <1>5
  <1>7. First \in ix.bitmap
    BY <1>0, <1>2, <1>3, <1>5, <1>6
  <1>8. First <= f
    BY <1>1, <1>2, <1>4, <1>5
  <1>9. f <= First
    BY <1>1, <1>2, <1>3, <1>4, <1>5, <1>6, <1>7
  <1>10. QED
    BY <1>2, <1>5, <1>8, <1>9 DEF f, B

LEMMA VerifyStep == ASSUME IndexInv, Verify PROVE IndexInv'
  <1>0. ImageIsSound /\ EntryIsKept /\ IndexIsVerified /\ ReadsOwnCluster
    BY DEF IndexInv
  <1>1. /\ UNCHANGED <<image, minor, nr, tolerant, bucket, bsfcount, curblock, entry, got>>
        /\ phase = "open" /\ phase' \in {"ready", "failed"}
    BY DEF Verify, fixed
  <1>2. entry = 0 /\ bsfcount = 0 /\ got = <<>> /\ First = 0 /\ BucketStart(entry) = 0
    <2>1. entry = 0 /\ bsfcount = 0 /\ got = <<>>
      BY <1>0, <1>1 DEF EntryIsKept
    <2>2. BucketStart(0) \in 0 .. 0
      BY BucketContains
    <2>3. QED
      BY <2>1, <2>2 DEF First
  <1>3. ImageIsSound'
    BY <1>0, <1>1 DEF ImageIsSound
  <1>4. EntryIsKept'
    <2>1. First' = 0 /\ (BucketStart(entry))' = 0 /\ entry' = 0
      BY <1>1, <1>2 DEF First
    <2>2. QED
      BY <1>0, <1>1, <1>2, <2>1 DEF EntryIsKept
  <1>5. IndexIsVerified'
    <2>1. CASE phase' = "failed"
      BY <1>0, <1>1, <2>1 DEF IndexIsVerified
    <2>2. CASE phase' = "ready"
      <3>1. PICK v \in v10_verify(image, nr, tolerant) :
               v.error = "ok" /\ ix' = [bitmap |-> v.bitmap, offset |-> v.offset]
        BY <2>2 DEF Verify
      <3>2. /\ nr \in Nat /\ nr + minor \in {nr, nr + 1} /\ image \in Seq(Atom)
            /\ tolerant \in BOOLEAN /\ Covers(image, nr + minor) /\ image # <<>>
        BY <1>0 DEF ImageIsSound, Covers
      <3>3. (tolerant \/ Undamaged(image)) /\ (Undamaged(image) => IndexIsRight(v, image, nr))
        BY <3>1, <3>2, VerifyRight
      <3>4. v.bitmap \subseteq 0 .. nr
        <4>1. v \in ScanStates(nr)
          BY <3>1, <3>2, VerifyType
        <4>2. QED
          BY <4>1 DEF ScanStates
      <3>5. ix'.bitmap = v.bitmap /\ ix'.offset = v.offset
        BY <3>1
      <3>6. IndexIsRight(v, image, nr) => IndexIsRight(ix', image, nr)
        BY <3>5 DEF IndexIsRight
      <3>7. QED
        BY <1>0, <1>1, <2>2, <3>3, <3>4, <3>5, <3>6 DEF IndexIsVerified
    <2>3. QED
      BY <1>1, <2>1, <2>2
  <1>6. ReadsOwnCluster'
    BY <1>1, <1>2 DEF ReadsOwnCluster, Strict
  <1>7. QED
    BY <1>3, <1>4, <1>5, <1>6 DEF IndexInv

LEMMA SeekStep ==
    ASSUME IndexInv, NEW c \in 0 .. MaxClusters + 1, ntfsclone_seek(c)
    PROVE  IndexInv'
  <1> DEFINE d == Redirect(minor, nr + 1, c)
             s == v10_seek(ix.bitmap, bucket, bsfcount, d)
  <1>0. ImageIsSound /\ EntryIsKept /\ IndexIsVerified /\ ReadsOwnCluster
    BY DEF IndexInv
  <1>1. /\ UNCHANGED <<image, minor, nr, tolerant, phase, ix>> /\ curblock' = c /\ got' = <<>>
        /\ phase = "ready" /\ c <= nr + 1 /\ bucket' = s.bucket /\ bsfcount' = s.bsfcount
        /\ entry' = IF s.bucket = bucket THEN entry ELSE d
    BY DEF ntfsclone_seek, fixed
  <1>2. nr \in Nat /\ d \in 0 .. nr + 1 /\ d \in Nat
    BY <1>0, <1>1, MaxClustersAssumption DEF ImageIsSound, Redirect
  <1>3. ImageIsSound'
    BY <1>0, <1>1 DEF ImageIsSound
  <1>4. IndexIsVerified'
    BY <1>0, <1>1, <1>2, MaxClustersAssumption DEF IndexIsVerified
  <1>5. ReadsOwnCluster'
    BY <1>1 DEF ReadsOwnCluster, Strict
  <1>6. EntryIsKept'
    <2>1. CASE Bucket(d) = bucket
      <3>1. s.bucket = bucket /\ s.bsfcount = bsfcount
        BY <2>1 DEF v10_seek
      <3>2. UNCHANGED <<entry, bucket, bsfcount, ix, nr, phase>>
        BY <1>1, <3>1
      <3>3. First' = First
        BY <3>2 DEF First
      <3>4. QED
        BY <1>0, <1>1, <3>2, <3>3 DEF EntryIsKept
    <2>2. CASE Bucket(d) # bucket
      <3> HIDE DEF d
      <3>1. /\ s.bucket = Bucket(d)
            /\ \E p \in BucketStart(d) .. d :
                  /\ s.bsfcount = p - BucketStart(d)
                  /\ p \in ix.bitmap \/ p = d
                  /\ \A q \in BucketStart(d) .. p - 1 : q \notin ix.bitmap
        BY <1>2, <2>2, SeekStops
      <3> HIDE DEF s
      <3>2. PICK p \in BucketStart(d) .. d :
                  /\ s.bsfcount = p - BucketStart(d)
                  /\ p \in ix.bitmap \/ p = d
                  /\ \A q \in BucketStart(d) .. p - 1 : q \notin ix.bitmap
        BY <3>1
      <3>3. entry' = d /\ bucket' = Bucket(d) /\ bsfcount' = p - BucketStart(d)
        BY <1>1, <2>2, <3>1, <3>2
      <3>4. BucketStart(d) \in Int /\ p \in Int
        BY <1>2, BucketContains
      <3>5. First' = p
        BY <3>3, <3>4 DEF First
      <3>6. (BucketStart(entry))' = BucketStart(d)
        BY <3>3
      <3>7. QED
        BY <1>1, <1>2, <3>2, <3>3, <3>4, <3>5, <3>6 DEF EntryIsKept
    <2>3. QED
      BY <2>1, <2>2
  <1>7. QED
    BY <1>3, <1>4, <1>5, <1>6 DEF IndexInv

LEMMA ReadStep == ASSUME IndexInv, v10_readblock PROVE IndexInv'
  <1> DEFINE r == ReadImage(image, ix, bucket, bsfcount, curblock)
  <1>0. ImageIsSound /\ EntryIsKept /\ IndexIsVerified /\ ReadsOwnCluster
    BY DEF IndexInv
  <1>1. /\ UNCHANGED <<image, minor, nr, tolerant, phase, ix, bucket, bsfcount, entry>>
        /\ phase = "ready" /\ curblock <= nr
        /\ got' = [blk |-> curblock, error |-> r[1], data |-> r[2]]
        /\ curblock' = IF r[1] = "ok" THEN curblock + 1 ELSE curblock
    BY DEF v10_readblock, fixed
  <1>2. nr \in Nat /\ curblock \in Nat
    BY <1>0 DEF ImageIsSound, IndexIsVerified
  <1>3. ImageIsSound'
    BY <1>0, <1>1 DEF ImageIsSound
  <1>4. IndexIsVerified'
    <2>1. curblock' \in 0 .. nr + 1
      BY <1>1, <1>2
    <2>2. QED
      BY <1>0, <1>1, <2>1 DEF IndexIsVerified
  <1>5. EntryIsKept'
    <2>1. First' = First /\ (BucketStart(entry))' = BucketStart(entry)
      BY <1>1 DEF First
    <2>2. QED
      BY <1>0, <1>1, <2>1 DEF EntryIsKept
  <1>6. ReadsOwnCluster'
    <2> SUFFICES ASSUME ~tolerant, curblock < nr, Bucket(curblock) # bucket \/ EnteredWell(curblock)
                 PROVE  r[1] = "ok" /\ r[2] = ClusterContent(image, curblock)
      <3> HIDE DEF r
      <3>1. got'.blk = curblock /\ got'.error = r[1] /\ got'.data = r[2]
        BY <1>1
      <3>2. EnteredWell(got.blk)' <=> EnteredWell(curblock)
        BY <1>1, <3>1 DEF EnteredWell
      <3>3. QED
        BY <1>1, <3>1, <3>2 DEF ReadsOwnCluster, Strict
    <2>1. Undamaged(image) /\ IndexIsRight(ix, image, nr)
      BY <1>0, <1>1 DEF IndexIsVerified
    <2>2. curblock \in ix.bitmap /\ Bucket(curblock) = bucket =>
             BucketStart(curblock) + bsfcount = FirstUsed(ix.bitmap, curblock)
      BY <1>0, <1>1, <1>2, EnteredWellIsFirst
    <2>3. curblock \in 0 .. nr - 1 /\ image \in Seq(Atom) /\ Covers(image, nr + minor)
      BY <1>0, <1>2 DEF ImageIsSound
    <2>4. r = <<"ok", ClusterContent(image, curblock)>>
      BY <1>2, <2>1, <2>2, <2>3, ReadRight
    <2>5. QED
      BY <2>4
  <1>7. QED
    BY <1>3, <1>4, <1>5, <1>6 DEF IndexInv

LEMMA IndexStep == IndexInv /\ [Next]_ivars => IndexInv'
  <1> SUFFICES ASSUME IndexInv, [Next]_ivars PROVE IndexInv'
    OBVIOUS
  <1>1. CASE UNCHANGED ivars
    BY <1>1 DEF ivars, IndexInv, ImageIsSound, EntryIsKept, First, IndexIsVerified,
       ReadsOwnCluster, Strict, EnteredWell
  <1>2. QED
    BY <1>1, VerifyStep, SeekStep, ReadStep DEF Next

LEMMA IndexInit == Init => IndexInv
  <1> SUFFICES ASSUME Init PROVE IndexInv
    OBVIOUS
  <1>1. nr \in 1 .. MaxClusters /\ minor \in {0, 1} /\ image \in Images(nr + minor)
    BY DEF Init
  <1>2. nr + minor \in Nat \ {0}
    BY <1>1, MaxClustersAssumption
  <1>3. ImageIsSound
    BY <1>1, <1>2, ImagesCover DEF Init, ImageIsSound
  <1>4. BucketStart(0) = 0 /\ Bucket(0) = 0
    <2>1. BucketStart(0) \in 0 .. 0 /\ Bucket(0) \in Nat /\ Bucket(0) * 2 ^ Factor = BucketStart(0)
      BY BucketContains
    <2>2. QED
      BY <2>1, FactorAssumption
  <1>5. EntryIsKept
    BY <1>1, <1>4, MaxClustersAssumption DEF Init, EntryIsKept, First
  <1>6. IndexIsVerified /\ ReadsOwnCluster
    BY <1>1, MaxClustersAssumption DEF Init, IndexIsVerified, ReadsOwnCluster, Strict
  <1>7. QED
    BY <1>3, <1>5, <1>6 DEF IndexInv

-----------------------------------------------------------------------------
(* The theorems                                                            *)

\* The variables of the index keep their types: v10_bsfcount counts clusters
\* of one bucket, and ntfsclone_seek and v10_readblock stay inside of the
\* image with its trailing cluster.
THEOREM NxTypeCorrect == Spec => []TypeOK
  <1>1. IndexInv => TypeOK
    <2> SUFFICES ASSUME IndexInv PROVE TypeOK
      OBVIOUS
    <2>0. ImageIsSound /\ EntryIsKept /\ IndexIsVerified
      BY DEF IndexInv
    <2>1. nr \in Nat /\ entry \in Nat /\ entry <= nr + 1 /\ bucket = Bucket(entry)
      BY <2>0 DEF ImageIsSound, EntryIsKept
    <2>2. bucket \in 0 .. Bucket(nr + 1)
      BY <2>1, BucketMonotone
    <2>3. bsfcount \in 0 .. 2 ^ Factor - 1
      <3> DEFINE d == 2 ^ Factor
      <3>1. d \in Nat \ {0}
        BY FactorAssumption
      <3>2. BucketStart(entry) = entry - (entry % d)
        BY DEF BucketStart
      <3> HIDE DEF d
      <3>3. entry % d \in 0 .. d - 1
        BY <2>1, <3>1, DivMod
      <3>4. bsfcount \in Int /\ BucketStart(entry) + bsfcount \in BucketStart(entry) .. entry
        BY <2>0 DEF EntryIsKept, First
      <3>5. bsfcount \in 0 .. d - 1
        BY <2>1, <3>1, <3>2, <3>3, <3>4
      <3>6. QED
        BY <3>5 DEF d
    <2>4. QED
      BY <2>0, <2>2, <2>3 DEF TypeOK, IndexIsVerified
  <1>2. QED
    BY <1>1, IndexInit, IndexStep, PTL DEF Spec

\* An image that v10_verify accepts in strict mode is undamaged, and its index
\* is right: bit by bit and bucket by bucket.
THEOREM NxVerifiedIndexIsRight == Spec => []VerifiedIndexIsRight
  <1>1. IndexInv => VerifiedIndexIsRight
    BY DEF IndexInv, IndexIsVerified, VerifiedIndexIsRight
  <1>2. QED
    BY <1>1, IndexInit, IndexStep, PTL DEF Spec

\* v10_readblock gives the right cluster, whatever was sought and read before,
\* outside of the current bucket, and inside of it if the seek that entered
\* the bucket went to its first used cluster or behind.
THEOREM NxReadsOwnCluster == Spec => []ReadsOwnCluster
  <1>1. IndexInv => ReadsOwnCluster
    BY DEF IndexInv
  <1>2. QED
    BY <1>1, IndexInit, IndexStep, PTL DEF Spec
=============================================================================
