----------------------------- MODULE ImageProofs -----------------------------
(***************************************************************************)
(* Proofs about AppImage and Ble: sequences that are cut into pieces by one *)
(* side and put together by another, for every size of a page and of a      *)
(* frame.                                                                   *)
(***************************************************************************)
EXTENDS ImagesAndFrames, SequenceTheorems, FiniteSetTheorems, WellFoundedInduction, TLAPS

(* Numbers. *)

\* A set of numbers has a least one.
LEMMA LeastOf ==
    ASSUME NEW S \in SUBSET Nat, S # {}
    PROVE  \E k \in S : \A j \in Nat : j < k => j \notin S
<1> DEFINE R == OpToRel(<, Nat)
<1>1. IsWellFoundedOn(R, Nat)
    BY NatLessThanWellFounded, Zenon
<1>2. \A x, y \in Nat : y < x => <<y, x>> \in R
    BY DEF OpToRel
<1> HIDE DEF R
<1>3. PICK x \in S : \A y \in S : ~ (<<y, x>> \in R)
    BY <1>1, WFMin
<1>4. \A j \in Nat : j < x => j \notin S
    BY <1>2, <1>3, Zenon
<1> QED BY <1>4

LEMMA Induction ==
    ASSUME NEW S \in SUBSET Nat, 0 \in S, \A k \in S : k + 1 \in S
    PROVE  \A k \in Nat : k \in S
<1> SUFFICES ASSUME Nat \ S # {} PROVE FALSE
    BY Zenon
<1>1. PICK k \in Nat \ S : \A j \in Nat : j < k => j \notin Nat \ S
    <2> DEFINE Rest == Nat \ S
    <2>1. Rest \in SUBSET Nat /\ Rest # {}
        OBVIOUS
    <2> HIDE DEF Rest
    <2>2. \E k \in Rest : \A j \in Nat : j < k => j \notin Rest
        BY <2>1, LeastOf
    <2> QED BY <2>2, Zenon DEF Rest
<1>2. k # 0 /\ k \in Nat
    OBVIOUS
<1>3. k - 1 \in Nat /\ k - 1 < k /\ (k - 1) + 1 = k
    BY <1>2
<1> QED BY <1>1, <1>3, Zenon

LEMMA Products ==
    ASSUME NEW a \in Int, NEW b \in Int, a =< b, NEW p \in Nat
    PROVE  a * p =< b * p
OBVIOUS

\* The smaller of two numbers.
LEMMA MinOfTwo ==
    ASSUME NEW a \in Nat, NEW b \in Nat
    PROVE  Min({a, b}) = IF a =< b THEN a ELSE b
BY DEF Min
-----------------------------------------------------------------------------
(* Pieces of a sequence. *)

\* ps are the pieces of s that end at b.
Pieces(ps, s, b) ==
    /\ Len(ps) \in Nat \ {0} /\ b[0] = 0
    /\ \A k \in 1 .. Len(ps) :
        /\ b[k - 1] \in Nat /\ b[k] \in Nat /\ b[k - 1] =< b[k] /\ b[k] =< Len(s)
        /\ ps[k] = SubSeq(s, b[k - 1] + 1, b[k])

LEMMA PiecesJoin ==
    ASSUME NEW T, NEW s \in Seq(T), NEW x \in Nat, NEW y \in Nat, x =< y, y =< Len(s)
    PROVE  SubSeq(s, 1, x) \o SubSeq(s, x + 1, y) = SubSeq(s, 1, y)
<1> DEFINE u == SubSeq(s, 1, x)
           v == SubSeq(s, x + 1, y)
           w == SubSeq(s, 1, y)
<1>1. Len(s) \in Nat /\ \A i \in 1 .. Len(s) : s[i] \in T
    OBVIOUS
<1>2. u \in Seq(T) /\ Len(u) = x /\ \A i \in 1 .. x : u[i] = s[i]
    <2>1. \A i \in 1 .. x : s[i] \in T
        BY <1>1
    <2> QED BY <2>1, SubSeqProperties
<1>3. w \in Seq(T) /\ Len(w) = y /\ \A i \in 1 .. y : w[i] = s[i]
    <2>1. \A i \in 1 .. y : s[i] \in T
        BY <1>1
    <2> QED BY <2>1, SubSeqProperties
<1>4. v \in Seq(T) /\ Len(v) = y - x /\ \A i \in 1 .. (y - x) : v[i] = s[x + i]
    <2>1. \A i \in (x + 1) .. y : s[i] \in T
        BY <1>1
    <2>2. /\ v \in Seq(T)
          /\ Len(v) = IF x + 1 =< y THEN y - (x + 1) + 1 ELSE 0
          /\ \A i \in 1 .. (y - (x + 1) + 1) : v[i] = s[(x + 1) + i - 1]
        BY <2>1, SubSeqProperties
    <2>3. (IF x + 1 =< y THEN y - (x + 1) + 1 ELSE 0) = y - x /\ y - (x + 1) + 1 = y - x
        OBVIOUS
    <2>4. \A i \in 1 .. (y - x) : (x + 1) + i - 1 = x + i
        OBVIOUS
    <2> HIDE DEF v
    <2> QED BY <2>2, <2>3, <2>4
<1> HIDE DEF u, v, w
<1>5. /\ u \o v \in Seq(T) /\ Len(u \o v) = y
      /\ \A i \in 1 .. y : (u \o v)[i] = IF i =< x THEN u[i] ELSE v[i - x]
    BY <1>2, <1>4, ConcatProperties
<1>6. ASSUME NEW i \in 1 .. y PROVE (u \o v)[i] = w[i]
    <2>1. CASE i =< x
        BY <1>2, <1>3, <1>5, <2>1
    <2>2. CASE ~ (i =< x)
        <3>1. i - x \in 1 .. (y - x) /\ x + (i - x) = i
            BY <2>2
        <3> QED BY <1>3, <1>4, <1>5, <2>2, <3>1
    <2> QED BY <2>1, <2>2
<1>7. u \o v = w
    BY <1>3, <1>5, <1>6, SeqEqual
<1> QED BY <1>7 DEF u, v, w

\* Pieces put together are the sequence up to where the last one ends.
LEMMA FlattenPieces ==
    ASSUME NEW T, NEW s \in Seq(T), NEW ps, NEW b, Pieces(ps, s, b)
    PROVE  FlattenSeq(ps) = SubSeq(s, 1, b[Len(ps)])
<1> DEFINE N == Len(ps)
           Flat(f) == [i \in 1 .. N |-> IF i = 1 THEN ps[i] ELSE f[i - 1] \o ps[i]]
           g == [i \in 1 .. N |-> SubSeq(s, 1, b[i])]
           f == CHOOSE h : h = Flat(h)
<1>1. N \in Nat /\ N # 0 /\ N >= 1
    BY DEF Pieces
<1>2. \A k \in 1 .. N :
        /\ b[k - 1] \in Nat /\ b[k] \in Nat /\ b[k - 1] =< b[k] /\ b[k] =< Len(s)
        /\ ps[k] = SubSeq(s, b[k - 1] + 1, b[k])
    BY Zenon DEF Pieces
<1>3. FlattenSeq(ps) = f[N]
    BY <1>1, Zenon DEF FlattenSeq
<1>4. ASSUME NEW i \in 1 .. N
      PROVE  g[i] = IF i = 1 THEN ps[i] ELSE g[i - 1] \o ps[i]
    <2>1. g[i] = SubSeq(s, 1, b[i])
        OBVIOUS
    <2>2. CASE i = 1
        <3>1. b[i - 1] = 0 /\ 1 - 1 = 0
            BY <2>2 DEF Pieces
        <3>2. ps[i] = SubSeq(s, 0 + 1, b[i])
            BY <1>2, <3>1, Zenon
        <3>3. 0 + 1 = 1
            OBVIOUS
        <3> HIDE DEF g
        <3> QED BY <2>1, <2>2, <3>2, <3>3, Zenon
    <2>3. CASE i # 1
        <3>1. i - 1 \in 1 .. N
            BY <1>1, <2>3
        <3>2. g[i - 1] = SubSeq(s, 1, b[i - 1])
            BY <3>1
        <3> HIDE DEF g
        <3>3. SubSeq(s, 1, b[i - 1]) \o SubSeq(s, b[i - 1] + 1, b[i]) = SubSeq(s, 1, b[i])
            BY <1>2, PiecesJoin
        <3> QED BY <1>2, <2>1, <2>3, <3>2, <3>3, Zenon
    <2> QED BY <2>2, <2>3
<1>5. g = Flat(g)
    <2> HIDE DEF g
    <2>1. g = [i \in 1 .. N |-> g[i]]
        BY DEF g
    <2> QED BY <1>4, <2>1, Zenon
<1>6. f = Flat(f)
    <2> HIDE DEF g
    <2> QED BY <1>5, Zenon
<1> HIDE DEF f, N
<1>7. \A i \in 1 .. N : f[i] = IF i = 1 THEN ps[i] ELSE f[i - 1] \o ps[i]
    BY <1>6, Zenon
<1> DEFINE S == {k \in Nat : k \in 1 .. N => f[k] = g[k]}
<1>8. ASSUME NEW k \in S PROVE k + 1 \in S
    <2> HIDE DEF g
    <2>1. k \in Nat /\ (k \in 1 .. N => f[k] = g[k])
        OBVIOUS
    <2> SUFFICES ASSUME k + 1 \in 1 .. N PROVE f[k + 1] = g[k + 1]
        BY <2>1
    <2>2. CASE k = 0
        <3>1. k + 1 = 1
            BY <2>2
        <3> QED BY <1>4, <1>7, <3>1, Zenon
    <2>3. CASE k # 0
        <3>1. k \in 1 .. N /\ k + 1 # 1 /\ (k + 1) - 1 = k
            BY <1>1, <2>1, <2>3
        <3>2. f[k + 1] = f[k] \o ps[k + 1] /\ g[k + 1] = g[k] \o ps[k + 1]
            BY <1>4, <1>7, <3>1
        <3> QED BY <2>1, <3>1, <3>2
    <2> QED BY <2>2, <2>3
<1>9. S \in SUBSET Nat /\ 0 \in S
    OBVIOUS
<1> HIDE DEF S
<1>10. N \in S
    BY <1>1, <1>8, <1>9, Induction
<1>11. N \in 1 .. N
    BY <1>1
<1>12. f[N] = g[N]
    BY <1>10, <1>11, Zenon DEF S
<1> QED BY <1>3, <1>11, <1>12 DEF N
-----------------------------------------------------------------------------
(* The frames of Ble. *)

LEMMA StartFacts ==
    /\ Start(0) = 0
    /\ \A i \in Nat :
        /\ Start(i) \in Nat /\ Room(i) \in Nat /\ Start(i) >= i
        /\ Start(i + 1) = Start(i) + Room(i)
        /\ Room(i) + (IF i = 0 THEN FirstHeader ELSE NextHeader) = mtu
<1>1. mtu \in Nat /\ mtu > 5 /\ FirstHeader = 5 /\ NextHeader = 3
    BY BleAssumption DEF FirstHeader, NextHeader
<1>2. Room(0) = mtu - 5 /\ \A i \in Nat \ {0} : Room(i) = mtu - 3
    BY <1>1 DEF Room
<1>3. Start(0) = 0
    BY DEF Start
<1>4. ASSUME NEW i \in Nat
      PROVE  /\ Start(i) \in Nat /\ Room(i) \in Nat /\ Start(i) >= i
             /\ Start(i + 1) = Start(i) + Room(i)
             /\ Room(i) + (IF i = 0 THEN FirstHeader ELSE NextHeader) = mtu
    <2> DEFINE w == mtu - 3
               x == (i - 1) * w
    <2>1. w \in Nat /\ w >= 1 /\ Room(0) = w - 2 /\ Room(1) = w /\ w >= 3
        BY <1>1, <1>2
    <2>2. CASE i = 0
        <3>1. Start(i + 1) = Room(0) + (1 - 1) * Room(1)
            BY <2>2 DEF Start
        <3> HIDE DEF w
        <3>2. (1 - 1) * Room(1) = 0
            BY <2>1
        <3> QED BY <1>1, <1>2, <1>3, <2>1, <2>2, <3>1, <3>2
    <2>3. CASE i # 0
        <3>1. Start(i) = Room(0) + (i - 1) * Room(1) /\ Start(i + 1) = Room(0) + i * Room(1)
            BY <2>3 DEF Start
        <3>2. Room(i) = w
            BY <1>2, <2>3
        <3> HIDE DEF w
        <3>3. x \in Int /\ i * w = x + w
            BY <2>1
        <3>4. i - 1 =< x
            <4>1. 1 * (i - 1) =< w * (i - 1)
                <5>1. i - 1 \in Nat
                    BY <2>3
                <5> QED BY <2>1, <5>1, Products
            <4> QED BY <2>1, <4>1
        <3>5. Start(i) = (w - 2) + x /\ Start(i + 1) = (w - 2) + (x + w)
            BY <2>1, <3>1, <3>3
        <3> HIDE DEF x
        <3> QED BY <1>1, <2>1, <2>3, <3>2, <3>3, <3>4, <3>5 DEF w
    <2> QED BY <2>2, <2>3
<1> QED BY <1>3, <1>4

LEMMA StartsGrow ==
    ASSUME NEW j \in Nat, NEW i \in Nat, i =< j
    PROVE  Start(i) =< Start(j)
<1> DEFINE S == {k \in Nat : Start(i) =< Start(i + k)}
<1>1. S \in SUBSET Nat
    OBVIOUS
<1>2. 0 \in S
    <2>1. i + 0 = i /\ Start(i) \in Nat
        BY StartFacts
    <2> QED BY <2>1
<1>3. ASSUME NEW k \in S PROVE k + 1 \in S
    <2>1. k \in Nat /\ Start(i) =< Start(i + k) /\ i + k \in Nat /\ i + (k + 1) = (i + k) + 1
        OBVIOUS
    <2>2. /\ Start(i) \in Nat /\ Start(i + k) \in Nat /\ Room(i + k) \in Nat
          /\ Start((i + k) + 1) = Start(i + k) + Room(i + k)
        BY <2>1, StartFacts
    <2>3. Start(i) =< Start(i + (k + 1))
        BY <2>1, <2>2
    <2> QED BY <2>1, <2>3
<1> HIDE DEF S
<1>4. j - i \in S
    <2>1. j - i \in Nat
        OBVIOUS
    <2> QED BY <1>1, <1>2, <1>3, <2>1, Induction
<1>5. i + (j - i) = j
    OBVIOUS
<1> QED BY <1>4, <1>5 DEF S

\* The last chunk is the first that reaches the end.
LEMMA CountOfChunks ==
    ASSUME NEW L \in Nat \ {0}
    PROVE  LET count == Cardinality({i \in 0 .. L : Start(i) < L})
           IN  count \in Nat \ {0} /\ Start(count - 1) < L /\ L =< Start(count)
<1> DEFINE Reach == {i \in Nat : L =< Start(i)}
           Short == {i \in 0 .. L : Start(i) < L}
<1>1. Reach \in SUBSET Nat /\ Reach # {}
    <2>1. L \in Reach
        BY StartFacts
    <2> QED BY <2>1
<1>2. PICK m \in Reach : \A j \in Nat : j < m => j \notin Reach
    <2> HIDE DEF Reach
    <2> QED BY <1>1, LeastOf
<1>3. m \in Nat /\ L =< Start(m) /\ \A j \in Nat : j < m => Start(j) < L
    <2>1. \A j \in Nat : j < m => ~ (L =< Start(j))
        BY <1>2
    <2>2. \A j \in Nat : Start(j) \in Nat
        BY StartFacts
    <2> QED BY <2>1, <2>2
<1>4. m # 0
    BY <1>3, StartFacts
<1>5. m =< L
    <2>1. ~ (L < m)
        <3>1. Start(L) \in Nat /\ L =< Start(L)
            BY StartFacts
        <3> QED BY <1>3, <3>1
    <2> QED BY <1>3, <2>1
<1>6. Short = 0 .. (m - 1)
    <2>1. ASSUME NEW i \in Short PROVE i \in 0 .. (m - 1)
        <3>1. i \in Nat /\ Start(i) < L /\ Start(i) \in Nat /\ Start(m) \in Nat
            BY <1>3, StartFacts
        <3>2. ~ (m =< i)
            <4> SUFFICES ASSUME m =< i PROVE FALSE
                OBVIOUS
            <4>1. Start(m) =< Start(i)
                BY <1>3, <3>1, StartsGrow
            <4> QED BY <1>3, <3>1, <4>1
        <3> QED BY <1>3, <3>1, <3>2
    <2>2. ASSUME NEW i \in 0 .. (m - 1) PROVE i \in Short
        <3>1. i \in Nat /\ i < m /\ i \in 0 .. L
            BY <1>3, <1>5
        <3> QED BY <1>3, <3>1
    <2> QED BY <2>1, <2>2
<1>7. Cardinality(Short) = m
    <2>1. Cardinality(0 .. (m - 1)) = (m - 1) - 0 + 1
        BY <1>3, <1>4, FS_Interval
    <2>2. (m - 1) - 0 + 1 = m
        BY <1>3
    <2> HIDE DEF Short
    <2> QED BY <1>6, <2>1, <2>2, Zenon
<1>8. m - 1 \in Nat /\ m - 1 < m /\ m \in Nat \ {0}
    BY <1>3, <1>4
<1>9. Start(m - 1) < L
    BY <1>3, <1>8
<1> QED BY <1>3, <1>7, <1>8, <1>9

\* Where the chunks of an APDU end.
Ends(apdu) == [k \in 0 .. Len(Frames(apdu)) |-> Min({Start(k), Len(apdu)})]

\* The frames of an APDU have its chunks, which end at e.
ChunksOf(apdu, sent, e) ==
    /\ Len(sent) \in Nat \ {0} /\ DOMAIN sent = 1 .. Len(sent)
    /\ Start(Len(sent) - 1) < Len(apdu) /\ Len(apdu) =< Start(Len(sent))
    /\ e[0] = 0 /\ e[Len(sent)] = Len(apdu)
    /\ \A k \in 1 .. Len(sent) :
        /\ e[k - 1] = Start(k - 1) /\ e[k] =< Start(k)
        /\ e[k - 1] \in Nat /\ e[k] \in Nat /\ e[k - 1] =< e[k] /\ e[k] =< Len(apdu)
        /\ sent[k] = [tag |-> 5, index |-> k - 1,
                      header |-> IF k = 1 THEN FirstHeader ELSE NextHeader,
                      total |-> Len(apdu), data |-> SubSeq(apdu, e[k - 1] + 1, e[k])]

LEMMA FramesArePieces ==
    ASSUME NEW T, NEW apdu \in Seq(T), Len(apdu) # 0
    PROVE  ChunksOf(apdu, Frames(apdu), Ends(apdu))
<1> DEFINE L == Len(apdu)
           count == Cardinality({i \in 0 .. L : Start(i) < L})
           sent == Frames(apdu)
           e == Ends(apdu)
           Frame(k) == [tag |-> 5, index |-> k - 1,
                        header |-> IF k = 1 THEN FirstHeader ELSE NextHeader,
                        total |-> L,
                        data |-> SubSeq(apdu, Start(k - 1) + 1, Min({Start(k), L}))]
<1>1. L \in Nat \ {0}
    OBVIOUS
<1>2. count \in Nat \ {0} /\ Start(count - 1) < L /\ L =< Start(count)
    <2> HIDE DEF L
    <2> QED BY <1>1, CountOfChunks
<1>3. sent = [k \in 1 .. count |-> Frame(k)]
    BY Zenon DEF Frames
<1> HIDE DEF count, L, Frame
<1>4. Len(sent) = count /\ DOMAIN sent = 1 .. count /\ \A k \in 1 .. count : sent[k] = Frame(k)
    BY <1>2, <1>3
<1>5. \A k \in 0 .. count : e[k] = Min({Start(k), L})
    BY <1>4, Zenon DEF Ends, L
<1>6. \A k \in 0 .. count : /\ e[k] = IF Start(k) =< L THEN Start(k) ELSE L
                            /\ Start(k) \in Nat /\ e[k] \in Nat /\ e[k] =< L /\ e[k] =< Start(k)
    <2> TAKE k \in 0 .. count
    <2>1. k \in Nat
        BY <1>2
    <2>2. Start(k) \in Nat
        BY <2>1, StartFacts
    <2>3. e[k] = IF Start(k) =< L THEN Start(k) ELSE L
        BY <1>1, <1>5, <2>2, MinOfTwo
    <2> HIDE DEF e
    <2> QED BY <1>1, <2>2, <2>3
<1> HIDE DEF sent, e
<1>7. e[0] = 0 /\ e[count] = L
    <2>1. 0 \in 0 .. count /\ count \in 0 .. count
        BY <1>2
    <2>2. Start(0) = 0 /\ Start(count) \in Nat
        BY <1>2, StartFacts
    <2>3. e[0] = IF 0 =< L THEN 0 ELSE L
        BY <1>6, <2>1, <2>2, Zenon
    <2>4. e[count] = IF Start(count) =< L THEN Start(count) ELSE L
        BY <1>6, <2>1, Zenon
    <2> QED BY <1>1, <1>2, <2>2, <2>3, <2>4
<1>8. ASSUME NEW k \in 1 .. count
      PROVE  /\ e[k - 1] = Start(k - 1) /\ e[k - 1] =< e[k]
             /\ k - 1 \in 0 .. count /\ k \in 0 .. count
    <2>1. k - 1 \in 0 .. count /\ k \in 0 .. count /\ k - 1 \in Nat /\ k - 1 =< count - 1
          /\ count - 1 \in Nat /\ k \in Nat /\ k - 1 =< k
        BY <1>2
    <2>2. Start(k - 1) =< Start(count - 1) /\ Start(count - 1) \in Nat /\ Start(k - 1) =< Start(k)
        BY <2>1, StartFacts, StartsGrow
    <2>3. Start(k - 1) \in Nat /\ Start(k) \in Nat
        BY <1>6, <2>1
    <2>4. Start(k - 1) =< L
        BY <1>1, <1>2, <2>2, <2>3
    <2>5. e[k - 1] = Start(k - 1) /\ e[k] = IF Start(k) =< L THEN Start(k) ELSE L
        BY <1>6, <2>1, <2>4, Zenon
    <2>6. e[k - 1] =< e[k]
        BY <1>1, <2>2, <2>3, <2>4, <2>5
    <2> QED BY <2>1, <2>5, <2>6
<1>9. ASSUME NEW k \in 1 .. count
      PROVE  sent[k] = [tag |-> 5, index |-> k - 1,
                        header |-> IF k = 1 THEN FirstHeader ELSE NextHeader,
                        total |-> L, data |-> SubSeq(apdu, e[k - 1] + 1, e[k])]
    <2>1. e[k - 1] = Start(k - 1) /\ e[k] = Min({Start(k), L})
        BY <1>5, <1>8, Zenon
    <2> QED BY <1>4, <2>1, Zenon DEF Frame
<1>10. Start(Len(sent) - 1) < L /\ L =< Start(Len(sent)) /\ Len(sent) \in Nat \ {0}
    BY <1>2, <1>4, Zenon
<1>11. ChunksOf(apdu, sent, e)
    BY <1>4, <1>6, <1>7, <1>8, <1>9, <1>10, Zenon DEF ChunksOf, L
<1> QED BY <1>11, Zenon DEF sent, e

\* The data of the frames, put together.
LEMMA FramesAssemble ==
    ASSUME NEW T, NEW apdu \in Seq(T), Len(apdu) # 0
    PROVE  Assembled(Frames(apdu)) = apdu
<1> DEFINE sent == Frames(apdu)
           ps == [k \in DOMAIN sent |-> sent[k].data]
           e == Ends(apdu)
<1>1. /\ Len(sent) \in Nat \ {0} /\ DOMAIN sent = 1 .. Len(sent)
      /\ e[0] = 0 /\ e[Len(sent)] = Len(apdu)
      /\ \A k \in 1 .. Len(sent) :
            /\ e[k - 1] \in Nat /\ e[k] \in Nat /\ e[k - 1] =< e[k] /\ e[k] =< Len(apdu)
            /\ sent[k].data = SubSeq(apdu, e[k - 1] + 1, e[k])
    <2>1. ChunksOf(apdu, sent, e)
        BY FramesArePieces
    <2> HIDE DEF sent, e
    <2> QED BY <2>1 DEF ChunksOf
<1> HIDE DEF sent, e
<1>2. Len(ps) = Len(sent) /\ \A k \in 1 .. Len(sent) : ps[k] = sent[k].data
    BY <1>1
<1>3. Assembled(sent) = FlattenSeq(ps)
    BY Zenon DEF Assembled
<1> HIDE DEF ps
<1>4. Pieces(ps, apdu, e)
    BY <1>1, <1>2, Zenon DEF Pieces
<1>5. FlattenSeq(ps) = SubSeq(apdu, 1, e[Len(ps)])
    BY <1>4, FlattenPieces
<1>6. SubSeq(apdu, 1, Len(apdu)) = apdu
    BY SubSeqFull
<1> QED BY <1>1, <1>2, <1>3, <1>5, <1>6, Zenon DEF sent

LEMMA FramesFit ==
    ASSUME NEW T, NEW apdu \in Seq(T), Len(apdu) # 0, NEW k \in DOMAIN Frames(apdu)
    PROVE  Frames(apdu)[k].header + Len(Frames(apdu)[k].data) =< mtu
<1> DEFINE sent == Frames(apdu)
           e == Ends(apdu)
           d == SubSeq(apdu, e[k - 1] + 1, e[k])
           h == IF k = 1 THEN FirstHeader ELSE NextHeader
<1>1. /\ k \in Nat /\ k >= 1
      /\ e[k - 1] \in Nat /\ e[k] \in Nat /\ e[k - 1] =< e[k] /\ e[k] =< Len(apdu)
      /\ e[k - 1] = Start(k - 1) /\ e[k] =< Start(k)
      /\ sent[k].data = d /\ sent[k].header = h
    <2>1. ChunksOf(apdu, sent, e) /\ k \in DOMAIN sent
        BY FramesArePieces
    <2> HIDE DEF sent, e
    <2>2. Len(sent) \in Nat \ {0} /\ k \in 1 .. Len(sent)
        BY <2>1, Zenon DEF ChunksOf
    <2>3. /\ e[k - 1] \in Nat /\ e[k] \in Nat /\ e[k - 1] =< e[k] /\ e[k] =< Len(apdu)
          /\ e[k - 1] = Start(k - 1) /\ e[k] =< Start(k)
          /\ sent[k] = [tag |-> 5, index |-> k - 1, header |-> h, total |-> Len(apdu), data |-> d]
        BY <2>1, <2>2, Zenon DEF ChunksOf
    <2> HIDE DEF h, d
    <2>4. sent[k].data = d /\ sent[k].header = h
        BY <2>3
    <2>5. k \in Nat /\ k >= 1
        BY <2>2
    <2> QED BY <2>3, <2>4, <2>5
<1> HIDE DEF sent, e, h
<1>2. Len(d) = e[k] - e[k - 1]
    <2>1. \A i \in (e[k - 1] + 1) .. e[k] : apdu[i] \in T
        <3> DEFINE x == e[k - 1]
                   y == e[k]
        <3>1. x \in Nat /\ y \in Nat /\ y =< Len(apdu)
            BY <1>1
        <3> HIDE DEF x, y
        <3>2. \A i \in (x + 1) .. y : apdu[i] \in T
            BY <3>1
        <3> QED BY <3>2 DEF x, y
    <2>2. Len(d) = IF e[k - 1] + 1 =< e[k] THEN e[k] - (e[k - 1] + 1) + 1 ELSE 0
        BY <1>1, <2>1, SubSeqProperties
    <2> HIDE DEF d
    <2>3. \A x, y \in Nat : x =< y => (IF x + 1 =< y THEN y - (x + 1) + 1 ELSE 0) = y - x
        OBVIOUS
    <2> QED BY <1>1, <2>2, <2>3, Zenon
<1>3. k - 1 \in Nat /\ (k - 1) + 1 = k /\ (k - 1 = 0 <=> k = 1)
    BY <1>1
<1>4. /\ Start(k - 1) \in Nat /\ Room(k - 1) \in Nat /\ Start(k) = Start(k - 1) + Room(k - 1)
      /\ Room(k - 1) + h = mtu
    <2>1. /\ Start(k - 1) \in Nat /\ Room(k - 1) \in Nat
          /\ Start((k - 1) + 1) = Start(k - 1) + Room(k - 1)
          /\ Room(k - 1) + (IF k - 1 = 0 THEN FirstHeader ELSE NextHeader) = mtu
        BY <1>3, StartFacts, Zenon
    <2> QED BY <1>3, <2>1, Zenon DEF h
<1>5. h \in Nat /\ mtu \in Nat
    BY BleAssumption DEF h, FirstHeader, NextHeader
<1> HIDE DEF d
<1>6. h + Len(d) =< mtu
    <2> DEFINE x == Start(k - 1)
               y == e[k]
               z == Room(k - 1)
    <2>1. /\ x \in Nat /\ y \in Nat /\ z \in Nat /\ y =< x + z /\ z + h = mtu
          /\ Len(d) = y - x
        BY <1>1, <1>2, <1>4, Zenon
    <2> HIDE DEF x, y, z, h
    <2> QED BY <1>5, <2>1
<1> QED BY <1>1, <1>6, Zenon DEF sent

\* wait_for_apdu takes the frames of a reply, all of them and no other.
LEMMA ReplyIsTaken ==
    ASSUME NEW T, NEW reply \in Seq(T), Len(reply) # 0, Len(reply) =< Room(0) + Room(1)
    PROVE  LET got == wait_for_apdu(Frames(reply))
           IN  got.ok = TRUE /\ got.apdu = reply /\ got.left = <<>>
<1> DEFINE queue == Frames(reply)
           e == Ends(reply)
           L == Len(reply)
           first == queue[1]
           second == queue[2]
           more == Len(first.data) < first.total
           taken == IF more THEN 2 ELSE 1
           apdu == first.data \o (IF more THEN second.data ELSE <<>>)
           right == /\ first.tag = 5 /\ first.index = 0
                    /\ more => second.tag = 5 /\ second.index = 1
                    /\ Len(apdu) = first.total
           rest == SubSeq(queue, taken + 1, Len(queue))
           got == [apdu |-> apdu, left |-> rest, ok |-> right]
<1>1. ChunksOf(reply, queue, e)
    BY FramesArePieces
<1>2. wait_for_apdu(queue) = IF Len(queue) < taken THEN NotAnApdu ELSE got
    BY Zenon DEF wait_for_apdu
<1>3. L \in Nat /\ L # 0 /\ SubSeq(reply, 1, L) = reply
    BY SubSeqFull
<1> HIDE DEF queue, e, L
<1>4. Start(1) = Room(0) /\ Start(2) = Room(0) + Room(1) /\ Room(0) \in Nat /\ Room(1) \in Nat
    <2>1. 0 \in Nat /\ 1 \in Nat /\ 0 + 1 = 1 /\ 1 + 1 = 2
        OBVIOUS
    <2>2. /\ Start(0) = 0 /\ Start(0 + 1) = Start(0) + Room(0) /\ Start(1 + 1) = Start(1) + Room(1)
          /\ Room(0) \in Nat /\ Room(1) \in Nat
        BY <2>1, StartFacts, Zenon
    <2> QED BY <2>1, <2>2
<1> DEFINE N == Len(queue)
<1>5. /\ N \in Nat /\ N # 0 /\ Start(N - 1) < L /\ L =< Start(N)
      /\ e[0] = 0 /\ e[N] = L
      /\ \A k \in 1 .. N :
            /\ e[k - 1] = Start(k - 1) /\ e[k - 1] \in Nat /\ e[k] \in Nat /\ e[k] =< L
            /\ e[k - 1] =< e[k]
            /\ queue[k] = [tag |-> 5, index |-> k - 1,
                           header |-> IF k = 1 THEN FirstHeader ELSE NextHeader,
                           total |-> L, data |-> SubSeq(reply, e[k - 1] + 1, e[k])]
    BY <1>1 DEF ChunksOf, L
<1> HIDE DEF N
<1>6. N = 1 \/ N = 2
    <2> SUFFICES ASSUME N >= 3 PROVE FALSE
        BY <1>5
    <2>1. N - 1 \in Nat /\ 2 =< N - 1
        BY <1>5
    <2>2. Start(2) =< Start(N - 1) /\ Start(N - 1) \in Nat
        BY <2>1, StartsGrow, StartFacts
    <2>3. L =< Start(2)
        BY <1>4 DEF L
    <2> QED BY <1>3, <1>4, <1>5, <2>2, <2>3
<1>7. /\ first.tag = 5 /\ first.index = 0 /\ first.total = L
      /\ first.data = SubSeq(reply, 1, e[1])
      /\ e[1] \in Nat /\ e[1] =< L
    <2>1. 1 \in 1 .. N /\ 1 - 1 = 0 /\ 0 + 1 = 1
        BY <1>5
    <2> DEFINE d == SubSeq(reply, 0 + 1, e[1])
    <2>2. /\ first = [tag |-> 5, index |-> 0, header |-> IF 1 = 1 THEN FirstHeader ELSE NextHeader,
                      total |-> L, data |-> d]
          /\ e[1] \in Nat /\ e[1] =< L
        BY <1>5, <2>1, Zenon
    <2> HIDE DEF d
    <2>3. first.tag = 5 /\ first.index = 0 /\ first.total = L /\ first.data = d
        BY <2>2
    <2> QED BY <2>1, <2>2, <2>3, Zenon DEF d
<1>8. Len(first.data) = e[1]
    <2>1. \A i \in 1 .. e[1] : reply[i] \in T
        BY <1>7 DEF L
    <2>2. Len(SubSeq(reply, 1, e[1])) = IF 1 =< e[1] THEN e[1] - 1 + 1 ELSE 0
        BY <1>7, <2>1, SubSeqProperties
    <2>3. \A x \in Nat : (IF 1 =< x THEN x - 1 + 1 ELSE 0) = x
        OBVIOUS
    <2> QED BY <1>7, <2>2, <2>3, Zenon
<1>9. CASE N = 1
    <2>1. e[1] = L
        BY <1>5, <1>9, Zenon
    <2>2. ~more
        BY <1>3, <1>7, <1>8, <2>1
    <2>3. taken = 1 /\ apdu = first.data \o <<>>
        BY <2>2, Zenon
    <2>4. first.data = reply /\ apdu = reply
        <3>1. first.data = reply
            BY <1>3, <1>7, <2>1, Zenon
        <3>2. reply \o <<>> = reply
            BY ConcatEmptySeq
        <3> QED BY <2>3, <3>1, <3>2, Zenon
    <2>5. right
        BY <1>7, <2>2, <2>4 DEF L
    <2>6. rest = <<>>
        <3>1. SubSeq(queue, 1 + 1, 1) = <<>>
            BY SubSeqEmpty
        <3> QED BY <1>9, <2>3, <3>1, Zenon DEF N
    <2>7. ~ (Len(queue) < taken)
        BY <1>9, <2>3 DEF N
    <2> HIDE DEF right, rest, apdu, taken
    <2>8. wait_for_apdu(queue) = got
        BY <1>2, <2>7, Zenon
    <2>9. got.ok = right /\ got.apdu = apdu /\ got.left = rest
        OBVIOUS
    <2>10. right = TRUE
        BY <2>5 DEF right
    <2> HIDE DEF got
    <2> QED BY <2>4, <2>6, <2>8, <2>9, <2>10 DEF queue
<1>10. CASE N = 2
    <2>1. e[1] = Start(1) /\ e[2] = L /\ Start(1) < L /\ Start(1) \in Nat
        <3>1. 2 - 1 = 1 /\ 2 \in 1 .. N /\ 1 \in 1 .. N
            BY <1>5, <1>10
        <3>2. e[1] = Start(1) /\ e[1] \in Nat
            BY <1>5, <3>1, Zenon
        <3> QED BY <1>5, <1>10, <3>1, <3>2, Zenon
    <2>2. more
        BY <1>7, <1>8, <2>1
    <2>3. taken = 2 /\ apdu = first.data \o second.data
        BY <2>2, Zenon
    <2>4. second.tag = 5 /\ second.index = 1 /\ second.data = SubSeq(reply, e[1] + 1, L)
        <3>1. 2 \in 1 .. N /\ 2 - 1 = 1
            BY <1>5, <1>10
        <3> DEFINE d == SubSeq(reply, e[1] + 1, e[2])
        <3>2. second = [tag |-> 5, index |-> 1,
                        header |-> IF 2 = 1 THEN FirstHeader ELSE NextHeader,
                        total |-> L, data |-> d]
            BY <1>5, <3>1, Zenon
        <3> HIDE DEF d
        <3>3. second.tag = 5 /\ second.index = 1 /\ second.data = d
            BY <3>2
        <3> QED BY <2>1, <3>3, Zenon DEF d
    <2>5. apdu = reply
        <3>1. SubSeq(reply, 1, e[1]) \o SubSeq(reply, e[1] + 1, L) = SubSeq(reply, 1, L)
            <4> DEFINE x == e[1]
            <4>1. x \in Nat /\ x =< L /\ L \in Nat /\ L =< Len(reply)
                BY <1>3, <1>7 DEF L
            <4> HIDE DEF x
            <4>2. SubSeq(reply, 1, x) \o SubSeq(reply, x + 1, L) = SubSeq(reply, 1, L)
                BY <4>1, PiecesJoin
            <4> QED BY <4>2 DEF x
        <3> QED BY <1>3, <1>7, <2>3, <2>4, <3>1, Zenon
    <2>6. right
        BY <1>7, <2>4, <2>5 DEF L
    <2>7. rest = <<>>
        <3>1. SubSeq(queue, 2 + 1, 2) = <<>>
            BY SubSeqEmpty
        <3> QED BY <1>10, <2>3, <3>1, Zenon DEF N
    <2>8. ~ (Len(queue) < taken)
        BY <1>10, <2>3 DEF N
    <2> HIDE DEF right, rest, apdu, taken
    <2>9. wait_for_apdu(queue) = got
        BY <1>2, <2>8, Zenon
    <2>10. got.ok = right /\ got.apdu = apdu /\ got.left = rest
        OBVIOUS
    <2>11. right = TRUE
        BY <2>6 DEF right
    <2> HIDE DEF got
    <2> QED BY <2>5, <2>7, <2>9, <2>10, <2>11 DEF queue
<1> QED BY <1>6, <1>9, <1>10, Zenon

\* APDUs of every length, up to two frames for a reply, go whole over Bluetooth, for every size
\* of a frame: the loops of async_exchange_ble, and wait_for_apdu, which leaves nothing behind.
THEOREM FramesArrive ==
    ASSUME NEW T, NEW request \in Seq(T), NEW reply \in Seq(T),
           Len(request) # 0, Len(reply) # 0, Len(reply) =< Room(0) + Room(1)
    PROVE  ArrivesWhole(request, reply)
<1>1. \A k \in DOMAIN Frames(request) :
        Frames(request)[k].header + Len(Frames(request)[k].data) =< mtu
    BY FramesFit
<1>2. Assembled(Frames(request)) = request
    BY FramesAssemble
<1> DEFINE got == wait_for_apdu(Frames(reply))
<1>3. got.ok = TRUE /\ got.apdu = reply /\ got.left = <<>>
    BY ReplyIsTaken
<1> HIDE DEF got
<1>4. got.ok
    BY <1>3
<1> QED BY <1>1, <1>2, <1>3, <1>4, Zenon DEF ArrivesWhole, got
-----------------------------------------------------------------------------
(* The pages of AppImage. *)

LEMMA PFacts == P \in Nat /\ P > 0 /\ HEAP_SIZE \in Nat
BY ImageAssumption DEF P

\* A number is in one page: the lower end of the page and what is above.
LEMMA InPage ==
    ASSUME NEW a \in Nat
    PROVE  \E q \in Nat : /\ PageOf(a) = q * P /\ q * P =< a /\ a < q * P + P
                          /\ a % P = a - q * P
<1> DEFINE q == a \div P
<1>1. P \in Nat /\ P > 0
    BY PFacts
<1>2. q \in Int /\ a % P = a - q * P /\ q * P =< a /\ a < q * P + P
    BY <1>1
<1> HIDE DEF q
<1>3. ~ (q < 0)
    <2> SUFFICES ASSUME q < 0 PROVE FALSE
        OBVIOUS
    <2>1. q + 1 =< 0 /\ q + 1 \in Int
        BY <1>2
    <2>2. (q + 1) * P =< 0 * P
        BY <1>1, <2>1, Products
    <2>3. (q + 1) * P = q * P + P /\ 0 * P = 0
        BY <1>1, <1>2
    <2> DEFINE z == q * P
    <2>4. z \in Int
        BY <1>1, <1>2
    <2> HIDE DEF z
    <2>5. a < z + P /\ z + P =< 0
        BY <1>2, <2>2, <2>3 DEF z
    <2> QED BY <1>1, <2>4, <2>5
<1>4. q \in Nat
    BY <1>2, <1>3
<1>5. PageOf(a) = q * P
    <2> DEFINE z == q * P
    <2>1. z \in Int /\ a % P = a - z
        BY <1>1, <1>2
    <2> HIDE DEF z
    <2>2. a - (a - z) = z
        BY <2>1
    <2> QED BY <2>1, <2>2, Zenon DEF PageOf, z
<1> QED BY <1>2, <1>4, <1>5

\* Numbers in the same page, or in one before.
LEMMA PageOrder ==
    ASSUME NEW q \in Int, NEW r \in Int, NEW a \in Int, q * P =< a, a < r * P + P
    PROVE  q =< r
<1>1. P \in Nat /\ P > 0
    BY PFacts
<1> SUFFICES ASSUME r + 1 =< q PROVE FALSE
    OBVIOUS
<1>2. (r + 1) * P =< q * P
    BY <1>1, Products
<1>3. (r + 1) * P = r * P + P
    BY <1>1
<1> DEFINE x == q * P
           y == r * P
<1>4. x \in Int /\ y \in Int
    BY <1>1
<1> HIDE DEF x, y
<1>5. x =< a /\ a < y + P /\ y + P =< x
    BY <1>2, <1>3 DEF x, y
<1> QED BY <1>1, <1>4, <1>5

\* How many pages there are in a number of bytes, rounded down and up.
LEMMA PageCount ==
    ASSUME NEW k \in Nat
    PROVE  (k * P) \div P = k /\ ((k * P + P) - 1) \div P = k
<1>1. P \in Nat /\ P > 0
    BY PFacts
<1> DEFINE z == k * P
<1>2. z \in Nat
    BY <1>1
<1>3. ASSUME NEW r \in Nat, r < P PROVE (z + r) \div P = k
    <2> DEFINE at == z + r
               d == at \div P
    <2>1. at \in Nat
        BY <1>2
    <2>2. d \in Int /\ d * P =< at /\ at < d * P + P
        <3> HIDE DEF at
        <3> QED BY <1>1, <2>1
    <2>3. k * P =< at /\ at < k * P + P
        <3> HIDE DEF z
        <3>1. z =< at /\ at < z + P
            BY <1>1, <1>2, <1>3
        <3> QED BY <3>1 DEF z
    <2> HIDE DEF at, d
    <2>4. k =< d /\ d =< k
        BY <2>1, <2>2, <2>3, PageOrder
    <2>5. d = k
        BY <2>2, <2>4
    <2> QED BY <2>5 DEF d, at
<1> HIDE DEF z
<1>4. z + 0 = z /\ z + (P - 1) = (z + P) - 1 /\ P - 1 \in Nat /\ P - 1 < P /\ 0 < P
    BY <1>1, <1>2
<1>5. (z + 0) \div P = k
    BY <1>3, <1>4
<1>6. (z + (P - 1)) \div P = k
    BY <1>3, <1>4
<1> QED BY <1>4, <1>5, <1>6 DEF z
-----------------------------------------------------------------------------
(* Segments. *)

\* The byte at an address of the padded segment.
At(elf, a) == IF a < elf.vaddr THEN 0 ELSE Expected(elf, a)

\* The segment is the pages from q to r, and has at each address the byte of the file.
Covers(s, elf, q, r, T) ==
    /\ q \in Nat /\ r \in Nat /\ q =< r /\ s.start = q * P /\ s.end = r * P
    /\ s.start \in Nat /\ s.end \in Nat
    /\ s.start =< elf.vaddr /\ elf.vaddr < s.start + P
    /\ elf.vaddr + Len(elf.bytes) =< s.end /\ s.end < elf.vaddr + Len(elf.bytes) + P
    /\ s.data \in Seq(T) /\ Len(s.data) = s.end - s.start
    /\ \A i \in 1 .. Len(s.data) : s.data[i] = At(elf, (s.start + i) - 1)

LEMMA GapFacts ==
    ASSUME NEW T, 0 \in T, NEW k \in Nat
    PROVE  Gap(k) \in Seq(T) /\ Len(Gap(k)) = k /\ \A i \in 1 .. k : Gap(k)[i] = 0
BY DEF Gap

\* The gap at the end reaches the next page.
LEMMA GapEndFacts ==
    ASSUME NEW start \in Nat, NEW size \in Nat
    PROVE  /\ GapEnd(start, size) \in Nat /\ GapEnd(start, size) < P
           /\ \E r \in Nat : start + size + GapEnd(start, size) = r * P
<1> DEFINE e == start + size
           g == GapEnd(start, size)
           m == e % P
<1>1. P \in Nat /\ P > 0 /\ e \in Nat
    BY PFacts
<1>2. PICK q \in Nat : q * P =< e /\ e < q * P + P /\ m = e - q * P
    <2> HIDE DEF e
    <2> QED BY <1>1, InPage
<1> DEFINE z == q * P
<1>3. z \in Int /\ m \in Nat /\ m < P /\ m = e - z
    <2>1. z \in Int
        BY <1>1
    <2>2. z =< e /\ e < z + P /\ m = e - z
        BY <1>2
    <2> HIDE DEF z, e, m
    <2> QED BY <1>1, <2>1, <2>2
<1>4. g = (P - m) % P
    BY Zenon DEF GapEnd
<1> HIDE DEF z, m, e, g
<1>5. CASE m = 0
    <2>1. P % P = 0
        BY <1>1
    <2>2. g = 0
        BY <1>1, <1>4, <1>5, <2>1
    <2>3. e + g = q * P
        BY <1>1, <1>3, <1>5, <2>2 DEF z
    <2> QED BY <1>1, <2>2, <2>3 DEF e, g
<1>6. CASE m # 0
    <2>1. P - m \in Nat /\ P - m < P
        BY <1>1, <1>3, <1>6
    <2>2. g = P - m
        <3> DEFINE x == P - m
        <3>1. x \in Nat /\ x < P /\ g = x % P
            BY <1>4, <2>1
        <3> HIDE DEF x
        <3>2. x % P = x
            BY <1>1, <3>1
        <3> QED BY <3>1, <3>2 DEF x
    <2>3. e + g = z + P
        BY <1>1, <1>3, <2>2
    <2>4. z + P = (q + 1) * P /\ q + 1 \in Nat
        BY <1>1 DEF z
    <2>5. e + g = (q + 1) * P
        BY <2>3, <2>4
    <2> QED BY <2>1, <2>2, <2>4, <2>5 DEF e, g
<1> QED BY <1>5, <1>6

LEMMA SegmentCovers ==
    ASSUME NEW T, 0 \in T, NEW elf, IsElf(elf, T)
    PROVE  \E q, r \in Nat : Covers(Segment(elf), elf, q, r, T)
<1> DEFINE s == Segment(elf)
           a == elf.vaddr
           bytes == elf.bytes
           L == Len(bytes)
           u == a % P
           g == GapEnd(a, L)
<1>1. P \in Nat /\ P > 0 /\ a \in Nat /\ bytes \in Seq(T) /\ L \in Nat
    BY PFacts DEF IsElf
<1> DEFINE all == Gap(u) \o bytes \o Gap(g)
<1>2. s = [data |-> all, start |-> PageOf(a), end |-> a + L + g]
    BY Zenon DEF Segment
<1>3. PICK q \in Nat : PageOf(a) = q * P /\ q * P =< a /\ a < q * P + P /\ u = a - q * P
    <2> HIDE DEF a
    <2> QED BY <1>1, InPage
<1>4. g \in Nat /\ g < P /\ \E r \in Nat : a + L + g = r * P
    <2> HIDE DEF a, L
    <2> QED BY <1>1, GapEndFacts
<1>5. PICK r \in Nat : a + L + g = r * P
    BY <1>4
<1> DEFINE x == q * P
           y == r * P
<1>6. x \in Nat /\ y \in Nat
    BY <1>1
<1>7. s.data = all /\ s.start = x /\ s.end = y
    <2> HIDE DEF all, x, y, g, L, a, s
    <2>1. s.data = all /\ s.start = PageOf(a) /\ s.end = a + L + g
        BY <1>2
    <2> QED BY <1>3, <1>5, <2>1, Zenon DEF x, y
<1>8. x =< a /\ a < x + P /\ u = a - x /\ a + L + g = y
    BY <1>3, <1>5
<1> HIDE DEF s, a, L, u, g, x, y, bytes, all
<1>9. u \in Nat
    BY <1>1, <1>6, <1>8
<1>10. /\ all \in Seq(T) /\ Len(all) = u + L + g
       /\ \A i \in 1 .. (u + L + g) :
            all[i] = IF i =< u THEN 0 ELSE IF i =< u + L THEN bytes[i - u] ELSE 0
    <2> DEFINE first == Gap(u)
               last == Gap(g)
               left == first \o bytes
    <2>1. /\ first \in Seq(T) /\ Len(first) = u /\ \A i \in 1 .. u : first[i] = 0
          /\ last \in Seq(T) /\ Len(last) = g /\ \A i \in 1 .. g : last[i] = 0
        BY <1>4, <1>9, GapFacts
    <2>2. all = left \o last
        BY DEF all
    <2> HIDE DEF first, last
    <2>3. /\ left \in Seq(T) /\ Len(left) = u + L
          /\ \A i \in 1 .. (u + L) : left[i] = IF i =< u THEN first[i] ELSE bytes[i - u]
        <3>1. /\ left \in Seq(T) /\ Len(left) = Len(first) + Len(bytes)
              /\ \A i \in 1 .. (Len(first) + Len(bytes)) :
                    left[i] = IF i =< Len(first) THEN first[i] ELSE bytes[i - Len(first)]
            BY <1>1, <2>1, ConcatProperties
        <3> QED BY <2>1, <3>1, Zenon DEF L
    <2> HIDE DEF left
    <2>5. /\ all \in Seq(T) /\ Len(all) = (u + L) + g
          /\ \A i \in 1 .. ((u + L) + g) :
                all[i] = IF i =< u + L THEN left[i] ELSE last[i - (u + L)]
        <3>1. /\ all \in Seq(T) /\ Len(all) = Len(left) + Len(last)
              /\ \A i \in 1 .. (Len(left) + Len(last)) :
                    all[i] = IF i =< Len(left) THEN left[i] ELSE last[i - Len(left)]
            BY <2>1, <2>2, <2>3, ConcatProperties
        <3> QED BY <2>1, <2>3, <3>1, Zenon
    <2>4. ASSUME NEW i \in 1 .. (u + L + g)
          PROVE  all[i] = IF i =< u THEN 0 ELSE IF i =< u + L THEN bytes[i - u] ELSE 0
        <3>1. CASE i =< u
            <4>1. i \in 1 .. (u + L) /\ i \in 1 .. u /\ i =< u + L
                BY <1>1, <1>4, <1>9, <3>1
            <4> QED BY <2>1, <2>3, <2>5, <3>1, <4>1, Zenon
        <3>2. CASE ~ (i =< u) /\ i =< u + L
            <4>1. i \in 1 .. (u + L)
                BY <1>1, <1>4, <1>9, <3>2
            <4> QED BY <2>3, <2>5, <3>2, <4>1, Zenon
        <3>3. CASE ~ (i =< u + L)
            <4>1. i - (u + L) \in 1 .. g /\ ~ (i =< u)
                BY <1>1, <1>4, <1>9, <3>3
            <4> QED BY <2>1, <2>5, <3>3, <4>1, Zenon
        <3> QED BY <3>1, <3>2, <3>3, Zenon
    <2> QED BY <2>5, <2>4, Zenon
<1>11. u + L + g = y - x
    BY <1>1, <1>4, <1>6, <1>8, <1>9
<1>12. ASSUME NEW i \in 1 .. (y - x) PROVE all[i] = At(elf, (x + i) - 1)
    <2> DEFINE b == (x + i) - 1
    <2>1. b \in Nat /\ (i =< u <=> b < a) /\ (i =< u + L <=> b < a + L) /\ i - u = (b - a) + 1
        BY <1>1, <1>6, <1>8, <1>9
    <2>2. all[i] = IF i =< u THEN 0 ELSE IF i =< u + L THEN bytes[i - u] ELSE 0
        BY <1>10, <1>11
    <2>3. At(elf, b) = IF b < a THEN 0 ELSE IF b < a + L THEN bytes[(b - a) + 1] ELSE 0
        BY Zenon DEF At, Expected, a, L, bytes
    <2> HIDE DEF b
    <2>4. all[i] = At(elf, b)
        <3>1. CASE i =< u
            BY <2>1, <2>2, <2>3, <3>1, Zenon
        <3>2. CASE ~ (i =< u) /\ i =< u + L
            BY <2>1, <2>2, <2>3, <3>2, Zenon
        <3>3. CASE ~ (i =< u) /\ ~ (i =< u + L)
            BY <2>1, <2>2, <2>3, <3>3, Zenon
        <3> QED BY <3>1, <3>2, <3>3, Zenon
    <2> QED BY <2>4 DEF b
<1>13. q =< r
    <2>1. x =< y /\ y < y + P
        BY <1>1, <1>4, <1>6, <1>8
    <2>2. q * P =< y /\ y < r * P + P
        BY <2>1 DEF x, y
    <2> QED BY <1>6, <2>2, PageOrder
<1>14. a + L =< y /\ y < a + L + P
    BY <1>1, <1>4, <1>6, <1>8
<1>15. Covers(s, elf, q, r, T)
    <2>1. /\ s.start = q * P /\ s.end = r * P /\ s.start \in Nat /\ s.end \in Nat
        BY <1>6, <1>7 DEF x, y
    <2>2. /\ s.start =< elf.vaddr /\ elf.vaddr < s.start + P
          /\ elf.vaddr + Len(elf.bytes) =< s.end /\ s.end < elf.vaddr + Len(elf.bytes) + P
        BY <1>7, <1>8, <1>14, Zenon DEF a, L, bytes
    <2>3. /\ s.data \in Seq(T) /\ Len(s.data) = s.end - s.start
          /\ \A i \in 1 .. Len(s.data) : s.data[i] = At(elf, (s.start + i) - 1)
        BY <1>7, <1>10, <1>11, <1>12, Zenon
    <2> QED BY <1>13, <2>1, <2>2, <2>3 DEF Covers
<1> QED BY <1>15 DEF s
-----------------------------------------------------------------------------
(* Pages. *)

\* A part of a sequence: its length and its elements.
LEMMA PartOf ==
    ASSUME NEW T, NEW s \in Seq(T), NEW x \in Nat, NEW y \in Nat, x =< y, y =< Len(s)
    PROVE  LET v == SubSeq(s, x + 1, y)
           IN  /\ v \in Seq(T) /\ Len(v) = y - x
               /\ \A i \in 1 .. (y - x) : v[i] = s[x + i] /\ x + i \in 1 .. Len(s)
<1> DEFINE v == SubSeq(s, x + 1, y)
<1>1. \A i \in (x + 1) .. y : s[i] \in T
    OBVIOUS
<1>2. /\ v \in Seq(T)
      /\ Len(v) = IF x + 1 =< y THEN y - (x + 1) + 1 ELSE 0
      /\ \A i \in 1 .. (y - (x + 1) + 1) : v[i] = s[(x + 1) + i - 1]
    BY <1>1, SubSeqProperties
<1>3. (IF x + 1 =< y THEN y - (x + 1) + 1 ELSE 0) = y - x /\ y - (x + 1) + 1 = y - x
    OBVIOUS
<1>4. \A i \in 1 .. (y - x) : (x + 1) + i - 1 = x + i /\ x + i \in 1 .. Len(s)
    OBVIOUS
<1> HIDE DEF v
<1>5. Len(v) = y - x
    BY <1>2, <1>3, Zenon
<1>6. \A i \in 1 .. (y - x) : v[i] = s[x + i] /\ x + i \in 1 .. Len(s)
    BY <1>2, <1>3, <1>4
<1> QED BY <1>2, <1>5, <1>6 DEF v

\* A part that is in the first of two sequences, or in the second.
LEMMA PartOfFirst ==
    ASSUME NEW T, NEW c \in Seq(T), NEW d \in Seq(T), NEW x \in Nat, NEW y \in Nat, x =< y,
           y =< Len(c)
    PROVE  SubSeq(c \o d, x + 1, y) = SubSeq(c, x + 1, y)
<1> DEFINE s == c \o d
           C == Len(c)
           D == Len(d)
<1>1. C \in Nat /\ D \in Nat
    OBVIOUS
<1>2. s \in Seq(T) /\ Len(s) = C + D
      /\ \A i \in 1 .. (C + D) : s[i] = IF i =< C THEN c[i] ELSE d[i - C]
    BY ConcatProperties
<1> HIDE DEF s
<1>3. SubSeq(s, x + 1, y) = SubSeq(c, x + 1, y)
    <2> DEFINE u == SubSeq(s, x + 1, y)
               v == SubSeq(c, x + 1, y)
    <2>1. /\ u \in Seq(T) /\ Len(u) = y - x
          /\ \A i \in 1 .. (y - x) : u[i] = s[x + i] /\ x + i \in 1 .. Len(s)
        <3>1. y =< Len(s)
            BY <1>1, <1>2
        <3> QED BY <1>2, <3>1, PartOf
    <2>2. /\ v \in Seq(T) /\ Len(v) = y - x
          /\ \A i \in 1 .. (y - x) : v[i] = c[x + i] /\ x + i \in 1 .. C
        BY PartOf
    <2> HIDE DEF u, v, C, D
    <2>3. ASSUME NEW i \in 1 .. (y - x) PROVE u[i] = v[i]
        <3>1. x + i \in 1 .. (C + D) /\ x + i =< C
            BY <1>1, <2>2
        <3> QED BY <1>2, <2>1, <2>2, <3>1
    <2>4. u = v
        BY <2>1, <2>2, <2>3, SeqEqual
    <2> QED BY <2>4 DEF u, v
<1> QED BY <1>3 DEF s

Behind(c, d) ==
    \A x, y \in Nat : x =< y /\ y =< Len(d) =>
        SubSeq(c \o d, (Len(c) + x) + 1, Len(c) + y) = SubSeq(d, x + 1, y)

LEMMA PartOfSecond ==
    ASSUME NEW T, NEW c \in Seq(T), NEW d \in Seq(T)
    PROVE  Behind(c, d)
<1> DEFINE s == c \o d
           C == Len(c)
           D == Len(d)
<1>1. C \in Nat /\ D \in Nat
    OBVIOUS
<1>2. s \in Seq(T) /\ Len(s) = C + D
      /\ \A i \in 1 .. (C + D) : s[i] = IF i =< C THEN c[i] ELSE d[i - C]
    BY ConcatProperties
<1> HIDE DEF s
<1>3. ASSUME NEW x \in Nat, NEW y \in Nat, x =< y /\ y =< D
      PROVE  SubSeq(s, (C + x) + 1, C + y) = SubSeq(d, x + 1, y)
    <2> DEFINE u == SubSeq(s, (C + x) + 1, C + y)
               v == SubSeq(d, x + 1, y)
    <2> HIDE DEF C, D
    <2>1. /\ u \in Seq(T) /\ Len(u) = y - x
          /\ \A i \in 1 .. (y - x) : u[i] = s[(C + x) + i] /\ (C + x) + i \in 1 .. Len(s)
        <3>1. C + x \in Nat /\ C + y \in Nat /\ C + x =< C + y /\ C + y =< Len(s)
            BY <1>1, <1>2, <1>3
        <3>2. (C + y) - (C + x) = y - x
            BY <1>1
        <3>3. /\ u \in Seq(T) /\ Len(u) = (C + y) - (C + x)
              /\ \A i \in 1 .. ((C + y) - (C + x)) :
                    u[i] = s[(C + x) + i] /\ (C + x) + i \in 1 .. Len(s)
            BY <1>2, <3>1, PartOf
        <3> HIDE DEF u
        <3> QED BY <3>2, <3>3, Zenon
    <2>2. /\ v \in Seq(T) /\ Len(v) = y - x
          /\ \A i \in 1 .. (y - x) : v[i] = d[x + i] /\ x + i \in 1 .. D
        BY <1>3, PartOf DEF D
    <2> HIDE DEF u, v
    <2>3. ASSUME NEW i \in 1 .. (y - x) PROVE u[i] = v[i]
        <3>1. (C + x) + i \in 1 .. (C + D) /\ ~ ((C + x) + i =< C) /\ ((C + x) + i) - C = x + i
            BY <1>1, <2>2
        <3> QED BY <1>2, <2>1, <2>2, <3>1
    <2>4. u = v
        BY <2>1, <2>2, <2>3, SeqEqual
    <2> QED BY <2>4 DEF u, v
<1> QED BY <1>3 DEF s, C, D, Behind

\* Data of k pages: where its pages are, and their bytes.
LEMMA PagesOfData ==
    ASSUME NEW T, NEW data \in Seq(T), NEW k \in Nat, Len(data) = k * P
    PROVE  /\ ToPages(data) \in Seq(Seq(T)) /\ Len(ToPages(data)) = k
           /\ \A j \in 1 .. k :
                /\ ToPages(data)[j] = SubSeq(data, (j - 1) * P + 1, j * P)
                /\ \A i \in Nat : i < P => /\ ToPages(data)[j][i + 1] = data[((j - 1) * P + i) + 1]
                                           /\ ((j - 1) * P + i) + 1 \in 1 .. Len(data)
<1> DEFINE Part(j) == SubSeq(data, (j - 1) * P + 1, j * P)
           pages == ToPages(data)
<1>1. P \in Nat /\ P > 0 /\ Len(data) \div P = k /\ Len(data) \in Nat
    BY PFacts, PageCount
<1>2. pages = [j \in 1 .. k |-> Part(j)]
    BY <1>1, Zenon DEF ToPages
<1>3. ASSUME NEW j \in 1 .. k
      PROVE  /\ (j - 1) * P \in Nat /\ j * P \in Nat /\ j * P = (j - 1) * P + P
             /\ j * P =< Len(data)
    <2>1. j * P =< k * P
        BY <1>1, Products
    <2>2. j \in Nat /\ j - 1 \in Nat
        OBVIOUS
    <2>3. (j - 1) * P \in Nat
        BY <1>1, <2>2
    <2>4. j * P = (j - 1) * P + P
        BY <1>1, <2>2
    <2>5. j * P \in Nat
        BY <1>1, <2>2
    <2> QED BY <2>1, <2>3, <2>4, <2>5
<1>4. ASSUME NEW j \in 1 .. k
      PROVE  /\ Part(j) \in Seq(T)
             /\ \A i \in Nat : i < P => /\ Part(j)[i + 1] = data[((j - 1) * P + i) + 1]
                                        /\ ((j - 1) * P + i) + 1 \in 1 .. Len(data)
    <2> DEFINE x == (j - 1) * P
               y == j * P
               v == SubSeq(data, x + 1, y)
    <2>1. x \in Nat /\ y \in Nat /\ y = x + P /\ y =< Len(data)
        BY <1>3
    <2> HIDE DEF x, y
    <2>2. x =< y /\ y - x = P
        BY <1>1, <2>1
    <2>3. /\ v \in Seq(T)
          /\ \A i \in 1 .. (y - x) : v[i] = data[x + i] /\ x + i \in 1 .. Len(data)
        BY <2>1, <2>2, PartOf
    <2> HIDE DEF v
    <2>4. ASSUME NEW i \in Nat, i < P
          PROVE  v[i + 1] = data[(x + i) + 1] /\ (x + i) + 1 \in 1 .. Len(data)
        <3>1. i + 1 \in 1 .. (y - x) /\ x + (i + 1) = (x + i) + 1
            BY <1>1, <2>1, <2>2, <2>4
        <3> DEFINE n == i + 1
        <3>2. n \in 1 .. (y - x) /\ x + n = (x + i) + 1
            BY <3>1
        <3> HIDE DEF n
        <3>3. v[n] = data[x + n] /\ x + n \in 1 .. Len(data)
            BY <2>3, <3>2
        <3>4. v[n] = data[(x + i) + 1] /\ (x + i) + 1 \in 1 .. Len(data)
            BY <3>2, <3>3, Zenon
        <3> QED BY <3>4 DEF n
    <2> QED BY <2>3, <2>4 DEF v, x, y
<1> HIDE DEF Part
<1>5. \A j \in 1 .. k : pages[j] = Part(j)
    BY <1>2
<1>6. pages \in Seq(Seq(T)) /\ Len(pages) = k
    BY <1>2, <1>4
<1> HIDE DEF pages
<1>7. \A j \in 1 .. k :
        /\ pages[j] = Part(j)
        /\ \A i \in Nat : i < P => /\ pages[j][i + 1] = data[((j - 1) * P + i) + 1]
                                   /\ ((j - 1) * P + i) + 1 \in 1 .. Len(data)
    <2> TAKE j \in 1 .. k
    <2>1. pages[j] = Part(j)
        BY <1>5, Zenon
    <2>2. \A i \in Nat : i < P => /\ Part(j)[i + 1] = data[((j - 1) * P + i) + 1]
                                  /\ ((j - 1) * P + i) + 1 \in 1 .. Len(data)
        BY <1>4, Zenon
    <2>3. ASSUME NEW i \in Nat, i < P
          PROVE  /\ pages[j][i + 1] = data[((j - 1) * P + i) + 1]
                 /\ ((j - 1) * P + i) + 1 \in 1 .. Len(data)
        BY <2>1, <2>2, <2>3
    <2> QED BY <2>1, <2>3, Zenon
<1> QED BY <1>6, <1>7, Zenon DEF pages, Part

\* The pages of two segments, in order, are the pieces of their data.
LEMMA PagesJoin ==
    ASSUME NEW T, NEW c \in Seq(T), NEW d \in Seq(T), NEW m \in Nat, NEW n \in Nat, n # 0,
           Len(c) = m * P, Len(d) = n * P
    PROVE  FlattenSeq(ToPages(c) \o ToPages(d)) = c \o d
<1> DEFINE ps == ToPages(c) \o ToPages(d)
           s == c \o d
           b == [k \in 0 .. (m + n) |-> k * P]
           C == Len(c)
           D == Len(d)
<1>1. P \in Nat /\ P > 0 /\ m + n \in Nat \ {0} /\ C \in Nat /\ D \in Nat
    BY PFacts
<1>2. /\ ToPages(c) \in Seq(Seq(T)) /\ Len(ToPages(c)) = m
      /\ \A j \in 1 .. m : ToPages(c)[j] = SubSeq(c, (j - 1) * P + 1, j * P)
    BY PagesOfData
<1>3. /\ ToPages(d) \in Seq(Seq(T)) /\ Len(ToPages(d)) = n
      /\ \A j \in 1 .. n : ToPages(d)[j] = SubSeq(d, (j - 1) * P + 1, j * P)
    BY PagesOfData
<1>4. /\ Len(ps) = m + n
      /\ \A k \in 1 .. (m + n) : ps[k] = IF k =< m THEN ToPages(c)[k] ELSE ToPages(d)[k - m]
    <2> DEFINE u == ToPages(c)
               v == ToPages(d)
    <2>1. u \in Seq(Seq(T)) /\ v \in Seq(Seq(T)) /\ Len(u) = m /\ Len(v) = n
        BY <1>2, <1>3
    <2> HIDE DEF u, v
    <2>2. /\ Len(u \o v) = Len(u) + Len(v)
          /\ \A k \in 1 .. (Len(u) + Len(v)) :
                (u \o v)[k] = IF k =< Len(u) THEN u[k] ELSE v[k - Len(u)]
        BY <2>1, ConcatProperties
    <2>3. /\ Len(u \o v) = m + n
          /\ \A k \in 1 .. (m + n) : (u \o v)[k] = IF k =< m THEN u[k] ELSE v[k - m]
        BY <2>1, <2>2, Zenon
    <2> QED BY <2>3 DEF u, v
<1>5. s \in Seq(T) /\ Len(s) = C + D
    BY ConcatProperties
<1>6. \A k \in 0 .. (m + n) : b[k] = k * P
    OBVIOUS
<1> HIDE DEF ps, s, b
<1>7. C + D = (m + n) * P
    BY <1>1 DEF C, D
<1>8. b[0] = 0 /\ b[m + n] = Len(s)
    <2>1. 0 \in 0 .. (m + n) /\ m + n \in 0 .. (m + n) /\ 0 * P = 0
        BY <1>1
    <2> QED BY <1>5, <1>6, <1>7, <2>1
<1>9. ASSUME NEW k \in 1 .. (m + n)
      PROVE  /\ b[k - 1] \in Nat /\ b[k] \in Nat /\ b[k - 1] =< b[k] /\ b[k] =< Len(s)
             /\ ps[k] = SubSeq(s, b[k - 1] + 1, b[k])
    <2> DEFINE x == (k - 1) * P
               y == k * P
    <2>1. k \in Nat /\ k - 1 \in Nat /\ k - 1 \in 0 .. (m + n) /\ k \in 0 .. (m + n)
          /\ k - 1 =< k /\ k =< m + n
        BY <1>1
    <2>2. b[k - 1] = x /\ b[k] = y
        BY <1>6, <2>1
    <2>3. x \in Nat /\ y \in Nat
        BY <1>1, <2>1
    <2>4. x =< y
        BY <1>1, <2>1, Products
    <2>5. y =< Len(s)
        <3>1. k * P =< (m + n) * P
            BY <1>1, <2>1, Products
        <3> QED BY <1>5, <1>7, <3>1, Zenon
    <2>6. CASE k =< m
        <3>1. ps[k] = SubSeq(c, x + 1, y)
            <4>1. k \in 1 .. m
                BY <2>6
            <4> QED BY <1>2, <1>4, <2>6, <4>1
        <3>2. y =< C
            <4>1. k * P =< m * P
                BY <1>1, <2>1, <2>6, Products
            <4> QED BY <4>1
        <3> HIDE DEF x, y
        <3>3. SubSeq(s, x + 1, y) = SubSeq(c, x + 1, y)
            BY <2>3, <2>4, <3>2, PartOfFirst DEF s, C
        <3> QED BY <2>2, <2>3, <2>4, <2>5, <3>1, <3>3, Zenon
    <2>7. CASE ~ (k =< m)
        <3> DEFINE j == k - m
                   v == (j - 1) * P
                   w == j * P
        <3>1. j \in 1 .. n /\ j \in Nat /\ j - 1 \in Nat /\ j - 1 =< j /\ j =< n
            BY <2>1, <2>7
        <3>2. ps[k] = SubSeq(d, v + 1, w)
            <4>1. ps[k] = ToPages(d)[j]
                BY <1>4, <2>7
            <4> HIDE DEF j
            <4> QED BY <1>3, <3>1, <4>1
        <3>3. x = C + v /\ y = C + w
            BY <1>1, <2>1, <3>1
        <3>4. v \in Nat /\ w \in Nat
            <4> HIDE DEF j
            <4> QED BY <1>1, <3>1
        <3>5. v =< w
            <4> HIDE DEF j
            <4> QED BY <1>1, <3>1, Products
        <3>6. w =< D
            <4> HIDE DEF j
            <4>1. j * P =< n * P
                BY <1>1, <3>1, Products
            <4> QED BY <4>1
        <3> HIDE DEF x, y, v, w
        <3>7. SubSeq(s, (C + v) + 1, C + w) = SubSeq(d, v + 1, w)
            <4>1. \A x1, y1 \in Nat : x1 =< y1 /\ y1 =< D =>
                    SubSeq(s, (C + x1) + 1, C + y1) = SubSeq(d, x1 + 1, y1)
                <5>1. Behind(c, d)
                    BY PartOfSecond
                <5> QED BY <5>1, Zenon DEF Behind, s, C, D
            <4> QED BY <3>4, <3>5, <3>6, <4>1, Zenon
        <3> QED BY <2>2, <2>3, <2>4, <2>5, <3>2, <3>3, <3>7, Zenon
    <2> QED BY <2>6, <2>7
<1>10. Pieces(ps, s, b)
    BY <1>1, <1>4, <1>8, <1>9, Zenon DEF Pieces
<1>11. FlattenSeq(ps) = SubSeq(s, 1, b[Len(ps)])
    BY <1>5, <1>10, FlattenPieces
<1>12. SubSeq(s, 1, Len(s)) = s
    BY <1>5, SubSeqFull
<1> QED BY <1>4, <1>8, <1>11, <1>12, Zenon DEF ps, s
-----------------------------------------------------------------------------
(* The app: the pages from c0 to c1 and those from d0 to d1. *)

\* The pages of a segment, from q to r, follow the first n of those that are kept.
Keeps(kept, sent, n, s, q, r) ==
    \A a \in q .. (r - 1) :
        /\ n + ((a - q) + 1) \in DOMAIN kept /\ kept[n + ((a - q) + 1)] = a * P
        /\ \A i \in Nat : i < P =>
            /\ sent[n + ((a - q) + 1)][i + 1] = s.data[((a * P + i) - s.start) + 1]
            /\ ((a * P + i) - s.start) + 1 \in 1 .. Len(s.data)

\* The size of a segment in pages, for those that cut it and those that count.
Paged(s, q, n) ==
    /\ n \in Nat /\ Len(s.data) = n * P /\ Len(ToPages(s.data)) = n
    /\ TreeOf(s.start, s.end) = PagesFrom(s.start, n)
    /\ \A j \in 1 .. n :
        \A i \in Nat : i < P =>
            LET at == (((q + j) - 1) * P + i) - s.start
            IN  ToPages(s.data)[j][i + 1] = s.data[at + 1] /\ at + 1 \in 1 .. Len(s.data)

LEMMA SegmentPages ==
    ASSUME NEW T, NEW elf, NEW s, NEW q \in Nat, NEW r \in Nat, Covers(s, elf, q, r, T)
    PROVE  Paged(s, q, r - q)
<1> DEFINE n == r - q
           start == s.start
           end == s.end
           data == s.data
<1>1. P \in Nat /\ P > 0
    BY PFacts
<1>2. /\ q =< r /\ start = q * P /\ end = r * P /\ data \in Seq(T) /\ Len(data) = end - start
    BY DEF Covers
<1> HIDE DEF start, end, data
<1>3. n \in Nat /\ end - start = n * P
    BY <1>1, <1>2
<1>4. /\ Len(ToPages(data)) = n
      /\ \A j \in 1 .. n :
            \A i \in Nat : i < P => /\ ToPages(data)[j][i + 1] = data[((j - 1) * P + i) + 1]
                                    /\ ((j - 1) * P + i) + 1 \in 1 .. Len(data)
    <2> HIDE DEF n
    <2> QED BY <1>2, <1>3, PagesOfData
<1>5. TreeOf(start, end) = PagesFrom(start, n)
    <2>1. ((n * P + P) - 1) \div P = n
        BY <1>3, PageCount
    <2>2. end - start + P - 1 = (n * P + P) - 1
        <3> HIDE DEF n
        <3> DEFINE z == n * P
        <3>1. end - start = z /\ z \in Int
            BY <1>1, <1>3
        <3>2. start \in Int /\ end \in Int
            BY <1>1, <1>2
        <3> HIDE DEF z
        <3>3. end - start + P - 1 = (z + P) - 1
            BY <1>1, <3>1, <3>2
        <3> QED BY <3>3 DEF z
    <2> HIDE DEF n
    <2> QED BY <2>1, <2>2, Zenon DEF TreeOf
<1>6. ASSUME NEW j \in 1 .. n
      PROVE  ((q + j) - 1) * P = start + (j - 1) * P /\ (j - 1) * P \in Int /\ start \in Int
    <2>1. j \in Nat
        BY <1>3
    <2>2. (q + j) - 1 = q + (j - 1)
        BY <2>1
    <2>3. (q + (j - 1)) * P = q * P + (j - 1) * P
        BY <1>1, <2>1
    <2> QED BY <1>1, <1>2, <2>1, <2>2, <2>3
<1>7. ASSUME NEW j \in 1 .. n, NEW i \in Nat, i < P
      PROVE  LET at == (((q + j) - 1) * P + i) - start
             IN  ToPages(data)[j][i + 1] = data[at + 1] /\ at + 1 \in 1 .. Len(data)
    <2> DEFINE x == (j - 1) * P
               z == ((q + j) - 1) * P
    <2>1. z = start + x /\ x \in Int /\ start \in Int
        BY <1>6
    <2>2. ToPages(data)[j][i + 1] = data[(x + i) + 1] /\ (x + i) + 1 \in 1 .. Len(data)
        BY <1>4, <1>7, Zenon
    <2> HIDE DEF x, z, n
    <2>3. (z + i) - start = x + i
        BY <2>1
    <2>4. ToPages(data)[j][i + 1] = data[((z + i) - start) + 1]
          /\ ((z + i) - start) + 1 \in 1 .. Len(data)
        BY <2>2, <2>3, Zenon
    <2> QED BY <2>4 DEF z
<1>8. Len(data) = n * P
    BY <1>2, <1>3, Zenon
<1> QED BY <1>3, <1>4, <1>5, <1>7, <1>8, Zenon DEF start, end, data, Paged

\* What the manifest says of two segments, and the pages beside it.
Holds(app, code, data) ==
    /\ app.code_pages = ToPages(code.data) /\ app.data_pages = ToPages(data.data)
    /\ app.manifest.code.start = code.start /\ app.manifest.code.end = code.end
    /\ app.manifest.data.start = data.start /\ app.manifest.data.end = data.end + HEAP_SIZE
    /\ app.manifest.bss = data.end /\ app.manifest.tree = TreeOf(data.start, data.end)
    /\ app.manifest.app_hash =
            <<code.start, code.end, data.start, data.end, code.data \o data.data>>

LEMMA AppFields ==
    ASSUME NEW code, NEW data
    PROVE  Holds(App(code, data), code, data)
<1> DEFINE tree == TreeOf(data.start, data.end)
           hash == <<code.start, code.end, data.start, data.end, code.data \o data.data>>
           app == App(code, data)
           m == Manifest(code, data)
           pages == ToPages(code.data)
           others == ToPages(data.data)
           last == data.end + HEAP_SIZE
<1>1. m = [code |-> [start |-> code.start, end |-> code.end],
           data |-> [start |-> data.start, end |-> last],
           bss |-> data.end, tree |-> tree, app_hash |-> hash]
    BY Zenon DEF Manifest
<1>2. app = [manifest |-> m, code_pages |-> pages, data_pages |-> others]
    BY Zenon DEF App
<1> HIDE DEF tree, hash, app, m, pages, others, last
<1>3. app.manifest = m /\ app.code_pages = pages /\ app.data_pages = others
    BY <1>2
<1>4. /\ m.code = [start |-> code.start, end |-> code.end]
      /\ m.data = [start |-> data.start, end |-> last]
      /\ m.bss = data.end /\ m.tree = tree /\ m.app_hash = hash
    BY <1>1
<1>5. /\ m.code.start = code.start /\ m.code.end = code.end
      /\ m.data.start = data.start /\ m.data.end = last
    BY <1>4
<1> QED BY <1>3, <1>4, <1>5, Zenon DEF tree, hash, app, pages, others, last, Holds

\* What the host keeps: the pages of the code, and then those of the data.
LEMMA HostKeeps ==
    ASSUME NEW T, NEW elf_code, NEW elf_data, NEW code, NEW data,
           NEW c0 \in Nat, NEW c1 \in Nat, NEW d0 \in Nat, NEW d1 \in Nat,
           Covers(code, elf_code, c0, c1, T), Covers(data, elf_data, d0, d1, T)
    PROVE  LET app == App(code, data)
           IN  /\ Kept(app) = PagesFrom(code.start, c1 - c0) \o PagesFrom(data.start, d1 - d0)
               /\ HostTree(app) = PagesFrom(data.start, d1 - d0)
               /\ Keeps(Kept(app), Sent(app), 0, code, c0, c1)
               /\ Keeps(Kept(app), Sent(app), c1 - c0, data, d0, d1)
<1> DEFINE app == App(code, data)
           m == c1 - c0
           n == d1 - d0
           u == ToPages(code.data)
           v == ToPages(data.data)
           s == PagesFrom(code.start, m)
           t == PagesFrom(data.start, n)
           kept == Kept(app)
           sent == Sent(app)
<1>1. /\ app.code_pages = u /\ app.data_pages = v
      /\ app.manifest.code.start = code.start /\ app.manifest.data.start = data.start
    <2>1. Holds(app, code, data)
        BY AppFields
    <2> HIDE DEF app
    <2> QED BY <2>1, Zenon DEF Holds
<1>2. /\ m \in Nat /\ Len(u) = m
      /\ \A j \in 1 .. m :
            \A i \in Nat : i < P =>
                LET at == (((c0 + j) - 1) * P + i) - code.start
                IN  u[j][i + 1] = code.data[at + 1] /\ at + 1 \in 1 .. Len(code.data)
    <2>1. Paged(code, c0, m)
        BY SegmentPages
    <2> HIDE DEF m
    <2> QED BY <2>1, Zenon DEF Paged
<1>3. /\ n \in Nat /\ Len(v) = n
      /\ \A j \in 1 .. n :
            \A i \in Nat : i < P =>
                LET at == (((d0 + j) - 1) * P + i) - data.start
                IN  v[j][i + 1] = data.data[at + 1] /\ at + 1 \in 1 .. Len(data.data)
    <2>1. Paged(data, d0, n)
        BY SegmentPages
    <2> HIDE DEF n
    <2> QED BY <2>1, Zenon DEF Paged
<1>4. u \in Seq(Seq(T)) /\ v \in Seq(Seq(T))
    <2>1. /\ code.data \in Seq(T) /\ data.data \in Seq(T)
          /\ Len(code.data) = m * P /\ Len(data.data) = n * P
        <3>1. Paged(code, c0, m) /\ Paged(data, d0, n)
            BY SegmentPages
        <3> HIDE DEF m, n
        <3> QED BY <3>1 DEF Covers, Paged
    <2> HIDE DEF m, n
    <2> QED BY <1>2, <1>3, <2>1, PagesOfData
<1>5. P \in Nat /\ P > 0
    BY PFacts
<1>6. code.start = c0 * P /\ data.start = d0 * P
    BY DEF Covers
<1>7. kept = s \o t /\ HostTree(app) = t /\ sent = u \o v
    <2> HIDE DEF app, u, v, m, n
    <2>1. kept = PagesFrom(code.start, Len(u)) \o PagesFrom(data.start, Len(v))
        BY <1>1, Zenon DEF Kept
    <2>2. HostTree(app) = PagesFrom(data.start, Len(v)) /\ sent = u \o v
        BY <1>1, Zenon DEF HostTree, Sent
    <2> QED BY <1>2, <1>3, <2>1, <2>2, Zenon
<1> HIDE DEF app, u, v, kept, sent, m, n
<1>8. /\ s \in Seq(Int) /\ Len(s) = m /\ \A j \in 1 .. m : s[j] = c0 * P + (j - 1) * P
      /\ t \in Seq(Int) /\ Len(t) = n /\ \A j \in 1 .. n : t[j] = d0 * P + (j - 1) * P
    <2>1. c0 * P \in Int /\ d0 * P \in Int
        BY <1>5
    <2>2. \A j \in Int : (j - 1) * P \in Int
        BY <1>5
    <2>3. s = [j \in 1 .. m |-> c0 * P + (j - 1) * P] /\ t = [j \in 1 .. n |-> d0 * P + (j - 1) * P]
        BY <1>6, Zenon DEF PagesFrom
    <2> HIDE DEF s, t
    <2>4. \A j \in Int : c0 * P + (j - 1) * P \in Int /\ d0 * P + (j - 1) * P \in Int
        BY <2>1, <2>2
    <2>5. (1 .. m) \in SUBSET Int /\ (1 .. n) \in SUBSET Int
        BY <1>2, <1>3
    <2> QED BY <1>2, <1>3, <2>3, <2>4, <2>5
<1> HIDE DEF s, t
<1>9. /\ Len(kept) = m + n /\ DOMAIN kept = 1 .. (m + n)
      /\ \A k \in 1 .. (m + n) : kept[k] = IF k =< m THEN s[k] ELSE t[k - m]
    <2>1. /\ s \o t \in Seq(Int) /\ Len(s \o t) = Len(s) + Len(t)
          /\ \A k \in 1 .. (Len(s) + Len(t)) :
                (s \o t)[k] = IF k =< Len(s) THEN s[k] ELSE t[k - Len(s)]
        BY <1>8, ConcatProperties
    <2>2. /\ kept \in Seq(Int) /\ Len(kept) = m + n
          /\ \A k \in 1 .. (m + n) : kept[k] = IF k =< m THEN s[k] ELSE t[k - m]
        BY <1>7, <1>8, <2>1, Zenon
    <2>3. DOMAIN kept = 1 .. Len(kept)
        BY <2>2
    <2> QED BY <2>2, <2>3, Zenon
<1>10. \A k \in 1 .. (m + n) : sent[k] = IF k =< m THEN u[k] ELSE v[k - m]
    <2>1. \A k \in 1 .. (Len(u) + Len(v)) :
            (u \o v)[k] = IF k =< Len(u) THEN u[k] ELSE v[k - Len(u)]
        BY <1>4, ConcatProperties
    <2> QED BY <1>2, <1>3, <1>7, <2>1, Zenon
<1>11. ASSUME NEW q \in Nat, NEW j \in Int, NEW a \in Int, a = (q + j) - 1
       PROVE  q * P + (j - 1) * P = a * P
    <2>1. a = q + (j - 1)
        BY <1>11
    <2>2. (q + (j - 1)) * P = q * P + (j - 1) * P
        BY <1>5
    <2> QED BY <2>1, <2>2
<1>12. Keeps(kept, sent, 0, code, c0, c1)
    <2> SUFFICES ASSUME NEW a \in c0 .. (c1 - 1)
                 PROVE  LET k == 0 + ((a - c0) + 1)
                        IN  /\ k \in DOMAIN kept /\ kept[k] = a * P
                            /\ \A i \in Nat : i < P =>
                                /\ sent[k][i + 1] = code.data[((a * P + i) - code.start) + 1]
                                /\ ((a * P + i) - code.start) + 1 \in 1 .. Len(code.data)
        BY Zenon DEF Keeps
    <2> DEFINE k == 0 + ((a - c0) + 1)
    <2>1. /\ k \in 1 .. m /\ k \in 1 .. (m + n) /\ k =< m /\ a = (c0 + k) - 1
          /\ k \in Int /\ a \in Int
        BY <1>3 DEF m
    <2> HIDE DEF k
    <2>2. kept[k] = a * P
        <3>1. kept[k] = c0 * P + (k - 1) * P
            BY <1>8, <1>9, <2>1, Zenon
        <3>2. c0 * P + (k - 1) * P = a * P
            BY <1>11, <2>1
        <3> QED BY <3>1, <3>2, Zenon
    <2>3. ASSUME NEW i \in Nat, i < P
          PROVE  /\ sent[k][i + 1] = code.data[((a * P + i) - code.start) + 1]
                 /\ ((a * P + i) - code.start) + 1 \in 1 .. Len(code.data)
        <3>1. sent[k] = u[k]
            BY <1>10, <2>1, Zenon
        <3>2. /\ u[k][i + 1] = code.data[((((c0 + k) - 1) * P + i) - code.start) + 1]
              /\ ((((c0 + k) - 1) * P + i) - code.start) + 1 \in 1 .. Len(code.data)
            BY <1>2, <2>1, <2>3, Zenon
        <3> QED BY <2>1, <3>1, <3>2, Zenon
    <2> QED BY <1>9, <2>1, <2>2, <2>3, Zenon DEF k
<1>13. Keeps(kept, sent, m, data, d0, d1)
    <2> SUFFICES ASSUME NEW a \in d0 .. (d1 - 1)
                 PROVE  LET k == m + ((a - d0) + 1)
                        IN  /\ k \in DOMAIN kept /\ kept[k] = a * P
                            /\ \A i \in Nat : i < P =>
                                /\ sent[k][i + 1] = data.data[((a * P + i) - data.start) + 1]
                                /\ ((a * P + i) - data.start) + 1 \in 1 .. Len(data.data)
        BY Zenon DEF Keeps
    <2> DEFINE j == (a - d0) + 1
               k == m + j
    <2>1. j \in 1 .. n /\ a = (d0 + j) - 1 /\ j \in Int /\ a \in Int
        BY DEF n
    <2> HIDE DEF j
    <2>2. k \in 1 .. (m + n) /\ ~ (k =< m) /\ k - m = j
        BY <1>2, <1>3, <2>1
    <2> HIDE DEF k
    <2>3. kept[k] = a * P
        <3>1. kept[k] = d0 * P + (j - 1) * P
            BY <1>8, <1>9, <2>1, <2>2, Zenon
        <3>2. d0 * P + (j - 1) * P = a * P
            BY <1>11, <2>1
        <3> QED BY <3>1, <3>2, Zenon
    <2>4. ASSUME NEW i \in Nat, i < P
          PROVE  /\ sent[k][i + 1] = data.data[((a * P + i) - data.start) + 1]
                 /\ ((a * P + i) - data.start) + 1 \in 1 .. Len(data.data)
        <3>1. sent[k] = v[j]
            BY <1>10, <2>2, Zenon
        <3>2. /\ v[j][i + 1] = data.data[((((d0 + j) - 1) * P + i) - data.start) + 1]
              /\ ((((d0 + j) - 1) * P + i) - data.start) + 1 \in 1 .. Len(data.data)
            BY <1>3, <2>1, <2>4, Zenon
        <3> QED BY <2>1, <3>1, <3>2, Zenon
    <2> QED BY <1>9, <2>2, <2>3, <2>4, Zenon DEF k, j
<1> QED BY <1>7, <1>12, <1>13, Zenon DEF app, kept, sent, m, n, s, t

\* The byte at an address, of the page that is kept at the address of its page.
ByteOf(kept, sent, a) == sent[CHOOSE i \in DOMAIN kept : kept[i] = PageOf(a)][(a % P) + 1]

\* A byte of a segment, read from the one page that is kept at the address of its page.
LEMMA PageRead ==
    ASSUME NEW T, NEW elf, NEW s, NEW q \in Nat, NEW r \in Nat, Covers(s, elf, q, r, T),
           NEW kept, NEW sent, NEW n, Keeps(kept, sent, n, s, q, r), IsInjective(kept),
           NEW a \in Nat, s.start =< a, a < s.end
    PROVE  ByteOf(kept, sent, a) = At(elf, a)
<1> DEFINE k == CHOOSE i \in DOMAIN kept : kept[i] = PageOf(a)
<1>1. PICK p \in Nat : PageOf(a) = p * P /\ p * P =< a /\ a < p * P + P /\ a % P = a - p * P
    BY InPage
<1>2. /\ s.start = q * P /\ s.end = r * P
      /\ \A i \in 1 .. Len(s.data) : s.data[i] = At(elf, (s.start + i) - 1)
    BY Zenon DEF Covers
<1>3. P \in Nat /\ P > 0
    BY PFacts
<1>4. p \in q .. (r - 1)
    <2>1. q =< p
        <3>1. q * P =< a
            BY <1>2
        <3> QED BY <1>1, <3>1, PageOrder
    <2>2. p + 1 =< r
        <3> SUFFICES ASSUME ~ (p + 1 =< r) PROVE FALSE
            OBVIOUS
        <3>1. r =< p
            OBVIOUS
        <3>2. r * P =< p * P
            BY <1>3, <3>1, Products
        <3> DEFINE x == r * P
                   y == p * P
        <3>3. x \in Int /\ y \in Int
            BY <1>3
        <3>4. x =< y /\ y =< a /\ a < x
            BY <1>1, <1>2, <3>2
        <3> HIDE DEF x, y
        <3> QED BY <3>3, <3>4
    <2> QED BY <2>1, <2>2
<1> DEFINE j == n + ((p - q) + 1)
           i == a % P
<1>5. /\ j \in DOMAIN kept /\ kept[j] = p * P
      /\ \A c \in Nat : c < P =>
            /\ sent[j][c + 1] = s.data[((p * P + c) - s.start) + 1]
            /\ ((p * P + c) - s.start) + 1 \in 1 .. Len(s.data)
    BY <1>4, Zenon DEF Keeps
<1> HIDE DEF j
<1>6. k = j
    <2>1. \E c \in DOMAIN kept : kept[c] = PageOf(a)
        BY <1>1, <1>5, Zenon
    <2>2. k \in DOMAIN kept /\ kept[k] = PageOf(a)
        BY <2>1, Zenon
    <2> HIDE DEF k
    <2>3. kept[k] = kept[j]
        BY <1>1, <1>5, <2>2, Zenon
    <2> QED BY <1>5, <2>2, <2>3, Zenon DEF IsInjective
<1>7. i \in Nat /\ i < P /\ p * P + i = a
    <2> DEFINE z == p * P
    <2>1. z \in Int /\ z =< a /\ a < z + P /\ i = a - z
        BY <1>1, <1>3
    <2> HIDE DEF z, i
    <2>2. i \in Nat /\ i < P /\ z + i = a
        BY <1>3, <2>1
    <2> QED BY <2>2 DEF z
<1> HIDE DEF i, k
<1>8. sent[j][i + 1] = s.data[(a - s.start) + 1] /\ (a - s.start) + 1 \in 1 .. Len(s.data)
    BY <1>5, <1>7, Zenon
<1> DEFINE at == (a - s.start) + 1
<1>9. (s.start + at) - 1 = a
    <2>1. s.start \in Int
        BY <1>2, <1>3
    <2> QED BY <2>1
<1>10. at \in 1 .. Len(s.data)
    BY <1>8
<1> HIDE DEF at
<1>11. s.data[at] = At(elf, a)
    BY <1>2, <1>9, <1>10, Zenon
<1>12. sent[j][i + 1] = s.data[at]
    BY <1>8, Zenon DEF at
<1> QED BY <1>6, <1>11, <1>12, Zenon DEF i, k, ByteOf
-----------------------------------------------------------------------------
(* The program in memory. *)

\* Code and data are in pages of their own, or the host refuses to load the app.
LEMMA PagesApart ==
    ASSUME NEW T, NEW elf_code, NEW elf_data, IsProgram(elf_code, elf_data, T),
           NEW code, NEW data,
           NEW c0 \in Nat, NEW c1 \in Nat, NEW d0 \in Nat, NEW d1 \in Nat,
           Covers(code, elf_code, c0, c1, T), Covers(data, elf_data, d0, d1, T), d0 < d1,
           NEW kept, NEW sent, Keeps(kept, sent, 0, code, c0, c1),
           Keeps(kept, sent, c1 - c0, data, d0, d1), IsInjective(kept)
    PROVE  code.end =< elf_data.vaddr
<1> DEFINE a == elf_data.vaddr
           e == elf_code.vaddr + Len(elf_code.bytes)
<1>1. P \in Nat /\ P > 0
    BY PFacts
<1>2. /\ a \in Nat /\ e \in Nat /\ e =< a /\ elf_code.vaddr =< e
    <2>1. /\ a \in Nat /\ elf_code.vaddr \in Nat /\ elf_code.bytes \in Seq(T)
          /\ elf_code.memsz = Len(elf_code.bytes) /\ elf_code.vaddr + elf_code.memsz =< a
        BY Zenon DEF IsProgram, IsElf
    <2>2. Len(elf_code.bytes) \in Nat
        BY <2>1
    <2> HIDE DEF a
    <2> QED BY <2>1, <2>2
<1>3. /\ code.end = c1 * P /\ code.start = c0 * P /\ code.end < e + P /\ c0 =< c1
      /\ code.start =< elf_code.vaddr
      /\ data.start = d0 * P /\ data.start =< a /\ a < data.start + P
    BY Zenon DEF Covers
<1> SUFFICES ASSUME a < code.end PROVE FALSE
    <2>1. code.end \in Int
        BY <1>1, <1>3
    <2> QED BY <1>2, <2>1
<1> HIDE DEF a, e
<1>4. c1 * P \in Int /\ c0 * P \in Int /\ d0 * P \in Int /\ (c1 - 1) * P = c1 * P - P
    BY <1>1
<1> DEFINE x == c1 * P
           w == c0 * P
           y == d0 * P
           v == (c1 - 1) * P
<1>5. /\ x \in Int /\ y \in Int /\ w \in Int /\ v = x - P /\ x < e + P /\ y =< a /\ a < y + P
      /\ a < x /\ w =< elf_code.vaddr
    BY <1>3, <1>4
<1> HIDE DEF x, y, v, w
<1>6. c0 # c1
    <2> SUFFICES ASSUME c0 = c1 PROVE FALSE
        OBVIOUS
    <2>1. x = w
        BY DEF x, w
    <2>2. elf_code.vaddr \in Nat
        BY Zenon DEF IsProgram, IsElf
    <2> QED BY <1>2, <1>5, <2>1, <2>2
<1>7. d0 = c1 - 1
    <2>1. v =< a /\ a < v + P /\ y =< a /\ a < y + P
        BY <1>1, <1>2, <1>5
    <2>2. (c1 - 1) * P =< a /\ a < (c1 - 1) * P + P /\ d0 * P =< a /\ a < d0 * P + P
        BY <2>1 DEF v, y
    <2> DEFINE b == c1 - 1
    <2>3. b \in Int
        OBVIOUS
    <2>4. b * P =< a /\ a < b * P + P
        BY <2>2
    <2> HIDE DEF b
    <2>5. b =< d0 /\ d0 =< b
        BY <1>2, <2>2, <2>3, <2>4, PageOrder
    <2>6. d0 = b
        BY <2>3, <2>5
    <2> QED BY <2>6 DEF b
<1>8. c1 - 1 \in c0 .. (c1 - 1) /\ d0 \in d0 .. (d1 - 1)
    BY <1>3, <1>6
<1> DEFINE i == 0 + (((c1 - 1) - c0) + 1)
           j == (c1 - c0) + ((d0 - d0) + 1)
<1>9. i \in DOMAIN kept /\ kept[i] = (c1 - 1) * P
    BY <1>8, Zenon DEF Keeps
<1>10. j \in DOMAIN kept /\ kept[j] = d0 * P
    BY <1>8, Zenon DEF Keeps
<1>11. i # j
    OBVIOUS
<1> HIDE DEF i, j
<1> QED BY <1>7, <1>9, <1>10, <1>11, Zenon DEF IsInjective

\* Of every program: if the HSM signs it and the host loads it, what is in memory on the device
\* is the program of the ELF file, and the three agree on its pages, their addresses, the hash
\* and the tree (elf.py, hsm.py, compute_section_hmacs, DeviceStream.__init__, get_cache).
THEOREM ImagesRun ==
    ASSUME NEW T, 0 \in T, NEW elf_code, NEW elf_data, IsProgram(elf_code, elf_data, T)
    PROVE  RunsTheProgram(elf_code, elf_data)
<1> DEFINE code == Segment(elf_code)
           data == Segment(elf_data)
           app == App(code, data)
           m == app.manifest
           Memory(elf) == elf.vaddr .. elf.vaddr + elf.memsz - 1
           InCode == \A a \in Memory(elf_code) :
                        CacheOf(m, a) = "code" /\ FirstRead(app, a) = Expected(elf_code, a)
           InData == \A a \in Memory(elf_data) :
                        CacheOf(m, a) = "data" /\ FirstRead(app, a) = Expected(elf_data, a)
<1>1. PICK c0 \in Nat, c1 \in Nat : Covers(code, elf_code, c0, c1, T)
    <2>1. \E q, r \in Nat : Covers(code, elf_code, q, r, T)
        BY SegmentCovers DEF IsProgram
    <2> HIDE DEF code
    <2> QED BY <2>1, Zenon
<1>2. PICK d0 \in Nat, d1 \in Nat : Covers(data, elf_data, d0, d1, T)
    <2>1. \E q, r \in Nat : Covers(data, elf_data, q, r, T)
        BY SegmentCovers DEF IsProgram
    <2> HIDE DEF data
    <2> QED BY <2>1, Zenon
<1>3. SUFFICES ASSUME Signs(code, data), HostLoads(app)
               PROVE  /\ DeviceHash(m, Sent(app)) = m.app_hash /\ AskedPages(m) = Kept(app)
                      /\ HostTree(app) = m.tree /\ InCode /\ InData
    BY Zenon DEF RunsTheProgram
<1>4. Holds(app, code, data)
    <2> HIDE DEF code, data
    <2> QED BY AppFields
<1> HIDE DEF code, data
<1> DEFINE kept == Kept(app)
           sent == Sent(app)
<1>5. /\ kept = PagesFrom(code.start, c1 - c0) \o PagesFrom(data.start, d1 - d0)
      /\ HostTree(app) = PagesFrom(data.start, d1 - d0)
      /\ Keeps(kept, sent, 0, code, c0, c1) /\ Keeps(kept, sent, c1 - c0, data, d0, d1)
    BY <1>1, <1>2, HostKeeps, Zenon
<1>6. Paged(code, c0, c1 - c0) /\ Paged(data, d0, d1 - d0)
    BY <1>1, <1>2, SegmentPages
<1>7. IsInjective(kept)
    BY <1>3, Zenon DEF HostLoads
<1>8. sent = ToPages(code.data) \o ToPages(data.data)
    <2> HIDE DEF app
    <2> QED BY <1>4, Zenon DEF Sent, Holds
<1> HIDE DEF app
<1>9. d0 < d1
    <2> SUFFICES ASSUME ~ (d0 < d1) PROVE FALSE
        OBVIOUS
    <2>1. d1 - d0 = 0
        <3>1. d0 =< d1
            BY <1>2, Zenon DEF Covers
        <3> QED BY <3>1
    <2>2. TreeOf(data.start, data.end) = PagesFrom(data.start, 0)
        BY <1>6, <2>1, Zenon DEF Paged
    <2>3. PagesFrom(data.start, 0) = <<>>
        BY DEF PagesFrom
    <2> QED BY <1>3, <2>2, <2>3, Zenon DEF Signs
<1>10. DeviceHash(m, sent) = m.app_hash
    <2> DEFINE k == c1 - c0
               n == d1 - d0
    <2>1. /\ code.data \in Seq(T) /\ data.data \in Seq(T)
          /\ k \in Nat /\ Len(code.data) = k * P /\ n \in Nat /\ Len(data.data) = n * P
        <3>1. code.data \in Seq(T) /\ data.data \in Seq(T)
            BY <1>1, <1>2, Zenon DEF Covers
        <3> HIDE DEF k, n
        <3> QED BY <1>6, <3>1, Zenon DEF Paged, k, n
    <2>2. n # 0
        BY <1>9
    <2> HIDE DEF k, n
    <2>3. FlattenSeq(ToPages(code.data) \o ToPages(data.data)) = code.data \o data.data
        BY <2>1, <2>2, PagesJoin
    <2> HIDE DEF sent
    <2>4. DeviceHash(m, sent) =
            <<m.code.start, m.code.end, m.data.start, m.bss, code.data \o data.data>>
        BY <1>8, <2>3, Zenon DEF DeviceHash
    <2> QED BY <1>4, <2>4, Zenon DEF Holds
<1>11. AskedPages(m) = kept /\ HostTree(app) = m.tree
    <2>1. /\ m.code.start = code.start /\ m.code.end = code.end /\ m.data.start = data.start
          /\ m.bss = data.end /\ m.tree = TreeOf(data.start, data.end)
        BY <1>4, Zenon DEF Holds
    <2>2. /\ TreeOf(code.start, code.end) = PagesFrom(code.start, c1 - c0)
          /\ TreeOf(data.start, data.end) = PagesFrom(data.start, d1 - d0)
        BY <1>6, Zenon DEF Paged
    <2>3. AskedPages(m) = TreeOf(code.start, code.end) \o TreeOf(data.start, data.end)
        BY <2>1, Zenon DEF AskedPages, Asked
    <2> QED BY <1>5, <2>1, <2>2, <2>3, Zenon
<1>12. \A a : FirstRead(app, a) =
                IF CacheOf(m, a) = "data" /\ PageOf(a) >= PageOf(m.bss) THEN 0
                ELSE ByteOf(kept, sent, a)
    BY Zenon DEF FirstRead, ByteOf
<1> HIDE DEF kept, sent
<1> DEFINE ca == elf_code.vaddr
           cl == Len(elf_code.bytes)
           da == elf_data.vaddr
           dl == Len(elf_data.bytes)
           dm == elf_data.memsz
<1>13. /\ ca \in Nat /\ cl \in Nat /\ elf_code.memsz = cl
       /\ da \in Nat /\ dl \in Nat /\ dm \in Nat /\ dm =< dl + HEAP_SIZE /\ HEAP_SIZE \in Nat
    <2>1. /\ ca \in Nat /\ elf_code.bytes \in Seq(T) /\ elf_code.memsz = cl
          /\ da \in Nat /\ elf_data.bytes \in Seq(T) /\ dm \in Nat /\ dm =< dl + HEAP_SIZE
        BY Zenon DEF IsProgram, IsElf
    <2> QED BY <2>1, PFacts
<1> DEFINE cs == code.start
           ce == code.end
           ds == data.start
           de == data.end
<1>14. /\ cs \in Nat /\ ce \in Nat /\ cs =< ca /\ ca + cl =< ce
       /\ ds \in Nat /\ de \in Nat /\ ds =< da /\ da + dl =< de /\ de = d1 * P
    BY <1>1, <1>2, Zenon DEF Covers
<1>15. ce =< da
    <2> HIDE DEF app
    <2> QED BY <1>1, <1>2, <1>5, <1>7, <1>9, PagesApart
<1>16. \A a : CacheOf(m, a) = IF cs =< a /\ a < ce THEN "code"
                             ELSE IF ds =< a /\ a < de + HEAP_SIZE THEN "data" ELSE "none"
    BY <1>4, Zenon DEF Holds, CacheOf, InSection
<1>17. m.bss = de
    BY <1>4, Zenon DEF Holds
<1> HIDE DEF m, ca, cl, da, dl, dm, cs, ce, ds, de
<1>18. InCode
    <2> SUFFICES ASSUME NEW a \in Memory(elf_code)
                 PROVE  CacheOf(m, a) = "code" /\ FirstRead(app, a) = Expected(elf_code, a)
        OBVIOUS
    <2>1. a \in ca .. (ca + cl - 1)
        BY <1>13, Zenon DEF ca
    <2>2. a \in Nat /\ ca =< a /\ cs =< a /\ a < ce
        BY <1>13, <1>14, <2>1
    <2>3. CacheOf(m, a) = "code"
        BY <1>16, <2>2, Zenon
    <2>4. FirstRead(app, a) = ByteOf(kept, sent, a)
        <3>1. "code" # "data"
            OBVIOUS
        <3> QED BY <1>12, <2>3, <3>1, Zenon
    <2>5. ByteOf(kept, sent, a) = At(elf_code, a)
        <3>1. code.start =< a /\ a < code.end
            BY <2>2 DEF cs, ce
        <3> QED BY <1>1, <1>5, <1>7, <2>2, <3>1, PageRead
    <2>6. At(elf_code, a) = Expected(elf_code, a)
        <3>1. ~ (a < ca)
            BY <1>13, <2>2
        <3> QED BY <3>1, Zenon DEF At, ca
    <2> QED BY <2>3, <2>4, <2>5, <2>6, Zenon
<1>19. InData
    <2> SUFFICES ASSUME NEW a \in Memory(elf_data)
                 PROVE  CacheOf(m, a) = "data" /\ FirstRead(app, a) = Expected(elf_data, a)
        OBVIOUS
    <2>1. a \in da .. (da + dm - 1)
        BY Zenon DEF da, dm
    <2>2. a \in Nat /\ da =< a /\ ds =< a /\ a < de + HEAP_SIZE /\ ~ (a < ce)
        BY <1>13, <1>14, <1>15, <2>1
    <2>3. CacheOf(m, a) = "data"
        BY <1>16, <2>2, Zenon
    <2>4. CASE PageOf(a) >= PageOf(de)
        <3>1. FirstRead(app, a) = 0
            BY <1>12, <1>17, <2>3, <2>4, Zenon
        <3>2. PICK p \in Nat : PageOf(a) = p * P /\ p * P =< a
            BY <2>2, InPage
        <3>3. PICK r \in Nat : PageOf(de) = r * P /\ r * P =< de /\ de < r * P + P
            BY <1>14, InPage
        <3>4. P \in Nat /\ P > 0
            BY PFacts
        <3>5. d1 =< r
            <4>1. d1 * P =< de
                BY <1>14
            <4> QED BY <1>14, <3>3, <4>1, PageOrder
        <3>6. d1 * P =< r * P
            BY <3>4, <3>5, Products
        <3>7. de =< a
            <4> DEFINE x == p * P
                       y == r * P
            <4>1. x \in Nat /\ y \in Nat
                BY <3>4
            <4>2. de =< y /\ x >= y /\ x =< a
                BY <1>14, <2>4, <3>2, <3>3, <3>6
            <4> HIDE DEF x, y
            <4> QED BY <1>14, <2>2, <4>1, <4>2
        <3>8. ~ (a < da + dl)
            BY <1>13, <1>14, <2>2, <3>7
        <3>9. Expected(elf_data, a) = 0
            BY <3>8, Zenon DEF Expected, da, dl
        <3> QED BY <2>3, <3>1, <3>9, Zenon
    <2>5. CASE ~ (PageOf(a) >= PageOf(de))
        <3>1. FirstRead(app, a) = ByteOf(kept, sent, a)
            BY <1>12, <1>17, <2>5, Zenon
        <3>2. a < de
            <4> SUFFICES ASSUME ~ (a < de) PROVE FALSE
                OBVIOUS
            <4>1. PICK p \in Nat : PageOf(a) = p * P /\ a < p * P + P
                BY <2>2, InPage
            <4>2. PICK r \in Nat : PageOf(de) = r * P /\ r * P =< de
                BY <1>14, InPage
            <4>3. P \in Nat /\ P > 0
                BY PFacts
            <4>4. r =< p
                <5>1. r * P =< a
                    <6> DEFINE y == r * P
                    <6>1. y \in Nat /\ y =< de
                        BY <4>2, <4>3
                    <6> HIDE DEF y
                    <6>2. y =< a
                        BY <1>14, <2>2, <6>1
                    <6> QED BY <6>2 DEF y
                <5> QED BY <2>2, <4>1, <5>1, PageOrder
            <4>5. r * P =< p * P
                BY <4>3, <4>4, Products
            <4> QED BY <2>5, <4>1, <4>2, <4>3, <4>5
        <3>3. ByteOf(kept, sent, a) = At(elf_data, a)
            <4>1. data.start =< a /\ a < data.end
                BY <2>2, <3>2 DEF ds, de
            <4> QED BY <1>2, <1>5, <1>7, <2>2, <4>1, PageRead
        <3>4. At(elf_data, a) = Expected(elf_data, a)
            <4>1. ~ (a < da)
                BY <1>13, <2>2
            <4> QED BY <4>1, Zenon DEF At, da
        <3> QED BY <2>3, <3>1, <3>3, <3>4, Zenon
    <2> QED BY <2>4, <2>5, Zenon
<1> QED BY <1>10, <1>11, <1>18, <1>19, Zenon DEF kept, sent

\* Whatever programs the inputs are, they run as their ELF files say, in every state.
THEOREM ProgramsAlwaysRun ==
    ASSUME NEW T, 0 \in T
    PROVE  [](Given("image") => IsProgram(input[1], input[2], T)) => []ProgramsRun
<1>1. (Given("image") => IsProgram(input[1], input[2], T)) => ProgramsRun
    BY ImagesRun DEF ProgramsRun
<1> QED BY <1>1, PTL

\* Whatever lengths the inputs are, APDUs of these lengths go whole over Bluetooth.
THEOREM FramesAlwaysArrive ==
    [](Given("ble") => AreLengths(input[1], input[2])) => []FramesCarryTheApdu
<1>1. ASSUME NEW k \in Nat \ {0} PROVE ApduOf(k) \in Seq(Nat) /\ Len(ApduOf(k)) = k
    BY DEF ApduOf
<1>2. (Given("ble") => AreLengths(input[1], input[2])) => FramesCarryTheApdu
    <2> SUFFICES ASSUME AreLengths(input[1], input[2])
                 PROVE  ArrivesWhole(ApduOf(input[1]), ApduOf(input[2]))
        BY Zenon DEF FramesCarryTheApdu
    <2> DEFINE request == ApduOf(input[1])
               reply == ApduOf(input[2])
    <2>1. /\ request \in Seq(Nat) /\ reply \in Seq(Nat)
          /\ Len(request) # 0 /\ Len(reply) # 0 /\ Len(reply) =< Room(0) + Room(1)
        BY <1>1 DEF AreLengths
    <2> HIDE DEF request, reply
    <2>2. ArrivesWhole(request, reply)
        BY <2>1, FramesArrive
    <2> QED BY <2>2 DEF request, reply
<1> QED BY <1>2, PTL
=============================================================================
