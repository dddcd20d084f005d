----------------------------- MODULE GuestProofs -----------------------------
(***************************************************************************)
(* Proofs about the system calls that walk through the app's memory, for    *)
(* every size of a page and every number of pages and slots.  What is in a  *)
(* slot and what is in the store make one flat memory: get_buffer does not  *)
(* change it, and a turn of a loop changes the bytes of its chunk alone.    *)
(***************************************************************************)
EXTENDS GuestMemory, SequenceTheorems, WellFoundedInduction, TLAPS

\* The cache: a page is in one slot at most.
CacheOK(c) ==
    /\ DOMAIN c = Slots
    /\ \A s \in Slots : DOMAIN c[s] = {"page", "data"} /\ c[s].page \in Pages \cup {NoPage}
    /\ \A s, t \in Slots : c[s].page = c[t].page /\ c[s].page # NoPage => s = t

\* The byte at address a, of a cache and a store.
InSlots(c, p) == {s \in Slots : c[s].page = p}
View(c, st, a) ==
    IF InSlots(c, PageOf(a)) # {}
    THEN c[CHOOSE s \in InSlots(c, PageOf(a)) : TRUE].data[a % PAGE_SIZE]
    ELSE st[PageOf(a)][a % PAGE_SIZE]
-----------------------------------------------------------------------------
(* Addresses. *)

\* A quotient is the only one.
LEMMA Quotient ==
    ASSUME NEW P \in Nat, NEW q \in Int, NEW q2 \in Int, NEW r \in Int, NEW r2 \in Int,
           q * P + r = q2 * P + r2, 0 =< r, r < P, 0 =< r2, r2 < P
    PROVE  q = q2 /\ r = r2
<1>1. ASSUME NEW x \in Int, NEW y \in Int, x < y
      PROVE  x * P + P =< y * P
    <2>1. (y - x - 1) * P >= 0
        BY <1>1
    <2>2. (y - x - 1) * P = y * P - x * P - P
        OBVIOUS
    <2> QED BY <2>1, <2>2
<1>2. ~(q < q2)
    BY <1>1
<1>3. ~(q2 < q)
    BY <1>1
<1> QED BY <1>2, <1>3

\* An address is a page and an offset.
LEMMA Split ==
    ASSUME NEW a \in Nat
    PROVE  /\ PageOf(a) \in Nat /\ a % PAGE_SIZE \in Offsets
           /\ a = PageOf(a) * PAGE_SIZE + (a % PAGE_SIZE)
           /\ PageOf(a) \in Pages <=> a \in Addrs
<1> DEFINE P == PAGE_SIZE
<1>1. P \in Nat \ {0} /\ NPages \in Nat \ {0}
    BY GuestMemoryAssumption
<1> HIDE DEF P
<1>2. a \div P \in Nat /\ a % P \in 0 .. (P - 1) /\ a = (a \div P) * P + (a % P)
    <2>1. a % P \in 0 .. (P - 1)
        BY <1>1
    <2>2. a \div P \in Int
        BY <1>1
    <2>3. a = (a \div P) * P + (a % P)
        BY <1>1
    <2>4. a \div P >= 0
        BY <1>1
    <2> QED BY <2>1, <2>2, <2>3, <2>4
<1>3. (a \div P) =< NPages - 1 => a =< NPages * P - 1
    <2>1. SUFFICES ASSUME (a \div P) =< NPages - 1 PROVE a =< NPages * P - 1
        OBVIOUS
    <2>2. (NPages - 1 - (a \div P)) * P >= 0
        BY <1>1, <1>2, <2>1
    <2>3. (NPages - 1 - (a \div P)) * P = NPages * P - P - (a \div P) * P
        BY <1>1, <1>2
    <2> QED BY <1>1, <1>2, <2>2, <2>3
<1>4. (a \div P) > NPages - 1 => a > NPages * P - 1
    <2>1. SUFFICES ASSUME (a \div P) > NPages - 1 PROVE a > NPages * P - 1
        OBVIOUS
    <2>2. ((a \div P) - NPages) * P >= 0
        BY <1>1, <1>2, <2>1
    <2>3. ((a \div P) - NPages) * P = (a \div P) * P - NPages * P
        BY <1>1, <1>2
    <2> QED BY <1>1, <1>2, <2>2, <2>3
<1>5. NPages * P \in Nat
    BY <1>1
<1>6. (a \div P) \in 0 .. (NPages - 1) <=> a \in 0 .. (NPages * P - 1)
    BY <1>1, <1>2, <1>3, <1>4, <1>5
<1> QED BY <1>2, <1>6 DEF P, PageOf, Pages, Addrs, Offsets

\* The addresses of a chunk that does not cross the end of the page.
LEMMA InChunk ==
    ASSUME NEW d \in Nat, NEW n \in Nat, (d % PAGE_SIZE) + n =< PAGE_SIZE, NEW a \in Nat
    PROVE  /\ a \in d .. (d + n - 1) <=>
                 /\ PageOf(a) = PageOf(d)
                 /\ a % PAGE_SIZE \in (d % PAGE_SIZE) .. ((d % PAGE_SIZE) + n - 1)
           /\ PageOf(a) = PageOf(d) => (a % PAGE_SIZE) - (d % PAGE_SIZE) = a - d
<1> DEFINE P == PAGE_SIZE  pa == PageOf(a)  pd == PageOf(d)  ra == a % P  rd == d % P
<1>1. /\ P \in Nat \ {0} /\ pa \in Nat /\ pd \in Nat
      /\ ra \in 0 .. (P - 1) /\ rd \in 0 .. (P - 1) /\ rd + n =< P
      /\ a = pa * P + ra /\ d = pd * P + rd
    BY Split, GuestMemoryAssumption DEF Offsets
<1> HIDE DEF P, pa, pd, ra, rd
<1>2. pa = pd => ra - rd = a - d
    BY <1>1
<1>3. ASSUME a \in d .. (d + n - 1) PROVE pa = pd
    <2> DEFINE r2 == rd + (a - d)
    <2>1. r2 \in Int /\ 0 =< r2 /\ r2 < P /\ pd * P + r2 = pa * P + ra
        BY <1>1, <1>3
    <2> HIDE DEF r2
    <2> QED BY <1>1, <2>1, Quotient
<1>4. a \in d .. (d + n - 1) => ra \in rd .. (rd + n - 1)
    BY <1>1, <1>2, <1>3
<1>5. pa = pd /\ ra \in rd .. (rd + n - 1) => a \in d .. (d + n - 1)
    BY <1>1, <1>2
<1>6. a \in d .. (d + n - 1) <=> pa = pd /\ ra \in rd .. (rd + n - 1)
    BY <1>3, <1>4, <1>5, Zenon
<1> QED BY <1>2, <1>6, Zenon DEF P, pa, pd, ra, rd
-----------------------------------------------------------------------------
(* The page cache. *)

\* A page that is in a slot is in no other.
LEMMA ViewHeld ==
    ASSUME NEW c, CacheOK(c), NEW st, NEW s \in Slots, NEW a \in Addrs,
           c[s].page = PageOf(a)
    PROVE  View(c, st, a) = c[s].data[a % PAGE_SIZE]
<1>1. c[s].page # NoPage
    <2>1. a \in Nat
        BY GuestMemoryAssumption DEF Addrs
    <2> QED BY <2>1, Split DEF NoPage
<1>2. \A t \in InSlots(c, PageOf(a)) : t = s
    BY <1>1 DEF CacheOK, InSlots
<1>3. s \in InSlots(c, PageOf(a))
    BY DEF InSlots
<1>4. (CHOOSE t \in InSlots(c, PageOf(a)) : TRUE) = s
    BY <1>2, <1>3
<1> QED BY <1>3, <1>4, Zenon DEF View

LEMMA ViewStored ==
    ASSUME NEW c, NEW st, NEW a, \A s \in Slots : c[s].page # PageOf(a)
    PROVE  View(c, st, a) = st[PageOf(a)][a % PAGE_SIZE]
<1>1. InSlots(c, PageOf(a)) = {}
    BY DEF InSlots
<1> QED BY <1>1, Zenon DEF View

LEMMA FlatIsView == \A a : Flat(a) = View(cache, store, a)
BY Zenon DEF Flat, View, Held, InSlots

\* get_buffer gives the slot of the page, and the memory is the same, whatever page it
\* evicted.
LEMMA GetBuffer ==
    ASSUME CacheOK(cache), DOMAIN store = Pages, NEW p \in Pages, NEW g \in get_buffer(p)
    PROVE  /\ g.slot \in Slots /\ g.cache[g.slot].page = p
           /\ CacheOK(g.cache) /\ DOMAIN g.store = Pages
           /\ \A a \in Addrs : View(g.cache, g.store, a) = Flat(a)
<1>1. CASE Held(p) # {}
    <2>1. PICK s \in Held(p) : g = [slot |-> s, cache |-> cache, store |-> store]
        BY <1>1, Zenon DEF get_buffer
    <2>2. g.slot = s /\ g.cache = cache /\ g.store = store
        BY <2>1
    <2> QED BY <2>1, <2>2, FlatIsView DEF Held
<1>2. CASE Held(p) = {}
    <2> DEFINE Loaded(s)  == [page |-> p, data |-> store[p]]
               Evicted(s) == IF cache[s].page = NoPage THEN store
                             ELSE [store EXCEPT ![cache[s].page] = cache[s].data]
    <2>1. PICK s \in Slots : g = [slot  |-> s, cache |-> [cache EXCEPT ![s] = Loaded(s)],
                                  store |-> Evicted(s)]
        BY <1>2, Zenon DEF get_buffer
    <2> DEFINE c2 == [cache EXCEPT ![s] = Loaded(s)]  st2 == Evicted(s)
    <2>2. g.slot = s /\ g.cache = c2 /\ g.store = st2
        BY <2>1
    <2>3. \A t \in Slots : cache[t].page # p
        BY <1>2 DEF Held
    <2>4. c2[s].page = p /\ c2[s].data = store[p] /\ DOMAIN c2[s] = {"page", "data"}
        BY DEF CacheOK
    <2>5. \A t \in Slots \ {s} : c2[t] = cache[t]
        BY DEF CacheOK
    <2>6. DOMAIN c2 = Slots /\ DOMAIN st2 = Pages
        BY DEF CacheOK
    <2>7. /\ cache[s].page = NoPage => st2 = store
          /\ cache[s].page # NoPage =>
                /\ st2[cache[s].page] = cache[s].data
                /\ \A q \in Pages \ {cache[s].page} : st2[q] = store[q]
        BY DEF CacheOK
    <2> HIDE DEF c2, st2
    <2>8. CacheOK(c2)
        <3>1. \A t \in Slots : DOMAIN c2[t] = {"page", "data"} /\ c2[t].page \in Pages \cup {NoPage}
            BY <2>4, <2>5 DEF CacheOK
        <3>2. \A t, u \in Slots : c2[t].page = c2[u].page /\ c2[t].page # NoPage => t = u
            <4> SUFFICES ASSUME NEW t \in Slots, NEW u \in Slots,
                                c2[t].page = c2[u].page, c2[t].page # NoPage
                         PROVE  t = u
                OBVIOUS
            <4>1. CASE t = s
                BY <2>3, <2>4, <2>5, <4>1
            <4>2. CASE u = s
                BY <2>3, <2>4, <2>5, <4>2
            <4>3. CASE t # s /\ u # s
                BY <2>5, <4>3 DEF CacheOK
            <4> QED BY <4>1, <4>2, <4>3
        <3> QED BY <2>6, <3>1, <3>2 DEF CacheOK
    <2>9. ASSUME NEW a \in Addrs PROVE View(c2, st2, a) = View(cache, store, a)
        <3> DEFINE q == PageOf(a)
        <3>1. q \in Pages /\ q # NoPage
            <4>1. a \in Nat
                BY GuestMemoryAssumption DEF Addrs
            <4> QED BY <4>1, Split DEF NoPage
        <3> HIDE DEF q
        <3>2. CASE q = p
            <4>1. View(c2, st2, a) = store[p][a % PAGE_SIZE]
                BY <2>4, <2>8, <3>2, ViewHeld DEF q
            <4>2. View(cache, store, a) = store[p][a % PAGE_SIZE]
                BY <2>3, <3>2, ViewStored DEF q
            <4> QED BY <4>1, <4>2
        <3>3. CASE q # p /\ q = cache[s].page
            <4>1. View(cache, store, a) = cache[s].data[a % PAGE_SIZE]
                BY <3>3, ViewHeld DEF q
            <4>2. \A t \in Slots : c2[t].page # q
                BY <2>4, <2>5, <3>1, <3>3 DEF CacheOK
            <4>3. View(c2, st2, a) = st2[q][a % PAGE_SIZE]
                BY <4>2, ViewStored DEF q
            <4> QED BY <2>7, <3>1, <3>3, <4>1, <4>3
        <3>4. CASE q # p /\ q # cache[s].page
            <4>1. CASE \E t \in Slots : cache[t].page = q
                <5>1. PICK t \in Slots : cache[t].page = q
                    BY <4>1
                <5>2. c2[t] = cache[t]
                    BY <2>5, <3>4, <5>1
                <5>3. View(cache, store, a) = cache[t].data[a % PAGE_SIZE]
                    BY <5>1, ViewHeld DEF q
                <5>4. View(c2, st2, a) = c2[t].data[a % PAGE_SIZE]
                    BY <2>8, <5>1, <5>2, ViewHeld DEF q
                <5> QED BY <5>2, <5>3, <5>4
            <4>2. CASE \A t \in Slots : cache[t].page # q
                <5>1. View(cache, store, a) = store[q][a % PAGE_SIZE]
                    BY <4>2, ViewStored DEF q
                <5>2. \A t \in Slots : c2[t].page # q
                    BY <2>4, <2>5, <3>4, <4>2
                <5>3. View(c2, st2, a) = st2[q][a % PAGE_SIZE]
                    BY <5>2, ViewStored DEF q
                <5>4. st2[q] = store[q]
                    BY <2>7, <3>1, <3>4
                <5> QED BY <5>1, <5>3, <5>4
            <4> QED BY <4>1, <4>2
        <3> QED BY <3>2, <3>3, <3>4
    <2>10. \A a \in Addrs : View(g.cache, g.store, a) = Flat(a)
        BY <2>2, <2>9, FlatIsView
    <2> QED BY <2>2, <2>4, <2>6, <2>8, <2>10
<1> QED BY <1>1, <1>2

\* A chunk is written to the slot of its page: its bytes change, and no other.
Written(c, s, d, n, b) ==
    [c EXCEPT ![s].data = [o \in Offsets |->
        IF o \in (d % PAGE_SIZE) .. ((d % PAGE_SIZE) + n - 1)
        THEN b[o - (d % PAGE_SIZE) + 1] ELSE @[o]]]

LEMMA ChunkWritten ==
    ASSUME NEW c, CacheOK(c), NEW st, NEW s \in Slots, NEW b,
           NEW d \in Nat, NEW n \in Nat, (d % PAGE_SIZE) + n =< PAGE_SIZE,
           c[s].page = PageOf(d)
    PROVE  /\ CacheOK(Written(c, s, d, n, b))
           /\ \A a \in Addrs : View(Written(c, s, d, n, b), st, a) =
                                    IF a \in d .. (d + n - 1) THEN b[a - d + 1]
                                    ELSE View(c, st, a)
<1> DEFINE c2 == Written(c, s, d, n, b)
<1>1. /\ c2[s].page = c[s].page /\ DOMAIN c2[s] = {"page", "data"}
      /\ c2[s].data = [o \in Offsets |-> IF o \in (d % PAGE_SIZE) .. ((d % PAGE_SIZE) + n - 1)
                                         THEN b[o - (d % PAGE_SIZE) + 1] ELSE c[s].data[o]]
      /\ DOMAIN c2 = Slots
      /\ \A t \in Slots \ {s} : c2[t] = c[t]
    BY DEF CacheOK, Written
<1> HIDE DEF c2
<1>2. \A t \in Slots : c2[t].page = c[t].page /\ DOMAIN c2[t] = {"page", "data"}
    BY <1>1 DEF CacheOK
<1>3. CacheOK(c2)
    BY <1>1, <1>2 DEF CacheOK
<1>4. ASSUME NEW a \in Addrs
      PROVE  View(c2, st, a) = IF a \in d .. (d + n - 1) THEN b[a - d + 1] ELSE View(c, st, a)
    <2>1. a \in Nat /\ a % PAGE_SIZE \in Offsets
        BY GuestMemoryAssumption, Split DEF Addrs
    <2>2. CASE PageOf(a) = PageOf(d)
        <3>1. View(c2, st, a) = c2[s].data[a % PAGE_SIZE]
            BY <1>1, <1>3, <2>2, ViewHeld
        <3>2. View(c, st, a) = c[s].data[a % PAGE_SIZE]
            BY <2>2, ViewHeld
        <3>3. /\ a \in d .. (d + n - 1) <=>
                    a % PAGE_SIZE \in (d % PAGE_SIZE) .. ((d % PAGE_SIZE) + n - 1)
              /\ (a % PAGE_SIZE) - (d % PAGE_SIZE) = a - d
            BY <2>1, <2>2, InChunk
        <3> QED BY <1>1, <2>1, <3>1, <3>2, <3>3
    <2>3. CASE PageOf(a) # PageOf(d)
        <3>1. a \notin d .. (d + n - 1)
            BY <2>1, <2>3, InChunk
        <3>2. CASE \E t \in Slots : c[t].page = PageOf(a)
            <4>1. PICK t \in Slots : c[t].page = PageOf(a)
                BY <3>2
            <4>2. c2[t] = c[t]
                BY <1>1, <2>3, <4>1
            <4>3. View(c, st, a) = c[t].data[a % PAGE_SIZE]
                BY <4>1, ViewHeld
            <4>4. View(c2, st, a) = c2[t].data[a % PAGE_SIZE]
                BY <1>3, <4>1, <4>2, ViewHeld
            <4> QED BY <3>1, <4>2, <4>3, <4>4
        <3>3. CASE \A t \in Slots : c[t].page # PageOf(a)
            BY <1>2, <3>1, <3>3, ViewStored
        <3> QED BY <3>2, <3>3
    <2> QED BY <2>2, <2>3
<1> QED BY <1>3, <1>4 DEF c2
-----------------------------------------------------------------------------
(* The invariant of the loops. *)

\* How far the loop has come.
Progress == call.dst - call.start

Locals ==
    /\ DOMAIN call = DOMAIN NoCall
    /\ call.op \in Readers \cup Writers
    /\ call.start \in Nat /\ call.arg \in Nat /\ call.total \in Nat /\ call.size \in Nat
    /\ call.dst \in Nat /\ call.src \in Nat
    /\ Progress \in Nat /\ call.src = call.arg + Progress
    /\ call.op # "strlen" => Progress + call.size = call.total

\* The bytes of the destination that the loop has written, and what they are to be.
Touched == IF call.op \in Writers THEN call.start .. (call.start + Progress - 1) ELSE {}

Reference(a) ==
    CASE call.op = "memcpy" -> before[call.arg + (a - call.start)]
      [] call.op = "memset" -> call.val
      [] call.op = "copy_host" -> call.buf[a - call.start + 1]

TouchedInv ==
    /\ \A a \in Addrs \ Touched : Flat(a) = before[a]
    /\ \A a \in Touched : a \in Addrs /\ (~Overlapping => Flat(a) = Reference(a))

\* The bytes of the source that the loop has read.
ReadInv ==
    /\ call.op \in Readers => \A i \in 0 .. (Progress - 1) : call.arg + i \in Addrs
    /\ call.op \in {"strlen", "strnlen"} =>
          /\ call.ret = Progress
          /\ \A i \in 0 .. (Progress - 1) : before[call.arg + i] # 0
    /\ call.op = "copy_guest" =>
          call.buf = [i \in 1 .. Progress |-> before[call.arg + i - 1]]

\* The chunk of the source that is in tmp.
TmpInv ==
    /\ call.op = "memcpy" /\ call.size > 0
    /\ \A i \in 1 .. Chunk(call) : call.src + i - 1 \in Addrs
    /\ ~Overlapping => \A i \in 1 .. Chunk(call) : call.tmp[i] = before[call.src + i - 1]

GuestInv ==
    /\ CacheOK(cache) /\ DOMAIN store = Pages
    /\ pc \in {"loop", "dst"} => Locals /\ TouchedInv /\ ReadInv
    /\ pc = "dst" => TmpInv
    /\ CallsAsReference /\ FailsForCause

\* The rest of the buffer: a chunk is not empty and does not cross the end of a page.
LEMMA ChunkFits ==
    ASSUME Locals, More
    PROVE  /\ Chunk(call) \in Nat \ {0}
           /\ call.op # "strlen" => Chunk(call) =< call.size
           /\ call.op \in Readers => (call.src % PAGE_SIZE) + Chunk(call) =< PAGE_SIZE
           /\ call.op \in Writers => (call.dst % PAGE_SIZE) + Chunk(call) =< PAGE_SIZE
<1> DEFINE z == call.size  s == BUFFER_MAX_SIZE(call.src)  d == BUFFER_MAX_SIZE(call.dst)
           n == Chunk(call)
<1>1. /\ s \in Nat \ {0} /\ (call.src % PAGE_SIZE) + s = PAGE_SIZE
      /\ d \in Nat \ {0} /\ (call.dst % PAGE_SIZE) + d = PAGE_SIZE
      /\ call.src % PAGE_SIZE \in Nat /\ call.dst % PAGE_SIZE \in Nat
      /\ z \in Nat /\ PAGE_SIZE \in Nat
    BY GuestMemoryAssumption DEF Locals, BUFFER_MAX_SIZE
<1>2. call.op # "strlen" => z > 0
    BY DEF Locals, More
<1>3. /\ call.op = "memcpy" => n = Smaller(s, Smaller(d, z))
      /\ call.op \in {"memset", "copy_host"} => n = Smaller(d, z)
      /\ call.op \in {"strnlen", "copy_guest"} => n = Smaller(s, z)
      /\ call.op = "strlen" => n = s
    BY DEF Chunk, BUFFER_MIN_SIZE, Locals, Readers, Writers
<1> HIDE DEF z, s, d, n
<1>4. /\ n \in Nat \ {0} /\ (call.op # "strlen" => n =< z)
      /\ call.op \in Readers => n =< s
      /\ call.op \in Writers => n =< d
    BY <1>1, <1>2, <1>3 DEF Locals, Readers, Writers, Smaller
<1> QED BY <1>1, <1>4 DEF n, z

\* What a loop has done so far is what it may do.
LEMMA LoopSoFar ==
    pc \in {"loop", "dst"} /\ Locals /\ TouchedInv => CallsAsReference /\ FailsForCause
<1> SUFFICES ASSUME pc \in {"loop", "dst"}, Locals, TouchedInv
             PROVE  CallsAsReference /\ FailsForCause
    OBVIOUS
<1>1. Touched \subseteq Destination
    <2> DEFINE s == call.start  t == call.total  z == call.size  k == Progress
    <2>1. s \in Nat /\ k \in Nat /\ z \in Nat /\ (call.op \in Writers => k + z = t)
        BY DEF Locals, Writers
    <2> HIDE DEF s, t, z, k
    <2>2. call.op \in Writers => s .. (s + k - 1) \subseteq s .. (s + t - 1)
        BY <2>1
    <2> QED BY <2>2 DEF Touched, Destination, s, t, k
<1> QED BY <1>1 DEF TouchedInv, CallsAsReference, WritesAsReference, ReadsAsReference,
           FailsForCause

LEMMA FlatNext == \A a : Flat(a)' = View(cache', store', a)
BY Zenon DEF Flat, View, Held, InSlots

\* A new call.
LEMMA StartKeepsInv ==
    ASSUME GuestInv, NEW op \in Readers \cup Writers, NEW d \in Nat, NEW s \in Nat,
           NEW n \in Nat, NEW v, NEW b, op = "copy_guest" => b = <<>>,
           Start(op, d, s, n, v, b)
    PROVE  GuestInv'
<1>1. /\ DOMAIN call' = DOMAIN NoCall /\ call'.op = op /\ call'.start = d /\ call'.dst = d
      /\ call'.src = s /\ call'.arg = s /\ call'.size = n /\ call'.total = n
      /\ call'.buf = b /\ call'.ret = 0
    <2> DEFINE c == [NoCall EXCEPT !.op = op, !.start = d, !.dst = d, !.src = s, !.arg = s]
    <2>1. call' = [c EXCEPT !.size = n, !.total = n, !.val = v, !.buf = b]
        BY DEF Start
    <2>2. /\ DOMAIN c = DOMAIN NoCall /\ c.op = op /\ c.start = d /\ c.dst = d /\ c.src = s
          /\ c.arg = s /\ c.ret = 0
        BY DEF NoCall
    <2> HIDE DEF c
    <2>3. {"op", "start", "dst", "src", "size", "total", "val", "buf", "ret", "arg"}
                \subseteq DOMAIN c
        BY <2>2 DEF NoCall
    <2> QED BY <2>1, <2>2, <2>3
<1>2. pc' = "loop" /\ UNCHANGED <<store, cache>> /\ before' = [a \in Addrs |-> Flat(a)]
    BY DEF Start
<1>3. Progress' = 0 /\ Locals'
    <2>1. Progress' = 0
        BY <1>1 DEF Progress
    <2> QED BY <1>1, <2>1 DEF Locals
<1>4. Touched' = {}
    <2>1. d .. (d + 0 - 1) = {}
        OBVIOUS
    <2> QED BY <1>1, <1>3, <2>1 DEF Touched
<1>5. TouchedInv'
    <2>1. \A a : Flat(a)' = Flat(a)
        BY <1>2, FlatNext, FlatIsView
    <2>2. \A a \in Addrs : Flat(a)' = before'[a]
        BY <1>2, <2>1, Zenon
    <2> QED BY <1>4, <2>2 DEF TouchedInv
<1>6. ReadInv'
    BY <1>1, <1>3 DEF ReadInv
<1>7. CallsAsReference' /\ FailsForCause'
    <2>1. (pc \in {"loop", "dst"})'
        BY <1>2
    <2> QED BY <1>3, <1>5, <2>1, LoopSoFar, PTL
<1> QED BY <1>2, <1>3, <1>5, <1>6, <1>7 DEF GuestInv
-----------------------------------------------------------------------------
(* Reading. *)

\* The slot of a page has the bytes of the chunk.
LEMMA ChunkRead ==
    ASSUME NEW c, CacheOK(c), NEW st, NEW s \in Slots, NEW d \in Nat, NEW n \in Nat,
           PageOf(d) \in Pages, (d % PAGE_SIZE) + n =< PAGE_SIZE, c[s].page = PageOf(d),
           NEW i \in 1 .. n
    PROVE  /\ d + i - 1 \in Addrs
           /\ c[s].data[(d % PAGE_SIZE) + i - 1] = View(c, st, d + i - 1)
<1> DEFINE a == d + i - 1
<1>1. a \in Nat /\ a \in d .. (d + n - 1) /\ a - d = i - 1
    OBVIOUS
<1> HIDE DEF a
<1>2. PageOf(a) = PageOf(d) /\ (a % PAGE_SIZE) - (d % PAGE_SIZE) = a - d
    BY <1>1, InChunk
<1>3. a \in Addrs /\ a % PAGE_SIZE \in Nat /\ d % PAGE_SIZE \in Nat
    BY <1>1, <1>2, Split, GuestMemoryAssumption DEF Offsets
<1>4. (d % PAGE_SIZE) + i - 1 = a % PAGE_SIZE
    <2> DEFINE x == d % PAGE_SIZE  y == a % PAGE_SIZE
    <2>1. x \in Nat /\ y \in Nat /\ y - x = i - 1
        BY <1>1, <1>2, <1>3
    <2> HIDE DEF x, y
    <2>2. x + i - 1 = y
        BY <2>1
    <2> QED BY <2>2 DEF x, y
<1>5. View(c, st, a) = c[s].data[a % PAGE_SIZE]
    <2>1. c[s].page = PageOf(a)
        BY <1>2
    <2> QED BY <1>3, <2>1, ViewHeld
<1> QED BY <1>3, <1>4, <1>5, Zenon DEF a

\* A set of numbers that is not empty has a least element.
LEMMA LeastElement ==
    ASSUME NEW S \in SUBSET Nat, S # {}
    PROVE  \E x \in S : \A y \in S : x =< y
<1> DEFINE R == OpToRel(<, Nat)
<1>1. IsWellFoundedOn(R, Nat)
    BY NatLessThanWellFounded, Zenon
<1>2. \A x, y \in Nat : y < x => <<y, x>> \in R
    BY DEF OpToRel
<1> HIDE DEF R
<1>3. PICK x \in S : \A y \in S : ~ (<<y, x>> \in R)
    BY <1>1, WFMin
<1>4. ASSUME NEW y \in S PROVE x =< y
    <2>1. ~(y < x)
        BY <1>2, <1>3
    <2> QED BY <2>1
<1> QED BY <1>4

\* The number of bytes before the first zero (strnlen).
LEMMA FirstZero ==
    ASSUME NEW n \in Nat, NEW b, DOMAIN b = 1 .. n, Len(b) = n
    PROVE  /\ strnlen(b) \in 0 .. n
           /\ \A i \in 1 .. strnlen(b) : b[i] # 0
           /\ strnlen(b) < n => b[strnlen(b) + 1] = 0
<1> DEFINE zeros == {i \in DOMAIN b : b[i] = 0}
           first == CHOOSE i \in zeros : \A j \in zeros : i =< j
<1>1. CASE zeros = {}
    <2>1. strnlen(b) = n
        BY <1>1, Zenon DEF strnlen
    <2> QED BY <1>1, <2>1
<1>2. CASE zeros # {}
    <2>1. strnlen(b) = first - 1
        BY <1>2, Zenon DEF strnlen
    <2>2. \E i \in zeros : \A j \in zeros : i =< j
        <3>1. zeros \in SUBSET Nat
            OBVIOUS
        <3> HIDE DEF zeros
        <3> QED BY <1>2, <3>1, LeastElement
    <2>3. first \in zeros /\ \A j \in zeros : first =< j
        BY <2>2, Zenon
    <2> HIDE DEF first
    <2>4. first \in 1 .. n /\ b[first] = 0 /\ first - 1 + 1 = first
        BY <2>3
    <2>5. \A i \in 1 .. (first - 1) : b[i] # 0
        <3> SUFFICES ASSUME NEW i \in 1 .. (first - 1), b[i] = 0 PROVE FALSE
            OBVIOUS
        <3>1. i \in 1 .. n /\ ~(first =< i)
            BY <2>4
        <3> QED BY <2>3, <3>1
    <2> QED BY <2>1, <2>4, <2>5
<1> QED BY <1>1, <1>2

\* What a turn of a loop reads is the memory at the time of the call, but for the bytes that
\* the call has written; and reading does not change the memory.
LEMMA TurnReads ==
    ASSUME GuestInv, pc = "loop", More, call.op \in Readers, PageOf(call.src) \in Pages,
           NEW g \in get_buffer(PageOf(call.src)), cache' = g.cache, store' = g.store
    PROVE  /\ CacheOK(cache') /\ DOMAIN store' = Pages
           /\ \A a \in Addrs : Flat(a)' = Flat(a)
           /\ \A i \in 1 .. Chunk(call) :
                /\ call.src + i - 1 \in Addrs
                /\ g.cache[g.slot].data[(call.src % PAGE_SIZE) + i - 1] = Flat(call.src + i - 1)
<1>1. Locals
    BY DEF GuestInv
<1>2. /\ g.slot \in Slots /\ g.cache[g.slot].page = PageOf(call.src)
      /\ CacheOK(g.cache) /\ DOMAIN g.store = Pages
      /\ \A a \in Addrs : View(g.cache, g.store, a) = Flat(a)
    BY GetBuffer DEF GuestInv
<1>3. \A a \in Addrs : Flat(a)' = Flat(a)
    BY <1>2, FlatNext
<1>4. /\ Chunk(call) \in Nat /\ (call.src % PAGE_SIZE) + Chunk(call) =< PAGE_SIZE
      /\ call.src \in Nat
    BY <1>1, ChunkFits DEF Locals
<1>5. \A i \in 1 .. Chunk(call) :
        /\ call.src + i - 1 \in Addrs
        /\ g.cache[g.slot].data[(call.src % PAGE_SIZE) + i - 1] =
                View(g.cache, g.store, call.src + i - 1)
    <2> DEFINE n == Chunk(call)  c == g.cache  s == g.slot  d == call.src
                st == g.store
    <2> SUFFICES ASSUME NEW i \in 1 .. n
                 PROVE  /\ d + i - 1 \in Addrs
                        /\ c[s].data[(d % PAGE_SIZE) + i - 1] = View(c, st, d + i - 1)
        OBVIOUS
    <2>1. /\ n \in Nat /\ d \in Nat /\ (d % PAGE_SIZE) + n =< PAGE_SIZE
          /\ CacheOK(c) /\ s \in Slots /\ c[s].page = PageOf(d) /\ PageOf(d) \in Pages
        BY <1>2, <1>4
    <2> HIDE DEF n, c, s, d, st
    <2> QED BY <2>1, ChunkRead, Zenon
<1> QED BY <1>2, <1>3, <1>5

\* The fields of a call after a turn.
LEMMA Advanced ==
    ASSUME NEW c, DOMAIN c = DOMAIN NoCall, NEW n
    PROVE  LET d == Advance(c, n)
           IN  /\ DOMAIN d = DOMAIN NoCall
               /\ d.op = c.op /\ d.start = c.start /\ d.arg = c.arg /\ d.total = c.total
               /\ d.val = c.val /\ d.buf = c.buf /\ d.tmp = c.tmp /\ d.ret = c.ret
               /\ d.dst = c.dst + n /\ d.src = c.src + n
               /\ d.size = IF c.op = "strlen" THEN c.size ELSE c.size - n
BY DEF Advance, NoCall

\* The source is not mapped: the call fails for that.
LEMMA ReadFailsKeepsInv ==
    ASSUME GuestInv, pc = "loop", More, call.op \in Readers, PageOf(call.src) \notin Pages,
           Fail, UNCHANGED before
    PROVE  GuestInv'
<1>1. Locals /\ TouchedInv /\ ReadInv
    BY DEF GuestInv
<1>2. pc' = "failed" /\ UNCHANGED <<store, cache, call, before>>
    BY DEF Fail
<1>3. CallsAsReference'
    <2>1. \A a \in Addrs \ Destination : Flat(a) = before[a]
        BY <1>1, LoopSoFar DEF CallsAsReference, WritesAsReference
    <2>2. \A a : Flat(a)' = Flat(a)
        BY <1>2, FlatNext, FlatIsView
    <2>3. Destination' = Destination
        BY <1>2 DEF Destination
    <2>4. \A a \in Addrs \ Destination : Flat(a)' = before'[a]
        BY <1>2, <2>1, <2>2, Zenon
    <2> QED BY <1>2, <2>3, <2>4 DEF CallsAsReference, WritesAsReference, ReadsAsReference
<1>4. call.src \in Nat /\ call.src \notin Addrs
    BY <1>1, Split DEF Locals
<1>5. \/ call.op # "strlen" /\ \E a \in SourceRange : a \notin Addrs
      \/ call.op = "strlen" /\ \A a \in Addrs : a >= call.arg => before[a] # 0
    <2> DEFINE k == Progress  s == call.src  x == call.arg  t == call.total  z == call.size
    <2>1. /\ k \in Nat /\ x \in Nat /\ s = x + k /\ z \in Nat
          /\ call.op # "strlen" => k + z = t /\ z > 0
        BY <1>1 DEF Locals, More
    <2>2. call.op # "strlen" => \E a \in SourceRange : a \notin Addrs
        <3> SUFFICES ASSUME call.op # "strlen" PROVE s \in x .. (x + t - 1)
            BY <1>4 DEF SourceRange
        <3>1. k + z = t /\ z > 0
            BY <2>1
        <3> HIDE DEF k, s, x, t, z
        <3> QED BY <2>1, <3>1
    <2>3. call.op = "strlen" => \A a \in Addrs : a >= call.arg => before[a] # 0
        <3> SUFFICES ASSUME call.op = "strlen", NEW a \in Addrs, a >= x PROVE before[a] # 0
            OBVIOUS
        <3>1. \A i \in 0 .. (k - 1) : before[x + i] # 0
            BY <1>1 DEF ReadInv
        <3>2. s \notin Addrs /\ s \in Nat
            BY <1>4
        <3> HIDE DEF k, s, x, t, z
        <3>3. NPages * PAGE_SIZE \in Nat
            BY GuestMemoryAssumption
        <3>4. a < s
            BY <3>2, <3>3 DEF Addrs
        <3>5. a - x \in 0 .. (k - 1) /\ x + (a - x) = a
            BY <2>1, <3>3, <3>4 DEF Addrs
        <3> QED BY <3>1, <3>5
    <2> QED BY <2>2, <2>3, Zenon
<1>6. FailsForCause'
    BY <1>2, <1>5 DEF FailsForCause, SourceRange
<1>7. CacheOK(cache)'
    BY <1>2 DEF GuestInv
<1> QED BY <1>2, <1>3, <1>6, <1>7 DEF GuestInv

\* The arguments of the call, and with them what its destination is to hold, do not change.
SameCall ==
    /\ UNCHANGED before
    /\ call'.op = call.op /\ call'.start = call.start /\ call'.arg = call.arg
    /\ call'.total = call.total /\ call'.val = call.val
    /\ call.op = "copy_host" => call'.buf = call.buf

LEMMA SameReference ==
    ASSUME SameCall
    PROVE  /\ Destination' = Destination /\ Overlapping' = Overlapping
           /\ call.op \in Writers => \A a : Reference(a)' = Reference(a)
<1>1. Destination' = Destination /\ Overlapping' = Overlapping
    BY DEF SameCall, Destination, Overlapping, SourceRange
<1>2. ASSUME call.op \in Writers, NEW a PROVE Reference(a)' = Reference(a)
    BY <1>2 DEF SameCall, Reference, Writers
<1> QED BY <1>1, <1>2

\* A turn that writes nothing.
LEMMA TurnWritesNothing ==
    ASSUME TouchedInv, SameCall, \A a \in Addrs : Flat(a)' = Flat(a),
           call.op \in Writers => Progress' = Progress
    PROVE  TouchedInv'
<1>1. Touched' = Touched
    BY DEF Touched, SameCall
<1>2. \A a \in Addrs \ Touched' : Flat(a)' = before'[a]
    BY <1>1 DEF TouchedInv, SameCall
<1>3. ASSUME NEW a \in Touched'
      PROVE  a \in Addrs /\ (~Overlapping' => Flat(a)' = Reference(a)')
    <2>1. call.op \in Writers /\ a \in Touched
        BY <1>1, <1>3 DEF Touched
    <2> QED BY <2>1, SameReference DEF TouchedInv
<1> QED BY <1>2, <1>3 DEF TouchedInv

\* memcpy: the bytes are kept in tmp.
LEMMA CopyReadKeepsInv ==
    ASSUME GuestInv, pc = "loop", More, call.op = "memcpy", PageOf(call.src) \in Pages,
           NEW g \in get_buffer(PageOf(call.src)), cache' = g.cache, store' = g.store,
           NEW b, b = [i \in 1 .. Chunk(call) |->
                            g.cache[g.slot].data[(call.src % PAGE_SIZE) + i - 1]],
           call' = [call EXCEPT !.tmp = b, !.from = g.slot], pc' = "dst", UNCHANGED before
    PROVE  GuestInv'
<1> DEFINE n == Chunk(call)
<1>1. Locals /\ TouchedInv /\ ReadInv /\ call.op \in Readers /\ call.op \in Writers
    BY DEF GuestInv, Readers, Writers
<1>2. /\ CacheOK(cache') /\ DOMAIN store' = Pages
      /\ \A a \in Addrs : Flat(a)' = Flat(a)
      /\ \A i \in 1 .. n : call.src + i - 1 \in Addrs /\ b[i] = Flat(call.src + i - 1)
    <2>1. /\ CacheOK(cache') /\ DOMAIN store' = Pages
          /\ \A a \in Addrs : Flat(a)' = Flat(a)
          /\ \A i \in 1 .. n :
                /\ call.src + i - 1 \in Addrs
                /\ g.cache[g.slot].data[(call.src % PAGE_SIZE) + i - 1] = Flat(call.src + i - 1)
        BY <1>1, TurnReads
    <2> QED BY <2>1
<1>3. /\ DOMAIN call' = DOMAIN NoCall /\ call'.tmp = b /\ call'.op = call.op
      /\ call'.start = call.start /\ call'.arg = call.arg /\ call'.total = call.total
      /\ call'.val = call.val /\ call'.buf = call.buf /\ call'.size = call.size
      /\ call'.dst = call.dst /\ call'.src = call.src /\ call'.ret = call.ret
    BY <1>1 DEF Locals, NoCall
<1>4. Locals' /\ Progress' = Progress /\ SameCall
    <2>1. Progress' = Progress
        BY <1>3 DEF Progress
    <2>2. Locals'
        BY <1>1, <1>3, <2>1 DEF Locals
    <2> QED BY <1>3, <2>1, <2>2 DEF SameCall
<1>5. TouchedInv'
    BY <1>1, <1>2, <1>4, TurnWritesNothing
<1>6. ReadInv'
    BY <1>1, <1>3, <1>4 DEF ReadInv
<1>7. n \in Nat \ {0} /\ n =< call.size
    BY <1>1, ChunkFits
<1>8. ASSUME ~Overlapping, NEW i \in 1 .. n PROVE b[i] = before[call.src + i - 1]
    <2> DEFINE a == call.src + i - 1
    <2>1. a \notin Touched
        <3> DEFINE k == Progress  s == call.src  x == call.arg  t == call.total
                   z == call.size
        <3>1. k \in Nat /\ x \in Nat /\ s = x + k /\ z \in Nat /\ k + z = t /\ n =< z
            BY <1>1, <1>7 DEF Locals
        <3> HIDE DEF k, s, x, t, z, n
        <3>2. s + i - 1 \in x .. (x + t - 1) /\ s + i - 1 \in Int
            BY <1>7, <3>1
        <3>3. a \in SourceRange
            BY <3>2 DEF SourceRange, s, x, t
        <3>4. Touched \subseteq Destination
            <4> DEFINE u == call.start
            <4>1. u \in Nat
                BY <1>1 DEF Locals
            <4> HIDE DEF u
            <4>2. u .. (u + k - 1) \subseteq u .. (u + t - 1)
                BY <3>1, <4>1
            <4> QED BY <1>1, <4>2 DEF Touched, Destination, u, k, t
        <3> QED BY <1>8, <3>3, <3>4 DEF Overlapping
    <2> QED BY <1>1, <1>2, <2>1 DEF TouchedInv
<1>9. TmpInv'
    <2>1. Chunk(call)' = n /\ Overlapping' = Overlapping
        BY <1>3, <1>4, SameReference DEF Chunk, BUFFER_MIN_SIZE, BUFFER_MAX_SIZE
    <2>2. call'.op = "memcpy" /\ call'.size > 0
        BY <1>3 DEF More
    <2>3. /\ call'.src = call.src /\ call'.tmp = b /\ before' = before
          /\ \A i \in 1 .. n : call.src + i - 1 \in Addrs
        BY <1>2, <1>3
    <2> HIDE DEF n
    <2>4. ASSUME NEW i \in 1 .. Chunk(call)'
          PROVE  /\ call'.src + i - 1 \in Addrs
                 /\ ~Overlapping' => call'.tmp[i] = before'[call'.src + i - 1]
        <3>1. i \in 1 .. n
            BY <2>1, Zenon
        <3>2. call.src + i - 1 \in Addrs /\ (~Overlapping => b[i] = before[call.src + i - 1])
            BY <1>8, <2>3, <3>1, Zenon
        <3> QED BY <2>1, <2>3, <3>2, Zenon
    <2> QED BY <2>2, <2>4, Zenon DEF TmpInv
<1>10. CallsAsReference' /\ FailsForCause'
    <2>1. (pc \in {"loop", "dst"})'
        OBVIOUS
    <2> QED BY <1>4, <1>5, <2>1, LoopSoFar, PTL
<1> QED BY <1>2, <1>4, <1>5, <1>6, <1>9, <1>10 DEF GuestInv

\* The bytes of the chunk of the source.
ChunkOf(g) ==
    [i \in 1 .. Chunk(call) |-> g.cache[g.slot].data[(call.src % PAGE_SIZE) + i - 1]]

\* A call that only reads finds the memory as it was.
LEMMA ReadsBefore ==
    ASSUME GuestInv, pc = "loop", More, call.op \in Readers \ Writers,
           PageOf(call.src) \in Pages, NEW g \in get_buffer(PageOf(call.src)),
           cache' = g.cache, store' = g.store
    PROVE  /\ CacheOK(cache') /\ DOMAIN store' = Pages
           /\ \A a \in Addrs : Flat(a)' = Flat(a)
           /\ \A i \in 1 .. Chunk(call) :
                call.src + i - 1 \in Addrs /\ ChunkOf(g)[i] = before[call.src + i - 1]
<1>1. /\ CacheOK(cache') /\ DOMAIN store' = Pages
      /\ \A a \in Addrs : Flat(a)' = Flat(a)
      /\ \A i \in 1 .. Chunk(call) :
            /\ call.src + i - 1 \in Addrs
            /\ g.cache[g.slot].data[(call.src % PAGE_SIZE) + i - 1] = Flat(call.src + i - 1)
    BY TurnReads
<1>2. Touched = {}
    BY DEF Touched
<1>3. \A a \in Addrs : Flat(a) = before[a]
    BY <1>2 DEF GuestInv, TouchedInv
<1>4. \A i \in 1 .. Chunk(call) : ChunkOf(g)[i] = before[call.src + i - 1]
    BY <1>1, <1>3 DEF ChunkOf
<1> QED BY <1>1, <1>4

\* A turn moves the loop on by a chunk.
LEMMA MovesOn ==
    ASSUME Locals, More, UNCHANGED before, NEW c, c = Advance(call, Chunk(call)),
           DOMAIN call' = DOMAIN c, \A f \in DOMAIN c \ {"ret", "buf"} : call'[f] = c[f],
           call.op = "copy_host" => call'.buf = call.buf
    PROVE  /\ Locals' /\ SameCall
           /\ Progress' = Progress + Chunk(call)
<1> DEFINE n == Chunk(call)
<1>1. /\ DOMAIN c = DOMAIN NoCall
      /\ c.op = call.op /\ c.start = call.start /\ c.arg = call.arg
      /\ c.total = call.total /\ c.val = call.val
      /\ c.dst = call.dst + n /\ c.src = call.src + n
      /\ c.size = IF call.op = "strlen" THEN call.size ELSE call.size - n
    <2>1. DOMAIN call = DOMAIN NoCall
        BY DEF Locals
    <2> QED BY <2>1, Advanced
<1>2. /\ call'.op = call.op /\ call'.start = call.start /\ call'.arg = call.arg
      /\ call'.total = call.total /\ call'.val = call.val
      /\ call'.dst = call.dst + n /\ call'.src = call.src + n
      /\ call'.size = IF call.op = "strlen" THEN call.size ELSE call.size - n
    <2>1. {"op", "start", "arg", "total", "val", "dst", "src", "size"}
                \subseteq DOMAIN c \ {"ret", "buf"}
        BY <1>1 DEF NoCall
    <2> HIDE DEF n
    <2> QED BY <1>1, <2>1
<1>3. n \in Nat /\ (call.op # "strlen" => n =< call.size)
    BY ChunkFits
<1> HIDE DEF n
<1>4. /\ Progress' = Progress + n
      /\ call'.size \in Nat /\ call'.dst \in Nat /\ call'.src \in Nat
      /\ call'.src = call'.arg + (Progress + n)
      /\ call.op # "strlen" => (Progress + n) + call'.size = call'.total
    <2> DEFINE d == call.dst  s == call.src  u == call.start  x == call.arg  t == call.total
               z == call.size  k == Progress
    <2>1. /\ d \in Nat /\ s \in Nat /\ u \in Nat /\ x \in Nat /\ t \in Nat /\ z \in Nat
          /\ k \in Nat /\ k = d - u /\ s = x + k
          /\ call.op # "strlen" => k + z = t
        BY DEF Locals, Progress
    <2>2. /\ call'.dst = d + n /\ call'.start = u /\ call'.src = s + n /\ call'.arg = x
          /\ call'.total = t
          /\ call.op = "strlen" => call'.size = z
          /\ call.op # "strlen" => call'.size = z - n /\ n =< z
        BY <1>2, <1>3
    <2>3. Progress' = call'.dst - call'.start
        BY DEF Progress
    <2> HIDE DEF d, s, u, x, t, z, k
    <2>4. Progress' = k + n
        BY <1>3, <2>1, <2>2, <2>3
    <2>5. call'.size \in Nat /\ (call.op # "strlen" => (k + n) + call'.size = call'.total)
        <3>1. CASE call.op = "strlen"
            BY <2>1, <2>2, <3>1
        <3>2. CASE call.op # "strlen"
            <4>1. k + z = t /\ call'.size = z - n /\ n =< z /\ call'.total = t
                BY <2>1, <2>2, <3>2
            <4>2. z - n \in Nat /\ (k + n) + (z - n) = t
                BY <1>3, <2>1, <4>1
            <4> QED BY <4>1, <4>2
        <3> QED BY <3>1, <3>2
    <2>6. call'.dst \in Nat /\ call'.src \in Nat /\ call'.src = call'.arg + (k + n)
        BY <1>3, <2>1, <2>2
    <2> QED BY <2>4, <2>5, <2>6 DEF k
<1>5. Locals'
    <2>1. /\ DOMAIN call' = DOMAIN NoCall /\ call'.op \in Readers \cup Writers
          /\ call'.start \in Nat /\ call'.arg \in Nat /\ call'.total \in Nat
          /\ Progress' \in Nat
        BY <1>1, <1>2, <1>3, <1>4 DEF Locals
    <2> QED BY <1>2, <1>4, <2>1 DEF Locals
<1>6. SameCall
    BY <1>2 DEF SameCall
<1> QED BY <1>4, <1>5, <1>6 DEF n

\* strlen and strnlen: the zeros of a page are looked for.
ScanTurn(g) ==
    /\ cache' = g.cache /\ store' = g.store /\ UNCHANGED before
    /\ call' = [Advance(call, Chunk(call)) EXCEPT !.ret = @ + strnlen(ChunkOf(g))]
    /\ pc' = IF strnlen(ChunkOf(g)) < Chunk(call) THEN "done" ELSE "loop"

LEMMA ScanKeepsInv ==
    ASSUME GuestInv, pc = "loop", More, call.op \in {"strlen", "strnlen"},
           PageOf(call.src) \in Pages, NEW g \in get_buffer(PageOf(call.src)),
           ScanTurn(g)
    PROVE  GuestInv'
<1> DEFINE n == Chunk(call)  b == ChunkOf(g)  m == strnlen(b)  k == Progress  x == call.arg  s == call.src
           c == Advance(call, n)
<1>1. /\ Locals /\ TouchedInv /\ ReadInv
      /\ call.op \in Readers \ Writers /\ call.op # "copy_guest" /\ call.op # "copy_host"
    BY DEF GuestInv, Readers, Writers
<1>2. /\ CacheOK(cache') /\ DOMAIN store' = Pages
      /\ \A a \in Addrs : Flat(a)' = Flat(a)
      /\ \A i \in 1 .. n : s + i - 1 \in Addrs /\ b[i] = before[s + i - 1]
    BY <1>1, ReadsBefore DEF ScanTurn
<1>3. n \in Nat \ {0} /\ (call.op # "strlen" => n =< call.size)
    BY <1>1, ChunkFits
<1>4. m \in 0 .. n /\ (\A i \in 1 .. m : b[i] # 0) /\ (m < n => b[m + 1] = 0)
    <2>1. DOMAIN b = 1 .. n /\ Len(b) = n
        BY <1>3 DEF ChunkOf
    <2> HIDE DEF n, b
    <2> QED BY <1>3, <2>1, FirstZero
<1>5. /\ DOMAIN c = DOMAIN NoCall /\ c.ret = call.ret
    <2>1. DOMAIN call = DOMAIN NoCall
        BY <1>1 DEF Locals
    <2> HIDE DEF n
    <2> QED BY <2>1, Advanced
<1>6. /\ DOMAIN call' = DOMAIN c /\ (\A f \in DOMAIN c \ {"ret", "buf"} : call'[f] = c[f])
      /\ call'.ret = call.ret + m
    <2>1. "ret" \in DOMAIN c
        BY <1>5 DEF NoCall
    <2>2. call' = [c EXCEPT !.ret = @ + m]
        BY DEF ScanTurn
    <2> HIDE DEF c, m
    <2> QED BY <1>5, <2>1, <2>2
<1>7. Locals' /\ SameCall /\ Progress' = Progress + n
    <2> HIDE DEF c
    <2>1. c = Advance(call, Chunk(call))
        BY DEF c
    <2>2. UNCHANGED before
        BY DEF ScanTurn
    <2>3. (call.op = "copy_host" => call'.buf = call.buf) /\ DOMAIN call' = DOMAIN c
        BY <1>1, <1>6
    <2>4. \A f \in DOMAIN c \ {"ret", "buf"} : call'[f] = c[f]
        BY <1>6
    <2> HIDE DEF n
    <2>5. Locals /\ More
        BY <1>1
    <2>6. Locals' /\ SameCall /\ Progress' = Progress + Chunk(call)
        BY <2>1, <2>2, <2>3, <2>4, <2>5, MovesOn
    <2> QED BY <2>6 DEF n
<1>8. TouchedInv'
    BY <1>1, <1>2, <1>7, TurnWritesNothing
<1>9. /\ k \in Nat /\ x \in Nat /\ s = x + k /\ call.ret = k
      /\ (\A i \in 0 .. (k - 1) : x + i \in Addrs)
      /\ (\A i \in 0 .. (k - 1) : before[x + i] # 0)
      /\ call'.op = call.op /\ call'.arg = x /\ before' = before /\ call'.total = call.total
    BY <1>1, <1>7 DEF Locals, ReadInv, SameCall
<1>10. call.op = "strnlen" => k + n =< call.total
    <2> DEFINE z == call.size  t == call.total
    <2>1. call.op = "strnlen" => k + z = t /\ z \in Nat /\ n =< z
        BY <1>1, <1>3 DEF Locals
    <2> HIDE DEF z, t, k, n
    <2> QED BY <1>3, <1>9, <2>1 DEF t
<1> HIDE DEF n, m, k, x, s, c, b
<1>11. \A i \in 0 .. (k + m - 1) : before[x + i] # 0
    <2> SUFFICES ASSUME NEW i \in 0 .. (k + m - 1) PROVE before[x + i] # 0
        OBVIOUS
    <2>1. CASE i < k
        BY <1>9, <2>1
    <2>2. CASE i >= k
        <3> DEFINE j == i - k + 1
        <3>1. j \in 1 .. m /\ j \in 1 .. n /\ s + j - 1 = x + i
            BY <1>3, <1>4, <1>9, <2>2
        <3> HIDE DEF j
        <3> QED BY <1>2, <1>4, <3>1
    <2> QED BY <1>4, <1>9, <2>1, <2>2
<1>12. m < n => x + (k + m) \in Addrs /\ before[x + (k + m)] = 0
    <2> SUFFICES ASSUME m < n PROVE x + (k + m) \in Addrs /\ before[x + (k + m)] = 0
        OBVIOUS
    <2>1. m + 1 \in 1 .. n /\ s + (m + 1) - 1 = x + (k + m)
        BY <1>3, <1>4, <1>9
    <2> QED BY <1>2, <1>4, <2>1
<1>13. call'.ret = k + m
    BY <1>6, <1>9
<1>14. CASE m < n
    <2>1. pc' = "done"
        BY <1>14 DEF ScanTurn, m, n, b
    <2>2. ReadsAsReference'
        <3>1. ZeroAt(call.arg + call.ret)'
            BY <1>9, <1>12, <1>13, <1>14 DEF ZeroAt
        <3>2. (\A i \in 0 .. (call.ret - 1) : before[call.arg + i] # 0)'
            <4> SUFFICES ASSUME NEW i \in 0 .. (call'.ret - 1) PROVE before'[call'.arg + i] # 0
                OBVIOUS
            <4>1. i \in 0 .. (k + m - 1)
                BY <1>3, <1>4, <1>9, <1>13
            <4>2. before[x + i] # 0
                BY <1>11, <4>1
            <4> QED BY <1>9, <4>2
        <3>3. call'.op = "strnlen" => call'.ret =< call'.total
            <4> DEFINE t == call.total
            <4>1. t \in Nat
                BY <1>1 DEF Locals
            <4>2. call.op = "strnlen" => k + m =< t
                <5> HIDE DEF t
                <5> SUFFICES ASSUME call.op = "strnlen" PROVE k + m =< t
                    OBVIOUS
                <5>1. k + n =< t
                    BY <1>10 DEF t
                <5> QED BY <1>3, <1>4, <1>9, <4>1, <5>1
            <4> QED BY <1>9, <1>13, <4>2
        <3>4. call'.op # "copy_guest"
            BY <1>1, <1>9
        <3> QED BY <3>1, <3>2, <3>3, <3>4 DEF ReadsAsReference
    <2>3. WritesAsReference'
        <3>1. Touched' = {} /\ Destination' = {}
            BY <1>1, <1>9 DEF Touched, Destination
        <3> QED BY <1>8, <3>1 DEF WritesAsReference, TouchedInv
    <2>4. FailsForCause'
        BY <2>1 DEF FailsForCause
    <2> QED BY <1>2, <2>1, <2>2, <2>3, <2>4 DEF GuestInv, CallsAsReference
<1>15. CASE ~(m < n)
    <2>1. pc' = "loop" /\ m = n
        <3>1. pc' = "loop"
            BY <1>15 DEF ScanTurn, m, n, b
        <3> QED BY <1>3, <1>4, <1>15, <3>1
    <2>2. ReadInv'
        <3>1. \A i \in 0 .. (k + n - 1) : x + i \in Addrs
            <4> SUFFICES ASSUME NEW i \in 0 .. (k + n - 1) PROVE x + i \in Addrs
                OBVIOUS
            <4>1. CASE i < k
                BY <1>9, <4>1
            <4>2. CASE i >= k
                <5> DEFINE j == i - k + 1
                <5>1. j \in 1 .. n /\ s + j - 1 = x + i
                    BY <1>3, <1>9, <4>2
                <5> HIDE DEF j
                <5> QED BY <1>2, <5>1
            <4> QED BY <1>3, <1>9, <4>1, <4>2
        <3>2. Progress' = k + n
            BY <1>7 DEF k
        <3>3. call'.op # "copy_guest"
            BY <1>1, <1>9
        <3>4. call'.ret = Progress' /\ call'.arg = x /\ before' = before
            BY <1>9, <1>13, <2>1, <3>2
        <3>5. \A i \in 0 .. (Progress' - 1) : call'.arg + i \in Addrs
            <4> SUFFICES ASSUME NEW i \in 0 .. (Progress' - 1) PROVE call'.arg + i \in Addrs
                OBVIOUS
            <4>1. i \in 0 .. (k + n - 1)
                BY <1>3, <1>9, <3>2
            <4> QED BY <3>1, <3>4, <4>1
        <3>6. \A i \in 0 .. (Progress' - 1) : before'[call'.arg + i] # 0
            <4> SUFFICES ASSUME NEW i \in 0 .. (Progress' - 1) PROVE before'[call'.arg + i] # 0
                OBVIOUS
            <4>1. i \in 0 .. (k + m - 1)
                BY <1>3, <1>9, <2>1, <3>2
            <4>2. before[x + i] # 0
                BY <1>11, <4>1
            <4> QED BY <3>4, <4>2
        <3> QED BY <3>3, <3>4, <3>5, <3>6, Zenon DEF ReadInv
    <2>3. CallsAsReference' /\ FailsForCause'
        <3>1. (pc \in {"loop", "dst"})'
            BY <2>1
        <3> QED BY <1>7, <1>8, <3>1, LoopSoFar, PTL
    <2> QED BY <1>2, <1>7, <1>8, <2>1, <2>2, <2>3 DEF GuestInv
<1> QED BY <1>14, <1>15

\* The k bytes at address x, at the time of the call.
BytesAt(x, k) == [i \in 1 .. k |-> before[x + i - 1]]

\* What is read goes to the end of the VM's buffer.
LEMMA Appended ==
    ASSUME NEW x \in Nat, NEW k \in Nat, NEW n \in Nat
    PROVE  BytesAt(x, k) \o BytesAt(x + k, n) = BytesAt(x, k + n)
<1> SUFFICES ASSUME NEW f, f = before, NEW buf, buf = [i \in 1 .. k |-> f[x + i - 1]],
                    NEW b, b = [i \in 1 .. n |-> f[x + k + i - 1]]
             PROVE  buf \o b = [i \in 1 .. (k + n) |-> f[x + i - 1]]
    BY DEF BytesAt
<1> DEFINE S == {f[x + i - 1] : i \in 1 .. (k + n)}
           c == [i \in 1 .. (k + n) |-> f[x + i - 1]]
<1>1. buf \in Seq(S) /\ Len(buf) = k /\ \A i \in 1 .. k : buf[i] = f[x + i - 1]
    <2>1. \A i \in 1 .. k : buf[i] \in S
        <3> SUFFICES ASSUME NEW i \in 1 .. k PROVE f[x + i - 1] \in S
            OBVIOUS
        <3>1. i \in 1 .. (k + n)
            OBVIOUS
        <3> QED BY <3>1
    <2> HIDE DEF S
    <2> QED BY <2>1
<1>2. b \in Seq(S) /\ Len(b) = n /\ \A i \in 1 .. n : b[i] = f[x + k + i - 1]
    <2>1. \A i \in 1 .. n : b[i] \in S
        <3> SUFFICES ASSUME NEW i \in 1 .. n PROVE f[x + k + i - 1] \in S
            OBVIOUS
        <3>1. k + i \in 1 .. (k + n) /\ x + (k + i) - 1 = x + k + i - 1
            OBVIOUS
        <3> QED BY <3>1
    <2> HIDE DEF S
    <2> QED BY <2>1
<1>3. c \in Seq(S) /\ Len(c) = k + n /\ \A i \in 1 .. (k + n) : c[i] = f[x + i - 1]
    <2>1. \A i \in 1 .. (k + n) : c[i] \in S
        OBVIOUS
    <2> HIDE DEF S
    <2> QED BY <2>1
<1> HIDE DEF S, c
<1>4. /\ buf \o b \in Seq(S) /\ Len(buf \o b) = k + n
      /\ \A i \in 1 .. (k + n) : (buf \o b)[i] = IF i =< k THEN buf[i] ELSE b[i - k]
    BY <1>1, <1>2, ConcatProperties
<1>5. \A i \in 1 .. (k + n) : (buf \o b)[i] = c[i]
    <2> SUFFICES ASSUME NEW i \in 1 .. (k + n) PROVE (buf \o b)[i] = f[x + i - 1]
        BY <1>3
    <2>1. CASE i =< k
        BY <1>1, <1>4, <2>1
    <2>2. CASE i > k
        <3>1. i - k \in 1 .. n /\ x + k + (i - k) - 1 = x + i - 1
            BY <2>2
        <3> QED BY <1>2, <1>4, <2>2, <3>1
    <2> QED BY <2>1, <2>2
<1> QED BY <1>3, <1>4, <1>5, SeqEqual, Zenon DEF c

\* copy_guest_buffer: the bytes go to the end of the VM's buffer.
CopyOutTurn(g) ==
    /\ cache' = g.cache /\ store' = g.store /\ UNCHANGED before
    /\ call' = [Advance(call, Chunk(call)) EXCEPT !.buf = @ \o ChunkOf(g)]
    /\ pc' = "loop"

LEMMA CopyOutKeepsInv ==
    ASSUME GuestInv, pc = "loop", More, call.op = "copy_guest",
           PageOf(call.src) \in Pages, NEW g \in get_buffer(PageOf(call.src)),
           CopyOutTurn(g)
    PROVE  GuestInv'
<1> DEFINE n == Chunk(call)  b == ChunkOf(g)  k == Progress  x == call.arg  s == call.src
           c == Advance(call, n)
<1>1. /\ Locals /\ TouchedInv /\ ReadInv
      /\ call.op \in Readers \ Writers /\ call.op \notin {"strlen", "strnlen"}
    BY DEF GuestInv, Readers, Writers
<1>2. /\ CacheOK(cache') /\ DOMAIN store' = Pages
      /\ \A a \in Addrs : Flat(a)' = Flat(a)
      /\ \A i \in 1 .. n : s + i - 1 \in Addrs /\ b[i] = before[s + i - 1]
    BY <1>1, ReadsBefore DEF CopyOutTurn
<1>3. n \in Nat \ {0}
    BY <1>1, ChunkFits
<1>4. DOMAIN c = DOMAIN NoCall /\ c.buf = call.buf
    <2>1. DOMAIN call = DOMAIN NoCall
        BY <1>1 DEF Locals
    <2> HIDE DEF n
    <2> QED BY <2>1, Advanced
<1>5. /\ DOMAIN call' = DOMAIN c /\ (\A f \in DOMAIN c \ {"ret", "buf"} : call'[f] = c[f])
      /\ call'.buf = call.buf \o b
    <2>1. "buf" \in DOMAIN c
        BY <1>4 DEF NoCall
    <2>2. call' = [c EXCEPT !.buf = @ \o b]
        BY DEF CopyOutTurn
    <2> HIDE DEF c, b
    <2> QED BY <1>4, <2>1, <2>2
<1>6. Locals' /\ SameCall /\ Progress' = Progress + n
    <2>1. c = Advance(call, Chunk(call)) /\ UNCHANGED before
        BY DEF CopyOutTurn
    <2>2. \A f \in DOMAIN c \ {"ret", "buf"} : call'[f] = c[f]
        BY <1>5
    <2> HIDE DEF n, c
    <2>3. Locals' /\ SameCall /\ Progress' = Progress + Chunk(call)
        BY <1>1, <1>5, <2>1, <2>2, MovesOn
    <2> QED BY <2>3 DEF n
<1>7. TouchedInv'
    BY <1>1, <1>2, <1>6, TurnWritesNothing
<1>8. /\ k \in Nat /\ x \in Nat /\ s = x + k
      /\ (\A i \in 0 .. (k - 1) : x + i \in Addrs)
      /\ call'.op = "copy_guest" /\ call'.arg = x /\ before' = before
    BY <1>1, <1>6 DEF Locals, ReadInv, SameCall, Readers
<1>9. call.buf = [i \in 1 .. k |-> before[x + i - 1]]
    BY <1>1 DEF ReadInv
<1>10. b = [i \in 1 .. n |-> before[x + k + i - 1]]
    <2>1. b = [i \in 1 .. n |-> b[i]]
        BY DEF ChunkOf
    <2>2. \A i \in 1 .. n : b[i] = before[x + k + i - 1]
        <3> HIDE DEF b, n
        <3> QED BY <1>2, <1>8
    <2> HIDE DEF b, n, x, k
    <2> QED BY <2>1, <2>2
<1> HIDE DEF n, k, x, s, c, b
<1>11. call'.buf = [i \in 1 .. (k + n) |-> before[x + i - 1]]
    <2>1. call.buf \o b = [i \in 1 .. (k + n) |-> before[x + i - 1]]
        <3>1. n \in Nat /\ k \in Nat /\ x \in Nat
            BY <1>3, <1>8
        <3>2. call.buf = BytesAt(x, k) /\ b = BytesAt(x + k, n)
            BY <1>9, <1>10, Zenon DEF BytesAt
        <3>3. BytesAt(x, k) \o BytesAt(x + k, n) = BytesAt(x, k + n)
            BY <3>1, Appended, Zenon
        <3>4. call.buf \o b = BytesAt(x, k) \o BytesAt(x + k, n)
            BY <3>2, Zenon
        <3> QED BY <3>3, <3>4, Zenon DEF BytesAt
    <2> QED BY <1>5, <2>1
<1>12. \A i \in 0 .. (k + n - 1) : x + i \in Addrs
    <2> SUFFICES ASSUME NEW i \in 0 .. (k + n - 1) PROVE x + i \in Addrs
        OBVIOUS
    <2>1. CASE i < k
        BY <1>8, <2>1
    <2>2. CASE i >= k
        <3> DEFINE j == i - k + 1
        <3>1. j \in 1 .. n /\ s + j - 1 = x + i
            BY <1>3, <1>8, <2>2
        <3> HIDE DEF j
        <3> QED BY <1>2, <3>1
    <2> QED BY <1>3, <1>8, <2>1, <2>2
<1>13. ReadInv'
    <2>1. Progress' = k + n
        BY <1>6 DEF k
    <2>2. call'.op \notin {"strlen", "strnlen"}
        BY <1>8
    <2>3. \A i \in 0 .. (Progress' - 1) : call'.arg + i \in Addrs
        <3> SUFFICES ASSUME NEW i \in 0 .. (Progress' - 1) PROVE call'.arg + i \in Addrs
            OBVIOUS
        <3>1. i \in 0 .. (k + n - 1)
            BY <1>3, <1>8, <2>1
        <3> QED BY <1>8, <1>12, <3>1
    <2>4. call'.buf = [i \in 1 .. Progress' |-> before'[call'.arg + i - 1]]
        BY <1>8, <1>11, <2>1
    <2> QED BY <2>2, <2>3, <2>4, Zenon DEF ReadInv
<1>14. pc' = "loop"
    BY DEF CopyOutTurn
<1>15. CallsAsReference' /\ FailsForCause'
    <2>1. (pc \in {"loop", "dst"})'
        BY <1>14
    <2> QED BY <1>6, <1>7, <2>1, LoopSoFar, PTL
<1> QED BY <1>2, <1>6, <1>7, <1>13, <1>14, <1>15 DEF GuestInv

LEMMA ReturnsKeepsInv == GuestInv /\ Returns => GuestInv'
<1> SUFFICES ASSUME GuestInv, Returns PROVE GuestInv'
    OBVIOUS
<1> DEFINE k == Progress  t == call.total
<1>1. /\ Locals /\ TouchedInv /\ ReadInv /\ call.op # "strlen"
      /\ pc' = "done" /\ UNCHANGED <<store, cache, call, before>>
    BY DEF Returns, GuestInv, More
<1>2. k = t /\ k \in Nat
    <2> DEFINE z == call.size
    <2>1. k + z = t /\ z \in Nat /\ ~(z > 0) /\ k \in Nat
        BY <1>1 DEF Locals, Returns, More
    <2> HIDE DEF k, t, z
    <2> QED BY <2>1
<1> HIDE DEF k, t
<1>3. Touched = Destination
    BY <1>2, Zenon DEF Touched, Destination, k, t
<1>4. \A a : Flat(a)' = Flat(a)
    BY <1>1, FlatNext, FlatIsView
<1>5. Destination' = Destination /\ Overlapping' = Overlapping /\ \A a : Reference(a)' = Reference(a)
    BY <1>1 DEF Destination, Overlapping, SourceRange, Reference
<1>6. WritesAsReference'
    <2>1. \A a \in Addrs \ Destination' : Flat(a)' = before'[a]
        BY <1>1, <1>3, <1>4, <1>5, Zenon DEF TouchedInv
    <2>2. ~Overlapping' => \A a \in Destination' : Flat(a)' = Reference(a)'
        BY <1>1, <1>3, <1>4, <1>5, Zenon DEF TouchedInv
    <2> QED BY <2>1, <2>2 DEF WritesAsReference, Reference
<1>7. ReadsAsReference'
    <2>1. call.op = "strnlen" => call.ret = t /\ \A i \in 0 .. (call.ret - 1) : before[call.arg + i] # 0
        BY <1>1, <1>2 DEF ReadInv, k
    <2>2. call.op = "copy_guest" => call.buf = [i \in 1 .. t |-> before[call.arg + i - 1]]
        BY <1>1, <1>2 DEF ReadInv, k
    <2>3. ReadsAsReference
        BY DEF GuestInv, CallsAsReference
    <2>4. t \in Nat
        BY <1>2
    <2> QED BY <1>1, <2>1, <2>2, <2>4 DEF ReadsAsReference, t
<1> QED BY <1>1, <1>6, <1>7 DEF GuestInv, CallsAsReference, FailsForCause
-----------------------------------------------------------------------------
(* Writing. *)

\* The loop has a chunk to write.
Writing == pc = "dst" \/ (pc = "loop" /\ More /\ call.op \in Writers \ Readers)

LEMMA WritingLocals ==
    ASSUME GuestInv, Writing
    PROVE  /\ Locals /\ TouchedInv /\ ReadInv /\ More
           /\ call.op \in Writers /\ call.op # "strlen" /\ call.size > 0
           /\ call.op = "memcpy" => TmpInv
<1>1. CASE pc = "dst"
    BY <1>1 DEF GuestInv, TmpInv, Writers, More
<1>2. CASE pc = "loop" /\ More /\ call.op \in Writers \ Readers
    BY <1>2 DEF GuestInv, Writers, Readers, More
<1> QED BY <1>1, <1>2 DEF Writing

\* The destination is not mapped, or read-only: the call fails for that.
LEMMA WriteFailsKeepsInv ==
    ASSUME GuestInv, Writing, PageOf(call.dst) \notin Pages \ ReadOnly, Fail,
           UNCHANGED before
    PROVE  GuestInv'
<1>1. Locals /\ TouchedInv /\ call.op \in Writers /\ call.op # "strlen" /\ call.size > 0
    BY WritingLocals
<1>2. pc' = "failed" /\ UNCHANGED <<store, cache, call, before>>
    BY DEF Fail
<1>3. CallsAsReference'
    <2>1. \A a \in Addrs \ Destination : Flat(a) = before[a]
        BY <1>1, LoopSoFar DEF Writing, CallsAsReference, WritesAsReference
    <2>2. \A a : Flat(a)' = Flat(a)
        BY <1>2, FlatNext, FlatIsView
    <2>3. Destination' = Destination
        BY <1>2 DEF Destination
    <2>4. \A a \in Addrs \ Destination : Flat(a)' = before'[a]
        BY <1>2, <2>1, <2>2, Zenon
    <2> QED BY <1>2, <2>3, <2>4 DEF CallsAsReference, WritesAsReference, ReadsAsReference
<1>4. call.dst \in Destination
    <2> DEFINE k == Progress  d == call.dst  u == call.start  t == call.total  z == call.size
    <2>1. k \in Nat /\ u \in Nat /\ d \in Nat /\ k = d - u /\ k + z = t /\ z > 0 /\ z \in Nat
        BY <1>1 DEF Locals, Progress
    <2> HIDE DEF k, d, u, t, z
    <2>2. d \in u .. (u + t - 1)
        BY <2>1
    <2> QED BY <1>1, <2>2 DEF Destination, d, u, t
<1>5. FailsForCause'
    BY <1>2, <1>4 DEF FailsForCause, Destination
<1> QED BY <1>2, <1>3, <1>5 DEF GuestInv

\* A chunk is written.
WriteTurn(g) ==
    /\ cache' = Written(g.cache, g.slot, call.dst, Chunk(call), Source(call, Chunk(call), g))
    /\ store' = g.store /\ UNCHANGED before
    /\ call' = Advance(call, Chunk(call))
    /\ pc' = "loop"

\* What is written is what the destination is to hold.
LEMMA SourceIsReference ==
    ASSUME GuestInv, Writing, ~Overlapping, NEW g,
           NEW a \in call.dst .. (call.dst + Chunk(call) - 1)
    PROVE  Source(call, Chunk(call), g)[a - call.dst + 1] = Reference(a)
<1> DEFINE n == Chunk(call)  d == call.dst  k == Progress  u == call.start
           x == call.arg  s == call.src  i == a - d + 1
<1>1. /\ Locals /\ ReadInv /\ More /\ call.op \in Writers
      /\ call.op = "memcpy" => TmpInv
    BY WritingLocals
<1>2. n \in Nat \ {0}
    BY <1>1, ChunkFits
<1>3. /\ k \in Nat /\ d \in Nat /\ u \in Nat /\ x \in Nat /\ s \in Nat
      /\ k = d - u /\ s = x + k
    BY <1>1 DEF Locals, Progress
<1>4. i \in 1 .. n /\ s + i - 1 = x + (a - u) /\ (d - u + 1) + i - 1 = a - u + 1 /\ a \in Int
    <2>1. a \in d .. (d + n - 1)
        OBVIOUS
    <2> HIDE DEF n, d, k, u, x, s
    <2> QED BY <1>2, <1>3, <2>1
<1>5. CASE call.op = "memcpy"
    <2>1. Source(call, n, g) = call.tmp
        BY <1>5, Zenon DEF Source
    <2>2. call.tmp[i] = before[s + i - 1]
        <3> HIDE DEF i
        <3> QED BY <1>1, <1>4, <1>5 DEF TmpInv
    <2>3. Reference(a) = before[x + (a - u)]
        BY <1>5, Zenon DEF Reference
    <2> HIDE DEF i, s, x, u, n, d
    <2>4. Source(call, n, g)[i] = Reference(a)
        BY <1>4, <2>1, <2>2, <2>3
    <2> QED BY <2>4, Zenon DEF i, n, d
<1>6. CASE call.op = "memset"
    <2>1. Source(call, n, g) = [j \in 1 .. n |-> call.val]
        BY <1>6 DEF Source
    <2>2. Reference(a) = call.val
        BY <1>6 DEF Reference
    <2> HIDE DEF i, n, d
    <2>3. Source(call, n, g)[i] = Reference(a)
        BY <1>4, <2>1, <2>2
    <2> QED BY <2>3, Zenon DEF i, n, d
<1>7. CASE call.op = "copy_host"
    <2> DEFINE buf == call.buf
    <2>1. Source(call, n, g) = SubSeq(buf, d - u + 1, d - u + n)
        BY <1>7 DEF Source
    <2>2. Reference(a) = buf[a - u + 1]
        BY <1>7 DEF Reference
    <2> HIDE DEF i, n, d, u, buf, k, x, s
    <2> DEFINE p == d - u + 1  q == d - u + n  S == {buf[j] : j \in p .. q}
    <2>3. p \in Int /\ q \in Int /\ i \in 1 .. (q - p + 1) /\ p + i - 1 = a - u + 1
        BY <1>2, <1>3, <1>4
    <2>4. \A j \in p .. q : buf[j] \in S
        OBVIOUS
    <2> HIDE DEF p, q, S
    <2>5. \A j \in 1 .. (q - p + 1) : SubSeq(buf, p, q)[j] = buf[p + j - 1]
        BY <2>3, <2>4, SubSeqProperties
    <2>6. SubSeq(buf, p, q)[i] = buf[p + i - 1]
        BY <2>3, <2>5
    <2>7. Source(call, n, g)[i] = Reference(a)
        BY <2>1, <2>2, <2>3, <2>6 DEF p, q
    <2> QED BY <2>7, Zenon DEF i, n, d
<1> QED BY <1>1, <1>5, <1>6, <1>7 DEF Writers

LEMMA WriteKeepsInv ==
    ASSUME GuestInv, Writing, PageOf(call.dst) \in Pages,
           NEW g \in get_buffer(PageOf(call.dst)), WriteTurn(g)
    PROVE  GuestInv'
<1> DEFINE n == Chunk(call)  d == call.dst  k == Progress  u == call.start
           x == call.arg  s == call.src  b == Source(call, n, g)
<1>1. /\ Locals /\ TouchedInv /\ ReadInv /\ More /\ call.op \in Writers
      /\ call.op = "memcpy" => TmpInv
    BY WritingLocals
<1>2. /\ g.slot \in Slots /\ g.cache[g.slot].page = PageOf(d)
      /\ CacheOK(g.cache) /\ DOMAIN g.store = Pages
      /\ \A a \in Addrs : View(g.cache, g.store, a) = Flat(a)
    BY GetBuffer DEF GuestInv
<1>3. n \in Nat \ {0} /\ (d % PAGE_SIZE) + n =< PAGE_SIZE
    BY <1>1, ChunkFits
<1>4. /\ k \in Nat /\ d \in Nat /\ u \in Nat /\ x \in Nat /\ s \in Nat
      /\ k = d - u /\ s = x + k
    BY <1>1 DEF Locals, Progress
<1>5. /\ CacheOK(cache')
      /\ \A a \in Addrs : Flat(a)' = IF a \in d .. (d + n - 1) THEN b[a - d + 1] ELSE Flat(a)
    <2> DEFINE c == g.cache  st == g.store  t == g.slot
    <2>1. /\ CacheOK(c) /\ t \in Slots /\ d \in Nat /\ n \in Nat
          /\ (d % PAGE_SIZE) + n =< PAGE_SIZE /\ c[t].page = PageOf(d)
          /\ \A a \in Addrs : View(c, st, a) = Flat(a)
        BY <1>2, <1>3, <1>4
    <2>2. cache' = Written(c, t, d, n, b) /\ store' = st
        BY DEF WriteTurn
    <2> HIDE DEF c, st, t, d, n, b
    <2>3. /\ CacheOK(Written(c, t, d, n, b))
          /\ \A a \in Addrs : View(Written(c, t, d, n, b), st, a) =
                                IF a \in d .. (d + n - 1) THEN b[a - d + 1] ELSE View(c, st, a)
        BY <2>1, ChunkWritten
    <2> QED BY <2>1, <2>2, <2>3, FlatNext
<1>6. Locals' /\ SameCall /\ Progress' = k + n
    <2>1. DOMAIN call = DOMAIN NoCall
        BY <1>1 DEF Locals
    <2> DEFINE c == Advance(call, Chunk(call))
    <2>2. c.buf = call.buf /\ call' = c /\ UNCHANGED before
        <3>1. Advance(call, Chunk(call)).buf = call.buf
            <4> HIDE DEF n
            <4> QED BY <2>1, Advanced
        <3> QED BY <3>1 DEF WriteTurn
    <2>3. c = Advance(call, Chunk(call))
        OBVIOUS
    <2> HIDE DEF c
    <2>4. DOMAIN call' = DOMAIN c /\ \A f \in DOMAIN c \ {"ret", "buf"} : call'[f] = c[f]
        BY <2>2
    <2>5. Locals' /\ SameCall /\ Progress' = Progress + Chunk(call)
        BY <1>1, <2>2, <2>3, <2>4, MovesOn
    <2> QED BY <2>5
<1>7. \A a \in d .. (d + n - 1) : a \in Addrs
    <2> SUFFICES ASSUME NEW a \in d .. (d + n - 1) PROVE a \in Addrs
        OBVIOUS
    <2>1. a \in Nat /\ n \in Nat /\ d \in Nat /\ (d % PAGE_SIZE) + n =< PAGE_SIZE
        BY <1>3, <1>4
    <2>2. PageOf(d) \in Pages
        OBVIOUS
    <2> HIDE DEF d, n
    <2>3. PageOf(a) = PageOf(d)
        BY <2>1, InChunk
    <2> QED BY <2>1, <2>2, <2>3, Split
<1>8. Touched = u .. (u + k - 1) /\ Touched' = u .. (u + (k + n) - 1)
    <2>1. Touched = u .. (u + k - 1)
        BY <1>1 DEF Touched
    <2>2. call'.op \in Writers /\ call'.start = u
        BY <1>1, <1>6 DEF SameCall
    <2> HIDE DEF k, n, u
    <2> QED BY <1>6, <2>1, <2>2 DEF Touched
<1>9. /\ \A a \in Touched' : a \in Touched \/ a \in d .. (d + n - 1)
      /\ \A a : a \notin Touched' => a \notin Touched /\ a \notin d .. (d + n - 1)
      /\ \A a \in Touched : a \notin d .. (d + n - 1)
    <2> HIDE DEF d, n, u, k, x, s
    <2> QED BY <1>3, <1>4, <1>8
<1>10. /\ Overlapping' = Overlapping /\ before' = before
       /\ \A a : Reference(a)' = Reference(a)
    BY <1>1, <1>6, SameReference DEF SameCall
<1>11. TouchedInv'
    <2>1. ASSUME NEW a \in Addrs \ Touched' PROVE Flat(a)' = before'[a]
        <3>1. a \notin Touched /\ a \notin d .. (d + n - 1)
            BY <1>9
        <3>2. Flat(a)' = Flat(a)
            BY <1>5, <3>1
        <3> QED BY <1>1, <1>10, <3>1, <3>2 DEF TouchedInv
    <2>2. ASSUME NEW a \in Touched'
          PROVE  a \in Addrs /\ (~Overlapping' => Flat(a)' = Reference(a)')
        <3>1. CASE a \in d .. (d + n - 1)
            <4>1. a \in Addrs
                BY <1>7, <3>1
            <4>2. Flat(a)' = b[a - d + 1]
                BY <1>5, <3>1, <4>1
            <4>3. ~Overlapping => b[a - d + 1] = Reference(a)
                BY <3>1, SourceIsReference
            <4> HIDE DEF b, d
            <4> QED BY <1>10, <4>1, <4>2, <4>3, Zenon
        <3>2. CASE a \notin d .. (d + n - 1)
            <4>1. a \in Touched
                BY <1>9, <3>2
            <4>2. a \in Addrs /\ (~Overlapping => Flat(a) = Reference(a))
                BY <1>1, <4>1, Zenon DEF TouchedInv
            <4>3. Flat(a)' = Flat(a)
                BY <1>5, <3>2, <4>2
            <4> QED BY <1>10, <4>2, <4>3, Zenon
        <3> QED BY <3>1, <3>2
    <2> QED BY <2>1, <2>2, Zenon DEF TouchedInv
<1>12. call'.op = call.op /\ call'.arg = x
    BY <1>6 DEF SameCall
<1>13. call.op = "memcpy" => \A i \in 0 .. (k + n - 1) : x + i \in Addrs
    <2> SUFFICES ASSUME call.op = "memcpy", NEW i \in 0 .. (k + n - 1) PROVE x + i \in Addrs
        OBVIOUS
    <2>1. /\ \A j \in 0 .. (k - 1) : x + j \in Addrs
          /\ \A j \in 1 .. n : s + j - 1 \in Addrs
        BY <1>1 DEF ReadInv, TmpInv, Readers
    <2>2. i \in 0 .. (k + n - 1)
        OBVIOUS
    <2> HIDE DEF k, n, s, x, d, u
    <2>3. CASE i < k
        <3>1. i \in 0 .. (k - 1)
            BY <1>3, <1>4, <2>2, <2>3
        <3> QED BY <2>1, <3>1
    <2>4. CASE i >= k
        <3> DEFINE j == i - k + 1
        <3>1. j \in 1 .. n /\ s + j - 1 = x + i
            BY <1>3, <1>4, <2>2, <2>4
        <3> HIDE DEF j
        <3> QED BY <2>1, <3>1
    <2> QED BY <1>3, <1>4, <2>2, <2>3, <2>4
<1>14. ReadInv'
    <2>1. call'.op \notin {"strlen", "strnlen", "copy_guest"}
        BY <1>1, <1>12 DEF Writers
    <2>2. call'.op \in Readers => \A i \in 0 .. (Progress' - 1) : call'.arg + i \in Addrs
        <3> SUFFICES ASSUME call'.op \in Readers, NEW i \in 0 .. (Progress' - 1)
                     PROVE  call'.arg + i \in Addrs
            OBVIOUS
        <3>1. call.op = "memcpy"
            BY <2>1, <1>12 DEF Readers
        <3> HIDE DEF k, n, x
        <3>2. i \in 0 .. (k + n - 1)
            BY <1>3, <1>4, <1>6
        <3> QED BY <1>12, <1>13, <3>1, <3>2
    <2> QED BY <2>1, <2>2, Zenon DEF ReadInv
<1>15. pc' = "loop" /\ DOMAIN store' = Pages
    BY <1>2 DEF WriteTurn
<1>16. CallsAsReference' /\ FailsForCause'
    <2>1. (pc \in {"loop", "dst"})'
        BY <1>15
    <2> QED BY <1>6, <1>11, <2>1, LoopSoFar, PTL
<1> QED BY <1>5, <1>6, <1>11, <1>14, <1>15, <1>16 DEF GuestInv
-----------------------------------------------------------------------------
(* The specification. *)

LEMMA ReadSourceKeepsInv == GuestInv /\ ReadSource => GuestInv'
<1> SUFFICES ASSUME GuestInv, ReadSource PROVE GuestInv'
    OBVIOUS
<1>1. pc = "loop" /\ More /\ call.op \in Readers /\ UNCHANGED before
    BY Zenon DEF ReadSource
<1>2. CASE PageOf(call.src) \notin Pages /\ Fail
    BY <1>1, <1>2, ReadFailsKeepsInv
<1>3. CASE PageOf(call.src) \in Pages
    <2>1. PICK g \in get_buffer(PageOf(call.src)) :
            /\ cache' = g.cache /\ store' = g.store
            /\ \/ /\ call.op = "memcpy"
                  /\ call' = [call EXCEPT !.tmp = ChunkOf(g), !.from = g.slot]
                  /\ pc' = "dst"
               \/ /\ call.op \in {"strlen", "strnlen"}
                  /\ call' = [Advance(call, Chunk(call)) EXCEPT !.ret = @ + strnlen(ChunkOf(g))]
                  /\ pc' = IF strnlen(ChunkOf(g)) < Chunk(call) THEN "done" ELSE "loop"
               \/ /\ call.op = "copy_guest"
                  /\ call' = [Advance(call, Chunk(call)) EXCEPT !.buf = @ \o ChunkOf(g)]
                  /\ pc' = "loop"
        BY <1>3, Zenon DEF ReadSource, SourcePages, ChunkOf
    <2>2. CASE call.op = "memcpy" /\ pc' = "dst"
        <3> DEFINE b == ChunkOf(g)
        <3>1. call' = [call EXCEPT !.tmp = b, !.from = g.slot]
            BY <2>1, <2>2
        <3>2. b = [i \in 1 .. Chunk(call) |->
                        g.cache[g.slot].data[(call.src % PAGE_SIZE) + i - 1]]
            BY Zenon DEF ChunkOf
        <3> HIDE DEF b
        <3> QED BY <1>1, <1>3, <2>1, <2>2, <3>1, <3>2, CopyReadKeepsInv, Zenon
    <2>3. CASE call.op \in {"strlen", "strnlen"}
        <3>1. ScanTurn(g)
            BY <1>1, <2>1, <2>3 DEF ScanTurn
        <3> QED BY <1>1, <1>3, <2>3, <3>1, ScanKeepsInv, Zenon
    <2>4. CASE call.op = "copy_guest"
        <3>1. CopyOutTurn(g)
            BY <1>1, <2>1, <2>4 DEF CopyOutTurn
        <3> QED BY <1>1, <1>3, <2>4, <3>1, CopyOutKeepsInv, Zenon
    <2> QED BY <2>1, <2>2, <2>3, <2>4
<1> QED BY <1>2, <1>3, Zenon DEF ReadSource, SourcePages

LEMMA WriteDestKeepsInv == GuestInv /\ WriteDest => GuestInv'
<1> SUFFICES ASSUME GuestInv, WriteDest PROVE GuestInv'
    OBVIOUS
<1>1. Writing /\ UNCHANGED before
    BY DEF WriteDest, Writing
<1>2. CASE PageOf(call.dst) \notin DestPages /\ Fail
    BY <1>1, <1>2, WriteFailsKeepsInv DEF DestPages
<1>3. CASE PageOf(call.dst) \in DestPages /\
           \E g \in get_buffer(PageOf(call.dst)) : WriteTurn(g)
    BY <1>1, <1>3, WriteKeepsInv DEF DestPages
<1>4. \/ PageOf(call.dst) \notin DestPages /\ Fail
      \/ /\ PageOf(call.dst) \in DestPages
         /\ \E g \in get_buffer(PageOf(call.dst)) : WriteTurn(g)
    BY <1>1, Zenon DEF WriteDest, WriteTurn, Written
<1> QED BY <1>2, <1>3, <1>4

LEMMA StartsKeepsInv == GuestInv /\ Starts => GuestInv'
<1> SUFFICES ASSUME GuestInv, Starts PROVE GuestInv'
    OBVIOUS
<1>1. Addrs \subseteq Nat /\ Sizes \subseteq Nat /\ 0 \in Nat
    BY GuestMemoryAssumption DEF Addrs, Sizes
<1> DEFINE Started == \E op \in Readers \cup Writers : \E d, s, n \in Nat : \E v, b :
                        (op = "copy_guest" => b = <<>>) /\ Start(op, d, s, n, v, b)
<1>2. Started
    <2>1. ASSUME NEW d \in Addrs, NEW s \in Addrs, NEW n \in Sizes,
                 Start("memcpy", d, s, n, 0, <<>>)
          PROVE  Started
        BY <1>1, <2>1 DEF Readers, Writers
    <2>2. ASSUME NEW d \in Addrs, NEW n \in Sizes, NEW v \in Bytes,
                 Start("memset", d, 0, n, v, <<>>)
          PROVE  Started
        BY <1>1, <2>2 DEF Readers, Writers
    <2>3. ASSUME NEW s \in Addrs, Start("strlen", 0, s, 0, 0, <<>>)
          PROVE  Started
        BY <1>1, <2>3 DEF Readers, Writers
    <2>4. ASSUME NEW s \in Addrs, NEW n \in Sizes, Start("strnlen", 0, s, n, 0, <<>>)
          PROVE  Started
        BY <1>1, <2>4 DEF Readers, Writers
    <2>5. ASSUME NEW s \in Addrs, NEW n \in Sizes, Start("copy_guest", 0, s, n, 0, <<>>)
          PROVE  Started
        BY <1>1, <2>5 DEF Readers, Writers
    <2>6. ASSUME NEW d \in Addrs, NEW n \in Sizes, NEW b \in [1 .. n -> Bytes],
                 Start("copy_host", d, 0, n, 0, b)
          PROVE  Started
        BY <1>1, <2>6 DEF Readers, Writers
    <2> QED BY <2>1, <2>2, <2>3, <2>4, <2>5, <2>6, Zenon DEF Starts
<1> QED BY <1>2, StartKeepsInv

LEMMA GuestInvInit == Init => GuestInv
<1> SUFFICES ASSUME Init PROVE GuestInv
    OBVIOUS
<1>1. CacheOK(cache) /\ \A s \in Slots : cache[s].page = NoPage
    BY DEF Init, CacheOK
<1>2. DOMAIN store = Pages /\ pc = "app"
    BY DEF Init
<1> QED BY <1>1, <1>2 DEF GuestInv, CallsAsReference, WritesAsReference, ReadsAsReference,
                          FailsForCause

LEMMA GuestInvStep == GuestInv /\ [Next]_vars => GuestInv'
<1> SUFFICES ASSUME GuestInv, [Next]_vars PROVE GuestInv'
    OBVIOUS
<1>1. CASE Starts
    BY <1>1, StartsKeepsInv
<1>2. CASE ReadSource
    BY <1>2, ReadSourceKeepsInv
<1>3. CASE WriteDest
    BY <1>3, WriteDestKeepsInv
<1>4. CASE Returns
    BY <1>4, ReturnsKeepsInv
<1>5. CASE UNCHANGED vars
    <2>1. UNCHANGED <<store, cache, pc, call, before>>
        BY <1>5 DEF vars
    <2>2. \A a : Flat(a)' = Flat(a)
        BY <2>1, FlatNext, FlatIsView
    <2>3. /\ Progress' = Progress /\ Destination' = Destination /\ Overlapping' = Overlapping
          /\ Touched' = Touched /\ \A a : Reference(a)' = Reference(a)
        BY <2>1 DEF Progress, Destination, Overlapping, SourceRange, Touched, Reference
    <2>4. Locals' = Locals /\ ReadInv' = ReadInv
        BY <2>1, <2>3 DEF Locals, ReadInv
    <2>5. TouchedInv => TouchedInv'
        BY <2>1, <2>2, <2>3, Zenon DEF TouchedInv
    <2>6. TmpInv => TmpInv'
        <3>1. Chunk(call)' = Chunk(call)
            BY <2>1 DEF Chunk, BUFFER_MIN_SIZE, BUFFER_MAX_SIZE
        <3> QED BY <2>1, <2>3, <3>1, Zenon DEF TmpInv
    <2>7. WritesAsReference => WritesAsReference'
        BY <2>1, <2>2, <2>3, Zenon DEF WritesAsReference
    <2>8. ReadsAsReference' = ReadsAsReference
        BY <2>1, Zenon DEF ReadsAsReference, ZeroAt
    <2>9. FailsForCause' = FailsForCause
        BY <2>1, <2>3, Zenon DEF FailsForCause, SourceRange
    <2> QED BY <2>1, <2>4, <2>5, <2>6, <2>7, <2>8, <2>9 DEF GuestInv, CallsAsReference
<1> QED BY <1>1, <1>2, <1>3, <1>4, <1>5 DEF Next, Step, Ended

\* The loops of the system calls keep the invariant.
LEMMA GuestInvAlways == Spec => []GuestInv
BY GuestInvInit, GuestInvStep, PTL DEF Spec

\* The copies, fills and searches through the app's pages do what the C functions do on a
\* flat memory, whatever pages get_buffer evicts on the way, and touch nothing else: for every
\* size of a page, every number of pages and of slots, every size of a buffer.
THEOREM CallsAreTheReference == Spec => []CallsAsReference
BY GuestInvAlways, PTL DEF GuestInv

\* A system call on a buffer fails only for a byte that is not mapped or not writeable.
THEOREM CallsFailForCause == Spec => []FailsForCause
BY GuestInvAlways, PTL DEF GuestInv
=============================================================================
