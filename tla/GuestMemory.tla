---------------------------- MODULE GuestMemory ----------------------------
(***************************************************************************)
(* The system calls of ecall.c that walk through the app's memory page by   *)
(* page: sys_memcpy, sys_memset, sys_strlen, sys_strnlen, and the copies    *)
(* between the VM and the app, copy_guest_buffer and copy_host_buffer.      *)
(*                                                                          *)
(* get_buffer gives a pointer into a slot of the page cache, which is good  *)
(* until the next get_buffer: that one may evict the page.  Pages are       *)
(* evicted and loaded in one step here (see Paging), and a failed fault is  *)
(* an access to a page that is not mapped.                                  *)
(***************************************************************************)
EXTENDS Integers, Sequences

CONSTANTS
    PAGE_SIZE,
    NPages,         \* pages 0 .. NPages - 1 are mapped
    ReadOnly,       \* those that cannot be written
    Slots,          \* slots of the page cache
    Bytes,          \* values of a byte, 0 among them
    MaxSize         \* bound on the size argument

ASSUME GuestMemoryAssumption ==
    /\ {PAGE_SIZE, NPages} \subseteq Nat \ {0}
    /\ MaxSize \in Nat
    /\ 0 \in Bytes

VARIABLES
    store,          \* pages on the host
    cache,          \* slot -> page number and data
    pc,
    call,           \* arguments and locals of the call in progress
    before          \* history: the memory when it was made

vars == <<store, cache, pc, call, before>>

Pages   == 0 .. (NPages - 1)
Addrs   == 0 .. (NPages * PAGE_SIZE - 1)
Offsets == 0 .. (PAGE_SIZE - 1)
NoPage  == -1

PageOf(a) == a \div PAGE_SIZE
Held(p) == {s \in Slots : cache[s].page = p}

\* The byte at address a, as the app would read it.
Flat(a) ==
    LET p == PageOf(a)
    IN  IF Held(p) # {} THEN cache[CHOOSE s \in Held(p) : TRUE].data[a % PAGE_SIZE]
        ELSE store[p][a % PAGE_SIZE]

Smaller(x, y) == IF x < y THEN x ELSE y
BUFFER_MAX_SIZE(a) == PAGE_SIZE - (a % PAGE_SIZE)
BUFFER_MIN_SIZE(a, size) == Smaller(BUFFER_MAX_SIZE(a), size)
-----------------------------------------------------------------------------
\* get_buffer: the slot that holds page p, evicting another page if necessary.
get_buffer(p) ==
    IF Held(p) # {}
    THEN {[slot |-> s, cache |-> cache, store |-> store] : s \in Held(p)}
    ELSE {[slot  |-> s,
           cache |-> [cache EXCEPT ![s] = [page |-> p, data |-> store[p]]],
           store |-> IF cache[s].page = NoPage THEN store
                     ELSE [store EXCEPT ![cache[s].page] = cache[s].data]] : s \in Slots}

Readers == {"memcpy", "strlen", "strnlen", "copy_guest"}
Writers == {"memset", "memcpy", "copy_host"}

\* The part of the buffer that the next turn of the loop handles.
Chunk(c) ==
    CASE c.op = "memcpy" -> BUFFER_MIN_SIZE(c.src, BUFFER_MIN_SIZE(c.dst, c.size))
      [] c.op \in {"memset", "copy_host"} -> BUFFER_MIN_SIZE(c.dst, c.size)
      [] c.op \in {"strnlen", "copy_guest"} -> BUFFER_MIN_SIZE(c.src, c.size)
      [] c.op = "strlen" -> BUFFER_MAX_SIZE(c.src)

More == call.op = "strlen" \/ call.size > 0

\* Faulty variant: the loop of memset does not move on.
AdvanceStuck(c, n) ==
    IF c.op = "memset" THEN c
    ELSE [c EXCEPT !.dst = @ + n, !.src = @ + n,
                   !.size = IF c.op = "strlen" THEN @ ELSE @ - n]

Advance(c, n) ==
    [c EXCEPT !.dst = @ + n, !.src = @ + n,
              !.size = IF c.op = "strlen" THEN @ ELSE @ - n]

\* strnlen of the C library, on the bytes of one page.
strnlen(b) ==
    LET zeros == {i \in DOMAIN b : b[i] = 0}
    IN  IF zeros = {} THEN Len(b) ELSE (CHOOSE i \in zeros : \A j \in zeros : i =< j) - 1

\* Faulty variant: the source has to be writeable as well.
SourcePagesWriteable == Pages \ ReadOnly

\* Pages get_buffer gives a pointer into, for reading and for writing.
SourcePages == Pages
DestPages == Pages \ ReadOnly

Fail == pc' = "failed" /\ UNCHANGED <<store, cache, call>>

\* The turn of a loop that reads: the bytes are used, or kept in tmp, at once.
ReadSource ==
    /\ pc = "loop" /\ More /\ call.op \in Readers
    /\ \/ PageOf(call.src) \notin SourcePages /\ Fail
       \/ /\ PageOf(call.src) \in SourcePages
          /\ \E g \in get_buffer(PageOf(call.src)) :
               LET n   == Chunk(call)
                   off == call.src % PAGE_SIZE
                   b   == [i \in 1 .. n |-> g.cache[g.slot].data[off + i - 1]]
               IN  /\ cache' = g.cache /\ store' = g.store
                   /\ \/ /\ call.op = "memcpy"
                         /\ call' = [call EXCEPT !.tmp = b, !.from = g.slot]
                         /\ pc' = "dst"
                      \/ /\ call.op \in {"strlen", "strnlen"}
                         /\ call' = [Advance(call, n) EXCEPT !.ret = @ + strnlen(b)]
                         /\ pc' = IF strnlen(b) < n THEN "done" ELSE "loop"
                      \/ /\ call.op = "copy_guest"
                         /\ call' = [Advance(call, n) EXCEPT !.buf = @ \o b]
                         /\ pc' = "loop"
    /\ UNCHANGED before

\* Faulty variant: no temporary buffer; the pointer into the slot is used.
SourcePointer(c, n, g) ==
    IF c.op = "memcpy" THEN [i \in 1 .. n |-> g.cache[c.from].data[(c.src + i - 1) % PAGE_SIZE]]
    ELSE IF c.op = "memset" THEN [i \in 1 .. n |-> c.val]
    ELSE SubSeq(c.buf, c.dst - c.start + 1, c.dst - c.start + n)

\* What is written: tmp, the byte of memset, or the next bytes of the VM's buffer.
Source(c, n, g) ==
    IF c.op = "memcpy" THEN c.tmp
    ELSE IF c.op = "memset" THEN [i \in 1 .. n |-> c.val]
    ELSE SubSeq(c.buf, c.dst - c.start + 1, c.dst - c.start + n)

WriteDest ==
    /\ pc = "dst" \/ (pc = "loop" /\ More /\ call.op \in Writers \ Readers)
    /\ \/ PageOf(call.dst) \notin DestPages /\ Fail
       \/ /\ PageOf(call.dst) \in DestPages
          /\ \E g \in get_buffer(PageOf(call.dst)) :
               LET n   == Chunk(call)
                   off == call.dst % PAGE_SIZE
                   b   == Source(call, n, g)
               IN  /\ cache' = [g.cache EXCEPT ![g.slot].data =
                                   [o \in Offsets |-> IF o \in off .. (off + n - 1)
                                                      THEN b[o - off + 1] ELSE @[o]]]
                   /\ store' = g.store
                   /\ call' = Advance(call, n)
                   /\ pc' = "loop"
    /\ UNCHANGED before

Returns ==
    /\ pc = "loop" /\ ~More
    /\ pc' = "done"
    /\ UNCHANGED <<store, cache, call, before>>

Step == ReadSource \/ WriteDest \/ Returns

NoCall == [op |-> "none", start |-> 0, dst |-> 0, src |-> 0, size |-> 0, total |-> 0,
           val |-> 0, buf |-> <<>>, tmp |-> <<>>, from |-> 0, ret |-> 0, arg |-> 0]

\* The app makes a system call, or one that uses copy_guest_buffer or copy_host_buffer.
Start(op, dst, src, size, val, buf) ==
    /\ pc = "app"
    /\ call' = [NoCall EXCEPT !.op = op, !.start = dst, !.dst = dst, !.src = src, !.arg = src,
                              !.size = size, !.total = size, !.val = val, !.buf = buf]
    /\ before' = [a \in Addrs |-> Flat(a)]
    /\ pc' = "loop"
    /\ UNCHANGED <<store, cache>>

Sizes == 0 .. MaxSize

Starts ==
    \/ \E d, s \in Addrs, n \in Sizes : Start("memcpy", d, s, n, 0, <<>>)
    \/ \E d \in Addrs, n \in Sizes, v \in Bytes : Start("memset", d, 0, n, v, <<>>)
    \/ \E s \in Addrs : Start("strlen", 0, s, 0, 0, <<>>)
    \/ \E s \in Addrs, n \in Sizes :
          Start("strnlen", 0, s, n, 0, <<>>) \/ Start("copy_guest", 0, s, n, 0, <<>>)
    \/ \E d \in Addrs, n \in Sizes : \E b \in [1 .. n -> Bytes] :
          Start("copy_host", d, 0, n, 0, b)

Init ==
    /\ store \in [Pages -> [Offsets -> Bytes]]
    /\ cache = [s \in Slots |-> [page |-> NoPage, data |-> [o \in Offsets |-> 0]]]
    /\ pc = "app"
    /\ call = NoCall
    /\ before = [a \in Addrs |-> store[PageOf(a)][a % PAGE_SIZE]]

\* One call is followed to its end.
Ended == pc \in {"done", "failed"} /\ UNCHANGED vars

Next == Starts \/ Step \/ Ended

Spec == Init /\ [][Next]_vars /\ WF_vars(Step)
-----------------------------------------------------------------------------
(* Properties. *)

Destination == IF call.op \in Writers THEN call.start .. (call.start + call.total - 1) ELSE {}
SourceRange == call.arg .. (call.arg + call.total - 1)
Overlapping == call.op = "memcpy" /\ Destination \cap SourceRange # {}

\* What a call leaves in its destination, and nowhere else, even if it fails.
WritesAsReference ==
    /\ pc # "app" => \A a \in Addrs \ Destination : Flat(a) = before[a]
    /\ pc = "done" /\ ~Overlapping =>
        \A a \in Destination : Flat(a) =
            CASE call.op = "memcpy" -> before[call.arg + (a - call.start)]
              [] call.op = "memset" -> call.val
              [] call.op = "copy_host" -> call.buf[a - call.start + 1]

ZeroAt(a) == a \in Addrs /\ before[a] = 0

\* What a call returns.
ReadsAsReference ==
    pc = "done" =>
        /\ call.op = "strlen" => /\ ZeroAt(call.arg + call.ret)
                                 /\ \A i \in 0 .. (call.ret - 1) : before[call.arg + i] # 0
        /\ call.op = "strnlen" =>
              /\ call.ret =< call.total
              /\ call.ret < call.total => ZeroAt(call.arg + call.ret)
              /\ \A i \in 0 .. (call.ret - 1) : before[call.arg + i] # 0
        /\ call.op = "copy_guest" =>
              call.buf = [i \in 1 .. call.total |-> before[call.arg + i - 1]]

\* memcpy, memset and copy_host_buffer leave in the destination what the C functions
\* do, whatever pages are evicted on the way (memcpy of disjoint buffers), and no call,
\* not even one that fails, changes a byte outside of its destination; strlen and strnlen
\* return the distance to the first zero, or maxlen, and copy_guest_buffer the app's buffer.
CallsAsReference == WritesAsReference /\ ReadsAsReference

\* A call fails only if it has to touch a byte that is not mapped or, in its
\* destination, one that is read-only.
FailsForCause ==
    pc = "failed" =>
        \/ \E a \in Destination : PageOf(a) \notin Pages \ ReadOnly
        \/ call.op # "strlen" /\ \E a \in SourceRange : a \notin Addrs
        \/ call.op = "strlen" /\ \A a \in Addrs : a >= call.arg => before[a] # 0

\* Every call ends.
CallsReturn == pc = "loop" ~> pc \in {"done", "failed"}
=============================================================================
