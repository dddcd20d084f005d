---------------------------- MODULE PagingProofs ----------------------------
(***************************************************************************)
(* Proofs about Paging, for every layout, every number of slots, every IV   *)
(* limit and both kinds of host.  The invariant is about the device only:   *)
(* nothing is assumed of the host's replies beyond the ideal cryptography   *)
(* of Paging (a MAC is one of those in existence).  It holds until the app  *)
(* goes on after a fault of a draw that failed half-way; a last part shows  *)
(* that this never happens with a reliable host.                            *)
(***************************************************************************)
EXTENDS Paging, FiniteSetTheorems, TLAPS

SlotPages(s) == IF s \in CodeSlots THEN CodePages
                ELSE IF s \in DataSlots THEN DataPages ELSE StackPages

Frames == [op : Ops \cup {"none"}, addr : Nat, val : Vals, slot : Slots \cup {"none"},
           cursor : Nat, limit : Nat, ct : [addr : Nat, iv : Nat, val : Vals]]

SealedPages == [addr : WritePages, iv : IVs \ {0}, val : Vals]

Pcs == {"run", "access", "evict", "create", "ack", "old_proof",
        "page", "hmac", "proof", "stopped"}

TypeInv ==
    /\ pages \in [Slots -> PageRecs]
    /\ bss_max \in Bss .. DataEnd
    /\ stack_min \in StackStart .. StackEnd
    /\ root \in Trees
    /\ last_entry \in [addr : WritePages, iv : IVs]
    /\ pc \in Pcs
    /\ frame \in Frames
    /\ loading \in BOOLEAN
    /\ sealed \subseteq SealedPages

\* A slot only holds pages of its own section.
SlotsInSection == \A s \in Slots : pages[s].addr \in {0} \cup SlotPages(s)

Committing == pc \in {"ack", "old_proof"}

\* A page is in one slot, and nothing is encrypted twice under one address and IV.
HeldOnce == \A s, t \in Slots : Live(s) /\ Live(t) /\ pages[s].addr = pages[t].addr
                                    => s = t \/ pages[s].addr = 0
IvsOnce == \A c, d \in sealed : c.addr = d.addr /\ c.iv = d.iv => c.val = d.val

\* Where the device is, and what its locals say there.
FrameInv ==
    /\ pc \notin {"run", "stopped"} =>
          /\ Slot \in Slots
          /\ frame.op \in Ops
          /\ frame.addr \in SlotPages(Slot)
          /\ frame.op = "write" => Writeable
    /\ pc = "run" => frame = NoFrame
    /\ pc \in {"run", "access", "evict"} => ~loading
    /\ pc \in {"create", "page", "hmac", "proof"} => loading
    /\ pc = "access" => pages[Slot].addr = frame.addr
    /\ pc \in {"page", "hmac", "proof"} => frame.limit = 0
    /\ Committing /\ ~loading => Writeable /\ pages[Slot].addr # 0
    /\ Committing /\ loading =>
          /\ frame.limit # 0 /\ frame.cursor < frame.limit
          /\ pages[Slot] = [addr |-> frame.cursor, val |-> Zero, iv |-> 1]

\* During a fault the page asked for is in no slot.
MissInv ==
    pc \notin {"run", "access", "stopped"} =>
        \A s \in Slots : Live(s) => pages[s].addr # frame.addr

\* The range of pages create_empty_pages has to create, and how far it is.
GrowthInv ==
    /\ pc \in {"evict", "run"} \/ (Committing /\ ~loading) => frame.cursor = 0
    /\ pc # "stopped" /\ loading =>
        \/ /\ frame.limit = 0 /\ frame.cursor = 0
           /\ Slot \in DataSlots => frame.addr < bss_max
           /\ Slot \in StackSlots => frame.addr >= stack_min
        \/ /\ Slot \in DataSlots
           /\ frame.limit = frame.addr + 1
           /\ bss_max =< frame.addr
           /\ bss_max =< frame.cursor /\ frame.cursor =< frame.limit
        \/ /\ Slot \in StackSlots
           /\ frame.limit = stack_min
           /\ frame.addr < stack_min
           /\ frame.addr =< frame.cursor /\ frame.cursor =< frame.limit
    /\ pc = "access" =>
        \/ frame.cursor = 0
        \/ Slot \in DataSlots /\ frame.cursor = bss_max
        \/ Slot \in StackSlots /\ stack_min = frame.addr /\ frame.cursor =< StackEnd

\* The pages that exist: those below bss_max and above stack_min, and those the
\* loop in progress has created.
Created(a) ==
    IF a \in DataPages
    THEN a < bss_max \/ (Slot \in DataSlots /\ a < frame.cursor)
    ELSE a >= stack_min \/ (Slot \in StackSlots /\ frame.addr =< a /\ a < frame.cursor)

TreeInv == pc # "stopped" => \A a \in WritePages : root[a] # None <=> Created(a)

\* A slot in use carries the counter of its leaf, plus one during its commit.
Ahead(s) == IF Committing /\ s = Slot THEN 1 ELSE 0
CounterInv ==
    pc # "stopped" =>
        \A s \in Slots \ CodeSlots : Live(s) /\ pages[s].addr # 0 =>
            /\ root[pages[s].addr] # None
            /\ pages[s].iv = root[pages[s].addr] + Ahead(s)

\* Nothing was encrypted beyond the counter of its leaf, but the commit under way.
InFlight == encrypt_page(pages[Slot].addr, pages[Slot].iv, pages[Slot].val)
SealedInv ==
    pc # "stopped" =>
        /\ \A c \in sealed : c.iv =< root[c.addr] \/ (Committing /\ c = InFlight)
        /\ Committing => InFlight \in sealed

LastInv == pc # "stopped" => root[last_entry.addr] = last_entry.iv

\* A leaf with counter 0 is a page of the archive; any other was encrypted.
CoverInv ==
    \A a \in WritePages :
        /\ root[a] = 0 => a \in DataImage
        /\ root[a] > 0 => \E c \in sealed : c.addr = a /\ c.iv = root[a]

\* create_empty_pages got past the page asked for: it is a page of zeroes.
ZeroInv ==
    pc # "stopped" /\ loading /\ frame.limit # 0 /\ frame.cursor > frame.addr =>
        root[frame.addr] = 1 /\ encrypt_page(frame.addr, 1, Zero) \in sealed

\* No ciphertext is left in a slot in use, and code is what the archive has.
ValInv ==
    \A s \in Slots : Live(s) =>
        /\ pages[s].val \in Vals
        /\ s \in CodeSlots /\ pages[s].addr # 0 => pages[s].val = Image[pages[s].addr]

\* What a MAC guarantees: the page is the archive's, or one the device encrypted.
Authentic(p) ==
    \/ p.iv = 0 /\ p.addr \in CodePages \cup DataImage /\ p.val = Image[p.addr]
    \/ encrypt_page(p.addr, p.iv, p.val) \in sealed

RequestInv ==
    /\ pc = "hmac" =>
          /\ pages[Slot].addr = frame.addr
          /\ pages[Slot].val = IF frame.ct.iv = 0 THEN frame.ct.val ELSE Garbage
    /\ pc = "proof" =>
          Writeable /\ pages[Slot].addr = frame.addr /\ Authentic(pages[Slot])

IInv == /\ ~ignored
        /\ TypeInv /\ SlotsInSection /\ HeldOnce /\ IvsOnce
        /\ FrameInv /\ MissInv /\ GrowthInv /\ TreeInv /\ CounterInv
        /\ SealedInv /\ LastInv /\ CoverInv /\ ZeroInv /\ ValInv /\ RequestInv
-----------------------------------------------------------------------------
deviceVars == <<pages, bss_max, stack_min, root, last_entry, pc, frame, loading, sealed,
                ignored>>

\* What the device keeps is all the invariant is about.
LEMMA UnchangedIInv == IInv /\ UNCHANGED deviceVars => IInv'
  BY DEF deviceVars, IInv, TypeInv, SlotsInSection, HeldOnce, IvsOnce,
     FrameInv, MissInv, GrowthInv, TreeInv, CounterInv, SealedInv, LastInv,
     CoverInv, ZeroInv, ValInv, RequestInv, Authentic, Live, Slot, Writeable, Committing, Created, Ahead, InFlight, SlotPages

\* The sections are sets of non-zero page numbers and do not overlap.
LEMMA Layout ==
    /\ CodePages \subseteq Nat /\ DataPages \subseteq Nat /\ StackPages \subseteq Nat
    /\ {0} \cup CodePages \cup WritePages \subseteq Nat
    /\ 0 \notin CodePages /\ 0 \notin WritePages
    /\ \A s \in Slots : SlotPages(s) \subseteq Nat /\ 0 \notin SlotPages(s)
    /\ \A s \in Slots \ CodeSlots : SlotPages(s) \subseteq WritePages
    /\ Bss - 1 \in DataImage /\ DataImage \subseteq DataPages
  BY LayoutAssumption, SlotAssumption
     DEF CodePages, DataPages, StackPages, WritePages, SlotPages, Slots, DataImage

LEMMA InitIInv == Init => IInv
<1> SUFFICES ASSUME Init PROVE IInv
  OBVIOUS
<1> USE DEF Init, FreePage
<1>1. TypeInv
  <2>1. pages \in [Slots -> PageRecs]
    BY DataAssumption DEF PageRecs, IVs
  <2>2. root \in Trees /\ last_entry \in [addr : WritePages, iv : IVs]
    BY Layout, DataAssumption DEF Trees, InitTree, IVs, Entry, WritePages, None
  <2>3. frame \in Frames
    BY DataAssumption DEF NoFrame, Frames, Plain
  <2>4. loading \in BOOLEAN
    BY Zenon
  <2>5. bss_max \in Bss .. DataEnd /\ stack_min \in StackStart .. StackEnd
    BY LayoutAssumption
  <2> QED
    BY <2>1, <2>2, <2>3, <2>4, <2>5, Zenon DEF TypeInv, Pcs
<1>2. SlotsInSection /\ HeldOnce /\ IvsOnce
  BY DEF SlotsInSection, HeldOnce, IvsOnce
<1>3. FrameInv /\ MissInv /\ GrowthInv
  BY DEF FrameInv, MissInv, GrowthInv, Committing, NoFrame
<1>4. TreeInv
  BY Layout, LayoutAssumption
     DEF TreeInv, InitTree, None, Created, NoFrame, WritePages, DataPages, StackPages,
         DataImage
<1>5. CounterInv /\ SealedInv /\ LastInv
  BY Layout DEF CounterInv, SealedInv, LastInv, Committing, InitTree, Entry, WritePages
<1>6. CoverInv
  BY DataAssumption, Layout DEF CoverInv, InitTree, None
<1>7. ZeroInv /\ ValInv /\ RequestInv
  BY DataAssumption DEF ZeroInv, ValInv, RequestInv
<1> QED
  BY <1>1, <1>2, <1>3, <1>4, <1>5, <1>6, <1>7 DEF IInv
-----------------------------------------------------------------------------
(* One lemma per action of the device.  Typing says what the record fields   *)
(* are, in the form the arithmetic needs.                                     *)

LEMMA Typing ==
    ASSUME TypeInv
    PROVE  /\ \A s \in Slots : /\ pages[s] = [addr |-> pages[s].addr, val |-> pages[s].val,
                                              iv |-> pages[s].iv]
                               /\ pages[s].addr \in Nat /\ pages[s].iv \in IVs
                               /\ pages[s].val \in Vals \cup {Garbage}
           /\ frame.addr \in Nat /\ frame.cursor \in Nat /\ frame.limit \in Nat
           /\ frame.val \in Vals
           /\ bss_max \in Nat /\ stack_min \in Nat
           /\ \A a \in WritePages : root[a] \in Int
<1>1. ASSUME NEW s \in Slots
      PROVE  /\ pages[s] = [addr |-> pages[s].addr, val |-> pages[s].val, iv |-> pages[s].iv]
             /\ pages[s].addr \in Nat /\ pages[s].iv \in IVs
             /\ pages[s].val \in Vals \cup {Garbage}
  <2>1. pages[s] \in PageRecs
    BY DEF TypeInv
  <2>2. pages[s] = [addr |-> pages[s].addr, val |-> pages[s].val, iv |-> pages[s].iv]
    BY <2>1 DEF PageRecs
  <2>3. /\ pages[s].addr \in {0} \cup CodePages \cup WritePages
        /\ pages[s].val \in Vals \cup {Garbage} /\ pages[s].iv \in IVs
    BY <2>1 DEF PageRecs
  <2>4. pages[s].addr \in Nat
    BY <2>3, Layout, Zenon
  <2> QED
    BY <2>2, <2>3, <2>4, Zenon
<1>2. /\ frame.addr \in Nat /\ frame.cursor \in Nat /\ frame.limit \in Nat
      /\ frame.val \in Vals
  BY DEF TypeInv, Frames
<1>3. bss_max \in Nat /\ stack_min \in Nat
  BY LayoutAssumption DEF TypeInv
<1>4. \A a \in WritePages : root[a] \in Int
  BY DataAssumption DEF TypeInv, Trees, IVs, None
<1> QED
  BY <1>1, <1>2, <1>3, <1>4

\* A step that stops the app without touching a live slot.
LEMMA StopIInv ==
    ASSUME IInv, ~ignored', pc' = "stopped",
           UNCHANGED <<bss_max, stack_min, root, last_entry, frame, loading, sealed>>,
           pages' = pages \/ (/\ loading
                              /\ pages' \in [Slots -> PageRecs]
                              /\ \A s \in Slots : s # Slot => pages'[s] = pages[s]
                              /\ \A s \in Slots : pages'[s].addr \in {0} \cup SlotPages(s))
    PROVE  IInv'
<1> USE DEF IInv
<1>1. TypeInv'
  BY DEF TypeInv, Pcs
<1>2. SlotsInSection' /\ IvsOnce'
  BY DEF SlotsInSection, IvsOnce, SlotPages
<1>3. HeldOnce'
  BY DEF HeldOnce, Live, Slot
<1>4. /\ FrameInv' /\ MissInv' /\ GrowthInv' /\ TreeInv' /\ CounterInv' /\ SealedInv' /\ LastInv'
  BY DEF FrameInv, MissInv, GrowthInv, TreeInv, CounterInv, SealedInv, LastInv, Committing
<1>5. CoverInv' /\ ZeroInv' /\ RequestInv'
  BY DEF CoverInv, ZeroInv, RequestInv
<1>6. ValInv'
  BY DEF ValInv, Live, Slot
<1> QED
  BY <1>1, <1>2, <1>3, <1>4, <1>5, <1>6

\* The caches of get_cache are the slots of the page's section.
LEMMA CacheOfSection ==
    ASSUME NEW op \in Ops, NEW a, NEW s \in get_cache(op, a)
    PROVE  s \in Slots /\ a \in SlotPages(s) /\ (op = "write" => s \notin CodeSlots)
  BY LayoutAssumption, SlotAssumption
     DEF get_cache, SlotPages, Slots, WritePages, Ops

\* No slot of another section holds the page either.
LEMMA OnlyItsCache ==
    ASSUME IInv, NEW op \in Ops, NEW a, get_cache(op, a) # {},
           NEW s \in Slots, pages[s].addr = a
    PROVE  s \in get_cache(op, a)
  BY LayoutAssumption, SlotAssumption, Layout
     DEF IInv, SlotsInSection, get_cache, SlotPages, Slots, WritePages, Ops

\* A fault that fails half-way and is not ignored stops the app.
LEMMA FailStops ==
    ASSUME NEW e, Fail(e, TRUE), ~ignored'
    PROVE  Stop(e) /\ UNCHANGED <<frame, loading, ignored>>
  BY DEF Fail

\* A draw whose fault fails before anything is done leaves nothing behind.
LEMMA GoOnIInv ==
    ASSUME IInv, ~ignored', pc = "evict", pc' = "run", frame' = NoFrame, loading' = FALSE,
           UNCHANGED <<pages, bss_max, stack_min, root, last_entry, sealed>>
    PROVE  IInv'
<1>1. ~loading /\ frame.cursor = 0
  BY DEF IInv, FrameInv, GrowthInv
<1>2. frame'.cursor = 0 /\ frame' \in Frames
  BY DataAssumption DEF NoFrame, Frames, Plain
<1>3. TypeInv' /\ SlotsInSection' /\ IvsOnce'
  BY <1>2 DEF IInv, TypeInv, Pcs, SlotsInSection, IvsOnce, SlotPages
<1>4. HeldOnce' /\ ValInv'
  BY <1>1 DEF IInv, HeldOnce, ValInv, Live
<1>5. FrameInv' /\ MissInv' /\ GrowthInv'
  BY <1>2 DEF FrameInv, MissInv, GrowthInv, Committing
<1>6. TreeInv'
  <2>1. \A b \in WritePages : Created(b)' <=> Created(b)
    BY <1>1, <1>2, Layout DEF Created, WritePages
  <2> QED
    BY <2>1 DEF IInv, TreeInv
<1>7. CounterInv' /\ SealedInv' /\ LastInv'
  BY <1>1 DEF IInv, CounterInv, SealedInv, LastInv, Committing, Live, Ahead
<1>8. CoverInv' /\ ZeroInv' /\ RequestInv'
  BY DEF IInv, CoverInv, ZeroInv, RequestInv
<1> QED
  BY <1>3, <1>4, <1>5, <1>6, <1>7, <1>8 DEF IInv

LEMMA LookupIInv ==
    ASSUME IInv, ~ignored', NEW op \in Ops, NEW a \in Nat, NEW v \in Vals, Lookup(op, a, v)
    PROVE  IInv'
<1> DEFINE cache == get_cache(op, a)
           called(s) == [NoFrame EXCEPT !.op = op, !.addr = a, !.val = v, !.slot = s]
<1>0. ~ignored
  BY DEF IInv
<1>1. CASE Stop(InvalidAccess(op)) /\ UNCHANGED frame
  BY <1>1, StopIInv DEF Lookup, Stop, treeVars, memVars
<1>5. CASE UNCHANGED <<pc, frame>>
  BY <1>5, UnchangedIInv DEF Lookup, deviceVars, memVars, treeVars
<1>2. ASSUME NEW s \in cache, frame' = called(s), pc' \in {"access", "evict"},
             pc' = "access" => pages[s].addr = a,
             pc' = "evict" => find_page(cache, a) = {}
      PROVE  IInv'
  <2>1. s \in Slots /\ a \in SlotPages(s) /\ (op = "write" => s \notin CodeSlots)
    BY CacheOfSection
  <2>2. /\ frame'.op = op /\ frame'.addr = a /\ frame'.val = v /\ frame'.slot = s
        /\ frame'.cursor = 0 /\ frame'.limit = 0
        /\ frame' \in Frames
    BY <1>2, <2>1, DataAssumption DEF NoFrame, Frames, Plain
  <2>3. UNCHANGED <<pages, bss_max, stack_min, root, last_entry, loading, sealed>>
    BY DEF Lookup, memVars, treeVars
  <2>4. pc = "run" /\ loading = FALSE /\ loading' = FALSE
    BY <2>3 DEF Lookup, IInv, FrameInv, TypeInv
  <2>5. TypeInv' /\ SlotsInSection' /\ IvsOnce'
    BY <1>2, <2>2, <2>3 DEF IInv, TypeInv, SlotsInSection, IvsOnce, SlotPages, Pcs
  <2>6. HeldOnce'
    BY <2>3, <2>4 DEF IInv, HeldOnce, Live
  <2>7. FrameInv'
    BY <1>2, <2>1, <2>2, <2>3, <2>4 DEF FrameInv, Committing, Slot, Writeable, SlotPages
  <2>8. MissInv'
    BY <1>2, <2>2, <2>3, <2>4, OnlyItsCache DEF MissInv, find_page
  <2>9. GrowthInv'
    BY <1>2, <2>2, <2>4 DEF GrowthInv
  <2>10. TreeInv'
    <3>1. \A b \in WritePages : root[b] # None <=> Created(b)
      BY <2>4 DEF IInv, TreeInv
    <3>2. \A b \in WritePages : Created(b)' <=> Created(b)
      <4>1. frame.cursor = 0
        BY <2>4 DEF IInv, GrowthInv
      <4> QED
        BY <4>1, <2>2, <2>3, Layout DEF Created, WritePages
    <3> QED
      BY <3>1, <3>2, <2>3 DEF TreeInv
  <2>11. CounterInv' /\ SealedInv' /\ LastInv'
    BY <1>2, <2>3, <2>4
       DEF IInv, CounterInv, SealedInv, LastInv, Committing, Live, Ahead
  <2>12. CoverInv' /\ ZeroInv' /\ RequestInv'
    BY <1>2, <2>3, <2>4 DEF IInv, CoverInv, ZeroInv, RequestInv
  <2>13. ValInv'
    BY <2>3, <2>4 DEF IInv, ValInv, Live
  <2> QED
    BY <2>5, <2>6, <2>7, <2>8, <2>9, <2>10, <2>11, <2>12, <2>13 DEF IInv
<1>3. CASE /\ find_page(cache, a) # {}
           /\ \E s \in find_page(cache, a) : frame' = called(s)
           /\ pc' = "access"
  BY <1>2, <1>3 DEF find_page
<1>4. CASE /\ find_page(cache, a) = {} /\ cache # {}
           /\ \E s \in evict_page(cache) : frame' = called(s)
           /\ pc' = "evict"
  BY <1>0, <1>2, <1>4 DEF find_page, evict_page
<1> QED
  BY <1>0, <1>1, <1>3, <1>4, <1>5 DEF Lookup, Missed, find_page, evict_page

LEMMA ExitIInv == ASSUME IInv, ~ignored', Exit PROVE IInv'
  BY StopIInv DEF Exit, Stop, memVars, treeVars

LEMMA InvalidApduIInv == ASSUME IInv, ~ignored', InvalidApdu PROVE IInv'
  BY FailStops, StopIInv DEF InvalidApdu, Stop, memVars, treeVars

LEMMA AccessIInv == ASSUME IInv, ~ignored', Access PROVE IInv'
<1>1. /\ pc = "access" /\ pc' = "run" /\ frame' = NoFrame
      /\ ~loading /\ ~loading' /\ Slot \in Slots /\ frame.addr \in SlotPages(Slot)
      /\ frame.op = "write" => Slot \notin CodeSlots
      /\ UNCHANGED <<bss_max, stack_min, root, last_entry, loading, sealed>>
  BY DEF IInv, FrameInv, Access, memVars, treeVars, Writeable
<1>2. /\ pages' \in [Slots -> PageRecs]
      /\ \A s \in Slots : /\ pages'[s].addr = pages[s].addr /\ pages'[s].iv = pages[s].iv
                          /\ pages'[s].val \in {pages[s].val, frame.val}
                          /\ s \in CodeSlots => pages'[s].val = pages[s].val
  <2>1. CASE pages' = pages
    BY <2>1 DEF IInv, TypeInv
  <2>2. CASE /\ pages' = [pages EXCEPT ![Slot].val = frame.val]
             /\ frame.op = "write"
    <3>1. pages[Slot] \in PageRecs /\ pages \in [Slots -> PageRecs] /\ frame.val \in Vals
      BY <1>1, Typing DEF IInv, TypeInv
    <3>2. [pages[Slot] EXCEPT !.val = frame.val] \in PageRecs
      BY <3>1 DEF PageRecs
    <3> QED
      BY <1>1, <2>2, <3>1, <3>2 DEF PageRecs
  <2> QED
    BY <2>1, <2>2 DEF Access
<1>3. /\ frame'.cursor = 0 /\ frame' \in Frames
      /\ frame'.addr = 0
  BY <1>1, DataAssumption DEF NoFrame, Frames, Plain
<1>4. TypeInv'
  BY <1>1, <1>2, <1>3 DEF IInv, TypeInv, Pcs
<1>5. SlotsInSection' /\ IvsOnce'
  BY <1>1, <1>2 DEF IInv, SlotsInSection, IvsOnce, SlotPages
<1>6. HeldOnce'
  BY <1>1, <1>2 DEF IInv, HeldOnce, Live
<1>7. FrameInv' /\ MissInv' /\ GrowthInv'
  BY <1>1, <1>3 DEF FrameInv, MissInv, GrowthInv, Committing
<1>8. TreeInv'
  <2>1. \A b \in WritePages : Created(b)' <=> Created(b)
    <3>1. \/ frame.cursor = 0
          \/ Slot \in DataSlots /\ frame.cursor = bss_max
          \/ Slot \in StackSlots /\ stack_min = frame.addr
      BY <1>1 DEF IInv, GrowthInv
    <3>2. ASSUME NEW b \in WritePages
          PROVE  Created(b)' <=> (IF b \in DataPages THEN b < bss_max ELSE b >= stack_min)
      BY <1>1, <1>3, Layout DEF Created
    <3>3. ASSUME NEW b \in WritePages
          PROVE  Created(b) <=> (IF b \in DataPages THEN b < bss_max ELSE b >= stack_min)
      <4>1. b \in Nat
        BY Layout
      <4>2. CASE frame.cursor = 0
        BY <4>1, <4>2 DEF Created
      <4>3. CASE Slot \in DataSlots /\ frame.cursor = bss_max
        BY <4>3, SlotAssumption DEF Created
      <4>4. CASE Slot \in StackSlots /\ stack_min = frame.addr
        BY <4>4, SlotAssumption DEF Created
      <4> QED
        BY <3>1, <4>2, <4>3, <4>4
    <3> QED
      BY <3>2, <3>3
  <2> QED
    BY <1>1, <2>1 DEF IInv, TreeInv
<1>9. CounterInv' /\ SealedInv' /\ LastInv'
  BY <1>1, <1>2 DEF IInv, CounterInv, SealedInv, LastInv, Committing, Live, Ahead
<1>10. CoverInv' /\ ZeroInv' /\ RequestInv'
  BY <1>1 DEF IInv, CoverInv, ZeroInv, RequestInv
<1>11. ValInv'
  BY <1>1, <1>2, Typing DEF IInv, ValInv, Live
<1> QED
  BY <1>4, <1>5, <1>6, <1>7, <1>8, <1>9, <1>10, <1>11 DEF IInv

\* The victim's slot is handed over to the page asked for.  The counters are
\* those of the tree after the victim's commit, if there was one.
LEMMA RefillIInv ==
    ASSUME IInv, ~ignored', Refill, UNCHANGED <<pages, bss_max, stack_min, sealed>>,
           ~loading, pc = "evict" \/ Committing,
           root' \in Trees, last_entry' \in [addr : WritePages, iv : IVs],
           root'[last_entry'.addr] = last_entry'.iv,
           \A a \in WritePages : root'[a] = None <=> root[a] = None,
           \A a \in WritePages : (\E s \in Slots : s # Slot /\ pages[s].addr = a)
                                    => root'[a] = root[a],
           \A c \in sealed : c.iv =< root'[c.addr],
           CoverInv'
    PROVE  IInv'
<1>1. /\ Slot \in Slots /\ frame.addr \in SlotPages(Slot) /\ frame.op \in Ops
      /\ frame.op = "write" => Writeable
      /\ pc # "stopped" /\ pc # "run" /\ pc # "access"
      /\ frame.cursor = 0
  BY DEF IInv, FrameInv, GrowthInv, Committing
<1> DEFINE g == Growth(Slot, frame.addr)
<1>2. g.from \in Nat /\ g.to \in Nat
  BY <1>1, Typing DEF IInv, Growth
<1>3. /\ pc' = "create" /\ loading' = TRUE
      /\ frame' \in Frames
      /\ frame'.slot = frame.slot /\ frame'.addr = frame.addr /\ frame'.op = frame.op
      /\ frame'.cursor = g.from /\ frame'.limit = g.to
  <2>1. frame' = [frame EXCEPT !.cursor = g.from, !.limit = g.to] /\ frame \in Frames
    BY DEF Refill, IInv, TypeInv
  <2> QED
    BY <1>2, <2>1 DEF Frames, Refill
<1>4. TypeInv'
  BY <1>3 DEF IInv, TypeInv, Pcs
<1>5. SlotsInSection' /\ IvsOnce'
  BY DEF IInv, SlotsInSection, IvsOnce, SlotPages
<1>6. HeldOnce'
  BY <1>3 DEF IInv, HeldOnce, Live, Slot
<1>7. FrameInv'
  BY <1>1, <1>3 DEF FrameInv, Committing, Slot, Writeable, SlotPages
<1>8. MissInv'
  BY <1>1, <1>3 DEF IInv, MissInv, Live, Slot
<1>9. /\ Slot \in DataSlots => frame.addr \in DataPages
      /\ Slot \in StackSlots => frame.addr \in StackPages
      /\ Slot \in DataSlots => Slot \notin StackSlots
  BY <1>1, SlotAssumption DEF SlotPages
<1>10. GrowthInv'
  BY <1>1, <1>3, <1>9, Typing, LayoutAssumption
     DEF IInv, GrowthInv, Growth, Slot, Committing, DataPages
<1>11. TreeInv'
  <2>1. \A a \in WritePages : root[a] # None <=> Created(a)
    BY <1>1 DEF IInv, TreeInv
  <2>2. \A a \in WritePages : Created(a)' <=> Created(a)
    <3>1. TAKE a \in WritePages
    <3>2. a \in Nat /\ bss_max \in Nat /\ stack_min \in Nat /\ frame.addr \in Nat
      BY Typing, Layout DEF IInv
    <3>3. /\ Slot \in DataSlots => frame'.cursor \in {0, bss_max}
          /\ Slot \in StackSlots => frame'.cursor \in {0, frame.addr}
      BY <1>3, <1>9 DEF Growth
    <3> QED
      BY <1>1, <1>3, <3>2, <3>3 DEF Created, Slot
  <2> QED
    BY <1>3, <2>1, <2>2 DEF TreeInv
<1>12. CounterInv'
  BY <1>1, <1>3, Layout DEF IInv, CounterInv, Committing, Live, Ahead, Slot, SlotsInSection
<1>13. SealedInv' /\ LastInv'
  BY <1>3 DEF SealedInv, LastInv, Committing
<1>14. ZeroInv' /\ RequestInv'
  BY <1>3, <1>9, Typing DEF IInv, ZeroInv, RequestInv, Growth
<1>15. ValInv'
  BY <1>3 DEF IInv, ValInv, Live, Slot
<1> QED
  BY <1>4, <1>5, <1>6, <1>7, <1>8, <1>10, <1>11, <1>12, <1>13, <1>14, <1>15 DEF IInv

LEMMA EvictIInv == ASSUME IInv, ~ignored', Evict PROVE IInv'
<1>1. /\ pc = "evict" /\ ~loading /\ Slot \in Slots /\ frame.addr \in SlotPages(Slot)
      /\ frame.op \in Ops /\ (frame.op = "write" => Writeable)
      /\ frame.cursor = 0
  BY DEF IInv, FrameInv, Evict, GrowthInv
<1> DEFINE p == pages[Slot]
<1>2. CASE ~(Writeable /\ p.addr # 0)
  BY <1>1, <1>2, RefillIInv
     DEF Evict, IInv, TypeInv, LastInv, SealedInv, CoverInv, Committing, memVars, treeVars
<1>3. CASE Writeable /\ p.addr # 0 /\ p.iv = MAX_IV
  <2>1. pages' = [pages EXCEPT ![Slot] = p] /\ pages \in [Slots -> PageRecs]
    BY <1>2, <1>3 DEF Evict, CommitPage, IInv, TypeInv
  <2>2. pages' = pages
    BY <2>1, <1>1
  <2>3. Fail("iv_reuse", FALSE) /\ UNCHANGED <<bss_max, stack_min, root, last_entry, sealed>>
    BY <1>1, <1>3 DEF Evict, CommitPage, memVars, treeVars
  <2>4. CASE Stop("iv_reuse") /\ UNCHANGED <<frame, loading>>
    BY <2>2, <2>3, <2>4, StopIInv DEF Stop
  <2>5. CASE pc' = "run" /\ frame' = NoFrame /\ loading' = FALSE
    BY <1>1, <2>2, <2>3, <2>5, GoOnIInv
  <2> QED
    BY <2>3, <2>4, <2>5 DEF Fail
<1>4. CASE Writeable /\ p.addr # 0 /\ p.iv # MAX_IV
  <2> DEFINE ct == encrypt_page(p.addr, p.iv + 1, p.val)
  <2>1. /\ pages' = [pages EXCEPT ![Slot] = [p EXCEPT !.iv = @ + 1]]
        /\ sealed' = sealed \cup {ct}
        /\ pc' = "ack"
        /\ UNCHANGED <<bss_max, stack_min, root, last_entry, frame, loading>>
    BY <1>4 DEF Evict, CommitPage, memVars, treeVars
  <2>2. /\ p \in PageRecs /\ p.iv \in Nat /\ p.iv + 1 \in IVs \ {0} /\ p.val \in Vals
        /\ p.addr \in WritePages
        /\ p = [addr |-> p.addr, val |-> p.val, iv |-> p.iv]
    <3>1. p.val \in Vals
      BY <1>1 DEF IInv, ValInv, Live
    <3>2. p.addr \in WritePages
      BY <1>1, <1>4, Layout DEF IInv, SlotsInSection, Writeable
    <3>3. p \in PageRecs /\ p.iv \in IVs
      BY <1>1, Typing DEF IInv, TypeInv
    <3> QED
      BY <1>1, <1>4, <3>1, <3>2, <3>3, Typing, DataAssumption DEF IInv, IVs
  <2>3. /\ pages'[Slot].addr = p.addr /\ pages'[Slot].val = p.val
        /\ pages'[Slot].iv = p.iv + 1
        /\ \A s \in Slots : s # Slot => pages'[s] = pages[s]
        /\ pages' \in [Slots -> PageRecs]
    <3>1. [p EXCEPT !.iv = @ + 1] \in PageRecs
      BY <2>2 DEF PageRecs
    <3>2. pages \in [Slots -> PageRecs]
      BY DEF IInv, TypeInv
    <3> QED
      BY <1>1, <2>1, <2>2, <3>1, <3>2 DEF PageRecs
  <2>4. ct \in SealedPages
    BY <2>2 DEF encrypt_page, SealedPages
  <2>5. ~Committing /\ Committing'
    BY <1>1, <2>1 DEF Committing
  <2>6. \A s \in Slots : pages'[s].addr = pages[s].addr /\ pages'[s].val = pages[s].val
    BY <2>3
  <2>7. root[p.addr] = p.iv /\ root[p.addr] # None
    <3>1. root[p.addr] # None /\ p.iv = root[p.addr] + 0
      BY <1>1, <1>4, <2>5 DEF IInv, CounterInv, Live, Ahead, Writeable
    <3>2. root[p.addr] \in Int
      BY <2>2, Typing DEF IInv
    <3> QED
      BY <3>1, <3>2
  <2>8. TypeInv'
    BY <2>1, <2>3, <2>4 DEF IInv, TypeInv, Pcs
  <2>9. SlotsInSection' /\ HeldOnce'
    BY <1>1, <2>1, <2>6
       DEF IInv, SlotsInSection, HeldOnce, Live, Slot, SlotPages
  <2>10. IvsOnce'
    <3>1. \A c \in sealed : c.addr = ct.addr => c.iv # ct.iv
      BY <1>1, <2>2, <2>5, <2>7, Typing
         DEF IInv, SealedInv, encrypt_page, TypeInv, SealedPages, IVs
    <3> QED
      BY <2>1, <3>1 DEF IInv, IvsOnce
  <2>11. FrameInv' /\ GrowthInv'
    BY <1>1, <1>4, <2>1, <2>6 DEF IInv, FrameInv, GrowthInv, Committing, Slot, Writeable, SlotPages
  <2>12. MissInv'
    BY <1>1, <2>1, <2>6 DEF IInv, MissInv, Live, Slot
  <2>13. TreeInv' /\ LastInv'
    BY <1>1, <2>1 DEF IInv, TreeInv, LastInv, Created, Slot
  <2>14. CounterInv'
    <3>1. ASSUME NEW s \in Slots \ CodeSlots, pages'[s].addr # 0
          PROVE  root[pages'[s].addr] # None /\ pages'[s].iv = root[pages'[s].addr] + Ahead(s)'
      <4>1. CASE s = Slot
        BY <2>1, <2>3, <2>5, <2>7, <4>1 DEF Ahead, Slot
      <4>2. CASE s # Slot
        BY <1>1, <2>1, <2>3, <2>5, <3>1, <4>2 DEF IInv, CounterInv, Ahead, Slot, Live
      <4> QED
        BY <4>1, <4>2
    <3> QED
      BY <2>1, <3>1 DEF CounterInv
  <2>15. SealedInv'
    <3>1. InFlight' = ct
      BY <2>1, <2>3 DEF InFlight, Slot, encrypt_page
    <3> QED
      BY <1>1, <2>1, <2>5, <3>1 DEF IInv, SealedInv
  <2>16. CoverInv' /\ ZeroInv' /\ RequestInv'
    BY <1>1, <2>1 DEF IInv, CoverInv, ZeroInv, RequestInv
  <2>17. ValInv'
    BY <1>1, <2>1, <2>6 DEF IInv, ValInv, Live, Slot
  <2> QED
    BY <2>8, <2>9, <2>10, <2>11, <2>12, <2>13, <2>14, <2>15, <2>16, <2>17 DEF IInv
<1> QED
  BY <1>2, <1>3, <1>4

LEMMA CommitHmacIInv == ASSUME IInv, ~ignored', CommitHmac PROVE IInv'
<1>1. /\ pc = "ack" /\ pc' = "old_proof"
      /\ UNCHANGED <<pages, bss_max, stack_min, root, last_entry, frame, loading, sealed>>
  BY DEF CommitHmac, Waiting, memVars, treeVars
<1>2. Committing /\ Committing' /\ (Committing' <=> Committing)
  BY <1>1 DEF Committing
<1>3. TypeInv' /\ SlotsInSection' /\ HeldOnce' /\ IvsOnce'
  BY <1>1 DEF IInv, TypeInv, SlotsInSection, HeldOnce, IvsOnce, Pcs, Live, Slot, SlotPages
<1>4. FrameInv' /\ MissInv'
  BY <1>1, <1>2 DEF IInv, FrameInv, MissInv, Live, Slot, Writeable, SlotPages
<1>5. GrowthInv'
  BY <1>1, <1>2 DEF IInv, GrowthInv, Slot
<1>6. TreeInv' /\ LastInv' /\ CoverInv' /\ ZeroInv' /\ RequestInv' /\ ValInv'
  BY <1>1 DEF IInv, TreeInv, LastInv, CoverInv, ZeroInv, RequestInv, ValInv, Live, Slot, Created
<1>7. CounterInv' /\ SealedInv'
  BY <1>1, <1>2 DEF IInv, CounterInv, SealedInv, Live, Slot, Ahead, InFlight
<1> QED
  BY <1>3, <1>4, <1>5, <1>6, <1>7 DEF IInv

\* While create_empty_pages runs, its cursor is a page of the section that is not
\* in the tree yet.
LEMMA CursorIsFresh ==
    ASSUME IInv, pc # "stopped", loading, frame.limit # 0, frame.cursor < frame.limit,
           Slot \in Slots, frame.addr \in SlotPages(Slot)
    PROVE  /\ frame.cursor \in SlotPages(Slot) /\ frame.cursor \in WritePages
           /\ Slot \notin CodeSlots
           /\ root[frame.cursor] = None
           /\ Slot \in DataSlots => frame.cursor \in DataPages /\ Slot \notin StackSlots
           /\ Slot \in StackSlots => frame.cursor \in StackPages /\ frame.cursor \notin DataPages
           /\ frame.addr =< frame.cursor \/ Slot \in DataSlots
<1> DEFINE b == frame.cursor
<1>1. /\ b \in Nat /\ frame.addr \in Nat /\ bss_max \in Nat /\ stack_min \in Nat
      /\ stack_min \in StackStart .. StackEnd /\ bss_max \in Bss .. DataEnd
  BY Typing DEF IInv, TypeInv
<1>2. CASE Slot \in DataSlots
  <2>1. bss_max =< b /\ b =< frame.addr /\ frame.addr \in DataPages
        /\ Slot \notin CodeSlots /\ Slot \notin StackSlots
    BY <1>1, <1>2, SlotAssumption DEF IInv, GrowthInv, SlotPages
  <2>2. b \in DataPages /\ b \in SlotPages(Slot)
    BY <1>1, <1>2, <2>1, LayoutAssumption DEF DataPages, SlotPages
  <2>3. ~Created(b) /\ b \in WritePages
    BY <1>1, <2>1, <2>2 DEF Created, WritePages
  <2> QED
    BY <1>2, <2>1, <2>2, <2>3 DEF IInv, TreeInv
<1>3. CASE Slot \notin DataSlots
  <2>1. /\ Slot \in StackSlots /\ frame.addr =< b /\ b < stack_min /\ frame.addr \in StackPages
        /\ Slot \notin CodeSlots
    BY <1>1, <1>3, SlotAssumption DEF IInv, GrowthInv, SlotPages
  <2>2. b \in StackPages /\ b \in SlotPages(Slot) /\ b \notin DataPages
    BY <1>1, <1>3, <2>1, LayoutAssumption DEF StackPages, SlotPages
  <2>3. ~Created(b) /\ b \in WritePages
    BY <1>1, <2>1, <2>2 DEF Created, WritePages
  <2> QED
    BY <1>3, <2>1, <2>2, <2>3 DEF IInv, TreeInv
<1> QED
  BY <1>2, <1>3

LEMMA CreateEmptyPageIInv == ASSUME IInv, ~ignored', CreateEmptyPage PROVE IInv'
<1> DEFINE b == frame.cursor
           ct == encrypt_page(b, 1, Zero)
<1>1. /\ pc = "create" /\ loading /\ Slot \in Slots /\ frame.addr \in SlotPages(Slot)
      /\ frame.op \in Ops /\ (frame.op = "write" => Writeable)
      /\ b \in Nat /\ frame.limit \in Nat /\ b < frame.limit /\ frame.limit # 0
  BY Typing DEF IInv, FrameInv, CreateEmptyPage
<1>2. /\ b \in SlotPages(Slot) /\ b \in WritePages /\ Slot \notin CodeSlots
      /\ root[b] = None
  BY <1>1, CursorIsFresh
<1>3. /\ pages' = [pages EXCEPT ![Slot] = [addr |-> b, val |-> Zero, iv |-> 1]]
      /\ sealed' = sealed \cup {ct}
      /\ pc' = "ack"
      /\ UNCHANGED <<bss_max, stack_min, root, last_entry, frame, loading>>
  <2>1. 0 # MAX_IV
    BY DataAssumption
  <2> QED
    BY <2>1 DEF CreateEmptyPage, CommitPage, memVars, treeVars
<1>4. /\ pages'[Slot] = [addr |-> b, val |-> Zero, iv |-> 1]
      /\ \A s \in Slots : s # Slot => pages'[s] = pages[s]
      /\ pages' \in [Slots -> PageRecs]
  <2>1. [addr |-> b, val |-> Zero, iv |-> 1] \in PageRecs
    BY <1>2, DataAssumption DEF PageRecs, IVs
  <2>2. pages \in [Slots -> PageRecs]
    BY DEF IInv, TypeInv
  <2> QED
    BY <1>1, <1>3, <2>1, <2>2
<1>5. ct \in SealedPages
  BY <1>2, DataAssumption DEF encrypt_page, SealedPages, IVs
<1>6. ~Committing /\ Committing' /\ Slot' = Slot /\ loading'
  BY <1>1, <1>3 DEF Committing, Slot
<1>7. \A s \in Slots : Live(s)' <=> Live(s) /\ s # Slot
  BY <1>1, <1>6 DEF Live
<1>8. TypeInv'
  BY <1>3, <1>4, <1>5 DEF IInv, TypeInv, Pcs
<1>9. SlotsInSection'
  BY <1>2, <1>4 DEF IInv, SlotsInSection, SlotPages
<1>10. HeldOnce' /\ MissInv' /\ ValInv'
  BY <1>1, <1>3, <1>4, <1>7 DEF IInv, HeldOnce, MissInv, ValInv, SlotPages
<1>11. IvsOnce'
  <2>1. \A c \in sealed : c.addr # b
    BY <1>1, <1>2, <1>6 DEF IInv, SealedInv, TypeInv, SealedPages, IVs, None
  <2> QED
    BY <1>3, <2>1 DEF IInv, IvsOnce, encrypt_page
<1>12. FrameInv'
  <2>1. /\ Slot' \in Slots /\ frame'.op \in Ops /\ frame'.addr \in SlotPages(Slot')
        /\ frame'.op = "write" => Writeable'
    BY <1>1, <1>3, <1>6 DEF Writeable
  <2>2. pages'[Slot'] = [addr |-> frame'.cursor, val |-> Zero, iv |-> 1]
    BY <1>3, <1>4, <1>6
  <2>3. frame'.limit # 0 /\ frame'.cursor < frame'.limit
    BY <1>1, <1>3
  <2> QED
    BY <1>3, <1>6, <2>1, <2>2, <2>3 DEF FrameInv, SlotPages
<1>13. GrowthInv'
  BY <1>1, <1>3, <1>6 DEF IInv, GrowthInv, Committing
<1>14. TreeInv' /\ LastInv'
  BY <1>1, <1>3 DEF IInv, TreeInv, LastInv, Created, Slot
<1>15. CounterInv'
  BY <1>1, <1>3, <1>4, <1>6, <1>7 DEF IInv, CounterInv, Ahead
<1>16. SealedInv'
  <2>1. InFlight' = ct
    BY <1>4, <1>6 DEF InFlight, encrypt_page
  <2> QED
    BY <1>1, <1>3, <1>6, <2>1 DEF IInv, SealedInv
<1>17. CoverInv' /\ ZeroInv' /\ RequestInv'
  BY <1>1, <1>3 DEF IInv, CoverInv, ZeroInv, RequestInv
<1> QED
  BY <1>8, <1>9, <1>10, <1>11, <1>12, <1>13, <1>14, <1>15, <1>16, <1>17 DEF IInv

LEMMA UseZeroPageIInv == ASSUME IInv, ~ignored', UseZeroPage PROVE IInv'
<1>1. /\ pc = "create" /\ loading /\ Slot \in Slots /\ frame.addr \in SlotPages(Slot)
      /\ frame.op \in Ops /\ (frame.op = "write" => Writeable)
      /\ frame.cursor \in Nat /\ frame.limit \in Nat /\ frame.limit # 0
      /\ frame.cursor >= frame.limit /\ frame.addr \in Nat
      /\ bss_max \in Bss .. DataEnd /\ stack_min \in StackStart .. StackEnd
      /\ bss_max \in Nat /\ stack_min \in Nat
  BY Typing DEF IInv, FrameInv, UseZeroPage, ZeroPage, TypeInv
<1>2. /\ pages' = [pages EXCEPT ![Slot] = [addr |-> frame.addr, val |-> Zero, iv |-> 1]]
      /\ pc' = "access" /\ loading' = FALSE
      /\ UNCHANGED <<root, last_entry, frame, sealed>>
  BY DEF UseZeroPage, ZeroPage, treeVars
<1>3. /\ frame.cursor > frame.addr /\ frame.cursor = frame.limit
      /\ \/ /\ Slot \in DataSlots /\ frame.cursor = frame.addr + 1 /\ bss_max =< frame.addr
            /\ frame.addr \in DataPages /\ Slot \notin StackSlots
            /\ bss_max' = frame.addr + 1 /\ stack_min' = stack_min
         \/ /\ Slot \in StackSlots /\ frame.cursor = stack_min /\ frame.addr < stack_min
            /\ frame.addr \in StackPages /\ Slot \notin DataSlots
            /\ bss_max' = bss_max /\ stack_min' = frame.addr
  BY <1>1, SlotAssumption DEF IInv, GrowthInv, SlotPages, UseZeroPage, ZeroPage
<1>4. frame.addr \in WritePages /\ root[frame.addr] = 1 /\ root[frame.addr] # None
      /\ Slot \notin CodeSlots /\ frame.addr # 0
  BY <1>1, <1>3, SlotAssumption, Layout DEF IInv, ZeroInv, WritePages, None
<1>5. /\ pages'[Slot] = [addr |-> frame.addr, val |-> Zero, iv |-> 1]
      /\ \A s \in Slots : s # Slot => pages'[s] = pages[s]
      /\ pages' \in [Slots -> PageRecs]
  <2>1. [addr |-> frame.addr, val |-> Zero, iv |-> 1] \in PageRecs
    BY <1>4, DataAssumption DEF PageRecs, IVs
  <2>2. pages \in [Slots -> PageRecs]
    BY DEF IInv, TypeInv
  <2> QED
    BY <1>1, <1>2, <2>1, <2>2
<1>6. /\ Slot' = Slot /\ ~Committing /\ ~Committing'
      /\ \A s \in Slots : Live(s)' /\ (Live(s) <=> s # Slot)
  BY <1>1, <1>2 DEF Slot, Committing, Live
<1>7. bss_max' \in Bss .. DataEnd /\ stack_min' \in StackStart .. StackEnd
  BY <1>1, <1>3, LayoutAssumption DEF DataPages, StackPages
<1>8. TypeInv'
  <2>1. loading' \in BOOLEAN
    BY <1>2, Zenon
  <2> QED
    BY <1>2, <1>5, <1>7, <2>1 DEF IInv, TypeInv, Pcs
<1>9. SlotsInSection' /\ IvsOnce'
  BY <1>1, <1>2, <1>5 DEF IInv, SlotsInSection, IvsOnce, SlotPages
<1>10. HeldOnce'
  <2>1. \A s \in Slots : s # Slot => pages[s].addr # frame.addr
    BY <1>1, <1>6 DEF IInv, MissInv
  <2> QED
    BY <1>5, <1>6, <2>1 DEF IInv, HeldOnce
<1>11. FrameInv' /\ MissInv'
  <2>1. /\ Slot' \in Slots /\ frame'.op \in Ops /\ frame'.addr \in SlotPages(Slot')
        /\ frame'.op = "write" => Writeable'
    BY <1>1, <1>2, <1>6 DEF Writeable
  <2>2. pages'[Slot'].addr = frame'.addr
    BY <1>2, <1>5, <1>6
  <2> QED
    BY <1>2, <1>6, <2>1, <2>2 DEF FrameInv, MissInv, SlotPages
<1>12. GrowthInv'
  BY <1>1, <1>2, <1>3, <1>6, LayoutAssumption DEF GrowthInv, StackPages
<1>13. TreeInv'
  <2>1. \A a \in WritePages : Created(a)' <=> Created(a)
    <3>1. TAKE a \in WritePages
    <3>2. a \in Nat /\ (a \in StackPages => a \notin DataPages)
      BY Layout, LayoutAssumption
    <3> QED
      BY <1>1, <1>2, <1>3, <1>6, <3>2 DEF Created
  <2> QED
    BY <1>1, <1>2, <2>1 DEF IInv, TreeInv
<1>14. CounterInv'
  BY <1>1, <1>2, <1>4, <1>5, <1>6 DEF IInv, CounterInv, Ahead
<1>15. SealedInv' /\ LastInv'
  BY <1>1, <1>2, <1>6 DEF IInv, SealedInv, LastInv
<1>16. CoverInv' /\ ZeroInv' /\ RequestInv'
  BY <1>1, <1>2 DEF IInv, CoverInv, ZeroInv, RequestInv
<1>17. ValInv'
  BY <1>4, <1>5, <1>6, DataAssumption DEF IInv, ValInv
<1> QED
  BY <1>8, <1>9, <1>10, <1>11, <1>12, <1>13, <1>14, <1>15, <1>16, <1>17 DEF IInv

\* Replies are drawn from what the host can form, reliable or not.
LEMMA RepliesAreFormed == \A reply, any : Replies(reply, any) \subseteq any
  BY DEF Replies

\* proof_hash on a proof that merkle_verify_proof accepted is a change of the
\* root at the entry's address only.
LEMMA VerifiedProof ==
    ASSUME TypeInv, NEW e \in [addr : WritePages, iv : IVs], NEW proof \in Proofs,
           merkle_verify_proof(e, proof), NEW iv
    PROVE  /\ proof_hash(e, proof) = root
           /\ root[e.addr] = e.iv
           /\ proof_hash(Entry(e.addr, iv), proof) = [root EXCEPT ![e.addr] = iv]
<1>1. proof.tree \in Trees /\ root \in Trees /\ e.addr \in WritePages
  BY DEF Proofs, TypeInv
<1>2. root = [proof.tree EXCEPT ![e.addr] = e.iv]
  BY DEF merkle_verify_proof, proof_hash
<1>3. Entry(e.addr, iv).addr = e.addr /\ Entry(e.addr, iv).iv = iv
  BY DEF Entry
<1>4. [proof.tree EXCEPT ![e.addr] = iv] = [root EXCEPT ![e.addr] = iv]
  BY <1>1, <1>2 DEF Trees
<1> QED
  BY <1>1, <1>2, <1>3, <1>4 DEF Trees, proof_hash

LEMMA InsertIInv ==
    ASSUME IInv, ~ignored', pc = "old_proof", loading,
           root' = [root EXCEPT ![frame.cursor] = 1],
           last_entry' = Entry(frame.cursor, 1),
           frame' = [frame EXCEPT !.cursor = @ + 1], pc' = "create",
           UNCHANGED <<pages, bss_max, stack_min, loading, sealed>>
    PROVE  IInv'
<1> DEFINE b == frame.cursor
<1>1. /\ Slot \in Slots /\ frame.addr \in SlotPages(Slot) /\ frame.op \in Ops
      /\ frame.op = "write" => Writeable
      /\ frame.limit # 0 /\ b < frame.limit
      /\ pages[Slot] = [addr |-> b, val |-> Zero, iv |-> 1]
      /\ Committing /\ ~Committing' /\ pc # "stopped"
  BY DEF IInv, FrameInv, Committing
<1>2. /\ b \in Nat /\ frame.addr \in Nat /\ frame.limit \in Nat
      /\ bss_max \in Nat /\ stack_min \in Nat
      /\ \A a \in WritePages : root[a] \in Int
  BY Typing DEF IInv
<1>3. /\ b \in SlotPages(Slot) /\ b \in WritePages /\ Slot \notin CodeSlots
      /\ root[b] = None
      /\ Slot \in DataSlots => b \in DataPages /\ Slot \notin StackSlots
      /\ Slot \in StackSlots => b \in StackPages /\ b \notin DataPages
      /\ frame.addr =< b \/ Slot \in DataSlots
  BY <1>1, CursorIsFresh
<1>4. /\ frame'.slot = frame.slot /\ frame'.addr = frame.addr /\ frame'.op = frame.op
      /\ frame'.limit = frame.limit /\ frame'.cursor = b + 1
      /\ frame' \in Frames /\ Slot' = Slot
  BY <1>2 DEF IInv, TypeInv, Frames, Slot
<1>5. /\ root' \in Trees /\ root'[b] = 1
      /\ \A a \in WritePages : a # b => root'[a] = root[a]
  <2>1. 1 \in IVs /\ root \in Trees
    BY DataAssumption DEF IVs, IInv, TypeInv
  <2> QED
    BY <1>3, <2>1 DEF Trees
<1>6. last_entry' \in [addr : WritePages, iv : IVs] /\ last_entry'.addr = b /\ last_entry'.iv = 1
  BY <1>3, DataAssumption DEF Entry, IVs
<1>7. \A s \in Slots : Live(s)' <=> Live(s)
  BY <1>4 DEF Live
<1>8. \A s \in Slots : Live(s) <=> s # Slot
  BY <1>1 DEF Live
<1>9. TypeInv'
  BY <1>4, <1>5, <1>6 DEF IInv, TypeInv, Pcs
<1>10. SlotsInSection' /\ IvsOnce' /\ HeldOnce' /\ ValInv'
  BY <1>7 DEF IInv, SlotsInSection, IvsOnce, HeldOnce, ValInv, SlotPages
<1>11. FrameInv'
  BY <1>1, <1>4 DEF FrameInv, Committing, Writeable, SlotPages
<1>12. MissInv'
  BY <1>1, <1>4, <1>7 DEF IInv, MissInv
<1>13. GrowthInv'
  BY <1>1, <1>2, <1>4 DEF IInv, GrowthInv, Committing
<1>14. TreeInv'
  <2>1. SUFFICES ASSUME NEW a \in WritePages PROVE (root'[a] # None) <=> Created(a)'
    BY <1>4 DEF TreeInv
  <2>2. (root[a] # None) <=> Created(a)
    BY <1>1 DEF IInv, TreeInv
  <2>3. a \in Nat /\ 1 # None
    BY Layout DEF None
  <2>4. CASE a = b
    BY <1>1, <1>2, <1>3, <1>4, <1>5, <2>3, <2>4, SlotAssumption
       DEF Created, Slots, IInv, GrowthInv
  <2>5. CASE a # b
    BY <1>2, <1>4, <1>5, <2>2, <2>3, <2>5 DEF Created
  <2> QED
    BY <2>4, <2>5
<1>15. CounterInv'
  <2>1. SUFFICES ASSUME NEW s \in Slots \ CodeSlots, s # Slot, pages[s].addr # 0
                 PROVE  /\ root'[pages[s].addr] # None
                        /\ pages[s].iv = root'[pages[s].addr] + Ahead(s)'
    BY <1>7, <1>8 DEF CounterInv
  <2>2. root[pages[s].addr] # None /\ pages[s].iv = root[pages[s].addr] + Ahead(s)
    BY <1>1, <1>8, <2>1 DEF IInv, CounterInv
  <2>3. pages[s].addr \in WritePages
    BY <2>1, Layout DEF IInv, SlotsInSection
  <2>4. Ahead(s)' = Ahead(s)
    BY <1>1, <2>1 DEF Ahead
  <2> QED
    BY <1>3, <1>5, <2>2, <2>3, <2>4
<1>16. InFlight = encrypt_page(b, 1, Zero) /\ InFlight \in sealed
  BY <1>1 DEF InFlight, IInv, SealedInv
<1>17. SealedInv' /\ LastInv'
  <2>1. ASSUME NEW c \in sealed PROVE c.iv =< root'[c.addr]
    <3>1. c.addr \in WritePages /\ c.iv \in Nat /\ c.iv # 0
      BY DEF IInv, TypeInv, SealedPages, IVs
    <3>2. CASE c = InFlight
      BY <1>5, <1>16, <3>2 DEF encrypt_page
    <3>3. CASE c # InFlight
      <4>1. c.iv =< root[c.addr]
        BY <1>1, <3>3 DEF IInv, SealedInv
      <4>2. c.addr # b
        BY <1>3, <3>1, <4>1 DEF None
      <4> QED
        BY <1>5, <3>1, <4>1, <4>2
    <3> QED
      BY <3>2, <3>3
  <2> QED
    BY <1>1, <1>5, <1>6, <2>1 DEF SealedInv, LastInv
<1>18. CoverInv'
  <2>1. SUFFICES ASSUME NEW a \in WritePages
                 PROVE  /\ root'[a] = 0 => a \in DataImage
                        /\ root'[a] > 0 => \E c \in sealed : c.addr = a /\ c.iv = root'[a]
    BY DEF CoverInv
  <2>2. CASE a = b
    BY <1>5, <1>16, <2>2 DEF encrypt_page
  <2>3. CASE a # b
    BY <1>5, <2>3 DEF IInv, CoverInv
  <2> QED
    BY <2>2, <2>3
<1>19. ZeroInv'
  <2>1. SUFFICES ASSUME b + 1 > frame.addr
                 PROVE  root'[frame.addr] = 1 /\ encrypt_page(frame.addr, 1, Zero) \in sealed
    BY <1>4 DEF ZeroInv
  <2>2. CASE b = frame.addr
    BY <1>5, <1>16, <2>2
  <2>3. CASE b # frame.addr
    <3>1. root[frame.addr] = 1 /\ encrypt_page(frame.addr, 1, Zero) \in sealed
      BY <1>1, <1>2, <2>1, <2>3 DEF IInv, ZeroInv
    <3>2. frame.addr \in WritePages
      BY <1>1, <1>3, Layout
    <3> QED
      BY <1>5, <2>3, <3>1, <3>2
  <2> QED
    BY <2>2, <2>3
<1>20. RequestInv'
  BY DEF RequestInv
<1> QED
  BY <1>9, <1>10, <1>11, <1>12, <1>13, <1>14, <1>15, <1>17, <1>18, <1>19, <1>20 DEF IInv

LEMMA UpdateIInv ==
    ASSUME IInv, ~ignored', pc = "old_proof", ~loading,
           NEW old, old = Entry(pages[Slot].addr, pages[Slot].iv - 1),
           root' = [root EXCEPT ![pages[Slot].addr] = pages[Slot].iv],
           last_entry' = IF last_entry = old
                         THEN Entry(pages[Slot].addr, pages[Slot].iv) ELSE last_entry,
           Refill, UNCHANGED <<pages, bss_max, stack_min, sealed>>
    PROVE  IInv'
<1> DEFINE p == pages[Slot]
<1>1. /\ Slot \in Slots /\ Slot \notin CodeSlots /\ p.addr # 0 /\ Committing
      /\ pc # "stopped" /\ \A s \in Slots : Live(s)
  BY DEF IInv, FrameInv, Committing, Writeable, Live
<1>2. p.addr \in WritePages /\ p.iv \in IVs /\ p.iv \in Nat /\ root \in Trees
  BY <1>1, Layout, Typing DEF IInv, SlotsInSection, TypeInv, IVs
<1>3. root[p.addr] # None /\ p.iv = root[p.addr] + 1 /\ root[p.addr] \in Int
  BY <1>1, <1>2, Typing DEF IInv, CounterInv, Ahead
<1>4. /\ root' \in Trees /\ root'[p.addr] = p.iv
      /\ \A a \in WritePages : a # p.addr => root'[a] = root[a]
  BY <1>2 DEF Trees
<1>5. \A a \in WritePages : root'[a] = None <=> root[a] = None
  BY <1>2, <1>3, <1>4 DEF None
<1>6. \A a \in WritePages : (\E s \in Slots : s # Slot /\ pages[s].addr = a)
                                 => root'[a] = root[a]
  BY <1>1, <1>4 DEF IInv, HeldOnce
<1>7. ASSUME NEW c \in sealed PROVE c.iv =< root'[c.addr]
  <2>1. c.addr \in WritePages /\ c.iv \in Nat /\ root[c.addr] \in Int
    BY Typing DEF IInv, TypeInv, SealedPages, IVs
  <2>2. CASE c = InFlight
    BY <1>2, <1>4, <2>2 DEF InFlight, encrypt_page
  <2>3. CASE c # InFlight
    <3>1. c.iv =< root[c.addr]
      BY <1>1, <2>3 DEF IInv, SealedInv
    <3> QED
      BY <1>2, <1>3, <1>4, <2>1, <3>1
  <2> QED
    BY <2>2, <2>3
<1>8. InFlight \in sealed /\ InFlight.addr = p.addr /\ InFlight.iv = p.iv
  BY <1>1 DEF IInv, SealedInv, InFlight, encrypt_page
<1>9. CoverInv'
  <2>1. SUFFICES ASSUME NEW a \in WritePages
                 PROVE  /\ root'[a] = 0 => a \in DataImage
                        /\ root'[a] > 0 => \E c \in sealed : c.addr = a /\ c.iv = root'[a]
    BY DEF CoverInv
  <2>2. CASE a = p.addr
    <3>1. p.iv # 0
      BY <1>8 DEF IInv, TypeInv, SealedPages
    <3> QED
      BY <1>4, <1>8, <2>2, <3>1
  <2>3. CASE a # p.addr
    BY <1>4, <2>3 DEF IInv, CoverInv
  <2> QED
    BY <2>2, <2>3
<1>10. /\ last_entry' \in [addr : WritePages, iv : IVs]
       /\ root'[last_entry'.addr] = last_entry'.iv
  <2>1. last_entry \in [addr : WritePages, iv : IVs] /\ root[last_entry.addr] = last_entry.iv
    BY <1>1 DEF IInv, TypeInv, LastInv
  <2>2. CASE last_entry = old
    BY <1>2, <1>4, <2>2 DEF Entry
  <2>3. CASE last_entry # old
    <3>1. last_entry = [addr |-> last_entry.addr, iv |-> last_entry.iv]
      BY <2>1
    <3>2. ASSUME last_entry.addr = p.addr PROVE FALSE
      <4>1. last_entry.iv = p.iv - 1
        BY <1>2, <1>3, <2>1, <3>2
      <4> QED
        BY <2>3, <3>1, <3>2, <4>1 DEF Entry
    <3> QED
      BY <1>4, <2>1, <2>3, <3>2
  <2> QED
    BY <2>2, <2>3
<1> QED
  BY <1>1, <1>4, <1>5, <1>6, <1>7, <1>9, <1>10, RefillIInv

LEMMA CommitProofIInv == ASSUME IInv, ~ignored', CommitProof PROVE IInv'
<1> DEFINE p   == pages[Slot]
           e   == Entry(p.addr, p.iv)
           old == Entry(p.addr, p.iv - 1)
<1>1. pc = "old_proof" /\ Slot \in Slots /\ Committing /\ pc # "stopped"
  BY DEF CommitProof, Waiting, IInv, FrameInv, Committing
<1>2. UNCHANGED <<pages, bss_max, stack_min, sealed>>
  BY DEF CommitProof, memVars
<1>3. PICK proof \in Proofs :
         \/ /\ loading /\ merkle_insert(e, proof)
            /\ frame' = [frame EXCEPT !.cursor = @ + 1]
            /\ pc' = "create"
            /\ loading' = loading
         \/ ~loading /\ merkle_update(old, e, proof) /\ Refill
         \/ pc' = "stopped" /\ UNCHANGED <<root, last_entry, frame, loading>>
  BY RepliesAreFormed, FailStops DEF CommitProof, SecondLeaf, Stop, treeVars
<1>4. CASE /\ loading /\ merkle_insert(e, proof)
           /\ frame' = [frame EXCEPT !.cursor = @ + 1]
           /\ pc' = "create"
           /\ loading' = loading
  <2>1. p.addr = frame.cursor /\ p.iv = 1
    BY <1>1, <1>4 DEF IInv, FrameInv
  <2>2. last_entry \in [addr : WritePages, iv : IVs] /\ TypeInv
    BY DEF IInv, TypeInv
  <2>3. proof_hash(last_entry, proof) = root
    BY <1>4, <2>2, VerifiedProof DEF merkle_insert
  <2>4. root' = [root EXCEPT ![frame.cursor] = 1] /\ last_entry' = Entry(frame.cursor, 1)
    BY <1>4, <2>1, <2>3 DEF merkle_insert, Entry
  <2> QED
    BY <1>1, <1>2, <1>4, <2>4, InsertIInv
<1>5. CASE ~loading /\ merkle_update(old, e, proof) /\ Refill
  <2>1. /\ Slot \notin CodeSlots /\ p.addr # 0
    BY <1>1, <1>5 DEF IInv, FrameInv, Writeable
  <2>2. p.addr \in WritePages /\ p.iv \in IVs /\ TypeInv
    BY <1>1, <2>1, Layout, Typing DEF IInv, SlotsInSection
  <2>3. p.iv - 1 \in IVs
    <3>1. InFlight \in sealed /\ InFlight.iv = p.iv
      BY <1>1 DEF IInv, SealedInv, InFlight, encrypt_page
    <3>2. p.iv # 0
      BY <2>2, <3>1 DEF TypeInv, SealedPages
    <3> QED
      BY <2>2, <3>2, DataAssumption DEF IVs
  <2>4. old \in [addr : WritePages, iv : IVs] /\ old.addr = p.addr
    BY <2>2, <2>3 DEF Entry
  <2>5. root' = [root EXCEPT ![p.addr] = p.iv]
    <3>1. merkle_verify_proof(old, proof) /\ root' = proof_hash(e, proof)
      BY <1>5 DEF merkle_update
    <3> QED
      BY <2>2, <2>4, <3>1, VerifiedProof
  <2> QED
    BY <1>1, <1>2, <1>5, <2>5, UpdateIInv DEF merkle_update
<1>6. CASE pc' = "stopped" /\ UNCHANGED <<root, last_entry, frame, loading>>
  BY <1>2, <1>6, StopIInv
<1> QED
  BY <1>3, <1>4, <1>5, <1>6

\* A step of stream_request_page before its verdict: only the slot being refilled
\* and what was received change.
LEMMA ReceivingIInv ==
    ASSUME IInv, ~ignored', pc \in {"create", "page", "hmac"}, pc' \in {"page", "hmac", "proof"},
           frame.limit = 0,
           frame' \in Frames, frame'.slot = frame.slot, frame'.addr = frame.addr,
           frame'.op = frame.op, frame'.cursor = frame.cursor, frame'.limit = frame.limit,
           pages' \in [Slots -> PageRecs],
           \A s \in Slots : s # Slot => pages'[s] = pages[s],
           pages' = pages \/ pages'[Slot].addr = frame.addr,
           UNCHANGED <<bss_max, stack_min, root, last_entry, loading, sealed>>,
           RequestInv'
    PROVE  IInv'
<1>1. /\ Slot \in Slots /\ frame.addr \in SlotPages(Slot) /\ frame.op \in Ops
      /\ frame.op = "write" => Writeable
      /\ loading /\ pc # "stopped" /\ ~Committing /\ ~Committing' /\ Slot' = Slot
  BY DEF IInv, FrameInv, Committing, Slot
<1>2. \A s \in Slots : (Live(s) <=> s # Slot) /\ (Live(s)' <=> s # Slot)
  BY <1>1 DEF Live
<1>3. TypeInv'
  BY DEF IInv, TypeInv, Pcs
<1>4. SlotsInSection' /\ IvsOnce'
  BY <1>1 DEF IInv, SlotsInSection, IvsOnce, SlotPages
<1>5. HeldOnce' /\ ValInv'
  BY <1>2 DEF IInv, HeldOnce, ValInv
<1>6. FrameInv'
  BY <1>1 DEF FrameInv, Writeable, SlotPages
<1>7. MissInv'
  BY <1>1, <1>2 DEF IInv, MissInv
<1>8. GrowthInv' /\ ZeroInv'
  BY <1>1 DEF IInv, GrowthInv, ZeroInv
<1>9. TreeInv'
  BY <1>1 DEF IInv, TreeInv, Created
<1>10. CounterInv'
  BY <1>1, <1>2 DEF IInv, CounterInv, Ahead
<1>11. SealedInv' /\ LastInv' /\ CoverInv'
  BY <1>1 DEF IInv, SealedInv, LastInv, CoverInv
<1> QED
  BY <1>3, <1>4, <1>5, <1>6, <1>7, <1>8, <1>9, <1>10, <1>11 DEF IInv

\* The page asked for is in its slot and was verified.
LEMMA LoadedIInv ==
    ASSUME IInv, ~ignored', pc \in {"hmac", "proof"}, pc' = "access", loading' = FALSE,
           pages' \in [Slots -> PageRecs],
           \A s \in Slots : s # Slot => pages'[s] = pages[s],
           pages'[Slot].addr = frame.addr, pages'[Slot].val \in Vals,
           Slot \in CodeSlots => pages'[Slot].val = Image[frame.addr],
           Slot \notin CodeSlots => root[frame.addr] = pages'[Slot].iv,
           UNCHANGED <<bss_max, stack_min, root, last_entry, frame, sealed>>
    PROVE  IInv'
<1>1. /\ Slot \in Slots /\ frame.addr \in SlotPages(Slot) /\ frame.op \in Ops
      /\ frame.op = "write" => Writeable
      /\ loading /\ pc # "stopped" /\ ~Committing /\ ~Committing' /\ Slot' = Slot
      /\ frame.limit = 0
  BY DEF IInv, FrameInv, Committing, Slot
<1>2. \A s \in Slots : (Live(s) <=> s # Slot) /\ Live(s)'
  BY <1>1 DEF Live
<1>3. TypeInv'
  <2>1. loading' \in BOOLEAN
    BY Zenon
  <2> QED
    BY <2>1 DEF IInv, TypeInv, Pcs
<1>4. SlotsInSection' /\ IvsOnce'
  BY <1>1 DEF IInv, SlotsInSection, IvsOnce, SlotPages
<1>5. HeldOnce'
  <2>1. \A s \in Slots : s # Slot => pages[s].addr # frame.addr
    BY <1>1, <1>2 DEF IInv, MissInv
  <2> QED
    BY <1>2, <2>1 DEF IInv, HeldOnce
<1>6. ValInv'
  BY <1>2 DEF IInv, ValInv
<1>7. FrameInv' /\ MissInv'
  BY <1>1 DEF FrameInv, MissInv, Writeable, SlotPages
<1>8. GrowthInv' /\ ZeroInv'
  <2>1. frame.cursor = 0
    BY <1>1, Typing DEF IInv, GrowthInv
  <2> QED
    BY <1>1, <2>1 DEF GrowthInv, ZeroInv
<1>9. TreeInv'
  BY <1>1 DEF IInv, TreeInv, Created
<1>10. CounterInv'
  <2>1. SUFFICES ASSUME NEW s \in Slots \ CodeSlots, pages'[s].addr # 0
                 PROVE  /\ root[pages'[s].addr] # None
                        /\ pages'[s].iv = root[pages'[s].addr] + 0
    BY <1>1 DEF CounterInv, Ahead
  <2>2. CASE s = Slot
    <3>1. pages'[s].iv \in Nat
      BY DEF PageRecs, IVs
    <3> QED
      BY <2>2, <3>1 DEF None
  <2>3. CASE s # Slot
    BY <1>1, <1>2, <2>1, <2>3 DEF IInv, CounterInv, Ahead
  <2> QED
    BY <2>2, <2>3
<1>11. SealedInv' /\ LastInv' /\ CoverInv' /\ RequestInv'
  BY <1>1 DEF IInv, SealedInv, LastInv, CoverInv, RequestInv
<1> QED
  BY <1>3, <1>4, <1>5, <1>6, <1>7, <1>8, <1>9, <1>10, <1>11 DEF IInv

LEMMA RequestPageIInv == ASSUME IInv, ~ignored', RequestPage PROVE IInv'
<1>1. /\ pc = "create" /\ pc' = "page" /\ frame.limit = 0
      /\ UNCHANGED <<pages, bss_max, stack_min, root, last_entry, frame, loading, sealed>>
  BY DEF RequestPage, memVars, treeVars
<1>2. RequestInv'
  BY <1>1 DEF RequestInv
<1>3. frame \in Frames /\ pages \in [Slots -> PageRecs]
  BY DEF IInv, TypeInv
<1> QED
  BY <1>1, <1>2, <1>3, ReceivingIInv

LEMMA RequestHmacIInv == ASSUME IInv, ~ignored', RequestHmac PROVE IInv'
<1>1. /\ pc = "page" /\ pc' = "hmac" /\ frame.limit = 0
      /\ Slot \in Slots /\ frame.addr \in SlotPages(Slot)
      /\ UNCHANGED <<bss_max, stack_min, root, last_entry, loading, sealed>>
  BY DEF RequestHmac, Waiting, memVars, treeVars, IInv, FrameInv
<1>2. PICK ct \in Ciphertexts :
         /\ frame' = [frame EXCEPT !.ct = ct]
         /\ pages' = [pages EXCEPT ![Slot].addr = frame.addr,
                                   ![Slot].val = IF ct.iv = 0 THEN ct.val ELSE Garbage]
  BY RepliesAreFormed DEF RequestHmac
<1> DEFINE v == IF ct.iv = 0 THEN ct.val ELSE Garbage
<1>3. ct \in [addr : Nat, iv : Nat, val : Vals]
  BY Layout DEF IInv, TypeInv, Ciphertexts, Plain, SealedPages, IVs
<1>4. /\ frame' \in Frames /\ frame'.slot = frame.slot /\ frame'.addr = frame.addr
      /\ frame'.op = frame.op /\ frame'.cursor = frame.cursor /\ frame'.limit = frame.limit
      /\ frame'.ct = ct
  <2>1. frame \in Frames
    BY DEF IInv, TypeInv
  <2> QED
    BY <1>2, <1>3, <2>1 DEF Frames
<1>5. /\ pages' \in [Slots -> PageRecs]
      /\ \A s \in Slots : s # Slot => pages'[s] = pages[s]
      /\ pages'[Slot].addr = frame.addr /\ pages'[Slot].val = v
  <2>1. pages \in [Slots -> PageRecs] /\ pages[Slot] \in PageRecs
    BY <1>1 DEF IInv, TypeInv
  <2>2. frame.addr \in {0} \cup CodePages \cup WritePages /\ v \in Vals \cup {Garbage}
    BY <1>1, <1>3 DEF SlotPages, WritePages
  <2>3. [pages[Slot] EXCEPT !.addr = frame.addr, !.val = v] \in PageRecs
    BY <2>1, <2>2 DEF PageRecs
  <2>4. pages' = [pages EXCEPT ![Slot] = [pages[Slot] EXCEPT !.addr = frame.addr, !.val = v]]
    BY <1>1, <1>2, <2>1
  <2> QED
    BY <1>1, <2>1, <2>3, <2>4 DEF PageRecs
<1>6. RequestInv'
  BY <1>1, <1>4, <1>5 DEF RequestInv, Slot
<1> QED
  BY <1>1, <1>4, <1>5, <1>6, ReceivingIInv

\* A MAC that checks: the page is one of the archive's or one the device encrypted,
\* whatever the host sent.
LEMMA MacGuarantee ==
    ASSUME IInv, pc = "hmac", NEW mac \in Macs, mac = Hmac(frame.ct, frame.addr, mac.iv),
           NEW v, v = IF mac.iv = 0 THEN pages[Slot].val
                                    ELSE decrypt_page(frame.ct, frame.addr, mac.iv)
    PROVE  /\ mac.iv \in IVs /\ v \in Vals
           /\ \/ /\ mac.iv = 0 /\ frame.addr \in CodePages \cup DataImage
                 /\ v = Image[frame.addr]
              \/ encrypt_page(frame.addr, mac.iv, v) \in sealed
<1>1. CASE \E a \in CodePages \cup DataImage : mac = ArchiveMac(a)
  <2>1. PICK a \in CodePages \cup DataImage : mac = ArchiveMac(a)
    BY <1>1
  <2>2. mac.iv = 0 /\ frame.addr = a /\ frame.ct = Plain(Image[a])
    BY <2>1 DEF ArchiveMac, Hmac
  <2>3. v = Image[a]
    BY <2>2 DEF IInv, RequestInv, Plain
  <2>4. Image[a] \in Vals
    BY DataAssumption
  <2> QED
    BY <2>2, <2>3, <2>4, DataAssumption DEF IVs
<1>2. CASE \E c \in sealed : mac = Hmac(c, c.addr, c.iv)
  <2>1. PICK c \in sealed : mac = Hmac(c, c.addr, c.iv)
    BY <1>2
  <2>2. mac.iv = c.iv /\ frame.addr = c.addr /\ frame.ct = c
    BY <2>1 DEF Hmac
  <2>3. c.iv \in IVs \ {0} /\ c.val \in Vals /\ c = [addr |-> c.addr, iv |-> c.iv, val |-> c.val]
    BY DEF IInv, TypeInv, SealedPages
  <2>4. v = c.val
    BY <2>2, <2>3 DEF decrypt_page
  <2> QED
    BY <2>2, <2>3, <2>4 DEF encrypt_page
<1> QED
  BY <1>1, <1>2 DEF Macs

LEMMA RequestProofIInv == ASSUME IInv, ~ignored', RequestProof PROVE IInv'
<1>1. /\ pc = "hmac" /\ loading /\ frame.limit = 0
      /\ Slot \in Slots /\ frame.addr \in SlotPages(Slot)
      /\ pages[Slot].addr = frame.addr
      /\ UNCHANGED <<bss_max, stack_min, root, last_entry, sealed>>
  BY DEF RequestProof, Waiting, memVars, treeVars, IInv, FrameInv, RequestInv
<1> DEFINE decrypted(iv) == IF iv = 0 THEN pages[Slot].val
                            ELSE decrypt_page(frame.ct, frame.addr, iv)
           filled(iv) == [pages EXCEPT ![Slot].iv = iv, ![Slot].val = decrypted(iv)]
<1>2. PICK mac \in Macs :
         \/ pc' = "stopped" /\ UNCHANGED <<pages, frame, loading>>
         \/ /\ mac = Hmac(frame.ct, frame.addr, mac.iv)
            /\ pages' = [pages EXCEPT ![Slot].iv = mac.iv,
                             ![Slot].val = IF mac.iv = 0 THEN @
                                  ELSE decrypt_page(frame.ct, frame.addr, mac.iv)]
            /\ \/ Writeable /\ pc' = "proof" /\ UNCHANGED <<frame, loading>>
               \/ pc' = "stopped" /\ UNCHANGED <<frame, loading>>
               \/ /\ ~Writeable /\ mac.iv = 0
                  /\ pc' = "access" /\ loading' = FALSE /\ UNCHANGED frame
  BY RepliesAreFormed, FailStops DEF RequestProof, Stop
<1>3. CASE pc' = "stopped" /\ UNCHANGED <<pages, frame, loading>>
  BY <1>1, <1>3, StopIInv
<1>4. CASE mac = Hmac(frame.ct, frame.addr, mac.iv)
           /\ pages' = [pages EXCEPT ![Slot].iv = mac.iv,
                             ![Slot].val = IF mac.iv = 0 THEN @
                                  ELSE decrypt_page(frame.ct, frame.addr, mac.iv)]
  <2> DEFINE v == decrypted(mac.iv)
  <2>1. /\ mac.iv \in IVs /\ v \in Vals
        /\ \/ /\ mac.iv = 0 /\ frame.addr \in CodePages \cup DataImage
              /\ v = Image[frame.addr]
           \/ encrypt_page(frame.addr, mac.iv, v) \in sealed
    BY <1>1, <1>4, MacGuarantee
  <2>2. /\ pages' \in [Slots -> PageRecs]
        /\ \A s \in Slots : s # Slot => pages'[s] = pages[s]
        /\ pages'[Slot].addr = frame.addr /\ pages'[Slot].val = v /\ pages'[Slot].iv = mac.iv
    <3>1. pages \in [Slots -> PageRecs] /\ pages[Slot] \in PageRecs
      BY <1>1 DEF IInv, TypeInv
    <3>2. [pages[Slot] EXCEPT !.iv = mac.iv, !.val = v] \in PageRecs
      BY <2>1, <3>1 DEF PageRecs
    <3>3. pages' = [pages EXCEPT ![Slot] = [pages[Slot] EXCEPT !.iv = mac.iv, !.val = v]]
      BY <1>1, <1>4, <3>1 DEF PageRecs
    <3> QED
      BY <1>1, <3>1, <3>2, <3>3 DEF PageRecs
  <2>3. CASE Writeable /\ pc' = "proof" /\ UNCHANGED <<frame, loading>>
    <3>1. Slot' = Slot /\ Writeable'
      BY <2>3 DEF Slot, Writeable
    <3>2. Authentic(pages[Slot])'
      BY <1>1, <2>1, <2>2, <3>1 DEF Authentic
    <3>3. RequestInv'
      BY <2>2, <2>3, <3>1, <3>2 DEF RequestInv
    <3>4. frame \in Frames
      BY DEF IInv, TypeInv
    <3> QED
      BY <1>1, <2>2, <2>3, <3>3, <3>4, ReceivingIInv
  <2>4. CASE pc' = "stopped" /\ UNCHANGED <<frame, loading>>
    <3>1. \A s \in Slots : pages'[s].addr \in {0} \cup SlotPages(s)
      BY <1>1, <2>2 DEF IInv, SlotsInSection
    <3> QED
      BY <1>1, <2>2, <2>4, <3>1, StopIInv
  <2>5. CASE /\ ~Writeable /\ mac.iv = 0
             /\ pc' = "access" /\ loading' = FALSE /\ UNCHANGED frame
    <3>1. v = Image[frame.addr]
      <4>1. encrypt_page(frame.addr, 0, v) \notin sealed
        BY DEF IInv, TypeInv, SealedPages, encrypt_page
      <4> QED
        BY <2>1, <2>5, <4>1
    <3> QED
      BY <1>1, <2>1, <2>2, <2>5, <3>1, LoadedIInv DEF Writeable
  <2> QED
    BY <1>1, <1>2, <1>3, <1>4, <2>3, <2>4, <2>5
<1> QED
  BY <1>2, <1>3, <1>4

LEMMA VerifyProofIInv == ASSUME IInv, ~ignored', VerifyProof PROVE IInv'
<1>1. /\ pc = "proof" /\ Slot \in Slots /\ frame.addr \in SlotPages(Slot)
      /\ Slot \notin CodeSlots
      /\ pages[Slot].addr = frame.addr /\ Authentic(pages[Slot])
      /\ UNCHANGED <<pages, bss_max, stack_min, root, last_entry, sealed>>
  BY DEF VerifyProof, Waiting, memVars, treeVars, IInv, FrameInv, RequestInv, Writeable
<1> DEFINE e == Entry(frame.addr, pages[Slot].iv)
<1>2. PICK proof \in Proofs :
         \/ /\ merkle_verify_proof(e, proof) /\ pc' = "access" /\ loading' = FALSE
            /\ frame' = frame
         \/ pc' = "stopped" /\ UNCHANGED <<frame, loading>>
  BY RepliesAreFormed, FailStops DEF VerifyProof, Stop
<1>3. CASE /\ merkle_verify_proof(e, proof) /\ pc' = "access" /\ loading' = FALSE
           /\ frame' = frame
  <2>1. TypeInv /\ pages[Slot].iv \in IVs /\ pages \in [Slots -> PageRecs]
    BY <1>1, Typing DEF IInv, TypeInv
  <2>2. frame.addr \in WritePages
    BY <1>1, Layout
  <2>3. e \in [addr : WritePages, iv : IVs] /\ e.addr = frame.addr /\ e.iv = pages[Slot].iv
    BY <2>1, <2>2 DEF Entry
  <2>4. root[frame.addr] = pages[Slot].iv
    BY <1>3, <2>1, <2>3, VerifiedProof
  <2>5. pages[Slot].val \in Vals
    <3>1. CASE encrypt_page(pages[Slot].addr, pages[Slot].iv, pages[Slot].val) \in sealed
      BY <3>1, <2>1 DEF TypeInv, SealedPages, encrypt_page
    <3>2. CASE /\ pages[Slot].addr \in CodePages \cup DataImage
               /\ pages[Slot].val = Image[pages[Slot].addr]
      BY <3>2, DataAssumption
    <3> QED
      BY <1>1, <3>1, <3>2 DEF Authentic
  <2> QED
    BY <1>1, <1>3, <2>1, <2>4, <2>5, LoadedIInv
<1>4. CASE pc' = "stopped" /\ UNCHANGED <<frame, loading>>
  BY <1>1, <1>4, StopIInv
<1> QED
  BY <1>2, <1>3, <1>4

LEMMA NextIInv == ASSUME IInv, ~ignored', [Next]_vars PROVE IInv'
<1>1. ASSUME NEW op \in {"read", "fetch", "draw"}, NEW a \in Accesses, Lookup(op, a, Zero)
      PROVE  IInv'
  BY <1>1, LookupIInv, LayoutAssumption, DataAssumption DEF Ops
<1>2. ASSUME NEW a \in Accesses, NEW v \in Vals, Lookup("write", a, v)
      PROVE  IInv'
  BY <1>2, LookupIInv, LayoutAssumption DEF Ops
<1>3. CASE AppStep
  BY <1>1, <1>2, <1>3, ExitIInv DEF AppStep
<1>4. CASE DeviceStep
  BY <1>4, AccessIInv, EvictIInv, CommitHmacIInv, CommitProofIInv, CreateEmptyPageIInv,
     UseZeroPageIInv, RequestPageIInv, RequestHmacIInv, RequestProofIInv, VerifyProofIInv,
     InvalidApduIInv
     DEF DeviceStep
<1>5. CASE HostStep
  BY <1>5, UnchangedIInv DEF HostStep, deviceVars, memVars, treeVars
<1>6. CASE UNCHANGED vars
  BY <1>6, UnchangedIInv DEF vars, deviceVars, memVars, treeVars
<1> QED
  BY <1>3, <1>4, <1>5, <1>6 DEF Next, Stopped

\* Once a failure was ignored this is so for good.
LEMMA IgnoredForGood == ASSUME ignored, [Next]_vars PROVE ignored'
<1>1. CASE AppStep
  BY <1>1 DEF AppStep, Exit, Lookup
<1>2. CASE DeviceStep
  <2>1. CASE Access \/ CommitHmac \/ UseZeroPage \/ RequestPage \/ RequestHmac
    BY <2>1 DEF Access, CommitHmac, UseZeroPage, ZeroPage, RequestPage, RequestHmac
  <2>2. CASE Evict \/ CreateEmptyPage
    BY <2>2 DEF Evict, CreateEmptyPage, CommitPage, Fail
  <2>3. CASE RequestProof \/ VerifyProof \/ InvalidApdu
    BY <2>3 DEF RequestProof, VerifyProof, InvalidApdu, Fail
  <2>4. CASE CommitProof
    BY <2>4 DEF CommitProof, SecondLeaf, Fail
  <2> QED
    BY <1>2, <2>1, <2>2, <2>3, <2>4 DEF DeviceStep
<1>3. CASE HostStep \/ Stopped \/ UNCHANGED vars
  BY <1>3 DEF HostStep, Stopped, vars
<1> QED
  BY <1>1, <1>2, <1>3 DEF Next

\* The inductive invariant of the device: it holds until the app goes on after a fault
\* that failed half-way, which ecall_dispatcher.c lets it do in a draw.
THEOREM Invariance == Spec => [](~ignored => IInv)
<1>1. Init => (~ignored => IInv)
  BY InitIInv
<1>2. (~ignored => IInv) /\ [Next]_vars => (~ignored => IInv)'
  BY NextIInv, IgnoredForGood
<1> QED
  BY <1>1, <1>2, PTL DEF Spec

\* stream_commit_page never encrypts two contents under one address and IV, until the app
\* goes on after a draw that failed half-way.
THEOREM IvsAreNotReused == Spec => []NoIvReuse
<1>1. (~ignored => IInv) => NoIvReuse
  BY DEF IInv, NoIvReuse, IvsOnce
<1> QED
  BY <1>1, Invariance, PTL

\* find_page, evict_page and create_page never hold a page twice, until the app goes on
\* after a draw that failed half-way.
THEOREM PagesAreHeldOnce == Spec => []NoDuplicatePage
<1>1. (~ignored => IInv) => NoDuplicatePage
  BY DEF IInv, NoDuplicatePage, HeldOnce
<1> QED
  BY <1>1, Invariance, PTL

\* create_empty_pages only inserts addresses that are no leaf of the tree, until the app
\* goes on after a draw that failed half-way.
THEOREM InsertedOnce == Spec => []InsertsAreFresh
<1>1. (~ignored => IInv) => InsertsAreFresh
  <2>1. SUFFICES ASSUME IInv, pc \in {"ack", "old_proof"}, loading
                 PROVE  root[pages[Slot].addr] = None
    BY DEF InsertsAreFresh
  <2>2. /\ pages[Slot].addr = frame.cursor /\ pc # "stopped"
        /\ frame.limit # 0 /\ frame.cursor < frame.limit
        /\ Slot \in Slots /\ frame.addr \in SlotPages(Slot)
    BY <2>1 DEF IInv, FrameInv, Committing
  <2> QED
    BY <2>1, <2>2, CursorIsFresh
<1> QED
  BY <1>1, Invariance, PTL

-----------------------------------------------------------------------------
(***************************************************************************)
(* The shape of the device's state, which also holds after a failure was    *)
(* ignored: contents that were never decrypted may be committed then.       *)
(***************************************************************************)
LooseFrames == [op : Ops \cup {"none"}, addr : Nat, val : Vals, slot : Slots \cup {"none"},
                cursor : Nat, limit : Nat, ct : [addr : Nat, iv : Nat, val : Vals \cup {Garbage}]]

StateShape ==
    /\ pages \in [Slots -> PageRecs]
    /\ SlotsInSection
    /\ bss_max \in Bss .. DataEnd
    /\ stack_min \in StackStart .. StackEnd
    /\ root \in Trees
    /\ last_entry \in [addr : WritePages, iv : IVs]
    /\ frame \in LooseFrames
    /\ sealed \subseteq Sealings
    /\ loading \in BOOLEAN /\ ignored \in BOOLEAN

\* Pages that create_empty_pages still has to create are pages of the slot's section.
ToCreate ==
    frame.limit # 0 =>
        /\ Writeable
        /\ Slot \in DataSlots => Bss =< frame.addr
        /\ \A a \in Nat : frame.cursor =< a /\ a < frame.limit => a \in SlotPages(Slot)

FaultShape ==
    /\ pc \in Pcs
    /\ pc \notin {"run", "stopped"} =>
          Slot \in Slots /\ frame.op \in Ops /\ frame.addr \in SlotPages(Slot)
    /\ pc \in {"run", "access", "evict"} => ~loading
    /\ Committing => Writeable /\ pages[Slot].addr # 0
    /\ pc = "create" \/ (Committing /\ loading) => ToCreate

ShapeInv == StateShape /\ FaultShape

\* What a page record is.
LEMMA ShapeOfPage ==
    ASSUME StateShape, NEW s \in Slots
    PROVE  /\ pages[s] = [addr |-> pages[s].addr, val |-> pages[s].val, iv |-> pages[s].iv]
           /\ pages[s].addr \in Nat /\ pages[s].iv \in IVs
           /\ pages[s].addr \in {0} \cup CodePages \cup WritePages
           /\ pages[s].val \in Vals \cup {Garbage}
<1>1. pages[s] \in PageRecs
  BY DEF StateShape
<1>2. /\ pages[s] = [addr |-> pages[s].addr, val |-> pages[s].val, iv |-> pages[s].iv]
      /\ pages[s].addr \in {0} \cup CodePages \cup WritePages
      /\ pages[s].iv \in IVs /\ pages[s].val \in Vals \cup {Garbage}
  BY <1>1 DEF PageRecs
<1> QED
  BY <1>2, Layout

\* A writeable slot that is in use holds a page of the tree.
LEMMA WriteableAddr ==
    ASSUME StateShape, Slot \in Slots, Writeable, pages[Slot].addr # 0
    PROVE  pages[Slot].addr \in WritePages
  BY Layout DEF StateShape, SlotsInSection, Writeable

\* A step that changes only one slot keeps the pages' shape.
LEMMA OneSlot ==
    ASSUME StateShape, Slot \in Slots, NEW p \in PageRecs, p.addr \in {0} \cup SlotPages(Slot),
           pages' = [pages EXCEPT ![Slot] = p]
    PROVE  /\ pages' \in [Slots -> PageRecs] /\ SlotsInSection'
           /\ pages'[Slot] = p
<1>1. pages \in [Slots -> PageRecs]
  BY DEF StateShape
<1>2. /\ pages' \in [Slots -> PageRecs] /\ pages'[Slot] = p
      /\ \A s \in Slots : s # Slot => pages'[s] = pages[s]
  BY <1>1
<1> QED
  BY <1>2 DEF StateShape, SlotsInSection, SlotPages

LEMMA InitShape == Init => ShapeInv
<1> SUFFICES ASSUME Init PROVE ShapeInv
  OBVIOUS
<1>1. IInv
  BY InitIInv
<1>2. frame \in LooseFrames /\ ignored \in BOOLEAN /\ sealed \subseteq Sealings
  BY DataAssumption DEF Init, NoFrame, LooseFrames, Plain
<1>3. StateShape
  BY <1>1, <1>2 DEF IInv, TypeInv, StateShape
<1>4. FaultShape
  BY DEF Init, FaultShape, Pcs, Committing
<1> QED
  BY <1>3, <1>4 DEF ShapeInv

\* The app is stopped, or goes on after a draw.
LEMMA FailShape ==
    ASSUME ShapeInv, NEW e, NEW h \in BOOLEAN, Fail(e, h),
           pages' \in [Slots -> PageRecs], SlotsInSection',
           UNCHANGED <<bss_max, stack_min, root, last_entry, sealed>>
    PROVE  ShapeInv'
<1>1. NoFrame \in LooseFrames
  BY DataAssumption DEF NoFrame, LooseFrames, Plain
<1>0. /\ frame' \in LooseFrames /\ loading' \in BOOLEAN /\ ignored' \in BOOLEAN
      /\ pc' \in {"run", "stopped"}
      /\ pc' = "run" => ~loading'
  BY <1>1 DEF Fail, Stop, ShapeInv, StateShape
<1>2. StateShape'
  BY <1>0 DEF ShapeInv, StateShape
<1>3. FaultShape'
  BY <1>0 DEF FaultShape, Pcs, Committing
<1> QED
  BY <1>2, <1>3 DEF ShapeInv

\* The app is stopped and nothing else changes.
LEMMA StopShape ==
    ASSUME ShapeInv, pc' = "stopped",
           UNCHANGED <<pages, bss_max, stack_min, root, last_entry, frame, loading, sealed,
                       ignored>>
    PROVE  ShapeInv'
  BY DEF ShapeInv, StateShape, FaultShape, Pcs, Committing, SlotsInSection, SlotPages

LEMMA LookupShape ==
    ASSUME ShapeInv, NEW op \in Ops, NEW a \in Nat, NEW v \in Vals, Lookup(op, a, v)
    PROVE  ShapeInv'
<1> DEFINE cache == get_cache(op, a)
           called(s) == [NoFrame EXCEPT !.op = op, !.addr = a, !.val = v, !.slot = s]
<1>1. UNCHANGED <<pages, bss_max, stack_min, root, last_entry, loading, sealed, ignored>>
  BY DEF Lookup, memVars, treeVars
<1>2. CASE Stop(InvalidAccess(op)) /\ UNCHANGED frame
  BY <1>1, <1>2, StopShape DEF Stop
<1>3. CASE UNCHANGED <<pc, frame>>
  BY <1>1, <1>3
     DEF ShapeInv, StateShape, FaultShape, ToCreate, Committing, SlotsInSection, SlotPages, Slot, Writeable
<1>4. ASSUME NEW s \in cache, frame' = called(s), pc' \in {"access", "evict"}
      PROVE  ShapeInv'
  <2>1. s \in Slots /\ a \in SlotPages(s)
    BY CacheOfSection
  <2>2. /\ frame' \in LooseFrames /\ Slot' = s
        /\ frame'.op = op /\ frame'.addr = a
    BY <1>4, <2>1, DataAssumption DEF NoFrame, LooseFrames, Plain, Slot
  <2>3. StateShape'
    BY <1>1, <2>2 DEF ShapeInv, StateShape, SlotsInSection, SlotPages
  <2>4. pc = "run"
    BY DEF Lookup
  <2>6. ~loading'
    BY <1>1, <2>4 DEF ShapeInv, FaultShape
  <2>5. FaultShape'
    BY <1>4, <2>1, <2>2, <2>6 DEF FaultShape, Pcs, Committing, SlotPages
  <2> QED
    BY <2>3, <2>5 DEF ShapeInv
<1> QED
  BY <1>2, <1>3, <1>4 DEF Lookup, find_page, evict_page

LEMMA AccessShape == ASSUME ShapeInv, Access PROVE ShapeInv'
<1>1. /\ pc = "access" /\ pc' = "run" /\ frame' = NoFrame /\ Slot \in Slots
      /\ UNCHANGED <<bss_max, stack_min, root, last_entry, loading, sealed, ignored>>
  BY DEF ShapeInv, FaultShape, Access, memVars, treeVars
<1>2. pages' \in [Slots -> PageRecs] /\ SlotsInSection'
  <2>1. CASE pages' = pages
    BY <2>1 DEF ShapeInv, StateShape, SlotsInSection, SlotPages
  <2>2. CASE pages' = [pages EXCEPT ![Slot].val = frame.val]
    <3> DEFINE p == [pages[Slot] EXCEPT !.val = frame.val]
    <3>1. pages[Slot] \in PageRecs /\ frame.val \in Vals
      BY <1>1 DEF ShapeInv, StateShape, LooseFrames
    <3>2. p \in PageRecs /\ p.addr = pages[Slot].addr
      BY <3>1 DEF PageRecs
    <3>3. pages' = [pages EXCEPT ![Slot] = p]
      BY <2>2
    <3>4. pages[Slot].addr \in {0} \cup SlotPages(Slot)
      BY <1>1 DEF ShapeInv, StateShape, SlotsInSection
    <3> HIDE DEF p
    <3> QED
      BY <1>1, <3>2, <3>3, <3>4, OneSlot DEF ShapeInv
  <2> QED
    BY <2>1, <2>2 DEF Access
<1>3. frame' \in LooseFrames
  BY <1>1, DataAssumption DEF NoFrame, LooseFrames, Plain
<1>4. StateShape'
  BY <1>1, <1>2, <1>3 DEF ShapeInv, StateShape
<1>5. ~loading
  BY <1>1 DEF ShapeInv, FaultShape
<1>6. FaultShape'
  BY <1>1, <1>5 DEF FaultShape, Pcs, Committing
<1> QED
  BY <1>4, <1>6 DEF ShapeInv

\* The pages to create are those of the section between the old limit and the new one.
LEMMA RefillShape ==
    ASSUME ShapeInv, Refill, pc = "evict" \/ Committing,
           UNCHANGED <<pages, bss_max, stack_min, sealed, ignored>>,
           root' \in Trees, last_entry' \in [addr : WritePages, iv : IVs]
    PROVE  ShapeInv'
<1> DEFINE g == Growth(Slot, frame.addr)
<1>1. /\ Slot \in Slots /\ frame.op \in Ops /\ frame.addr \in SlotPages(Slot)
      /\ frame \in LooseFrames /\ frame.addr \in Nat
      /\ bss_max \in Bss .. DataEnd /\ stack_min \in StackStart .. StackEnd
      /\ bss_max \in Nat /\ stack_min \in Nat
  BY LayoutAssumption DEF ShapeInv, StateShape, FaultShape, Committing, LooseFrames
<1>2. /\ g.from \in Nat /\ g.to \in Nat
      /\ g.to # 0 => /\ Writeable
                     /\ Slot \in DataSlots => Bss =< frame.addr
                     /\ \A a \in Nat : g.from =< a /\ a < g.to => a \in SlotPages(Slot)
  <2>1. CASE Slot \in DataSlots /\ frame.addr >= bss_max
    <3>1. g = [from |-> bss_max, to |-> frame.addr + 1] /\ Slot \notin CodeSlots
      BY <2>1, SlotAssumption DEF Growth
    <3>2. SlotPages(Slot) = DataPages
      BY <2>1, <3>1 DEF SlotPages
    <3> QED
      BY <1>1, <2>1, <3>1, <3>2, LayoutAssumption DEF DataPages, Writeable
  <2>2. CASE Slot \in StackSlots /\ frame.addr < stack_min
    <3>1. g = [from |-> frame.addr, to |-> stack_min] /\ Slot \notin CodeSlots /\ Slot \notin DataSlots
      BY <2>2, SlotAssumption DEF Growth
    <3>2. SlotPages(Slot) = StackPages
      BY <3>1 DEF SlotPages
    <3> QED
      BY <1>1, <2>2, <3>1, <3>2, LayoutAssumption DEF StackPages, Writeable
  <2>3. CASE /\ ~(Slot \in DataSlots /\ frame.addr >= bss_max)
             /\ ~(Slot \in StackSlots /\ frame.addr < stack_min)
    BY <2>3 DEF Growth
  <2> QED
    BY <2>1, <2>2, <2>3
<1>3. /\ pc' = "create" /\ loading' = TRUE
      /\ frame' \in LooseFrames
      /\ frame'.slot = frame.slot /\ frame'.addr = frame.addr /\ frame'.op = frame.op
      /\ frame'.cursor = g.from /\ frame'.limit = g.to
  <2>1. frame' = [frame EXCEPT !.cursor = g.from, !.limit = g.to]
    BY DEF Refill
  <2> HIDE DEF g
  <2> QED
    BY <1>1, <1>2, <2>1 DEF LooseFrames, Refill
<1>4. StateShape'
  BY <1>3 DEF ShapeInv, StateShape, SlotsInSection, SlotPages
<1>5. ToCreate' /\ Slot' = Slot
  BY <1>2, <1>3 DEF ToCreate, Slot, Writeable, SlotPages
<1>6. FaultShape'
  BY <1>1, <1>3, <1>5 DEF FaultShape, Pcs, Committing, SlotPages
<1> QED
  BY <1>4, <1>6 DEF ShapeInv

\* stream_commit_page up to its first exchange: the page's IV is one more.
LEMMA CommitPageShape ==
    ASSUME ShapeInv, pc = "evict" \/ (pc = "create" /\ ToCreate), Slot \in Slots, Writeable, NEW p \in PageRecs, p.addr \in SlotPages(Slot),
           CommitPage(p)
    PROVE  ShapeInv'
<1>1. /\ UNCHANGED <<bss_max, stack_min, root, last_entry>>
      /\ p.addr \in WritePages /\ p.addr # 0 /\ p.iv \in IVs /\ p.val \in Vals \cup {Garbage}
  BY Layout DEF CommitPage, memVars, treeVars, PageRecs, Writeable
<1>2. CASE p.iv = MAX_IV
  <2>1. Fail("iv_reuse", FALSE) /\ pages' = [pages EXCEPT ![Slot] = p] /\ UNCHANGED sealed
    BY <1>2 DEF CommitPage
  <2>2. pages' \in [Slots -> PageRecs] /\ SlotsInSection'
    BY <2>1, OneSlot DEF ShapeInv
  <2> QED
    BY <1>1, <2>1, <2>2, FailShape
<1>3. CASE p.iv # MAX_IV
  <2> DEFINE ct == encrypt_page(p.addr, p.iv + 1, p.val)
             q == [p EXCEPT !.iv = @ + 1]
  <2>1. /\ pages' = [pages EXCEPT ![Slot] = q] /\ sealed' = sealed \cup {ct} /\ pc' = "ack"
        /\ UNCHANGED <<frame, loading, ignored>>
    BY <1>3 DEF CommitPage
  <2>2. q \in PageRecs /\ q.addr = p.addr /\ p.iv + 1 \in IVs \ {0}
    BY <1>1, <1>3, DataAssumption DEF PageRecs, IVs
  <2>3. ct \in Sealings
    BY <1>1, <2>2 DEF encrypt_page, Sealings
  <2>4. pages' \in [Slots -> PageRecs] /\ SlotsInSection' /\ pages'[Slot] = q
    <3> HIDE DEF q
    <3> QED
      BY <2>1, <2>2, OneSlot DEF ShapeInv
  <2>5. StateShape'
    BY <1>1, <2>1, <2>3, <2>4 DEF ShapeInv, StateShape
  <2>6. /\ Slot' = Slot /\ Writeable' /\ pages'[Slot].addr # 0
        /\ ToCreate' <=> ToCreate
    BY <1>1, <2>1, <2>2, <2>4 DEF Slot, Writeable, ToCreate, SlotPages
  <2>7. Slot \in Slots /\ frame.op \in Ops /\ frame.addr \in SlotPages(Slot)
    BY DEF ShapeInv, FaultShape
  <2>8. loading' => ToCreate'
    BY <2>1, <2>6 DEF ShapeInv, FaultShape
  <2>9. FaultShape'
    BY <2>1, <2>6, <2>7, <2>8 DEF FaultShape, Pcs, Committing, SlotPages
  <2> QED
    BY <2>5, <2>9 DEF ShapeInv
<1> QED
  BY <1>2, <1>3

LEMMA EvictShape == ASSUME ShapeInv, Evict PROVE ShapeInv'
<1>1. pc = "evict" /\ ~loading /\ Slot \in Slots
  BY DEF ShapeInv, FaultShape, Evict
<1>2. CASE Writeable /\ pages[Slot].addr # 0 /\ CommitPage(pages[Slot])
  <2>1. pages[Slot] \in PageRecs /\ pages[Slot].addr \in SlotPages(Slot)
    BY <1>1, <1>2 DEF ShapeInv, StateShape, SlotsInSection
  <2> QED
    BY <1>1, <1>2, <2>1, CommitPageShape
<1>3. CASE Refill /\ UNCHANGED <<pages, memVars, treeVars, sealed, ignored>>
  BY <1>1, <1>3, RefillShape DEF ShapeInv, StateShape, memVars, treeVars
<1> QED
  BY <1>2, <1>3 DEF Evict

LEMMA CreateEmptyPageShape == ASSUME ShapeInv, CreateEmptyPage PROVE ShapeInv'
<1> DEFINE p == [addr |-> frame.cursor, val |-> Zero, iv |-> 0]
<1>1. /\ pc = "create" /\ Slot \in Slots /\ ToCreate /\ frame.cursor < frame.limit
      /\ CommitPage(p) /\ frame.cursor \in Nat /\ frame.limit \in Nat
  BY DEF ShapeInv, StateShape, FaultShape, CreateEmptyPage, LooseFrames
<1>2. Writeable /\ frame.cursor \in SlotPages(Slot)
  BY <1>1 DEF ToCreate
<1>3. p \in PageRecs /\ p.addr = frame.cursor
  BY <1>1, <1>2, DataAssumption, Layout DEF PageRecs, IVs, Writeable
<1> HIDE DEF p
<1> QED
  BY <1>1, <1>2, <1>3, CommitPageShape

\* Steps of an exchange that only send: nothing the shape is about changes but pc.
LEMMA SendShape ==
    ASSUME ShapeInv,
           \/ pc = "ack" /\ pc' = "old_proof"
           \/ pc = "create" /\ pc' = "page"
           \/ UNCHANGED pc,
           UNCHANGED <<pages, bss_max, stack_min, root, last_entry, frame, loading, sealed,
                       ignored>>
    PROVE  ShapeInv'
<1>1. Slot' = Slot /\ (Writeable' <=> Writeable) /\ (ToCreate' <=> ToCreate)
      /\ (SlotsInSection' <=> SlotsInSection)
  BY DEF Slot, Writeable, ToCreate, SlotPages, SlotsInSection
<1>2. StateShape'
  BY <1>1 DEF ShapeInv, StateShape
<1>3. FaultShape'
  BY <1>1 DEF ShapeInv, FaultShape, Pcs, Committing, SlotPages
<1> QED
  BY <1>2, <1>3 DEF ShapeInv

\* An entry in the tree of any proof gives a tree.
LEMMA HashShape ==
    ASSUME NEW proof \in Proofs, NEW e \in [addr : WritePages, iv : IVs]
    PROVE  /\ proof_hash(e, proof) \in Trees
           /\ \A f \in [addr : WritePages, iv : IVs] :
                 [proof_hash(f, proof) EXCEPT ![e.addr] = e.iv] \in Trees
<1>1. proof.tree \in Trees
  BY DEF Proofs
<1>2. \A t \in Trees : [t EXCEPT ![e.addr] = e.iv] \in Trees
  BY DEF Trees
<1>3. \A f \in [addr : WritePages, iv : IVs], t \in Trees : [t EXCEPT ![f.addr] = f.iv] \in Trees
  BY DEF Trees
<1> QED
  BY <1>1, <1>2, <1>3 DEF proof_hash

LEMMA CommitProofShape == ASSUME ShapeInv, CommitProof PROVE ShapeInv'
<1> DEFINE p   == pages[Slot]
           e   == Entry(p.addr, p.iv)
           old == Entry(p.addr, p.iv - 1)
<1>1. /\ pc = "old_proof" /\ Slot \in Slots /\ Committing /\ Writeable
      /\ frame.op \in Ops /\ frame.addr \in SlotPages(Slot)
      /\ loading => ToCreate
      /\ UNCHANGED <<pages, bss_max, stack_min, sealed>>
  BY DEF CommitProof, Waiting, ShapeInv, FaultShape, Committing, memVars
<1>2. e \in [addr : WritePages, iv : IVs] /\ last_entry \in [addr : WritePages, iv : IVs]
  <2>1. p.addr \in WritePages /\ p.iv \in IVs
    BY <1>1, WriteableAddr, ShapeOfPage DEF ShapeInv, FaultShape
  <2> QED
    BY <2>1 DEF Entry, ShapeInv, StateShape
<1>3. PICK proof \in Proofs :
         \/ /\ loading /\ merkle_insert(e, proof)
            /\ frame' = [frame EXCEPT !.cursor = @ + 1]
            /\ pc' = "create"
            /\ UNCHANGED <<loading, ignored>>
         \/ merkle_update(old, e, proof) /\ Refill /\ UNCHANGED ignored
         \/ SecondLeaf
         \/ Fail("merkle", TRUE) /\ UNCHANGED treeVars
  BY RepliesAreFormed DEF CommitProof
<1>4. CASE loading /\ merkle_insert(e, proof)
           /\ frame' = [frame EXCEPT !.cursor = @ + 1]
           /\ pc' = "create"
           /\ UNCHANGED <<loading, ignored>>
  <2>1. root' \in Trees /\ last_entry' \in [addr : WritePages, iv : IVs]
    BY <1>2, <1>4, HashShape DEF merkle_insert
  <2>2. /\ frame' \in LooseFrames /\ Slot' = Slot /\ frame'.cursor = frame.cursor + 1
        /\ frame'.limit = frame.limit /\ frame'.op = frame.op /\ frame'.addr = frame.addr
        /\ frame.cursor \in Nat
    BY <1>4 DEF ShapeInv, StateShape, LooseFrames, Slot
  <2>3. StateShape'
    BY <1>1, <1>4, <2>1, <2>2 DEF ShapeInv, StateShape, SlotsInSection, SlotPages
  <2>4. ToCreate'
    BY <1>1, <1>4, <2>2 DEF ToCreate, Writeable, SlotPages
  <2>5. FaultShape'
    BY <1>1, <1>4, <2>2, <2>4 DEF FaultShape, Pcs, Committing, SlotPages
  <2> QED
    BY <2>3, <2>5 DEF ShapeInv
<1>5. CASE merkle_update(old, e, proof) /\ Refill /\ UNCHANGED ignored
  <2>1. root' \in Trees /\ last_entry' \in [addr : WritePages, iv : IVs]
    BY <1>2, <1>5, HashShape DEF merkle_update
  <2> QED
    BY <1>1, <1>5, <2>1, RefillShape
<1>6. CASE SecondLeaf
  BY <1>1, <1>6, StopShape DEF SecondLeaf, Stop, treeVars
<1>7. CASE Fail("merkle", TRUE) /\ UNCHANGED treeVars
  <2>1. pages' \in [Slots -> PageRecs] /\ SlotsInSection'
    BY <1>1 DEF ShapeInv, StateShape, SlotsInSection, SlotPages
  <2> QED
    BY <1>1, <1>7, <2>1, FailShape DEF treeVars
<1> QED
  BY <1>3, <1>4, <1>5, <1>6, <1>7

LEMMA UseZeroPageShape == ASSUME ShapeInv, UseZeroPage PROVE ShapeInv'
<1> DEFINE p == [addr |-> frame.addr, val |-> Zero, iv |-> 1]
<1>1. /\ pc = "create" /\ ToCreate /\ frame.limit # 0
      /\ Slot \in Slots /\ frame.addr \in SlotPages(Slot) /\ frame.op \in Ops
      /\ Writeable /\ frame.addr \in Nat
      /\ bss_max \in Bss .. DataEnd /\ stack_min \in StackStart .. StackEnd
      /\ frame \in LooseFrames
  BY DEF ShapeInv, FaultShape, StateShape, UseZeroPage, ZeroPage, ToCreate, LooseFrames
<1>2. /\ pages' = [pages EXCEPT ![Slot] = p] /\ pc' = "access" /\ loading' = FALSE
      /\ UNCHANGED <<root, last_entry, frame, sealed, ignored>>
  BY DEF UseZeroPage, ZeroPage, treeVars
<1>3. p \in PageRecs /\ p.addr = frame.addr
  BY <1>1, Layout, DataAssumption DEF PageRecs, IVs, Writeable
<1>4. pages' \in [Slots -> PageRecs] /\ SlotsInSection'
  <2> HIDE DEF p
  <2> QED
    BY <1>1, <1>2, <1>3, OneSlot DEF ShapeInv
<1>5. bss_max' \in Bss .. DataEnd /\ stack_min' \in StackStart .. StackEnd
  <2>1. CASE Slot \in DataSlots
    <3>1. frame.addr \in DataPages \/ Slot \in CodeSlots
      BY <1>1, <2>1 DEF SlotPages
    <3>2. frame.addr \in DataPages /\ bss_max' = frame.addr + 1 /\ stack_min' = stack_min
      BY <1>1, <2>1, <3>1 DEF UseZeroPage, ZeroPage, Writeable
    <3>3. frame.addr + 1 >= Bss
      BY <1>1, <3>2, <2>1, LayoutAssumption DEF ToCreate
    <3> QED
      BY <1>1, <3>2, <3>3, LayoutAssumption DEF DataPages
  <2>2. CASE Slot \notin DataSlots
    <3>1. frame.addr \in StackPages
      BY <1>1, <2>2 DEF SlotPages, Writeable
    <3>2. stack_min' = frame.addr /\ bss_max' = bss_max
      BY <2>2 DEF UseZeroPage, ZeroPage
    <3> QED
      BY <1>1, <3>1, <3>2, LayoutAssumption DEF StackPages
  <2> QED
    BY <2>1, <2>2
<1>6. StateShape'
  BY <1>1, <1>2, <1>4, <1>5 DEF ShapeInv, StateShape
<1>7. FaultShape'
  BY <1>1, <1>2 DEF FaultShape, Pcs, Committing, Slot, SlotPages
<1> QED
  BY <1>6, <1>7 DEF ShapeInv

LEMMA RequestHmacShape == ASSUME ShapeInv, RequestHmac PROVE ShapeInv'
<1>1. /\ pc = "page" /\ pc' = "hmac" /\ Slot \in Slots /\ frame.addr \in SlotPages(Slot)
      /\ frame.op \in Ops
      /\ UNCHANGED <<bss_max, stack_min, root, last_entry, loading, sealed, ignored>>
  BY DEF RequestHmac, Waiting, memVars, treeVars, ShapeInv, FaultShape
<1>2. PICK ct \in Ciphertexts :
         /\ frame' = [frame EXCEPT !.ct = ct]
         /\ pages' = [pages EXCEPT ![Slot].addr = frame.addr,
                                   ![Slot].val = IF ct.iv = 0 THEN ct.val ELSE Garbage]
  BY RepliesAreFormed DEF RequestHmac
<1> DEFINE v == IF ct.iv = 0 THEN ct.val ELSE Garbage
           q == [pages[Slot] EXCEPT !.addr = frame.addr, !.val = v]
<1>3. ct \in [addr : Nat, iv : Nat, val : Vals \cup {Garbage}]
  BY Layout DEF ShapeInv, StateShape, Ciphertexts, Plain, Sealings, IVs
<1>4. /\ frame' \in LooseFrames /\ Slot' = Slot /\ frame'.addr = frame.addr
      /\ frame'.op = frame.op
  <2>1. frame \in LooseFrames
    BY DEF ShapeInv, StateShape
  <2> QED
    BY <1>2, <1>3, <2>1 DEF LooseFrames, Slot
<1>5. q \in PageRecs /\ q.addr = frame.addr
  <2>1. pages[Slot] \in PageRecs
    BY <1>1 DEF ShapeInv, StateShape
  <2>2. frame.addr \in {0} \cup CodePages \cup WritePages /\ v \in Vals \cup {Garbage}
    BY <1>1, <1>3 DEF SlotPages, WritePages
  <2> QED
    BY <2>1, <2>2 DEF PageRecs
<1>6. pages' = [pages EXCEPT ![Slot] = q]
  <2>1. pages[Slot] \in PageRecs /\ pages \in [Slots -> PageRecs]
    BY <1>1 DEF ShapeInv, StateShape
  <2> QED
    BY <1>1, <1>2, <2>1
<1>7. pages' \in [Slots -> PageRecs] /\ SlotsInSection'
  <2> HIDE DEF q
  <2> QED
    BY <1>1, <1>5, <1>6, OneSlot DEF ShapeInv
<1>8. StateShape'
  BY <1>1, <1>4, <1>7 DEF ShapeInv, StateShape
<1>9. FaultShape'
  BY <1>1, <1>4 DEF FaultShape, Pcs, Committing, SlotPages
<1> QED
  BY <1>8, <1>9 DEF ShapeInv

LEMMA RequestProofShape == ASSUME ShapeInv, RequestProof PROVE ShapeInv'
<1>1. /\ pc = "hmac" /\ Slot \in Slots /\ frame.addr \in SlotPages(Slot)
      /\ frame.op \in Ops /\ frame \in LooseFrames
      /\ UNCHANGED <<bss_max, stack_min, root, last_entry, sealed>>
  BY DEF RequestProof, Waiting, memVars, treeVars, ShapeInv, FaultShape, StateShape
<1>2. PICK mac \in Macs :
         \/ Fail("hmac", TRUE) /\ UNCHANGED pages
         \/ /\ pages' = [pages EXCEPT ![Slot].iv = mac.iv,
                             ![Slot].val = IF mac.iv = 0 THEN @
                                  ELSE decrypt_page(frame.ct, frame.addr, mac.iv)]
            /\ \/ Fail("read-only", TRUE)
               \/ pc' = "proof" /\ UNCHANGED <<frame, loading, ignored>>
               \/ pc' = "access" /\ loading' = FALSE /\ UNCHANGED <<frame, ignored>>
  BY RepliesAreFormed DEF RequestProof
<1> DEFINE v == IF mac.iv = 0 THEN pages[Slot].val
                ELSE decrypt_page(frame.ct, frame.addr, mac.iv)
           q == [pages[Slot] EXCEPT !.iv = mac.iv, !.val = v]
<1>3. mac.iv \in IVs
  <2>1. CASE \E a \in CodePages \cup DataImage : mac = ArchiveMac(a)
    BY <2>1, DataAssumption DEF ArchiveMac, Hmac, IVs
  <2>2. CASE \E c \in sealed : mac = Hmac(c, c.addr, c.iv)
    BY <2>2 DEF ShapeInv, StateShape, Sealings, Hmac
  <2> QED
    BY <2>1, <2>2 DEF Macs
<1>4. v \in Vals \cup {Garbage}
  <2>1. frame.ct.val \in Vals \cup {Garbage}
    BY <1>1 DEF LooseFrames
  <2>2. pages[Slot].val \in Vals \cup {Garbage}
    BY <1>1, ShapeOfPage DEF ShapeInv
  <2> QED
    BY <2>1, <2>2 DEF decrypt_page
<1>5. q \in PageRecs /\ q.addr = pages[Slot].addr /\ q.addr \in {0} \cup SlotPages(Slot)
  <2>1. pages[Slot] \in PageRecs /\ pages[Slot].addr \in {0} \cup SlotPages(Slot)
    BY <1>1 DEF ShapeInv, StateShape, SlotsInSection
  <2> HIDE DEF v
  <2> QED
    BY <1>3, <1>4, <2>1 DEF PageRecs
<1>6. CASE Fail("hmac", TRUE) /\ UNCHANGED pages
  <2>1. pages' \in [Slots -> PageRecs] /\ SlotsInSection'
    BY <1>6 DEF ShapeInv, StateShape, SlotsInSection, SlotPages
  <2> QED
    BY <1>1, <1>6, <2>1, FailShape
<1>7. CASE /\ pages' = [pages EXCEPT ![Slot].iv = mac.iv,
                             ![Slot].val = IF mac.iv = 0 THEN @
                                  ELSE decrypt_page(frame.ct, frame.addr, mac.iv)]
           /\ \/ Fail("read-only", TRUE)
              \/ pc' = "proof" /\ UNCHANGED <<frame, loading, ignored>>
              \/ pc' = "access" /\ loading' = FALSE /\ UNCHANGED <<frame, ignored>>
  <2>1. pages' = [pages EXCEPT ![Slot] = q]
    <3>1. pages[Slot] \in PageRecs /\ pages \in [Slots -> PageRecs]
      BY <1>1 DEF ShapeInv, StateShape
    <3> QED
      BY <1>1, <1>7, <3>1 DEF PageRecs
  <2>2. pages' \in [Slots -> PageRecs] /\ SlotsInSection'
    <3> HIDE DEF q
    <3> QED
      BY <1>1, <1>5, <2>1, OneSlot DEF ShapeInv
  <2>3. CASE Fail("read-only", TRUE)
    BY <1>1, <2>2, <2>3, FailShape
  <2>4. CASE /\ pc' \in {"proof", "access"} /\ loading' \in {loading, FALSE}
             /\ pc' = "access" => loading' = FALSE
             /\ UNCHANGED <<frame, ignored>>
    <3>1. StateShape'
      BY <1>1, <2>2, <2>4 DEF ShapeInv, StateShape
    <3>2. FaultShape'
      BY <1>1, <2>4 DEF FaultShape, Pcs, Committing, Slot, SlotPages
    <3> QED
      BY <3>1, <3>2 DEF ShapeInv
  <2> QED
    BY <1>7, <2>3, <2>4
<1> QED
  BY <1>2, <1>6, <1>7

LEMMA VerifyProofShape == ASSUME ShapeInv, VerifyProof PROVE ShapeInv'
<1>1. /\ pc = "proof" /\ Slot \in Slots /\ frame.addr \in SlotPages(Slot)
      /\ frame.op \in Ops
      /\ UNCHANGED <<pages, bss_max, stack_min, root, last_entry, sealed>>
      /\ pages' \in [Slots -> PageRecs] /\ SlotsInSection'
  BY DEF VerifyProof, Waiting, memVars, treeVars, ShapeInv, FaultShape, StateShape,
     SlotsInSection, SlotPages
<1>2. \/ pc' = "access" /\ loading' = FALSE /\ UNCHANGED <<frame, ignored>>
      \/ Fail("proof", TRUE)
  BY DEF VerifyProof
<1>3. CASE pc' = "access" /\ loading' = FALSE /\ UNCHANGED <<frame, ignored>>
  <2>1. StateShape'
    BY <1>1, <1>3 DEF ShapeInv, StateShape
  <2>2. FaultShape'
    BY <1>1, <1>3 DEF FaultShape, Pcs, Committing, Slot, SlotPages
  <2> QED
    BY <2>1, <2>2 DEF ShapeInv
<1>4. CASE Fail("proof", TRUE)
  BY <1>1, <1>4, FailShape
<1> QED
  BY <1>2, <1>3, <1>4

LEMMA NextShape == ASSUME ShapeInv, [Next]_vars PROVE ShapeInv'
<1>1. ASSUME NEW op \in {"read", "fetch", "draw"}, NEW a \in Accesses, Lookup(op, a, Zero)
      PROVE  ShapeInv'
  BY <1>1, LookupShape, LayoutAssumption, DataAssumption DEF Ops
<1>2. ASSUME NEW a \in Accesses, NEW v \in Vals, Lookup("write", a, v)
      PROVE  ShapeInv'
  BY <1>2, LookupShape, LayoutAssumption DEF Ops
<1>3. CASE Exit
  BY <1>3, StopShape DEF Exit, Stop, memVars, treeVars
<1>4. CASE CommitHmac \/ RequestPage
  BY <1>4, SendShape DEF CommitHmac, RequestPage, Waiting, memVars, treeVars
<1>5. CASE InvalidApdu
  <2>1. pages' \in [Slots -> PageRecs] /\ SlotsInSection'
    BY <1>5 DEF InvalidApdu, ShapeInv, StateShape, SlotsInSection, SlotPages
  <2> QED
    BY <1>5, <2>1, FailShape DEF InvalidApdu, memVars, treeVars
<1>6. CASE DeviceStep
  BY <1>4, <1>5, <1>6, AccessShape, EvictShape, CommitProofShape, CreateEmptyPageShape,
     UseZeroPageShape, RequestHmacShape, RequestProofShape, VerifyProofShape
     DEF DeviceStep
<1>7. CASE HostStep \/ UNCHANGED vars
  BY <1>7, SendShape DEF HostStep, vars, memVars, treeVars
<1> QED
  BY <1>1, <1>2, <1>3, <1>6, <1>7 DEF Next, AppStep, Stopped

\* The device's state keeps its shape (memory.c, merkle.c), even after a failure was
\* ignored: bss_max and stack_min stay in their sections, and every encryption is of a
\* page of a writeable section under an IV other than 0 and within the 32-bit limit.
THEOREM TypeCorrect == Spec => []TypeOK
<1>1. Init => ShapeInv
  BY InitShape
<1>2. ShapeInv /\ [Next]_vars => ShapeInv'
  BY NextShape
<1>3. ShapeInv => TypeOK
  BY DEF ShapeInv, StateShape, FaultShape, TypeOK, Pcs
<1> QED
  BY <1>1, <1>2, <1>3, PTL DEF Spec
-----------------------------------------------------------------------------
\* Only a verified proof changes the root, at the address of the page committed.
LEMMA CommitProofRoot ==
    ASSUME IInv, CommitProof
    PROVE  \A a \in WritePages : root'[a] # root[a] =>
                root'[a] = IF root[a] = None THEN 1 ELSE root[a] + 1
<1> DEFINE p   == pages[Slot]
           e   == Entry(p.addr, p.iv)
           old == Entry(p.addr, p.iv - 1)
<1>1. /\ pc = "old_proof" /\ Slot \in Slots /\ Committing /\ pc # "stopped"
      /\ frame.addr \in SlotPages(Slot)
  BY DEF CommitProof, Waiting, IInv, FrameInv, Committing
<1>2. TypeInv /\ root \in Trees /\ last_entry \in [addr : WritePages, iv : IVs]
  BY DEF IInv, TypeInv
<1>3. PICK proof \in Proofs :
         \/ loading /\ merkle_insert(e, proof)
         \/ ~loading /\ merkle_update(old, e, proof)
         \/ root' = root
  BY RepliesAreFormed DEF CommitProof, SecondLeaf, treeVars
<1>4. CASE loading /\ merkle_insert(e, proof)
  <2>1. p.addr = frame.cursor /\ p.iv = 1 /\ frame.limit # 0 /\ frame.cursor < frame.limit
    BY <1>1, <1>4 DEF IInv, FrameInv
  <2>2. root[frame.cursor] = None
    BY <1>1, <1>4, <2>1, CursorIsFresh
  <2>3. proof_hash(last_entry, proof) = root
    BY <1>2, <1>4, VerifiedProof DEF merkle_insert
  <2>4. root' = [root EXCEPT ![frame.cursor] = 1]
    BY <1>4, <2>1, <2>3 DEF merkle_insert, Entry
  <2> QED
    BY <1>2, <2>2, <2>4 DEF Trees
<1>5. CASE ~loading /\ merkle_update(old, e, proof)
  <2>1. Slot \notin CodeSlots /\ p.addr # 0 /\ Live(Slot)
    BY <1>1, <1>5 DEF IInv, FrameInv, Writeable, Live
  <2>2. p.addr \in WritePages /\ p.iv \in IVs
    BY <1>1, <2>1, Layout, Typing DEF IInv, SlotsInSection
  <2>3. root[p.addr] # None /\ p.iv = root[p.addr] + 1 /\ root[p.addr] \in Int
    BY <1>1, <2>1, <2>2, Typing DEF IInv, CounterInv, Ahead
  <2>4. p.iv - 1 \in IVs
    BY <1>2, <2>2, <2>3, DataAssumption DEF IVs, Trees, None
  <2>5. old \in [addr : WritePages, iv : IVs] /\ old.addr = p.addr
    BY <2>2, <2>4 DEF Entry
  <2>6. root' = [root EXCEPT ![p.addr] = p.iv]
    <3>1. merkle_verify_proof(old, proof) /\ root' = proof_hash(e, proof)
      BY <1>5 DEF merkle_update
    <3> QED
      BY <1>2, <2>2, <2>5, <3>1, VerifiedProof
  <2> QED
    BY <1>2, <2>3, <2>6 DEF Trees
<1>6. CASE root' = root
  BY <1>6
<1> QED
  BY <1>3, <1>4, <1>5, <1>6

\* The steps that leave the root alone: all but CommitProof.
LEMMA RootUnchanged ==
    ASSUME Next, ~CommitProof
    PROVE  root' = root
<1>1. CASE AppStep
  <2>1. ASSUME NEW op, NEW a, NEW v, Lookup(op, a, v) PROVE root' = root
    BY <2>1 DEF Lookup, treeVars
  <2> QED
    BY <1>1, <2>1 DEF AppStep, Exit, treeVars
<1>2. CASE DeviceStep
  <2>1. CASE Access \/ CommitHmac \/ UseZeroPage \/ RequestPage \/ RequestHmac
             \/ RequestProof \/ VerifyProof \/ InvalidApdu
    BY <2>1 DEF Access, CommitHmac, UseZeroPage, ZeroPage, RequestPage, RequestHmac,
       RequestProof, VerifyProof, InvalidApdu, treeVars
  <2>2. CASE Evict \/ CreateEmptyPage
    BY <2>2 DEF Evict, CreateEmptyPage, CommitPage, treeVars
  <2> QED
    BY <1>2, <2>1, <2>2 DEF DeviceStep
<1>3. CASE HostStep \/ Stopped
  BY <1>3 DEF HostStep, Stopped, vars, treeVars
<1> QED
  BY <1>1, <1>2, <1>3 DEF Next

\* merkle_insert and merkle_update only ever add one to one counter, until the app goes on
\* after a draw that failed half-way.
THEOREM CountersOnlyGrow == Spec => CountersGrowByOne
<1> DEFINE A == ~ignored' => \A a \in WritePages : root'[a] # root[a] =>
                    root'[a] = IF root[a] = None THEN 1 ELSE root[a] + 1
<1>1. (~ignored => IInv) /\ [Next]_vars => [A]_vars
  <2>1. SUFFICES ASSUME IInv, Next PROVE A
    BY IgnoredForGood
  <2>2. CASE CommitProof
    BY <2>1, <2>2, CommitProofRoot
  <2>3. CASE ~CommitProof
    BY <2>1, <2>3, RootUnchanged
  <2> QED
    BY <2>2, <2>3
<1>2. Spec => [][A]_vars
  BY <1>1, Invariance, PTL DEF Spec
<1> QED
  BY <1>2 DEF CountersGrowByOne
-----------------------------------------------------------------------------
(***************************************************************************)
(* Paging implements FlatMemory: each step of the device is one step of a   *)
(* flat memory, or none.  The argument follows one page: what its slot      *)
(* holds is what the app sees; giving the slot up leaves the same contents  *)
(* behind under the counter of its leaf; and what is accepted for that      *)
(* counter later can only be the contents left behind.                      *)
(***************************************************************************)
AllPages == CodePages \cup WritePages
Holds(s, a) == s \in Slots /\ Live(s) /\ pages[s].addr = a

\* The contents a page has when it is in no slot.
StoredVal(a) ==
    IF a \in CodePages THEN Image[a]
    ELSE IF root[a] = None THEN Zero
    ELSE IF root[a] = 0 THEN Image[a]
    ELSE (CHOOSE c \in sealed : c.addr = a /\ c.iv = root[a]).val

HeldFact ==
    IInv => \A a \in AllPages, s \in Slots : Holds(s, a) => CurrentVal(a) = pages[s].val

StoredFact ==
    IInv => \A a \in AllPages : (\A s \in Slots : ~Holds(s, a)) => CurrentVal(a) = StoredVal(a)

SealedFact ==
    IInv => \A a \in WritePages : \A c \in sealed :
                c.addr = a /\ c.iv = root[a] => StoredVal(a) = c.val

\* A page in a slot has the contents of the slot.
LEMMA Held == HeldFact
<1> SUFFICES ASSUME IInv, NEW a \in AllPages, NEW s \in Slots, Holds(s, a)
             PROVE  CurrentVal(a) = pages[s].val
  BY DEF HeldFact
<1> DEFINE held == {t \in Slots : Live(t) /\ pages[t].addr = a}
<1>1. a # 0
  BY Layout DEF AllPages
<1>2. held = {s}
  BY <1>1 DEF IInv, HeldOnce, Holds
<1>3. (CHOOSE t \in held : TRUE) = s
  BY <1>2
<1> QED
  BY <1>2, <1>3 DEF CurrentVal

\* Any other page has the contents its leaf stands for.
LEMMA Stored == StoredFact
  BY DEF StoredFact, StoredVal, CurrentVal, Holds

\* They are the ones the device encrypted under the leaf's counter.
LEMMA Sealed == SealedFact
<1> SUFFICES ASSUME IInv, NEW a \in WritePages, NEW c \in sealed,
                    c.addr = a, c.iv = root[a]
             PROVE  StoredVal(a) = c.val
  BY DEF SealedFact
<1>1. a \notin CodePages /\ c.iv # 0 /\ c.iv \in Nat
  BY LayoutAssumption DEF IInv, TypeInv, SealedPages, IVs
<1>2. root[a] # None /\ root[a] # 0
  BY <1>1 DEF None
<1> DEFINE d == CHOOSE d \in sealed : d.addr = a /\ d.iv = root[a]
<1>3. d \in sealed /\ d.addr = a /\ d.iv = root[a]
  OBVIOUS
<1>4. d.val = c.val
  BY <1>3 DEF IInv, IvsOnce
<1> QED
  BY <1>1, <1>2, <1>4 DEF StoredVal

LEMMA HeldNext == HeldFact' /\ StoredFact' /\ SealedFact'
  BY Held, Stored, Sealed, PTL

\* More encryptions do not change what a leaf stands for.
LEMMA StoredKept ==
    ASSUME IInv, IInv', sealed \subseteq sealed', NEW a \in AllPages,
           a \in WritePages => root'[a] = root[a]
    PROVE  StoredVal(a)' = StoredVal(a)
<1>1. CASE a \in CodePages
  BY <1>1 DEF StoredVal
<1>2. CASE a \notin CodePages /\ root[a] > 0
  <2>1. a \in WritePages
    BY <1>2 DEF AllPages
  <2>2. PICK c \in sealed : c.addr = a /\ c.iv = root[a]
    BY <1>2, <2>1 DEF IInv, CoverInv
  <2>3. StoredVal(a) = c.val
    BY <2>1, <2>2, Sealed DEF SealedFact
  <2>4. StoredVal(a)' = c.val
    BY <2>1, <2>2, HeldNext DEF SealedFact
  <2> QED
    BY <2>3, <2>4
<1>3. CASE a \notin CodePages /\ ~(root[a] > 0)
  <2>1. a \in WritePages
    BY <1>3 DEF AllPages
  <2>2. root[a] = None \/ root[a] = 0
    BY <1>3, <2>1, DataAssumption DEF IInv, TypeInv, Trees, IVs, None
  <2> QED
    BY <1>3, <2>1, <2>2 DEF StoredVal
<1> QED
  BY <1>1, <1>2, <1>3

\* A step that changes neither a live slot nor the root.
LEMMA SameMem ==
    ASSUME IInv, IInv', sealed \subseteq sealed', root' = root,
           \A s \in Slots : Live(s)' <=> Live(s),
           \A s \in Slots : Live(s) => /\ pages'[s].addr = pages[s].addr
                                       /\ pages'[s].val = pages[s].val
    PROVE  \A a \in AllPages : CurrentVal(a)' = CurrentVal(a)
<1>1. TAKE a \in AllPages
<1>2. \A s \in Slots : Holds(s, a)' <=> Holds(s, a)
  BY DEF Holds
<1>3. CASE \E s \in Slots : Holds(s, a)
  <2>1. PICK s \in Slots : Holds(s, a)
    BY <1>3
  <2>2. CurrentVal(a) = pages[s].val /\ CurrentVal(a)' = pages'[s].val
    BY <1>2, <2>1, Held, HeldNext DEF HeldFact
  <2> QED
    BY <2>1, <2>2 DEF Holds
<1>4. CASE \A s \in Slots : ~Holds(s, a)
  <2>1. CurrentVal(a) = StoredVal(a) /\ CurrentVal(a)' = StoredVal(a)'
    BY <1>2, <1>4, Stored, HeldNext DEF StoredFact
  <2> QED
    BY <2>1, StoredKept
<1> QED
  BY <1>3, <1>4

\* A slot in use is given up: the page is a page of code, or none, or its contents
\* were encrypted under the counter its leaf has now.
LEMMA GiveUp ==
    ASSUME IInv, IInv', ~loading, loading', Slot' = Slot, Slot \in Slots,
           UNCHANGED <<pages, sealed>>,
           \A a \in WritePages : a # pages[Slot].addr => root'[a] = root[a],
           \/ pages[Slot].addr = 0 /\ root' = root
           \/ Slot \in CodeSlots /\ root' = root
           \/ encrypt_page(pages[Slot].addr, root'[pages[Slot].addr], pages[Slot].val) \in sealed
    PROVE  \A a \in AllPages : CurrentVal(a)' = CurrentVal(a)
<1>1. TAKE a \in AllPages
<1>2. \A s \in Slots : Holds(s, a)' <=> Holds(s, a) /\ s # Slot
  BY DEF Holds, Live
<1>3. a # 0
  BY Layout DEF AllPages
<1>4. CASE pages[Slot].addr = a
  <2>1. Holds(Slot, a)
    BY <1>4 DEF Holds, Live
  <2>2. CurrentVal(a) = pages[Slot].val
    BY <2>1, Held DEF HeldFact
  <2>3. \A s \in Slots : ~Holds(s, a)'
    BY <1>2, <1>3, <1>4 DEF IInv, HeldOnce, Holds, Live
  <2>4. CurrentVal(a)' = StoredVal(a)'
    BY <2>3, HeldNext DEF StoredFact
  <2>5. CASE Slot \in CodeSlots
    <3>1. pages[Slot].val = Image[a] /\ a \in CodePages
      BY <1>3, <1>4, <2>1, <2>5 DEF IInv, ValInv, Holds, SlotsInSection, SlotPages
    <3> QED
      BY <2>2, <2>4, <3>1 DEF StoredVal
  <2>6. CASE Slot \notin CodeSlots
    <3>1. a \in WritePages
      BY <1>3, <1>4, <2>6, Layout DEF IInv, SlotsInSection
    <3>2. encrypt_page(a, root'[a], pages[Slot].val) \in sealed
      BY <1>3, <1>4, <2>6
    <3>3. StoredVal(a)' = pages[Slot].val
      BY <3>1, <3>2, HeldNext DEF SealedFact, encrypt_page
    <3> QED
      BY <2>2, <2>4, <3>3
  <2> QED
    BY <2>5, <2>6
<1>5. CASE pages[Slot].addr # a
  <2>1. \A s \in Slots : Holds(s, a)' <=> Holds(s, a)
    BY <1>2, <1>5 DEF Holds
  <2>2. CASE \E s \in Slots : Holds(s, a)
    <3>1. PICK s \in Slots : Holds(s, a)
      BY <2>2
    <3> QED
      BY <2>1, <3>1, Held, HeldNext DEF HeldFact
  <2>3. CASE \A s \in Slots : ~Holds(s, a)
    <3>1. CurrentVal(a) = StoredVal(a) /\ CurrentVal(a)' = StoredVal(a)'
      BY <2>1, <2>3, Stored, HeldNext DEF StoredFact
    <3> QED
      BY <1>5, <3>1, StoredKept
  <2> QED
    BY <2>2, <2>3
<1> QED
  BY <1>4, <1>5

\* A slot is taken for the page asked for, with the contents its leaf stands for.
LEMMA TakeOver ==
    ASSUME IInv, IInv', pc \notin {"run", "access", "stopped"},
           loading, ~loading', Slot' = Slot, Slot \in Slots,
           UNCHANGED <<root, sealed>>,
           \A s \in Slots : s # Slot => pages'[s] = pages[s],
           pages'[Slot].addr = frame.addr, frame.addr \in AllPages,
           StoredVal(frame.addr) = pages'[Slot].val
    PROVE  \A a \in AllPages : CurrentVal(a)' = CurrentVal(a)
<1>1. TAKE a \in AllPages
<1>2. CASE a = frame.addr
  <2>1. \A s \in Slots : ~Holds(s, a)
    BY <1>2 DEF IInv, MissInv, Holds
  <2>2. CurrentVal(a) = StoredVal(a)
    BY <2>1, Stored DEF StoredFact
  <2>3. Holds(Slot, a)'
    BY <1>2 DEF Holds, Live
  <2>4. CurrentVal(a)' = pages'[Slot].val
    BY <2>3, HeldNext DEF HeldFact
  <2> QED
    BY <1>2, <2>2, <2>4
<1>3. CASE a # frame.addr
  <2>1. \A s \in Slots : /\ Holds(s, a)' <=> Holds(s, a)
                         /\ Holds(s, a) => pages'[s].val = pages[s].val
    BY <1>3 DEF Holds, Live
  <2>2. CASE \E s \in Slots : Holds(s, a)
    <3>1. PICK s \in Slots : Holds(s, a)
      BY <2>2
    <3> QED
      BY <2>1, <3>1, Held, HeldNext DEF HeldFact
  <2>3. CASE \A s \in Slots : ~Holds(s, a)
    <3>1. CurrentVal(a) = StoredVal(a) /\ CurrentVal(a)' = StoredVal(a)'
      BY <2>1, <2>3, Stored, HeldNext DEF StoredFact
    <3> QED
      BY <3>1, StoredKept
  <2> QED
    BY <2>2, <2>3
<1> QED
  BY <1>2, <1>3

\* A page that did not exist becomes a leaf: it was and is a page of zeroes.
LEMMA Create ==
    ASSUME IInv, IInv', pc # "stopped",
           NEW b \in WritePages, root[b] = None, root'[b] = 1,
           \A a \in WritePages : a # b => root'[a] = root[a],
           encrypt_page(b, 1, Zero) \in sealed,
           \A s \in Slots : Live(s)' <=> Live(s),
           UNCHANGED <<pages, sealed>>
    PROVE  \A a \in AllPages : CurrentVal(a)' = CurrentVal(a)
<1>1. TAKE a \in AllPages
<1>2. \A s \in Slots : Holds(s, a)' <=> Holds(s, a)
  BY DEF Holds
<1>3. CASE \E s \in Slots : Holds(s, a)
  <2>1. PICK s \in Slots : Holds(s, a)
    BY <1>3
  <2> QED
    BY <1>2, <2>1, Held, HeldNext DEF HeldFact
<1>4. CASE \A s \in Slots : ~Holds(s, a)
  <2>1. CurrentVal(a) = StoredVal(a) /\ CurrentVal(a)' = StoredVal(a)'
    BY <1>2, <1>4, Stored, HeldNext DEF StoredFact
  <2>2. CASE a = b
    <3>1. StoredVal(b) = Zero
      BY LayoutAssumption DEF StoredVal
    <3>2. StoredVal(b)' = Zero
      BY HeldNext DEF SealedFact, encrypt_page
    <3> QED
      BY <2>1, <2>2, <3>1, <3>2
  <2>3. CASE a # b
    BY <2>1, <2>3, StoredKept
  <2> QED
    BY <2>2, <2>3
<1> QED
  BY <1>3, <1>4
-----------------------------------------------------------------------------
\* Instructions are fetched from code pages only (get_code_page).
FetchInv == pc \notin {"run", "stopped"} /\ frame.op = "fetch" => Slot \in CodeSlots

LEMMA FetchLookup ==
    ASSUME NEW op \in Ops, NEW a, NEW v, Lookup(op, a, v)
    PROVE  FetchInv'
<1>1. CASE pc' \in {"run", "stopped"}
  BY <1>1 DEF FetchInv
<1>2. ASSUME NEW s \in get_cache(op, a),
             frame' = [NoFrame EXCEPT !.op = op, !.addr = a, !.val = v, !.slot = s]
      PROVE  FetchInv'
  <2>1. frame'.op = op /\ frame'.slot = s
    BY <1>2 DEF NoFrame
  <2> QED
    BY <1>2, <2>1 DEF FetchInv, get_cache, Slot
<1> QED
  BY <1>1, <1>2 DEF Lookup, Stop, find_page, evict_page

\* The locals of a fault keep its access and its slot until the access is made.
LEMMA FrameKept ==
    ASSUME IInv, DeviceStep
    PROVE  /\ pc \notin {"run", "stopped"}
           /\ \/ pc' \in {"run", "stopped"}
              \/ frame'.op = frame.op /\ frame'.slot = frame.slot
<1>1. frame \in Frames
  BY DEF IInv, TypeInv
<1>2. CASE Access \/ CommitHmac \/ UseZeroPage \/ RequestPage \/ VerifyProof \/ InvalidApdu
           \/ RequestProof
  BY <1>2 DEF Access, CommitHmac, UseZeroPage, ZeroPage, RequestPage, VerifyProof, InvalidApdu,
     RequestProof, Waiting, Fail, Stop
<1>3. CASE Evict \/ CreateEmptyPage
  BY <1>1, <1>3 DEF Evict, CreateEmptyPage, CommitPage, Refill, Fail, Stop, Frames
<1>4. CASE CommitProof \/ RequestHmac
  BY <1>1, <1>4 DEF CommitProof, SecondLeaf, RequestHmac, Refill, Fail, Stop, Waiting, Frames
<1> QED
  BY <1>2, <1>3, <1>4 DEF DeviceStep

LEMMA NextFetchInv == ASSUME IInv, FetchInv, [Next]_vars PROVE FetchInv'
<1>1. CASE AppStep
  BY <1>1, FetchLookup DEF AppStep, Exit, Stop, FetchInv, Ops
<1>2. CASE DeviceStep
  BY <1>2, FrameKept DEF FetchInv, Slot
<1>3. CASE HostStep \/ UNCHANGED vars
  BY <1>3 DEF HostStep, FetchInv, Slot, vars
<1> QED
  BY <1>1, <1>2, <1>3 DEF Next, Stopped
-----------------------------------------------------------------------------
(* Each action, as a step of the flat memory. *)

MemKept == \A a \in AllPages : CurrentVal(a)' = CurrentVal(a)

\* mem_read, get_instruction: the access returns the contents of the page; and
\* mem_write: it changes those of the page only.
LEMMA AccessStep ==
    ASSUME IInv, IInv', FetchInv, Access
    PROVE  /\ frame.addr \in AllPages
           /\ \/ /\ frame.op \in {"read", "fetch", "draw"} /\ MemKept
                 /\ frame.op = "fetch" => frame.addr \in CodePages
                 /\ out' = [op |-> frame.op, addr |-> frame.addr, val |-> CurrentVal(frame.addr)]
              \/ /\ frame.addr \in WritePages /\ frame.val \in Vals
                 /\ out' = [op |-> "write", addr |-> frame.addr, val |-> frame.val]
                 /\ \A a \in AllPages : a = frame.addr => CurrentVal(a)' = frame.val
                 /\ \A a \in AllPages : a # frame.addr => CurrentVal(a)' = CurrentVal(a)
<1>1. /\ pc = "access" /\ ~loading /\ Slot \in Slots /\ frame.addr \in SlotPages(Slot)
      /\ pages[Slot].addr = frame.addr /\ frame.op \in Ops
      /\ frame.op = "write" => Slot \notin CodeSlots
      /\ UNCHANGED <<root, sealed, loading>>
  BY DEF IInv, FrameInv, Access, Writeable, treeVars
<1>2. \A s \in Slots : Live(s) /\ Live(s)'
  BY <1>1 DEF Live
<1>3. /\ frame.addr \in AllPages
      /\ Slot \in CodeSlots => frame.addr \in CodePages
      /\ Slot \notin CodeSlots => frame.addr \in WritePages
  BY <1>1, Layout DEF AllPages, SlotPages
<1>4. CASE frame.op # "write"
  <2>1. /\ out' = [op |-> frame.op, addr |-> frame.addr, val |-> pages[Slot].val]
        /\ pages' = pages
    BY <1>4 DEF Access
  <2>2. MemKept
    BY <1>1, <1>2, <2>1, SameMem DEF MemKept
  <2>3. CurrentVal(frame.addr) = pages[Slot].val
    BY <1>1, <1>2, <1>3, Held DEF HeldFact, Holds
  <2>4. frame.op = "fetch" => frame.addr \in CodePages
    BY <1>1, <1>3 DEF FetchInv
  <2> QED
    BY <1>1, <1>3, <1>4, <2>1, <2>2, <2>3, <2>4 DEF Ops
<1>5. CASE frame.op = "write"
  <2>1. /\ out' = [op |-> "write", addr |-> frame.addr, val |-> frame.val]
        /\ pages' = [pages EXCEPT ![Slot].val = frame.val]
    BY <1>5 DEF Access
  <2>2. /\ \A s \in Slots : s # Slot => pages'[s] = pages[s]
        /\ pages'[Slot].addr = frame.addr /\ pages'[Slot].val = frame.val
    <3>1. pages \in [Slots -> PageRecs] /\ pages[Slot] \in PageRecs
      BY <1>1 DEF IInv, TypeInv
    <3> QED
      BY <1>1, <2>1, <3>1 DEF PageRecs
  <2>3. ASSUME NEW a \in AllPages, a = frame.addr PROVE CurrentVal(a)' = frame.val
    <3>1. PICK s \in Slots : s = Slot
      BY <1>1
    <3>2. Holds(s, a)'
      BY <1>2, <2>2, <2>3, <3>1 DEF Holds
    <3> QED
      BY <2>2, <3>1, <3>2, HeldNext DEF HeldFact
  <2>4. ASSUME NEW a \in AllPages, a # frame.addr PROVE CurrentVal(a)' = CurrentVal(a)
    <3>1. \A s \in Slots : /\ Holds(s, a)' <=> Holds(s, a)
                           /\ Holds(s, a) => pages'[s].val = pages[s].val
      BY <1>1, <1>2, <2>2, <2>4 DEF Holds
    <3>2. CASE \E s \in Slots : Holds(s, a)
      <4>1. PICK s \in Slots : Holds(s, a)
        BY <3>2
      <4> QED
        BY <3>1, <4>1, Held, HeldNext DEF HeldFact
    <3>3. CASE \A s \in Slots : ~Holds(s, a)
      <4>1. CurrentVal(a) = StoredVal(a) /\ CurrentVal(a)' = StoredVal(a)'
        BY <3>1, <3>3, Stored, HeldNext DEF StoredFact
      <4> QED
        BY <1>1, <4>1, StoredKept
    <3> QED
      BY <3>2, <3>3
  <2>5. frame.val \in Vals
    BY Typing DEF IInv
  <2> QED
    BY <1>1, <1>3, <1>5, <2>1, <2>3, <2>4, <2>5
<1> QED
  BY <1>4, <1>5

LEMMA EvictStep == ASSUME IInv, IInv', Evict PROVE MemKept /\ out' = out
<1>1. pc = "evict" /\ ~loading /\ Slot \in Slots
  BY DEF IInv, FrameInv, Evict
<1>2. CASE Writeable /\ pages[Slot].addr # 0
  <2>1. /\ CommitPage(pages[Slot]) /\ ~loading'
        /\ UNCHANGED <<root, out>>
    BY <1>1, <1>2 DEF Evict, CommitPage, Fail, treeVars
  <2>2. pages \in [Slots -> PageRecs] /\ sealed \subseteq sealed'
    BY <2>1 DEF IInv, TypeInv, CommitPage
  <2>3. \A s \in Slots : pages'[s].addr = pages[s].addr /\ pages'[s].val = pages[s].val
    <3>1. pages[Slot] \in PageRecs
      BY <1>1, <2>2
    <3>2. CASE pages' = [pages EXCEPT ![Slot] = pages[Slot]]
      BY <1>1, <2>2, <3>2
    <3>3. CASE pages' = [pages EXCEPT ![Slot] = [pages[Slot] EXCEPT !.iv = @ + 1]]
      BY <1>1, <2>2, <3>1, <3>3 DEF PageRecs
    <3> QED
      BY <2>1, <3>2, <3>3 DEF CommitPage
  <2>4. \A s \in Slots : Live(s)' <=> Live(s)
    BY <1>1, <2>1 DEF Live
  <2> QED
    BY <2>1, <2>2, <2>3, <2>4, SameMem DEF MemKept
<1>3. CASE ~(Writeable /\ pages[Slot].addr # 0)
  <2>1. Refill /\ UNCHANGED <<pages, root, sealed, out>>
    BY <1>3 DEF Evict, treeVars
  <2>2. frame'.slot = frame.slot /\ loading'
    BY <2>1 DEF Refill, IInv, TypeInv, Frames
  <2> QED
    BY <1>1, <1>3, <2>1, <2>2, GiveUp DEF MemKept, Slot, Writeable
<1> QED
  BY <1>2, <1>3

LEMMA CommitProofStep == ASSUME IInv, IInv', CommitProof PROVE MemKept /\ out' = out
<1> DEFINE p   == pages[Slot]
           e   == Entry(p.addr, p.iv)
           old == Entry(p.addr, p.iv - 1)
<1>1. /\ pc = "old_proof" /\ Slot \in Slots /\ Committing /\ pc # "stopped"
      /\ frame.addr \in SlotPages(Slot)
      /\ UNCHANGED <<pages, sealed, out>>
  BY DEF CommitProof, Waiting, IInv, FrameInv, Committing
<1>2. TypeInv /\ root \in Trees /\ last_entry \in [addr : WritePages, iv : IVs]
      /\ frame \in Frames
  BY DEF IInv, TypeInv
<1>3. InFlight \in sealed /\ InFlight = encrypt_page(p.addr, p.iv, p.val)
  BY <1>1 DEF IInv, SealedInv, InFlight
<1>4. PICK proof \in Proofs :
         \/ /\ loading /\ merkle_insert(e, proof)
            /\ frame' = [frame EXCEPT !.cursor = @ + 1] /\ UNCHANGED loading
         \/ ~loading /\ merkle_update(old, e, proof) /\ Refill
         \/ UNCHANGED <<root, frame, loading>>
  <2>1. \A e1 : Fail(e1, TRUE) => UNCHANGED <<frame, loading>>
    BY FailStops DEF IInv
  <2> QED
    BY <2>1, RepliesAreFormed DEF CommitProof, SecondLeaf, treeVars
<1>5. CASE /\ loading /\ merkle_insert(e, proof)
           /\ frame' = [frame EXCEPT !.cursor = @ + 1] /\ UNCHANGED loading
  <2>1. /\ p = [addr |-> frame.cursor, val |-> Zero, iv |-> 1]
        /\ frame.limit # 0 /\ frame.cursor < frame.limit
    BY <1>1, <1>5 DEF IInv, FrameInv
  <2>2. root[frame.cursor] = None /\ frame.cursor \in WritePages
    BY <1>1, <1>5, <2>1, CursorIsFresh
  <2>3. proof_hash(last_entry, proof) = root
    BY <1>2, <1>5, VerifiedProof DEF merkle_insert
  <2>4. root' = [root EXCEPT ![frame.cursor] = 1]
    BY <1>5, <2>1, <2>3 DEF merkle_insert, Entry
  <2>5. \A s \in Slots : Live(s)' <=> Live(s)
    BY <1>2, <1>5 DEF Live, Slot, Frames
  <2>6. encrypt_page(frame.cursor, 1, Zero) \in sealed
    BY <1>3, <2>1
  <2>7. /\ root'[frame.cursor] = 1
        /\ \A a \in WritePages : a # frame.cursor => root'[a] = root[a]
    BY <1>2, <2>2, <2>4 DEF Trees
  <2> QED
    BY <1>1, <2>2, <2>5, <2>6, <2>7, Create DEF MemKept
<1>6. CASE ~loading /\ merkle_update(old, e, proof) /\ Refill
  <2>1. Slot \notin CodeSlots /\ p.addr # 0 /\ Live(Slot)
    BY <1>1, <1>6 DEF IInv, FrameInv, Writeable, Live
  <2>2. p.addr \in WritePages /\ p.iv \in IVs
    BY <1>1, <2>1, Layout, Typing DEF IInv, SlotsInSection
  <2>3. p.iv # 0
    BY <1>2, <1>3 DEF TypeInv, SealedPages, encrypt_page
  <2>4. old \in [addr : WritePages, iv : IVs] /\ old.addr = p.addr
    BY <2>2, <2>3, DataAssumption DEF Entry, IVs
  <2>5. root' = [root EXCEPT ![p.addr] = p.iv]
    <3>1. merkle_verify_proof(old, proof) /\ root' = proof_hash(e, proof)
      BY <1>6 DEF merkle_update
    <3> QED
      BY <1>2, <2>2, <2>4, <3>1, VerifiedProof
  <2>6. /\ root'[p.addr] = p.iv
        /\ \A a \in WritePages : a # p.addr => root'[a] = root[a]
    BY <1>2, <2>2, <2>5 DEF Trees
  <2>7. Slot' = Slot /\ loading'
    BY <1>2, <1>6 DEF Refill, Slot, Frames
  <2>8. encrypt_page(p.addr, root'[p.addr], p.val) \in sealed
    BY <1>3, <2>6
  <2> QED
    BY <1>1, <1>6, <2>6, <2>7, <2>8, GiveUp DEF MemKept
<1>7. CASE UNCHANGED <<root, frame, loading>>
  <2>1. \A s \in Slots : Live(s)' <=> Live(s)
    BY <1>7 DEF Live, Slot
  <2> QED
    BY <1>1, <1>7, <2>1, SameMem DEF MemKept
<1> QED
  BY <1>4, <1>5, <1>6, <1>7

\* The slot being refilled is the only one that changes.
LEMMA RefillingStep ==
    ASSUME IInv, IInv', CreateEmptyPage \/ RequestPage \/ RequestHmac \/ CommitHmac \/ InvalidApdu
    PROVE  MemKept /\ out' = out
<1>1. /\ UNCHANGED <<root, loading, out>> /\ sealed \subseteq sealed'
      /\ frame'.slot = frame.slot
      /\ pages' # pages => loading
      /\ \A s \in Slots : s # Slot => pages'[s] = pages[s]
  <2>1. frame \in Frames /\ pages \in [Slots -> PageRecs]
    BY DEF IInv, TypeInv
  <2>2. CASE CreateEmptyPage
    BY <2>1, <2>2, DataAssumption DEF CreateEmptyPage, CommitPage, treeVars, IInv, FrameInv
  <2>3. CASE RequestHmac
    BY <2>1, <2>3 DEF RequestHmac, Waiting, treeVars, IInv, FrameInv, Frames
  <2>4. CASE RequestPage \/ CommitHmac
    BY <2>4 DEF RequestPage, CommitHmac, treeVars
  <2>5. CASE InvalidApdu
    BY <2>5, FailStops DEF InvalidApdu, treeVars, IInv
  <2> QED
    BY <2>2, <2>3, <2>4, <2>5
<1>2. \A s \in Slots : (Live(s)' <=> Live(s)) /\ (Live(s) => pages'[s] = pages[s])
  BY <1>1 DEF Live, Slot
<1> QED
  BY <1>1, <1>2, SameMem DEF MemKept

LEMMA UseZeroPageStep == ASSUME IInv, IInv', UseZeroPage PROVE MemKept /\ out' = out
<1>1. /\ pc = "create" /\ loading /\ Slot \in Slots /\ frame.addr \in SlotPages(Slot)
      /\ UNCHANGED <<root, sealed, frame, out>> /\ ~loading'
      /\ pages' = [pages EXCEPT ![Slot] = [addr |-> frame.addr, val |-> Zero, iv |-> 1]]
      /\ frame.limit # 0 /\ frame.cursor >= frame.limit
  BY DEF IInv, FrameInv, UseZeroPage, ZeroPage, treeVars
<1>2. frame.addr \in WritePages /\ frame.cursor > frame.addr
  BY <1>1, Typing, SlotAssumption DEF IInv, GrowthInv, SlotPages, WritePages
<1>3. root[frame.addr] = 1 /\ encrypt_page(frame.addr, 1, Zero) \in sealed
  BY <1>1, <1>2 DEF IInv, ZeroInv
<1>4. StoredVal(frame.addr) = Zero
  BY <1>2, <1>3, Sealed DEF SealedFact, encrypt_page
<1>5. /\ pages'[Slot].addr = frame.addr /\ pages'[Slot].val = Zero
      /\ \A s \in Slots : s # Slot => pages'[s] = pages[s]
  BY <1>1 DEF IInv, TypeInv
<1>6. Slot' = Slot
  BY <1>1 DEF Slot
<1> QED
  BY <1>1, <1>2, <1>4, <1>5, <1>6, TakeOver DEF MemKept, AllPages

LEMMA RequestProofStep == ASSUME IInv, IInv', RequestProof PROVE MemKept /\ out' = out
<1>1. /\ pc = "hmac" /\ loading /\ Slot \in Slots /\ frame.addr \in SlotPages(Slot)
      /\ pages[Slot].addr = frame.addr
      /\ UNCHANGED <<root, sealed, frame, out>> /\ Slot' = Slot
  BY FailStops DEF RequestProof, Waiting, treeVars, IInv, FrameInv, RequestInv, Slot
<1>2. /\ \A s \in Slots : s # Slot => pages'[s] = pages[s]
      /\ pages'[Slot].addr = frame.addr
  <2>1. pages \in [Slots -> PageRecs] /\ pages[Slot] \in PageRecs
    BY <1>1 DEF IInv, TypeInv
  <2>2. \/ pages' = pages
        \/ \E iv, v : pages' = [pages EXCEPT ![Slot].iv = iv, ![Slot].val = v]
    BY DEF RequestProof
  <2>3. ASSUME NEW iv, NEW v, pages' = [pages EXCEPT ![Slot].iv = iv, ![Slot].val = v]
        PROVE  /\ \A s \in Slots : s # Slot => pages'[s] = pages[s]
               /\ pages'[Slot].addr = pages[Slot].addr
    BY <1>1, <2>1, <2>3 DEF PageRecs
  <2> QED
    BY <1>1, <2>2, <2>3
<1>3. CASE loading' = loading
  BY <1>1, <1>2, <1>3, SameMem DEF MemKept, Live
<1>4. CASE ~loading' /\ Slot \in CodeSlots
  <2>1. frame.addr \in CodePages /\ frame.addr # 0
    BY <1>1, <1>4, Layout DEF SlotPages
  <2>2. pages'[Slot].val = Image[frame.addr]
    BY <1>1, <1>2, <1>4, <2>1 DEF IInv, ValInv, Live
  <2> QED
    BY <1>1, <1>2, <1>4, <2>1, <2>2, TakeOver DEF MemKept, AllPages, StoredVal
<1> QED
  BY <1>3, <1>4, FailStops DEF RequestProof, Writeable, IInv

LEMMA VerifyProofStep == ASSUME IInv, IInv', VerifyProof PROVE MemKept /\ out' = out
<1>1. /\ pc = "proof" /\ loading /\ Slot \in Slots /\ frame.addr \in SlotPages(Slot)
      /\ Slot \notin CodeSlots /\ pages[Slot].addr = frame.addr /\ Authentic(pages[Slot])
      /\ UNCHANGED <<pages, root, sealed, frame, out>> /\ Slot' = Slot
  BY FailStops
     DEF VerifyProof, Waiting, treeVars, IInv, FrameInv, RequestInv, Writeable, Slot
<1>2. CASE loading' = loading
  BY <1>1, <1>2, SameMem DEF MemKept, Live
<1>3. CASE ~loading' /\ pc' = "access"
  <2>1. frame.addr \in WritePages /\ frame.addr # 0
    BY <1>1, Layout
  <2>2. pages[Slot].iv \in IVs /\ root[frame.addr] = pages[Slot].iv
    <3>1. pages[Slot].iv = root[frame.addr] + 0
      BY <1>1, <1>3, <2>1 DEF IInv, CounterInv, Ahead, Committing, Live
    <3>2. root[frame.addr] \in Int /\ pages[Slot].iv \in IVs
      BY <1>1, <2>1, Typing DEF IInv
    <3> QED
      BY <3>1, <3>2
  <2>3. StoredVal(frame.addr) = pages[Slot].val
    <3>1. CASE encrypt_page(pages[Slot].addr, pages[Slot].iv, pages[Slot].val) \in sealed
      BY <1>1, <2>1, <2>2, <3>1, Sealed DEF SealedFact, encrypt_page
    <3>2. CASE pages[Slot].iv = 0 /\ pages[Slot].val = Image[pages[Slot].addr]
      BY <1>1, <2>1, <2>2, <3>2, LayoutAssumption DEF StoredVal, None
    <3> QED
      BY <1>1, <3>1, <3>2 DEF Authentic
  <2> QED
    BY <1>1, <1>3, <2>1, <2>3, TakeOver DEF MemKept, AllPages
<1> QED
  BY <1>2, <1>3, FailStops DEF VerifyProof, IInv

LEMMA LookupStep ==
    ASSUME IInv, IInv', NEW op, NEW a, NEW v, Lookup(op, a, v)
    PROVE  MemKept /\ out' = NoAccess
<1>1. /\ pc = "run" /\ ~loading /\ out' = NoAccess
      /\ UNCHANGED <<pages, root, loading, sealed>>
  BY DEF Lookup, IInv, FrameInv, treeVars
<1> QED
  BY <1>1, SameMem DEF MemKept, Live

\* Nothing else touches the device's memory.
LEMMA OtherStep ==
    ASSUME IInv, IInv', Exit \/ HostStep \/ UNCHANGED vars
    PROVE  MemKept /\ out' = out
<1>1. UNCHANGED <<pages, root, loading, sealed, frame, out>>
  BY DEF Exit, HostStep, vars, treeVars
<1> QED
  BY <1>1, SameMem DEF MemKept, Live, Slot

FlatMem == [a \in CodePages \cup WritePages |-> CurrentVal(a)]

LEMMA FlatInitially == Init => Flat!FlatInit
<1> SUFFICES ASSUME Init PROVE Flat!FlatInit
  OBVIOUS
<1>1. IInv
  BY InitIInv
<1>2. ASSUME NEW a \in AllPages PROVE CurrentVal(a) = InitVal(a)
  <2>1. \A s \in Slots : ~Holds(s, a)
    BY Layout DEF Init, Holds, FreePage, AllPages
  <2>2. CurrentVal(a) = StoredVal(a)
    BY <1>1, <2>1, Stored DEF StoredFact
  <2>3. a \in WritePages => root[a] = IF a \in DataImage THEN 0 ELSE None
    BY DEF Init, InitTree
  <2> QED
    BY <2>2, <2>3, LayoutAssumption, Layout
       DEF StoredVal, InitVal, AllPages, WritePages, None
<1>3. FlatMem = [a \in CodePages \cup WritePages |-> InitVal(a)]
  BY <1>2 DEF FlatMem, AllPages
<1> QED
  BY <1>3 DEF Flat!FlatInit, FlatMem, Init, NoAccess, Flat!NoAccess

LEMMA FlatStep ==
    ASSUME IInv, IInv', FetchInv, ignored \in BOOLEAN, ignored' \in BOOLEAN, [Next]_vars
    PROVE  [Flat!FlatNext]_<<FlatMem, out, ignored>>
<1>0. ~ignored /\ ~ignored' /\ UNCHANGED ignored
  BY DEF IInv
<1>1. MemKept => FlatMem' = FlatMem
  BY DEF MemKept, FlatMem, AllPages
<1>2. ASSUME MemKept, out' = NoAccess PROVE Flat!FlatNext
  BY <1>0, <1>1, <1>2 DEF Flat!FlatNext, Flat!Intact, Flat!Begin, FlatMem, NoAccess, Flat!NoAccess
<1>3. CASE AppStep
  <2>1. CASE Exit
    BY <1>0, <1>1, <2>1, OtherStep
  <2>2. CASE \E op \in Ops : \E a, v : Lookup(op, a, v)
    BY <1>2, <2>2, LookupStep
  <2> QED
    BY <1>3, <2>1, <2>2 DEF AppStep, Ops
<1>4. CASE Access
  <2> DEFINE a == frame.addr
  <2>1. a \in AllPages
    BY <1>4, AccessStep
  <2>2. CASE /\ frame.op \in {"read", "fetch", "draw"} /\ MemKept
             /\ frame.op = "fetch" => a \in CodePages
             /\ out' = [op |-> frame.op, addr |-> a, val |-> CurrentVal(a)]
    <3>1. FlatMem[a] = CurrentVal(a)
      BY <2>1 DEF FlatMem, AllPages
    <3>2. Flat!Load(frame.op, a)
      BY <1>1, <2>1, <2>2, <3>1 DEF Flat!Load, FlatMem, AllPages
    <3> QED
      BY <1>0, <2>1, <2>2, <3>2 DEF Flat!FlatNext, Flat!Intact, AllPages
  <2>3. CASE /\ a \in WritePages /\ frame.val \in Vals
             /\ out' = [op |-> "write", addr |-> a, val |-> frame.val]
             /\ \A b \in AllPages : b = a => CurrentVal(b)' = frame.val
             /\ \A b \in AllPages : b # a => CurrentVal(b)' = CurrentVal(b)
    <3>1. FlatMem' = [FlatMem EXCEPT ![a] = frame.val]
      BY <2>1, <2>3 DEF FlatMem, AllPages
    <3>2. Flat!Store(a, frame.val)
      BY <2>3, <3>1 DEF Flat!Store, FlatMem
    <3> QED
      BY <1>0, <2>3, <3>2 DEF Flat!FlatNext, Flat!Intact
  <2> QED
    BY <1>4, <2>2, <2>3, AccessStep
<1>5. CASE DeviceStep /\ ~Access
  BY <1>0, <1>1, <1>5, EvictStep, CommitProofStep, RefillingStep, UseZeroPageStep,
     RequestProofStep, VerifyProofStep
     DEF DeviceStep
<1>6. CASE HostStep \/ UNCHANGED vars
  BY <1>0, <1>1, <1>6, OtherStep
<1> QED
  BY <1>3, <1>4, <1>5, <1>6 DEF Next, Stopped

\* The page-fault path of the VM implements a flat memory, for any layout, number
\* of slots and IV limit, and for a host that answers with anything it can form:
\* no store is lost, no older page comes back, no page is taken for another, until the
\* app goes on after a draw whose page fault failed half-way.
THEOREM Refinement == Spec => ImplementsFlatMemory
<1> DEFINE Sound == ShapeInv /\ (~ignored => IInv /\ FetchInv)
<1>1. Init => Flat!FlatInit
  BY FlatInitially
<1>2. Sound /\ Sound' /\ [Next]_vars
        => [Flat!FlatNext]_<<[a \in CodePages \cup WritePages |-> CurrentVal(a)], out, ignored>>
  <2>1. CASE ignored'
    BY <2>1 DEF Flat!FlatNext, Flat!Break
  <2>2. CASE ~ignored'
    BY <2>2, FlatStep, IgnoredForGood DEF FlatMem, ShapeInv, StateShape
  <2> QED
    BY <2>1, <2>2
<1>3. Init => Sound
  BY InitIInv, InitShape DEF Init, FetchInv
<1>4. Sound /\ [Next]_vars => Sound'
  BY NextIInv, NextFetchInv, NextShape, IgnoredForGood
<1>5. Spec => []Sound
  BY <1>3, <1>4, PTL DEF Spec
<1>6. Spec => Flat!FlatSpec
  BY <1>1, <1>2, <1>5, PTL DEF Spec, Flat!FlatSpec
<1> QED
  BY <1>6 DEF ImplementsFlatMemory
-----------------------------------------------------------------------------
(***************************************************************************)
(* Host and device agree: with a host that answers as stream_device.py      *)
(* does, no verification of the device fails, and no assertion of the host  *)
(* but the one on the length of a proof.  The invariant of the device       *)
(* (IInv) is joined with one about the exchange under way and about what    *)
(* the host has stored.                                                     *)
(***************************************************************************)
\* Between the exchanges nothing is in flight.
Quiet == chan = NoMsg /\ hpc = "loop"

\* Where host and device are, exchange by exchange (handle_read_access and
\* stream_request_page, handle_write_access and stream_commit_page).
ExchangeInv ==
    /\ pc \in {"run", "access", "evict", "create"} => Quiet
    /\ pc = "stopped" => chan = NoMsg
    /\ pc = "page" =>
        \/ chan = [kind |-> "REQUEST_PAGE", addr |-> frame.addr] /\ hpc = "loop"
        \/ /\ chan = [kind |-> "page", ct |-> hpages[frame.addr].ct]
           /\ hpc = "send_hmac" /\ hreq.addr = frame.addr
    /\ pc = "hmac" =>
        /\ frame.ct = hpages[frame.addr].ct
        /\ \/ chan = [kind |-> "REQUEST_HMAC"] /\ hpc = "send_hmac" /\ hreq.addr = frame.addr
           \/ /\ chan = [kind |-> "hmac", iv |-> hpages[frame.addr].iv,
                         mac |-> hpages[frame.addr].mac]
              /\ IF Writeable THEN hpc = "send_proof" /\ hreq.addr = frame.addr
                 ELSE hpc = "loop"
    /\ pc = "proof" =>
        /\ pages[Slot].iv = hpages[frame.addr].iv
        /\ \/ chan = [kind |-> "REQUEST_PROOF"] /\ hpc = "send_proof" /\ hreq.addr = frame.addr
           \/ /\ chan = [kind |-> "proof", proof |-> [leaf |-> frame.addr, tree |-> htree]]
              /\ hpc = "loop"
    /\ pc = "ack" =>
        \/ chan = [kind |-> "COMMIT_PAGE", ct |-> InFlight] /\ hpc = "loop"
        \/ chan = [kind |-> "ack"] /\ hpc = "commit_hmac" /\ hreq.ct = InFlight
    /\ pc = "old_proof" =>
        \/ /\ chan = [kind |-> "COMMIT_HMAC", addr |-> pages[Slot].addr, iv |-> pages[Slot].iv,
                      mac |-> Hmac(InFlight, pages[Slot].addr, pages[Slot].iv)]
           /\ hpc = "commit_hmac" /\ hreq.ct = InFlight
        \/ chan.kind = "old_proof" /\ hpc = "loop"

\* The host has committed a page, and the device has not updated its root yet.
HostAhead == pc = "old_proof" /\ chan.kind = "old_proof"

\* Both sides have the same tree and the same last entry, up to the commit under way.
TreesAgree ==
    pc # "stopped" =>
        IF HostAhead
        THEN LET p == pages[Slot]
             IN  /\ htree = [root EXCEPT ![p.addr] = p.iv]
                 /\ chan.proof = [leaf |-> IF root[p.addr] # None THEN p.addr
                                           ELSE last_entry.addr,
                                  tree |-> root]
                 /\ hlast = IF root[p.addr] # None THEN last_entry.addr ELSE p.addr
        ELSE htree = root /\ hlast = last_entry.addr

\* What the host needs to answer for page a: its MAC, and whether there is a proof for it.
Kept(a) ==
    /\ hpages[a].mac = Hmac(hpages[a].ct, a, hpages[a].iv)
    /\ hpages[a].read_only <=> a \in CodePages

StoreInv ==
    /\ DOMAIN hpages = CodePages \cup WritePages
    /\ DOMAIN htree = WritePages
    /\ \A a \in CodePages : Kept(a) /\ hpages[a].iv = 0
    /\ \A a \in WritePages : hpages[a].iv = htree[a] /\ (htree[a] # None => Kept(a))

AgreeInv ==
    /\ ExchangeInv /\ TreesAgree /\ StoreInv
    /\ hpc # "failed"
    /\ StopsOnlyForCause

\* The host has ended at a proof that may not fit an APDU, and the device waits for good.
HostEnded ==
    /\ hpc = "failed" /\ ~ProofsFit(root)
    /\ \/ pc = "proof" /\ chan.kind = "REQUEST_PROOF"
       \/ pc = "old_proof" /\ chan.kind = "COMMIT_HMAC"
    /\ StopsOnlyForCause
-----------------------------------------------------------------------------
(* The device. *)

\* A reliable host's reply is the one its code sends.
LEMMA HonestReply ==
    ASSUME HostReliable, NEW reply, NEW any, NEW r \in Replies(reply, any)
    PROVE  r = reply
BY DEF Replies

\* The device does not touch the host's store.
LEMMA StoreKept == StoreInv /\ UNCHANGED hostVars => StoreInv'
BY DEF StoreInv, Kept, hostVars

\* A step between two exchanges that neither stops the app nor changes the tree.
LEMMA QuietStep ==
    ASSUME AgreeInv, pc \in {"run", "access", "evict", "create"},
           pc' \in {"run", "access", "evict", "create"},
           UNCHANGED <<root, last_entry, err, chan, hostVars>>, ~ignored'
    PROVE  AgreeInv'
<1>1. Quiet /\ Quiet'
    BY DEF AgreeInv, ExchangeInv, Quiet, hostVars
<1>2. ExchangeInv'
    BY <1>1 DEF ExchangeInv
<1>3. TreesAgree'
    BY DEF AgreeInv, TreesAgree, HostAhead, hostVars
<1> QED BY <1>2, <1>3, StoreKept DEF AgreeInv, StopsOnlyForCause, hostVars

\* The app ends for a cause of its own, between two exchanges.
LEMMA StopAgrees ==
    ASSUME AgreeInv, NEW e \in {"exit", "invalid_access", "invalid_fetch", "iv_reuse"},
           Stop(e), UNCHANGED <<ignored, hostVars>>
    PROVE  AgreeInv'
BY StoreKept DEF AgreeInv, Stop, ExchangeInv, TreesAgree, StopsOnlyForCause, hostVars, NoMsg

\* The first exchange of a commit (stream_commit_page); at the IV limit the app is stopped,
\* or a draw gives up before anything was done.
LEMMA CommitPageAgrees ==
    ASSUME AgreeInv, pc \in {"evict", "create"}, Slot \in Slots, DOMAIN pages = Slots,
           NEW p, p = [addr |-> p.addr, val |-> p.val, iv |-> p.iv], CommitPage(p)
    PROVE  AgreeInv'
<1>1. UNCHANGED <<root, last_entry, hostVars>>
    BY DEF CommitPage, treeVars
<1>2. CASE p.iv = MAX_IV
    <2>1. Fail("iv_reuse", FALSE)
        BY <1>2 DEF CommitPage
    <2>2. CASE Stop("iv_reuse") /\ UNCHANGED ignored
        BY <1>1, <2>2, StopAgrees
    <2>3. CASE pc' = "run" /\ chan' = NoMsg /\ UNCHANGED err /\ ignored' = (ignored \/ FALSE)
        <3>1. chan = NoMsg /\ ~ignored'
            BY <2>3 DEF AgreeInv, ExchangeInv, Quiet, StopsOnlyForCause
        <3> QED BY <1>1, <2>3, <3>1, QuietStep
    <2> QED BY <2>1, <2>2, <2>3 DEF Fail
<1>3. CASE p.iv # MAX_IV
    <2>1. /\ pages' = [pages EXCEPT ![Slot] = [p EXCEPT !.iv = @ + 1]]
          /\ chan' = [kind |-> "COMMIT_PAGE", ct |-> encrypt_page(p.addr, p.iv + 1, p.val)]
          /\ pc' = "ack" /\ UNCHANGED <<err, ignored>> /\ Slot' = Slot
        BY <1>3 DEF CommitPage, Slot
    <2>2. /\ pages'[Slot].addr = p.addr /\ pages'[Slot].val = p.val
          /\ pages'[Slot].iv = p.iv + 1
        BY <2>1
    <2>3. InFlight' = encrypt_page(p.addr, p.iv + 1, p.val)
        BY <2>1, <2>2 DEF InFlight
    <2>4. ExchangeInv'
        BY <1>1, <2>1, <2>3 DEF AgreeInv, ExchangeInv, Quiet, hostVars
    <2>5. TreesAgree'
        BY <1>1, <2>1 DEF AgreeInv, TreesAgree, HostAhead, hostVars
    <2> QED BY <1>1, <2>1, <2>4, <2>5, StoreKept DEF AgreeInv, StopsOnlyForCause, hostVars
<1> QED BY <1>2, <1>3

LEMMA EvictAgrees == ASSUME IInv, AgreeInv, Evict PROVE AgreeInv'
<1>1. Slot \in Slots /\ DOMAIN pages = Slots /\ pc = "evict"
    BY DEF IInv, TypeInv, FrameInv, Evict
<1>2. CASE Writeable /\ pages[Slot].addr # 0
    <2>1. pages[Slot] = [addr |-> pages[Slot].addr, val |-> pages[Slot].val,
                         iv |-> pages[Slot].iv]
        BY <1>1, Typing DEF IInv
    <2>2. CommitPage(pages[Slot])
        BY <1>2 DEF Evict, Refill
    <2> QED BY <1>1, <2>1, <2>2, CommitPageAgrees
<1>3. CASE ~(Writeable /\ pages[Slot].addr # 0)
    BY <1>1, <1>3, QuietStep DEF Evict, Refill, treeVars, AgreeInv, StopsOnlyForCause
<1> QED BY <1>2, <1>3

LEMMA CreateEmptyPageAgrees == ASSUME IInv, AgreeInv, CreateEmptyPage PROVE AgreeInv'
<1>1. Slot \in Slots /\ DOMAIN pages = Slots /\ pc = "create"
    BY DEF IInv, TypeInv, FrameInv, CreateEmptyPage
<1> QED BY <1>1, CommitPageAgrees DEF CreateEmptyPage

LEMMA CommitHmacAgrees == ASSUME AgreeInv, CommitHmac PROVE AgreeInv'
<1>1. /\ pc = "ack" /\ chan.kind = "ack" /\ pc' = "old_proof"
      /\ UNCHANGED <<pages, root, last_entry, frame, err, ignored, hostVars>>
      /\ chan'.kind = "COMMIT_HMAC"
      /\ chan' = [kind |-> "COMMIT_HMAC", addr |-> pages[Slot].addr, iv |-> pages[Slot].iv,
                  mac |-> Hmac(InFlight, pages[Slot].addr, pages[Slot].iv)]
    BY DEF CommitHmac, Waiting, treeVars, InFlight
<1>2. hpc = "commit_hmac" /\ hreq.ct = InFlight
    BY <1>1 DEF AgreeInv, ExchangeInv
<1>3. Slot' = Slot /\ InFlight' = InFlight
    BY <1>1 DEF Slot, InFlight
<1>4. ExchangeInv'
    BY <1>1, <1>2, <1>3 DEF ExchangeInv, hostVars
<1>5. TreesAgree'
    BY <1>1 DEF AgreeInv, TreesAgree, HostAhead, hostVars
<1> QED BY <1>1, <1>4, <1>5, StoreKept DEF AgreeInv, StopsOnlyForCause, hostVars

\* A page created is no leaf yet; a page evicted is one commit ahead of its leaf.
LEMMA CommitCounter ==
    ASSUME IInv, Committing
    PROVE  LET p == pages[Slot]
           IN  /\ p.addr \in WritePages /\ p.iv \in IVs
               /\ loading => root[p.addr] = None
               /\ ~loading => root[p.addr] # None /\ root[p.addr] = p.iv - 1
<1> DEFINE p == pages[Slot]
<1>1. Slot \in Slots /\ frame.addr \in SlotPages(Slot) /\ pc # "stopped"
    BY DEF IInv, FrameInv, Committing
<1>2. p.iv \in IVs
    BY <1>1, Typing DEF IInv
<1>3. CASE loading
    <2>1. p.addr = frame.cursor /\ frame.limit # 0 /\ frame.cursor < frame.limit
        BY <1>3 DEF IInv, FrameInv
    <2> QED BY <1>1, <1>2, <1>3, <2>1, CursorIsFresh
<1>4. CASE ~loading
    <2>1. Slot \notin CodeSlots /\ p.addr # 0 /\ Live(Slot)
        BY <1>4 DEF IInv, FrameInv, Writeable, Live
    <2>2. p.addr \in WritePages
        BY <1>1, <2>1, Layout DEF IInv, SlotsInSection
    <2>3. root[p.addr] # None /\ p.iv = root[p.addr] + 1
        BY <1>1, <2>1 DEF IInv, CounterInv, Ahead
    <2>4. root[p.addr] \in {None} \cup IVs
        BY <2>2 DEF IInv, TypeInv, Trees
    <2> QED BY <1>2, <1>4, <2>2, <2>3, <2>4 DEF IVs
<1> QED BY <1>3, <1>4

\* The proof the host took before it committed is one for the device's root, and for the
\* entry the device is about to change or, for a new page, for the last one.
LEMMA CommitProofAgrees ==
    ASSUME HostReliable, IInv, AgreeInv, CommitProof
    PROVE  AgreeInv'
<1> DEFINE p   == pages[Slot]
           e   == Entry(p.addr, p.iv)
           old == Entry(p.addr, p.iv - 1)
           checked == IF loading THEN last_entry ELSE old
<1>1. /\ pc = "old_proof" /\ chan.kind = "old_proof" /\ HostAhead
      /\ Committing /\ Slot \in Slots /\ frame.addr \in SlotPages(Slot)
      /\ UNCHANGED <<pages, hostVars>>
    BY DEF CommitProof, Waiting, HostAhead, IInv, FrameInv, Committing
<1>2. /\ htree = [root EXCEPT ![p.addr] = p.iv]
      /\ chan.proof = [leaf |-> IF root[p.addr] # None THEN p.addr ELSE last_entry.addr,
                       tree |-> root]
      /\ hlast = IF root[p.addr] # None THEN last_entry.addr ELSE p.addr
      /\ hpc = "loop"
    BY <1>1 DEF AgreeInv, TreesAgree, ExchangeInv
<1>3. /\ root \in Trees /\ last_entry \in [addr : WritePages, iv : IVs]
      /\ root[last_entry.addr] = last_entry.iv
    BY <1>1 DEF IInv, TypeInv, LastInv
<1>4. PICK proof \in Replies(chan.proof, Proofs) :
         \/ /\ loading /\ merkle_insert(e, proof)
            /\ pc' = "create" /\ chan' = NoMsg /\ UNCHANGED <<err, ignored>>
         \/ /\ ~loading /\ merkle_update(old, e, proof)
            /\ Refill /\ chan' = NoMsg /\ UNCHANGED <<err, ignored>>
         \/ loading /\ root[p.addr] # None
         \/ ~merkle_verify_proof(checked, proof)
    BY DEF CommitProof, SecondLeaf
<1>5. proof = chan.proof
    BY <1>4, HonestReply
<1>6. /\ p.addr \in WritePages
      /\ loading => root[p.addr] = None
      /\ ~loading => root[p.addr] # None /\ root[p.addr] = p.iv - 1
    BY <1>1, CommitCounter
<1>7. merkle_verify_proof(checked, proof) /\ proof_hash(checked, proof) = root
    <2>1. CASE loading
        BY <1>2, <1>3, <1>5, <1>6, <2>1 DEF merkle_verify_proof, proof_hash, Trees
    <2>2. CASE ~loading
        BY <1>2, <1>3, <1>5, <1>6, <2>2 DEF merkle_verify_proof, proof_hash, Trees, Entry
    <2> QED BY <2>1, <2>2
<1>8. /\ htree = root' /\ hlast = last_entry'.addr
      /\ pc' = "create" /\ chan' = NoMsg /\ UNCHANGED <<err, ignored>>
    <2>1. CASE loading
        <3>1. /\ merkle_insert(e, proof) /\ pc' = "create" /\ chan' = NoMsg
              /\ UNCHANGED <<err, ignored>>
            BY <1>4, <1>6, <1>7, <2>1
        <3> QED BY <1>2, <1>6, <1>7, <2>1, <3>1 DEF merkle_insert, Entry
    <2>2. CASE ~loading
        <3>1. /\ merkle_update(old, e, proof) /\ pc' = "create" /\ chan' = NoMsg
              /\ UNCHANGED <<err, ignored>>
            BY <1>4, <1>7, <2>2 DEF Refill
        <3>2. proof_hash(e, proof) = [root EXCEPT ![p.addr] = p.iv]
            BY <1>2, <1>5 DEF proof_hash, Entry
        <3>3. last_entry'.addr = last_entry.addr
            BY <3>1 DEF merkle_update, Entry
        <3> QED BY <1>2, <1>6, <2>2, <3>1, <3>2, <3>3 DEF merkle_update
    <2> QED BY <2>1, <2>2
<1>9. ExchangeInv' /\ TreesAgree'
    BY <1>1, <1>2, <1>8 DEF ExchangeInv, TreesAgree, HostAhead, Quiet, hostVars
<1> QED BY <1>1, <1>8, <1>9, StoreKept DEF AgreeInv, StopsOnlyForCause, hostVars

LEMMA LookupAgrees ==
    ASSUME AgreeInv, NEW op, NEW a, NEW v, Lookup(op, a, v)
    PROVE  AgreeInv'
<1>1. pc = "run" /\ UNCHANGED <<root, last_entry, ignored, hostVars>>
    BY Zenon DEF Lookup, treeVars
<1>2. CASE Stop(InvalidAccess(op))
    BY <1>1, <1>2, StopAgrees DEF InvalidAccess
<1>3. CASE pc' \in {"run", "access", "evict"} /\ UNCHANGED <<err, chan>>
    BY <1>1, <1>3, QuietStep DEF AgreeInv, StopsOnlyForCause
<1>4. \/ Stop(InvalidAccess(op))
      \/ pc' = pc /\ UNCHANGED <<err, chan>>
      \/ pc' = "access" /\ UNCHANGED <<err, chan>>
      \/ pc' = "evict" /\ UNCHANGED <<err, chan>>
    BY Zenon DEF Lookup
<1> QED BY <1>1, <1>2, <1>3, <1>4

LEMMA ExitAgrees == ASSUME AgreeInv, Exit PROVE AgreeInv'
<1> UNCHANGED <<ignored, hostVars>> /\ Stop("exit")
    BY DEF Exit
<1> QED BY StopAgrees

LEMMA AccessAgrees == ASSUME AgreeInv, Access PROVE AgreeInv'
BY QuietStep DEF Access, treeVars, AgreeInv, StopsOnlyForCause

LEMMA UseZeroPageAgrees == ASSUME AgreeInv, UseZeroPage PROVE AgreeInv'
BY QuietStep DEF UseZeroPage, ZeroPage, treeVars, AgreeInv, StopsOnlyForCause

LEMMA RequestPageAgrees == ASSUME AgreeInv, RequestPage PROVE AgreeInv'
<1>1. /\ pc = "create" /\ pc' = "page"
      /\ chan' = [kind |-> "REQUEST_PAGE", addr |-> frame.addr]
      /\ UNCHANGED <<pages, root, last_entry, frame, err, ignored, hostVars>>
    BY DEF RequestPage, treeVars
<1>2. hpc = "loop"
    BY <1>1 DEF AgreeInv, ExchangeInv, Quiet
<1>3. ExchangeInv'
    BY <1>1, <1>2 DEF ExchangeInv, hostVars
<1>4. TreesAgree'
    BY <1>1 DEF AgreeInv, TreesAgree, HostAhead, hostVars
<1> QED BY <1>1, <1>3, <1>4, StoreKept DEF AgreeInv, StopsOnlyForCause, hostVars

\* A page that is requested exists: the host has it, with its MAC and its leaf.
LEMMA RequestedIsKept ==
    ASSUME IInv, AgreeInv, pc \in {"create", "page", "hmac", "proof"}, frame.limit = 0
    PROVE  LET a == frame.addr
           IN  /\ Slot \in Slots /\ a \in CodePages \cup WritePages
               /\ Kept(a) /\ (hpages[a].read_only <=> ~Writeable)
               /\ Writeable => a \in WritePages /\ root[a] # None /\ hpages[a].iv = root[a]
               /\ ~Writeable => hpages[a].iv = 0
<1> DEFINE a == frame.addr
<1>1. Slot \in Slots /\ a \in SlotPages(Slot) /\ loading
    BY DEF IInv, FrameInv
<1>2. htree = root
    BY DEF AgreeInv, TreesAgree, HostAhead
<1>3. CASE Writeable
    <2>1. a \in WritePages /\ a \notin CodePages
        BY <1>1, <1>3, Layout, LayoutAssumption DEF Writeable
    <2>2. Created(a)
        <3>1. a \in Nat /\ bss_max \in Nat /\ stack_min \in Nat
            BY Typing DEF IInv
        <3>2. (Slot \in DataSlots => a < bss_max) /\ (Slot \in StackSlots => a >= stack_min)
            BY <1>1, <3>1 DEF IInv, GrowthInv
        <3>3. CASE Slot \in DataSlots
            BY <1>1, <1>3, <3>2, <3>3, SlotAssumption
               DEF Created, SlotPages, Writeable
        <3>4. CASE Slot \in StackSlots
            BY <1>1, <1>3, <3>2, <3>4, SlotAssumption, LayoutAssumption
               DEF Created, SlotPages, Writeable
        <3> QED BY <1>1, <1>3, <3>3, <3>4 DEF Slots, Writeable
    <2>3. root[a] # None
        BY <2>1, <2>2 DEF IInv, TreeInv
    <2> QED BY <1>1, <1>2, <1>3, <2>1, <2>3 DEF AgreeInv, StoreInv, Kept
<1>4. CASE ~Writeable
    <2>1. a \in CodePages
        BY <1>1, <1>4 DEF Writeable, SlotPages
    <2> QED BY <1>1, <1>4, <2>1 DEF AgreeInv, StoreInv, Kept
<1> QED BY <1>3, <1>4

LEMMA RequestHmacAgrees ==
    ASSUME HostReliable, IInv, AgreeInv, RequestHmac
    PROVE  AgreeInv'
<1>1. /\ pc = "page" /\ chan.kind = "page" /\ pc' = "hmac"
      /\ chan' = [kind |-> "REQUEST_HMAC"]
      /\ UNCHANGED <<root, last_entry, err, ignored, hostVars>>
    BY DEF RequestHmac, Waiting, treeVars
<1>2. chan = [kind |-> "page", ct |-> hpages[frame.addr].ct]
      /\ hpc = "send_hmac" /\ hreq.addr = frame.addr
    BY <1>1 DEF AgreeInv, ExchangeInv
<1>3. PICK ct \in Replies(chan.ct, Ciphertexts) : frame' = [frame EXCEPT !.ct = ct]
    BY DEF RequestHmac
<1>4. frame'.addr = frame.addr /\ frame'.ct = hpages[frame.addr].ct
    <2>1. ct = chan.ct
        BY <1>3, HonestReply
    <2>2. frame \in Frames
        BY DEF IInv, TypeInv
    <2> QED BY <1>2, <1>3, <2>1, <2>2 DEF Frames
<1>5. ExchangeInv'
    BY <1>1, <1>2, <1>4 DEF ExchangeInv, hostVars
<1>6. TreesAgree'
    BY <1>1 DEF AgreeInv, TreesAgree, HostAhead, hostVars
<1> QED BY <1>1, <1>5, <1>6, StoreKept DEF AgreeInv, StopsOnlyForCause, hostVars

\* The MAC is the one the host keeps for the page: the check passes, and a page of code,
\* whose IV is 0, is returned.
LEMMA RequestProofAgrees ==
    ASSUME HostReliable, IInv, AgreeInv, RequestProof
    PROVE  AgreeInv'
<1> DEFINE a == frame.addr
<1>1. pc = "hmac" /\ chan.kind = "hmac" /\ UNCHANGED <<root, last_entry, hostVars>>
    BY Zenon DEF RequestProof, Waiting, treeVars
<1>2. /\ frame.ct = hpages[a].ct
      /\ chan = [kind |-> "hmac", iv |-> hpages[a].iv, mac |-> hpages[a].mac]
      /\ IF Writeable THEN hpc = "send_proof" /\ hreq.addr = a ELSE hpc = "loop"
    BY <1>1 DEF AgreeInv, ExchangeInv
<1>3. /\ Slot \in Slots /\ Kept(a) /\ (~Writeable => hpages[a].iv = 0)
    <2>1. frame.limit = 0
        BY <1>1 DEF IInv, FrameInv
    <2> QED BY <1>1, <2>1, RequestedIsKept
<1>4. PICK mac \in Replies(chan.mac, Macs) :
         \/ mac # Hmac(frame.ct, a, mac.iv)
         \/ /\ mac = Hmac(frame.ct, a, mac.iv)
            /\ pages' = [pages EXCEPT ![Slot].iv = mac.iv,
                             ![Slot].val = IF mac.iv = 0 THEN @
                                           ELSE decrypt_page(frame.ct, a, mac.iv)]
            /\ \/ /\ Writeable /\ chan' = [kind |-> "REQUEST_PROOF"]
                  /\ pc' = "proof" /\ UNCHANGED <<frame, loading, err, ignored>>
               \/ ~Writeable /\ mac.iv # 0
               \/ /\ ~Writeable /\ mac.iv = 0 /\ chan' = NoMsg
                  /\ pc' = "access" /\ UNCHANGED <<frame, err, ignored>>
    BY Zenon DEF RequestProof
<1>5. mac = Hmac(frame.ct, a, hpages[a].iv) /\ mac.iv = hpages[a].iv
    <2>1. mac = chan.mac
        BY <1>4, HonestReply
    <2> QED BY <1>2, <1>3, <2>1 DEF Kept, Hmac
<1>6. CASE Writeable
    <2>1. chan' = [kind |-> "REQUEST_PROOF"] /\ pc' = "proof" /\ UNCHANGED <<frame, err, ignored>>
        BY <1>4, <1>5, <1>6
    <2>2. pages'[Slot].iv = hpages[a].iv /\ Slot' = Slot
        <3>1. pages' = [pages EXCEPT ![Slot].iv = mac.iv,
                             ![Slot].val = IF mac.iv = 0 THEN @
                                           ELSE decrypt_page(frame.ct, a, mac.iv)]
            BY <1>4, <1>5
        <3>2. pages \in [Slots -> PageRecs] /\ pages[Slot] \in PageRecs
            BY <1>3 DEF IInv, TypeInv
        <3> QED BY <1>3, <1>5, <2>1, <3>1, <3>2 DEF PageRecs, Slot
    <2>3. ExchangeInv'
        BY <1>1, <1>2, <1>6, <2>1, <2>2 DEF ExchangeInv, hostVars
    <2>4. TreesAgree'
        BY <1>1, <2>1 DEF AgreeInv, TreesAgree, HostAhead, hostVars
    <2> QED BY <1>1, <2>1, <2>3, <2>4, StoreKept DEF AgreeInv, StopsOnlyForCause, hostVars
<1>7. CASE ~Writeable
    <2>1. chan' = NoMsg /\ pc' = "access" /\ UNCHANGED <<frame, err, ignored>>
        BY <1>3, <1>4, <1>5, <1>7
    <2>2. ExchangeInv'
        BY <1>1, <1>2, <1>7, <2>1 DEF ExchangeInv, Quiet, hostVars
    <2>3. TreesAgree'
        BY <1>1, <2>1 DEF AgreeInv, TreesAgree, HostAhead, hostVars
    <2> QED BY <1>1, <2>1, <2>2, <2>3, StoreKept DEF AgreeInv, StopsOnlyForCause, hostVars
<1> QED BY <1>6, <1>7

\* The proof is for the device's root, and the page carries the counter of its leaf.
LEMMA VerifyProofAgrees ==
    ASSUME HostReliable, IInv, AgreeInv, VerifyProof
    PROVE  AgreeInv'
<1> DEFINE a == frame.addr
<1>1. /\ pc = "proof" /\ chan.kind = "proof" /\ frame.limit = 0 /\ Writeable
      /\ UNCHANGED <<pages, root, last_entry, hostVars>>
    BY DEF VerifyProof, Waiting, treeVars, IInv, FrameInv, RequestInv
<1>2. /\ pages[Slot].iv = hpages[a].iv
      /\ chan = [kind |-> "proof", proof |-> [leaf |-> a, tree |-> htree]]
      /\ hpc = "loop" /\ htree = root
    BY <1>1 DEF AgreeInv, ExchangeInv, TreesAgree, HostAhead
<1>3. a \in WritePages /\ hpages[a].iv = root[a]
    BY <1>1, RequestedIsKept
<1>4. PICK proof \in Replies(chan.proof, Proofs) :
         \/ /\ merkle_verify_proof(Entry(a, pages[Slot].iv), proof)
            /\ pc' = "access" /\ chan' = NoMsg /\ UNCHANGED <<frame, err, ignored>>
         \/ ~merkle_verify_proof(Entry(a, pages[Slot].iv), proof)
    BY DEF VerifyProof
<1>5. merkle_verify_proof(Entry(a, pages[Slot].iv), proof)
    <2>1. proof = [leaf |-> a, tree |-> root]
        BY <1>2, <1>4, HonestReply
    <2>2. root \in Trees
        BY DEF IInv, TypeInv
    <2>3. [root EXCEPT ![a] = root[a]] = root
        BY <2>2 DEF Trees
    <2> QED BY <1>2, <1>3, <2>1, <2>3 DEF merkle_verify_proof, proof_hash, Entry
<1>6. pc' = "access" /\ chan' = NoMsg /\ UNCHANGED <<frame, err, ignored>>
    BY <1>4, <1>5
<1>7. ExchangeInv'
    BY <1>1, <1>2, <1>6 DEF ExchangeInv, Quiet, hostVars
<1>8. TreesAgree'
    BY <1>1, <1>6 DEF AgreeInv, TreesAgree, HostAhead, hostVars
<1> QED BY <1>1, <1>6, <1>7, <1>8, StoreKept DEF AgreeInv, StopsOnlyForCause, hostVars
-----------------------------------------------------------------------------
(* The host. *)

\* The message in flight tells which exchange the device is in.
LEMMA Expected ==
    ASSUME IInv, AgreeInv
    PROVE  /\ chan.kind = "REQUEST_PAGE"  => pc = "page"
           /\ chan.kind = "REQUEST_HMAC"  => pc = "hmac"
           /\ chan.kind = "REQUEST_PROOF" => pc = "proof"
           /\ chan.kind = "COMMIT_PAGE"   => pc = "ack"
           /\ chan.kind = "COMMIT_HMAC"   => pc = "old_proof"
<1>1. pc \in Pcs
    BY DEF IInv, TypeInv
<1>2. chan.kind # "none" => pc \notin {"run", "access", "evict", "create", "stopped"}
    BY DEF AgreeInv, ExchangeInv, Quiet, NoMsg
<1> QED BY <1>1, <1>2 DEF AgreeInv, ExchangeInv, Pcs

HostOnly == UNCHANGED <<pages, root, last_entry, pc, frame, err, ignored>>

\* handle_read_access finds the page: nothing is requested before it was committed.
LEMMA HostSendPageAgrees ==
    ASSUME IInv, AgreeInv, HostSendPage, HostOnly
    PROVE  AgreeInv'
<1> DEFINE a == frame.addr
<1>1. pc = "page" /\ hpc = "loop" /\ frame.limit = 0
    BY Expected DEF HostSendPage, IInv, FrameInv
<1>2. chan = [kind |-> "REQUEST_PAGE", addr |-> a]
    BY <1>1 DEF AgreeInv, ExchangeInv
<1>3. hpages[a] # NoHostPage
    <2>1. hpages[a].iv # None
        BY <1>1, RequestedIsKept DEF None
    <2> QED BY <2>1 DEF NoHostPage, HostPage
<1>4. /\ chan' = [kind |-> "page", ct |-> hpages[a].ct]
      /\ hreq' = [NoHostReq EXCEPT !.addr = a] /\ hpc' = "send_hmac"
      /\ UNCHANGED <<hpages, htree, hlast>>
    BY <1>2, <1>3 DEF HostSendPage
<1>5. hreq'.addr = a
    BY <1>4 DEF NoHostReq
<1>6. ExchangeInv' /\ TreesAgree'
    BY <1>1, <1>4, <1>5 DEF AgreeInv, ExchangeInv, TreesAgree, HostAhead, HostOnly
<1>7. StoreInv'
    BY <1>4 DEF AgreeInv, StoreInv, Kept
<1> QED BY <1>4, <1>6, <1>7 DEF AgreeInv, StopsOnlyForCause, HostOnly

LEMMA HostSendHmacAgrees ==
    ASSUME IInv, AgreeInv, HostSendHmac, HostOnly
    PROVE  AgreeInv'
<1> DEFINE a == frame.addr
<1>1. pc = "hmac" /\ hpc = "send_hmac" /\ frame.limit = 0 /\ chan.kind = "REQUEST_HMAC"
    BY Expected DEF HostSendHmac, IInv, FrameInv
<1>2. hreq.addr = a /\ frame.ct = hpages[a].ct
    BY <1>1 DEF AgreeInv, ExchangeInv
<1>3. hpages[a].read_only <=> ~Writeable
    BY <1>1, RequestedIsKept
<1>4. /\ chan' = [kind |-> "hmac", iv |-> hpages[a].iv, mac |-> hpages[a].mac]
      /\ UNCHANGED <<hpages, htree, hlast>>
    BY <1>2 DEF HostSendHmac
<1>5. IF Writeable THEN hpc' = "send_proof" /\ hreq' = hreq ELSE hpc' = "loop"
    BY <1>2, <1>3 DEF HostSendHmac
<1>6. Writeable' <=> Writeable
    BY DEF HostOnly, Writeable, Slot
<1>7. ExchangeInv'
    BY <1>1, <1>2, <1>4, <1>5, <1>6 DEF ExchangeInv, HostOnly
<1>8. TreesAgree'
    BY <1>1, <1>4 DEF AgreeInv, TreesAgree, HostAhead, HostOnly
<1>9. StoreInv'
    BY <1>4 DEF AgreeInv, StoreInv, Kept
<1> QED BY <1>5, <1>7, <1>8, <1>9 DEF AgreeInv, StopsOnlyForCause, HostOnly

\* The counter of the page is the one of its leaf: the host only fails at a proof that may
\* be too long.
LEMMA HostSendProofAgrees ==
    ASSUME IInv, AgreeInv, HostSendProof, HostOnly
    PROVE  AgreeInv' \/ HostEnded'
<1> DEFINE a == frame.addr
<1>1. /\ pc = "proof" /\ hpc = "send_proof" /\ frame.limit = 0 /\ Writeable
      /\ chan.kind = "REQUEST_PROOF"
    BY Expected DEF HostSendProof, IInv, FrameInv, RequestInv
<1>2. hreq.addr = a /\ pages[Slot].iv = hpages[a].iv /\ htree = root
    BY <1>1 DEF AgreeInv, ExchangeInv, TreesAgree, HostAhead
<1>3. htree[a] = hpages[a].iv
    BY <1>1, <1>2, RequestedIsKept
<1>5. Slot' = Slot
    BY DEF Slot, HostOnly
<1>6. CASE HostAssertFails /\ ~ProofsFit(htree)
    <2>1. HostEnded'
        BY <1>1, <1>2, <1>6
           DEF HostEnded, HostAssertFails, HostOnly, AgreeInv, StopsOnlyForCause, ProofsFit
    <2> QED BY <2>1
<1>7. CASE /\ chan' = [kind |-> "proof", proof |-> [leaf |-> a, tree |-> htree]]
           /\ hpc' = "loop" /\ UNCHANGED <<hpages, htree, hlast>>
    <2>1. ExchangeInv'
        BY <1>1, <1>2, <1>5, <1>7 DEF ExchangeInv, HostOnly
    <2>2. TreesAgree'
        BY <1>1, <1>7 DEF AgreeInv, TreesAgree, HostAhead, HostOnly
    <2>3. StoreInv'
        BY <1>7 DEF AgreeInv, StoreInv, Kept
    <2> QED BY <1>7, <2>1, <2>2, <2>3 DEF AgreeInv, StopsOnlyForCause, HostOnly
<1> QED BY <1>2, <1>3, <1>6, <1>7 DEF HostSendProof

LEMMA HostCommitPageAgrees ==
    ASSUME IInv, AgreeInv, HostCommitPage, HostOnly
    PROVE  AgreeInv'
<1>1. pc = "ack" /\ hpc = "loop" /\ chan.kind = "COMMIT_PAGE"
    BY Expected DEF HostCommitPage
<1>2. chan.ct = InFlight
    BY <1>1 DEF AgreeInv, ExchangeInv
<1>3. /\ chan' = [kind |-> "ack"] /\ hpc' = "commit_hmac" /\ hreq'.ct = InFlight
      /\ UNCHANGED <<hpages, htree, hlast>>
    BY <1>2 DEF HostCommitPage, NoHostReq
<1>4. InFlight' = InFlight
    BY DEF InFlight, Slot, HostOnly
<1>5. ExchangeInv'
    BY <1>1, <1>3, <1>4 DEF ExchangeInv, HostOnly
<1>6. TreesAgree'
    BY <1>1, <1>3 DEF AgreeInv, TreesAgree, HostAhead, HostOnly
<1>7. StoreInv'
    BY <1>3 DEF AgreeInv, StoreInv, Kept
<1> QED BY <1>3, <1>5, <1>6, <1>7 DEF AgreeInv, StopsOnlyForCause, HostOnly

\* _write_page: a leaf is updated by one, or a new leaf becomes the last one; the proof
\* the host returns is the one before the change.  It only fails if that may be too long.
LEMMA HostCommitHmacAgrees ==
    ASSUME IInv, AgreeInv, HostCommitHmac, HostOnly
    PROVE  AgreeInv' \/ HostEnded'
<1> DEFINE p   == pages[Slot]
           has == root[p.addr] # None
<1>1. pc = "old_proof" /\ hpc = "commit_hmac" /\ chan.kind = "COMMIT_HMAC" /\ Committing
    BY Expected DEF HostCommitHmac, HostCommit, Committing
<1>2. /\ chan = [kind |-> "COMMIT_HMAC", addr |-> p.addr, iv |-> p.iv,
                 mac |-> Hmac(InFlight, p.addr, p.iv)]
      /\ hreq.ct = InFlight /\ htree = root /\ hlast = last_entry.addr
    BY <1>1 DEF AgreeInv, ExchangeInv, TreesAgree, HostAhead
<1>3. p.addr \in WritePages /\ p.iv \in IVs /\ (has => root[p.addr] = p.iv - 1)
    BY <1>1, CommitCounter
<1>4. ~(has /\ root[p.addr] + 1 # p.iv)
    BY <1>3 DEF IVs
<1>5. /\ hpages' = [hpages EXCEPT ![p.addr] =
                        HostPage(InFlight, Hmac(InFlight, p.addr, p.iv), p.iv, FALSE)]
      /\ htree' = [htree EXCEPT ![p.addr] = p.iv]
      /\ hlast' = IF has THEN hlast ELSE p.addr
      /\ \/ ~ProofsFit(htree) /\ hpc' = "failed" /\ UNCHANGED chan
         \/ /\ chan' = [kind |-> "old_proof",
                        proof |-> [leaf |-> IF has THEN p.addr ELSE hlast, tree |-> htree]]
            /\ hpc' = "loop"
    BY <1>2, <1>4 DEF HostCommitHmac, HostCommit
<1>6. Slot' = Slot /\ UNCHANGED <<pages, root, last_entry, pc, frame, err, ignored>>
    BY DEF Slot, HostOnly
<1>9. StoreInv'
    <2>1. p.addr \notin CodePages /\ p.addr \in DOMAIN hpages /\ p.addr \in DOMAIN htree
        BY <1>3, LayoutAssumption DEF AgreeInv, StoreInv
    <2>2. /\ DOMAIN hpages' = DOMAIN hpages /\ DOMAIN htree' = DOMAIN htree
          /\ hpages'[p.addr] = HostPage(InFlight, Hmac(InFlight, p.addr, p.iv), p.iv, FALSE)
          /\ htree'[p.addr] = p.iv
          /\ \A a \in DOMAIN hpages : a # p.addr => hpages'[a] = hpages[a]
          /\ \A a \in DOMAIN htree : a # p.addr => htree'[a] = htree[a]
        BY <1>5, <2>1
    <2>3. /\ hpages'[p.addr].mac = Hmac(hpages'[p.addr].ct, p.addr, hpages'[p.addr].iv)
          /\ hpages'[p.addr].read_only = FALSE /\ hpages'[p.addr].iv = htree'[p.addr]
        BY <2>2 DEF HostPage
    <2>4. ASSUME NEW a \in CodePages PROVE Kept(a)' /\ hpages'[a].iv = 0
        BY <2>1, <2>2 DEF AgreeInv, StoreInv, Kept
    <2>5. ASSUME NEW a \in WritePages
          PROVE  hpages'[a].iv = htree'[a] /\ (htree'[a] # None => Kept(a)')
        <3>1. CASE a = p.addr
            BY <2>1, <2>3, <3>1 DEF Kept
        <3>2. CASE a # p.addr
            BY <2>2, <3>2 DEF AgreeInv, StoreInv, Kept
        <3> QED BY <3>1, <3>2
    <2> QED BY <2>2, <2>4, <2>5 DEF AgreeInv, StoreInv
<1>7. CASE ~ProofsFit(htree) /\ hpc' = "failed" /\ UNCHANGED chan
    <2>1. HostEnded'
        BY <1>1, <1>2, <1>6, <1>7 DEF HostEnded, AgreeInv, StopsOnlyForCause, ProofsFit
    <2> QED BY <2>1
<1>8. CASE /\ chan' = [kind |-> "old_proof",
                       proof |-> [leaf |-> IF has THEN p.addr ELSE hlast, tree |-> htree]]
           /\ hpc' = "loop"
    <2>1. ExchangeInv'
        BY <1>1, <1>6, <1>8 DEF ExchangeInv
    <2>2. TreesAgree'
        BY <1>1, <1>2, <1>5, <1>6, <1>8 DEF TreesAgree, HostAhead
    <2> QED BY <1>6, <1>8, <1>9, <2>1, <2>2 DEF AgreeInv, StopsOnlyForCause
<1> QED BY <1>5, <1>7, <1>8
-----------------------------------------------------------------------------
(* The system. *)

LEMMA InitAgrees == Init => AgreeInv
<1> SUFFICES ASSUME Init PROVE AgreeInv
    OBVIOUS
<1>1. ExchangeInv /\ hpc # "failed" /\ StopsOnlyForCause
    BY DEF Init, ExchangeInv, Quiet, StopsOnlyForCause
<1>2. TreesAgree
    BY DEF Init, TreesAgree, HostAhead, Entry
<1>3. StoreInv
    <2>1. hpages = InitHostPages /\ htree = InitTree
        BY DEF Init
    <2>2. CodePages \cap WritePages = {} /\ DataImage \subseteq WritePages
        BY Layout, LayoutAssumption DEF WritePages
    <2>3. /\ DOMAIN hpages = CodePages \cup WritePages /\ DOMAIN htree = WritePages
          /\ \A a \in CodePages \cup DataImage :
                hpages[a] = HostPage(Plain(Image[a]), ArchiveMac(a), 0, a \in CodePages)
          /\ \A a \in WritePages \ DataImage : hpages[a] = NoHostPage /\ htree[a] = None
          /\ \A a \in DataImage : htree[a] = 0
        BY <2>1, <2>2 DEF InitHostPages, InitTree
    <2>4. ASSUME NEW a \in CodePages \cup DataImage
          PROVE  Kept(a) /\ hpages[a].iv = 0
        <3> DEFINE archived(ro) == HostPage(Plain(Image[a]), ArchiveMac(a), 0, ro)
        <3>1. \/ a \in CodePages /\ hpages[a] = archived(TRUE)
              \/ a \notin CodePages /\ hpages[a] = archived(FALSE)
            <4>1. CASE a \in CodePages
                <5>1. (a \in CodePages) = TRUE
                    BY <4>1
                <5> QED BY <2>3, <4>1, <5>1, Zenon
            <4>2. CASE a \notin CodePages
                <5>1. (a \in CodePages) = FALSE
                    BY <4>2
                <5> QED BY <2>3, <4>2, <5>1, Zenon
            <4> QED BY <4>1, <4>2
        <3> QED BY <3>1 DEF Kept, HostPage, ArchiveMac
    <2>5. \A a \in WritePages \ DataImage : hpages[a].iv = htree[a] /\ htree[a] = None
        BY <2>3 DEF NoHostPage, HostPage
    <2> QED BY <2>2, <2>3, <2>4, <2>5 DEF StoreInv
<1> QED BY <1>1, <1>2, <1>3 DEF AgreeInv

LEMMA NextAgrees ==
    ASSUME HostReliable, IInv, AgreeInv, [Next]_vars
    PROVE  AgreeInv' \/ HostEnded'
<1>1. CASE AppStep
    BY <1>1, LookupAgrees, ExitAgrees DEF AppStep
<1>2. CASE DeviceStep
    BY <1>2, AccessAgrees, EvictAgrees, CommitHmacAgrees, CommitProofAgrees,
       CreateEmptyPageAgrees, UseZeroPageAgrees, RequestPageAgrees, RequestHmacAgrees,
       RequestProofAgrees, VerifyProofAgrees DEF DeviceStep, InvalidApdu
<1>3. CASE HostStep
    <2>1. HostOnly
        BY <1>3 DEF HostStep, HostOnly, treeVars
    <2> QED BY <1>3, <2>1, HostSendPageAgrees, HostSendHmacAgrees, HostSendProofAgrees,
               HostCommitPageAgrees, HostCommitHmacAgrees DEF HostStep
<1>4. CASE UNCHANGED vars
    <2>1. UNCHANGED <<pages, root, last_entry, pc, frame, err, ignored, chan, hostVars>>
        BY <1>4 DEF vars, treeVars
    <2>2. ExchangeInv'
        BY <2>1 DEF AgreeInv, ExchangeInv, Quiet, hostVars, Slot, Writeable, InFlight
    <2>3. TreesAgree'
        BY <2>1 DEF AgreeInv, TreesAgree, HostAhead, hostVars, Slot
    <2> QED BY <2>1, <2>2, <2>3, StoreKept DEF AgreeInv, StopsOnlyForCause, hostVars
<1> QED BY <1>1, <1>2, <1>3, <1>4 DEF Next, Stopped

\* Once the host has ended nothing happens: the device waits for its reply.
LEMMA HostEndedForGood == ASSUME HostReliable, HostEnded, [Next]_vars PROVE HostEnded'
<1>1. ~AppStep
    BY DEF HostEnded, AppStep, Exit, Lookup
<1>2. ~DeviceStep
    BY DEF HostEnded, DeviceStep, Access, Evict, CommitHmac, CommitProof, CreateEmptyPage,
           UseZeroPage, ZeroPage, RequestPage, RequestHmac, RequestProof, VerifyProof,
           InvalidApdu, Waiting
<1>3. ~HostStep
    BY DEF HostEnded, HostStep, HostSendPage, HostSendHmac, HostSendProof, HostCommitPage,
           HostCommitHmac, HostCommit
<1>4. UNCHANGED <<hpc, root, pc, chan, err, ignored>>
    BY <1>1, <1>2, <1>3 DEF Next, Stopped, vars, treeVars, hostVars
<1> QED BY <1>4 DEF HostEnded, StopsOnlyForCause, ProofsFit

\* With a host that answers as stream_device.py does, the exchanges, the two trees and
\* the host's store agree in every state, until the host ends at a proof that may not fit
\* an APDU; no draw fails half-way.
THEOREM HostAgrees == ASSUME HostReliable PROVE Spec => [](IInv /\ (AgreeInv \/ HostEnded))
<1>1. Init => IInv /\ (AgreeInv \/ HostEnded)
    BY InitIInv, InitAgrees
<1>2. IInv /\ (AgreeInv \/ HostEnded) /\ [Next]_vars => (IInv /\ (AgreeInv \/ HostEnded))'
    <2> SUFFICES ASSUME IInv, AgreeInv \/ HostEnded, [Next]_vars
                 PROVE  IInv' /\ (AgreeInv' \/ HostEnded')
        OBVIOUS
    <2>1. AgreeInv' \/ HostEnded'
        BY NextAgrees, HostEndedForGood
    <2>2. ~ignored'
        BY <2>1 DEF AgreeInv, HostEnded, StopsOnlyForCause
    <2> QED BY <2>1, <2>2, NextIInv
<1> QED BY <1>1, <1>2, PTL DEF Spec

\* An assertion of handle_read_access and handle_write_access only fails in a tree so large
\* that a proof may not fit an APDU, and between two accesses the host's tree, last entry
\* and page counters are the device's.
THEOREM HostStaysInSync == ASSUME HostReliable PROVE Spec => []HostInSync
<1>1. IInv /\ AgreeInv => HostInSync
    <2> SUFFICES ASSUME IInv, AgreeInv, pc = "run"
                 PROVE  /\ htree = root /\ last_entry = Entry(hlast, htree[hlast])
                        /\ \A a \in WritePages : hpages[a].iv = htree[a]
        BY DEF HostInSync, AgreeInv
    <2>1. htree = root /\ hlast = last_entry.addr
        BY DEF AgreeInv, TreesAgree, HostAhead
    <2>2. last_entry = [addr |-> last_entry.addr, iv |-> last_entry.iv]
        BY DEF IInv, TypeInv
    <2>3. root[last_entry.addr] = last_entry.iv
        BY DEF IInv, LastInv
    <2> QED BY <2>1, <2>2, <2>3 DEF Entry, AgreeInv, StoreInv
<1>2. HostEnded => HostInSync
    BY DEF HostEnded, HostInSync
<1> QED BY <1>1, <1>2, HostAgrees, PTL

\* An app whose data and stack sections have no more pages than a tree with short proofs
\* has leaves (128) never meets an assertion of the host that fails.
THEOREM SmallAppsNeverEndTheHost ==
    ASSUME HostReliable, Cardinality(WritePages) =< MaxLeaves
    PROVE  Spec => [](hpc # "failed")
<1>1. ProofsFit(root)
    <2> DEFINE leaves == {a \in WritePages : root[a] # None}
    <2>3. {DataStart, DataEnd - 1, StackStart, StackEnd - 1} \subseteq Int
        BY LayoutAssumption
    <2>4. IsFiniteSet(DataPages) /\ IsFiniteSet(StackPages)
        BY <2>3, FS_Interval DEF DataPages, StackPages
    <2>0. IsFiniteSet(WritePages)
        BY <2>4, FS_Union DEF WritePages
    <2>1. Cardinality(leaves) =< Cardinality(WritePages)
        BY <2>0, FS_Subset, leaves \subseteq WritePages
    <2>2. Cardinality(leaves) \in Nat /\ Cardinality(WritePages) \in Nat
        BY <2>0, FS_Subset, FS_CardinalityType, leaves \subseteq WritePages
    <2> QED BY <2>1, <2>2, LayoutAssumption DEF ProofsFit
<1>2. AgreeInv \/ HostEnded => hpc # "failed"
    BY <1>1 DEF AgreeInv, HostEnded
<1> QED BY <1>2, HostAgrees, PTL

\* No verification of the VM fails with such a host: the app is only stopped by its exit,
\* by an invalid access, or at the IV limit, and no draw fails half-way.
THEOREM StopsForCause == ASSUME HostReliable PROVE Spec => []StopsOnlyForCause
<1>1. AgreeInv \/ HostEnded => StopsOnlyForCause
    BY DEF AgreeInv, HostEnded
<1> QED BY <1>1, HostAgrees, PTL
=============================================================================
