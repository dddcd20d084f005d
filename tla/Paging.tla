------------------------------- MODULE Paging -------------------------------
(***************************************************************************)
(* The page-fault path of the streaming VM and the host's page store.       *)
(*                                                                          *)
(* The device has a few page slots per section (code, data, stack).  An     *)
(* access to a page that is in no slot evicts one: a data or stack page is  *)
(* encrypted, authenticated and committed to the host; heap and stack pages *)
(* that do not exist yet are created by committing pages of zeroes; any     *)
(* other page is requested from the host and verified.  The device keeps    *)
(* only the root of a Merkle tree over (address, counter) entries.          *)
(*                                                                          *)
(* Every exchange is modelled: each action of the device runs from the      *)
(* reply of one io_exchange() to the command of the next one, and each      *)
(* action of the host is one client.exchange() of stream_device.py.         *)
(*                                                                          *)
(* Abstractions.  An address is a page number and 0 is the address of a     *)
(* slot that was never filled.  The contents of a page are one value.       *)
(* Encryption and HMAC are ideal: a ciphertext is the record of what was    *)
(* encrypted, and a MAC is the record of what was authenticated, so two     *)
(* MACs are equal only if the same key, data, address and IV went in.  A    *)
(* root hash is the map from addresses to counters it authenticates and a   *)
(* Merkle proof is the tree it was taken from; the module Merkle has the    *)
(* trees themselves.  The order of the slots is left to PageCache.          *)
(*                                                                          *)
(* A page fault that fails stops the app, but not in ECALL_BAGL_DRAW: there *)
(* ecall_dispatcher.c drops the result, and the app goes on with whatever   *)
(* the fault had done so far.  The history variable ignored says that this  *)
(* happened.  Properties that do not survive it are stated until then.      *)
(***************************************************************************)
EXTENDS Integers, FiniteSets

CONSTANTS
    CodeStart, CodeEnd,         \* manifest->sections[SECTION_CODE], in pages
    DataStart, DataEnd,         \* SECTION_DATA: initial data, bss and heap
    StackStart, StackEnd,       \* SECTION_STACK
    Bss,                        \* manifest->bss: end of the initial data pages
    CodeSlots, DataSlots, StackSlots,   \* NPAGE_CODE, _DATA and _STACK slots
    MAX_IV,                     \* 0xffffffff
    Vals, Zero,                 \* page contents; a page of zeroes
    Garbage,                    \* what a slot holds before decryption
    Image,                      \* contents of the pages of the app's archive
    Accesses,                   \* the page numbers the app uses
    MaxSealed,                  \* bound: pages encrypted when the app last goes on to
                                \* an access, once it ignored a failure
    MaxLeaves,                  \* leaves of a tree whose proofs all have 250 bytes: 128
    HostReliable                \* does the host store answer as its code does?

CodePages  == CodeStart .. (CodeEnd - 1)
DataPages  == DataStart .. (DataEnd - 1)
StackPages == StackStart .. (StackEnd - 1)
WritePages == DataPages \cup StackPages
DataImage  == DataStart .. (Bss - 1)        \* data pages of the archive
Slots      == CodeSlots \cup DataSlots \cup StackSlots

\* The manifest an HSM builds (host/hsm.py): the sections do not overlap, none
\* contains page 0, and there is at least one page of initial data.
ASSUME LayoutAssumption ==
    /\ {CodeStart, CodeEnd, DataStart, DataEnd, StackStart, StackEnd, Bss} \subseteq Nat
    /\ 0 < CodeStart /\ 0 < DataStart /\ 0 < StackStart
    /\ DataStart < Bss /\ Bss =< DataEnd /\ StackStart =< StackEnd
    /\ CodePages \cap WritePages = {}
    /\ DataPages \cap StackPages = {}
    /\ Accesses \subseteq Nat
    /\ MaxLeaves \in Nat /\ MaxSealed \in Nat

ASSUME SlotAssumption ==
    /\ CodeSlots \cap DataSlots = {}
    /\ CodeSlots \cap StackSlots = {}
    /\ DataSlots \cap StackSlots = {}

ASSUME DataAssumption ==
    /\ MAX_IV \in Nat \ {0}
    /\ Zero \in Vals
    /\ Garbage \notin Vals
    /\ Image \in [CodePages \cup DataImage -> Vals]
    /\ HostReliable \in BOOLEAN

VARIABLES
    pages,          \* memory.{code,stack,data}_pages: slot -> struct page_s
    bss_max,        \* memory.bss_max
    stack_min,      \* memory.stack_min
    root,           \* ctx.root_hash (and ctx.n) of merkle.c
    last_entry,     \* ctx.last_entry of merkle.c
    pc,             \* where the device is
    frame,          \* the locals of the calls in progress
    loading,        \* the victim is saved and its slot is being refilled
    err,            \* why the app was stopped
    out,            \* the last access that completed
    chan,           \* the APDU in flight
    sealed,         \* history: every page encrypted under the dynamic key
    ignored,        \* history: the app went on after a fault failed half-way
    hpages,         \* DeviceStream.pages
    htree,          \* DeviceStream.merkletree: address -> counter
    hlast,          \* address of its last entry
    hpc,            \* where DeviceStream is
    hreq            \* the locals of the host's handler

memVars  == <<bss_max, stack_min>>
treeVars == <<root, last_entry>>
hostVars == <<hpages, htree, hlast, hpc, hreq>>
vars == <<pages, memVars, treeVars, pc, frame, loading, err, out, chan, sealed,
          ignored, hostVars>>
-----------------------------------------------------------------------------
(* Ideal cryptography. *)

None == -1                          \* counter of an address that is no leaf
IVs  == 0 .. MAX_IV

\* A page of the archive is in clear; its IV is 0.
Plain(v) == [addr |-> 0, iv |-> 0, val |-> v]

\* encrypt_page: AES-CBC under the dynamic key with the IV addr || iv32.
encrypt_page(a, iv, v) == [addr |-> a, iv |-> iv, val |-> v]

\* decrypt_page gives the plaintext back only under the same address and IV.
decrypt_page(ct, a, iv) == IF ct.addr = a /\ ct.iv = iv THEN ct.val ELSE Garbage

\* hmac(data || addr || iv): the static key for IV 0, the dynamic one otherwise.
Hmac(ct, a, iv) == [dynamic |-> iv # 0, ct |-> ct, addr |-> a, iv |-> iv]

\* The MACs in existence: those of the archive and those the device computed.
ArchiveMac(a) == Hmac(Plain(Image[a]), a, 0)
Macs == {ArchiveMac(a) : a \in CodePages \cup DataImage}
            \cup {Hmac(c, c.addr, c.iv) : c \in sealed}
Ciphertexts == {Plain(v) : v \in Vals} \cup sealed

\* A Merkle proof is the path of one leaf of a tree.  proof_hash computes the
\* root of that tree with an entry in the place of the leaf.
Trees  == [WritePages -> {None} \cup IVs]
Proofs == [leaf : WritePages, tree : Trees]
Entry(a, iv) == [addr |-> a, iv |-> iv]
proof_hash(e, proof) == [proof.tree EXCEPT ![e.addr] = e.iv]
merkle_verify_proof(e, proof) == e.addr = proof.leaf /\ proof_hash(e, proof) = root
-----------------------------------------------------------------------------
(* The page cache (memory.c). *)

FreePage == [addr |-> 0, val |-> Zero, iv |-> 0]
NoFrame == [op |-> "none", addr |-> 0, val |-> Zero, slot |-> "none",
            cursor |-> 0, limit |-> 0, ct |-> Plain(Zero)]
NoMsg == [kind |-> "none"]
NoAccess == [op |-> "none"]

\* get_cache for loads and stores, and the test of get_code_page for fetches.
get_cache(op, a) ==
    IF a \in CodePages
    THEN IF op = "write" THEN {} ELSE CodeSlots
    ELSE IF op = "fetch" THEN {}
    ELSE IF a \in DataPages THEN DataSlots
    ELSE IF a \in StackPages THEN StackSlots
    ELSE {}

\* Faulty variant: the search never looks at one of the slots.
find_page_misses_a_slot(cache, a) ==
    {s \in cache : pages[s].addr = a /\ (a = 0 \/ s # CHOOSE t \in cache : TRUE)}

find_page(cache, a) == {s \in cache : pages[s].addr = a}

\* The binary search may miss a page once the array is no longer sorted.
Missed(cache, a) == find_page(cache, a) = {} \/ ignored

\* A free slot if there is one, otherwise the slot the LFSR designates.  In an array
\* that is not sorted a free slot need not be the first.
evict_page(cache) ==
    LET free == find_page(cache, 0)
    IN  IF free = {} \/ ignored THEN cache ELSE free

\* The pages that have to exist before page a can be used: [from, to).
Growth(s, a) ==
    IF s \in DataSlots /\ a >= bss_max THEN [from |-> bss_max, to |-> a + 1]
    ELSE IF s \in StackSlots /\ a < stack_min THEN [from |-> a, to |-> stack_min]
    ELSE [from |-> 0, to |-> 0]

Slot == frame.slot
Writeable == Slot \notin CodeSlots
-----------------------------------------------------------------------------
(* The device.  Waiting(k): io_exchange() returned with the host's reply of  *)
(* kind k.  A host that is not reliable may reply with anything it can form: *)
(* any page and any MAC it ever saw, and the proof of any tree.              *)

Stop(e) ==
    /\ pc' = "stopped"
    /\ err' = e
    /\ chan' = NoMsg

\* The page fault fails.  The app is stopped, or its draw returns as if nothing was
\* wrong; half-way means that the fault leaves something behind.
Fail(e, halfway) ==
    \/ /\ frame.op # "draw"
       /\ Stop(e)
       /\ UNCHANGED <<frame, loading, ignored>>
    \/ /\ frame.op = "draw"
       /\ pc' = "run"
       /\ frame' = NoFrame
       /\ loading' = FALSE
       /\ chan' = NoMsg
       /\ ignored' = (ignored \/ halfway)
       /\ UNCHANGED err

Waiting(k) == pc = k /\ chan.kind = k

Replies(reply, any) == IF HostReliable THEN {reply} \cap any ELSE any

\* A load or a store outside of the sections ends the app, but a draw does not; so does
\* a fetch, with fatal(), which ends the VM as well.
InvalidAccess(op) == IF op = "fetch" THEN "invalid_fetch" ELSE "invalid_access"

\* mem_read, mem_write, get_buffer, get_instruction: look the page up.
Lookup(op, a, v) ==
    LET cache == get_cache(op, a)
        hit   == find_page(cache, a)
    IN  /\ pc = "run"
        /\ ignored => Cardinality(sealed) =< MaxSealed
        /\ \/ /\ cache = {} /\ op # "draw"
              /\ Stop(InvalidAccess(op))
              /\ UNCHANGED frame
           \/ /\ cache = {} /\ op = "draw"
              /\ UNCHANGED <<pc, frame, err, chan>>
           \/ /\ hit # {}
              /\ \E s \in hit :
                    frame' = [NoFrame EXCEPT !.op = op, !.addr = a, !.val = v, !.slot = s]
              /\ pc' = "access"
              /\ UNCHANGED <<err, chan>>
           \/ /\ Missed(cache, a)
              /\ \E s \in evict_page(cache) :
                    frame' = [NoFrame EXCEPT !.op = op, !.addr = a, !.val = v, !.slot = s]
              /\ pc' = "evict"
              /\ UNCHANGED <<err, chan>>
        /\ out' = NoAccess
        /\ UNCHANGED <<pages, memVars, treeVars, loading, sealed, ignored, hostVars>>

\* The page is in its slot: the load or the store itself.
Access ==
    /\ pc = "access"
    /\ IF frame.op = "write"
       THEN /\ pages' = [pages EXCEPT ![Slot].val = frame.val]
            /\ out' = [op |-> "write", addr |-> frame.addr, val |-> frame.val]
       ELSE /\ out' = [op |-> frame.op, addr |-> frame.addr, val |-> pages[Slot].val]
            /\ UNCHANGED pages
    /\ pc' = "run"
    /\ frame' = NoFrame
    /\ UNCHANGED <<memVars, treeVars, loading, err, chan, sealed, ignored, hostVars>>

\* stream_commit_page, up to its first exchange.
CommitPage(p) ==
    /\ IF p.iv = MAX_IV
       THEN /\ Fail("iv_reuse", FALSE)
            /\ pages' = [pages EXCEPT ![Slot] = p]
            /\ UNCHANGED sealed
       ELSE LET ct == encrypt_page(p.addr, p.iv + 1, p.val)
            IN  /\ pages' = [pages EXCEPT ![Slot] = [p EXCEPT !.iv = @ + 1]]
                /\ sealed' = sealed \cup {ct}
                /\ chan' = [kind |-> "COMMIT_PAGE", ct |-> ct]
                /\ pc' = "ack"
                /\ UNCHANGED <<frame, loading, err, ignored>>
    /\ UNCHANGED <<memVars, treeVars, out, hostVars>>

\* The victim is saved or worth nothing: its slot may be refilled.
Refill ==
    LET g == Growth(Slot, frame.addr)
    IN  /\ frame' = [frame EXCEPT !.cursor = g.from, !.limit = g.to]
        /\ loading' = TRUE
        /\ pc' = "create"

\* Faulty variant: a page of the archive is taken for unchanged.
EvictDropsArchivePages ==
    /\ pc = "evict"
    /\ \/ /\ Writeable /\ pages[Slot].iv # 0
          /\ CommitPage(pages[Slot])
       \/ /\ ~(Writeable /\ pages[Slot].iv # 0)
          /\ Refill
          /\ UNCHANGED <<pages, memVars, treeVars, err, out, chan, sealed, ignored,
                         hostVars>>

\* create_page: commit the victim, unless it is read-only or never was filled.
Evict ==
    /\ pc = "evict"
    /\ \/ /\ Writeable /\ pages[Slot].addr # 0
          /\ CommitPage(pages[Slot])
       \/ /\ ~(Writeable /\ pages[Slot].addr # 0)
          /\ Refill
          /\ UNCHANGED <<pages, memVars, treeVars, err, out, chan, sealed, ignored,
                         hostVars>>

\* stream_commit_page, second exchange: address, IV and MAC.
CommitHmac ==
    /\ Waiting("ack")
    /\ LET p == pages[Slot]
       IN  chan' = [kind |-> "COMMIT_HMAC", addr |-> p.addr, iv |-> p.iv,
                    mac |-> Hmac(encrypt_page(p.addr, p.iv, p.val), p.addr, p.iv)]
    /\ pc' = "old_proof"
    /\ UNCHANGED <<pages, memVars, treeVars, frame, loading, err, out, sealed, ignored,
                   hostVars>>

\* merkle_insert and merkle_update, once the proof is verified.
merkle_insert(e, proof) ==
    /\ merkle_verify_proof(last_entry, proof)
    /\ root' = [proof_hash(last_entry, proof) EXCEPT ![e.addr] = e.iv]
    /\ last_entry' = e

\* Faulty variants: last_entry is not kept up; the old entry is not verified.
merkle_update_forgets_last(old, e, proof) ==
    /\ merkle_verify_proof(old, proof)
    /\ root' = proof_hash(e, proof)
    /\ last_entry' = last_entry

merkle_update_unverified(old, e, proof) ==
    /\ root' = proof_hash(e, proof)
    /\ last_entry' = IF last_entry = old THEN e ELSE last_entry

merkle_update(old, e, proof) ==
    /\ merkle_verify_proof(old, proof)
    /\ root' = proof_hash(e, proof)
    /\ last_entry' = IF last_entry = old THEN e ELSE last_entry

\* An address that already is a leaf gets a second one, which the map from addresses to
\* counters cannot hold: the app is not followed beyond this point.  InsertsAreFresh
\* says that only a fault that failed half-way and was ignored leads here.
SecondLeaf ==
    /\ root[pages[Slot].addr] # None
    /\ Stop("second_leaf")
    /\ UNCHANGED <<treeVars, frame, loading, ignored>>

\* stream_commit_page, after its second exchange.
CommitProof ==
    /\ Waiting("old_proof")
    /\ \E proof \in Replies(chan.proof, Proofs) :
         LET p   == pages[Slot]
             e   == Entry(p.addr, p.iv)
             old == Entry(p.addr, p.iv - 1)
         IN  /\ \/ /\ loading /\ root[p.addr] = None /\ merkle_insert(e, proof)
                   /\ frame' = [frame EXCEPT !.cursor = @ + 1]
                   /\ pc' = "create"
                   /\ chan' = NoMsg
                   /\ UNCHANGED <<loading, err, ignored>>
                \/ /\ loading /\ merkle_verify_proof(last_entry, proof)
                   /\ SecondLeaf
                \/ /\ ~loading /\ merkle_update(old, e, proof)
                   /\ Refill
                   /\ chan' = NoMsg
                   /\ UNCHANGED <<err, ignored>>
                \/ /\ ~merkle_verify_proof(IF loading THEN last_entry ELSE old, proof)
                   /\ Fail("merkle", TRUE)
                   /\ UNCHANGED treeVars
    /\ UNCHANGED <<pages, memVars, out, sealed, hostVars>>

\* create_empty_pages: one turn of its loop.
CreateEmptyPage ==
    /\ pc = "create"
    /\ frame.cursor < frame.limit
    /\ CommitPage([addr |-> frame.cursor, val |-> Zero, iv |-> 0])

\* create_page, zero_page: the pages exist now, and the slot holds the last one.
ZeroPage(iv, top) ==
    /\ pc = "create"
    /\ frame.limit # 0 /\ frame.cursor >= frame.limit
    /\ pages' = [pages EXCEPT ![Slot] = [addr |-> frame.addr, val |-> Zero, iv |-> iv]]
    /\ IF Slot \in DataSlots
       THEN bss_max' = top /\ UNCHANGED stack_min
       ELSE stack_min' = frame.addr /\ UNCHANGED bss_max
    /\ loading' = FALSE
    /\ pc' = "access"
    /\ UNCHANGED <<treeVars, frame, err, out, chan, sealed, ignored, hostVars>>

\* Faulty variants: the counter of the commit is lost; bss_max is not moved, or is
\* moved one page too far.
UseZeroPageWithOldIv   == ZeroPage(0, frame.addr + 1)
UseZeroPageKeepsBssMax == ZeroPage(1, bss_max)
UseZeroPageOffByOne    == ZeroPage(1, frame.addr + 2)

UseZeroPage == ZeroPage(1, frame.addr + 1)

\* stream_request_page, first exchange.
RequestPage ==
    /\ pc = "create"
    /\ frame.limit = 0
    /\ chan' = [kind |-> "REQUEST_PAGE", addr |-> frame.addr]
    /\ pc' = "page"
    /\ UNCHANGED <<pages, memVars, treeVars, frame, loading, err, out, sealed, ignored,
                   hostVars>>

\* The reply is copied into the slot before anything is verified.
RequestHmac ==
    /\ Waiting("page")
    /\ \E ct \in Replies(chan.ct, Ciphertexts) :
         /\ frame' = [frame EXCEPT !.ct = ct]
         /\ pages' = [pages EXCEPT ![Slot].addr = frame.addr,
                                   ![Slot].val = IF ct.iv = 0 THEN ct.val ELSE Garbage]
    /\ chan' = [kind |-> "REQUEST_HMAC"]
    /\ pc' = "hmac"
    /\ UNCHANGED <<memVars, treeVars, loading, err, out, sealed, ignored, hostVars>>

\* HMAC check, decryption, and the request of a Merkle proof for a data page.
RequestProof ==
    /\ Waiting("hmac")
    /\ \E mac \in Replies(chan.mac, Macs) :
         LET iv == mac.iv
             ct == frame.ct
         IN  /\ \/ /\ mac # Hmac(ct, frame.addr, iv)
                   /\ Fail("hmac", TRUE)
                   /\ UNCHANGED pages
                \/ /\ mac = Hmac(ct, frame.addr, iv)
                   /\ pages' = [pages EXCEPT ![Slot].iv = iv,
                                    ![Slot].val = IF iv = 0 THEN @
                                                  ELSE decrypt_page(ct, frame.addr, iv)]
                   /\ \/ /\ Writeable
                         /\ chan' = [kind |-> "REQUEST_PROOF"]
                         /\ pc' = "proof"
                         /\ UNCHANGED <<frame, loading, err, ignored>>
                      \/ /\ ~Writeable /\ iv # 0
                         /\ Fail("read-only", TRUE)
                      \/ /\ ~Writeable /\ iv = 0
                         /\ chan' = NoMsg
                         /\ pc' = "access"
                         /\ loading' = FALSE
                         /\ UNCHANGED <<frame, err, ignored>>
    /\ UNCHANGED <<memVars, treeVars, out, sealed, hostVars>>

\* Faulty variant: the page is requested again instead of being returned.
VerifyProofRepeats ==
    /\ Waiting("proof")
    /\ pc' = "create"
    /\ chan' = NoMsg
    /\ UNCHANGED <<pages, memVars, treeVars, frame, loading, err, out, sealed, ignored,
                   hostVars>>

\* The counter of the page is checked against the root hash.
VerifyProof ==
    /\ Waiting("proof")
    /\ \E proof \in Replies(chan.proof, Proofs) :
         /\ \/ /\ merkle_verify_proof(Entry(frame.addr, pages[Slot].iv), proof)
               /\ pc' = "access"
               /\ loading' = FALSE
               /\ chan' = NoMsg
               /\ UNCHANGED <<frame, err, ignored>>
            \/ /\ ~merkle_verify_proof(Entry(frame.addr, pages[Slot].iv), proof)
               /\ Fail("proof", TRUE)
    /\ UNCHANGED <<pages, memVars, treeVars, out, sealed, hostVars>>

\* parse_apdu or the length check of any exchange rejects the reply.
InvalidApdu ==
    /\ ~HostReliable
    /\ pc \in {"ack", "old_proof", "page", "hmac", "proof"} /\ chan.kind = pc
    /\ Fail("apdu", TRUE)
    /\ UNCHANGED <<pages, memVars, treeVars, out, sealed, hostVars>>

DeviceStep ==
    \/ Access \/ Evict \/ CommitHmac \/ CommitProof
    \/ CreateEmptyPage \/ UseZeroPage
    \/ RequestPage \/ RequestHmac \/ RequestProof \/ VerifyProof
    \/ InvalidApdu
-----------------------------------------------------------------------------
(* The host (stream_device.py).  An assertion that fails ends it.  Its handlers  *)
(* are those of a reliable host; any other host answers what the device waits   *)
(* for, with the contents the device's actions choose.                          *)

HostPage(ct, mac, iv, ro) == [ct |-> ct, mac |-> mac, iv |-> iv, read_only |-> ro]
NoHostPage == HostPage(Plain(Zero), ArchiveMac(DataStart), None, FALSE)
NoHostReq == [addr |-> 0, ct |-> Plain(Zero)]

HostAssertFails ==
    /\ hpc' = "failed"
    /\ UNCHANGED <<chan, hpages, htree, hlast, hreq>>

\* assert len(proof) <= 250: 7 nodes of 33 bytes.  A path has at most 7 nodes in a tree
\* of at most 128 leaves; in a larger one its length depends on the leaf's place, which
\* the map does not have, so that the proof may fit and may not.
ProofsFit(tree) == Cardinality({a \in WritePages : tree[a] # None}) =< MaxLeaves

\* handle_read_access: the page data.
HostSendPage ==
    /\ hpc = "loop" /\ chan.kind = "REQUEST_PAGE"
    /\ IF hpages[chan.addr] = NoHostPage
       THEN HostAssertFails
       ELSE /\ chan' = [kind |-> "page", ct |-> hpages[chan.addr].ct]
            /\ hreq' = [NoHostReq EXCEPT !.addr = chan.addr]
            /\ hpc' = "send_hmac"
            /\ UNCHANGED <<hpages, htree, hlast>>

\* handle_read_access: IV and MAC; the handler returns for a read-only page.
HostSendHmac ==
    /\ hpc = "send_hmac" /\ chan.kind = "REQUEST_HMAC"
    /\ LET p == hpages[hreq.addr]
       IN  /\ chan' = [kind |-> "hmac", iv |-> p.iv, mac |-> p.mac]
           /\ IF p.read_only
              THEN hpc' = "loop" /\ hreq' = NoHostReq
              ELSE hpc' = "send_proof" /\ UNCHANGED hreq
    /\ UNCHANGED <<hpages, htree, hlast>>

\* handle_read_access: the Merkle proof, after its assertions.
HostSendProof ==
    /\ hpc = "send_proof" /\ chan.kind = "REQUEST_PROOF"
    /\ \/ /\ htree[hreq.addr] # hpages[hreq.addr].iv \/ ~ProofsFit(htree)
          /\ HostAssertFails
       \/ /\ htree[hreq.addr] = hpages[hreq.addr].iv
          /\ chan' = [kind |-> "proof", proof |-> [leaf |-> hreq.addr, tree |-> htree]]
          /\ hpc' = "loop"
          /\ hreq' = NoHostReq
          /\ UNCHANGED <<hpages, htree, hlast>>

\* handle_write_access: the encrypted page is kept until its MAC comes.
HostCommitPage ==
    /\ hpc = "loop" /\ chan.kind = "COMMIT_PAGE"
    /\ hreq' = [NoHostReq EXCEPT !.ct = chan.ct]
    /\ chan' = [kind |-> "ack"]
    /\ hpc' = "commit_hmac"
    /\ UNCHANGED <<hpages, htree, hlast>>

\* handle_write_access and _write_page: the proof is the one before the change, and its
\* length is only looked at after the change.
HostCommit(last) ==
    /\ hpc = "commit_hmac" /\ chan.kind = "COMMIT_HMAC"
    /\ LET a   == chan.addr
           has == htree[a] # None
       IN  IF has /\ htree[a] + 1 # chan.iv
           THEN HostAssertFails
           ELSE /\ hpages' = [hpages EXCEPT ![a] = HostPage(hreq.ct, chan.mac, chan.iv, FALSE)]
                /\ htree' = [htree EXCEPT ![a] = chan.iv]
                /\ hlast' = last
                /\ \/ /\ ~ProofsFit(htree)
                      /\ hpc' = "failed"
                      /\ UNCHANGED <<chan, hreq>>
                   \/ /\ chan' = [kind |-> "old_proof",
                                  proof |-> [leaf |-> IF has THEN a ELSE hlast, tree |-> htree]]
                      /\ hpc' = "loop"
                      /\ hreq' = NoHostReq

\* Faulty variant: an updated entry becomes the last one.
HostCommitHmacMovesEntry == HostCommit(chan.addr)

HostCommitHmac == HostCommit(IF htree[chan.addr] # None THEN hlast ELSE chan.addr)

\* A host that is not reliable answers any command, with a reply of the right length.
AnyHostReplies ==
    /\ chan.kind \in {"REQUEST_PAGE", "REQUEST_HMAC", "REQUEST_PROOF", "COMMIT_PAGE",
                      "COMMIT_HMAC"}
    /\ chan' = [kind |-> pc]
    /\ UNCHANGED hostVars

HostStep ==
    /\ \/ /\ HostReliable
          /\ \/ HostSendPage \/ HostSendHmac \/ HostSendProof
             \/ HostCommitPage \/ HostCommitHmac
       \/ ~HostReliable /\ AnyHostReplies
    /\ UNCHANGED <<pages, memVars, treeVars, pc, frame, loading, err, out, sealed, ignored>>
-----------------------------------------------------------------------------
\* stream_init_app, init_merkle_tree and DeviceStream.__init__.
InitTree == [a \in WritePages |-> IF a \in DataImage THEN 0 ELSE None]

InitHostPages ==
    [a \in CodePages \cup WritePages |->
        IF a \in CodePages \cup DataImage
        THEN HostPage(Plain(Image[a]), ArchiveMac(a), 0, a \in CodePages)
        ELSE NoHostPage]

Init ==
    /\ pages = [s \in Slots |-> FreePage]
    /\ bss_max = Bss
    /\ stack_min = StackEnd
    /\ root = InitTree
    /\ last_entry = Entry(Bss - 1, 0)
    /\ pc = "run" /\ frame = NoFrame /\ loading = FALSE
    /\ err = "none" /\ out = NoAccess /\ chan = NoMsg
    /\ sealed = {}
    /\ ignored = FALSE
    /\ hpages = InitHostPages
    /\ htree = InitTree
    /\ hlast = Bss - 1
    /\ hpc = "loop" /\ hreq = NoHostReq

\* The app ends: exit(), or xrecv() told to by the host.
Exit ==
    /\ pc = "run"
    /\ Stop("exit")
    /\ UNCHANGED <<pages, memVars, treeVars, frame, loading, out, sealed, ignored, hostVars>>

\* rv_cpu_execute and the system calls use memory in any order.
AppStep ==
    \/ Exit
    \/ \E op \in {"read", "fetch", "draw"}, a \in Accesses : Lookup(op, a, Zero)
    \/ \E a \in Accesses, v \in Vals : Lookup("write", a, v)

\* The app was stopped, and the VM has left stream_run_app; or the host ended.
Stopped == (pc = "stopped" \/ hpc = "failed") /\ UNCHANGED vars

Next == AppStep \/ DeviceStep \/ HostStep \/ Stopped

Spec == Init /\ [][Next]_vars

\* The VM runs on and the host answers; nothing makes the app access memory.
FairSpec == Spec /\ WF_vars(DeviceStep) /\ WF_vars(HostStep)
-----------------------------------------------------------------------------
(* Properties. *)

Ops == {"read", "fetch", "draw", "write"}
PageRecs == [addr : {0} \cup CodePages \cup WritePages,
             val : Vals \cup {Garbage}, iv : IVs]
Sealings == [addr : WritePages, iv : IVs \ {0}, val : Vals \cup {Garbage}]

\* The shape of the device's state: slots, growth limits, tree and history.
TypeOK ==
    /\ pages \in [Slots -> PageRecs]
    /\ bss_max \in Bss .. DataEnd
    /\ stack_min \in StackStart .. StackEnd
    /\ root \in Trees
    /\ last_entry \in [addr : WritePages, iv : IVs]
    /\ pc \in {"run", "access", "evict", "create", "ack", "old_proof",
               "page", "hmac", "proof", "stopped"}
    /\ pc \notin {"run", "stopped"} => frame.op \in Ops /\ Slot \in Slots
    /\ loading \in BOOLEAN
    /\ sealed \subseteq Sealings
    /\ ignored \in BOOLEAN

\* A slot the app's memory is in: all of them, except the one being refilled.
Live(s) == ~(loading /\ s = Slot)

\* The app's memory: a page is in its slot, or else it is what the device last
\* encrypted for it, or what the archive holds, or zeroes.
CurrentVal(a) ==
    LET held == {s \in Slots : Live(s) /\ pages[s].addr = a}
    IN  IF held # {} THEN pages[CHOOSE s \in held : TRUE].val
        ELSE IF a \in CodePages THEN Image[a]
        ELSE IF root[a] = None THEN Zero
        ELSE IF root[a] = 0 THEN Image[a]
        ELSE (CHOOSE c \in sealed : c.addr = a /\ c.iv = root[a]).val

InitVal(a) == IF a \in CodePages \cup DataImage THEN Image[a] ELSE Zero

Flat == INSTANCE FlatMemory WITH
            mem <- [a \in CodePages \cup WritePages |-> CurrentVal(a)],
            InitMem <- [a \in CodePages \cup WritePages |-> InitVal(a)],
            broken <- ignored

\* Every load, store, fetch and draw behaves as on a flat memory: evicting, committing,
\* creating, requesting and verifying pages (create_page, stream_request_page,
\* stream_commit_page) never lose a store or bring an older page back, until the app
\* goes on after a fault of a draw that failed half-way.
ImplementsFlatMemory == Flat!FlatSpec

\* encrypt_page never encrypts two different contents under the same address and
\* IV ("iv reuse" in stream_commit_page), not even when a commit fails.
NoIvReuse ==
    ~ignored => \A c, d \in sealed : c.addr = d.addr /\ c.iv = d.iv => c.val = d.val

\* A page is in at most one slot of the cache, so that no store is made to a copy
\* that a later eviction overwrites (find_page before create_page).
NoDuplicatePage ==
    ~ignored => \A s, t \in Slots : Live(s) /\ Live(t) /\ pages[s].addr = pages[t].addr
                                        => s = t \/ pages[s].addr = 0

\* merkle_insert is only reached for an address that is no leaf yet: bss_max and
\* stack_min separate the pages of the tree from those still to be created.
InsertsAreFresh ==
    ~ignored /\ pc \in {"ack", "old_proof"} /\ loading => root[pages[Slot].addr] = None

\* Committing a page adds 1 to its counter; a page created by the VM starts at 1.
CountersGrowByOne ==
    [][~ignored' => \A a \in WritePages : root'[a] # root[a] =>
            root'[a] = IF root[a] = None THEN 1 ELSE root[a] + 1]_vars

\* With a host that answers as stream_device.py does, no verification of the VM
\* fails: only its exit, an invalid access or the IV limit stops the app, and a draw
\* fails for the last two only, which leave nothing behind.
StopsOnlyForCause ==
    /\ err \in {"none", "exit", "invalid_access", "invalid_fetch", "iv_reuse"}
    /\ ~ignored

\* An assertion of handle_read_access and handle_write_access fails only when the tree is
\* so large that a proof may not fit an APDU.  Between two accesses the host's tree has
\* the root the device keeps, its last entry is the device's, and each stored page
\* carries the counter of its leaf.
HostInSync ==
    /\ hpc = "failed" => ~ProofsFit(root)
    /\ pc = "run" =>
        /\ htree = root
        /\ last_entry = Entry(hlast, htree[hlast])
        /\ \A a \in WritePages : hpages[a].iv = htree[a]

\* Every page fault ends: the access completes, the app is stopped, or the host has
\* ended at a proof that does not fit (HostInSync).
FaultsEnd == pc = "evict" ~> pc \in {"run", "stopped"} \/ hpc = "failed"
=============================================================================
