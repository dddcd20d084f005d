------------------------------- MODULE Merkle -------------------------------
(***************************************************************************)
(* The Merkle tree of (address, counter) entries.  The host keeps all the   *)
(* entries (merkletree.py); the device keeps the root hash, the number of   *)
(* entries and the last entry, and updates them from the proof the host     *)
(* sends with each commit (merkle.c).  Paging assumes that a proof verifies *)
(* exactly for the entry it was made for and that both sides always compute *)
(* the same root; here the trees, the paths and the two incremental         *)
(* computations are the code's own.                                         *)
(*                                                                          *)
(* A digest is the term that was hashed, so distinct inputs have distinct   *)
(* digests.  Entries are inserted at addresses 1, 2, 3, ...: the trees never *)
(* look at the address, only at the order of insertion.                     *)
(***************************************************************************)
EXTENDS Integers, Sequences, SequencesExt

CONSTANTS
    MaxEntries,     \* bound on the size of the tree
    MaxCounter,     \* bound on the counters
    MaxProofs       \* numbers of nodes that fit in an APDU: 250 \div 33 in the code

ASSUME MerkleAssumption ==
    /\ MaxEntries \in Nat \ {0} /\ MaxCounter \in Nat
    /\ MaxProofs \subseteq Nat

VARIABLES
    entries,        \* MerkleTree.entries
    hostFailed,     \* an assertion of the host failed
    max_proof,      \* which of MaxProofs it is
    root_hash, n, last_entry,   \* ctx of merkle.c
    refused         \* merkle_insert, _update or _verify_proof returned false

device == <<root_hash, n, last_entry>>
merkleVars == <<entries, hostFailed, max_proof, device, refused>>

Entry(a, c) == [addr |-> a, counter |-> c]
\* Faulty variant: the counter is left out.
hash_entry_of_address(e) == [leaf |-> e.addr]

hash_entry(e) == [leaf |-> e]
hash_nodes(l, r) == [left |-> l, right |-> r]
-----------------------------------------------------------------------------
(* merkletree.py *)

Power[k \in Nat] == IF k = 0 THEN 1 ELSE 2 * Power[k - 1]

\* int.bit_length of Python.
bit_length[x \in Nat] == IF x = 0 THEN 0 ELSE 1 + bit_length[x \div 2]

largest_power_of_two(k) == Power[bit_length[k] - 1]

\* The parts of the list of entries, from one entry to another, and where the right half starts.
Spans(es) == {b \in (1 .. Len(es)) \X (1 .. Len(es)) : b[1] =< b[2]}
Split(b) == b[1] + largest_power_of_two(b[2] - b[1])

\* mth of the parts.
tree(es) ==
    LET node[b \in Spans(es)] ==
            IF b[1] = b[2] THEN hash_entry(es[b[1]])
            ELSE hash_nodes(node[<<b[1], Split(b) - 1>>], node[<<Split(b), b[2]>>])
    IN  node

mth(es) == tree(es)[<<1, Len(es)>>]

\* The proof of the m-th entry: its siblings from the leaf up, each with its side.
path(m, es) ==
    LET siblings[b \in Spans(es)] ==
            IF b[1] = b[2] THEN <<>>
            ELSE IF m < Split(b)
            THEN Append(siblings[<<b[1], Split(b) - 1>>],
                        [op |-> "R", digest |-> tree(es)[<<Split(b), b[2]>>]])
            ELSE Append(siblings[<<Split(b), b[2]>>],
                        [op |-> "L", digest |-> tree(es)[<<b[1], Split(b) - 1>>]])
    IN  siblings[<<1, Len(es)>>]

find_index(a) == CHOOSE i \in DOMAIN entries : entries[i].addr = a
has_addr(a) == \E i \in DOMAIN entries : entries[i].addr = a
get_proof(a) == path(find_index(a), entries)

get_proof_of_last_entry == path(Len(entries), entries)
-----------------------------------------------------------------------------
(* merkle.c *)

\* proof_hash, from the digest the loop starts with.
fold_proof(digest, proof) ==
    LET above[i \in 0 .. Len(proof)] ==
            IF i = 0 THEN digest
            ELSE IF proof[i].op = "L" THEN hash_nodes(proof[i].digest, above[i - 1])
            ELSE hash_nodes(above[i - 1], proof[i].digest)
    IN  above[Len(proof)]
proof_hash(e, proof) == fold_proof(hash_entry(e), proof)

bit_count[x \in Nat] == IF x = 0 THEN 0 ELSE (x % 2) + bit_count[x \div 2]

merkle_verify_proof(e, proof) == proof_hash(e, proof) = root_hash

\* Faulty variant: the entry goes next to the whole tree.
tree_level_top(proof) == Len(proof)

\* The entry goes next to the largest complete subtree that ends with the last
\* entry: the siblings above tree_level are those of the new entry's parent.
tree_level(proof) == Len(proof) - (bit_count[n] - 1)

merkle_insert(e, proof) ==
    LET count == Len(proof)
        level == tree_level(proof)
        below == proof_hash(last_entry, SubSeq(proof, 1, level))
        node  == proof_hash(e, <<[op |-> "L", digest |-> below]>>)
    IN  IF level \in 0 .. count /\ merkle_verify_proof(last_entry, proof)
        THEN /\ root_hash' = fold_proof(node, SubSeq(proof, level + 1, count))
             /\ last_entry' = e
             /\ n' = n + 1
             /\ UNCHANGED refused
        ELSE refused' = TRUE /\ UNCHANGED device

merkle_update(old, e, proof) ==
    IF merkle_verify_proof(old, proof)
    THEN /\ root_hash' = proof_hash(e, proof)
         /\ last_entry' = IF last_entry = old THEN e ELSE last_entry
         /\ UNCHANGED <<n, refused>>
    ELSE refused' = TRUE /\ UNCHANGED device
-----------------------------------------------------------------------------
\* The image has at least one data page; its entries have counter 0.
MerkleInit ==
    \E k \in 1 .. MaxEntries :
        LET image == [i \in 1 .. k |-> Entry(i, 0)]
        IN  /\ entries = image
            /\ root_hash = mth(image) /\ n = k /\ last_entry = image[k]
            /\ hostFailed = FALSE /\ refused = FALSE
            /\ max_proof \in MaxProofs

\* handle_write_access asserts that the proof fits, after writing the page.
Answers(proof, commit) ==
    /\ IF Len(proof) =< max_proof THEN commit /\ UNCHANGED hostFailed
       ELSE hostFailed' = TRUE /\ UNCHANGED <<device, refused>>
    /\ UNCHANGED max_proof

\* stream_commit_page(page, true): a heap or stack page, created with counter 1.
CommitNew ==
    LET e     == Entry(Len(entries) + 1, 1)
        proof == get_proof_of_last_entry
    IN  /\ ~hostFailed /\ ~refused /\ Len(entries) < MaxEntries
        /\ entries' = Append(entries, e)
        /\ Answers(proof, merkle_insert(e, proof))

\* stream_commit_page(page, false).
CommitOld(a) ==
    LET old   == entries[find_index(a)]
        e     == Entry(a, old.counter + 1)
        proof == get_proof(a)
    IN  /\ ~hostFailed /\ ~refused /\ old.counter < MaxCounter
        /\ entries' = [entries EXCEPT ![find_index(a)] = e]
        /\ Answers(proof, merkle_update(old, e, proof))

\* stream_request_page: the entry is verified against the root hash.
Request(a) ==
    LET proof == get_proof(a)
    IN  /\ ~hostFailed /\ ~refused
        /\ Answers(proof, /\ refused' = ~merkle_verify_proof(entries[find_index(a)], proof)
                          /\ UNCHANGED device)
        /\ UNCHANGED entries

MerkleNext == CommitNew \/ \E a \in 1 .. Len(entries) : CommitOld(a) \/ Request(a)

MerkleSpec == MerkleInit /\ [][MerkleNext]_merkleVars
-----------------------------------------------------------------------------
\* The device accepts every proof the host makes, and the root it computes incrementally from
\* them (merkle_insert, merkle_update) is the root of the host's whole tree, whatever its shape;
\* so are the number of entries and the last entry, which the next merkle_insert relies on.
TreesOfHostAndDevice ==
    /\ ~refused
    /\ ~hostFailed =>
        /\ root_hash = mth(entries)
        /\ n = Len(entries) /\ last_entry = Last(entries)

\* A path of the current tree verifies for the entry it was made for and for no other: not
\* for an older counter of the page, nor for another page.  The host's assertion on its
\* length fails only when the tree has more than 2^max_proof leaves: 128 in the code.
ExactProofs ==
    IF hostFailed THEN Len(entries) > Power[max_proof]
    ELSE \A i \in DOMAIN entries :
            LET proof == path(i, entries)
            IN  \A a \in 1 .. MaxEntries, c \in 0 .. MaxCounter :
                    merkle_verify_proof(Entry(a, c), proof) <=> Entry(a, c) = entries[i]
=============================================================================
