------------------------------ MODULE HashCalls ------------------------------
(***************************************************************************)
(* The hash functions of the SDK (app/sdk/crypto.c) on top of               *)
(* sys_hash_update and sys_hash_final (ecall_hash.c).  The VM has no state  *)
(* of its own for a hash: the context is in the memory of the app, and a    *)
(* call copies it in, and out again.  An app may have several, of different *)
(* hash functions, under way.                                               *)
(*                                                                          *)
(* The hash library is external.  A compressed state is the sequence of the *)
(* blocks that went into it.  GuestMemory has the copies to and from the    *)
(* memory of the app, and what happens when a page cannot be loaded.        *)
(***************************************************************************)
EXTENDS Integers, Sequences, SequencesExt

CONSTANTS
    HashContexts,       \* the contexts in the memory of the app
    BlockSize,          \* context -> block size of its hash function
    HashBytes,
    PageBytes,          \* PAGE_SIZE
    MaxHashed           \* bound on the bytes of a message

ASSUME HashAssumption ==
    /\ HashBytes \subseteq Nat
    /\ BlockSize \in [HashContexts -> Nat \ {0}]
    /\ PageBytes \in Nat \ {0} /\ MaxHashed \in Nat

VARIABLES
    guest,              \* context -> ctx_hash_guest_t
    fatal,              \* the app called fatal()
    hashed,             \* history: the bytes hashed since sha256_init, or NotInit
    digest              \* history: the digest returned last, its context and message

hashVars == <<guest, fatal, hashed, digest>>

NotInit == <<-1>>        \* no message
NoDigest == <<>>
-----------------------------------------------------------------------------
(* The hash library. *)

\* cx_sha256_init_no_throw and the others.
CxInit(c) ==
    [counter |-> 0, blen |-> 0, block |-> [i \in 1 .. BlockSize[c] |-> 0], acc |-> <<>>]

\* One byte: a block that is full is compressed.  The block keeps its old bytes.
CxByte(c, ctx, byte) ==
    LET block == [ctx.block EXCEPT ![ctx.blen + 1] = byte]
    IN  IF ctx.blen + 1 < BlockSize[c]
        THEN [ctx EXCEPT !.block = block, !.blen = @ + 1]
        ELSE [counter |-> ctx.counter + 1, blen |-> 0, block |-> block,
              acc |-> Append(ctx.acc, block)]

\* cx_hash_no_throw.
CxHash(c, ctx, bytes) ==
    LET after[n \in 0 .. Len(bytes)] ==
            IF n = 0 THEN ctx ELSE CxByte(c, after[n - 1], bytes[n])
    IN  after[Len(bytes)]

\* With CX_LAST: what is left, and the length, go into the digest.
CxLast(c, ctx) ==
    [acc |-> ctx.acc, rest |-> [i \in 1 .. ctx.blen |-> ctx.block[i]],
     length |-> ctx.counter * BlockSize[c] + ctx.blen]

\* The digest of a message, by the definition of the hash functions.
Hash(c, m) ==
    LET B == BlockSize[c]
        full == Len(m) \div B
    IN  [acc |-> [k \in 1 .. full |-> [i \in 1 .. B |-> m[(k - 1) * B + i]]],
         rest |-> [i \in 1 .. Len(m) - full * B |-> m[full * B + i]],
         length |-> Len(m)]
-----------------------------------------------------------------------------
(* ecall_hash.c *)

\* restore_ctx_from_guest: a context that is new is the library's.
Restored(c) ==
    IF guest[c].initialized
    THEN [counter |-> guest[c].counter, blen |-> guest[c].blen, block |-> guest[c].block,
          acc |-> guest[c].acc]
    ELSE CxInit(c)

Restorable(c) == guest[c].initialized => guest[c].blen =< BlockSize[c]

\* Faulty variant: the number of blocks is not saved.
SavedNoCounter(c, ctx) ==
    [initialized |-> TRUE, counter |-> guest[c].counter, blen |-> ctx.blen,
     block |-> ctx.block, acc |-> ctx.acc]

\* save_ctx_from_host.
Saved(c, ctx) ==
    [initialized |-> TRUE, counter |-> ctx.counter, blen |-> ctx.blen, block |-> ctx.block,
     acc |-> ctx.acc]

\* What is hashed at once of a buffer that starts at an offset in a page.
Pieces(offset, m) ==
    LET first == PageBytes - offset
        count == (Len(m) + offset + PageBytes - 1) \div PageBytes
        From(k) == IF k = 1 THEN 1 ELSE first + (k - 2) * PageBytes + 1
        To(k) == IF k = count THEN Len(m) ELSE first + (k - 1) * PageBytes
    IN  IF m = <<>> THEN <<>> ELSE [k \in 1 .. count |-> SubSeq(m, From(k), To(k))]

Updated(c, offset, m) ==
    LET pieces == Pieces(offset, m)
        after[n \in 0 .. Len(pieces)] ==
            IF n = 0 THEN Restored(c) ELSE CxHash(c, after[n - 1], pieces[n])
    IN  after[Len(pieces)]
-----------------------------------------------------------------------------
(* crypto.c *)

\* sha256_init and the others set one flag; the rest is what the memory held.
HashStart(c) ==
    /\ ~fatal
    /\ guest' = [guest EXCEPT ![c].initialized = FALSE]
    /\ hashed' = [hashed EXCEPT ![c] = <<>>]
    /\ digest' = NoDigest
    /\ UNCHANGED fatal

\* sha256_update.
HashUpdate(c, offset, m) ==
    /\ ~fatal /\ hashed[c] # NotInit
    /\ Len(hashed[c]) + Len(m) =< MaxHashed                       \* bound
    /\ guest' = IF Restorable(c) THEN [guest EXCEPT ![c] = Saved(c, Updated(c, offset, m))]
                ELSE guest
    /\ fatal' = ~Restorable(c)
    /\ hashed' = [hashed EXCEPT ![c] = @ \o m]
    /\ digest' = NoDigest

\* sha256_final: the context is not saved.
HashFinal(c) ==
    /\ ~fatal /\ hashed[c] # NotInit
    /\ digest' = IF Restorable(c)
                 THEN [context |-> c, message |-> hashed[c], is |-> CxLast(c, Restored(c))]
                 ELSE NoDigest
    /\ fatal' = ~Restorable(c)
    /\ UNCHANGED <<guest, hashed>>

\* A context on the stack holds whatever was there.
Rubbish(c) ==
    {[initialized |-> TRUE, counter |-> 1, blen |-> blen, acc |-> <<>>,
      block |-> [i \in 1 .. BlockSize[c] |-> 1]] : blen \in {1, BlockSize[c] + 1}}

HashInit ==
    /\ guest \in {g \in [HashContexts -> UNION {Rubbish(c) : c \in HashContexts}] :
                    \A c \in HashContexts : g[c] \in Rubbish(c)}
    /\ fatal = FALSE
    /\ hashed = [c \in HashContexts |-> NotInit]
    /\ digest = NoDigest

HashNext ==
    \E c \in HashContexts :
        \/ HashStart(c)
        \/ \E offset \in 0 .. PageBytes - 1, m \in BoundedSeq(HashBytes, MaxHashed) :
                HashUpdate(c, offset, m)
        \/ HashFinal(c)

HashSpec == HashInit /\ [][HashNext]_hashVars
-----------------------------------------------------------------------------
(* Properties. *)

\* A digest is the hash of all that its context was given since it was initialized, however
\* it was cut by the app and by the pages, and whatever the app hashed in between; and
\* "this should never happen unless ctx is corrupted" (crypto.c) does not.
DigestsAreOfTheMessages ==
    /\ digest # NoDigest => digest.is = Hash(digest.context, digest.message)
    /\ ~fatal
=============================================================================
