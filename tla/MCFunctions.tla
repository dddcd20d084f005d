----------------------------- MODULE MCFunctions -----------------------------
(***************************************************************************)
(* The sequential parts of the system: the array of a page cache, the       *)
(* Merkle tree, the interpreter, and the functions of the apps and the VM,  *)
(* each for itself.  A behaviour has one subject.  A function is given an   *)
(* input in two steps.                                                      *)
(***************************************************************************)
EXTENDS PageCache, Merkle, Cpu, UInt256, Rlp, Amounts, Addresses, ImagesAndFrames

\* The subject is "cache", "merkle", "cpu", or a function.
functionsVars == <<subject, input, cacheVars, merkleVars, cpuVars>>
-----------------------------------------------------------------------------
(* Inputs. *)

Halves == {0, 1, 15} \X {0, 1, 15} \cup {<<0, 10>>, <<7, 8>>}

Amount(b) == SubSeq(b, Without0(b), Len(b))
AmountBytes == {<<b>> : b \in {1, 10, 50, 99, 255}}
               \cup {<<b, c>> : b \in {1, 3, 39}, c \in {0, 16, 231, 232, 255}}
               \cup {<<1, b, c>> : b, c \in {0, 134, 160}}
               \cup {<<>>, <<0>>, <<0, 100>>, <<0, 0, 1, 0, 0>>}

AddressHeads == {0, 1, 57, 58, 128, 255}
Lengths == {0, 1, 2, 18}

Number20(d) == [i \in 1 .. 20 |-> (7 * i + d) % 256] \o <<>>
FirstBytes == {<<>>, <<1>>, <<127>>, <<128>>, <<1, 0>>}
Transactions(b) ==
    [nonce : {<<>>, b}, gas_price : {b}, gas_limit : {<<82, 8>>}, to : {Number20(0)},
     value : {<<>>, b, <<1>> \o b}, data : {<<>>, b, <<0>>, Number20(3) \o b},
     chain_id : {1, 30, 127, 128, 1000000}]
Payments(b) ==
    [address : {[i \in 1 .. k |-> i % 17] \o <<>> : k \in {38, 40}},
     amount : {b, b \o Number20(1)}, fees : {0, 1, 4000, 90000},
     sig : [parity : {0, 1}, r : {SubSeq(Number20(9) \o Number20(5), 1, k) : k \in {5, 33}},
            s : {SubSeq(Number20(8) \o Number20(4), 1, k) : k \in {1, 32}}]]

\* Segments before, at and after the edges of pages; the data follows the code, in its last
\* page, in the next or behind.
Elf(vaddr, size, more, base) ==
    [vaddr |-> vaddr, bytes |-> [i \in 1 .. size |-> base + i], memsz |-> size + more]
CodeSegments == {Elf(a, size, 0, 100) : a \in {8, 9, 11}, size \in 1 .. 9}
DataSegments(code) ==
    {Elf(code.vaddr + code.memsz + gap, size, more, 200) :
        gap \in {0, 1, 3, 6}, size \in 0 .. 9, more \in {0, 3, 8}}

\* APDUs of the lengths around those of a frame, up to IO_APDU_BUFFER_SIZE.
Requests == {5, 148, 149, 260}
Replies == {2, 147, 148, 149, 258, 260}

\* The images and the frames are those that the theorems of ImageProofs are about.
ASSUME InputsAssumption ==
    /\ \A code \in CodeSegments : \A data \in DataSegments(code) : IsProgram(code, data, Nat)
    /\ \A request \in Requests, reply \in Replies : AreLengths(request, reply)

First ==
    [image |-> CodeSegments, ble |-> Requests,
     uint256 |-> Halves \X Halves, rlp |-> FirstBytes, payment |-> FirstBytes,
     amount |-> AmountBytes, address |-> AddressHeads \X AddressHeads]

Second(f, first) ==
    CASE f = "image" -> DataSegments(first)
      [] f = "ble" -> Replies
      [] f = "uint256" -> Halves \X {<<0, 0>>, <<0, 3>>, <<7, 8>>}
      [] f = "rlp" -> Transactions(first)
      [] f = "payment" -> Payments(first)
      [] f = "amount" -> {0, 1, 2, 6, 8, 18} \X {3, 4, 8, 12, 27, 50}
      [] f = "address" -> Lengths \X {0, 1, 17}
-----------------------------------------------------------------------------
NoCache == pages = <<>> /\ current_page = NULL /\ ret = NULL /\ app_running = FALSE
NoMerkle ==             \* the tree of one entry
    /\ entries = <<Entry(1, 0)>> /\ hostFailed = FALSE /\ max_proof = 0
    /\ root_hash = hash_entry(Entry(1, 0)) /\ n = 1 /\ last_entry = Entry(1, 0)
    /\ refused = FALSE
NoCpu == regs = <<>> /\ pc = 0 /\ mem = <<>> /\ running = FALSE /\ inst = NoInst

FunctionsInit ==
    \/ subject = "cache" /\ CacheInit /\ NoMerkle /\ NoCpu /\ input = <<>>
    \/ subject = "merkle" /\ MerkleInit /\ NoCache /\ NoCpu /\ input = <<>>
    \/ subject = "cpu" /\ CpuInit /\ NoCache /\ NoMerkle /\ input = <<>>
    \/ /\ subject \in DOMAIN First
       /\ \E i \in First[subject] : input = <<i>>
       /\ NoCache /\ NoMerkle /\ NoCpu

FunctionsNext ==
    /\ UNCHANGED subject
    /\ \/ subject = "cache" /\ CacheNext /\ UNCHANGED <<merkleVars, cpuVars, input>>
       \/ subject = "merkle" /\ MerkleNext /\ UNCHANGED <<cacheVars, cpuVars, input>>
       \/ subject = "cpu" /\ CpuNext /\ UNCHANGED <<cacheVars, merkleVars, input>>
       \/ /\ subject \in DOMAIN First /\ Len(input) = 1
          /\ \E i \in Second(subject, input[1]) : input' = Append(input, i)
          /\ UNCHANGED <<cacheVars, merkleVars, cpuVars>>

FunctionsSpec == FunctionsInit /\ [][FunctionsNext]_functionsVars
-----------------------------------------------------------------------------
\* The calls of uint256.c compute on the halves of a number what the integers do.
IntegersOfTheVm == Given("uint256") => AgreesWithIntegers(input[1], input[2])

\* rlp.c reads from a transaction the fields that were encoded, and what the swap app
\* encodes for a payment is RLP, but for the header Rlp.tla names.
TransactionsDecode ==
    /\ Given("rlp") => DecodesWhatWasEncoded(input[2])
    /\ Given("payment") => EncodesThePayment(input[2])

\* 100000000 satoshis are one bitcoin: "BTC 1 (100000000 sat)" (test_swap.c, swap.py).
SatoshisPrint == Given("amount") => SatoshisAreExact(input[1])

\* An amount on the screen is the amount of the transaction, in every unit and size, and an
\* address that is printed reads back as the key hash it stands for.
PrintedReadsBack ==
    /\ Given("amount") => AmountsAreExact(input[1], input[2][1], input[2][2])
    /\ Given("address") =>
        AddressesReadBack(<<98, 99>>, input[2][2],
                          ZeroBytes(input[2][1]) \o input[1])
=============================================================================
