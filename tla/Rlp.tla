--------------------------------- MODULE Rlp ---------------------------------
(***************************************************************************)
(* RLP, the encoding of Ethereum transactions: the decoder of the Ethereum  *)
(* app (app-ethereum/src/rlp.c) and the encoder of the swap app             *)
(* (app-swap/src/eth/tx.c), against the encoding itself.                    *)
(*                                                                          *)
(* Bytes are 0 .. 255.  A uint256_t is given by its big-endian bytes        *)
(* without leading zeros.                                                   *)
(***************************************************************************)
EXTENDS Integers, Sequences, SequencesExt, TLC

MAX_DATA_SIZE == 1024
INT256_LENGTH == 32
AddressSize == 20

Rest(d, k) == SubSeq(d, k + 1, Len(d))
Without0(b) == SelectInSeq(b, LAMBDA x : x # 0)
Shortest(b) == IF Without0(b) = 0 THEN <<>> ELSE Rest(b, Without0(b) - 1)

\* The bytes of a number.
BytesOf(k) == Shortest(<<k \div 2^24, (k \div 2^16) % 256, (k \div 256) % 256, k % 256>>)
-----------------------------------------------------------------------------
(* rlp.c.  A decoder takes what is left of the buffer, and returns how many bytes it read, *)
(* or 0, and the value. *)

Failed == [ret |-> 0]

\* The numbers that no buffer is as long as.
WideInt == 2^30

rlp_decode_fixed_int(b) ==
    IF Len(b) > 3 THEN WideInt ELSE FoldLeft(LAMBDA v, x : 256 * v + x, 0, b)

\* An empty string at the very end of the buffer is refused.
rlp_decode_int(d) ==
    LET length_size == d[1] - 128
    IN  IF Len(d) = 0 THEN Failed
        ELSE IF d[1] < 128 THEN [ret |-> 1, val |-> d[1]]
        ELSE IF Len(d) < 2 \/ length_size > 8 \/ Len(d) - 1 < length_size THEN Failed
        ELSE [ret |-> 1 + length_size,
              val |-> rlp_decode_fixed_int(SubSeq(d, 2, 1 + length_size))]

\* A string of one byte below 0x80 is said to take two; a string of more than 55 bytes is
\* copied from its length on.
rlp_decode_bytes(d) ==
    LET length_size == IF d[1] < 184 THEN 0 ELSE d[1] - 183
        string_size == CASE d[1] < 128 -> 1
                         [] d[1] \in 128 .. 183 -> d[1] - 128
                         [] d[1] > 183 -> rlp_decode_fixed_int(SubSeq(d, 2, 1 + length_size))
        end == 1 + length_size + string_size
    IN  IF \/ Len(d) = 0 \/ d[1] >= 192
           \/ length_size > Len(d) - 1 \/ string_size > MAX_DATA_SIZE \/ end > Len(d)
        THEN Failed
        ELSE [ret |-> end,
              val |-> IF d[1] < 128 THEN <<d[1]>> ELSE SubSeq(d, 2, 1 + string_size)]

\* Faulty variant: the bytes are in the other order.
convertUint256LE(b) == Shortest(Reverse(b))

convertUint256BE(b) == Shortest(b)

rlp_decode_uint256(d) ==
    LET string_size == d[1] - 128
    IN  IF Len(d) = 0 \/ d[1] > 183 THEN Failed
        ELSE IF d[1] < 128 THEN [ret |-> 1, val |-> convertUint256BE(<<d[1]>>)]
        ELSE IF 1 + string_size > Len(d) \/ string_size > INT256_LENGTH THEN Failed
        ELSE [ret |-> 1 + string_size,
              val |-> convertUint256BE(SubSeq(d, 2, 1 + string_size))]

TxFields == <<"nonce", "gas_price", "gas_limit", "to", "value", "data",
              "chain_id", "zero", "zero">>

decode_field(f, d) ==
    CASE f \in {"nonce", "gas_price", "gas_limit", "value"} -> rlp_decode_uint256(d)
      [] f \in {"to", "data"} -> rlp_decode_bytes(d)
      [] f \in {"chain_id", "zero"} -> rlp_decode_int(d)

Accepted(f, r) ==
    /\ r.ret # 0
    /\ f = "to" => Len(r.val) = AddressSize
    /\ f = "zero" => r.val = 0

\* The fields decoded before the first that fails, and whether all of the buffer was read.
RECURSIVE decode_fields(_, _, _)
decode_fields(fields, d, tx) ==
    IF fields = <<>> THEN [ok |-> d = <<>>, tx |-> tx]
    ELSE LET f == Head(fields)
             r == decode_field(f, d)
         IN  IF Accepted(f, r)
             THEN decode_fields(Tail(fields), Rest(d, r.ret), (f :> r.val) @@ tx)
             ELSE [ok |-> FALSE, tx |-> tx]

NoTx == [none |-> TRUE]

\* The size of the size of a list of more than 55 bytes is taken to be one less than it is.
rlp_decode_list(d) ==
    LET length_size == IF d[1] =< 247 THEN 0 ELSE d[1] - 248
        list_size == IF d[1] =< 247 THEN d[1] - 192
                     ELSE rlp_decode_fixed_int(SubSeq(d, 2, 1 + length_size))
    IN  IF \/ Len(d) = 0 \/ d[1] < 192
           \/ length_size > Len(d) - 1 \/ 1 + length_size + list_size # Len(d)
        THEN [ok |-> FALSE, tx |-> NoTx]
        ELSE decode_fields(TxFields, Rest(d, 1 + length_size), NoTx)
-----------------------------------------------------------------------------
(* tx.c.  An encoder returns the bytes, or fails; the buffer is long enough, or all fails. *)

NoBytes == <<-1>>

encode_bytes(b) ==
    IF b = <<>> \/ Len(b) > 55 THEN NoBytes
    ELSE IF Len(b) = 1 /\ b[1] < 128 THEN b
    ELSE <<128 + Len(b)>> \o b

encode_uint256(n) == encode_bytes(n)

\* Faulty variant: the fee itself is the price.
encode_fee_as_price(fees) == encode_uint256(BytesOf(fees))

\* fees is the number; the price of the gas is the fee times the limit.
GasLimit == 21000
encode_gas_price(fees) == encode_uint256(BytesOf(GasLimit * fees))

encode_gas_limit == <<130, 82, 8>>

BadDigit == 16
unhex(digits) ==
    LET unhex_helper(c) == IF c = BadDigit THEN 0 ELSE c
    IN  [i \in 1 .. Len(digits) \div 2 |->
            16 * unhex_helper(digits[2 * i - 1]) + unhex_helper(digits[2 * i])]

\* The digits of the address, without 0x.
encode_address(digits) ==
    IF Len(digits) # 2 * AddressSize THEN NoBytes ELSE encode_bytes(unhex(digits))

\* After the value come the empty data, the chain id and two zeros.
rlp_encode_tx(address, amount, fees, buf_size) ==
    LET parts == <<<<133, 3, 6, 220, 66, 0>>, encode_gas_price(fees), encode_gas_limit,
                   encode_address(address), encode_bytes(amount), <<128, 1, 128, 128>>>>
        all   == FlattenSeq(parts)
    IN  IF (\E i \in DOMAIN parts : parts[i] = NoBytes) \/ Len(all) > buf_size
        THEN NoBytes ELSE all

\* The size of a list of 128 bytes or more is itself written as a string of one byte.
rlp_buffer_to_list(b, max_size) ==
    LET header == CASE Len(b) < 56 -> <<192 + Len(b)>>
                    [] Len(b) \in 56 .. 127 -> <<248, Len(b)>>
                    [] Len(b) \in 128 .. 255 -> <<249, 129, Len(b)>>
                    [] Len(b) > 255 -> NoBytes
    IN  IF header = NoBytes \/ Len(header) + Len(b) > max_size THEN NoBytes
        ELSE header \o b

\* The signature covers the fields without a list header; it is appended to them all.
\* sig is what the curve answers: the parity, r and s.
eth_create_tx(address, amount, fees, sig, max_size) ==
    LET tx  == rlp_encode_tx(address, amount, fees, max_size)
        vrs == <<encode_bytes(<<sig.parity + 2 + 35>>), encode_bytes(sig.r), encode_bytes(sig.s)>>
    IN  IF tx = NoBytes \/ \E i \in DOMAIN vrs : vrs[i] = NoBytes THEN NoBytes
        ELSE rlp_buffer_to_list(tx \o FlattenSeq(vrs), max_size)
-----------------------------------------------------------------------------
(* The encoding, by its definition. *)

Header(base, k) == IF k =< 55 THEN <<base + k>> ELSE <<base + 55 + Len(BytesOf(k))>> \o BytesOf(k)
RlpString(b) == IF Len(b) = 1 /\ b[1] < 128 THEN b ELSE Header(128, Len(b)) \o b
RlpList(items) ==
    LET all == FlattenSeq([i \in DOMAIN items |-> RlpString(items[i])])
    IN  Header(192, Len(all)) \o all

\* A transaction to sign: its fields, the chain, and two empty strings (EIP-155).
RlpTx(tx) ==
    RlpList(<<tx.nonce, tx.gas_price, tx.gas_limit, tx.to, tx.value, tx.data,
              BytesOf(tx.chain_id), <<>>, <<>>>>)

\* rlp_decode_list reads every field of a transaction as it was encoded, and then refuses
\* the transaction for its last empty string: the fields are there nevertheless, and
\* handle_sign_tx shows them.  Two exceptions: nothing is read of a list of more than 55
\* bytes, and a data of a single byte below 0x80 displaces what follows it.
DecodesWhatWasEncoded(tx) ==
    LET decoded == rlp_decode_list(RlpTx(tx))
        upTo(k) == \A i \in 1 .. k : decoded.tx[TxFields[i]] = tx[TxFields[i]]
    IN  /\ ~decoded.ok
        /\ IF RlpTx(tx)[1] > 247 THEN decoded.tx = NoTx
           ELSE IF Len(tx.data) = 1 /\ tx.data[1] < 128 THEN upTo(5)
           ELSE upTo(7)

\* A payment is a list of its fields, of what is signed in their place for this chain, and
\* of the signature; but the header of a list of 128 bytes or more is another.
\* GasLimit * fees is the price the code computes: this says how it is encoded, not that it
\* is the right price (see SignsWhatWasShown in SwapApp).
EncodesThePayment(p) ==
    LET out   == eth_create_tx(p.address, p.amount, p.fees, p.sig, 512)
        items == <<<<3, 6, 220, 66, 0>>, BytesOf(GasLimit * p.fees), BytesOf(GasLimit),
                   unhex(p.address), p.amount, <<>>, <<1>>, <<>>, <<>>,
                   <<p.sig.parity + 37>>, p.sig.r, p.sig.s>>
        list  == RlpList(items)
    IN  IF p.fees = 0 \/ p.amount = <<>> \/ Len(p.address) # 2 * AddressSize
        THEN out = NoBytes
        ELSE IF Len(list) > 2 + 127 THEN Rest(out, 3) = Rest(list, 2) /\ out # list
        ELSE out = list
==============================================================================
