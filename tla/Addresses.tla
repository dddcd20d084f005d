------------------------------ MODULE Addresses ------------------------------
(***************************************************************************)
(* The addresses the apps print and compare: base 58 (btc/base58.c), segwit *)
(* (btc/segwit.c) and Ethereum's (utils.c of both apps).                    *)
(*                                                                          *)
(* Bytes are 0 .. 255.  A character of base 58 is its place in the alphabet, *)
(* or BadCharacter; one of a segwit address is its ASCII code.              *)
(***************************************************************************)
EXTENDS Integers, Sequences, SequencesExt, Bitwise

NoAddress == <<-1>>
ZeroBytes(k) == [i \in 1 .. k |-> 0]
Leading0(s) == LET k == SelectInSeq(s, LAMBDA x : x # 0) IN IF k = 0 THEN Len(s) ELSE k - 1
-----------------------------------------------------------------------------
(* base58.c *)

BadCharacter == 255

\* One division of the digits by 256: the quotient, and the remainder.
DivideBy256(digits) ==
    FoldLeft(LAMBDA s, d : LET v == s.rem * 58 + d
                           IN  [tmp |-> Append(s.tmp, v \div 256), rem |-> v % 256],
             [tmp |-> <<>>, rem |-> 0], digits)

\* start_at moves by one place at most after each division.
RECURSIVE DecodeBase58(_, _)
DecodeBase58(tmp, out) ==
    IF tmp = <<>> THEN out
    ELSE LET q == DivideBy256(tmp)
         IN  DecodeBase58(IF q.tmp[1] = 0 THEN Tail(q.tmp) ELSE q.tmp, <<q.rem>> \o out)

base58_decode(in, out_len) ==
    LET zero_count == Leading0(in)
        buffer == DecodeBase58(SubSeq(in, zero_count + 1, Len(in)), <<>>)
        value  == SubSeq(buffer, Leading0(buffer) + 1, Len(buffer))
    IN  IF Len(in) \notin 2 .. 164 \/ BadCharacter \in ToSet(in) THEN NoAddress
        ELSE IF out_len < zero_count + Len(value) THEN NoAddress
        ELSE ZeroBytes(zero_count) \o value

\* buffer times 256 plus carry, from digit j down to the first that is not touched any more:
\* the result, and that digit.
RECURSIVE MultiplyBy256(_, _, _, _)
MultiplyBy256(buffer, carry, j, stop_at) ==
    IF j = 0 THEN [buffer |-> buffer, stop_at |-> 0]
    ELSE LET v    == carry + 256 * buffer[j]
             next == [buffer EXCEPT ![j] = v % 58]
         IN  IF next[j] = v /\ j < stop_at THEN [buffer |-> next, stop_at |-> j]
             ELSE MultiplyBy256(next, v \div 58, j - 1, stop_at)

\* Faulty variant: rounded down.
OutputSizeFloor(k) == (k * 138) \div 100

\* Digits of base 58 that have room for k bytes: log 256 / log 58 is less than 1.38.
OutputSize(k) == ((k * 138) \div 100) + 1

base58_encode(in, out_len) ==
    LET zero_count == Leading0(in)
        output_size == OutputSize(Len(in) - zero_count)
        buffer == FoldLeft(LAMBDA s, b : MultiplyBy256(s.buffer, b, output_size, s.stop_at),
                           [buffer |-> ZeroBytes(output_size) \o <<>>, stop_at |-> output_size],
                           SubSeq(in, zero_count + 1, Len(in))).buffer
        digits == SubSeq(buffer, Leading0(buffer) + 1, output_size)
    IN  IF Len(in) > 120 \/ out_len < zero_count + Len(digits) THEN NoAddress
        ELSE ZeroBytes(zero_count) \o digits
-----------------------------------------------------------------------------
(* segwit.c *)

Charset == <<113, 112, 122, 114, 121, 57, 120, 56, 103, 102, 50, 116, 118, 100, 119, 48,
             115, 51, 106, 110, 53, 52, 107, 104, 99, 101, 54, 109, 117, 97, 55, 108>>
Separator == 49
IsLower(c) == c \in 97 .. 122
IsUpper(c) == c \in 65 .. 90
ToLower(c) == IF IsUpper(c) THEN c + 32 ELSE c
charset_rev(c) == SelectInSeq(Charset, LAMBDA x : x = ToLower(c)) - 1

Generator == <<996825010, 642813549, 513874426, 1027748829, 705979059>>
FinalConstant == [bech32 |-> 1, bech32m |-> 734539939]

\* The sum of the generators that the bits of b select.
GeneratorOf ==
    [b \in 0 .. 31 |->
        FoldLeft(LAMBDA sum, i : IF (b \div 2^(i - 1)) % 2 = 1 THEN sum ^^ Generator[i] ELSE sum,
                 0, <<1, 2, 3, 4, 5>>)]

bech32_polymod_step(pre) == ((pre % 2^25) * 32) ^^ GeneratorOf[pre \div 2^25]

Polymod(values) == FoldLeft(LAMBDA chk, v : bech32_polymod_step(chk) ^^ v, 1, values)

Expand(hrp) ==
    [i \in DOMAIN hrp |-> hrp[i] \div 32] \o <<0>> \o [i \in DOMAIN hrp |-> hrp[i] % 32]

bech32_encode(hrp, data, enc) ==
    LET chk == Polymod(Expand(hrp) \o data \o ZeroBytes(6)) ^^ FinalConstant[enc]
        checksum == [i \in 1 .. 6 |-> (chk \div 2^(5 * (6 - i))) % 32]
        all == data \o checksum
    IN  IF \/ \E i \in DOMAIN hrp : hrp[i] \notin 33 .. 126 \/ IsUpper(hrp[i])
           \/ \E i \in DOMAIN data : data[i] > 31
           \/ Len(hrp) + 7 + Len(data) > 90
        THEN NoAddress
        ELSE hrp \o <<Separator>> \o [i \in DOMAIN all |-> Charset[all[i] + 1]]

NoBech32 == [enc |-> "none"]

bech32_decode(input) ==
    LET sep == SelectLastInSeq(input, LAMBDA c : c = Separator)
        hrp == [i \in 1 .. sep - 1 |-> ToLower(input[i])]
        all == [i \in 1 .. Len(input) - sep |-> charset_rev(input[sep + i])]
        chk == Polymod(Expand(hrp) \o all)
    IN  IF \/ Len(input) \notin 8 .. 90 \/ sep < 2 \/ Len(input) - sep < 6
           \/ \E i \in DOMAIN hrp : input[i] \notin 33 .. 126
           \/ \E i \in DOMAIN all : all[i] = -1
           \/ (\E i \in DOMAIN input : IsLower(input[i])) /\ \E i \in DOMAIN input : IsUpper(input[i])
           \/ \A e \in DOMAIN FinalConstant : chk # FinalConstant[e]
        THEN NoBech32
        ELSE [enc  |-> CHOOSE e \in DOMAIN FinalConstant : chk = FinalConstant[e],
              hrp  |-> hrp,
              data |-> SubSeq(all, 1, Len(all) - 6)]

\* The same bits, in groups of outbits.
convert_bits(in, inbits, outbits, pad) ==
    LET Group(s, v) ==
            LET bits == s.bits + inbits
                val  == s.val * 2^inbits + v
                rest == bits % outbits
                out  == [k \in 1 .. bits \div outbits |-> (val \div 2^(bits - k * outbits)) % 2^outbits]
            IN  [val |-> val % 2^rest, bits |-> rest, out |-> s.out \o out]
        all  == FoldLeft(Group, [val |-> 0, bits |-> 0, out |-> <<>>], in)
        last == (all.val * 2^(outbits - all.bits)) % 2^outbits
    IN  IF pad THEN IF all.bits = 0 THEN all.out ELSE Append(all.out, last)
        ELSE IF last # 0 \/ all.bits >= inbits THEN NoAddress ELSE all.out

segwit_addr_encode(hrp, witver, prog) ==
    IF witver > 16 \/ (witver = 0 /\ Len(prog) \notin {20, 32}) \/ Len(prog) \notin 2 .. 40
    THEN NoAddress
    ELSE bech32_encode(hrp, <<witver>> \o convert_bits(prog, 8, 5, TRUE),
                       IF witver > 0 THEN "bech32m" ELSE "bech32")

segwit_addr_decode(hrp, addr) ==
    LET b == bech32_decode(addr)
        witver == b.data[1]
        prog == convert_bits(Tail(b.data), 5, 8, FALSE)
    IN  IF \/ b = NoBech32 \/ b.data = <<>> \/ Len(b.data) > 65 \/ b.hrp # hrp
           \/ witver > 16 \/ b.enc # (IF witver = 0 THEN "bech32" ELSE "bech32m")
           \/ prog = NoAddress \/ Len(prog) \notin 2 .. 40
           \/ witver = 0 /\ Len(prog) \notin {20, 32}
        THEN NoAddress
        ELSE <<witver>> \o prog
-----------------------------------------------------------------------------
(* utils.c: the hexadecimal digits of an address; a letter is a capital if the digit of the *)
(* hash at its place is 8 or more. *)

Nibble(b, i) == LET byte == b[(i \div 2) + 1] IN IF i % 2 = 0 THEN byte \div 16 ELSE byte % 16

checksum(hash_checksum, hash_address) ==
    [i \in 1 .. 2 * Len(hash_address) |->
        LET digit == Nibble(hash_address, i - 1)
        IN  IF digit < 10 THEN 48 + digit
            ELSE IF Nibble(hash_checksum, i - 1) >= 8 THEN 65 + digit - 10
            ELSE 97 + digit - 10]
-----------------------------------------------------------------------------
(* Reading the addresses back. *)

Value(base, s) == FoldLeft(LAMBDA v, d : base * v + d, 0, s)

\* A string of base 58 is the number, after as many zeros as the bytes start with.
Base58IsExact(b) ==
    LET s == base58_encode(b, 50)
    IN  /\ Leading0(s) = Leading0(b) /\ Value(58, s) = Value(256, b)
        /\ Len(s) >= 2 => base58_decode(s, 50) = b

\* A segwit address reads back, in capitals too, and not if one of its characters is another.
SegwitIsExact(hrp, witver, prog) ==
    LET addr == segwit_addr_encode(hrp, witver, prog)
        Capital(c) == IF IsLower(c) THEN c - 32 ELSE c
        capitals == [i \in DOMAIN addr |-> Capital(addr[i])] \o <<>>
        NextChar(c) == Charset[((charset_rev(c) + 1) % 32) + 1]
    IN  IF addr = NoAddress THEN witver = 0 \/ witver > 16 \/ Len(prog) < 2
        ELSE /\ segwit_addr_decode(hrp, addr) = <<witver>> \o prog
             /\ segwit_addr_decode(hrp, capitals) = <<witver>> \o prog
             /\ segwit_addr_decode(hrp, [capitals EXCEPT ![1] = addr[1]]) = NoAddress
             /\ \A i \in DOMAIN addr \ {Len(hrp) + 1} :
                    bech32_decode([addr EXCEPT ![i] = NextChar(addr[i])]) = NoBech32

\* The digits of an Ethereum address are those of its bytes.
ChecksumIsExact(hash, b) ==
    LET s == checksum(hash, b)
        Digit(c) == IF c < 58 THEN c - 48 ELSE ToLower(c) - 87
    IN  /\ \A i \in DOMAIN b : 16 * Digit(s[2 * i - 1]) + Digit(s[2 * i]) = b[i]
        /\ \A i \in DOMAIN s : IsUpper(s[i]) <=> s[i] >= 58 /\ Nibble(hash, i - 1) >= 8

\* Every address printed for the bytes b reads back as b.
AddressesReadBack(hrp, witver, b) ==
    Base58IsExact(b) /\ SegwitIsExact(hrp, witver, b) /\ ChecksumIsExact(Reverse(b), b)
==============================================================================
