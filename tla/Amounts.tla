------------------------------- MODULE Amounts -------------------------------
(***************************************************************************)
(* How the apps print amounts: ether from bytes (amountToString of the swap  *)
(* app) and from a uint256_t (value_to_string of both apps), bitcoins       *)
(* (bcd.c), against the decimal numbers they stand for.                     *)
(*                                                                          *)
(* A string is the sequence of its characters; a digit is its value and the *)
(* decimal point is Dot.  The ticker and the terminating zero are left out. *)
(***************************************************************************)
EXTENDS Integers, Sequences, SequencesExt

CONSTANT Words      \* 16-bit words of a uint256_t: 16 in the code

Dot == 10
NoAmount == <<-1>>
Zeros(k) == [i \in 1 .. k |-> 0]
Number(digits) == FoldLeft(LAMBDA v, d : 10 * v + d, 0, digits)
-----------------------------------------------------------------------------
(* eth/utils.c, and app-ethereum/src/utils.c, which has the same functions but the first. *)

\* One division of the number by ten, word by word: the quotient, and the last remainder.
DivideByTen(n) ==
    FoldLeft(LAMBDA s, w : LET v == s.carry * 65536 + w
                           IN  [n |-> Append(s.n, v \div 10), carry |-> v % 10],
             [n |-> <<>>, carry |-> 0], n)

RECURSIVE DecimalDigits(_, _, _)
DecimalDigits(n, out, out_len) ==
    IF \A i \in DOMAIN n : n[i] = 0 THEN out
    ELSE IF Len(out) = out_len THEN NoAmount
    ELSE LET q == DivideByTen(n) IN DecimalDigits(q.n, <<q.carry>> \o out, out_len)

\* The bytes are copied to the right end of the words.
uint256_to_decimal(value, out_len) ==
    LET b == Zeros(2 * Words - Len(value)) \o value
        n == [i \in 1 .. Words |-> 256 * b[2 * i - 1] + b[2 * i]]
    IN  IF Len(value) > 2 * Words THEN NoAmount
        ELSE IF \A i \in DOMAIN n : n[i] = 0 THEN IF out_len < 2 THEN NoAmount ELSE <<0>>
        ELSE DecimalDigits(n, <<>>, out_len)

\* Cuts the zeros at the end of target, from startOffset on, and a point before them.
WithoutZeros(target, startOffset) ==
    LET kept == CHOOSE k \in startOffset .. Len(target) :
                    /\ k = startOffset \/ target[k] # 0
                    /\ \A i \in k + 1 .. Len(target) : target[i] = 0
    IN  IF kept = Len(target) THEN target
        ELSE SubSeq(target, 1, IF kept > 0 /\ target[kept] = Dot THEN kept - 1 ELSE kept)

PlaceDot(src, decimals) == <<0, Dot>> \o Zeros(decimals - Len(src)) \o src

adjustDecimals(src, targetLength, decimals) ==
    LET delta == Len(src) - decimals
        point == IF decimals # 0 THEN <<Dot>> ELSE <<>>
    IN  IF src = <<0>> THEN IF targetLength < 2 THEN NoAmount ELSE <<0>>
        ELSE IF Len(src) =< decimals
        THEN IF targetLength < decimals + 3 THEN NoAmount
             ELSE WithoutZeros(PlaceDot(src, decimals), 2 + decimals - Len(src))
        ELSE IF targetLength < Len(src) + 2 THEN NoAmount
             ELSE WithoutZeros(SubSeq(src, 1, delta) \o point \o SubSeq(src, delta + 1, Len(src)),
                               delta + Len(point))

\* size is what is left of the buffer after the ticker.
amountToString(amount, decimals, size) ==
    LET tmp == uint256_to_decimal(amount, 100)
    IN  IF tmp = NoAmount THEN NoAmount ELSE adjustDecimals(tmp, size - 1, decimals)
-----------------------------------------------------------------------------
(* btc/bcd.c *)

SCRATCH_SIZE == 21
LOOP1 == 15
LOOP2 == 6

\* The scratch with digit f(k) at each k; SubSeq has TLC evaluate the digits at once.
Scratch(f(_)) == SubSeq([k \in 1 .. SCRATCH_SIZE |-> f(k)], 1, SCRATCH_SIZE)

\* A bit is shifted into the decimal digits of scratch: those of 5 and more get 3 more
\* first, so that they carry into the digit to their left.
ShiftIn(s, bit) ==
    LET added == Scratch(LAMBDA k : s.scratch[k] +
                            IF k >= s.smin /\ s.scratch[k] >= 5 THEN 3 ELSE 0)
        smin  == IF added[s.smin] >= 8 THEN s.smin - 1 ELSE s.smin
        carry(k) == IF k = SCRATCH_SIZE THEN bit ELSE IF added[k + 1] >= 8 THEN 1 ELSE 0
    IN  [smin |-> smin,
         scratch |-> Scratch(LAMBDA k : IF k < smin THEN added[k]
                                        ELSE ((2 * added[k]) % 16) + carry(k))]

BitsOf(amount) ==
    [i \in 1 .. 8 * Len(amount) |-> (amount[(i - 1) \div 8 + 1] \div 2^(7 - ((i - 1) % 8))) % 2]

btchip_convert_hex_amount_to_displayable(amount) ==
    LET digits == FoldLeft(ShiftIn, [smin |-> SCRATCH_SIZE - 1, scratch |-> Zeros(SCRATCH_SIZE)],
                           BitsOf(amount)).scratch
        nonZero == SelectInSubSeq(digits, 1, LOOP1, LAMBDA d : d # 0)
        whole == IF nonZero = 0 THEN <<0>> ELSE SubSeq(digits, nonZero, LOOP1)
        last == SelectLastInSubSeq(digits, LOOP1 + 1, LOOP1 + LOOP2, LAMBDA d : d # 0)
    IN  IF last = 0 THEN whole ELSE whole \o <<Dot>> \o SubSeq(digits, LOOP1 + 1, last)
-----------------------------------------------------------------------------
(* The decimal numbers. *)

\* s spells amount / 10^decimals, in the shortest form.
SpellsAmount(s, amount, decimals) ==
    LET dot == SelectInSeq(s, LAMBDA c : c = Dot)
        whole == IF dot = 0 THEN s ELSE SubSeq(s, 1, dot - 1)
        part == IF dot = 0 THEN <<>> ELSE SubSeq(s, dot + 1, Len(s))
    IN  /\ amount = Number(whole \o part \o Zeros(decimals - Len(part)))
        /\ whole # <<>> /\ (whole[1] = 0 => Len(whole) = 1)
        /\ dot # 0 => part # <<>> /\ Last(part) # 0

ValueOf(bytes) == FoldLeft(LAMBDA v, b : 256 * v + b, 0, bytes)

\* The amount of ether that is printed is the amount, and it is printed unless the buffer
\* is too short for it.
EtherIsExact(bytes, decimals, size) ==
    LET s == amountToString(bytes, decimals, size)
        digits == Len(uint256_to_decimal(bytes, 100))
    IN  IF s = NoAmount
        THEN Len(bytes) > 2 * Words \/ size - 1 < decimals + 3 \/ size - 1 < digits + 2
        ELSE SpellsAmount(s, ValueOf(bytes), decimals) /\ Len(s) < size

\* Bitcoins are printed with LOOP2 decimals.
BitcoinsAreExact(bytes) ==
    SpellsAmount(btchip_convert_hex_amount_to_displayable(bytes), ValueOf(bytes), LOOP2)

AmountsAreExact(bytes, decimals, size) ==
    EtherIsExact(bytes, decimals, size) /\ BitcoinsAreExact(bytes)

\* 100000000 satoshis are one bitcoin (swap.py, test_swap.c).
SatoshisPerBitcoin == 8
SatoshisAreExact(bytes) ==
    SpellsAmount(btchip_convert_hex_amount_to_displayable(bytes), ValueOf(bytes), SatoshisPerBitcoin)
==============================================================================
