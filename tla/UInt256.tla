------------------------------- MODULE UInt256 -------------------------------
(***************************************************************************)
(* The big integers of the VM (uint256.c), with which it prints amounts for *)
(* the apps (sys_tostring256 of ecall_bolos.c), against the integers.       *)
(*                                                                          *)
(* A word has WordBits bits, 64 in the code; the names of the operations    *)
(* keep the 128 and 256 of the code.  A uint128_t is the pair of its upper  *)
(* and its lower word, a uint256_t the pair of its upper and its lower half. *)
(***************************************************************************)
EXTENDS Integers, Sequences, SequencesExt, Bitwise

CONSTANT WordBits

Wrap(x) == x % 2^WordBits
shl(x, v) == Wrap(x * 2^v)
shr(x, v) == x \div 2^v
Bits128 == 2 * WordBits
Bits256 == 4 * WordBits

Zero128 == <<0, 0>>
Zero256 == <<Zero128, Zero128>>
One128 == <<0, 1>>
One256 == <<Zero128, One128>>
-----------------------------------------------------------------------------
gt128(x, y) == IF x[1] = y[1] THEN x[2] > y[2] ELSE x[1] > y[1]
gt256(x, y) == IF x[1] = y[1] THEN gt128(x[2], y[2]) ELSE gt128(x[1], y[1])
gte128(x, y) == gt128(x, y) \/ x = y
gte256(x, y) == gt256(x, y) \/ x = y

Carry(b) == IF b THEN 1 ELSE 0

add128(x, y) == <<Wrap(x[1] + y[1] + Carry(Wrap(x[2] + y[2]) < x[2])), Wrap(x[2] + y[2])>>

\* Faulty variant: the carry of the lower halves is lost.
add256_no_carry(x, y) == <<add128(x[1], y[1]), add128(x[2], y[2])>>

add256(x, y) ==
    LET upper == add128(x[1], y[1])
        lower == add128(x[2], y[2])
    IN  <<IF gt128(x[2], lower) THEN add128(upper, One128) ELSE upper, lower>>

minus128(x, y) == <<Wrap(x[1] - y[1] - Carry(Wrap(x[2] - y[2]) > x[2])), Wrap(x[2] - y[2])>>

minus256(x, y) ==
    LET upper == minus128(x[1], y[1])
        lower == minus128(x[2], y[2])
    IN  <<IF gt128(lower, x[2]) THEN minus128(upper, One128) ELSE upper, lower>>

or128(x, y) == <<x[1] | y[1], x[2] | y[2]>>
or256(x, y) == <<or128(x[1], y[1]), or128(x[2], y[2])>>
-----------------------------------------------------------------------------
shiftl128(x, v) ==
    CASE v >= Bits128 -> Zero128
      [] v \in WordBits .. Bits128 - 1 -> <<shl(x[2], v - WordBits), 0>>
      [] v < WordBits -> <<Wrap(shl(x[1], v) + shr(x[2], WordBits - v)), shl(x[2], v)>>

shiftr128(x, v) ==
    CASE v >= Bits128 -> Zero128
      [] v \in WordBits .. Bits128 - 1 -> <<0, shr(x[1], v - WordBits)>>
      [] v < WordBits -> <<shr(x[1], v), Wrap(shl(x[1], WordBits - v) + shr(x[2], v))>>

shiftl256(x, v) ==
    CASE v >= Bits256 -> Zero256
      [] v \in Bits128 .. Bits256 - 1 -> <<shiftl128(x[2], v - Bits128), Zero128>>
      [] v < Bits128 -> <<add128(shiftl128(x[1], v), shiftr128(x[2], Bits128 - v)),
                          shiftl128(x[2], v)>>

shiftr256(x, v) ==
    CASE v >= Bits256 -> Zero256
      [] v \in Bits128 .. Bits256 - 1 -> <<Zero128, shiftr128(x[1], v - Bits128)>>
      [] v < Bits128 -> <<shiftr128(x[1], v),
                          add128(shiftr128(x[2], v), shiftl128(x[1], Bits128 - v))>>

RECURSIVE bits(_), bitsOfHalf(_)
bits(w) == IF w = 0 THEN 0 ELSE 1 + bits(shr(w, 1))
bits128(x) == IF x[1] # 0 THEN WordBits + bits(x[1]) ELSE bits(x[2])
bitsOfHalf(x) == IF x = Zero128 THEN 0 ELSE 1 + bitsOfHalf(shiftr128(x, 1))
bits256(x) == IF x[1] # Zero128 THEN Bits128 + bitsOfHalf(x[1]) ELSE bitsOfHalf(x[2])

\* By half words, from the most significant; products[i, j] in the code is at(4 - i, j).
mul128(x, y) ==
    LET half == WordBits \div 2
        low(w) == w % 2^half
        high(w) == shr(w, half)
        top == <<high(x[1]), low(x[1]), high(x[2]), low(x[2])>>
        bottom == <<high(y[1]), low(y[1]), high(y[2]), low(y[2])>>
        at(i, j) == top[i] * bottom[j]
        fourth == low(at(4, 4))
        third  == low(at(4, 3)) + high(at(4, 4)) + low(at(3, 4))
        second == low(at(4, 2)) + high(at(4, 3)) + low(at(3, 3)) + high(at(3, 4))
                    + low(at(2, 4))
        first  == low(at(4, 1)) + high(at(4, 2)) + low(at(3, 2)) + high(at(3, 3))
                    + low(at(2, 3)) + high(at(2, 4)) + low(at(1, 4))
        shifted == add128(<<shl(first, half), 0>>, <<high(third), shl(third, half)>>)
    IN  add128(<<0, fourth>>, add128(<<Wrap(second), 0>>, shifted))
-----------------------------------------------------------------------------
(* Division by shifting and subtracting: copyd is the divisor and adder is one, both shifted *)
(* to the left as far as the dividend goes. *)

RECURSIVE loop128(_, _, _, _, _), loop256(_, _, _, _, _)
loop128(r, copyd, adder, resDiv, resMod) ==
    IF ~gte128(resMod, r) THEN <<resDiv, resMod>>
    ELSE LET fits == gte128(resMod, copyd)
         IN  loop128(r, shiftr128(copyd, 1), shiftr128(adder, 1),
                     IF fits THEN or128(resDiv, adder) ELSE resDiv,
                     IF fits THEN minus128(resMod, copyd) ELSE resMod)
divmod128(l, r) ==
    LET d    == bits128(l) - bits128(r)
        back == Carry(gt128(shiftl128(r, d), l))
    IN  IF gt128(r, l) THEN <<Zero128, l>>
        ELSE loop128(r, shiftr128(shiftl128(r, d), back), shiftr128(shiftl128(One128, d), back),
                     Zero128, l)

loop256(r, copyd, adder, resDiv, resMod) ==
    IF ~gte256(resMod, r) THEN <<resDiv, resMod>>
    ELSE LET fits == gte256(resMod, copyd)
         IN  loop256(r, shiftr256(copyd, 1), shiftr256(adder, 1),
                     IF fits THEN or256(resDiv, adder) ELSE resDiv,
                     IF fits THEN minus256(resMod, copyd) ELSE resMod)
divmod256(l, r) ==
    LET d    == bits256(l) - bits256(r)
        back == Carry(gt256(shiftl256(r, d), l))
    IN  IF gt256(r, l) THEN <<Zero256, l>>
        ELSE loop256(r, shiftr256(shiftl256(r, d), back), shiftr256(shiftl256(One256, d), back),
                     Zero256, l)

NoString == <<-1>>

\* The digits, from the most significant; the terminating zero is not counted in outLength.
RECURSIVE digits128(_, _, _, _), digits256(_, _, _, _)
digits128(n, base, out, outLength) ==
    LET qr == divmod128(n, base)
        s  == Append(out, qr[2][2])
    IN  IF Len(out) > outLength - 1 THEN NoString
        ELSE IF qr[1] = Zero128 THEN Reverse(s) ELSE digits128(qr[1], base, s, outLength)
tostring128(n, base, outLength) ==
    IF base \notin 2 .. 16 THEN NoString ELSE digits128(n, <<0, base>>, <<>>, outLength)

digits256(n, base, out, outLength) ==
    LET qr == divmod256(n, base)
        s  == Append(out, qr[2][2][2])
    IN  IF Len(out) > outLength - 1 THEN NoString
        ELSE IF qr[1] = Zero256 THEN Reverse(s) ELSE digits256(qr[1], base, s, outLength)
tostring256_implem(n, base, outLength) ==
    IF base \notin 2 .. 16 THEN NoString
    ELSE digits256(n, <<Zero128, <<0, base>>>>, <<>>, outLength)
-----------------------------------------------------------------------------
(* Integers. *)

Value128(x) == x[1] * 2^WordBits + x[2]
Value256(x) == Value128(x[1]) * 2^Bits128 + Value128(x[2])
Of128(k) == <<(k \div 2^WordBits) % 2^WordBits, k % 2^WordBits>>
Of256(k) == <<Of128((k \div 2^Bits128) % 2^Bits128), Of128(k % 2^Bits128)>>

\* Each operation on x and y, of Bits128 bits.
Agrees128(x, y) ==
    LET a == Value128(x)
        b == Value128(y)
    IN  /\ add128(x, y) = Of128(a + b) /\ minus128(x, y) = Of128(a - b)
        /\ mul128(x, y) = Of128(a * b)
        /\ gt128(x, y) = (a > b) /\ gte128(x, y) = (a >= b)
        /\ \A v \in 0 .. Bits128 + 1 :
              shiftl128(x, v) = Of128(a * 2^v) /\ shiftr128(x, v) = Of128(a \div 2^v)
        /\ b # 0 => divmod128(x, y) = <<Of128(a \div b), Of128(a % b)>>

\* Of Bits256 bits.
Agrees256(x, y) ==
    LET a == Value256(x)
        b == Value256(y)
    IN  /\ add256(x, y) = Of256(a + b) /\ minus256(x, y) = Of256(a - b)
        /\ gt256(x, y) = (a > b) /\ gte256(x, y) = (a >= b)
        /\ \A v \in 0 .. Bits256 + 1 :
              /\ shiftr256(x, v) = Of256(a \div 2^v)
              /\ shiftl256(x, v) = Of256((a % 2^(Bits256 + 1 - v)) * 2^v)
        /\ b # 0 => divmod256(x, y) = <<Of256(a \div b), Of256(a % b)>>

\* The digits of a string in a base spell the number, without a leading zero, and there is
\* no string only if it has more digits than the buffer.
Spells(s, a, base, outLength) ==
    IF a >= base^outLength THEN s = NoString
    ELSE /\ a = FoldLeft(LAMBDA v, d : base * v + d, 0, s)
         /\ Len(s) > 1 => s[1] # 0
         /\ Len(s) \in 1 .. outLength

\* All operations on x and y, and the strings of x, agree with the integers (uint256.c).
AgreesWithIntegers(x, y) ==
    /\ Agrees256(x, y) /\ Agrees128(x[2], y[2])
    /\ \A base \in {2, 3, 10}, k \in {1, 2, 3, 4} :
          /\ Spells(tostring256_implem(x, base, k), Value256(x), base, k)
          /\ Spells(tostring128(x[2], base, k), Value128(x[2]), base, k)
==============================================================================
