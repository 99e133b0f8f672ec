------------------------- MODULE IntegerArithmetic -------------------------
(***************************************************************************)
(* The two representations of whole numbers (vmobjects/integer.py,         *)
(* vmobjects/biginteger.py): machine integers <<"int", n>> of a fixed      *)
(* width, which overflow into <<"big", n>>, and big integers, which never  *)
(* become machine integers again.  Doubles are left out.                   *)
(***************************************************************************)
EXTENDS Integers

CONSTANT MaxInt    \* the largest machine integer, 2^63 - 1 in the code
ASSUME MaxIntAssumption == MaxInt \in Nat \ {0}

MinInt == -MaxInt - 1
MachineInts == MinInt .. MaxInt

Integer(n) == <<"int", n>>
BigInteger(n) == <<"big", n>>
Numbers == ({"int"} \X MachineInts) \cup ({"big"} \X Int)
IsNumber(v) == v[1] \in {"int", "big"}

\* What a failing operation answers: the interpreter stops with an exception.
NoAnswer == <<"undefined">>

\* "ovfcheck": the exact result, as a big integer when it is too large.
Ovfcheck(n) == IF n \in MachineInts THEN Integer(n) ELSE BigInteger(n)

\* A big integer on either side makes the result one.
Promoted(l, r, n) ==
  IF l[1] = "int" /\ r[1] = "int" THEN Ovfcheck(n) ELSE BigInteger(n)

\* The parser reads the digits before it negates them.
LiteralInteger(n) ==
  IF (IF n < 0 THEN -n ELSE n) \in MachineInts THEN Integer(n) ELSE BigInteger(n)

PrimAdd(l, r) == Promoted(l, r, l[2] + r[2])
PrimSubtract(l, r) == Promoted(l, r, l[2] - r[2])
PrimMultiply(l, r) == Promoted(l, r, l[2] * r[2])

\* The instructions inc and dec.
PrimIncInteger(v) == Ovfcheck(v[2] + 1)
PrimDecInteger(v) == Ovfcheck(v[2] - 1)
PrimIncBigInteger(v) == BigInteger(1 + v[2])
PrimDecBigInteger(v) == BigInteger(1 - v[2])
PrimInc(v) == IF v[1] = "int" THEN PrimIncInteger(v) ELSE PrimIncBigInteger(v)
PrimDec(v) == IF v[1] = "int" THEN PrimDecInteger(v) ELSE PrimDecBigInteger(v)

\* The division of machine integers is not checked for overflow: the one
\* quotient that does not fit has no defined answer.
FloorDiv(n, d) == IF d > 0 THEN n \div d ELSE (-n) \div (-d)
FloorMod(n, d) == n - d * FloorDiv(n, d)
Magnitude(n) == IF n < 0 THEN -n ELSE n
TruncatedMod(n, d) ==
  IF n > 0 THEN Magnitude(n) % Magnitude(d) ELSE -(Magnitude(n) % Magnitude(d))

PrimIntDiv(l, r) ==
  IF r[2] = 0 THEN NoAnswer
  ELSE IF l[1] = "int" /\ r[1] = "int"
  THEN IF FloorDiv(l[2], r[2]) \in MachineInts THEN Integer(FloorDiv(l[2], r[2]))
       ELSE NoAnswer
  ELSE BigInteger(FloorDiv(l[2], r[2]))
PrimModulo(l, r) ==
  IF r[2] = 0 THEN NoAnswer
  ELSE IF l[1] = "int" /\ r[1] = "int" THEN Integer(FloorMod(l[2], r[2]))
  ELSE BigInteger(FloorMod(l[2], r[2]))
PrimRemainderInteger(l, r) ==
  IF r[2] = 0 THEN NoAnswer
  ELSE IF r[1] = "int" THEN Integer(TruncatedMod(l[2], r[2]))
  ELSE BigInteger(TruncatedMod(l[2], r[2]))
\* A big integer is divided by itself when the divisor is one, too.
PrimRemainderBigInteger(l, r) ==
  LET divisor == IF r[1] = "big" THEN l[2] ELSE r[2]
  IN IF divisor = 0 THEN NoAnswer ELSE BigInteger(TruncatedMod(l[2], divisor))
PrimRemainder(l, r) ==
  IF l[1] = "int" THEN PrimRemainderInteger(l, r) ELSE PrimRemainderBigInteger(l, r)

\* The absolute value of the smallest machine integer is not checked either.
PrimAbs(v) ==
  IF v[1] = "big" THEN BigInteger(Magnitude(v[2]))
  ELSE IF Magnitude(v[2]) \in MachineInts THEN Integer(Magnitude(v[2])) ELSE NoAnswer

\* Comparisons are by value, between the representations, too; whatever is
\* not a number is unequal.
PrimLessThan(l, r) == l[2] < r[2]
PrimLessThanOrEqual(l, r) == l[2] <= r[2]
PrimGreaterThan(l, r) == l[2] > r[2]
PrimGreaterThanOrEqual(l, r) == l[2] >= r[2]
PrimEquals(l, r) == IsNumber(r) /\ l[2] = r[2]
PrimUnequals(l, r) == ~IsNumber(r) \/ l[2] # r[2]

\* "max:" and "min:" answer one of the two numbers as it is.
PrimMax(l, r) == IF PrimLessThan(l, r) THEN r ELSE l
PrimMin(l, r) == IF PrimLessThan(l, r) THEN l ELSE r
============================================================================
