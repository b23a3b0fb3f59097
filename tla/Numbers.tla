------------------------------- MODULE Numbers -------------------------------
(***************************************************************************)
(* The numbers of C++, of the JVM and of Go.                               *)
(*                                                                         *)
(* Integers have a width.  Floats are exact rationals with the infinities  *)
(* and NaN: rounding and the sign of zero are left out, the order of       *)
(* numbers and what has no order are not.                                  *)
(***************************************************************************)
EXTENDS Integers, Sequences, FiniteSetsExt

CONSTANT W  (* how many bits an int of the JVM has *)

ASSUME WAssumption == W \in Nat \ {0}

(* n as an integer of w bits, in two's complement. *)
Wrap(n, w) == ((n + 2^(w - 1)) % 2^w) - 2^(w - 1)

Abs(n) == IF n < 0 THEN -n ELSE n
Sign(n) == IF n < 0 THEN -1 ELSE IF n = 0 THEN 0 ELSE 1

(* Division truncates, and the remainder has the sign of the dividend. *)
Quotient(a, b) == Sign(a) * Sign(b) * (Abs(a) \div Abs(b))
Remainder(a, b) == a - b * Quotient(a, b)

(* A float is num / den in lowest terms, or a sign over zero, or 0 / 0.    *)
Float(n, d) ==
  LET g == Max({k \in 1 .. Max({Abs(n), d, 1}) : n % k = 0 /\ d % k = 0})
  IN  [num |-> n \div g, den |-> d \div g]

NaN == [num |-> 0, den |-> 0]
FloatOf(n) == [num |-> n, den |-> 1]

NegFloat(p) == [p EXCEPT !.num = -@]
AddFloat(p, q) ==
  IF p.den = 0 /\ q.den = 0 THEN (IF p = q THEN p ELSE NaN)
  ELSE Float(p.num * q.den + q.num * p.den, p.den * q.den)
MulFloat(p, q) == Float(p.num * q.num, p.den * q.den)
DivFloat(p, q) ==
  Float(p.num * q.den * (IF q.num < 0 THEN -1 ELSE 1), p.den * Abs(q.num))

LessFloat(p, q) ==
  /\ p # NaN /\ q # NaN
  /\ IF p.den = 0 /\ q.den = 0 THEN p.num < q.num ELSE p.num * q.den < q.num * p.den
EqualFloat(p, q) == p # NaN /\ p = q

ArithmeticOps == {"+", "-", "*", "/", "%"}
Comparisons == {"==", "!=", "<", ">", "<=", ">="}
LogicalOps == {"&&", "||"}

OnInts(op, a, b) ==
  CASE op = "+" -> a + b
    [] op = "-" -> a - b
    [] op = "*" -> a * b
    [] op = "/" -> Quotient(a, b)
    [] op = "%" -> Remainder(a, b)

OnFloats(op, p, q) ==
  CASE op = "+" -> AddFloat(p, q)
    [] op = "-" -> AddFloat(p, NegFloat(q))
    [] op = "*" -> MulFloat(p, q)
    [] op = "/" -> DivFloat(p, q)

(* What a comparison says of two operands; neither order nor equality      *)
(* holds of NaN.                                                           *)
Says(op, less, equal, greater) ==
  CASE op = "==" -> equal
    [] op = "!=" -> ~equal
    [] op = "<" -> less
    [] op = "<=" -> less \/ equal
    [] op = ">" -> greater
    [] op = ">=" -> greater \/ equal

CompareInts(op, a, b) == Says(op, a < b, a = b, b < a)
CompareFloats(op, p, q) == Says(op, LessFloat(p, q), EqualFloat(p, q), LessFloat(q, p))

(* Texts are sequences of characters, and characters are numbers.          *)
LessText(s, t) ==
  \/ Len(s) < Len(t) /\ \A i \in 1 .. Len(s) : s[i] = t[i]
  \/ \E i \in 1 .. Min({Len(s), Len(t)}) : s[i] < t[i] /\ \A j \in 1 .. (i - 1) : s[j] = t[j]
CompareTexts(op, s, t) == Says(op, LessText(s, t), s = t, LessText(t, s))
=============================================================================
