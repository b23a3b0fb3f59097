------------------------------- MODULE Folding -------------------------------
(***************************************************************************)
(* PrecalculateVisitor (src/semantic/precalculate_visitor.cpp): operations *)
(* on literals are replaced by their results.                              *)
(*                                                                         *)
(* Integers are folded in the width of C++'s long long, twice that of an   *)
(* int of the JVM.  Every node folds its children when its visit ends, and *)
(* the statement that holds an expression folds the expression itself, so  *)
(* an expression is folded from its leaves to its root.                    *)
(***************************************************************************)
EXTENDS Expressions

IsNumber(e) == e.kind \in {"integer", "float"}
AsFloat(e) == IF e.kind = "integer" THEN FloatOf(e.intLit) ELSE e.floatLit

(* Division of integer literals by zero has no defined behaviour in C++,   *)
(* nor has a quotient that is too large: the compiler dies.                *)
Undefined == [kind |-> "undefined", typeExpression |-> Invalid]

transformUnaryExpression(e) ==
  LET f == e.expression
  IN  CASE e.op = "-" /\ f.kind = "integer" -> Integer(Wrap(-f.intLit, 2 * W))
        [] e.op = "-" /\ f.kind = "float" -> Floating(NegFloat(f.floatLit))
        [] e.op = "+" /\ IsNumber(f) -> f
        [] e.op = "!" /\ f.kind = "boolean" -> Bool(~f.boolLit)
        [] OTHER -> e

FoldInts(e, a, b) ==
  CASE e.op \in {"/", "%"} /\ (b = 0 \/ (b = -1 /\ a = -(2^(2 * W - 1)))) -> Undefined
    [] e.op \in ArithmeticOps -> Integer(Wrap(OnInts(e.op, a, b), 2 * W))
    [] e.op \in Comparisons -> Bool(CompareInts(e.op, a, b))
    [] OTHER -> e

FoldFloats(e, p, q) ==
  CASE e.op \in ArithmeticOps \ {"%"} -> Floating(OnFloats(e.op, p, q))
    [] e.op \in Comparisons -> Bool(CompareFloats(e.op, p, q))
    [] OTHER -> e

FoldTexts(e, s, t) ==
  CASE e.op = "+" -> Text(s \o t)
    [] e.op \in Comparisons -> Bool(CompareTexts(e.op, s, t))
    [] OTHER -> e

FoldBooleans(e, a, b) ==
  CASE e.op = "&&" -> Bool(a /\ b)
    [] e.op = "||" -> Bool(a \/ b)
    [] e.op = "==" -> Bool(a = b)
    [] e.op = "!=" -> Bool(a # b)
    [] OTHER -> e

transformBinaryExpression(e) ==
  LET l == e.lhs r == e.rhs
  IN  CASE l.kind = "integer" /\ r.kind = "integer" -> FoldInts(e, l.intLit, r.intLit)
        [] IsNumber(l) /\ IsNumber(r) /\ "float" \in {l.kind, r.kind} -> FoldFloats(e, AsFloat(l), AsFloat(r))
        [] l.kind = "string" /\ r.kind = "string" -> FoldTexts(e, l.stringLit, r.stringLit)
        [] l.kind = "boolean" /\ r.kind = "boolean" -> FoldBooleans(e, l.boolLit, r.boolLit)
        [] OTHER -> e

transformExpression(e) ==
  CASE e.kind = "unary" -> transformUnaryExpression(e)
    [] e.kind = "binary" -> transformBinaryExpression(e)
    [] OTHER -> e

RECURSIVE Fold(_)
Fold(e) ==
  transformExpression(
    CASE e.kind = "unary" -> [e EXCEPT !.expression = Fold(@)]
      [] e.kind = "binary" -> [e EXCEPT !.lhs = Fold(@), !.rhs = Fold(@)]
      [] e.kind = "access" -> [e EXCEPT !.base = Fold(@), !.accessor = Fold(@)]
      [] e.kind = "call" -> [e EXCEPT !.arguments = [i \in DOMAIN @ |-> Fold(@[i])]]
      [] e.kind = "element" -> [e EXCEPT !.value = Fold(@)]
      [] e.kind \in {"composite", "elements"} -> [e EXCEPT !.elements = [i \in DOMAIN @ |-> Fold(@[i])]]
      [] OTHER -> e)

Crashes(e) == \E f \in Subexpressions(e) : f.kind = "undefined"
=============================================================================
