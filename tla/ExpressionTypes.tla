--------------------------- MODULE ExpressionTypes ---------------------------
(***************************************************************************)
(* What TypesVisitor (src/semantic/types_visitor.cpp) does with the        *)
(* expressions of a statement: it writes the type of every node, from the  *)
(* leaves to the root, and gives untyped operands the type of their        *)
(* partners.  An error is a node whose type is Invalid; one that gets the  *)
(* same type without an error has the type Unreported.                     *)
(***************************************************************************)
EXTENDS Expressions

Typed(e, t) == [e EXCEPT !.typeExpression = t]
TypeOf(e) == e.typeExpression

Erroneous(e) == \E f \in Subexpressions(e) : TypeOf(f) = Invalid

LiteralType(e) ==
  CASE e.kind = "integer" -> UntypedInt
    [] e.kind = "float" -> UntypedFloat
    [] e.kind = "boolean" -> Boolean
    [] e.kind = "string" -> String

UnaryType(op, t) ==
  CASE t = Unreported -> t
    [] t # Unreported /\ op = "!" -> IF t = Boolean THEN t ELSE Invalid
    [] OTHER -> IF isNumeric(t) THEN t ELSE Invalid

(* Mutant: Booleans have no equality. *)
ComparableOrdered(op, t) ==
  isFloat(t) \/ isInteger(t) \/ t = String \/ (isArray(t) /\ op \in {"==", "!="})

(* The types that a comparison takes; an order is not for all of them. *)
Comparable(op, t) ==
  \/ isFloat(t) \/ isInteger(t) \/ t = String
  \/ (t = Boolean \/ isArray(t)) /\ op \in {"==", "!="}

(* Operands of arithmetic get the type of the result, those of a           *)
(* comparison keep theirs.                                                 *)
AnalyseBinary(e) ==
  LET s == TypeOf(e.lhs) t == TypeOf(e.rhs)
      result == determinePriorityType(s, t)
  IN  CASE Invalid \in {s, t} -> Typed(e, Invalid)
        [] Unreported \in {s, t} \ {Invalid} -> Typed(e, Unreported)
        [] e.op = "+" /\ s = String /\ t = String -> Typed(e, String)
        [] e.op \in ArithmeticOps ->
             IF isNumeric(s) /\ isNumeric(t) /\ equal(s, t)
               THEN [Typed(e, result) EXCEPT !.lhs = Typed(@, result), !.rhs = Typed(@, result)]
               ELSE Typed(e, Invalid)
        [] e.op \in LogicalOps -> Typed(e, IF s = Boolean /\ t = Boolean THEN Boolean ELSE Invalid)
        [] OTHER -> Typed(e, IF equal(s, t) /\ Comparable(e.op, s) THEN Boolean ELSE Invalid)

AnalyseAccess(e) ==
  Typed(e, IF isArray(TypeOf(e.base)) /\ isInteger(TypeOf(e.accessor))
             THEN TypeOf(e.base).elementType ELSE Invalid)

(* defineTypeBuiltInFunction: the types of the arguments stay as they are. *)
(* A function that reads is not looked at if it has arguments.             *)
ReadFunctions == [readInt |-> IntType, readFloat |-> FloatType, readString |-> String, readBool |-> Boolean]

AnalyseCall(e) ==
  LET ts == [i \in DOMAIN e.arguments |-> TypeOf(e.arguments[i])]
  IN  Typed(e,
        CASE e.function \in {"print", "println"} /\ Len(ts) = 1 ->
               IF ts[1] \notin {AnyType, Void, Invalid, Unreported} THEN Void ELSE Invalid
          [] e.function = "len" /\ Len(ts) = 1 ->
               IF ts[1] = String \/ isArray(ts[1]) THEN IntType ELSE Invalid
          [] e.function = "append" /\ Len(ts) = 2 ->
               IF isArray(ts[1]) /\ equal(ts[1].elementType, ts[2]) THEN ts[1] ELSE Invalid
          [] e.function \in DOMAIN ReadFunctions -> IF ts = <<>> THEN ReadFunctions[e.function] ELSE Unreported
          [] OTHER -> Invalid)

(* typeAxis: the type of the elements one axis further. *)
AxisType(t) == IF isArray(t) THEN t.elementType ELSE Invalid

(* A literal within a literal ends the analysis of the outer one, since    *)
(* typeCurrentArray is reset: the elements from there on have no type.     *)
HoldsComposite(e) == \E f \in Subexpressions(e) : f.kind = "composite"

AnalyseElementExpression(e, t) ==
  IF equal(t, TypeOf(e.value)) /\ ~HoldsComposite(e.value)
    THEN Typed([e EXCEPT !.value = Typed(@, determinePriorityType(t, TypeOf(e.value)))], t)
    ELSE Typed(e, Invalid)

TooMany(t, es) == ~isSlice(t) /\ t.dims < Len(es)

(* Analyse(e, scope): e with its types.  scope maps names to their types.  *)
(* AnalyseElement(e, t, scope): an element of an axis of type t.           *)
RECURSIVE Analyse(_, _), AnalyseElement(_, _, _)

AnalyseElement(e, t, scope) ==
  IF e.kind = "element" THEN AnalyseElementExpression([e EXCEPT !.value = Analyse(@, scope)], t)
  ELSE Typed([e EXCEPT !.elements = [i \in DOMAIN @ |-> AnalyseElement(@[i], AxisType(t), scope)]],
             IF isArray(t) /\ ~TooMany(t, e.elements) THEN t ELSE Invalid)

AnalyseComposite(e, scope) ==
  LET t == e.declared
      es == [i \in DOMAIN e.elements |-> AnalyseElement(e.elements[i], t.elementType, scope)]
      fit == \A i \in DOMAIN es : equal(TypeOf(es[i]), t.elementType)
  IN  Typed([e EXCEPT !.elements = es], IF fit /\ ~TooMany(t, es) THEN t ELSE Invalid)

Analyse(e, scope) ==
  CASE e.kind = "identifier" ->
         Typed(e, IF e.identifier \in DOMAIN scope THEN scope[e.identifier] ELSE Invalid)
    [] e.kind = "unary" ->
         LET f == Analyse(e.expression, scope)
         IN  Typed([e EXCEPT !.expression = f], UnaryType(e.op, TypeOf(f)))
    [] e.kind = "binary" ->
         AnalyseBinary([e EXCEPT !.lhs = Analyse(@, scope), !.rhs = Analyse(@, scope)])
    [] e.kind = "access" ->
         AnalyseAccess([e EXCEPT !.base = Analyse(@, scope), !.accessor = Analyse(@, scope)])
    [] e.kind = "composite" -> AnalyseComposite(e, scope)
    [] e.kind = "call" ->
         AnalyseCall([e EXCEPT !.arguments = [i \in DOMAIN @ |-> Analyse(@[i], scope)]])
    [] OTHER -> Typed(e, LiteralType(e))

(* The value of a declaration, an assignment or a parameter of type t: it  *)
(* has the type that both can have, or none.                               *)
Represented(e, t) == Typed(e, determinePriorityType(TypeOf(e), t))

(* Mutant: every untyped number becomes an int. *)
DefaultTypeInt(t) == IF t \in {UntypedInt, UntypedFloat} THEN IntType ELSE t

(* The type of a variable that is declared without one. *)
DefaultType(t) ==
  CASE t = UntypedInt -> IntType
    [] t = UntypedFloat -> FloatType
    [] OTHER -> t
=============================================================================
