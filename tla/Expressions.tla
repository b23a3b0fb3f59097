----------------------------- MODULE Expressions -----------------------------
(***************************************************************************)
(* Expressions of Go programs (src/ast.h) and their types                  *)
(* (src/entities/type_entity.h, type_entity.cpp).                          *)
(*                                                                         *)
(* An expression is a record, and every one has its typeExpression, which  *)
(* the analysis writes.  A text is a sequence of characters.               *)
(***************************************************************************)
EXTENDS Numbers

Blank == "_"

AnyType == [type |-> "Any"]                (* of the blank identifier      *)
Void == [type |-> "Void"]
IntType == [type |-> "Int"]
UntypedInt == [type |-> "UntypedInt"]
FloatType == [type |-> "Float"]
UntypedFloat == [type |-> "UntypedFloat"]
Boolean == [type |-> "Boolean"]
String == [type |-> "String"]
Invalid == [type |-> "Invalid"]
Unreported == [type |-> "Unreported"]      (* Invalid, with no error for it *)

ArrayType(dims, elementType) == [type |-> "Array", dims |-> dims, elementType |-> elementType]
SliceType(elementType) == ArrayType(-1, elementType)

isArray(t) == t.type = "Array"
isSlice(t) == isArray(t) /\ t.dims = -1
isInteger(t) == t.type \in {"Int", "UntypedInt"}
isFloat(t) == t.type \in {"Float", "UntypedFloat"}
isNumeric(t) == isInteger(t) \/ isFloat(t)

(* Mutant: an untyped constant is as good as a variable of any numeric type. *)
equalLoosely(s, t) == (isNumeric(s) /\ isNumeric(t)) \/ s = t \/ "Any" \in {s.type, t.type}

RECURSIVE equal(_, _)
equal(s, t) ==
  IF isArray(s) /\ isArray(t) THEN equal(s.elementType, t.elementType) /\ s.dims = t.dims
  ELSE \/ s.type = t.type
       \/ "Any" \in {s.type, t.type}
       \/ {s.type, t.type} \in {{"UntypedInt", "UntypedFloat"}, {"Int", "UntypedInt"},
                                {"Float", "UntypedFloat"}, {"Float", "UntypedInt"}}

(* Mutant: the left type wins. *)
determineLeftType(s, t) == s

(* Of two equal types, the one that both operands can have. *)
determinePriorityType(s, t) ==
  CASE ~equal(s, t) -> Invalid
    [] {s.type, t.type} = {"UntypedInt", "UntypedFloat"} -> UntypedFloat
    [] {s.type, t.type} = {"Int", "UntypedInt"} -> IntType
    [] {s.type, t.type} \in {{"UntypedFloat", "Float"}, {"UntypedInt", "Float"}} -> FloatType
    [] OTHER -> s

-----------------------------------------------------------------------------
Integer(n) == [kind |-> "integer", intLit |-> n, typeExpression |-> Invalid]
Floating(q) == [kind |-> "float", floatLit |-> q, typeExpression |-> Invalid]
Bool(b) == [kind |-> "boolean", boolLit |-> b, typeExpression |-> Invalid]
Text(s) == [kind |-> "string", stringLit |-> s, typeExpression |-> Invalid]
Id(x) == [kind |-> "identifier", identifier |-> x, typeExpression |-> Invalid]
Unary(op, e) == [kind |-> "unary", op |-> op, expression |-> e, typeExpression |-> Invalid]
Binary(op, l, r) == [kind |-> "binary", op |-> op, lhs |-> l, rhs |-> r, typeExpression |-> Invalid]
Access(b, i) == [kind |-> "access", base |-> b, accessor |-> i, typeExpression |-> Invalid]

(* An element of a composite literal may have a key, and is an expression  *)
(* or a list of elements.                                                  *)
NoKey == -1
Composite(t, es) == [kind |-> "composite", declared |-> t, elements |-> es, typeExpression |-> Invalid]
Element(k, e) == [kind |-> "element", key |-> k, value |-> e, typeExpression |-> Invalid]
Elements(k, es) == [kind |-> "elements", key |-> k, elements |-> es, typeExpression |-> Invalid]

(* The built-in functions. *)
Callable(f, es) == [kind |-> "call", function |-> f, arguments |-> es, typeExpression |-> Invalid]

Children(e) ==
  CASE e.kind = "unary" -> {e.expression}
    [] e.kind = "binary" -> {e.lhs, e.rhs}
    [] e.kind = "access" -> {e.base, e.accessor}
    [] e.kind = "element" -> {e.value}
    [] e.kind \in {"composite", "elements"} -> {e.elements[i] : i \in DOMAIN e.elements}
    [] e.kind = "call" -> {e.arguments[i] : i \in DOMAIN e.arguments}
    [] OTHER -> {}

RECURSIVE Subexpressions(_)
Subexpressions(e) == {e} \cup UNION {Subexpressions(c) : c \in Children(e)}
=============================================================================
