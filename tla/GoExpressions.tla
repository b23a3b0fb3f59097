---------------------------- MODULE GoExpressions ----------------------------
(***************************************************************************)
(* External: what expressions mean in Go.                                  *)
(*                                                                         *)
(* Constant expressions are exact, and get a type where they are used, if  *)
(* their value can be represented in it.  A value array is a sequence of   *)
(* values; a slice is a place in the heap of slices.  append always takes  *)
(* a new place, as it may in Go when capacities are equal to lengths.  An  *)
(* int has W bits, which is what README.md:78 says of all integer types.   *)
(***************************************************************************)
EXTENDS Expressions, SequencesExt

CONSTANT GoInput  (* what the functions that read input return *)

Literals == {"integer", "float", "boolean", "string"}
IsStep(e) == e.kind = "unary" /\ e.op \in {"++", "--"}

IsConstant(e) ==
  \A f \in Subexpressions(e) : f.kind \in Literals \cup {"unary", "binary"} /\ ~IsStep(f)

TruthOf(p) == IF p THEN 1 ELSE 0

IsNumericType(t) == t \in {IntType, FloatType, UntypedInt, UntypedFloat}
IsUntyped(t) == t \in {UntypedInt, UntypedFloat}

(* Representable(v, t): whether a numeric constant can be a t. *)
Representable(v, t) ==
  \/ t \in {FloatType, UntypedFloat}
  \/ /\ t \in {IntType, UntypedInt}
     /\ v.den = 1
     /\ t = IntType => v.num \in -(2^(W - 1)) .. (2^(W - 1) - 1)

(* What an untyped constant is where nothing asks for a type.              *)
GoDefault(t) == IF t = UntypedInt THEN IntType ELSE IF t = UntypedFloat THEN FloatType ELSE t

(* What an expression is: its type, and its exact value if it is constant. *)
(* Numbers are rationals there.                                            *)
OfType(t) == [type |-> t, constant |-> FALSE, value |-> 0]
ConstantOf(t, v) == [type |-> t, constant |-> TRUE, value |-> v]

(* m can be the value of a variable of type t. *)
CanBe(m, t) ==
  /\ m.type \notin {Invalid, Void}
  /\ IF IsUntyped(m.type) THEN Representable(m.value, IF t = AnyType THEN GoDefault(m.type) ELSE t)
     ELSE t = AnyType \/ m.type = t

(* The type in which a binary operator works on its operands. *)
CommonType(l, r) ==
  CASE Invalid \in {l.type, r.type} -> Invalid
    [] l.type = r.type -> l.type
    [] IsUntyped(l.type) /\ IsUntyped(r.type) -> UntypedFloat
    [] IsUntyped(l.type) # IsUntyped(r.type) ->
         LET untyped == IF IsUntyped(l.type) THEN l ELSE r
             typed == IF IsUntyped(l.type) THEN r ELSE l
         IN  IF Representable(untyped.value, typed.type) THEN typed.type ELSE Invalid
    [] OTHER -> Invalid

Operates(op, t, l, r) ==
  CASE op = "+" -> IsNumericType(t) \/ t = String
    [] op \in {"-", "*"} -> IsNumericType(t)
    [] op \in {"/", "%"} ->
         /\ IsNumericType(t) /\ (op = "%" => t \in {IntType, UntypedInt})
         /\ r.constant /\ (l.constant \/ t = IntType) => r.value.num # 0
    [] op \in LogicalOps -> t = Boolean
    [] op \in {"==", "!="} -> t \notin {Void, AnyType} /\ ~isSlice(t)
    [] OTHER -> IsNumericType(t) \/ t = String

(* A division of constants is one of integers if both are. *)
OnConstants(op, t, p, q) ==
  CASE op = "&&" -> p * q
    [] op = "||" -> p + q - p * q
    [] op \in Comparisons ->
         TruthOf(CASE t = Boolean -> CompareInts(op, p, q)
                   [] t = String -> CompareTexts(op, p, q)
                   [] OTHER -> CompareFloats(op, p, q))
    [] op \in ArithmeticOps ->
         (CASE t = String -> p \o q
            [] t = UntypedInt -> FloatOf(OnInts(op, p.num, q.num))
            [] OTHER -> OnFloats(op, p, q))

BinaryMeaning(op, l, r) ==
  LET t == CommonType(l, r)
      type == IF op \in Comparisons THEN Boolean ELSE t
  IN  CASE t = Invalid \/ ~Operates(op, t, l, r) -> OfType(Invalid)
        [] l.constant /\ r.constant -> ConstantOf(type, OnConstants(op, t, l.value, r.value))
        [] OTHER -> OfType(type)

UnaryMeaning(e, m) ==
  CASE e.op = "!" /\ m.type = Boolean -> [m EXCEPT !.value = 1 - @]
    [] e.op = "-" /\ IsNumericType(m.type) -> IF m.constant THEN [m EXCEPT !.value = NegFloat(@)] ELSE m
    [] e.op = "+" /\ IsNumericType(m.type) -> m
    [] IsStep(e) /\ m.type \in {IntType, FloatType} /\ e.expression.kind \in {"identifier", "access"} -> m
    [] OTHER -> OfType(Invalid)

AccessMeaning(base, index) ==
  IF /\ isArray(base.type)
     /\ CanBe(index, IntType)
     /\ index.constant => index.value.num >= 0 /\ (isSlice(base.type) \/ index.value.num < base.type.dims)
    THEN OfType(base.type.elementType) ELSE OfType(Invalid)

InputTypes == [readInt |-> IntType, readFloat |-> FloatType, readString |-> String, readBool |-> Boolean]

ArgumentCount(function) ==
  IF function \in DOMAIN InputTypes THEN 0 ELSE IF function = "append" THEN 2 ELSE 1

(* The first argument and the last one, if there are any. *)
CallType(function, first, last) ==
  CASE function \in {"print", "println"} -> IF CanBe(first, AnyType) THEN Void ELSE Invalid
    [] function = "len" -> IF first.type = String \/ isArray(first.type) THEN IntType ELSE Invalid
    [] function = "append" ->
         IF isSlice(first.type) /\ CanBe(last, first.type.elementType) THEN first.type ELSE Invalid
    [] OTHER -> InputTypes[function]

Position(es, i) ==
  IF es[i].key # NoKey THEN es[i].key + 1
  ELSE LET keyed == {j \in 1 .. i : es[j].key # NoKey}
       IN  IF keyed = {} THEN i ELSE es[Max(keyed)].key + 1 + (i - Max(keyed))

(* Meaning(e, scope): what e is where the variables have the types of      *)
(* scope; its type is Invalid if it breaks a rule.                         *)
RECURSIVE Meaning(_, _), LegalElements(_, _, _)
LegalElements(es, t, scope) ==
  /\ \A i, j \in DOMAIN es : Position(es, i) = Position(es, j) => i = j
  /\ \A i \in DOMAIN es :
       /\ isSlice(t) \/ Position(es, i) <= t.dims
       /\ IF es[i].kind = "element" THEN CanBe(Meaning(es[i].value, scope), t.elementType)
          ELSE isArray(t.elementType) /\ LegalElements(es[i].elements, t.elementType, scope)

Meaning(e, scope) ==
  CASE e.kind = "integer" -> ConstantOf(UntypedInt, FloatOf(e.intLit))
    [] e.kind = "float" -> ConstantOf(UntypedFloat, e.floatLit)
    [] e.kind = "boolean" -> ConstantOf(Boolean, TruthOf(e.boolLit))
    [] e.kind = "string" -> ConstantOf(String, e.stringLit)
    [] e.kind = "identifier" -> OfType(IF e.identifier \in DOMAIN scope THEN scope[e.identifier] ELSE Invalid)
    [] e.kind = "unary" -> UnaryMeaning(e, Meaning(e.expression, scope))
    [] e.kind = "binary" -> BinaryMeaning(e.op, Meaning(e.lhs, scope), Meaning(e.rhs, scope))
    [] e.kind = "access" -> AccessMeaning(Meaning(e.base, scope), Meaning(e.accessor, scope))
    [] e.kind = "composite" -> OfType(IF LegalElements(e.elements, e.declared, scope) THEN e.declared ELSE Invalid)
    [] e.kind = "call" ->
         OfType(IF Len(e.arguments) # ArgumentCount(e.function) THEN Invalid
                ELSE CallType(e.function, Meaning(e.arguments[1], scope), Meaning(e.arguments[Len(e.arguments)], scope)))

GoType(e, scope) == Meaning(e, scope).type
GoAssignable(e, t, scope) == CanBe(Meaning(e, scope), t)

-----------------------------------------------------------------------------
(* Values.  An environment has the variables, their types and the slices.  *)

RECURSIVE ZeroValue(_)
ZeroValue(t) ==
  CASE t = FloatType -> FloatOf(0)
    [] t = String -> <<>>
    [] isArray(t) /\ ~isSlice(t) -> [i \in 1 .. t.dims |-> ZeroValue(t.elementType)]
    [] OTHER -> 0

AsType(v, t) == IF t = IntType THEN v.num ELSE v

(* GoValue(e, t, env): the value of e as a t.  The value of an expression  *)
(* that makes a slice is the sequence of its elements, as is Cells of any  *)
(* array or slice.  GoPanics(e, env): its evaluation panics.               *)
RECURSIVE GoValue(_, _, _), GoPanics(_, _), ElementValues(_, _, _)

MakesSlice(e) == e.kind \in {"composite", "call"}

CellsAs(e, t, v, env) == IF isSlice(t) /\ ~MakesSlice(e) THEN env.slices[v] ELSE v
CellsOf(e, t, env) == CellsAs(e, t, GoValue(e, t, env), env)
Cells(e, env) == CellsOf(e, GoType(e, env.types), env)

ElementValues(es, t, env) ==
  LET given(p) == {i \in DOMAIN es : Position(es, i) = p}
      value(i) == IF es[i].kind = "element" THEN GoValue(es[i].value, t.elementType, env)
                  ELSE ElementValues(es[i].elements, t.elementType, env)
      length == IF isSlice(t) THEN Max({0} \cup {Position(es, i) : i \in DOMAIN es}) ELSE t.dims
  IN  [p \in 1 .. length |->
        IF given(p) = {} THEN ZeroValue(t.elementType) ELSE value(CHOOSE i \in given(p) : TRUE)]

OnValues(op, t, l, r) ==
  CASE op = "&&" -> IF l = 0 THEN 0 ELSE r
    [] op = "||" -> IF l = 1 THEN 1 ELSE r
    [] op \in ArithmeticOps /\ t = IntType -> Wrap(OnInts(op, l, r), W)
    [] op \in ArithmeticOps /\ t = FloatType -> OnFloats(op, l, r)
    [] op \in ArithmeticOps -> l \o r
    [] t = FloatType -> TruthOf(CompareFloats(op, l, r))
    [] t = String -> TruthOf(CompareTexts(op, l, r))
    [] isArray(t) -> TruthOf((l = r) = (op = "=="))
    [] OTHER -> TruthOf(CompareInts(op, l, r))

BinaryValue(e, t, env) == OnValues(e.op, t, GoValue(e.lhs, t, env), GoValue(e.rhs, t, env))

UnaryValue(op, t, v) ==
  CASE op = "!" -> 1 - v
    [] op = "-" -> IF t = FloatType THEN NegFloat(v) ELSE Wrap(-v, W)
    [] op = "+" -> v

GoValue(e, t, env) ==
  CASE IsConstant(e) ->
         AsType(Meaning(e, env.types).value, t)
    [] e.kind = "identifier" -> env.variables[e.identifier]
    [] e.kind = "unary" ->
         UnaryValue(e.op, t, GoValue(e.expression, t, env))
    [] e.kind = "binary" -> BinaryValue(e, CommonType(Meaning(e.lhs, env.types), Meaning(e.rhs, env.types)), env)
    [] e.kind = "access" -> Cells(e.base, env)[GoValue(e.accessor, IntType, env) + 1]
    [] e.kind = "composite" -> ElementValues(e.elements, e.declared, env)
    [] e.kind = "call" /\ e.function = "len" ->
         Len(Cells(e.arguments[1], env))
    [] e.kind = "call" /\ e.function = "append" ->
         Append(Cells(e.arguments[1], env),
                GoValue(e.arguments[2], GoType(e, env.types).elementType, env))
    [] OTHER -> GoInput[e.function]

GoPanics(e, env) ==
  CASE IsConstant(e) -> FALSE
    [] e.kind = "binary" ->
         \/ GoPanics(e.lhs, env)
         \/ /\ e.op \in LogicalOps => GoValue(e.lhs, Boolean, env) = TruthOf(e.op = "&&")
            /\ \/ GoPanics(e.rhs, env)
               \/ /\ e.op \in {"/", "%"} /\ GoType(e, env.types) = IntType
                  /\ GoValue(e.rhs, IntType, env) = 0
    [] e.kind = "access" ->
         \/ GoPanics(e.base, env)
         \/ GoPanics(e.accessor, env)
         \/ GoValue(e.accessor, IntType, env) + 1 \notin DOMAIN Cells(e.base, env)
    [] OTHER -> \E c \in Children(e) : GoPanics(c, env)

-----------------------------------------------------------------------------
(* Assignment.  The operands of the targets are evaluated in the old       *)
(* environment, before anything is assigned.                               *)

(* The value of e as a t, in an environment where it has a place if it     *)
(* makes a slice.                                                          *)
Placed(e, t, env) ==
  LET placed(v) == IF isSlice(GoType(e, env.types)) /\ MakesSlice(e)
                     THEN [value |-> Len(env.slices) + 1, env |-> [env EXCEPT !.slices = Append(@, v)]]
                     ELSE [value |-> v, env |-> env]
  IN  placed(GoValue(e, t, env))

(* Where the target e is: a variable or a slice, and the way from there.  *)
RECURSIVE Place(_, _)

Further(place, n) == [place EXCEPT !.path = Append(@, n)]

BasePlace(e, t, env) ==
  IF isSlice(t) THEN [slice |-> GoValue(e, t, env), variable |-> Blank, path |-> <<>>] ELSE Place(e, env)

Place(e, env) ==
  IF e.kind = "identifier" THEN [slice |-> 0, variable |-> e.identifier, path |-> <<>>]
  ELSE Further(BasePlace(e.base, GoType(e.base, env.types), env), GoValue(e.accessor, IntType, env) + 1)

RECURSIVE With(_, _, _)
With(whole, path, v) ==
  IF path = <<>> THEN v ELSE [whole EXCEPT ![Head(path)] = With(@, Tail(path), v)]

SetPlace(place, v, env) ==
  CASE place.slice # 0 -> [env EXCEPT !.slices[place.slice] = With(@, place.path, v)]
    [] place.slice = 0 /\ place.variable # Blank ->
         [env EXCEPT !.variables[place.variable] = With(@, place.path, v)]
    [] OTHER -> env

SetTarget(e, v, old, env) == SetPlace(Place(e, old), v, env)
=============================================================================
