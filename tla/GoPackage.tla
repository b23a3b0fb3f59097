------------------------------- MODULE GoPackage -------------------------------
(***************************************************************************)
(* Go packages as far as package-level declarations go: the part of the    *)
(* syntax tree they have (src/ast.h), and the reference they are compared  *)
(* with, taken from the Go language: which packages are legal, and what    *)
(* value initialisation gives each variable.                               *)
(*                                                                         *)
(* An expression is a non-empty sequence of operands that are added up.    *)
(* The body of a function is one expression: what it returns, or what it   *)
(* prints when it returns nothing.  Functions are not values here: a name  *)
(* that is read is that of a variable.  Types are a matter of their own,   *)
(* WellTyped.                                                              *)
(***************************************************************************)
EXTENDS Integers, Sequences, SequencesExt

CONSTANT NoType     (* of a declaration that names no type                  *)

Operand(kind, type, value, id) ==
  [kind |-> kind, type |-> type, value |-> value, id |-> id]

Number(type, n)      == Operand("literal", type, n, "")
Text(s)              == Operand("literal", "String", 0, s)
Read(x)              == Operand("read", NoType, 0, x)
Apply(f)             == Operand("apply", NoType, 0, f)

(* VariableDeclaration and FunctionDeclaration. *)
Declaration(ids, type, values, isConst) ==
  [kind |-> "variable", identifiers |-> ids, type |-> type, values |-> values,
   isConst |-> isConst, result |-> NoType, body |-> <<>>]

Function(id, result, body) ==
  [kind |-> "function", identifiers |-> <<id>>, type |-> NoType, values |-> <<>>,
   isConst |-> FALSE, result |-> result, body |-> body]

-----------------------------------------------------------------------------
(* What a package declares.  An initialised variable has one expression.   *)

Functions(p) == {d \in ToSet(p) : d.kind = "function"}

CountsAgree(d) == d.values = <<>> \/ Len(d.values) = Len(d.identifiers)

(* The i-th value of a declaration, if it has that many.                   *)
ValueAt(d, i) == IF i \in DOMAIN d.values THEN <<d.values[i]>> ELSE <<>>

Variables(p) ==
  UNION {{[id |-> d.identifiers[i], type |-> d.type, isConst |-> d.isConst,
           values |-> ValueAt(d, i)] : i \in DOMAIN d.identifiers} :
         d \in {e \in ToSet(p) : e.kind = "variable"}}

Named(p)       == {v \in Variables(p) : v.id # "_"}
FunctionIds(p) == {f.identifiers[1] : f \in Functions(p)} \ {"_"}
VariableIds(p) == {v.id : v \in Named(p)}
VariableOf(p, x) == CHOOSE v \in Named(p) : v.id = x
FunctionOf(p, f) == CHOOSE g \in Functions(p) : g.identifiers = <<f>>

Reads(e) == {o.id : o \in {q \in ToSet(e) : q.kind = "read"}}
Calls(e) == {o.id : o \in {q \in ToSet(e) : q.kind = "apply"}}
Initialiser(v) == IF v.values = <<>> THEN <<>> ELSE v.values[1]
Expressions(p) == {Initialiser(v) : v \in Variables(p)} \cup {f.body : f \in Functions(p)}

(* No name is declared at two places.                                      *)
DeclaredOnce(p) ==
  \A i, j \in DOMAIN p : \A k \in DOMAIN p[i].identifiers, l \in DOMAIN p[j].identifiers :
    p[i].identifiers[k] = p[j].identifiers[l] => p[i].identifiers[k] = "_" \/ <<i, k>> = <<j, l>>

NamesResolve(p) ==
  \A e \in Expressions(p) : Reads(e) \subseteq VariableIds(p) /\ Calls(e) \subseteq FunctionIds(p)

(* Constants are initialised with literals and constants.                  *)
Constant(p, e) ==
  Calls(e) = {} /\ \A x \in Reads(e) : VariableOf(p, x).isConst

ConstantsConstant(p) ==
  \A v \in Variables(p) : v.isConst => v.values # <<>> /\ Constant(p, Initialiser(v))

(* No variable depends on itself, through functions or not: some set has   *)
(* all that a variable uses, and what that uses, and not the variable.     *)
ExpressionOf(p, x) ==
  IF x \in FunctionIds(p) THEN FunctionOf(p, x).body ELSE Initialiser(VariableOf(p, x))

Uses(p, x) == Reads(ExpressionOf(p, x)) \cup Calls(ExpressionOf(p, x))

Acyclic(p) ==
  LET uses == [x \in FunctionIds(p) \cup VariableIds(p) |-> Uses(p, x)]
  IN  \A x \in VariableIds(p) : \E ids \in SUBSET (DOMAIN uses \ {x}) :
        uses[x] \subseteq ids /\ \A y \in ids : uses[y] \subseteq ids

(* A function that is called in an expression has a result.                *)
ResultsUsed(p, e) == \A f \in Calls(e) : FunctionOf(p, f).result # "Void"

MainDeclared(p) == "main" \in FunctionIds(p) /\ FunctionOf(p, "main").result = "Void"

Legal(p) ==
  /\ MainDeclared(p)
  /\ DeclaredOnce(p)
  /\ \A d \in ToSet(p) : CountsAgree(d)
  /\ NamesResolve(p)
  /\ ConstantsConstant(p)
  /\ Acyclic(p)
  /\ \A e \in Expressions(p) : ResultsUsed(p, e)

-----------------------------------------------------------------------------
(* The types of a package.  A constant without a type keeps that of its    *)
(* literals, which convert to other numbers; the value of a constant, by   *)
(* which 1.0 would be an int as well, is not looked at.                    *)
GoTypes == {"Int", "Float", "String", "UntypedInt", "UntypedFloat"}

Converts(t, u) ==
  \/ t = u
  \/ t = "UntypedInt" /\ u \in {"Int", "Float", "UntypedFloat"}
  \/ t = "UntypedFloat" /\ u = "Float"

DefaultType(t) == CASE t = "UntypedInt" -> "Int" [] t = "UntypedFloat" -> "Float" [] OTHER -> t

TypeIn(p, types, o) ==
  CASE o.kind = "literal" -> o.type
    [] o.kind = "read" -> types[o.id]
    [] o.kind = "apply" -> FunctionOf(p, o.id).result

(* All operands convert to the type of one of them.                        *)
HasType(p, types, e, t) ==
  /\ \E i \in DOMAIN e : t = TypeIn(p, types, e[i])
  /\ \A i \in DOMAIN e : Converts(TypeIn(p, types, e[i]), t)

VariableTyped(p, types, v) ==
  /\ v.type # NoType /\ v.id # "_" => types[v.id] = v.type
  /\ v.values # <<>> =>
       \E t \in GoTypes :
         /\ HasType(p, types, Initialiser(v), t)
         /\ v.type # NoType => Converts(t, v.type)
         /\ v.type = NoType /\ v.id # "_" => types[v.id] = IF v.isConst THEN t ELSE DefaultType(t)

FunctionTyped(p, types, f) ==
  f.body # <<>> =>
    \E t \in GoTypes : HasType(p, types, f.body, t) /\ (f.result # "Void" => Converts(t, f.result))

Typing(p, types) ==
  /\ types \in [VariableIds(p) -> GoTypes]
  /\ \A v \in Variables(p) : VariableTyped(p, types, v)
  /\ \A f \in Functions(p) : FunctionTyped(p, types, f)

WellTyped(p) == \E types \in [VariableIds(p) -> GoTypes] : Typing(p, types)

(* An untyped integer becomes a float in an expression only if it is a     *)
(* literal that is added to a float, or to which one is added.             *)
IntegersStay(p, types, e, t) ==
  t \in {"Float", "UntypedFloat"} =>
    /\ \A i \in DOMAIN e : TypeIn(p, types, e[i]) = "UntypedInt" => e[i].kind = "literal"
    /\ \E i \in DOMAIN e : i <= 2 /\ TypeIn(p, types, e[i]) # "UntypedInt"

(* Well typed, and that holds of the type of every expression, and of the  *)
(* type that its value gets.                                               *)
TypedWithoutConversion(p) ==
  \E types \in [VariableIds(p) -> GoTypes] :
    LET stay(e, type) ==
          \A t \in GoTypes : HasType(p, types, e, t) \/ t = type => IntegersStay(p, types, e, t)
    IN  /\ Typing(p, types)
        /\ \A v \in Variables(p) :
             v.values # <<>> => stay(Initialiser(v), IF v.id = "_" THEN NoType ELSE v.type)
        /\ \A f \in Functions(p) : f.body # <<>> => stay(f.body, f.result)

-----------------------------------------------------------------------------
(* Initialisation follows the dependencies, so every variable of a legal   *)
(* package gets the value of its expression over final values.             *)
ValueOf(p) ==
  LET text[x \in FunctionIds(p) \cup VariableIds(p)] ==
        LET o == ExpressionOf(p, x)[1]
        IN  IF o.kind = "literal" THEN o.type = "String" ELSE text[o.id]
      value[x \in FunctionIds(p) \cup VariableIds(p)] ==
        LET operand(o) == IF o.kind # "literal" THEN value[o.id]
                          ELSE IF o.type = "String" THEN o.id ELSE o.value
            e == ExpressionOf(p, x)
        IN  IF e = <<>> THEN 0
            ELSE FoldLeft(LAMBDA sum, o : IF text[x] THEN sum \o operand(o) ELSE sum + operand(o),
                          operand(e[1]), Tail(e))
  IN  value

(* The variables a function reads when it is called.                       *)
ReadBy(p) ==
  LET read[f \in FunctionIds(p)] ==
        Reads(FunctionOf(p, f).body) \cup UNION {read[g] : g \in Calls(FunctionOf(p, f).body)}
  IN  read
=============================================================================
