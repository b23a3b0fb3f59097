------------------------------- MODULE GoSyntax -------------------------------
(***************************************************************************)
(* The part of the abstract syntax tree (src/ast.h) that decides control   *)
(* flow.  An optional child is a sequence of at most one element, where    *)
(* the code has a pointer that may be null.  Every variable and every      *)
(* value is an int, but for one array of ints; a Boolean expression yields *)
(* 1 or 0, as on the JVM.                                                  *)
(***************************************************************************)
EXTENDS Integers, Sequences

(* Expressions *)
True        == [kind |-> "true"]
Const(n)    == [kind |-> "const", value |-> n]
Var(x)      == [kind |-> "var", name |-> x]
LenOf(a)    == [kind |-> "len", name |-> a]       (* len(a)                 *)
Ask(f)      == [kind |-> "ask", name |-> f]       (* f(), for its result    *)
Not(e)      == [kind |-> "not", expr |-> e]
And(l, r)   == [kind |-> "and", lhs |-> l, rhs |-> r]
Or(l, r)    == [kind |-> "or", lhs |-> l, rhs |-> r]
Less(l, r)  == [kind |-> "less", lhs |-> l, rhs |-> r]
Equal(l, r) == [kind |-> "equal", lhs |-> l, rhs |-> r]
Element(a, i) == [kind |-> "element of", name |-> a, accessor |-> i]
Arithmetic(op, l, r) == [kind |-> "arithmetic", op |-> op, lhs |-> l, rhs |-> r]

(* Simple statements *)
Call(f)       == [kind |-> "call", name |-> f, args |-> <<>>]
Use(f, x)     == [kind |-> "call", name |-> f, args |-> <<Var(x)>>]
Declare(x, e) == [kind |-> "declare", name |-> x, value |-> e]
Increment(x)  == [kind |-> "increment", name |-> x]
Assign(type, x, e) == [kind |-> "assign", type |-> type, name |-> x, value |-> e]
Keyword(type) == [kind |-> "keyword", type |-> type]
Break         == Keyword("Break")
Continue      == Keyword("Continue")
Fallthrough   == Keyword("Fallthrough")
Return(e)     == [kind |-> "return", values |-> e]

(* Compound statements *)
Block(body)   == [kind |-> "block", body |-> body]
If(pre, cond, then, else) ==
  [kind |-> "if", pre |-> pre, cond |-> cond, then |-> then, else |-> else]
While(cond, body) == [kind |-> "while", cond |-> cond, body |-> body]
For(init, cond, iter, body) ==
  [kind |-> "for", init |-> init, cond |-> cond, iter |-> iter, body |-> body]
(* for targets := range a, or with = if not short.  With :=, a target that *)
(* is no name, which is an error, is that of an element.                   *)
ForRange(targets, hasShortDeclaration, a, body) ==
  [kind |-> "range", targets |-> targets, hasShortDeclaration |-> hasShortDeclaration,
   array |-> a, body |-> body]
Clause(case, body) == [case |-> case, body |-> body, fallthrowEnds |-> FALSE]
Switch(pre, tag, clauses) ==
  [kind |-> "switch", pre |-> pre, tag |-> tag, clauses |-> clauses]

(* A function: what it returns, if anything, and its block.  Its           *)
(* parameters are those every function of the model has.                   *)
Function(results, body) == [results |-> results, body |-> body]
Parameters == <<"a", "x">>

(* Tests on the syntax that several passes make. *)
IsKeyword(s, type) == s.kind = "keyword" /\ s.type = type
EndsWith(body, type) == body # <<>> /\ IsKeyword(body[Len(body)], type)
Dropped(body) == SubSeq(body, 1, Len(body) - 1)
===============================================================================
