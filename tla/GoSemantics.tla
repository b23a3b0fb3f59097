------------------------------ MODULE GoSemantics ------------------------------
(***************************************************************************)
(* What a Go program means: the language the compiler translates, the      *)
(* reference its outputs are compared with (src/tests runs the same        *)
(* program under Go).  A state is a stack of scopes and a continuation,    *)
(* the sequence of the things left to do.  The only observable steps are   *)
(* the calls of functions; everything else is silent.                      *)
(***************************************************************************)
EXTENDS GoSyntax, SequencesExt

CONSTANTS
  Array,     (* the elements of the array parameter                         *)
  TagValue   (* the value of the integer parameter                          *)

-----------------------------------------------------------------------------
(* Which programs are legal: every keyword is where the language allows    *)
(* it, a switch has at most one default, and a range loop gives values to  *)
(* an index and an element.                                                *)

RECURSIVE Legal(_, _, _)

AllLegal(body, inLoop, inSwitch) ==
  \A i \in DOMAIN body : Legal(body[i], inLoop, inSwitch)

LegalClauses(clauses, inLoop) ==
  /\ \A i, j \in DOMAIN clauses :
       clauses[i].case = <<>> /\ clauses[j].case = <<>> => i = j
  /\ \A i \in DOMAIN clauses :
       LET body == clauses[i].body
           falls == EndsWith(body, "Fallthrough")
       IN  /\ falls => i < Len(clauses)
           /\ AllLegal(IF falls THEN Dropped(body) ELSE body, inLoop, TRUE)

Legal(s, inLoop, inSwitch) ==
  CASE s.kind = "keyword" ->
         \/ s.type = "Break" /\ (inLoop \/ inSwitch)
         \/ s.type = "Continue" /\ inLoop
    [] s.kind = "block" -> AllLegal(s.body, inLoop, inSwitch)
    [] s.kind = "if" ->
         AllLegal(s.then, inLoop, inSwitch) /\ AllLegal(s.else, inLoop, inSwitch)
    [] s.kind \in {"while", "for"} -> AllLegal(s.body, TRUE, inSwitch)
    [] s.kind = "range" ->
         /\ Len(s.targets) <= 2
         /\ s.hasShortDeclaration => \A i \in DOMAIN s.targets : s.targets[i].kind = "var"
         /\ AllLegal(s.body, TRUE, inSwitch)
    [] s.kind = "switch" -> LegalClauses(s.clauses, inLoop)
    [] OTHER -> TRUE

(* A function with a result ends in a terminating statement.               *)

RECURSIVE Terminating(_), Breaks(_)

LastTerminates(body) == body # <<>> /\ Terminating(Last(body))

Breaks(body) ==     (* a break of the construct whose body this is          *)
  \E i \in DOMAIN body :
    LET s == body[i]
    IN  \/ IsKeyword(s, "Break")
        \/ s.kind = "block" /\ Breaks(s.body)
        \/ s.kind = "if" /\ (Breaks(s.then) \/ Breaks(s.else))

Terminating(s) ==
  CASE s.kind = "return" -> TRUE
    [] s.kind = "block" -> LastTerminates(s.body)
    [] s.kind = "if" -> LastTerminates(s.then) /\ LastTerminates(s.else)
    [] s.kind = "switch" ->
         /\ \E i \in DOMAIN s.clauses : s.clauses[i].case = <<>>
         /\ \A i \in DOMAIN s.clauses :
              LET body == s.clauses[i].body
              IN  ~Breaks(body) /\ (LastTerminates(body) \/ EndsWith(body, "Fallthrough"))
    [] s.kind \in {"while", "for"} -> s.cond = True /\ ~Breaks(s.body)
    [] OTHER -> FALSE

LegalFunction(f) ==
  /\ AllLegal(f.body, FALSE, FALSE)
  /\ f.results # <<>> => LastTerminates(f.body)

-----------------------------------------------------------------------------
(* Scopes: a sequence of functions from names to values, innermost last.   *)

ScopeOf(env, x) == SelectLastInSeq(env, LAMBDA scope : x \in DOMAIN scope)
Lookup(env, x) == env[ScopeOf(env, x)][x]
Update(env, x, v) == [env EXCEPT ![ScopeOf(env, x)][x] = v]
Bind(env, x, v) ==
  [env EXCEPT ![Len(env)] = [y \in DOMAIN @ \cup {x} |-> IF y = x THEN v ELSE @[y]]]
Entered(env) == Append(env, <<>>)

RECURSIVE Value(_, _)
Value(e, env) ==   (* of an expression that calls nothing; Booleans are 1, 0 *)
  CASE e.kind = "const" -> e.value
    [] e.kind = "var" -> Lookup(env, e.name)
    [] e.kind = "less" -> IF Value(e.lhs, env) < Value(e.rhs, env) THEN 1 ELSE 0
    [] e.kind = "equal" -> IF Value(e.lhs, env) = Value(e.rhs, env) THEN 1 ELSE 0

-----------------------------------------------------------------------------
(* Continuation frames other than statements.  A frame that ends a         *)
(* loop or a scope carries the number of scopes to go back to.             *)

Leave(d)          == [kind |-> "leave", depth |-> d]
EndSwitch         == [kind |-> "endswitch"]
NextRound(loop, d) == [kind |-> "next", loop |-> loop, depth |-> d]
NextElement(loop, i, d) ==
  [kind |-> "element", loop |-> loop, index |-> i, depth |-> d]
Test(c, yes, no)  == [kind |-> "test", cond |-> c, yes |-> yes, no |-> no]

IsLoop(frame) == frame.kind \in {"next", "element"}

After(k, Target(_)) ==      (* the continuation from the first target on    *)
  SubSeq(k, SelectInSeq(k, Target), Len(k))

Do(src, frames) == [src EXCEPT !.k = frames \o Tail(@)]

(* The bodies that run once clause i is chosen: fallthrough runs the next. *)
Bodies(clauses, i) ==
  LET Falls(j) == EndsWith(clauses[j].body, "Fallthrough")
      last == CHOOSE j \in i .. Len(clauses) :
                ~Falls(j) /\ \A m \in i .. (j - 1) : Falls(m)
  IN  [j \in 1 .. (last - i + 1) |->
         LET body == clauses[i + j - 1].body
         IN  Block(IF Falls(i + j - 1) THEN Dropped(body) ELSE body)]

(* The cases of a switch in order, then its default if there is one.       *)
Alternatives(s, tag) ==
  LET cases == SelectSeq([i \in DOMAIN s.clauses |-> i],
                         LAMBDA i : s.clauses[i].case # <<>>)
      default == {i \in DOMAIN s.clauses : s.clauses[i].case = <<>>}
      otherwise == UNION {{Bodies(s.clauses, i)} : i \in default}
      From[n \in 1 .. Len(cases) + 1] ==
        IF n > Len(cases)
          THEN IF otherwise = {} THEN <<>> ELSE CHOOSE b \in otherwise : TRUE
          ELSE <<Test(Equal(tag, s.clauses[cases[n]].case[1]),
                      Bodies(s.clauses, cases[n]), From[n + 1])>>
  IN  From[1]

-----------------------------------------------------------------------------
(* What the outside sees next: the call a state is about to make, with its *)
(* arguments, or the return from the function with what it returns.        *)

Operand(c) ==       (* the operand of a test that is a call, if any         *)
  IF c.kind = "ask" THEN {c}
  ELSE IF c.kind \in {"equal", "less"} THEN {e \in {c.lhs, c.rhs} : e.kind = "ask"}
  ELSE {}

Event(f, values) == [name |-> f, args |-> values]

Pending(src) ==
  IF src.k = <<>> THEN {Event("return", <<>>)}
  ELSE LET s == Head(src.k)
           Values(es) == [i \in DOMAIN es |-> Value(es[i], src.env)]
       IN  CASE s.kind = "call" -> {Event(s.name, Values(s.args))}
             [] s.kind = "return" -> {Event("return", Values(s.values))}
             [] s.kind = "test" -> {Event(e.name, <<>>) : e \in Operand(s.cond)}
             [] s.kind = "switch" /\ s.pre = <<>> /\ s.tag.kind = "ask" ->
                  {Event(s.tag.name, <<>>)}
             [] s.kind = "declare" /\ s.value.kind = "ask" -> {Event(s.value.name, <<>>)}
             [] OTHER -> {}

(* The state once that call has returned v. *)
Returned(src, v) ==
  LET s == Head(src.k)
      Got(e) == IF e.kind = "ask" THEN Const(v) ELSE e
  IN  CASE s.kind = "call" -> Do(src, <<>>)
        [] s.kind = "test" ->
             IF s.cond.kind = "ask" THEN Do(src, IF v = 1 THEN s.yes ELSE s.no)
             ELSE Do(src, <<[s EXCEPT !.cond = [s.cond EXCEPT !.lhs = Got(@), !.rhs = Got(@)]]>>)
        [] s.kind = "switch" -> Do(src, <<[s EXCEPT !.tag = Const(v)]>>)
        [] s.kind = "declare" -> Do(src, <<[s EXCEPT !.value = Const(v)]>>)

(* One silent step. *)
Branched(src, s) ==
  LET c == s.cond
  IN  CASE c.kind = "true" -> Do(src, s.yes)
        [] c.kind = "not" -> Do(src, <<Test(c.expr, s.no, s.yes)>>)
        [] c.kind = "and" -> Do(src, <<Test(c.lhs, <<Test(c.rhs, s.yes, s.no)>>, s.no)>>)
        [] c.kind = "or" -> Do(src, <<Test(c.lhs, s.yes, <<Test(c.rhs, s.yes, s.no)>>)>>)
        [] OTHER -> Do(src, IF Value(c, src.env) = 1 THEN s.yes ELSE s.no)

Looped(src, s) ==
  LET d == Len(src.env)
      in == [src EXCEPT !.env = Entered(@)]
  IN  CASE s.kind = "while" ->
             Do(src, <<Test(s.cond, <<Block(s.body), NextRound(s, d)>>, <<>>), Leave(d)>>)
        [] s.kind = "for" ->
             Do(in, s.init \o <<Test(s.cond, <<Block(s.body), NextRound(s, d + 1)>>, <<>>),
                                Leave(d)>>)
        [] s.kind = "range" -> Do(in, <<NextElement(s, 0, d + 1), Leave(d)>>)

(* The targets of a range loop get the index and the element.              *)
WithRangeVariables(env, s, index) ==
  LET given(e, i) ==
        LET x == s.targets[i].name
            v == IF i = 1 THEN index ELSE Array[index + 1]
        IN  IF x = "_" THEN e ELSE IF s.hasShortDeclaration THEN Bind(e, x, v) ELSE Update(e, x, v)
  IN  FoldLeft(given, env, [i \in DOMAIN s.targets |-> i])

Rounds(src, s) ==
  LET at == [src EXCEPT !.env = SubSeq(@, 1, s.depth)]
  IN  IF s.kind = "next"
        THEN Do(at, (IF s.loop.kind = "for" THEN s.loop.iter ELSE <<>>)
                    \o <<Test(s.loop.cond, <<Block(s.loop.body), s>>, <<>>)>>)
        ELSE IF s.index = Len(Array) THEN Do(at, <<>>)
        ELSE Do([at EXCEPT !.env = WithRangeVariables(@, s.loop, s.index)],
                <<Block(s.loop.body), [s EXCEPT !.index = @ + 1]>>)

Jumped(src, s) ==
  [src EXCEPT !.k =
     IF s.type = "Continue" THEN After(@, IsLoop)
     ELSE Tail(After(@, LAMBDA f : IsLoop(f) \/ f.kind = "endswitch"))]

(* The new value of a variable that had another, none of them negative. *)
Assigned(s, old, v) ==
  CASE s.type = "SimpleAssign" -> v
    [] s.type = "PlusAssign" -> old + v
    [] s.type = "MinusAssign" -> old - v
    [] s.type = "MulAssign" -> old * v
    [] s.type = "DivAssign" -> old \div v
    [] s.type = "ModAssign" -> old % v

Silent(src) ==
  LET s == Head(src.k)
      env == src.env
      d == Len(env)
      in == [src EXCEPT !.env = Entered(@)]
      step(frames, e) == [Do(src, frames) EXCEPT !.env = e]
  IN  CASE s.kind = "declare" -> step(<<>>, Bind(env, s.name, Value(s.value, env)))
        [] s.kind = "increment" -> step(<<>>, Update(env, s.name, Lookup(env, s.name) + 1))
        [] s.kind = "assign" ->
             step(<<>>, Update(env, s.name, Assigned(s, Lookup(env, s.name), Value(s.value, env))))
        [] s.kind = "block" -> Do(in, s.body \o <<Leave(d)>>)
        [] s.kind = "if" ->
             Do(in, s.pre \o <<Test(s.cond, <<Block(s.then)>>, s.else), Leave(d)>>)
        [] s.kind = "switch" /\ s.pre # <<>> ->
             Do(in, s.pre \o <<[s EXCEPT !.pre = <<>>], Leave(d)>>)
        [] s.kind = "switch" /\ s.tag.kind = "var" ->
             Do(src, <<[s EXCEPT !.tag = Const(Lookup(env, s.tag.name))]>>)
        [] s.kind = "switch" -> Do(src, Alternatives(s, s.tag) \o <<EndSwitch, Leave(d)>>)
        [] s.kind = "leave" -> step(<<>>, SubSeq(env, 1, s.depth))
        [] s.kind = "endswitch" -> Do(src, <<>>)
        [] s.kind = "test" -> Branched(src, s)
        [] s.kind \in {"while", "for", "range"} -> Looped(src, s)
        [] s.kind \in {"next", "element"} -> Rounds(src, s)
        [] s.kind = "keyword" -> Jumped(src, s)

Start(f) ==
  [k |-> f.body, env |-> <<[p \in {"a", "x"} |-> IF p = "a" THEN Array ELSE TagValue]>>]
===============================================================================
