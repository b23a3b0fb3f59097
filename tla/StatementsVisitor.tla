--------------------------- MODULE StatementsVisitor ---------------------------
(***************************************************************************)
(* The lowering of statements (src/semantic/statements_visitor.cpp): every *)
(* loop becomes a WhileStatement, a pre-statement moves in front of its    *)
(* statement, the step of a loop is cloned in front of each continue, and  *)
(* misplaced keywords are reported.                                        *)
(*                                                                         *)
(* The visitor carries a state: nextIterationsLoops, the stack of the      *)
(* enclosing loops' steps; insideSwitchCaseClause; and the errors so far.  *)
(* Visit returns the node and that state, in the order in which            *)
(* acceptVisitor (src/ast.cpp) reaches the children.                       *)
(***************************************************************************)
EXTENDS GoSyntax, SequencesExt

indexPrivateVariableName == "$index"

NewVisitor == [nextIterationsLoops |-> <<>>, insideSwitchCaseClause |-> FALSE,
               errors |-> {}]

Report(v, cond, error) ==
  IF cond THEN [v EXCEPT !.errors = @ \cup {error}] ELSE v

(* Mutant: only a loop that has a step is pushed. *)
PushLoopWithStep(v, step) ==
  IF step = <<>> THEN v ELSE [v EXCEPT !.nextIterationsLoops = Append(@, step)]

(* Mutant: the loop that was left stays on the stack. *)
PopLoopForgotten(v) == v

PushLoop(v, step) == [v EXCEPT !.nextIterationsLoops = Append(@, step)]
PopLoop(v) == [v EXCEPT !.nextIterationsLoops = Front(@)]

-----------------------------------------------------------------------------
(* On the way down: the keywords among the statements of a block.          *)

transformKeywordStatements(body, v) ==
  LET loops == v.nextIterationsLoops
      Expanded(s) ==
        IF IsKeyword(s, "Continue") /\ loops # <<>> THEN Last(loops) \o <<s>> ELSE <<s>>
      Has(type) == \E i \in DOMAIN body : IsKeyword(body[i], type)
      v1 == Report(v, Has("Continue") /\ loops = <<>>, "continue")
      v2 == Report(v1, Has("Break") /\ loops = <<>> /\ ~v.insideSwitchCaseClause, "break")
      v3 == Report(v2, Has("Fallthrough"), "fallthrough")
  IN  [body |-> FlattenSeq([i \in DOMAIN body |-> Expanded(body[i])]), v |-> v3]

-----------------------------------------------------------------------------
(* On the way up: the statements of a block.                               *)

OperationOf ==
  [PlusAssign |-> "Addition", MinusAssign |-> "Subtraction", MulAssign |-> "Multiplication",
   DivAssign |-> "Division", ModAssign |-> "Mod"]

transformAssignment(s) ==
  IF s.type = "SimpleAssign" THEN s
  ELSE Assign("SimpleAssign", s.name, Arithmetic(OperationOf[s.type], Var(s.name), s.value))

(* Mutant: the step runs only where a continue has its clone. *)
transformForToWhileWithoutStep(s) ==
  Block(s.init \o <<While(s.cond, s.body)>>)

transformForToWhile(s) ==
  Block(s.init \o <<While(s.cond, s.body \o s.iter)>>)

(* What gives a value to a target: with :=, to a target that is a name.    *)
RangeVariable(s, target, value) ==
  CASE ~s.hasShortDeclaration -> <<Assign("SimpleAssign", target.name, value)>>
    [] s.hasShortDeclaration /\ target.kind = "var" -> <<Declare(target.name, value)>>
    [] OTHER -> <<>>

(* The element variable goes in front of the index variable.               *)
transformForRangeToWhile(s) ==
  LET index == Var(indexPrivateVariableName)
      values == <<index, Element(s.array, index)>>
      variable(i) == IF i \in DOMAIN s.targets THEN RangeVariable(s, s.targets[i], values[i]) ELSE <<>>
  IN  Block(<<Declare(index.name, Const(0)),
              While(Less(index, LenOf(s.array)),
                    variable(2) \o variable(1) \o s.body \o <<Increment(index.name)>>)>>)

RangeErrors(s) ==
  (IF Len(s.targets) > 2 THEN {"many variables"} ELSE {})
  \cup (IF s.hasShortDeclaration /\ \E i \in DOMAIN s.targets : i <= 2 /\ s.targets[i].kind # "var"
          THEN {"not a name"} ELSE {})

transformPreStatement(s) ==
  IF s.pre = <<>> THEN s ELSE Block(s.pre \o <<[s EXCEPT !.pre = <<>>]>>)

transformStatement(s) ==
  CASE s.kind = "for" -> transformForToWhile(s)
    [] s.kind = "range" -> transformForRangeToWhile(s)
    [] s.kind \in {"if", "switch"} -> transformPreStatement(s)
    [] s.kind = "assign" -> transformAssignment(s)
    [] OTHER -> s

transformStatements(body) == [i \in DOMAIN body |-> transformStatement(body[i])]

StatementErrors(body) ==
  UNION {IF s.kind = "range" THEN RangeErrors(s) ELSE {} : s \in ToSet(body)}

-----------------------------------------------------------------------------
RECURSIVE Visit(_, _)

VisitAll(body, v) ==
  LET Next(done, s) ==
        LET r == Visit(s, done.v) IN [body |-> Append(done.body, r.node), v |-> r.v]
  IN  FoldLeft(Next, [body |-> <<>>, v |-> v], body)

VisitBlock(body, v) ==
  LET down == transformKeywordStatements(body, v)
      r == VisitAll(down.body, down.v)
  IN  [body |-> transformStatements(r.body),
       v |-> [r.v EXCEPT !.errors = @ \cup StatementErrors(r.body)]]

VisitLoop(s, step, v) ==
  LET r == VisitBlock(s.body, PushLoop(v, step))
  IN  [node |-> [s EXCEPT !.body = r.body], v |-> PopLoop(r.v)]

VisitIf(s, v) ==
  LET then == VisitBlock(s.then, v)
      else == VisitAll(s.else, then.v)
  IN  [node |-> [s EXCEPT !.then = then.body,
                          !.else = [i \in DOMAIN else.body |->
                                      IF else.body[i].kind = "if"
                                        THEN transformPreStatement(else.body[i])
                                        ELSE else.body[i]]],
       v |-> else.v]

VisitClause(c, v) ==
  LET falls == EndsWith(c.body, "Fallthrough")
      r == VisitBlock(IF falls THEN Dropped(c.body) ELSE c.body,
                      [v EXCEPT !.insideSwitchCaseClause = TRUE])
  IN  [clause |-> [c EXCEPT !.body = r.body, !.fallthrowEnds = falls],
       v |-> [r.v EXCEPT !.insideSwitchCaseClause = FALSE]]

VisitSwitch(s, v) ==
  LET Next(done, c) ==
        LET r == VisitClause(c, done.v)
        IN  [clauses |-> Append(done.clauses, r.clause), v |-> r.v]
      r == FoldLeft(Next, [clauses |-> <<>>, v |-> v], s.clauses)
      Defaults == {i \in DOMAIN r.clauses : r.clauses[i].case = <<>>}
      v1 == Report(r.v, \E i, j \in Defaults : i # j, "multiple defaults")
      v2 == Report(v1, r.clauses # <<>> /\ Last(r.clauses).fallthrowEnds, "last fallthrough")
  IN  [node |-> [s EXCEPT !.clauses = r.clauses], v |-> v2]

Visit(s, v) ==
  CASE s.kind = "block" ->
         LET r == VisitBlock(s.body, v) IN [node |-> Block(r.body), v |-> r.v]
    [] s.kind = "if" -> VisitIf(s, v)
    [] s.kind = "while" -> VisitLoop(s, <<>>, v)
    [] s.kind = "for" -> VisitLoop(s, s.iter, v)
    [] s.kind = "range" -> VisitLoop(s, <<Increment(indexPrivateVariableName)>>, v)
    [] s.kind = "switch" -> VisitSwitch(s, v)
    [] OTHER -> [node |-> s, v |-> v]

-----------------------------------------------------------------------------
(* Does every path through the (lowered) statement end in a return?        *)

RECURSIVE checkReturnStatements(_)

LastReturns(body) == body # <<>> /\ checkReturnStatements(Last(body))

checkReturnStatements(s) ==
  CASE s.kind = "return" -> TRUE
    [] s.kind = "block" -> LastReturns(s.body)
    [] s.kind = "if" ->
         LastReturns(s.then) /\ s.else # <<>> /\ checkReturnStatements(s.else[1])
    [] s.kind = "switch" ->
         /\ \A i \in DOMAIN s.clauses : LastReturns(s.clauses[i].body)
         /\ \E i \in DOMAIN s.clauses : s.clauses[i].case = <<>>
    [] OTHER -> FALSE

(* The whole pass over a function: its lowered form and the errors.        *)
Lowered(f) ==
  LET r == VisitBlock(f.body, NewVisitor)
      v == Report(r.v, f.results # <<>> /\ ~LastReturns(r.body), "missing return")
  IN  [function |-> [f EXCEPT !.body = r.body], errors |-> v.errors]
===============================================================================
