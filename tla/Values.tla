-------------------------------- MODULE Values --------------------------------
(***************************************************************************)
(* A function of a Go program, statement by statement: each one is folded, *)
(* analysed and translated as the compiler does it, verified and executed  *)
(* as a JVM does it, and executed as Go does it.                           *)
(*                                                                         *)
(* The passes of the compiler run one after the other over the whole tree; *)
(* what one statement leaves for the next in them are the types of the     *)
(* variables only, so the statements can be taken one at a time.           *)
(***************************************************************************)
EXTENDS Folding, StackMachine, GoExpressions

CONSTANTS
  Functions,  (* name -> [prelude: sequence of statements, body: set of    *)
              (* statements, length: how many of the body are taken]       *)
  Callee      (* the function that calls call: its parameters and the      *)
              (* variables that it increments                              *)

VARIABLES
  function,  (* the one that runs                                          *)
  steps,     (* how many of its statements were taken                      *)
  stage,     (* "running", "returned", "panicked", or how it ended before  *)
             (* it ran: "crashed" is the compiler's end, "rejected" its    *)
             (* verdict, "refused" the JVM's; "accepted" is a statement    *)
             (* that Go does not have and that the compiler translates     *)
  types,     (* TypesVisitor: the types of the variables                   *)
  go,        (* Go: types, variables and slices                            *)
  jvm,       (* the frame, the types the verifier knows of it, the heap    *)
  met,       (* constructs that the code does not handle as Go does        *)
  legal,     (* whether Go has all statements so far                       *)
  panics     (* of "Go" and "JVM", those that stopped with a panic         *)

vars == <<function, steps, stage, types, go, jvm, met, legal, panics>>

-----------------------------------------------------------------------------
(* Statements.  The type of a declaration is AnyType if it has none.       *)
Declaration(x, t, e) == [kind |-> "declare", name |-> x, declared |-> t, values |-> <<e>>]
Assignment(targets, values) == [kind |-> "assign", targets |-> targets, values |-> values]
OpAssignment(op, target, e) == [kind |-> "op assign", op |-> op, targets |-> <<target>>, values |-> <<e>>]
Step(op, target) == [kind |-> "step", values |-> <<Unary(op, target)>>]
Printing(e) == [kind |-> "print", values |-> <<Callable("print", <<e>>)>>]
Calling(es) == [kind |-> "call", values |-> es]
Returning(t, e) == [kind |-> "return", declared |-> t, values |-> <<e>>]

-----------------------------------------------------------------------------
(* What the code of the compiler does not do as Go does.                   *)

Proper(es) ==
  {f \in UNION {Subexpressions(es[i]) : i \in DOMAIN es} : f.kind \notin {"element", "elements"}}

Folded(e, kind) == Fold(e).kind = kind

InWidth(n, w) == Wrap(n, w) = n

(* A part of an array: target, or the base of it, or the base of that. *)
RECURSIVE PartOf(_, _)
PartOf(whole, target) ==
  target = whole \/ (target.kind = "access" /\ PartOf(whole, target.base))

Nested(t) == isArray(t) /\ ~isSlice(t) /\ isArray(t.elementType)

Constructs(es) ==
  LET fs == Proper(es)
      type(f) == GoType(f, types)
      named(condition, name) == IF condition THEN {name} ELSE {}
      some(Holds(_), name) == named(\E f \in fs : Holds(f), name)
      binary(f, ops) == f.kind = "binary" /\ f.op \in ops
      calls(f, name) == f.kind = "call" /\ f.function = name
  IN  UNION {
        some(LAMBDA f : binary(f, Comparisons)
                          /\ \/ type(f.lhs) = FloatType /\ Folded(f.rhs, "integer")
                             \/ type(f.rhs) = FloatType /\ Folded(f.lhs, "integer"), "float and integer literal"),
        some(LAMBDA f : binary(f, Comparisons) /\ type(f.lhs) = String /\ ~IsConstant(f), "strings compared"),
        some(LAMBDA f : Folded(f, "float") /\ Fold(f).floatLit.den = 1, "integral float"),
        some(LAMBDA f : f.kind = "composite" /\ \E g \in Subexpressions(f) \ {f} : g.kind = "composite",
             "composite in composite"),
        some(LAMBDA f : f.kind = "composite"
                          /\ \E g \in Subexpressions(f) : g.kind \in {"element", "elements"} /\ g.key # NoKey, "keyed"),
        some(LAMBDA f : binary(f, ArithmeticOps) /\ Folded(f.lhs, "integer") /\ Folded(f.rhs, "integer")
                          /\ (f.op \in {"/", "%"} => Fold(f.rhs).intLit # 0)
                          /\ ~InWidth(OnInts(IF f.op = "%" THEN "/" ELSE f.op, Fold(f.lhs).intLit, Fold(f.rhs).intLit), 2 * W),
             "wide constant"),
        some(LAMBDA f : Folded(f, "integer") /\ ~InWidth(Fold(f).intLit, W), "large constant"),
        some(LAMBDA f : binary(f, {"/", "%"}) /\ Folded(f.rhs, "integer") /\ Fold(f.rhs).intLit = 0, "zero divisor"),
        some(LAMBDA f : binary(f, {"%"}) /\ {type(f.lhs), type(f.rhs)} \cap {FloatType, UntypedFloat} # {}, "float remainder"),
        some(LAMBDA f : binary(f, Comparisons) /\ isSlice(type(f.lhs)), "slices compared"),
        some(LAMBDA f : calls(f, "append") /\ isArray(type(f.arguments[1])) /\ ~isSlice(type(f.arguments[1])),
             "append to array"),
        some(LAMBDA f : calls(f, "append") /\ type(f.arguments[1]) = SliceType(FloatType)
                          /\ Folded(f.arguments[2], "integer"), "literal appended"),
        some(LAMBDA f : calls(f, "append") /\ type(f.arguments[1]) = SliceType(String), "strings appended"),
        some(LAMBDA f : calls(f, "readString"), "readString"),
        some(LAMBDA f : f.kind = "call" /\ f.function \in DOMAIN ReadFunctions /\ f.arguments # <<>>, "arguments to read"),
        some(LAMBDA f : f.kind = "access" /\ Folded(f.accessor, "integer") /\ isArray(type(f.base))
                          /\ LET n == Fold(f.accessor).intLit
                             IN  n < 0 \/ (~isSlice(type(f.base)) /\ n >= type(f.base).dims), "constant index"),
        some(LAMBDA f : f.kind = "unary" /\ IsStep(f) /\ f.expression.kind \notin {"identifier", "access"},
             "step of a value"),
        named(\E i \in DOMAIN es : Nested(type(es[i])) /\ es[i].kind # "composite", "nested array copied")}

(* What a statement has, besides what its expressions have. *)
StatementConstructs(s) ==
  LET e == s.values[1]
  IN  CASE s.kind = "declare" -> IF e.kind = "call" /\ e.function = "print" THEN {"no value"} ELSE {}
        [] s.kind = "assign" ->
             IF \E i, j \in DOMAIN s.targets :
                  i < j /\ s.targets[i] # s.targets[j] /\ PartOf(s.targets[i], s.targets[j])
               THEN {"assigned with its element"} ELSE {}
        [] s.kind = "op assign" -> IF s.targets[1].kind = "access" THEN {"operation on an element"} ELSE {}
        [] s.kind = "return" ->
             IF s.declared = FloatType /\ Folded(e, "integer") THEN {"literal returned"} ELSE {}
        [] OTHER -> {}

(* The expressions that are evaluated in a statement s. *)
Evaluated(s) ==
  IF s.kind = "op assign" THEN <<Binary(s.op, s.targets[1], s.values[1])>> ELSE s.values

Meets(s) == met' = met \cup Constructs(Evaluated(s)) \cup StatementConstructs(s)

-----------------------------------------------------------------------------
(* What all statements have in common.                                     *)

(* The statements that may come next. *)
NextStatements ==
  LET f == Functions[function]
  IN  CASE stage # "running" -> {}
        [] stage = "running" /\ steps < Len(f.prelude) -> {f.prelude[steps + 1]}
        [] stage = "running" /\ steps \in Len(f.prelude) .. (Len(f.prelude) + f.length - 1) -> f.body
        [] OTHER -> {}

Taken(allowed) ==
  /\ steps' = steps + 1
  /\ legal' = allowed
  /\ UNCHANGED function

(* How the compiler takes s, if the analysis finds errors in it (rejected) *)
(* or not, and Go has it (allowed) or not.                                 *)
Outcome(s, rejected, allowed) ==
  CASE \E i \in DOMAIN s.values : Crashes(Fold(s.values[i])) -> "crashed"
    [] rejected -> "rejected"
    [] ~allowed -> "accepted"
    [] OTHER -> "running"

Stops(outcome) == stage' = outcome /\ UNCHANGED <<types, go, jvm, panics>>

(* The code is verified, then executed, next to the statement itself: it   *)
(* leaves the variables of newTypes, and in Go either goAfter or a panic.  *)
Runs(code, newTypes, goPanics, goAfter) ==
  LET runs(verified, executed, panicking) ==
        CASE ~verified.ok -> Stops("refused")
          [] verified.ok /\ panicking # {} ->
               stage' = "panicked" /\ panics' = panicking /\ UNCHANGED <<types, go, jvm>>
          [] OTHER ->
               /\ stage' = IF "result" \in DOMAIN newTypes THEN "returned" ELSE "running"
               /\ types' = newTypes
               /\ go' = goAfter
               /\ jvm' = [locals |-> executed.locals, descriptors |-> verified.locals,
                          heap |-> executed.heap, strings |-> executed.strings]
               /\ UNCHANGED panics
      executes(verified, executed) ==
        runs(verified, executed, {p \in {"Go", "JVM"} : IF p = "Go" THEN goPanics ELSE executed.thrown})
  IN  executes(Verify([ok |-> TRUE, stack |-> <<>>, locals |-> jvm.descriptors], code),
               Execute([stack |-> <<>>, locals |-> jvm.locals, heap |-> jvm.heap,
                        strings |-> jvm.strings, thrown |-> FALSE], code))

Analysed(e) == Analyse(Fold(e), types)

(* Go's variables with a new one of type t. *)
GoDeclares(x, t, e) ==
  LET declared(placed) ==
        [placed.env EXCEPT !.types = (x :> t) @@ @, !.variables = (x :> placed.value) @@ @]
  IN  declared(Placed(e, t, go))

-----------------------------------------------------------------------------
(* The statements.                                                         *)

(* var x T = e, or x := e. *)
Declare(s) ==
  LET e == s.values[1]
      f == Analysed(e)
      declared == s.declared # AnyType
      rejected == Erroneous(f) \/ (declared /\ ~equal(TypeOf(f), s.declared))
      allowed == GoAssignable(e, s.declared, go.types)
      outcome == Outcome(s, rejected, allowed)
      value == IF declared THEN Represented(f, s.declared) ELSE f
      type == IF declared THEN s.declared ELSE DefaultType(TypeOf(f))
      goType == IF declared THEN s.declared ELSE GoDefault(GoType(e, go.types))
  IN  /\ s.kind = "declare" /\ s.name \notin DOMAIN types
      /\ Taken(allowed)
      /\ IF outcome # "running" THEN Stops(outcome)
         ELSE Runs(Generate(value) \o generateCloneArrayCommand(value) \o <<StoreCommand(s.name, TypeOf(value))>>,
                   (s.name :> type) @@ types, GoPanics(e, go), GoDeclares(s.name, goType, e))

(* An indexed target is taken apart: the base is visited as a value.       *)
AnalyseTarget(e) ==
  CASE e = Id(Blank) -> Typed(e, AnyType)
    [] e.kind = "access" -> [e EXCEPT !.base = Analysed(@), !.accessor = Analysed(@)]
    [] OTHER -> Analysed(e)

(* The type of what is assigned to. *)
PlaceType(target) ==
  CASE target.kind # "access" -> TypeOf(target)
    [] target.kind = "access" /\ isArray(TypeOf(target.base)) /\ isInteger(TypeOf(target.accessor)) ->
         TypeOf(target.base).elementType
    [] OTHER -> Invalid

RejectsPair(target, value) ==
  \/ Erroneous(value)
  \/ PlaceType(target) = Invalid
  \/ ~equal(PlaceType(target), TypeOf(value))

PushPair(target, value) ==
  (IF target.kind = "access" THEN Generate(target.base) \o Generate(target.accessor) ELSE <<>>)
    \o Generate(value) \o generateCloneArrayCommand(value)

StorePair(target, value) ==
  CASE target.kind = "access" -> generateStoreToArrayCommand(TypeOf(value))
    [] target.kind = "identifier" /\ target.identifier = Blank -> Do("pop")
    [] OTHER -> StoreCommand(target.identifier, TypeOf(target))

(* Pushed from the last to the first, stored from the first to the last.   *)
AssignmentCode(targets, values) ==
  FlattenSeq(Reverse([i \in DOMAIN targets |-> PushPair(targets[i], values[i])]))
    \o [i \in DOMAIN targets |-> StorePair(targets[i], values[i])]

GoPlace(e) == IF e = Id(Blank) THEN AnyType ELSE GoType(e, go.types)

(* The values of es as values of the types ts, in order, and the           *)
(* environment that they leave.                                            *)
EvaluateAll(es, ts) ==
  LET with(values, placed) == [values |-> Append(values, placed.value), env |-> placed.env]
  IN  FoldLeft(LAMBDA acc, i : with(acc.values, Placed(es[i], ts[i], acc.env)),
               [values |-> <<>>, env |-> go], [i \in DOMAIN es |-> i])

(* All operands are evaluated, then the targets are assigned to in order.  *)
SetTargets(targets, evaluated) ==
  FoldLeft(LAMBDA env, i : SetTarget(targets[i], evaluated.values[i], go, env),
           evaluated.env, [i \in DOMAIN targets |-> i])

GoAssigns(targets, values) ==
  LET type(i) == IF GoPlace(targets[i]) = AnyType THEN GoDefault(GoType(values[i], go.types))
                 ELSE GoPlace(targets[i])
  IN  SetTargets(targets, EvaluateAll(values, [i \in DOMAIN targets |-> type(i)]))

(* One assignment of the program, as Go has it (given) and as the analysis *)
(* sees it (lowered, with its targets and values analysed).                *)
AssignValues(given, targets, analysed, outcome) ==
  LET values == [i \in DOMAIN targets |-> Represented(analysed[i], PlaceType(targets[i]))]
      indexed == {target \in {given.targets[i] : i \in DOMAIN targets} : target.kind = "access"}
  IN  IF outcome # "running" THEN Stops(outcome)
      ELSE Runs(AssignmentCode(targets, values), types,
                \E e \in {given.values[i] : i \in DOMAIN targets} \cup indexed : GoPanics(e, go),
                GoAssigns(given.targets, given.values))

AssignAnalysed(given, lowered, targets, analysed) ==
  LET rejected == \E i \in DOMAIN targets : RejectsPair(targets[i], analysed[i])
      allowed == \A i \in DOMAIN targets :
                   GoPlace(given.targets[i]) # Invalid
                     /\ GoAssignable(given.values[i], GoPlace(given.targets[i]), go.types)
  IN  Taken(allowed) /\ AssignValues(given, targets, analysed, Outcome(lowered, rejected, allowed))

AssignAs(given, lowered) ==
  AssignAnalysed(given, lowered, [i \in DOMAIN given.targets |-> AnalyseTarget(lowered.targets[i])],
                 [i \in DOMAIN given.targets |-> Analysed(lowered.values[i])])

Assign(s) == s.kind = "assign" /\ AssignAs(s, s)

(* transformAssignment: the left operand is a clone of what is left of the *)
(* target when its index was taken off.                                    *)
transformAssignment(s) ==
  LET target == s.targets[1]
      left == IF target.kind = "access" THEN target.base ELSE target
  IN  Assignment(s.targets, <<Binary(s.op, left, s.values[1])>>)

AssignOperation(s) ==
  /\ s.kind = "op assign"
  /\ AssignAs(Assignment(s.targets, Evaluated(s)), transformAssignment(s))

(* x++ and x--. *)
StepVariable(s) ==
  LET e == s.values[1]
      f == Analysed(e)
      target == e.expression
      allowed == GoType(e, go.types) # Invalid
      outcome == Outcome(s, Erroneous(f), allowed)
      one == IF e.op = "++" THEN Integer(1) ELSE Integer(-1)
  IN  /\ s.kind = "step"
      /\ Taken(allowed)
      /\ IF outcome # "running" THEN Stops(outcome)
         ELSE Runs(StepCode(f), types, GoPanics(target, go),
                   GoAssigns(<<target>>, <<Binary("+", target, one)>>))

(* A call of print. *)
PrintValue(s) ==
  LET e == s.values[1]
      f == Analysed(e)
      allowed == GoType(e, go.types) # Invalid
      outcome == Outcome(s, Erroneous(f), allowed)
  IN  /\ s.kind = "print"
      /\ Taken(allowed)
      /\ IF outcome # "running" THEN Stops(outcome)
         ELSE Runs(Generate(f), types, GoPanics(e, go), go)

(* A call of Callee, which increments what its parameters give it. *)
CalleeTypes == Frame([i \in DOMAIN Callee.parameters |-> Callee.parameters[i].name],
                     [i \in DOMAIN Callee.parameters |-> Callee.parameters[i].type])

CallCode(arguments) ==
  FlattenSeq([i \in DOMAIN arguments |-> Generate(arguments[i]) \o generateCloneArrayCommand(arguments[i])])
    \o <<[op |-> "call",
          names |-> [i \in DOMAIN Callee.parameters |-> Callee.parameters[i].name],
          descriptors |-> [i \in DOMAIN Callee.parameters |-> Descriptor(Callee.parameters[i].type)],
          body |-> FlattenSeq([k \in DOMAIN Callee.body |->
                                StepCode(Analyse(Unary("++", Callee.body[k]), CalleeTypes))])]>>

(* The frame that the callee gets in Go. *)
GoFrame(es) ==
  LET frame(evaluated) ==
        [types |-> CalleeTypes,
         variables |-> Frame([i \in DOMAIN es |-> Callee.parameters[i].name], evaluated.values),
         slices |-> evaluated.env.slices]
  IN  frame(EvaluateAll(es, [i \in DOMAIN es |-> Callee.parameters[i].type]))

(* What the call leaves in Go: the slices. *)
GoCalls(es) ==
  LET increment(env, target) ==
        SetTarget(target, GoValue(Binary("+", target, Integer(1)), IntType, env), env, env)
  IN  [go EXCEPT !.slices = FoldLeft(increment, GoFrame(es), Callee.body).slices]

Call(s) ==
  LET es == s.values
      type(i) == Callee.parameters[i].type
      analysed == [i \in DOMAIN es |-> Analysed(es[i])]
      rejected == \E i \in DOMAIN es : Erroneous(analysed[i]) \/ ~equal(type(i), TypeOf(analysed[i]))
      allowed == \A i \in DOMAIN es : GoAssignable(es[i], type(i), go.types)
      outcome == Outcome(s, rejected, allowed)
  IN  /\ s.kind = "call"
      /\ Taken(allowed)
      /\ IF outcome # "running" THEN Stops(outcome)
         ELSE Runs(CallCode([i \in DOMAIN es |-> Represented(analysed[i], type(i))]), types,
                   \/ \E i \in DOMAIN es : GoPanics(es[i], go)
                   \/ \E k \in DOMAIN Callee.body : GoPanics(Callee.body[k], GoFrame(es)),
                   GoCalls(es))

(* The value of a return keeps its type.  result stands for what is        *)
(* returned.                                                               *)
Return(s) ==
  LET e == s.values[1]
      f == Analysed(e)
      rejected == Erroneous(f) \/ ~equal(s.declared, TypeOf(f))
      allowed == GoAssignable(e, s.declared, go.types)
      outcome == Outcome(s, rejected, allowed)
  IN  /\ s.kind = "return"
      /\ Taken(allowed)
      /\ IF outcome # "running" THEN Stops(outcome)
         ELSE Runs(Generate(f) \o generateCloneArrayCommand(f) \o <<ReturnCommand(s.declared)>>,
                   ("result" :> s.declared) @@ types, GoPanics(e, go), GoDeclares("result", s.declared, e))

-----------------------------------------------------------------------------
Init ==
  /\ function \in DOMAIN Functions
  /\ steps = 0
  /\ stage = "running"
  /\ types = <<>>
  /\ go = [types |-> <<>>, variables |-> <<>>, slices |-> <<>>]
  /\ jvm = [locals |-> <<>>, descriptors |-> <<>>, heap |-> <<>>, strings |-> 0]
  /\ met = {}
  /\ legal = TRUE
  /\ panics = {}

Next ==
  \E s \in NextStatements :
    /\ Declare(s) \/ Assign(s) \/ AssignOperation(s) \/ StepVariable(s)
         \/ PrintValue(s) \/ Call(s) \/ Return(s)
    /\ Meets(s)

Spec == Init /\ [][Next]_vars

-----------------------------------------------------------------------------
(* What the variables hold.  identity: of an array its path from a         *)
(* variable, of a slice its place, both as sequences of texts.             *)

RECURSIVE SameValue(_, _, _)
SameValue(t, v, w) ==
  CASE t = String -> w.text = v
    [] isArray(t) ->
         LET cells == IF isSlice(t) THEN go.slices[v] ELSE v
         IN  /\ Len(jvm.heap[w].cells) = Len(cells)
             /\ \A i \in DOMAIN cells : SameValue(t.elementType, cells[i], jvm.heap[w].cells[i])
    [] OTHER -> w = v

RECURSIVE Holders(_, _, _, _)
Holders(path, t, v, w) ==
  IF ~isArray(t) THEN {}
  ELSE LET identity == IF isSlice(t) THEN <<"slice", ToString(v)>> ELSE path
           cells == IF isSlice(t) THEN go.slices[v] ELSE v
       IN  {[identity |-> identity, object |-> w]} \cup
             UNION {Holders(Append(identity, ToString(i)), t.elementType, cells[i], jvm.heap[w].cells[i]) :
                      i \in DOMAIN cells}

AllHolders ==
  UNION {Holders(<<x>>, go.types[x], go.variables[x], jvm.locals[x]) : x \in DOMAIN go.variables \ {"result"}}

(* The constructs that are not handled, by what goes wrong with them. *)
RefusedConstructs ==
  {"float and integer literal", "literal appended", "strings appended", "readString", "literal returned"}
WrongConstructs ==
  {"strings compared", "keyed", "wide constant", "nested array copied", "assigned with its element"}
RejectedConstructs == {"integral float", "composite in composite", "operation on an element", "wide constant"}
AcceptedConstructs ==
  {"float remainder", "slices compared", "append to array", "constant index", "large constant",
   "zero divisor", "step of a value", "no value", "arguments to read"}

(* The type invariant.  The verifier knows of each variable what the       *)
(* analysis says of it.                                                    *)
TypeOK ==
  /\ stage \in {"running", "returned", "panicked", "crashed", "rejected", "refused", "accepted"}
  /\ panics \subseteq {"Go", "JVM"}
  /\ DOMAIN jvm.locals = DOMAIN types /\ DOMAIN jvm.descriptors = DOMAIN types
  /\ met \cap {"strings appended"} = {} =>
       \A x \in DOMAIN types : jvm.descriptors[x] = OnStack(Descriptor(types[x]))

(* The JVM accepts the code: whatever operations a statement is made of,   *)
(* the operands have the types of the commands, and calls have the         *)
(* descriptors of methods that the run-time library has.                   *)
NeverRefused == stage = "refused" => met \cap RefusedConstructs # {}

(* Variables have the types and values that they have in Go: folding in    *)
(* the compiler and execution agree, operands are converted, assignments   *)
(* happen in order, copies are made.                                       *)
ValuesAsInGo ==
  met \cap WrongConstructs = {} =>
    /\ types = go.types
    /\ \A x \in DOMAIN types : SameValue(types[x], go.variables[x], jvm.locals[x])

(* Arrays are values: no two variables, elements or parameters hold the    *)
(* same array object, while slices share theirs exactly when they do in    *)
(* Go.                                                                     *)
NoSharedArrays ==
  met \cap WrongConstructs = {} =>
    \A h, k \in AllHolders : h.identity = k.identity <=> h.object = k.object

(* The program panics when and only when it does in Go: an index is out of *)
(* range, a divisor is zero, and what && and || leave out does not panic.  *)
PanicsAsInGo == met \cap WrongConstructs = {} => panics \in {{}, {"Go", "JVM"}}

(* What the compiler translates is legal, up to what it does not check,    *)
(* and a legal statement is neither rejected nor the end of the compiler.  *)
VerdictAsInGo ==
  /\ stage = "accepted" => met \cap AcceptedConstructs # {}
  /\ stage \in {"rejected", "crashed"} /\ legal => met \cap RejectedConstructs # {}
=============================================================================
