------------------------------ MODULE LocalSlots ------------------------------
(***************************************************************************)
(* The local variables of a function, seen by everybody who gives names a  *)
(* meaning: the analysis of types (src/semantic/types_visitor.cpp), which  *)
(* resolves names and counts variables; the code generator                 *)
(* (src/codegen/codegen.cpp), which resolves them again and numbers them;  *)
(* the JVM, which has a frame of as many places as the analysis counted;   *)
(* and Go, the reference.                                                  *)
(*                                                                         *)
(* The function is built one statement at a time.  The compiler really     *)
(* analyses the whole tree before it generates code, but both walks take   *)
(* the statements in the same order and meet in two places only: the types *)
(* that the analysis leaves in the tree, and the number of variables.  So  *)
(* each action is one statement in all four, and the number is used when   *)
(* the function ends.  Blocks are plain ones: control flow is the subject  *)
(* of CompiledProgram.                                                     *)
(***************************************************************************)
EXTENDS GoScopes, FiniteSets

CONSTANTS
  ParameterLists,  (* sequences of [id, type]                              *)
  SlotLimit,       (* how many slots the operand of a load can tell apart  *)
  MaxStatements,   (* bound on the statements of a function                *)
  PairValues       (* bound on the values of declarations with two names   *)

ASSUME SlotLimitAssumption == SlotLimit \in Nat \ {0}
ASSUME MaxStatementsAssumption == MaxStatements \in Nat
ASSUME NamesAssumption == \A ps \in ParameterLists : ps \in Seq([id : Names \cup {Blank}, type : Types])
ASSUME TypesAssumption ==
  /\ NoType \notin Types /\ Unset.type \notin Types
  /\ \A v \in Literals : v.type \in Types
  /\ \A i \in DOMAIN Fields : Fields[i].value.type \in Types
ASSUME PairValuesAssumption == \A es \in PairValues : es \in Seq(Expressions) /\ Len(es) = 2

VARIABLES
  stage,      (* "signature", "body", "done" or "rejected"                 *)
  parameters, (* of the function                                           *)
  statements, (* how many statements the function has so far               *)
  analysis,   (* TypesVisitor: scopesDeclarations, numberLocalVariables    *)
  generator,  (* Generator: context, indexCurrentLocalVariable             *)
  jvm         (* the frame and the static fields, how much of the frame is *)
              (* needed, and whether the class is refused                  *)

vars == <<stage, parameters, statements, analysis, generator, jvm, go>>

-----------------------------------------------------------------------------
(* TypesVisitor.                                                           *)

VariableEntity(type, isConst, isArgument) ==
  [type |-> type, isConst |-> isConst, isArgument |-> isArgument, used |-> FALSE]

Resolves(a, es) == \A x \in ReadBy(es) : Declares(a.scopesDeclarations, x)

ExpressionType(a, e) ==
  IF e.kind = "literal" THEN e.value.type ELSE find(a.scopesDeclarations, e.name).type

(* Mutant: only variables of the last scope are marked. *)
UseLast(scopes, es) ==
  [d \in DOMAIN scopes |->
    [x \in DOMAIN scopes[d] |->
      IF x \in ReadBy(es) /\ Len(scopes) = d
        THEN [scopes[d][x] EXCEPT !.used = TRUE] ELSE scopes[d][x]]]

(* Every variable that is read counts as used. *)
Use(scopes, es) ==
  [d \in DOMAIN scopes |->
    [x \in DOMAIN scopes[d] |->
      IF x \in ReadBy(es) /\ Innermost(scopes, x) = d
        THEN [scopes[d][x] EXCEPT !.used = TRUE] ELSE scopes[d][x]]]

Visited(a, es) == [a EXCEPT !.scopesDeclarations = Use(@, es)]

(* Mutant: a name that its scope has already is not counted again. *)
CountNew(a, ids) ==
  [a EXCEPT !.numberLocalVariables =
     @ + Cardinality({i \in Added(ids) : ids[i] \notin DOMAIN LastScope(a.scopesDeclarations)})]

Count(a, ids) == [a EXCEPT !.numberLocalVariables = @ + Cardinality(Added(ids))]

Entered(a, ids, types, isConst) ==
  [a EXCEPT !.scopesDeclarations =
     addAll(@, ids, [i \in DOMAIN ids |-> VariableEntity(types[i], isConst, FALSE)])]

(* The types of the variables of a declaration: the declared one, or those *)
(* of the values. *)
DeclaredTypes(a, ids, type, es) ==
  [i \in DOMAIN ids |-> IF type # NoType THEN type ELSE ExpressionType(a, es[i])]

Redeclares(a, ids) ==
  \E i \in DOMAIN ids :
    \/ ids[i] \in DOMAIN LastScope(a.scopesDeclarations)
    \/ ids[i] # Blank /\ \E j \in 1 .. (i - 1) : ids[j] = ids[i]

(* A constant's value is a literal or a constant (ConstExpressionVisitor). *)
ConstExpression(a, e) ==
  e.kind = "read" => find(a.scopesDeclarations, e.name).isConst

VariableErrors(a, ids, type, es, isConst) ==
  \/ ~Resolves(a, es)
  \/ Redeclares(a, ids)
  \/ type # NoType /\ \E i \in DOMAIN es : ExpressionType(a, es[i]) # type
  \/ isConst /\ \E i \in DOMAIN es : ~ConstExpression(a, es[i])

AnalyseVariable(a, ids, type, es, isConst) ==
  Entered(Count(Visited(a, es), ids), ids, DeclaredTypes(a, ids, type, es), isConst)

(* A short declaration replaces the variables its own scope has already.   *)
AnalyseShort(a, ids, es) ==
  Entered(Count(Visited(a, es), ids), ids, DeclaredTypes(a, ids, NoType, es), FALSE)

AssignmentErrors(a, x, e) ==
  \/ ~Resolves(a, <<e>>)
  \/ /\ x # Blank
     /\ \/ ~Declares(a.scopesDeclarations, x)
        \/ find(a.scopesDeclarations, x).isConst
        \/ find(a.scopesDeclarations, x).type # ExpressionType(a, e)

(* Mutant: the last scope is popped without a look at it. *)
NoUnusedErrors(a) == FALSE

UnusedErrors(a) ==
  LET scope == LastScope(a.scopesDeclarations)
  IN  \E x \in DOMAIN scope : ~scope[x].used /\ ~scope[x].isArgument /\ ~scope[x].isConst

(* Arguments share the scope of the body, and all of them are counted. *)
AnalyseArguments(a, ps) ==
  [scopesDeclarations   |-> addAll(pushScope(a.scopesDeclarations), Ids(ps),
                                   [i \in DOMAIN ps |-> VariableEntity(ps[i].type, FALSE, TRUE)]),
   numberLocalVariables |-> Len(ps)]

-----------------------------------------------------------------------------
(* Generator.  RefConstant: the slot of a local variable, or the place of  *)
(* a field.                                                                *)
RefConstant(index, isLocal) == [index |-> index, isLocal |-> isLocal]

(* Mutant: a scope numbers its variables from the beginning, as if slots   *)
(* were given back.                                                        *)
NumberInScope(g, ids) ==
  [context |-> addAll(g.context, ids,
     [i \in DOMAIN ids |-> RefConstant(Cardinality(DOMAIN LastScope(g.context)) + i - 1, TRUE)]),
   indexCurrentLocalVariable |-> g.indexCurrentLocalVariable + Cardinality(Added(ids))]

(* Mutant: the blank identifier takes a slot. *)
NumberBlank(g, ids) ==
  [context |-> addAll(g.context, ids,
     [i \in DOMAIN ids |-> RefConstant(g.indexCurrentLocalVariable + i - 1, TRUE)]),
   indexCurrentLocalVariable |-> g.indexCurrentLocalVariable + Len(ids)]

(* A name that is added takes the next slot, also if its scope has it.     *)
Number(g, ids) ==
  [context |-> addAll(g.context, ids,
     [i \in DOMAIN ids |->
       RefConstant(g.indexCurrentLocalVariable + Cardinality({j \in Added(ids) : j < i}), TRUE)]),
   indexCurrentLocalVariable |-> g.indexCurrentLocalVariable + Cardinality(Added(ids))]

(* Mutant: the body shares the scope of the arguments, as in the analysis. *)
GenerateArgumentsOnly(g, ps) ==
  Number([g EXCEPT !.context = pushScope(@), !.indexCurrentLocalVariable = 0], Ids(ps))

(* The arguments have a scope of their own, and so has the body.           *)
GenerateArguments(g, ps) ==
  LET h == Number([g EXCEPT !.context = pushScope(@), !.indexCurrentLocalVariable = 0], Ids(ps))
  IN  [h EXCEPT !.context = pushScope(@)]

(* The operand of a load or store is the last byte of the index. *)
Slot(ref) == ref.index % SlotLimit

-----------------------------------------------------------------------------
(* External: the JVM executes what the generator emits for a statement.  A *)
(* frame is given its arguments in the order of the descriptor.  The       *)
(* verifier refuses a load whose slot does not hold the type of the load.  *)

(* The value that the code of e pushes, with the context of g and the type *)
(* that the analysis a found for e.                                        *)
Pushed(m, g, a, e) ==
  IF e.kind = "literal" THEN e.value
  ELSE LET ref == find(g.context, e.name)
       IN  IF ~ref.isLocal THEN m.statics[ref.index]
           ELSE IF m.locals[Slot(ref)].type = ExpressionType(a, e)
                  THEN m.locals[Slot(ref)] ELSE Unset

(* The places of the frame that an access to a name needs. *)
Places(g, x) ==
  LET ref == find(g.context, x) IN IF ref.isLocal THEN Slot(ref) + 1 ELSE 0

Touches(m, places) == [m EXCEPT !.places = IF places > @ THEN places ELSE @]

Loads(m, g, a, e) ==
  IF e.kind = "literal" THEN m
  ELSE Touches([m EXCEPT !.refused = (@ \/ Pushed(m, g, a, e) = Unset)], Places(g, e.name))

Stores(m, g, x, v) ==
  IF x = Blank THEN m
  ELSE LET ref == find(g.context, x)
       IN  IF ref.isLocal THEN Touches([m EXCEPT !.locals[Slot(ref)] = v], Places(g, x))
                          ELSE [m EXCEPT !.statics[ref.index] = v]

(* Each value is evaluated and stored before the next one is evaluated;    *)
(* a declaration has one value, two, or none.                              *)
Initialised(m, g, a, x, e) == Stores(Loads(m, g, a, e), g, x, Pushed(m, g, a, e))

Initialises(m, g, a, ids, es) ==
  CASE Len(es) = 0 -> m
    [] Len(es) = 1 -> Initialised(m, g, a, ids[1], es[1])
    [] Len(es) = 2 -> Initialised(Initialised(m, g, a, ids[1], es[1]), g, a, ids[2], es[2])

Called(m, ps) ==
  [m EXCEPT !.locals = [s \in DOMAIN @ |-> IF s < Len(ps) THEN Argument(ps, s + 1) ELSE Unset],
            !.places = Len(ps)]

-----------------------------------------------------------------------------
(* The function, statement by statement.                                   *)

Init ==
  /\ stage = "signature"
  /\ parameters = <<>>
  /\ statements = 0
  /\ analysis = [scopesDeclarations |->
                   <<[x \in FieldIds |->
                       VariableEntity(Fields[FieldIndex(x)].value.type, FALSE, FALSE)]>>,
                 numberLocalVariables |-> 0]
  /\ generator = [context |->
                    <<[x \in FieldIds |->
                        RefConstant(FieldIndex(x), FALSE)]>>,
                  indexCurrentLocalVariable |-> 0]
  /\ jvm = [locals |-> [s \in 0 .. (SlotLimit - 1) |-> Unset],
            statics |-> [i \in DOMAIN Fields |-> Fields[i].value],
            places |-> 0, refused |-> FALSE]
  /\ GoInit

(* Errors are only ever added, so the first one decides.                   *)
Rejected ==
  /\ stage' = "rejected"
  /\ UNCHANGED <<parameters, statements, analysis, generator, jvm>>

Goes(moreStatements) ==
  /\ stage' = stage
  /\ parameters' = parameters
  /\ statements' = statements + moreStatements

Begin(ps) ==
  /\ stage = "signature"
  /\ stage' = "body" /\ parameters' = ps /\ statements' = statements
  /\ analysis' = AnalyseArguments(analysis, ps)
  /\ generator' = GenerateArguments(generator, ps)
  /\ jvm' = Called(jvm, ps)
  /\ go' = GoArguments(ps)

(* Bound: a function that has broken a rule and was not rejected is given  *)
(* no more statements but uses of its variables; it can still end.         *)
InBody == stage = "body" /\ statements < MaxStatements
Unbroken == InBody /\ go.broken = {}

Declare(ids, type, es, isConst) ==
  /\ Unbroken
  /\ go' = GoDeclaration(ids, type, es, isConst)
  /\ IF VariableErrors(analysis, ids, type, es, isConst) THEN Rejected
     ELSE LET g == Number(generator, ids)
          IN  /\ Goes(1)
              /\ analysis' = AnalyseVariable(analysis, ids, type, es, isConst)
              /\ generator' = g
              /\ jvm' = Initialises(jvm, g, analysis, ids, es)

ShortDeclare(ids, es) ==
  /\ Unbroken
  /\ go' = GoShort(ids, es)
  /\ IF ~Resolves(analysis, es) THEN Rejected
     ELSE LET g == Number(generator, ids)
          IN  /\ Goes(1)
              /\ analysis' = AnalyseShort(analysis, ids, es)
              /\ generator' = g
              /\ jvm' = Initialises(jvm, g, analysis, ids, es)

Assign(x, e) ==
  /\ Unbroken
  /\ go' = GoAssignment(x, e)
  /\ IF AssignmentErrors(analysis, x, e) THEN Rejected
     ELSE /\ Goes(1)
          /\ analysis' = Visited(analysis, <<e>>)
          /\ generator' = generator
          /\ jvm' = Initialised(jvm, generator, analysis, x, e)

(* A statement that only reads a variable, such as a call of print. *)
UseVariable(e) ==
  /\ InBody
  /\ go' = GoUse(e)
  /\ IF ~Resolves(analysis, <<e>>) THEN Rejected
     ELSE /\ Goes(1)
          /\ analysis' = Visited(analysis, <<e>>)
          /\ generator' = generator
          /\ jvm' = Loads(jvm, generator, analysis, e)

OpenBlock ==
  /\ Unbroken
  /\ Goes(1)
  /\ analysis' = [analysis EXCEPT !.scopesDeclarations = pushScope(@)]
  /\ generator' = [generator EXCEPT !.context = pushScope(@)]
  /\ jvm' = jvm
  /\ go' = GoOpen

CloseBlock ==
  /\ stage = "body" /\ Len(analysis.scopesDeclarations) > 2
  /\ go' = GoClose
  /\ IF UnusedErrors(analysis) THEN Rejected
     ELSE /\ Goes(0)
          /\ analysis' = [analysis EXCEPT !.scopesDeclarations = popScope(@)]
          /\ generator' = [generator EXCEPT !.context = popScope(@)]
          /\ jvm' = jvm

(* The end of the function: its number of local variables is known.        *)
Finish ==
  /\ stage = "body" /\ Len(analysis.scopesDeclarations) = 2
  /\ go' = GoClose
  /\ IF UnusedErrors(analysis) THEN Rejected
     ELSE /\ stage' = "done"
          /\ analysis' = [analysis EXCEPT !.scopesDeclarations = popScope(@)]
          /\ generator' = [generator EXCEPT !.context = popScope(popScope(@))]
          /\ jvm' = [jvm EXCEPT !.refused = (@ \/ jvm.places > analysis.numberLocalVariables)]
          /\ UNCHANGED <<parameters, statements>>

Targets == Names \cup {Blank}

(* Declarations have one name, or two, with or without a type, and may be  *)
(* constants if they have one.                                             *)
Next ==
  \/ \E ps \in ParameterLists : Begin(ps)
  \/ \E x \in Targets, e \in Expressions :
       \/ \E type \in Types \cup {NoType} : Declare(<<x>>, type, <<e>>, FALSE)
       \/ Declare(<<x>>, NoType, <<e>>, TRUE)
       \/ ShortDeclare(<<x>>, <<e>>)
  \/ \E x, y \in Targets, es \in PairValues :
       Declare(<<x, y>>, NoType, es, FALSE) \/ ShortDeclare(<<x, y>>, es)
  \/ \E x \in Targets, type \in Types : Declare(<<x>>, type, <<>>, FALSE)
  \/ \E x \in ProgramIds \cup {Blank}, e \in Expressions : Assign(x, e)
  \/ \E e \in Expressions : UseVariable(e)
  \/ OpenBlock \/ CloseBlock \/ Finish

Spec == Init /\ [][Next]_vars

-----------------------------------------------------------------------------
(* The type invariant.  The generator has one scope more than the analysis *)
(* has, since the body's is apart from that of the arguments.              *)
TypeOK ==
  /\ stage \in {"signature", "body", "done", "rejected"}
  /\ statements \in 0 .. MaxStatements
  /\ analysis.numberLocalVariables \in Nat
  /\ generator.indexCurrentLocalVariable \in Nat
  /\ stage = "body" =>
       Len(generator.context) = Len(analysis.scopesDeclarations) + 1

LocalRefs(scope) == {x \in DOMAIN scope : scope[x].isLocal}

(* The frame that the analysis asks for is large enough for every slot     *)
(* that the generator has given to a name, or will give it next.           *)
LocalsFit ==
  stage = "body" =>
    /\ generator.indexCurrentLocalVariable <= analysis.numberLocalVariables
    /\ \A d \in DOMAIN generator.context : \A x \in LocalRefs(generator.context[d]) :
         generator.context[d][x].index < generator.indexCurrentLocalVariable

(* As long as operands can tell the slots apart, no two declarations that  *)
(* are in scope share a slot, also if one of them hides the other.         *)
NoSharedSlot ==
  stage = "body" /\ analysis.numberLocalVariables <= SlotLimit =>
    LET context == generator.context
    IN  \A c, d \in DOMAIN context :
          \A x \in LocalRefs(context[c]), y \in LocalRefs(context[d]) :
            Slot(context[c][x]) = Slot(context[d][y]) => c = d /\ x = y

(* What the code generator does not handle: a named parameter after a      *)
(* blank one, a variable that is read before anything was assigned to it,  *)
(* a declaration whose values read a name that it declares, and more       *)
(* variables than an operand can number.                                   *)
Handled ==
  /\ go.broken = {}
  /\ go.met \cap {"blank parameter", "reads zero", "reads itself"} = {}
  /\ analysis.numberLocalVariables <= SlotLimit

(* The JVM accepts the code: every load finds a value of the type that the *)
(* analysis gave to the name, in the slot that the generator gave to it.   *)
NeverRefused == stage = "done" /\ Handled => ~jvm.refused

(* Whatever a legal function declares can be read, with or without a value,*)
(* from a variable that it hides, and after a blank parameter: README.md:56*)
(* has variables, short declarations and the blank identifier implemented. *)
DeclaredIsReadable == stage = "done" /\ go.broken = {} => ~jvm.refused

(* What Go reads from a name is what the code reads: however blocks nest   *)
(* and names are hidden, analysis, generator and Go mean the same variable *)
(* by a name.                                                              *)
ReadsAsInGo ==
  stage = "body" /\ Handled =>
    \A x \in ProgramIds :
      Visible(x) # {} /\ GoVariable(x).value.value # "zero"
        => Pushed(jvm, generator, analysis, Read(x)) = GoVariable(x).value

(* Accepted functions obey the rules on declarations, up to four that the  *)
(* compiler does not check: a short declaration declares something, and    *)
(* fits the variables that it assigns to; a list of parameters, or of a    *)
(* short declaration, has no name twice.                                   *)
AcceptsOnlyLegal ==
  stage = "done" => go.broken \subseteq {"nothing new", "reassigned", "repeated", "repeated parameter"}

(* A legal function is accepted, unless a short declaration assigns to a   *)
(* variable: the compiler forgets what it knew of it, and that it was used.*)
RejectsOnlyIllegal ==
  stage = "rejected" => go.broken # {} \/ "redeclares" \in go.met
=============================================================================
