# A verification development for JGolangCompiler

JGolangCompiler translates a subset of Go to a JVM class file.  This directory
holds TLA+ modules translated from its C++ sources, TLC configurations that
check them on small instances, and proofs for TLAPS.  References such as
`codegen.cpp:1388` are to files below `src/` of the repository.

Contents: [the system](#the-system), [the modules](#the-modules),
[the runs](#the-runs), [bounds](#bounds-and-why-they-are-enough),
[fairness and deadlock](#fairness-and-deadlock), [proofs](#what-is-proved),
[findings](#where-the-code-disagrees-with-its-documents),
[limits](#what-is-not-modelled), [plan](#plan).

## The system

One process, one thread, one pass over one source file (`main.cpp:10-49`):

    file -> Scanner -> Parser -> AST
         -> StatementsVisitor     lowering; stop at errors
         -> PrecalculateVisitor   constant folding
         -> analyzePackageScope   main exists and returns nothing; stop at errors
         -> createPackageClass    one ClassEntity "$" + package name
         -> TypesVisitor          names and types; stop at errors
         -> CreateDotFile (always) -> Generator.generate (if there were no errors)

The passes share the AST, which each of them rewrites in place, and one
`ClassEntity`.  There is no concurrency.  What makes the code hard is state that
is threaded through a traversal (stacks, flags, counters, scopes), code that is
patched after it was emitted, two unordered maps that are iterated several
times, and evaluation orders that C++ leaves open.

| Component | State | Operations | Talks to | Correct when |
|---|---|---|---|---|
| Scanner (`lexer/`) | start-condition stack, literal buffers, location | one action per token rule | called by the parser | semicolons are inserted where Go inserts them |
| Parser, Driver (`parser/`) | Bison's stack; lists of errors | grammar actions build the AST | scanner, AST | a tree only for programs of the grammar |
| StatementsVisitor (`semantic/statements_visitor.cpp`) | `nextIterationsLoops`, `insideSwitchCaseClause`, errors | `onStartVisit`/`onFinishVisit` per node, `transform*`, `checkReturnStatements` | rewrites the AST in place | meaning is preserved; exactly the misplaced keywords and missing returns are reported |
| PrecalculateVisitor | none between nodes | fold unary and binary expressions | rewrites the AST | folding equals evaluation at run time |
| Semantic (`semantic/semantic.cpp`) | errors, `indexBlankVariable` | `analyzePackageScope`, `createPackageClass`, `analyze` | fills ClassEntity | legal packages accepted, whatever the order of the maps |
| TypesVisitor | `scopesDeclarations`, `idsConstants`, `numberLocalVariables`, current method | analysis of fields, then methods | reads and retypes ClassEntity | a field is only read by initialisers that run after it |
| ConstantPool (`codegen/constant.cpp`) | `pool` | `FindOrCreate*` | asked by the generator | indices stay valid; entries resolve; no duplicates |
| Generator (`codegen/codegen.cpp`) | `constantPool`, `context`, `indexCurrentLocalVariable`, current method | pool filling; fields, methods, static initialiser; one `generate` per node; replacement of fillers | pool, ClassEntity | the class verifies, and behaves as the Go program |
| `$Base.java` (`RTL/`) | none | print, len, comparison, input | called by generated code | as Go's built-ins |
| Pipeline (`main.cpp`) | output files | the order above | all | an error leaves no class file that looks current |
| AST, clone and dot visitors | none | traversal, deep copy, rendering | all passes | a clone equals its original |

Every place where the code is hard to test is listed in `PROJECT.json` under
`hazards`, at its line, with the properties that cover it or the reason why none
does yet.

## The modules

| Module | Models |
|---|---|
| `Interner` | the abstract promise of a constant pool: a growing table, one place per meaning |
| `ConstantPool` | `constant.cpp`: each `FindOrCreate*` is an action, and an operator that gives the set of outcomes, one per order in which C++ may evaluate the arguments of `Create*` |
| `ConstantPoolProofs` | the proofs about it |
| `GoSyntax` | statements and expressions of a function (`ast.h`) |
| `StatementsVisitor` | the lowering pass, in the traversal order of `ast.cpp` |
| `CodeGenerator` | code generation of methods, to the bytes, with the opcodes of `commands.h` |
| `Compiler` | the two passes above, one after the other, as `main.cpp` calls them |
| `GoSemantics` | external: the meaning of a Go function, as a small-step machine |
| `JVM` | external: the bytecode verifier and the instructions the code uses |
| `CompiledProgram` | compilation, loading, and execution of the code side by side with the source |
| `GoPackage` | package-level declarations (`ast.h`); external: which packages are legal, which are well typed, and the values of their variables |
| `Context` | `context.h`: the stack of scopes that the analysis and the generator each keep |
| `GoScopes` | external: variables and the rules on declarations in Go, with a stack of blocks whose innermost declaration of a name is the one that is meant |
| `LocalSlots` | local variables, seen by `types_visitor.cpp`, by `codegen.cpp`, by the frame of the JVM and by Go at once |
| `LocalSlotsProofs`, `ReadsProofs` | the proofs about it: slots and the rules on declarations; which variable is read |
| `Numbers` | external: integers with a width, floats without rounding |
| `Expressions` | expressions and their types (`ast.h`, `entities/type_entity.cpp`, `semantic/builtins.h`) |
| `Folding` | `precalculate_visitor.cpp` |
| `ExpressionTypes` | what `types_visitor.cpp` does with expressions |
| `ExpressionCode` | the instructions that `codegen.cpp` emits for expressions, assignments and arrays |
| `StackMachine` | external: the verifier and the interpreter for these instructions, with `RTL/$Base.java` |
| `GoExpressions` | external: constant expressions, types, values and panics in Go |
| `Values` | functions, statement by statement, through all of the above |
| `GoTokens` | external: the tokens of Go, as a machine over the pieces of a text |
| `Scanner` | `lexer.l` and `scanner.cpp`: one action per rule or group of rules |
| `Frontend` | `main.cpp`, `io.hpp`, `driver.cpp` and the writing of the class file, around `Scanner` |
| `FrontendProofs` | the proofs about it: runs and files; tokens |
| `PackageClass` | `semantic.cpp`, the package level of `types_visitor.cpp`, and the class file of `codegen.cpp` |
| `CompiledPackage` | the class file linked, verified and initialised by a JVM |
| `PackageProofs`, `InitialiserProofs`, `AnalysisProofs`, `LinkingProofs` | the proofs about it: the pool; types and the order of initialisation; which packages are accepted; what the indices of the class file lead to |
| `MC*` | instances for TLC |

**ConstantPool.**  `pool` is `ConstantPool::pool`, with 1-based indices as in the
C++ code; `answer` is a history variable, the last request with its index.
`Interned` is `std::find` followed by `push_back`; `Same` is `operator==`, with
floats compared by `==`, which the constant `FloatEq` stands for: the two zeros
are equal, and a NaN is not equal to itself.

**CompiledProgram.**  `program` is chosen initially.  `Compile` calls the
parameter `Compiled`, which `MCCompiler` instantiates with `Compiler!Compilation`.
`LoadClass` verifies the code by type inference: every path lands on an
instruction, the depth of the stack is the same on all paths to an address,
every local variable is set before it is read.  Then the machine executes one
instruction per action (`ExecuteGoto`, `ExecuteCall`, ...), and the source program
takes its silent steps (`SourceStep`).  Source and code meet at calls and at the
return: the code makes a call, and it must be one that the source is about to
make, with the same arguments; both get the same answer, chosen from `Answers`.
Otherwise `phase` becomes `"diverged"`.  The state of the compiler's passes (the
stack of loop steps, the flag for case clauses, the scopes of the context, the
next free slot) is threaded through the operators `Visit` and `Generate` as the
records `v` and `g`, since nothing else observes it between two calls.

**PackageClass.**  `stage` and `next` are the program counter: the stage is the
function of the code that runs, `next` the position in the map it iterates over.
A `std::unordered_map` is the sequence of its entries in iteration order;
`TryEmplace` puts a new entry where libstdc++ does, at the front of its bucket,
or of the whole list if the bucket is empty.  The order is then the same each
time the map is iterated, as it is in the code, and depends on `hash`, which is
chosen initially.  Pool requests are made by the operators of `ConstantPool`,
`INSTANCE`d over this module's pool: the properties of the pool are checked
again under the requests the generator really makes.  `file` first holds the tail of the
class file; `WriteClassFile` puts the pool in front of it.

**CompiledPackage** adds `statics`, `frames` and `written`.  `Load` resolves every
index of the file and links every reference (`Resolvable`), and verifies every method by
type inference, as the JVM does for classes of version 49 (`codegen.cpp:199`): each instruction takes operands of its
types from the stack, and the last one returns a value of the type of the method (`Verifies`).  `Push`, `GetStatic`, `PutStatic`,
`Add`, `Invoke`, `ReturnValue` and `Return` execute `<clinit>` and what it calls.

**LocalSlots** builds a function, one statement per action: `Declare`,
`ShortDeclare`, `Assign`, `UseVariable`, `OpenBlock`, `CloseBlock`, `Finish`.  Each
action takes the statement in four records at once: `analysis` (the scopes and the
counter of `TypesVisitor`), `generator` (the scopes and the counter of
`Generator`), `jvm` (the frame), and `go` (which variable Go means by a name, what
it holds, which rules were broken).  The two walks of the compiler meet only in
the types and in the number of local variables; the first is read by `Pushed`, the
second in `Finish`.

**Values** takes a statement (a declaration, an assignment of one or more values,
`+=`, `x++`, a call, a return) through `Fold`, `Analyse` and `Generate`, verifies
the instructions with the types of operands (`Verify`), executes them (`Execute`),
and executes the statement as Go does (`GoValue`, `SetTarget`).  `types`, `go` and
`jvm` hold the variables of each side; the `heap` of the JVM holds the arrays, so that
two variables can share one.  Where the compiler is known to differ, the construct is
named in `met` (`Constructs`, `StatementConstructs`), and a property exempts what a named
construct leads to, once it was met; that is the list of what the code gets wrong,
and every name in it is needed.

**Frontend** is the compiler as a process that runs `MaxRuns` times in a
directory.  The text is not fixed in advance: `ReadPiece` chooses the next piece
when the scanner stands at the end of what was read, and gives it to a scanner of
Go too (`go`, `ahead`).  `Scan` applies one rule of `lexer.l`: `condition` and `stack` are
flex's start condition and the stack of `yy_push_state`, and `inLine` says that the
rule of `//` is taking characters.  The parser takes a token (`Shift`, `Accept`,
`SyntaxError`, `ScannerFails`), then `DriverReturns`, `CheckResult`, `Analyse`,
`CreateDotFile`, `OpenClassFile`, ..., `CloseClassFile` are the steps of `main` and
`Generator::generate`.  `Overflow` is the stream that writes its buffer at any moment, or
cannot; `Kill` ends the process at any moment; what is left is `classFile`.  The
grammar is not here: an error may come at every token, with or without the root
having been set by a default reduction (`parser.y:106`).

A definition whose comment begins with "Mutant:" is a plausible bug in the definition
that follows it.  It is used in no specification; `PROJECT.json` pairs it with
the property that fails when it takes the place of the original.

## The runs

| Run | Distinct states | Shows |
|---|---|---|
| `constant_pool` | 63,209 | under every sequence of requests and every order of evaluation the pool resolves backwards (`PoolResolves`), has no duplicates (`PoolUnique`), answers with what was asked for (`AnswerDenotes`), never moves an entry (`IndicesStable`) and implements `Interner` (`ImplementsInterner`) |
| `control_flow` | 192,829 | 1,678 functions, with range loops of every form and the five compound assignments: accepted code verifies (`NeverRefused`), makes the calls of the source with the same arguments and returns the same (`SameBehaviour`), does not spin (`Progress`); the diagnostics are sound and complete (`RejectsOnlyIllegal`, `AcceptsOnlyLegal`) |
| `package` | 111,228 | 223 packages under two hash functions: the pool is sound (`PoolSound`), the class file of a legal package links (`ReferencesResolve`), that of a well typed one is verified (`NeverRefused`), acceptance is right and does not depend on the map's order (`AcceptsOnlyLegal`, `AcceptsIndependent`), and `<clinit>` computes Go's values (`WrittenBeforeRead`, `ValuesAsInGo`) |
| `local_slots` | 532,314 | functions of up to four statements: the analysis asks for a frame that is large enough (`LocalsFit`), no two names in scope share a slot (`NoSharedSlot`), every load finds a set slot of its type (`NeverRefused`), analysis, generator, JVM and Go mean the same variable by a name (`ReadsAsInGo`), and the rules on declarations are kept (`AcceptsOnlyLegal`, `RejectsOnlyIllegal`) |
| `values` | 9,181 | six families of statements over numbers, strings, arrays, arrays of arrays and slices: operands have the types of their commands (`NeverRefused`), variables have the values of Go (`ValuesAsInGo`), arrays are copied and slices are not (`NoSharedArrays`), panics happen when they do in Go (`PanicsAsInGo`), verdicts are right (`VerdictAsInGo`) |
| `frontend` | 241,670 | every text of up to five pieces in two runs: the tokens are those of Go (`TokensAsInGo`), the scanner fails only where Go does (`RejectsOnlyIllegal`), the driver returns a tree only for a text read to its end (`AcceptsOnlyLegal`), the class file after exit status 0 is that of the run (`WholeClassFile`), no run with errors changes the one of an earlier run (`KeepsClassFile`), every run ends (`Terminates`) |
| `declared_readable`, `filler_collision`, `compound_step`, `nested_switch_break`, `initialised_in_order`, `float_fields` | until the violation | one violation each, see the findings |

The properties of `package` carry exceptions, and these are limits of the code,
not of the model.  `AcceptsOnlyLegal` admits four rules the compiler does not
check: the number of values of a declaration, a variable and a function of one
name, a dependency cycle that passes through a function, and an initialiser that calls a function
without a result; and it says nothing of packages that read a function as a value, which
`GoPackage` leaves out.  `AcceptsIndependent`, that a legal and well typed package is accepted,
is claimed only where no initialiser reads a variable, because otherwise the order of the
map really does decide; where every variable that is read is initialised, since a field without a value never
enters the scope of the analysis; and where at most one function is named `_`.  Each of these exceptions, and
`WellTyped`, was taken out once, and the property was then violated.  `NeverRefused` is
claimed of packages that are legal and well typed, and in which Go converts no integer to a float other than a
literal next to a float (`TypedWithoutConversion`): elsewhere an expression of untyped integers keeps the type `int`
in the class file, also as the value of a field that was declared `float64` (run `float_fields`), and the JVM refuses
what uses it as a float.  `ValuesAsInGo` is claimed only where the functions that
initialisers call read no variables.  Everything outside the exceptions is
checked without them.

In the same way the programs of `control_flow` leave out constructions that the
compiler gets wrong; three of these have a run of their own, with the same
specification and the same properties, that shows the violation, and the others are
in the list of [what was met without a run](#met-without-a-run-of-its-own).

The properties of `local_slots`, `values` and `frontend` name their exceptions
in the module: `Handled` and the sets of `AcceptsOnlyLegal` and
`RejectsOnlyIllegal` in `LocalSlots`, the four sets `RefusedConstructs`, ...,
`AcceptedConstructs` in `Values`, the constructs of `Frontend`.  Each of them was
taken out once, and the property was then violated.

## Bounds, and why they are enough

* `MaxPool = 5`: no request starts when the pool has five entries.  Over two
  strings a method reference adds up to five entries, so pools of up to nine occur.  Two strings
  are enough for every coincidence between class, name and descriptor; one
  integer, the two zeros and a NaN for every outcome of `operator==`.
* `Array = <<4, 3>>`, `TagValue = 0`: loops run zero (by leaving at once), one and
  two rounds, and elements differ from their indices.  `Answers = {0, 1}`: a call answers true or false.  A call is
  asked afresh in each round, so loops on answers have behaviours of any length.
* The programs: every condition of depth two over two calls; each kind of loop
  with each exit, at the top of the body and within branches; loops nested two
  deep; range loops with no, one and two variables, declared or assigned, blank or not, and with those
  that are errors; switches of up to three clauses with the default in each place and four
  endings, alone, in loops and around loops and switches; terminating statements
  of functions with a result.  Offsets depend on lengths of the parts only, and
  each formula has at most three parts.  What this leaves out is code of more
  than 32767 bytes and more than 256 local variables.
* The packages: up to three variables, one function and `main`; every dependency
  among them, one and two buckets for the variables, so that both insertion rules
  of the map occur; a function of each type over a variable of each, whether they agree or not, and sums of
  integers, floats and strings, so that every command for operands meets operands of every type.
* `local_slots`: two local names and a package variable, two types, five lists of
  parameters, four statements with blocks between them, so that a name can be declared
  in three nested scopes and hidden twice.  `SlotLimit = 3` stands for the 256
  numbers that an operand can have: functions reach it and go beyond.
* `values`: an int has four bits and a `long long` eight, so that both overflow with
  literals of two digits; floats are quarters and halves, infinities and NaN.
  `copies` and `grids` have sequences of three statements after their
  declarations: sharing of arrays that one statement causes needs a second to be
  used and a third to be seen.  The other families, in which a statement cannot
  depend on more than one before it, have one or two.
* `frontend`: texts of `MaxPieces = 5` pieces and a last newline reach every pair of start
  conditions and come back.  A text may have at most one of the named constructs,
  and ends after a difference, since the scanners need not agree again after
  it.  The run was also made with six pieces (about 808,000 states, no
  error).  `MaxPieces` bounds the two runs together; one string literal has at most
  `LongestString = 1` piece.  Two runs are enough for a class file to be there
  before a run starts, since a run does not know how many came before.

## Fairness and deadlock

`CompiledProgram` assumes `WF_vars(Run)`: the JVM's thread continues to execute
instructions, and nothing else competes with it.  Only `Progress` uses it.  No
fairness is assumed of `Compile` and `LoadClass`, nor of particular
instructions or answers: `Progress` says that the code reaches its next call, not
that the program ends.

`Frontend` assumes `WF_vars(Step)`: the compiler is one thread that does not wait for
anyone, so it is always able to take its next step and takes it, unless the process
is killed.  No fairness is assumed of `Kill` or `NextRun`.  Only `Terminates` uses it, which
also needs that a text ends (`MayFollow`).  The texts that never end are those of a source
that cannot be read, such as a directory: the loop of `io.hpp:21` waits for
an end of file that does not come, and `Terminates` exempts it by name
(`source # "unreadable"`).

The other specifications have no fairness.  Every configuration sets
`CHECK_DEADLOCK FALSE`, since programs, functions and runs of the compiler end, and
`MCConstantPool` because of `MaxPool`.

## What is proved

`ConstantPoolProofs`, for all sets of literals, every relation `FloatEq` and any
`MaxPool`, from one assumption, `FloatEqAssumption`: `==` on floats is symmetric
and transitive (not reflexive, because of NaN).

| Theorem | States |
|---|---|
| `TypeCorrect` | `Spec => []TypeOK` |
| `AlwaysResolves` | `Spec => []PoolResolves` |
| `NoDuplicates` | `Spec => []PoolUnique` |
| `AnswersCorrect` | `Spec => []AnswerDenotes` |
| `Stability` | `Spec => IndicesStable` |
| `Refinement` | `Spec => ImplementsInterner` |

The inductive invariant is that the pool is well typed, resolves, has no two
equal entries, and that the last answer leads to what was asked for.  None of
these is inductive alone: that a search finds the only candidate needs
uniqueness, and that an answer denotes its request needs entries to resolve.
The crux is an `Outcome` of a request, which says that the pool grew, that it is still
good, and that it gained entries *only of the kinds of the request and of its parts*.
The last clause is what carries a composite constant: it makes the parts
before it is searched for, and those cannot be equal to it because they are of other
kinds.  So a miss is a miss in the pool before the request as well, as the
abstract `Miss` demands.  Lemmas go bottom up: `Interned`, a leaf, a text, a
name-and-type from parts in either order, a reference from parts in either
order; then one step per request, for the invariant and for the refinement.

`LocalSlotsProofs`, for all names, package variables, literals, types, lists of parameters
and lengths of functions, from the assumptions of `LocalSlots`: there is at least
one slot (`SlotLimitAssumption`), and parameter lists are sequences of names and types
(`NamesAssumption`).

| Theorem | States |
|---|---|
| `TypeCorrect` | `Spec => []TypeOK` |
| `FrameIsLargeEnough` | `Spec => []LocalsFit` |
| `SlotsAreDistinct` | `Spec => []NoSharedSlot` |

The inductive invariant `Inv` says that the slots in the scopes of the generator
are different and below its counter (`Sound`), and that the counter is not above that of the
analysis (`Body`).  `LocalsFit` alone is not inductive: that the next slots are free
needs every slot in scope to be below the counter; `NoSharedSlot` alone is not either, since the
remainder that the operand keeps says nothing of the index until the count of the
analysis bounds it.  `Ranks` says that the names of one declaration get different slots, even
if one name is there twice; `NumberIsSound` is the step in which this matters.

Four more theorems compare the compiler with Go, for functions of any length
and any nesting of blocks, the first two in `LocalSlotsProofs` and the others in `ReadsProofs`.  They assume besides that literals, package variables and
declarations have types that are not the marks for "no type" and "unset"
(`TypesAssumption`), and that a statement with two values has two (`PairValuesAssumption`).

| Theorem | States |
|---|---|
| `AcceptedIsLegal` | `Spec => []AcceptsOnlyLegal` |
| `RejectedIsIllegal` | `Spec => []RejectsOnlyIllegal` |
| `ReadsTheSameVariable` | `Spec => []ReadsAsInGo` |
| `FunctionIsAccepted` | `Spec => []NeverRefused` |

The invariant of the first two is `Named`: the scopes of the analysis `Matches` the blocks of
Go, one for one, with the same names and the same types.  What the analysis knows of the
use of a variable is at most what Go knows, and exactly that (`Exact`) until a short
declaration assigns to an old variable; this is where `redeclares` is needed, and
nowhere else.  Rules of Go that the compiler does not check (`Lenient`) may be broken
on the way, and from then on nothing is claimed of the scopes.

The invariant of the other two is `Reading`, for functions that `Handled` admits.  The
generator has one scope more than Go has blocks, since parameters have one of their own
(`Level`); its scopes are those of the blocks (`Covers`), and every variable
has its value in the slot of its name, or nothing yet if it was declared without one
(`Holding`).  A short declaration that assigns to a parameter gives it a second slot,
which is then the one that counts (`Shown`).  The step that matters is a declaration: it takes slots above all those that
hold a variable in scope, so every other variable keeps what it has
(`NewSlots`, `DeclaredReadable`), and the slots of one statement differ
(`NewSlotsDiffer`).  The other is an assignment: the generator looks the name up in its own
scopes and must arrive at the declaration that Go means (`FindKept`, `SlotIs`), and no other
variable in scope has that slot, which is `Inv`.

`FrontendProofs`, for texts of any length and any number of runs, from the
assumption that `None` is not an exit status, a piece of text or a token (`NoneAssumption`).

| Theorem | States |
|---|---|
| `TypeCorrect` | `Spec => []TypeOK` |
| `WholeFileAfterSuccess` | `Spec => []WholeClassFile` |
| `EarlierFileIsKept` | `Spec => KeepsClassFile` |
| `TokensOfGo` | `Spec => []TokensAsInGo` |
| `FailsOnlyWhereGoDoes` | `Spec => []RejectsOnlyIllegal` |
| `TreeOnlyForLegal` | `Spec => []AcceptsOnlyLegal` |

`Conditional` says that the first start condition that was saved is `INITIAL`; without it
`yy_pop_state` might leave a condition that has nothing to go back to.  `Filed` says what
each stage has written: the file and the buffer of the stream together are what the stage
`Expected`, whatever the buffer has already written, as long as no call has failed;
and a stream is open only in a stage after an analysis without errors.

The last three need a relation between two scanners that do not move together: the one of
Go takes a piece of text at once, `lexer.l` may apply several rules to it, of which some
take nothing (`MatchEmpty`, `MatchAsterisk` after a slash).  `Settled(g)` says in which
start condition `lexer.l` is for a state `g` of Go's scanner.  While `lexer.l` has a piece
left, the scanner of Go is ahead; the invariant (`Agreement`) then says that there is a `g`
that is settled with `lexer.l` and from which Go's scanner comes where it is by taking
that piece (`Stands`), with the tokens that are still to be returned (`Ahead`).  It
holds until the first of the named constructs, and each theorem names only
those it needs: a failure of the scanner, and the end of the text, are unaffected by a missing
semicolon.

The four modules about `CompiledPackage`, for all packages, buckets and orders of evaluation, from two
assumptions on the constants: `Strings` has every text the compiler asks the pool for by itself
(`StringsAssumption`), and the packages are what the parser makes of a source
(`PackagesAssumption`): sequences of declarations of variables and functions, whose names are
identifiers of Go (so none is `<clinit>` or `$_0`), with literals that `Strings` and `Numbers`
have, where a variable has a type or a value, and a constant a value.  It also says that there are
blank names enough (`BlanksTo`).  Nothing is assumed of what the declarations mean: names may be declared
twice or nowhere, types may not agree.

| Theorem | Module | States |
|---|---|---|
| `PackagePoolSound` | `PackageProofs` | `Spec => []PoolSound` |
| `PackageTypeOK` | `InitialiserProofs` | `Spec => []TypeOK` |
| `InitialiserWrittenBeforeRead` | `InitialiserProofs` | `Spec => []WrittenBeforeRead` |
| `AcceptedPackageLegal` | `AnalysisProofs` | `Spec => []AcceptsOnlyLegal` |
| `LegalPackageAccepted` | `AnalysisProofs` | `Spec => []AcceptsIndependent` |
| `LegalPackageLinks` | `LinkingProofs` | `Spec => []ReferencesResolve` |

The lemmas of `ConstantPoolProofs` are `INSTANCE`d over the pool of the package, and each function of
the generator is shown to keep a pool `Good` and to let it grow (`Emits`, `Grown`): an operand,
an addition, an expression of any length (`ExpressionEmits`: the first operand at which it would
fail does not exist), a body, the names of a method.  The two classes that
`fillConstantPool` pushes without a search need an argument of their own (`HeadFilled`): the pool
has only texts before the first, and the second leads to another text than the first.
The invariant `IInv` adds that the loops over the maps are inside them and that the maps hold
what was requested; a map is never empty where a loop over it begins.

The next two theorems follow from `AllOK`, which has five more parts.  A field is read before
it is written if any of these links breaks:

* `AnalysisOK`: once the analysis has no errors, the initialiser of every field reads only
  functions and fields that come before it in the map (`ReadsKnown`).  An expression has a type only
  if all it reads was declared (`ReadsDeclared`), and a field is declared after its
  initialiser was analysed.
* `ContextOK`: when the generator starts, the context has the reference of every function
  (`Filled`), and the context and the order of the map do not change from then on.
* `ClinitOK`: every `getstatic` of the initialiser is preceded by a `putstatic` with the same
  index, unless it has the index of a method (`Covered`).  The exception is needed: at this point the
  proof does not know that a name that is read is a field.
* `FileOK`: the method of the file that is named `<clinit>` is that code, and every method ends
  with a return.
* `MachineOK`: every activation is at an instruction of a method of the class, all but the last at a
  call (`StackOK`), and the first, which is the static initialiser, has `written` the field of every
  `putstatic` before its next instruction (`BaseOK`).  Since the class was linked, a `getstatic` has the
  index of a field, and the exception of `ClinitOK` is void.

`WrittenBeforeRead` does not need the package to be legal in Go: whatever the analysis accepts is
initialised in order.  It does not cover a function that an initialiser calls, which may read
any field.

`AcceptedPackageLegal` and `LegalPackageLinks` are about packages in which nothing is wrong that the analysis does not look at
(`Plain`): that is where the exceptions of `AcceptsOnlyLegal` enter, and a legal package is
plain (`LegalIsPlain`).  The invariant is `AnalysedOK`:

* `MapsOK`: a map comprises what was requested so far, one entry per name, and *all* of it as long as no
  error was reported; the entries of an initialised field differ from its request in the type only.  So
  a package whose analysis ends without errors has declared no name twice.  That a map keeps
  its entries, when a new one is put into the middle of it, is `Emplaced` for the insertion of
  libstdc++.
* `ScopeOK`: the scope of the analysis has every function that was requested and every field
  that was analysed, with the types that the maps have for them, and nothing else.  A name
  that an initialiser without errors reads is then a field *before* it in the map, one that it
  calls is a function, and the type of a field, as the type of what a function prints, is one that
  has a descriptor.

`AcceptedPackageLegal` takes the rules of `Legal` one by one from this.  `Acyclic` is the
one with a turn: the set that has all that a variable depends on, and not the variable itself, is
the set of the fields before it in the map; the order of the map, which the code takes for the order of
declarations, is what excludes cycles.

`LegalPackageAccepted` is the converse: no step of the analysis of an `Acceptable` package reports an error
(`AcceptOK`), in whatever order the map has its fields.  It rests on three arguments:

* Names.  Two requests come from two places of the package (`Splits`), so a package that declares no
  name twice asks for none twice (`MethodsUnique`, `FieldsUnique`); blank variables get
  different names, since each counts one more than those before it (`BlanksCounted`).
* Types.  The types of the compiler follow those of Go from below: if Go converts all operands of a sum
  to a type, the type that the compiler finds for the sum converts to it as well (`SumConverts`,
  `ExpressionConverts`), and what converts is equal for `TypeEntity::equal` (`Converted`).  So it
  does no harm that `types_visitor.cpp:36` replaces the declared type of a field by that of its initialiser, here.
* Order.  Until its turn a field has the type that was asked for (`Fresh`), and from then on one that
  converts to its type in Go (`TypedField`).  Functions are analysed when all fields have had their turn, and
  the initialisers do not see other fields; this is where the theorem needs that they read no variables.

`LegalPackageLinks` is about every index in a class file.  Linking fails if a
reference leads to no member, a member is declared twice, or a descriptor is none; the members that
are referred to are in the heads of the class file, and the references in its codes, the
context and the pool, which were made by different functions at different times.  `LinkOK` holds them together:

* the context has, for every field and method whose turn it was in `fillConstantPool`, a reference
  in the pool of exactly its name and descriptor (`FieldsNamedTo`, `MethodsNamedTo`);
* the tail of the class file lists exactly the members whose turn it was, once each (`Lists`),
  where two entries differ if their names do, since the pool holds no text twice;
* every `getstatic`, `putstatic` and `invokestatic` of its codes is one of these references or one to a method of
  the library (`CodesLinked`), and every `ldc` leads to a constant;
* these facts hold of any pool that has `Grown`, so that each step needs an argument only
  about what it adds, and of the bytes that `WriteClassFile` puts in front (`TailLoads`).

So when the JVM loads the file everything that is referred to is declared (`WrittenLoads`).  That the
JVM then accepts the types of operands is not part of the theorem; `NeverRefused` is model-checked only.

Only model-checked: `CompiledProgram`, `Values`, `NeverRefused` and `ValuesAsInGo` of `CompiledPackage`, and liveness
(`Progress`, `Terminates`).  The passes over programs and expressions are recursive, and TLAPS
cannot reason about RECURSIVE operators or by induction over data; liveness
is out of its reach.  `ValuesAsInGo` is about `ValueOf`, a recursive function over the dependencies of a
variable, which exists only if the functions that are declared, called or not, do not call each other for ever; TLC
evaluates it where it is asked for.  `NeverRefused` is about the stack after each instruction of a sum of any length.

`AcceptedPackageLegal` says nothing of types: `Legal` has no rule on them, and the compiler does accept
packages that are not `WellTyped`, such as a function with result `int` that returns a variable
declared as `float` and initialised with `1`.

## Where the code disagrees with its documents

Each is a violation run; the quotation is in `PROJECT.json`.

* `filler_collision`: `codegen.cpp:1388` looks for the break filler in finished
  code.  A call of the method with pool index 251 (0xFB), then `break`, gives
  four bytes 0xFB in a row, and the wrong three become the jump.
* `compound_step`: the step of `for ...; i += 1` is appended after the body was
  visited (`statements_visitor.cpp:35`), stays a compound assignment, and has no
  code.
* `nested_switch_break`: `insideSwitchCaseClause` is reset by an inner switch
  (`statements_visitor.cpp:337`); a `break` after it is rejected.
* `initialised_in_order`: `types_visitor.cpp:16` promises the order of
  declarations; the order is that of an unordered map.
* `float_fields`: `types_visitor.cpp:36` replaces the declared type of a field by that of
  its initialiser; `var a float64 = 1` is an `int` field, and `func f() float64 { return a }`
  is refused by the JVM.
* `declared_readable`: three ways to declare a variable that the JVM then finds unset, or in a slot of another type.  A
  parameter after a blank one is read from the slot before its own, since `Context::add` takes no blank name
  (`codegen.cpp:397`); this is what TLC finds first.  A variable without a value gets a slot and no
  store (`codegen.cpp:1110`).  The names of a declaration are added before its values are generated
  (`codegen.cpp:1119`), so `x := x` in an inner block reads the new variable.  `DeclaredIsReadable` is
  `NeverRefused` without the exceptions for these.

### Met without a run of its own

These are the exceptions of the properties above, and what the programs of the
runs leave out.

* Loops: the step of `for` is appended to the body's own scope, so a body that
  declares the loop variable again has its own variable incremented; the variables of a range loop are put
  into the block of its body (`statements_visitor.cpp:139`), so that the body cannot declare their names again; the expression
  of a range loop is evaluated again in every round (`statements_visitor.cpp:108`), so that a body that changes the
  array changes the loop; `for x, x = range a` and `for i, a := range a` mean something else than in Go;
  the tag of a switch is generated once per case (`codegen.cpp:1221`); the result of a call used as a statement is not popped
  (`codegen.cpp:464`), so in a loop the verifier refuses the class.  A switch counts as returning if its
  clauses do, although a `break` leaves one of them (`statements_visitor.cpp:283`), and the code runs off its end; a function that ends in a `for` without
  a condition, or in a clause that falls through to one that returns, is said to lack a return.  An operand byte 0xFC next to a
  `continue` is taken for a part of its filler (`codegen.cpp:1371`), as 0xFB is in `filler_collision`.
* Package level: a second function named `_` is reported as redeclared (`semantic.cpp:61`), where Go
  allows any number of them; `var x = f()`, with an `f`
  that has no result, and `var x = f` are accepted, with a field of a type that has no
  descriptor, and the JVM refuses the class; a function that an initialiser calls may read fields
  that have no value yet; a sum of untyped integers stays an `int` where Go makes it a float.
* The pool: `0.0` and `-0.0` share one entry (`constant.cpp:15`), so a program may load the other zero.
* Local variables: a short declaration may declare nothing, give a variable another type, and forgets the variable
  that it assigns to, and that it was used (`types_visitor.cpp:164`); there may be more than 256 variables.
* Expressions: comparing a float with an integer literal (`types_visitor.cpp:298`), appending an integer
  literal to floats, or returning one as a float emits operands of two types;
  `append` of strings and `readString` have descriptors that do not fit; strings are compared by identity, and by `compareTo` being exactly 1 or -1
  (`codegen.cpp:838`); a function that reads has no type and no error if it has arguments (`types_visitor.cpp:740`); keys of
  composite literals, copies of arrays of arrays, and `a, a[i] = ...` give other
  values than in Go; a constant wider than 64 bits wraps while folding, and the division of the least one by -1 is
  undefined there (`precalculate_visitor.cpp:95`); a folded float
  whose value is a whole number and composite literals in composite literals are
  rejected, and so is `a[i] += v`, where the clone of the target has lost its
  index; constant indices out of range, constants that do not fit in 32 bits,
  division by a constant zero, the remainder of floats, comparison of slices,
  `append` to an array and `x := print(...)` are accepted.
* Scanner: after a token that may end a statement the quotation mark is skipped like
  a blank (`lexer.l:112`), so that `return "a"` is `return a` and a string that was
  not opened; a newline in a comment, after a carriage return, or after a rune ends no
  statement; `go`, `import`, `&`, `|` and others are printed and dropped; braces and number
  signs are not kept in strings; hexadecimal runes and large numbers throw; `010` is read as ten
  (`lexer.l:238`); raw strings, `\u` escapes and letters or runes of more than one byte are refused.
* Files: the streams are not checked, so a failed write leaves a part of a class
  file and exit status 0; a killed run leaves one too.

## What is not modelled

* The tables of the grammar: they are generated, and `Frontend` lets an error
  come at every token instead.  How precedences build an expression is therefore in
  no module.
* `dot_visitor.cpp`: output for people.  `clone_visitor.cpp`: in TLA+ a
  copy is an equal value.
* The alphabet of `GoTokens` is ASCII, without raw strings and `\u` escapes, and the value of a number is not in it: what
  the scanner does with `010`, raw strings, `\u` escapes and runes of more than one byte is in no module.
* In `CompiledProgram`: range loops with elements as targets of `=`, arrays that the body changes, and assignments with several
  left sides (the last two, without loops, are in `Values`).
* Structs, interfaces, function literals, variadic parameters, methods: the
  analysis of them is in no module; the generator has nothing for most of them.
* Types of conditions and of case expressions (`types_visitor.cpp`), parameters of
  functions at package level.
* Contents of Utf8 constants, and sizes and flags in the class file.  `Values` has
  instructions, not bytes; the bytes of jumps, operands and indices are in
  `CodeGenerator` and `PackageClass`.
* Rounding of floats, the sign of zero outside of the pool, and what is printed.

## Plan

Done: the constant pool with its proofs, control flow from source to
execution, the package level, local variables, expressions and arrays, the
scanner, the driver and the files.  Next:

1. A `ValueOf` that is defined for the functions that initialisers reach only, and `ValuesAsInGo` as a theorem.
2. Conditions and case expressions in `ExpressionTypes`; structs.
3. Range loops over arrays that the body assigns to, and tags of switches that are
   calls, in `CompiledProgram`.
