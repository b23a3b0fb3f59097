--------------------------- MODULE CompiledProgram ---------------------------
(***************************************************************************)
(* A function that was compiled, next to what it means: its class is       *)
(* loaded, verified and executed on the JVM, while the source program      *)
(* makes its own way (GoSemantics).  The two executions are coupled at the *)
(* calls: the machine makes a call and gets a result, and the source       *)
(* program gets the same.  The compiler is a parameter; module Compiler    *)
(* defines the one of the repository.                                      *)
(***************************************************************************)
EXTENDS GoSemantics, JVM

CONSTANTS
  Compiled(_), (* what the compiler makes of a function: errors and code    *)
  Programs,    (* the functions to compile                                  *)
  Answers      (* what a function that returns a value may return           *)

VARIABLES
  program,     (* the function as written                                   *)
  phase,       (* how far it is                                             *)
  code,        (* the bytes of its Code attribute                           *)
  vm,          (* the frame of the method on the JVM                        *)
  src          (* the state of the source program                           *)

vars == <<program, phase, code, vm, src>>

Phases == {"parsed", "rejected", "generated", "refused", "running", "done", "diverged"}

Init ==
  /\ program \in Programs
  /\ phase = "parsed"
  /\ code = <<>>
  /\ vm = Begin(Array, TagValue)
  /\ src = Start(program)

-----------------------------------------------------------------------------
(* A function with errors has no class.                                    *)

Compile ==
  /\ phase = "parsed"
  /\ LET result == Compiled(program)
     IN  IF result.errors # {}
           THEN phase' = "rejected" /\ UNCHANGED code
           ELSE phase' = "generated" /\ code' = result.code
  /\ UNCHANGED <<program, vm, src>>

(* The JVM verifies the class when it loads it. *)
LoadClass ==
  /\ phase = "generated"
  /\ phase' = IF Verifies(code, program.results) THEN "running" ELSE "refused"
  /\ UNCHANGED <<program, code, vm, src>>

-----------------------------------------------------------------------------
(* The source program goes on to its next call or return before the        *)
(* machine moves.                                                          *)

SourceStep ==
  /\ phase = "running"
  /\ Pending(src) = {}
  /\ src' = Silent(src)
  /\ UNCHANGED <<program, phase, code, vm>>

Op == At(code, vm.pc)

Executes(ops) ==
  /\ phase = "running"
  /\ Pending(src) # {}
  /\ Op \in ops

Step(new) == vm' = new /\ UNCHANGED <<program, phase, code, src>>

ExecuteNop == Executes({nop}) /\ Step(Advance(vm, code, vm.stack))

ExecuteConst ==
  Executes(Constants) /\ Step(Advance(vm, code, Append(vm.stack, Op - iconst_0)))

ExecuteLoad ==
  /\ Executes(Loads)
  /\ Step(Advance(vm, code, Append(vm.stack, Get(vm, Local(code, vm.pc)))))

ExecuteStore ==
  /\ Executes({istore})
  /\ Step(Advance(Set(vm, Local(code, vm.pc), Top(vm)), code, Pop(vm.stack, 1)))

ExecuteArithmetic ==
  /\ Executes(Operations)
  /\ Step(Advance(vm, code, Append(Pop(vm.stack, 2), Computed(Op, Second(vm), Top(vm)))))

ExecuteArrayLoad ==
  /\ Executes({iaload})
  /\ Step(Advance(vm, code, Append(Pop(vm.stack, 2), Second(vm)[Top(vm) + 1])))

ExecutePop == Executes({pop}) /\ Step(Advance(vm, code, Pop(vm.stack, 1)))

ExecuteGoto == Executes({goto}) /\ Step([vm EXCEPT !.pc = Target(code, @)])

ExecuteBranch ==
  /\ Executes(ConditionalJumps)
  /\ LET popped == Pop(vm.stack, Pops(code, vm.pc))
     IN  Step(IF Taken(vm, Op)
                THEN [vm EXCEPT !.pc = Target(code, @), !.stack = popped]
                ELSE Advance(vm, code, popped))

(* $Base.len of an array.                                                  *)
ExecuteLen ==
  /\ Executes({invokestatic})
  /\ LenMethod \in Invoked(code, vm.pc)
  /\ Step(Advance(vm, code, Append(Pop(vm.stack, 1), Len(Top(vm)))))

(* The machine does what the outside can see: the source program does the  *)
(* same, or the two have diverged.                                         *)
Observed(event, v) ==
  IF event \notin Pending(src) THEN phase' = "diverged" /\ UNCHANGED src
  ELSE IF event.name = "return" THEN phase' = "done" /\ UNCHANGED src
  ELSE src' = Returned(src, v) /\ UNCHANGED phase

Arguments(n) == SubSeq(vm.stack, Len(vm.stack) - n + 1, Len(vm.stack))

ExecuteCall ==
  /\ Executes({invokestatic})
  /\ LenMethod \notin Invoked(code, vm.pc)
  /\ \E f \in Invoked(code, vm.pc), v \in Answers :
       /\ vm' = Advance(vm, code, Pop(vm.stack, Arity(f))
                                  \o (IF f \in Askable THEN <<v>> ELSE <<>>))
       /\ Observed(Event(f, Arguments(Arity(f))), v)
  /\ UNCHANGED <<program, code>>

ExecuteReturn ==
  /\ Executes({return, ireturn})
  /\ Observed(Event("return", Arguments(Pops(code, vm.pc))), 0)
  /\ UNCHANGED <<program, code, vm>>

Run ==
  \/ SourceStep
  \/ ExecuteNop
  \/ ExecuteConst
  \/ ExecuteLoad
  \/ ExecuteStore
  \/ ExecuteArithmetic
  \/ ExecuteArrayLoad
  \/ ExecutePop
  \/ ExecuteGoto
  \/ ExecuteBranch
  \/ ExecuteLen
  \/ ExecuteCall
  \/ ExecuteReturn

Next == Compile \/ LoadClass \/ Run

(* One thread runs the program: once started, it does not stop by itself.  *)
Spec == Init /\ [][Next]_vars /\ WF_vars(Run)

-----------------------------------------------------------------------------
(* Properties *)

(* The emitted code is a sequence of bytes, the machine executes within it *)
(* and finds on its stack what the instruction takes off it.               *)
TypeOK ==
  /\ phase \in Phases
  /\ code \in Seq(0 .. 255)
  /\ phase = "running" =>
       /\ vm.pc \in 0 .. Len(code) - 1
       /\ Pops(code, vm.pc) <= Len(vm.stack)

(* The visitor's diagnostics are exact: it rejects a function only if some *)
(* keyword is misplaced or a return is missing, and none such gets by.     *)
RejectsOnlyIllegal == phase = "rejected" => ~LegalFunction(program)
AcceptsOnlyLegal == phase \notin {"parsed", "rejected"} => LegalFunction(program)

(* What the generator emits for an accepted function is a well-formed      *)
(* method: every jump lands on an instruction, the depth of the operand    *)
(* stack at an address does not depend on the way there, no variable is    *)
(* read before it is set and no path runs off the end.                     *)
NeverRefused == phase # "refused"

(* The code makes the calls the source program makes, in their order, with *)
(* their arguments, and returns when it returns, whatever the calls answer:*)
(* lowering, offsets, fillers and slots together preserve the meaning.     *)
SameBehaviour == phase # "diverged"

(* The code never loops on its own: if the source program goes on to a     *)
(* call or to its end, so does the code.                                   *)
AtEvent ==
  /\ Pending(src) # {}
  /\ \/ Op \in {return, ireturn}
     \/ Op = invokestatic /\ LenMethod \notin Invoked(code, vm.pc)

Progress == phase = "running" ~> (phase # "running" \/ AtEvent)
===============================================================================
