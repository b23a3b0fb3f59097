---------------------------------- MODULE JVM ----------------------------------
(***************************************************************************)
(* The machine that runs the generated code, as far as that code uses it:  *)
(* the instructions the code generator emits for control flow, and the     *)
(* verifier by type inference that class files of version 49 undergo.      *)
(* Addresses start at 0.  An array reference is represented by the array,  *)
(* which the code does not change.                                         *)
(***************************************************************************)
EXTENDS CodeGenerator, FiniteSets

CONSTANTS
  Consumers, (* the functions that take an int                              *)
  Askable    (* the functions that return a value                           *)

Methods == DOMAIN MethodRef

Arity(f)  == IF f = LenMethod \/ f \in Consumers THEN 1 ELSE 0
Results(f) == IF f = LenMethod \/ f \in Askable THEN 1 ELSE 0

Constants == iconst_0 .. (iconst_0 + 5)
UnaryJumps == {ifeq, ifne}
BinaryJumps == {if_icmpeq, if_icmpne, if_icmpge}
ConditionalJumps == UnaryJumps \cup BinaryJumps
Loads == {iload, aload}
Operations == {iadd, isub, imul, idiv, irem}

Length(op) ==
  IF op \in ConditionalJumps \cup {goto, invokestatic} THEN 3
  ELSE IF op \in Loads \cup {istore} THEN 2
  ELSE 1

At(code, pc) == code[pc + 1]
Unsigned(code, pc) == 256 * At(code, pc + 1) + At(code, pc + 2)
Target(code, pc) ==
  LET n == Unsigned(code, pc) IN pc + (IF n < 32768 THEN n ELSE n - 65536)
Local(code, pc) == At(code, pc + 1)
Invoked(code, pc) == {f \in Methods : MethodRef[f] = Unsigned(code, pc)}

-----------------------------------------------------------------------------
(* Verification: every state that may be reached, an abstract state being  *)
(* the address, the depth of the operand stack and the local variables     *)
(* that have a value.                                                      *)

Pops(code, pc) ==
  LET op == At(code, pc)
  IN  IF op \in BinaryJumps \cup Operations \cup {iaload} THEN 2
      ELSE IF op \in UnaryJumps \cup {istore, pop, ireturn} THEN 1
      ELSE IF op = invokestatic THEN Arity(CHOOSE f \in Invoked(code, pc) : TRUE)
      ELSE 0

Pushes(code, pc) ==
  LET op == At(code, pc)
  IN  IF op \in Constants \cup Loads \cup Operations \cup {iaload} THEN 1
      ELSE IF op = invokestatic THEN Results(CHOOSE f \in Invoked(code, pc) : TRUE)
      ELSE 0

Known == Constants \cup Loads \cup ConditionalJumps
         \cup Operations \cup {nop, istore, iaload, pop, goto, invokestatic, return, ireturn}

(* The instruction may be executed in this abstract state.                 *)
Sound(code, results, s) ==
  /\ s.pc \in 0 .. Len(code) - 1
  /\ At(code, s.pc) \in Known
  /\ s.pc + Length(At(code, s.pc)) <= Len(code)
  /\ At(code, s.pc) = invokestatic => Invoked(code, s.pc) # {}
  /\ At(code, s.pc) = return => results = <<>>
  /\ At(code, s.pc) = ireturn => results # <<>>
  /\ At(code, s.pc) \in Loads => Local(code, s.pc) \in s.set
  /\ Pops(code, s.pc) <= s.depth

Following(code, s) ==
  LET op == At(code, s.pc)
      after == s.pc + Length(op)
      pcs == CASE op \in {return, ireturn} -> {}
               [] op = goto -> {Target(code, s.pc)}
               [] op \in ConditionalJumps -> {after, Target(code, s.pc)}
               [] OTHER -> {after}
  IN  {[pc    |-> pc,
        depth |-> s.depth - Pops(code, s.pc) + Pushes(code, s.pc),
        set   |-> s.set \cup (IF op = istore THEN {Local(code, s.pc)} ELSE {})] : pc \in pcs}

RECURSIVE Verified(_, _, _, _)
Verified(code, results, frontier, seen) ==
  LET new == UNION {Following(code, s) : s \in frontier}
      all == seen \cup frontier
  IN  /\ \A s \in frontier : Sound(code, results, s)
      /\ \A s \in frontier, t \in all : s.pc = t.pc => s.depth = t.depth
      /\ new \subseteq all \/ Verified(code, results, new \ all, all)

Verifies(code, results) ==
  Verified(code, results, {[pc |-> 0, depth |-> 0, set |-> {0, 1}]}, {})

-----------------------------------------------------------------------------
(* Execution. *)

Begin(array, x) == [pc |-> 0, stack |-> <<>>, locals |-> <<array, x>>]

Top(vm)    == vm.stack[Len(vm.stack)]
Second(vm) == vm.stack[Len(vm.stack) - 1]
Pop(stack, n) == SubSeq(stack, 1, Len(stack) - n)

Advance(vm, code, stack) ==
  [vm EXCEPT !.pc = @ + Length(At(code, @)), !.stack = stack]

(* Local variables are numbered from 0; one that was never set holds 0.    *)
Get(vm, n) == IF n < Len(vm.locals) THEN vm.locals[n + 1] ELSE 0
Set(vm, n, v) ==
  [vm EXCEPT !.locals = [i \in 1 .. (IF n < Len(@) THEN Len(@) ELSE n + 1) |->
                           IF i = n + 1 THEN v ELSE Get(vm, i - 1)]]

Computed(op, a, b) ==
  CASE op = iadd -> a + b
    [] op = isub -> a - b
    [] op = imul -> a * b
    [] op = idiv -> a \div b
    [] op = irem -> a % b

Taken(vm, op) ==
  CASE op = ifeq -> Top(vm) = 0
    [] op = ifne -> Top(vm) # 0
    [] op = if_icmpeq -> Second(vm) = Top(vm)
    [] op = if_icmpne -> Second(vm) # Top(vm)
    [] op = if_icmpge -> Second(vm) >= Top(vm)
===============================================================================
