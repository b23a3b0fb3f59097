----------------------------- MODULE CodeGenerator -----------------------------
(***************************************************************************)
(* The generation of the code of a method (src/codegen/codegen.cpp): a     *)
(* lowered function becomes a sequence of bytes, exactly as emitted, with  *)
(* the real opcodes, since the hazards of this code are in its bytes.      *)
(* Jumps are relative and two bytes wide; break and continue are emitted   *)
(* as three filler bytes, which the enclosing statement later looks for in *)
(* the finished code and overwrites with a goto.                           *)
(*                                                                         *)
(* The generator's state is the scopes of its Context, from names to local *)
(* variables, and indexCurrentLocalVariable, the next free one.            *)
(***************************************************************************)
EXTENDS GoSyntax, Context, SequencesExt

CONSTANT MethodRef  (* the constant-pool index of each function's method    *)

LenMethod == "len"  (* $Base.len, the run-time library's                    *)

(* The opcodes (src/codegen/commands.h).                                   *)
nop          == 0
iconst_0     == 3
iconst_1     == 4
iload        == 21
aload        == 25
iaload       == 46
istore       == 54
pop          == 87
iadd         == 96
isub         == 100
imul         == 104
idiv         == 108
irem         == 112
ifeq         == 153
ifne         == 154
if_icmpeq    == 159
if_icmpne    == 160
if_icmpge    == 162
goto         == 167
ireturn      == 172
return       == 177
invokestatic == 184

BREAK_FILLER    == 251   (* 0xFB *)
CONTINUE_FILLER == 252   (* 0xFC *)

(* Mutant: the bytes keep the sign of the number. *)
TwoBytesSigned(n) == <<n \div 256, n % 256>>

(* The low two bytes of IntToBytes, in two's complement. *)
TwoBytes(n) == LET m == n % 65536 IN <<m \div 256, m % 256>>
Jump(op, offset) == <<op>> \o TwoBytes(offset)
Invoke(f) == <<invokestatic>> \o TwoBytes(MethodRef[f])

ifLength == 3
gotoLength == 3
iconstLength == 1

-----------------------------------------------------------------------------
(* A name that is added takes the next local variable.                     *)
AddLocal(g, x) ==
  [scopes |-> add(g.scopes, x, g.next), next |-> g.next + (IF x = Blank THEN 0 ELSE 1)]

Load(g, x)  == <<iload, find(g.scopes, x) % 256>>
LoadArray(g, x) == <<aload, find(g.scopes, x) % 256>>

(* What is given to the blank identifier is taken off the operand stack.   *)
Store(g, x) == IF x = Blank THEN <<pop>> ELSE <<istore, find(g.scopes, x) % 256>>

-----------------------------------------------------------------------------
(* Expressions.  A comparison ends in a jump over "push true, go on" to    *)
(* "push false".                                                           *)

(* Mutant: the jump over "push false" forgets the length of that push. *)
PushTruthShort(op) ==
  Jump(op, ifLength + gotoLength + iconstLength) \o <<iconst_1>>
  \o Jump(goto, gotoLength) \o <<iconst_0>>

PushTruth(op) ==
  Jump(op, ifLength + gotoLength + iconstLength) \o <<iconst_1>>
  \o Jump(goto, gotoLength + iconstLength) \o <<iconst_0>>

ArithmeticCommand ==
  [Addition |-> iadd, Subtraction |-> isub, Multiplication |-> imul, Division |-> idiv, Mod |-> irem]

RECURSIVE GenerateExpression(_, _)

GenerateLogical(e, g) ==
  LET lhs == GenerateExpression(e.lhs, g)
      rhs == GenerateExpression(e.rhs, g)
      trueValueOffset == Len(rhs) + 2 * ifLength
      falseValueOffset == trueValueOffset + iconstLength + gotoLength
  IN  lhs \o (IF e.kind = "and" THEN Jump(ifeq, falseValueOffset)
                                ELSE Jump(ifne, trueValueOffset))
          \o rhs \o PushTruth(ifeq)

GenerateExpression(e, g) ==
  LET Operands == GenerateExpression(e.lhs, g) \o GenerateExpression(e.rhs, g)
  IN  CASE e.kind = "const" -> <<iconst_0 + e.value>>
        [] e.kind = "true" -> <<iconst_1>>
        [] e.kind = "var" -> Load(g, e.name)
        [] e.kind = "len" -> LoadArray(g, e.name) \o Invoke(LenMethod)
        [] e.kind = "ask" -> Invoke(e.name)
        [] e.kind = "not" -> GenerateExpression(e.expr, g) \o <<iconst_1>> \o PushTruth(if_icmpeq)
        [] e.kind \in {"and", "or"} -> GenerateLogical(e, g)
        [] e.kind = "less" -> Operands \o PushTruth(if_icmpge)
        [] e.kind = "equal" -> Operands \o PushTruth(if_icmpne)
        [] e.kind = "arithmetic" -> Operands \o <<ArithmeticCommand[e.op]>>
        [] e.kind = "element of" -> LoadArray(g, e.name) \o GenerateExpression(e.accessor, g) \o <<iaload>>

-----------------------------------------------------------------------------
(* Fillers: the scan goes once over the bytes from the left, and sees the  *)
(* bytes it has already overwritten.                                       *)

Fillers(bytes, filler, span) ==
  {i \in span : bytes[i] = filler /\ bytes[i + 1] = filler /\ bytes[i + 2] = filler}

Overwritten(bytes, i, jump) ==
  [bytes EXCEPT ![i] = jump[1], ![i + 1] = jump[2], ![i + 2] = jump[3]]

RECURSIVE ReplaceBreaks(_, _), ReplaceContinues(_, _)

ReplaceBreaks(bytes, from) ==
  LET found == Fillers(bytes, BREAK_FILLER, from .. Len(bytes) - 2)
      i == Min(found)
  IN  IF found = {} THEN bytes
      ELSE ReplaceBreaks(Overwritten(bytes, i, Jump(goto, Len(bytes) - i)), i + 1)

ReplaceContinues(bytes, from) ==
  LET found == Fillers(bytes, CONTINUE_FILLER, from .. Len(bytes) - 3)
      i == Min(found)
  IN  IF found = {} THEN bytes
      ELSE ReplaceContinues(Overwritten(bytes, i, Jump(goto, 1 - i)), i + 1)

replaceBreakFillers(bytes) == ReplaceBreaks(bytes, 1)
replaceContinueFillers(bytes) == ReplaceContinues(bytes, 1)

-----------------------------------------------------------------------------
(* Statements: the code of a statement and the generator's state after it. *)

RECURSIVE Generate(_, _)

GenerateBlock(body, g) ==
  LET Next(done, s) ==
        LET r == Generate(s, done.g) IN [code |-> done.code \o r.code, g |-> r.g]
      r == FoldLeft(Next, [code |-> <<>>, g |-> [g EXCEPT !.scopes = pushScope(@)]], body)
  IN  [r EXCEPT !.g.scopes = popScope(@)]

GenerateIf(s, g) ==
  LET cond == GenerateExpression(s.cond, g)
      then == GenerateBlock(s.then, g)
      else == IF s.else = <<>> THEN [code |-> <<>>, g |-> then.g]
              ELSE Generate(s.else[1], then.g)
      yes  == then.code \o (IF s.else = <<>> THEN <<>>
                            ELSE Jump(goto, Len(else.code) + gotoLength))
  IN  [code |-> cond \o Jump(ifeq, Len(yes) + ifLength) \o yes \o else.code \o <<nop>>,
       g    |-> else.g]

GenerateWhile(s, g) ==
  LET cond == GenerateExpression(s.cond, g)
      body == GenerateBlock(s.body, g)
      code == cond \o Jump(ifeq, Len(body.code) + ifLength + gotoLength)
              \o body.code \o Jump(goto, -(Len(cond) + Len(body.code) + ifLength))
              \o <<nop>>
  IN  [code |-> replaceContinueFillers(replaceBreakFillers(code)), g |-> body.g]

(* Mutant: the test of fallthrowEnds is inverted. *)
BodyEndInverted(clause, isLast) ==
  IF ~clause.fallthrowEnds \/ isLast THEN <<>>
  ELSE <<BREAK_FILLER, BREAK_FILLER, BREAK_FILLER>>

(* A body that neither falls through nor is the last one breaks.           *)
BodyEnd(clause, isLast) ==
  IF clause.fallthrowEnds \/ isLast THEN <<>>
  ELSE <<BREAK_FILLER, BREAK_FILLER, BREAK_FILLER>>

(* The tests of the cases in order and, last, the jump to the default or   *)
(* the end; then the bodies in order.  A jump goes over the tests after it *)
(* and over the bodies before its own.                                     *)
GenerateSwitch(s, g) ==
  LET n == Len(s.clauses)
      IsCase(i) == s.clauses[i].case # <<>>
      cases == SelectSeq([i \in 1 .. n |-> i], IsCase)
      test == [j \in DOMAIN cases |->
                 GenerateExpression(Equal(s.tag, s.clauses[cases[j]].case[1]), g)]
      Next(done, c) ==
        LET r == GenerateBlock(c.body, done.g)
            end == BodyEnd(c, Len(done.bodies) = n - 1)
        IN  [bodies |-> Append(done.bodies, r.code \o end), g |-> r.g]
      r == FoldLeft(Next, [bodies |-> <<>>, g |-> g], s.clauses)
      BlockOffset(i) == Len(FlattenSeq(SubSeq(r.bodies, 1, i - 1)))
      TestsAfter(j) ==   (* from the jump of test j to the end of the tests *)
        ifLength + Len(FlattenSeq(SubSeq(test, j + 1, Len(test))))
                 + ifLength * (Len(test) - j) + gotoLength
      default == IF \A i \in 1 .. n : IsCase(i) THEN n + 1
                 ELSE CHOOSE i \in 1 .. n : ~IsCase(i)
      code == FlattenSeq([j \in DOMAIN cases |->
                            test[j] \o Jump(ifne, TestsAfter(j) + BlockOffset(cases[j]))])
              \o Jump(goto, gotoLength + BlockOffset(default))
              \o FlattenSeq(r.bodies) \o <<nop>>
  IN  [code |-> replaceBreakFillers(code), g |-> r.g]

GenerateKeyword(s) ==
  CASE s.type = "Break" -> <<BREAK_FILLER, BREAK_FILLER, BREAK_FILLER>>
    [] s.type = "Continue" -> <<CONTINUE_FILLER, CONTINUE_FILLER, CONTINUE_FILLER>>

(* The names are added before the values are generated. *)
GenerateDeclaration(s, g) ==
  LET h == AddLocal(g, s.name)
  IN  [code |-> GenerateExpression(s.value, h) \o Store(h, s.name), g |-> h]

(* Only a simple assignment has code. *)
GenerateAssignment(s, g) ==
  IF s.type = "SimpleAssign" THEN GenerateExpression(s.value, g) \o Store(g, s.name)
  ELSE <<>>

(* The result of a call that is a statement stays on the operand stack. *)
GenerateCall(s, g) ==
  FlattenSeq([i \in DOMAIN s.args |-> GenerateExpression(s.args[i], g)]) \o Invoke(s.name)

GenerateReturn(s, g) ==
  FlattenSeq([i \in DOMAIN s.values |-> GenerateExpression(s.values[i], g)])
  \o <<IF s.values = <<>> THEN return ELSE ireturn>>

Generate(s, g) ==
  CASE s.kind = "block" -> GenerateBlock(s.body, g)
    [] s.kind = "if" -> GenerateIf(s, g)
    [] s.kind = "while" -> GenerateWhile(s, g)
    [] s.kind = "switch" -> GenerateSwitch(s, g)
    [] s.kind = "declare" -> GenerateDeclaration(s, g)
    [] s.kind = "keyword" -> [code |-> GenerateKeyword(s), g |-> g]
    [] s.kind = "call" -> [code |-> GenerateCall(s, g), g |-> g]
    [] s.kind = "assign" -> [code |-> GenerateAssignment(s, g), g |-> g]
    [] s.kind = "increment" ->
         [code |-> Load(g, s.name) \o <<iconst_1, iadd>> \o Store(g, s.name), g |-> g]
    [] s.kind = "return" -> [code |-> GenerateReturn(s, g), g |-> g]

generateMethodBodyCode(f) ==
  LET g == FoldLeft(AddLocal, [scopes |-> <<NoNames>>, next |-> 0], Parameters)
      code == GenerateBlock(f.body, g).code
  IN  code \o (IF f.results = <<>> THEN <<return>> ELSE <<>>)
===============================================================================
