---------------------------- MODULE ExpressionCode ----------------------------
(***************************************************************************)
(* The code of expressions and of stores (src/codegen/codegen.cpp).        *)
(*                                                                         *)
(* An instruction is a record with the name of its command in op.  A       *)
(* conditional jump over constants, which ends in one on the stack if the  *)
(* jump is not taken and in zero if it is, is one instruction, "test";     *)
(* so are the code of && and ||, with the code of the right operand in     *)
(* them.  Their offsets are the subject of CodeGenerator.  Local variables *)
(* are known by their names: their numbers are the subject of LocalSlots.  *)
(***************************************************************************)
EXTENDS ExpressionTypes, SequencesExt

(* toByteCode: a descriptor is a sequence of letters and class names. *)
RECURSIVE Descriptor(_)
Descriptor(t) ==
  CASE isArray(t) -> <<"[">> \o Descriptor(t.elementType)
    [] isInteger(t) -> <<"I">>
    [] isFloat(t) -> <<"F">>
    [] t = Boolean -> <<"Z">>
    [] t = Void -> <<"V">>
    [] t = String -> <<"String">>
    [] OTHER -> <<"Object">>

Objects == <<"[", "Object">>
Object == <<"Object">>

Do(op) == [op |-> op]
PushInt(n) == [op |-> "iconst", int |-> Wrap(n, W)]
PushFloat(q) == [op |-> "fconst", float |-> q]
PushText(s) == [op |-> "ldc_w", text |-> s]
Test(command, condition) == [op |-> "test", command |-> command, condition |-> condition]
Invoke(name, pops, push) == [op |-> "invokestatic", name |-> name, descriptor |-> [pops |-> pops, push |-> push]]

(* Which commands move values of a type: "i", "f" or "a". *)
Letter(t) ==
  CASE isInteger(t) \/ t = Boolean -> "i"
    [] isFloat(t) -> "f"
    [] OTHER -> "a"

LoadCommand(x, t) == [op |-> "load", name |-> x, letter |-> Letter(t)]
StoreCommand(x, t) == [op |-> "store", name |-> x, letter |-> Letter(t)]
ReturnCommand(t) == [op |-> "return", letter |-> Letter(t), descriptor |-> Descriptor(t)]

(* Arrays of Booleans have commands of their own. *)
ElementLetter(t) == IF t = Boolean THEN "b" ELSE Letter(t)
generateLoadFromArrayCommand(t) == [op |-> "xaload", letter |-> ElementLetter(t)]
generateStoreToArrayCommand(t) == [op |-> "xastore", letter |-> ElementLetter(t)]

NewArray(t) == [op |-> "newarray", element |-> Descriptor(t)]

(* Mutant: arrays are passed as they are. *)
generateNoCloneCommand(e) == <<>>

(* Value arrays are copied wherever a value is taken. *)
generateCloneArrayCommand(e) ==
  IF isArray(TypeOf(e)) /\ ~isSlice(TypeOf(e)) /\ e.kind # "composite"
    THEN <<[op |-> "clone", array |-> Descriptor(TypeOf(e))]>> ELSE <<>>

-----------------------------------------------------------------------------
(* Operators.                                                              *)

(* The condition under which a comparison is false. *)
Otherwise(op) ==
  CASE op = "==" -> "!=" [] op = "!=" -> "==" [] op = "<" -> ">="
    [] op = "<=" -> ">" [] op = ">" -> "<=" [] op = ">=" -> "<"

(* Mutant: the comparison that says -1 for NaN, whatever is asked. *)
CompareFloatsLess(op) == <<Do("fcmpl"), Test("if", Otherwise(op))>>

(* A NaN must not satisfy any order: it counts as greater than what must   *)
(* be less, and as less than what must be greater.                         *)
CompareFloatsCode(op) ==
  <<Do(IF op \in {"<", "<="} THEN "fcmpg" ELSE "fcmpl"), Test("if", Otherwise(op))>>

(* Strings are equal if they are the same object; an order is the result   *)
(* of compareTo, 1 or -1.                                                  *)
CompareStringsCode(op) ==
  IF op \in {"==", "!="} THEN <<Test("if_acmp", Otherwise(op))>>
  ELSE <<Invoke("compare", <<<<"String">>, <<"String">>>>, <<"I">>),
         PushInt(IF op \in {">", "<="} THEN 1 ELSE -1),
         Test("if_icmp", IF op \in {">", "<"} THEN "!=" ELSE "==")>>

CompareArraysCode(op, t) ==
  LET d == IF isInteger(t) \/ isFloat(t) \/ t = Boolean THEN <<"[">> \o Descriptor(t) ELSE Objects
  IN  <<Invoke("equals", <<d, d>>, <<"Z">>), PushInt(1), Test("if_icmp", Otherwise(op))>>

(* The type of the left operand decides. *)
ComparisonCode(op, t) ==
  CASE isFloat(t) -> CompareFloatsCode(op)
    [] isArray(t) -> CompareArraysCode(op, t.elementType)
    [] t = String -> CompareStringsCode(op)
    [] OTHER -> <<Test("if_icmp", Otherwise(op))>>

ArithmeticCode(op, t) ==
  IF t = String THEN <<Do("concat")>>
  ELSE <<[op |-> "arithmetic", letter |-> Letter(t), operation |-> op]>>

(* createDescriptorBuiltInFunction: arrays of objects and strings are      *)
(* passed as objects, except to len.                                       *)
HoldsObjects(t) == isArray(t) /\ (t.elementType = String \/ isArray(t.elementType))

ArgumentDescriptor(f, i, t) ==
  CASE HoldsObjects(t) -> Objects
    [] f # "len" /\ t = String -> Object
    [] f = "append" /\ i = 2 /\ isArray(t) -> Object
    [] OTHER -> Descriptor(t)

ResultDescriptor(t) ==
  CASE t = String -> Object
    [] HoldsObjects(t) -> Objects
    [] OTHER -> Descriptor(t)

BuiltInCode(e) ==
  <<Invoke(e.function,
           [i \in DOMAIN e.arguments |-> ArgumentDescriptor(e.function, i, TypeOf(e.arguments[i]))],
           ResultDescriptor(TypeOf(e)))>>

-----------------------------------------------------------------------------
(* generate, and generateNewArray, the code of a composite literal or of   *)
(* elements that fill an array of type t.  A key does not count.  Places   *)
(* without an element get an object, if they hold objects.                 *)
EmptyString == <<Do("new String")>>

RECURSIVE Generate(_), generateNewArray(_, _)

ElementCode(e) ==
  IF e.kind = "element"
    THEN Generate(e.value) \o generateCloneArrayCommand(e.value)
           \o <<generateStoreToArrayCommand(TypeOf(e.value))>>
    ELSE generateNewArray(TypeOf(e), e.elements) \o <<generateStoreToArrayCommand(TypeOf(e))>>

RemainingCode(t) ==
  CASE isArray(t) -> generateNewArray(t, <<>>) \o <<generateStoreToArrayCommand(t)>>
    [] t = String -> EmptyString \o <<generateStoreToArrayCommand(t)>>

generateNewArray(t, es) ==
  LET given == [i \in DOMAIN es |-> <<Do("dup"), PushInt(i - 1)>> \o ElementCode(es[i])]
      rest == [j \in 1 .. (IF HoldsObjects(t) /\ t.dims > Len(es) THEN t.dims - Len(es) ELSE 0) |->
                <<Do("dup"), PushInt(Len(es) + j - 1)>> \o RemainingCode(t.elementType)]
  IN  <<PushInt(IF isSlice(t) THEN Len(es) ELSE t.dims), NewArray(t.elementType)>>
        \o FlattenSeq(given) \o FlattenSeq(rest)

UnaryCode(e) ==
  LET t == TypeOf(e)
  IN  Generate(e.expression) \o
        CASE e.op = "-" -> <<[op |-> "negate", letter |-> Letter(t)]>>
          [] e.op = "!" -> <<PushInt(1), Test("if_icmp", "==")>>
          [] e.op = "+" -> <<>>

(* Mutant: && and || evaluate both operands. *)
BinaryCodeEager(e) ==
  Generate(e.lhs) \o Generate(e.rhs) \o
    CASE e.op = "&&" -> <<[op |-> "arithmetic", letter |-> "i", operation |-> "*"]>>
      [] e.op = "||" -> <<[op |-> "arithmetic", letter |-> "i", operation |-> "+"],
                          PushInt(0), Test("if_icmp", "==")>>
      [] e.op \in Comparisons -> ComparisonCode(e.op, TypeOf(e.lhs))
      [] OTHER -> ArithmeticCode(e.op, TypeOf(e))

BinaryCode(e) ==
  IF e.op \in LogicalOps
    THEN Generate(e.lhs) \o <<[op |-> e.op, right |-> Generate(e.rhs)]>>
    ELSE Generate(e.lhs) \o Generate(e.rhs)
           \o (IF e.op \in Comparisons THEN ComparisonCode(e.op, TypeOf(e.lhs))
                                       ELSE ArithmeticCode(e.op, TypeOf(e)))

Generate(e) ==
  CASE e.kind = "integer" -> <<IF isFloat(TypeOf(e)) THEN PushFloat(FloatOf(e.intLit)) ELSE PushInt(e.intLit)>>
    [] e.kind = "float" -> <<PushFloat(e.floatLit)>>
    [] e.kind = "boolean" -> <<PushInt(IF e.boolLit THEN 1 ELSE 0)>>
    [] e.kind = "string" -> <<PushText(e.stringLit)>>
    [] e.kind = "identifier" -> <<LoadCommand(e.identifier, TypeOf(e))>>
    [] e.kind = "unary" -> UnaryCode(e)
    [] e.kind = "binary" -> BinaryCode(e)
    [] e.kind = "access" ->
         Generate(e.base) \o Generate(e.accessor) \o <<generateLoadFromArrayCommand(TypeOf(e))>>
    [] e.kind = "composite" -> generateNewArray(TypeOf(e), e.elements)
    [] e.kind = "call" ->
         FlattenSeq([i \in DOMAIN e.arguments |->
           Generate(e.arguments[i]) \o generateCloneArrayCommand(e.arguments[i])]) \o BuiltInCode(e)

(* ++ and --: the array and the index are doubled before the load, which   *)
(* is the last command of the operand.  The buffer that should hold the    *)
(* store still has the code of an operand that is neither.                 *)
StepCode(e) ==
  LET f == e.expression
      code == Generate(f)
      one == IF isInteger(TypeOf(f)) THEN PushInt(1) ELSE PushFloat(FloatOf(1))
      step == <<one, [op |-> "arithmetic", letter |-> Letter(TypeOf(f)),
                      operation |-> IF e.op = "++" THEN "+" ELSE "-"]>>
  IN  CASE f.kind = "access" ->
             Front(code) \o <<Do("dup2"), Last(code)>> \o step \o <<generateStoreToArrayCommand(TypeOf(f))>>
        [] f.kind = "identifier" -> code \o step \o <<StoreCommand(f.identifier, TypeOf(f))>>
        [] OTHER -> code \o step \o code
=============================================================================
