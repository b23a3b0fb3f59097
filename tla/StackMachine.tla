----------------------------- MODULE StackMachine -----------------------------
(***************************************************************************)
(* External: what a JVM does with the code of ExpressionCode: it verifies  *)
(* the types of operands and links calls before it executes.  $Base        *)
(* (src/RTL/$Base.java) is the class of the built-in functions.            *)
(***************************************************************************)
EXTENDS ExpressionCode

CONSTANT Input  (* what the functions that read input return *)

(* The methods of $Base, by their descriptors.                             *)
Primitive == {<<"I">>, <<"F">>, <<"Z">>}
Arrays == {<<"[">> \o d : d \in Primitive} \cup {Objects}
ElementOf(d) == IF d = Objects THEN Object ELSE Tail(d)

Method(name, pops, push) == [name |-> name, descriptor |-> [pops |-> pops, push |-> push]]

BaseMethods ==
  UNION {{Method(f, <<d>>, <<"V">>) : f \in {"print", "println"}, d \in Primitive \cup {Object} \cup Arrays},
         {Method("len", <<d>>, <<"I">>) : d \in Arrays \cup {<<"String">>}},
         {Method("append", <<d, ElementOf(d)>>, d) : d \in Arrays},
         {Method("equals", <<d, d>>, <<"Z">>) : d \in Arrays},
         {Method("compare", <<<<"String">>, <<"String">>>>, <<"I">>),
          Method("readInt", <<>>, <<"I">>), Method("readFloat", <<>>, <<"F">>),
          Method("readString", <<>>, <<"String">>), Method("readBool", <<>>, <<"Z">>)}}

-----------------------------------------------------------------------------
(* Verification.  A state is the types of the stack and of the locals.     *)

IsReference(d) == d[1] \in {"[", "String", "Object"}
OnStack(d) == IF d = <<"Z">> THEN <<"I">> ELSE d
LetterOf(d) == IF IsReference(d) THEN "a" ELSE IF d = <<"F">> THEN "f" ELSE "i"
ElementLetterOf(d) == IF d = <<"Z">> THEN "b" ELSE LetterOf(d)

Assignable(d, to) ==
  \/ d = OnStack(to)
  \/ to = Object /\ IsReference(d)
  \/ to = Objects /\ d[1] = "[" /\ IsReference(Tail(d))

Peek(stack, k) == stack[Len(stack) - k + 1]
Replaced(stack, n, top) == SubSeq(stack, 1, Len(stack) - n) \o top

Bad == [ok |-> FALSE, stack |-> <<>>, locals |-> <<>>]

(* m with n operands replaced, if they satisfy a condition. *)
Rewrite(m, n, condition, push) == IF condition THEN [m EXCEPT !.stack = Replaced(@, n, push)] ELSE Bad

Takes(m, ds) ==
  /\ Len(m.stack) >= Len(ds)
  /\ \A i \in DOMAIN ds : Assignable(m.stack[Len(m.stack) - Len(ds) + i], ds[i])

(* An array whose elements a command of this letter moves, below n operands. *)
HasArray(m, n, letter) ==
  /\ Len(m.stack) > n
  /\ Peek(m.stack, n + 1)[1] = "["
  /\ ElementLetterOf(Tail(Peek(m.stack, n + 1))) = letter

TypeOfLetter(letter) == IF letter = "f" THEN <<"F">> ELSE <<"I">>

TestOperands(command) ==
  CASE command = "if" -> <<<<"I">>>>
    [] command = "if_icmp" -> <<<<"I">>, <<"I">>>>
    [] command = "if_acmp" -> <<Object, Object>>

(* The local variables of a method that is given values for its parameters. *)
Frame(names, values) ==
  [x \in {names[i] : i \in DOMAIN names} |-> values[CHOOSE i \in DOMAIN names : names[i] = x]]

RECURSIVE Verify(_, _)

VerifyStep(m, c) ==
  LET needs(ds, push) == Rewrite(m, Len(ds), Takes(m, ds), push)
      typed(letter) == TypeOfLetter(letter)
  IN  CASE ~m.ok -> m
        [] c.op = "iconst" -> needs(<<>>, <<<<"I">>>>)
        [] c.op = "fconst" -> needs(<<>>, <<<<"F">>>>)
        [] c.op \in {"ldc_w", "new String"} -> needs(<<>>, <<<<"String">>>>)
        [] c.op = "load" ->
             Rewrite(m, 0, LetterOf(m.locals[c.name]) = c.letter, <<m.locals[c.name]>>)
        [] c.op = "store" ->
             IF m.stack = <<>> \/ LetterOf(Peek(m.stack, 1)) # c.letter THEN Bad
             ELSE [m EXCEPT !.locals = (c.name :> Peek(m.stack, 1)) @@ @, !.stack = Front(@)]
        [] c.op = "return" ->
             IF m.stack = <<>> \/ LetterOf(Peek(m.stack, 1)) # c.letter \/ ~Takes(m, <<c.descriptor>>) THEN Bad
             ELSE [m EXCEPT !.locals = ("result" :> Peek(m.stack, 1)) @@ @, !.stack = Front(@)]
        [] c.op = "negate" -> needs(<<typed(c.letter)>>, <<typed(c.letter)>>)
        [] c.op = "arithmetic" -> needs(<<typed(c.letter), typed(c.letter)>>, <<typed(c.letter)>>)
        [] c.op = "concat" -> needs(<<<<"String">>, <<"String">>>>, <<<<"String">>>>)
        [] c.op \in {"fcmpl", "fcmpg"} -> needs(<<<<"F">>, <<"F">>>>, <<<<"I">>>>)
        [] c.op = "test" -> needs(TestOperands(c.command), <<<<"I">>>>)
        [] c.op \in LogicalOps ->
             IF Takes(m, <<<<"I">>>>) /\ Verify([m EXCEPT !.stack = Front(@)], c.right).stack = m.stack
               THEN m ELSE Bad
        [] c.op = "newarray" -> needs(<<<<"I">>>>, <<<<"[">> \o c.element>>)
        [] c.op = "dup" -> Rewrite(m, 0, Len(m.stack) > 0, <<Peek(m.stack, 1)>>)
        [] c.op = "dup2" -> Rewrite(m, 0, Len(m.stack) > 1, <<Peek(m.stack, 2), Peek(m.stack, 1)>>)
        [] c.op = "pop" -> Rewrite(m, 1, Len(m.stack) > 0, <<>>)
        [] c.op = "xaload" ->
             Rewrite(m, 2, Takes(m, <<<<"I">>>>) /\ HasArray(m, 1, c.letter),
                     <<OnStack(Tail(Peek(m.stack, 2)))>>)
        [] c.op = "xastore" ->
             Rewrite(m, 3, HasArray(m, 2, c.letter)
                             /\ Takes(m, <<<<"I">>, Tail(Peek(m.stack, 3))>>), <<>>)
        [] c.op = "clone" -> needs(<<c.array>>, <<c.array>>)
        [] c.op = "call" ->
             Rewrite(m, Len(c.names),
                     Takes(m, c.descriptors)
                       /\ Verify([m EXCEPT !.stack = <<>>, !.locals = Frame(c.names, c.descriptors)], c.body).ok,
                     <<>>)
        [] c.op = "invokestatic" ->
             Rewrite(m, Len(c.descriptor.pops),
                     Method(c.name, c.descriptor.pops, c.descriptor.push) \in BaseMethods
                       /\ Takes(m, c.descriptor.pops),
                     IF c.descriptor.push = <<"V">> THEN <<>> ELSE <<OnStack(c.descriptor.push)>>)

Verify(m, code) == FoldLeft(VerifyStep, m, code)

-----------------------------------------------------------------------------
(* Execution.  A string is an object with a text; those of the constant    *)
(* pool are the same object for the same text.  An array is an index of    *)
(* the heap.  Null is zero.                                                *)

Interned(s) == [text |-> s, object |-> 0]

Initially(d) == IF d = <<"F">> THEN FloatOf(0) ELSE 0

Put(m, n, top) == [m EXCEPT !.stack = Replaced(@, n, top)]
NewString(m, n, s) ==
  [Put(m, n, <<[text |-> s, object |-> m.strings + 1]>>) EXCEPT !.strings = @ + 1]
NewObject(m, n, a) == [Put(m, n, <<Len(m.heap) + 1>>) EXCEPT !.heap = Append(@, a)]

(* Arrays.equals and Arrays.deepEquals; floats are the same if their bits  *)
(* are.                                                                    *)
RECURSIVE SameArray(_, _, _)
SameArray(heap, a, b) ==
  LET p == heap[a] q == heap[b]
  IN  /\ Len(p.cells) = Len(q.cells)
      /\ \A i \in DOMAIN p.cells :
           IF p.element[1] = "[" THEN SameArray(heap, p.cells[i], q.cells[i])
           ELSE IF p.element = <<"String">> THEN p.cells[i].text = q.cells[i].text
           ELSE p.cells[i] = q.cells[i]

(* String.compareTo: the difference at the first place where they differ. *)
CompareTo(s, t) ==
  LET differ == {i \in 1 .. Min({Len(s), Len(t)}) : s[i] # t[i]}
  IN  IF differ = {} THEN Len(s) - Len(t) ELSE s[Min(differ)] - t[Min(differ)]

ExecuteArithmetic(m, c, a, b) ==
  IF c.letter = "f" THEN Put(m, 2, <<OnFloats(c.operation, a, b)>>)
  ELSE IF c.operation \in {"/", "%"} /\ b = 0 THEN [m EXCEPT !.thrown = TRUE]
  ELSE Put(m, 2, <<Wrap(OnInts(c.operation, a, b), W)>>)

ExecuteTest(m, c) ==
  LET b == Peek(m.stack, 1)
      a == Peek(m.stack, 2)
      taken == CASE c.command = "if" -> CompareInts(c.condition, b, 0)
                 [] c.command = "if_icmp" -> CompareInts(c.condition, a, b)
                 [] c.command = "if_acmp" -> (a = b) = (c.condition = "==")
  IN  Put(m, IF c.command = "if" THEN 1 ELSE 2, <<IF taken THEN 0 ELSE 1>>)

ExecuteInvoke(m, c) ==
  LET a == Peek(m.stack, 1)
      b == Peek(m.stack, 2)
  IN  CASE c.name \in {"print", "println"} -> Put(m, 1, <<>>)
        [] c.name = "len" ->
             Put(m, 1, <<IF c.descriptor.pops[1] = <<"String">> THEN Len(a.text) ELSE Len(m.heap[a].cells)>>)
        [] c.name = "append" -> NewObject(m, 2, [m.heap[b] EXCEPT !.cells = Append(@, a)])
        [] c.name = "compare" -> Put(m, 2, <<CompareTo(b.text, a.text)>>)
        [] c.name = "equals" -> Put(m, 2, <<IF SameArray(m.heap, b, a) THEN 1 ELSE 0>>)
        [] c.name = "readString" -> NewString(m, 0, Input.readString)
        [] OTHER -> Put(m, 0, <<Input[c.name]>>)

RECURSIVE Execute(_, _)

ExecuteStep(m, c) ==
  LET a == Peek(m.stack, 1)
      b == Peek(m.stack, 2)
  IN  CASE m.thrown -> m
        [] c.op = "iconst" -> Put(m, 0, <<c.int>>)
        [] c.op = "fconst" -> Put(m, 0, <<c.float>>)
        [] c.op = "ldc_w" -> Put(m, 0, <<Interned(c.text)>>)
        [] c.op = "new String" -> NewString(m, 0, <<>>)
        [] c.op = "load" -> Put(m, 0, <<m.locals[c.name]>>)
        [] c.op = "store" -> [Put(m, 1, <<>>) EXCEPT !.locals = (c.name :> a) @@ @]
        [] c.op = "return" -> [Put(m, 1, <<>>) EXCEPT !.locals = ("result" :> a) @@ @]
        [] c.op = "negate" -> Put(m, 1, <<IF c.letter = "f" THEN NegFloat(a) ELSE Wrap(-a, W)>>)
        [] c.op = "arithmetic" -> ExecuteArithmetic(m, c, b, a)
        [] c.op = "concat" ->
             IF a.text = <<>> THEN Put(m, 1, <<>>) ELSE NewString(m, 2, b.text \o a.text)
        [] c.op \in {"fcmpl", "fcmpg"} ->
             Put(m, 2, <<IF LessFloat(b, a) THEN -1 ELSE IF EqualFloat(b, a) THEN 0
                         ELSE IF LessFloat(a, b) \/ c.op = "fcmpg" THEN 1 ELSE -1>>)
        [] c.op = "test" -> ExecuteTest(m, c)
        [] c.op \in LogicalOps ->
             IF (a = 0) = (c.op = "&&") THEN m ELSE Execute(Put(m, 1, <<>>), c.right)
        [] c.op = "newarray" ->
             NewObject(m, 1, [element |-> c.element, cells |-> [i \in 1 .. a |-> Initially(c.element)]])
        [] c.op = "dup" -> Put(m, 0, <<a>>)
        [] c.op = "dup2" -> Put(m, 0, <<b, a>>)
        [] c.op = "pop" -> Put(m, 1, <<>>)
        [] c.op = "xaload" ->
             IF a + 1 \in DOMAIN m.heap[b].cells THEN Put(m, 2, <<m.heap[b].cells[a + 1]>>)
             ELSE [m EXCEPT !.thrown = TRUE]
        [] c.op = "xastore" ->
             LET array == Peek(m.stack, 3)
             IN  IF b + 1 \in DOMAIN m.heap[array].cells
                   THEN [Put(m, 3, <<>>) EXCEPT !.heap[array].cells[b + 1] = a]
                   ELSE [m EXCEPT !.thrown = TRUE]
        [] c.op = "clone" -> NewObject(m, 1, m.heap[a])
        [] c.op = "invokestatic" -> ExecuteInvoke(m, c)
        [] c.op = "call" ->
             LET rest == Len(m.stack) - Len(c.names)
                 arguments == SubSeq(m.stack, rest + 1, Len(m.stack))
                 after == Execute([m EXCEPT !.stack = <<>>, !.locals = Frame(c.names, arguments)], c.body)
             IN  [after EXCEPT !.stack = SubSeq(m.stack, 1, rest), !.locals = m.locals]

Execute(m, code) == FoldLeft(ExecuteStep, m, code)
=============================================================================
