------------------------------- MODULE MCValues -------------------------------
(***************************************************************************)
(* Values for TLC: functions on numbers, strings, arrays, arrays of arrays *)
(* and slices.  An int has four bits.                                      *)
(***************************************************************************)
EXTENDS Values

Half == Floating(Float(1, 2))
OneAndHalf == Floating(Float(3, 2))
I == Id("i")
F == Id("f")
B == Id("b")
S == Id("s")
Of(x, n) == Access(Id(x), Integer(n))

X(e) == Declaration("x", AnyType, e)
XAs(t, e) == Declaration("x", t, e)
Binaries(ops, ls, rs) == {Binary(op, l, r) : op \in ops, l \in ls, r \in rs}

Orders == {"==", "<", ">="}

IntExpressions == Binaries(ArithmeticOps, {I, Integer(7), Unary("-", Integer(8))}, {I, Integer(2), Integer(0)})
Least == Binary("-", Unary("-", Integer(100)), Integer(28))
LargeExpressions ==
  {Binary("-", Binary("+", Integer(7), Integer(6)), Integer(8)), Binary("*", Integer(100), Integer(2)),
   Binary("-", Binary("*", Integer(100), Integer(2)), Integer(199)), Unary("-", I), Unary("+", Integer(3)),
   Binary("/", Binary("*", Integer(6), Integer(6)), Integer(7)), Binary("*", Integer(64), Integer(4)),
   Binary("/", Binary("*", Integer(100), Integer(2)), Integer(100)),
   Binary("/", Binary("*", Integer(64), Integer(8)), Binary("*", Integer(64), Integer(4)))}
    \cup Binaries({"/", "%"}, {Least}, {Unary("-", Integer(1)), Unary("-", Integer(2))})
FloatExpressions ==
  Binaries({"+", "*", "/", "%"}, {F, Half, Integer(2)}, {F, OneAndHalf, Integer(0)})
    \cup {Binary("+", I, F), Binary("+", I, Half), Unary("-", F), Binary("/", Integer(3), Integer(2)),
          Binary("/", Integer(3), Floating(FloatOf(2))), Binary("+", I, Floating(FloatOf(2)))}
NotANumber == Binary("/", Binary("-", F, F), Binary("-", F, F))
BooleanExpressions ==
  Binaries(Comparisons, {F, NotANumber, Half}, {F, OneAndHalf}) \cup Binaries({"==", "<"}, {I, Integer(1)}, {I, Integer(3), Half})
    \cup Binaries({"==", "<"}, {F}, {Integer(1), I})
    \cup Binaries(LogicalOps, {B, Binary("<", I, Integer(0)), Bool(TRUE)}, {B, Binary("==", Binary("/", Integer(6), Integer(0)), I),
         Binary("==", Binary("%", Integer(6), Binary("-", I, Integer(3))), I)})
    \cup {Unary("!", B), Unary("!", Bool(TRUE)), Unary("!", I), Unary("-", B), Binary("==", B, Bool(TRUE)), Binary("<", B, B),
          Binary("&&", I, B)}

NumberPrelude ==
  <<Declaration("i", IntType, Integer(3)), Declaration("f", FloatType, OneAndHalf),
    Declaration("b", AnyType, Bool(FALSE))>>

Scalars ==
  [prelude |-> NumberPrelude,
   body |-> {X(e) : e \in IntExpressions \cup LargeExpressions \cup FloatExpressions \cup BooleanExpressions}
              \cup {XAs(t, e) : t \in {IntType, FloatType}, e \in {Integer(3), Half, I, F, Floating(FloatOf(3)), Integer(9)}}
              \cup {XAs(FloatType, Binary("/", Least, Unary("-", Integer(n)))) : n \in {1, 2}}
              \cup {Returning(t, e) : t \in {IntType, FloatType, Boolean}, e \in {Integer(3), Half, I, F, B}},
   length |-> 1]

Updates ==
  [prelude |-> NumberPrelude,
   body |-> {OpAssignment(op, I, e) : op \in ArithmeticOps, e \in {Integer(2), I, F}}
              \cup {OpAssignment(op, F, e) : op \in {"+", "%"}, e \in {Integer(2), F}}
              \cup {Step(op, e) : op \in {"++", "--"}, e \in {I, F, B, Binary("+", I, I)}}
              \cup {Assignment(<<I>>, <<Unary("-", Integer(8))>>), Assignment(<<F, I>>, <<Integer(2), Integer(7)>>),
                    Assignment(<<I, Id(Blank)>>, <<Binary("+", I, I), I>>)},
   length |-> 2]

(* Texts of which the first comes before the second, by more than one      *)
(* place; the third is a part of the first.                                *)
A == <<1, 1>>
C == <<3>>
P == <<1>>

Words ==
  [prelude |-> <<Declaration("s", AnyType, Text(A)), Declaration("u", String, Text(C)), Declaration("v", AnyType, S)>>,
   body |-> {X(Binary(op, l, r)) : op \in Orders \cup {"+", "!="}, l \in {S, Text(A)}, r \in {S, Id("u"), Id("v"), Text(A), Text(C), Text(P), Text(<<>>)}}
              \cup {X(Callable("len", <<e>>)) : e \in {S, Text(P), Binary("+", S, S)}}
              \cup {X(Callable(f, <<>>)) : f \in DOMAIN ReadFunctions}
              \cup {X(Callable(f, <<S>>)) : f \in DOMAIN ReadFunctions}
              \cup {X(Unary("-", Callable("readInt", <<Integer(1)>>))), XAs(String, Callable("readString", <<S>>)),
                    X(Binary("+", Callable("readString", <<S>>), S)), X(Binary("+", Callable("readInt", <<S>>), Unary("!", S)))}
              \cup {X(Access(S, Integer(0))), X(Binary("-", S, S)), X(Callable("print", <<S>>)), Returning(String, Binary("+", S, S)),
                    Assignment(<<S, Id("u")>>, <<Id("u"), S>>), OpAssignment("+", S, Text(P)), Assignment(<<S>>, <<Integer(1)>>),
                    Printing(Binary("+", S, Id("u"))), Printing(Binary("<", S, Id("u")))},
   length |-> 2]

Ints(n) == ArrayType(n, IntType)
Given(es) == [i \in DOMAIN es |-> Element(NoKey, es[i])]

ArrayLiterals == {Composite(t, Given(es)) :
                t \in {ArrayType(2, IntType), ArrayType(2, FloatType), ArrayType(2, String), ArrayType(2, Boolean), SliceType(FloatType), SliceType(String)},
                es \in {<<>>, <<Integer(1)>>, <<Half, Integer(1), Integer(2)>>, <<Text(A), Id("s")>>, <<Bool(TRUE), Binary("<", I, Integer(2))>>}}

Creations ==
  [prelude |-> <<Declaration("i", IntType, Integer(0)), Declaration("s", AnyType, Text(C)),
                 Declaration("fs", AnyType, Composite(SliceType(FloatType), Given(<<Half>>))),
                 Declaration("ss", AnyType, Composite(SliceType(String), Given(<<Text(A)>>)))>>,
   body |-> {X(e) : e \in ArrayLiterals}
              \cup {X(Binary("==", l, r)) : l, r \in {Composite(ArrayType(2, String), Given(<<Text(A), S>>)), Composite(ArrayType(2, String), Given(<<S>>)),
                                                       Composite(ArrayType(2, FloatType), Given(<<Half>>))}}
              \cup {X(Composite(Ints(3), <<Element(2, Integer(5))>>)), X(Composite(Ints(2), <<Element(1, Integer(5)), Element(0, I)>>)),
                    X(Composite(Ints(2), <<Element(0, Integer(5)), Element(1, I)>>)),
                    X(Composite(ArrayType(2, Ints(2)), Given(<<Composite(Ints(2), Given(<<I>>))>>))),
                    X(Composite(ArrayType(2, ArrayType(1, String)), <<Elements(NoKey, Given(<<S>>))>>)),
                    X(Callable("append", <<Id("fs"), Half>>)), X(Callable("append", <<Id("fs"), Integer(1)>>)),
                    X(Callable("append", <<Id("fs"), Access(Id("fs"), I)>>)),
                    X(Callable("append", <<Id("ss"), S>>)), X(Binary("+", Access(Callable("append", <<Id("ss"), S>>), I), S)),
                    X(Callable("append", <<Composite(Ints(2), <<>>), I>>)),
                    X(Callable("len", <<Id("fs"), I>>)),
                    X(Binary("==", Id("fs"), Id("fs"))), Printing(Id("ss")), Printing(Id("fs")), Returning(SliceType(String), Id("ss")),
                    Assignment(<<Access(Id("ss"), I)>>, <<S>>), Assignment(<<Access(Id("fs"), I)>>, <<Integer(1)>>),
                    OpAssignment("+", Access(Id("fs"), I), Half), Step("++", Access(Id("fs"), I)), Step("++", Access(Id("ss"), I)),
                    Assignment(<<Access(Id("fs"), I)>>, <<I>>)},
   length |-> 1]

At(x, e) == Access(Id(x), e)
Copies ==
  [prelude |-> <<Declaration("i", IntType, Integer(0)),
                 Declaration("a", AnyType, Composite(Ints(2), Given(<<Integer(1), Integer(2)>>))), Declaration("b", AnyType, Id("a")),
                 Declaration("l", AnyType, Composite(SliceType(IntType), Given(<<Integer(1)>>))), Declaration("m", AnyType, Id("l"))>>,
   body |-> {X(Id("a")), X(Binary("==", Id("a"), Id("b"))), X(Callable("append", <<Id("l"), Integer(3)>>)), X(Callable("len", <<Id("l")>>)),
             X(Callable("len", <<Id("a")>>)), X(At("a", Integer(2))), X(At("l", Unary("-", Integer(1)))),
             X(Binary("&&", Binary("<", I, Callable("len", <<Id("l")>>)), Binary("==", At("l", I), Integer(1)))),
             Assignment(<<Id("a"), Id("b")>>, <<Id("b"), Id("a")>>), Assignment(<<Id("l")>>, <<Callable("append", <<Id("m"), I>>)>>),
             Assignment(<<At("a", I), I>>, <<Integer(7), At("b", I)>>), Assignment(<<I, At("a", I)>>, <<Integer(1), I>>),
             Assignment(<<At("a", I), At("a", Binary("-", Integer(1), I))>>, <<At("a", Binary("-", Integer(1), I)), At("a", I)>>),
             Assignment(<<Id("a"), At("a", I)>>, <<Id("b"), Integer(5)>>), Assignment(<<At("a", I), Id("a")>>, <<Integer(5), Id("b")>>),
             Assignment(<<Id("l"), At("l", I)>>, <<Id("m"), Integer(5)>>), Assignment(<<At("l", I)>>, <<Integer(6)>>), Assignment(<<I>>, <<Integer(2)>>),
             Step("++", At("a", I)), Step("--", At("l", I)), Step("++", I), OpAssignment("+", At("a", I), Integer(2)),
             Calling(<<Id("a"), Id("l")>>), Calling(<<Id("b"), Callable("append", <<Id("l"), I>>)>>), Calling(<<Id("l"), Id("l")>>),
             Printing(Id("a")), Printing(At("l", I)), Returning(Ints(2), Id("a")), Returning(SliceType(IntType), Id("l"))},
   length |-> 3]

Grids ==
  [prelude |-> <<Declaration("i", IntType, Integer(1)),
                 Declaration("n", AnyType, Composite(ArrayType(2, Ints(2)), <<Elements(NoKey, Given(<<Integer(1), Integer(2)>>))>>)),
                 Declaration("r", AnyType, Access(Id("n"), Integer(0)))>>,
   body |-> {X(Id("n")), X(Binary("==", Id("n"), Id("n"))), X(Binary("==", At("n", I), Id("r"))), X(Callable("len", <<At("n", I)>>)),
             Assignment(<<At("n", I)>>, <<Id("r")>>), Assignment(<<At("n", I), Id("r")>>, <<Id("r"), At("n", I)>>),
             Assignment(<<At("n", I), At("n", Integer(0))>>, <<At("n", Integer(0)), At("n", I)>>),
             Assignment(<<At("n", I), Access(At("n", I), I)>>, <<Id("r"), Integer(4)>>),
             Assignment(<<Access(At("n", I), I)>>, <<I>>), Step("++", Access(At("n", Integer(0)), I)), Step("++", I), Step("--", I),
             Assignment(<<At("r", I)>>, <<Access(At("n", I), Integer(0))>>), Calling(<<At("n", I), Composite(SliceType(IntType), Given(<<I>>))>>),
             Printing(Id("n")), Printing(At("n", I))},
   length |-> 3]

MCFunctions ==
  [scalars |-> Scalars, updates |-> Updates, words |-> Words, creations |-> Creations, copies |-> Copies, grids |-> Grids]

MCCallee ==
  [parameters |-> <<[name |-> "p", type |-> Ints(2)], [name |-> "q", type |-> SliceType(IntType)]>>,
   body |-> <<At("p", Integer(0)), At("q", Integer(0))>>]
MCInput == [readInt |-> 5, readFloat |-> Float(1, 2), readString |-> P, readBool |-> 1]
===============================================================================
