------------------------------- MODULE MCPackage -------------------------------
(***************************************************************************)
(* Small instances of CompiledPackage: up to three variables, one function *)
(* and main.  1 is loaded without an entry in the pool, 7 with one.  The   *)
(* packages are as they are after folding: no two literals are added up.   *)
(***************************************************************************)
EXTENDS CompiledPackage

One == <<Number("UntypedInt", 1)>>
Seven == <<Number("UntypedInt", 7)>>
Plus(x, e) == <<Read(x)>> \o e

Variable(ids, values) == Declaration(ids, NoType, values, FALSE)
Const(ids, values) == Declaration(ids, NoType, values, TRUE)
Typed(x, type, values) == Declaration(<<x>>, type, values, FALSE)

F(e) == Function("f", "Int", e)
Main(e) == Function("main", "Void", e)
PrintAll == Main(<<Apply("f"), Read("b")>>)

(* Three variables that may depend on each other, and a function that may  *)
(* read one of them.                                                       *)
Dependencies ==
  {<<Variable(<<"a">>, <<ea>>), Variable(<<"b">>, <<eb>>), Variable(<<"c">>, <<ec>>),
     F(ef), PrintAll>> :
     ea \in {Seven, <<Apply("f")>>, <<Read("b")>>},
     eb \in {One, Plus("a", Seven), <<Read("c")>>},
     ec \in {Seven, <<Apply("f"), Read("b")>>, <<Read("a")>>},
     ef \in {One, Plus("b", One)}}

(* Declarations of other shapes: constants, several names, blank names,    *)
(* strings, missing values, and names declared twice.                      *)
Shapes ==
  {Const(<<"a">>, <<e>>) : e \in {One, <<Read("b")>>, <<Apply("f")>>}}
  \cup {Typed("a", "Int", <<>>), Typed("c", "String", <<<<Text("f")>>>>)}
  \cup {Variable(<<"a", "c">>, e) : e \in {<<Seven, <<Read("b")>>>>, <<Seven>>}}
  \cup {Variable(<<"_", "_">>, <<<<Apply("f")>>, One>>), Variable(<<"f">>, <<One>>)}

OtherShapes ==
  {Const(<<"b">>, <<Seven>>), Typed("b", "Int", <<>>), Variable(<<"b">>, <<<<Read("a")>>>>),
   Variable(<<"b", "a">>, <<One, Seven>>), Const(<<"b", "c">>, <<Seven, <<Read("b")>>>>)}

Declarations ==
  {<<d, e, F(One), m>> : d \in Shapes, e \in OtherShapes, m \in {PrintAll, Main(<<>>)}}

MainErrorsOnly ==
  {<<F(One)>>, <<Function("main", "Int", One)>>, <<Main(<<Apply("main")>>)>>}

(* A floating-point variable, initialised with a number of either kind.    *)
FloatVariables ==
  {<<Typed("a", "Float", <<<<Number(t, 1)>>>>), Main(<<Read("a")>>)>> :
     t \in {"UntypedInt", "UntypedFloat"}}

(* A function that calls itself, and expressions with a function that is   *)
(* not called or has no result.                                            *)
OtherCalls ==
  {<<Variable(<<"b">>, <<e>>), F(<<Apply("f")>>), Main(<<>>)>> :
     e \in {One, <<Read("f")>>, <<Apply("main")>>}}
  \cup {<<Variable(<<"b">>, <<<<Apply("a")>>>>), Variable(<<"a">>, <<<<Read("f")>>>>), F(One), Main(<<>>)>>}

(* A function of each type over a variable of each type, whether it fits   *)
(* or not, and functions without a name.                                   *)
Blank(e) == Function("_", "Int", e)
Half(t) == <<Number(t, 1)>>

Types ==
  {<<v, Function("f", t, <<Read("a")>> \o e), Main(<<Apply("f")>>)>> :
     v \in {Typed("a", "Float", <<One>>), Const(<<"a">>, <<One>>), Variable(<<"a">>, <<Half("UntypedFloat")>>),
            Typed("a", "Int", <<Half("UntypedFloat")>>), Variable(<<"a">>, <<<<Text("a")>>>>)},
     t \in {"Int", "Float", "String"}, e \in {<<>>, One, Half("UntypedFloat"), <<Text("c")>>}}
  \cup {<<Variable(<<"a">>, <<<<Apply("f")>> \o e>>), Function("f", t, One), Main(<<Read("a")>>)>> :
        e \in {<<>>, Half("UntypedInt"), <<Text("c")>>}, t \in {"Int", "Float"}}
  \cup {<<Variable(<<"a">>, <<<<Apply("f"), Text("c")>>>>), Function("f", "String", <<Text("b")>>), Main(<<Read("a")>>)>>}
  \cup {<<Blank(One), Blank(e), Main(<<>>)>> : e \in {One, Seven}} \cup {<<Blank(Seven), Main(<<>>)>>}

MCPackages == Dependencies \cup Declarations \cup FloatVariables \cup MainErrorsOnly \cup OtherCalls \cup Types

Names == {"a", "b", "c", "_", "$_0", "$_1", "f", "main"}

(* c has a bucket of its own or shares that of a; the functions share one. *)
MCHashes ==
  {[x \in Names |-> CASE x \in {"a", "b", "c"} -> buckets[x]
                      [] x \in {"f", "main"} -> 4
                      [] OTHER -> 5] :
     buckets \in {[a |-> 1, b |-> 2, c |-> 3], [a |-> 1, b |-> 2, c |-> 1]}}

MCNumbers == {1, 7}
MCStrings ==
  Names \cup ToSet(BlankNames)
  \cup UNION {{d, "()" \o d, "([Ljava/lang/String;)" \o d, "(" \o d \o ")V"} : d \in Descriptors}
  \cup {"Code", ThisClass, Object, "<init>", "<clinit>", "$Base", "print",
        "java/lang/String", "concat", "(Ljava/lang/String;)Ljava/lang/String;"}
=============================================================================
