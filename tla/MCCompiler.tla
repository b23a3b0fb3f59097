------------------------------ MODULE MCCompiler ------------------------------
(***************************************************************************)
(* Small instances of CompiledProgram under the compiler of the            *)
(* repository: families of programs and the methods they call.  p and q    *)
(* return nothing, c and d a value, u takes an int.                        *)
(***************************************************************************)
EXTENDS CompiledProgram, Compiler

MCMethodRef == [p |-> 10, q |-> 11, c |-> 12, d |-> 13, u |-> 14, len |-> 15,
                p1 |-> 21, p2 |-> 22, p3 |-> 23]
MCConsumers == {"u"}
MCAskable == {"c", "d"}
MCAnswers == {0, 1}

(* Elements that differ from their indices. *)
MCArray == <<4, 3>>

Void(body) == Function(<<>>, body)
VoidAll(bodies) == {Void(b) : b \in bodies}
When(c, then) == If(<<>>, c, then, <<>>)

-----------------------------------------------------------------------------
(* Conditions: every Boolean expression of depth 2 over two calls.         *)

Deeper(S) == S \cup {Not(e) : e \in S} \cup {And(l, r) : l, r \in S}
               \cup {Or(l, r) : l, r \in S}

Conditions == Deeper(Deeper({Ask("c"), Ask("d")}))

ConditionPrograms ==
  VoidAll({<<If(<<>>, e, <<Call("p")>>, <<Block(<<Call("q")>>)>>)>> : e \in Conditions})

-----------------------------------------------------------------------------
(* Loops: each kind of loop, left or continued from a branch, and nested.  *)

Exits == {Break, Continue, Call("p")}

Branches(S) ==
  {When(Ask("c"), <<s>>) : s \in S}
  \cup {If(<<>>, Ask("c"), <<Call("p")>>, <<Block(<<s>>)>>) : s \in S}
  \cup {If(<<>>, Ask("c"), <<s>>, <<If(<<Call("p")>>, Ask("d"), <<Call("q")>>, <<>>)>>) : s \in S}

Loops(x, body) ==
  {For(<<Declare(x, Const(0))>>, Less(Var(x), Const(2)), <<Increment(x)>>, body),
   For(<<Declare(x, Const(0))>>, Less(Var(x), Const(2)), <<>>, <<Increment(x)>> \o body),
   ForRange(<<Var(x)>>, TRUE, "a", body)}

Whiles(c, body) == {While(c, body), For(<<>>, c, <<Call("q")>>, body)}

Single == UNION {Loops("i", <<Use("u", "i"), s, Call("q")>>)
                 \cup Whiles(Ask("d"), <<s, Call("p")>>)
                 \cup {While(True, <<Call("q"), s, When(Ask("c"), <<Break>>)>>)} :
                   s \in Exits \cup Branches(Exits)}

Inner == UNION {Loops("j", <<Use("u", "j"), When(Ask("c"), <<s>>)>>)
                \cup Whiles(Ask("d"), <<When(Ask("c"), <<s>>)>>) : s \in {Break, Continue}}

Nested == UNION {Loops("i", <<Use("u", "i"), inner, s, Use("u", "i")>>)
                 \cup Whiles(Ask("d"), <<inner, s>>) :
                   inner \in Inner, s \in Branches({Break, Continue})}

(* These make no call while they loop. *)
Quiet ==
  UNION {Loops("i", <<Declare("y", Var("i")), When(Equal(Var("y"), Const(0)), <<Continue>>),
                      Assign("PlusAssign", "y", Const(4)), Assign(type, "y", Const(2)),
                      Assign("SimpleAssign", "x", Var("y"))>>) :
         type \in {"PlusAssign", "MinusAssign", "MulAssign", "DivAssign", "ModAssign"}}

(* Range loops of every form over variables of their own or others.        *)
RangeLoops(body) ==
  {ForRange([k \in DOMAIN xs |-> Var(xs[k])], TRUE, "a", body) :
     xs \in {<<"i">>, <<"i", "v">>, <<"_", "v">>, <<"i", "_">>, <<"v", "i">>}}
  \cup {ForRange([k \in DOMAIN xs |-> Var(xs[k])], FALSE, "a", body) :
     xs \in {<<>>, <<"i">>, <<"_">>, <<"i", "v">>, <<"_", "v">>, <<"v", "i">>}}

UseBoth == <<Use("u", "i"), Use("u", "v")>>

RangeBodies ==
  {UseBoth \o <<s, Call("q")>> : s \in Exits \cup Branches(Exits)}
  \cup {<<Assign("MulAssign", "i", Const(2)), When(Ask("c"), <<Continue>>)>> \o UseBoth}
  \cup {UseBoth \o <<When(Ask("c"), <<s>>), inner>> \o UseBoth :
          s \in {Break, Continue}, inner \in RangeLoops(<<Use("u", "v"), When(Ask("d"), <<Continue>>)>>)}

IllegalRanges ==
  {ForRange(<<Var("i"), Var("v"), Var("x")>>, short, "a", <<>>) : short \in BOOLEAN}
  \cup {ForRange(<<Element("a", Const(0))>>, TRUE, "a", <<>>),
        ForRange(<<Var("i"), Element("a", Const(0))>>, TRUE, "a", <<Use("u", "i")>>)}

RangePrograms ==
  VoidAll({<<Declare("i", Const(5)), Declare("v", Const(2)), l>> \o UseBoth :
             l \in IllegalRanges \cup UNION {RangeLoops(b) : b \in RangeBodies}})

Straying == {When(Ask("c"), <<s>>) : s \in {Break, Continue, Fallthrough}}

LoopPrograms ==
  VoidAll({<<l, Call("p")>> : l \in Single \cup Nested})
  \cup VoidAll({<<l, Use("u", "x")>> : l \in Quiet})
  \cup VoidAll({<<s>> : s \in Straying})
  \cup VoidAll({<<l, s>> : l \in Inner, s \in Straying})

-----------------------------------------------------------------------------
(* Switches of up to three clauses: the default anywhere or nowhere, each  *)
(* body ending in its own way, alone and in a loop.                        *)

Endings == {<<>>, <<Break>>, <<Fallthrough>>, <<When(Ask("d"), <<Break>>), Call("q")>>}

Cases(n) == {cs \in [1 .. n -> {<<>>, <<Ask("c")>>}] :
               \A i, j \in 1 .. n : cs[i] = <<>> /\ cs[j] = <<>> => i = j}

Label(i) == <<Call("p1"), Call("p2"), Call("p3")>>[i]

Switches(n, Ends) ==
  {Switch(<<>>, Var("x"), [i \in 1 .. n |-> Clause(cs[i], <<Label(i)>> \o ends[i])]) :
     cs \in Cases(n), ends \in [1 .. n -> Ends]}

InLoop(s) == While(Ask("d"), <<s, Call("q")>>)

Leaving == {<<>>, <<Continue>>, <<When(Ask("d"), <<Continue>>)>>, <<Fallthrough>>}

(* A loop or a switch inside a clause, and what may follow it there.       *)
Inside == {While(Ask("d"), <<When(Ask("c"), <<s>>), Call("p")>>) : s \in {Break, Continue}}
          \cup Switches(2, {<<>>, <<Break>>})

Enclosing ==
  {Switch(<<>>, Var("x"), <<Clause(k[1], <<Label(1), s>> \o end), Clause(k[2], <<Call("q")>>)>>) :
     k \in {<< <<Ask("c")>>, <<>> >>, << <<>>, <<Ask("c")>> >>}, s \in Inside,
     end \in {<<>>, <<Break>>, <<Fallthrough>>}}

TwoDefaults == Switch(<<>>, Var("x"), <<Clause(<<>>, <<Call("p1")>>), Clause(<<>>, <<>>)>>)

(* Switches, and branches, at the end of a function with a result.         *)
Result(n) == Return(<<Const(n)>>)
Finals == {<<Result(1)>>, <<Call("p")>>, <<When(Ask("c"), <<Result(1)>>)>>}
Returning ==
  {<<If(<<Declare("y", Ask("d"))>>, Equal(Var("y"), Const(1)), t, <<Block(e)>>)>> :
     t \in Finals, e \in Finals}
  \cup {<<Switch(<<Call("p")>>, Var("x"), <<Clause(k, t), Clause(<<Ask("c")>>, e)>>)>> :
     k \in {<<>>, <<Ask("d")>>}, t \in Finals, e \in Finals}
  \cup {<<Block(t), Result(0)>> : t \in Finals}

SwitchPrograms ==
  VoidAll({<<s, Call("p")>> : s \in UNION {Switches(n, Endings) : n \in 1 .. 3}})
  \cup VoidAll({<<InLoop(s)>> : s \in UNION {Switches(n, Leaving) : n \in 1 .. 2}})
  \cup VoidAll({<<s, Call("p")>> : s \in Enclosing} \cup {<<InLoop(s)>> : s \in Enclosing})
  \cup VoidAll({<<TwoDefaults>>})
  \cup {Function(<<"int">>, b) : b \in Returning}
MCPrograms == ConditionPrograms \cup LoopPrograms \cup RangePrograms \cup SwitchPrograms

-----------------------------------------------------------------------------
(* Programs the compiler gets wrong, one family per run that shows it.     *)

(* for d() { p(); break } where p has the index 251 = 0xFB in the pool.    *)
CrowdedMethodRef == [MCMethodRef EXCEPT !.p = BREAK_FILLER]
FillerPrograms == {Void(<<While(Ask("d"), <<Call("p"), Break>>)>>)}

Counting(step, body) ==
  For(<<Declare("i", Const(0))>>, Less(Var("i"), Const(2)), <<step>>, body)

(* for i := 0; i < 2; i += 1 { u(i) }                                      *)
CompoundStepPrograms ==
  {Void(<<Counting(Assign("PlusAssign", "i", Const(1)), <<Use("u", "i")>>)>>)}

(* switch x { case c(): switch x { default: p() }; if d() { break }; q() } *)
NestedSwitchPrograms ==
  {Void(<<Switch(<<>>, Var("x"),
            <<Clause(<<Ask("c")>>,
                     <<Switch(<<>>, Var("x"), <<Clause(<<>>, <<Call("p")>>)>>),
                       When(Ask("d"), <<Break>>), Call("q")>>)>>)>>)}
===============================================================================
