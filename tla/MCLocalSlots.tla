----------------------------- MODULE MCLocalSlots -----------------------------
(***************************************************************************)
(* LocalSlots for TLC: two local names and a package variable, values of   *)
(* two types.                                                              *)
(***************************************************************************)
EXTENDS LocalSlots

Int(v) == [type |-> "Int", value |-> v]
Text(v) == [type |-> "String", value |-> v]

MCFields == <<[id |-> "g", value |-> Int("5")]>>
MCLiterals == {Int("1"), Text("s")}
MCTypes == {"Int", "String"}

MCPairValues ==
  {<<Literal(Int("1")), Literal(Text("s"))>>, <<Read("g"), Literal(Int("1"))>>,
   <<Read("y"), Read("x")>>}

Parameter(id, type) == [id |-> id, type |-> type]

MCParameterLists ==
  {<<>>,
   <<Parameter("x", "String"), Parameter("y", "Int")>>,
   <<Parameter("x", "Int"), Parameter("x", "Int")>>,
   <<Parameter("x", "Int"), Parameter(Blank, "String")>>,
   <<Parameter(Blank, "String"), Parameter("x", "Int")>>}
===============================================================================
