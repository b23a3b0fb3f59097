------------------------------- MODULE GoScopes -------------------------------
(***************************************************************************)
(* External: names and variables in a function, as the Go language has     *)
(* them.  The reference that LocalSlots compares the compiler with.        *)
(* Each operator gives the state after a statement.                        *)
(***************************************************************************)
EXTENDS Context

CONSTANTS
  Names,           (* of local variables                                   *)
  Fields,          (* the package's variables, a sequence of [id, value]   *)
  Literals,        (* values [type, value] that literals denote            *)
  Types            (* the types that declarations name                     *)

VARIABLE go
(* scopes   the blocks around the statement, outermost first: the package, *)
(*          the function with its parameters, and the blocks opened in it; *)
(*          each is a function from the names that it declares             *)
(* broken   the rules that the function breaks: from then on the rest of   *)
(*          the state does not matter, and stays                           *)
(* met      constructions for which the properties make exceptions         *)

NoType == "none"
Unset == [type |-> "unset", value |-> "none"]
Zero(type) == [type |-> type, value |-> "zero"]

(* Expressions: literals and names.                                        *)
Literal(v) == [kind |-> "literal", value |-> v, name |-> Blank]
Read(x)    == [kind |-> "read", value |-> Unset, name |-> x]
FieldIds == {Fields[i].id : i \in DOMAIN Fields}
FieldIndex(x) == CHOOSE i \in DOMAIN Fields : Fields[i].id = x
ProgramIds == Names \cup FieldIds
Expressions == {Literal(v) : v \in Literals} \cup {Read(x) : x \in ProgramIds}
ReadBy(es) == {es[i].name : i \in {k \in DOMAIN es : es[k].kind = "read"}}

Block == Len(go.scopes)
InScope(x) == x \in DOMAIN go.scopes[Block]

(* The blocks that declare a name; it stands for the variable of the       *)
(* innermost one.                                                          *)
Visible(x) == {d \in DOMAIN go.scopes : x \in DOMAIN go.scopes[d]}
Home(x) == CHOOSE d \in Visible(x) : \A c \in Visible(x) : c <= d
GoVariable(x) == go.scopes[Home(x)][x]
GoValue(e) == IF e.kind = "literal" THEN e.value ELSE GoVariable(e.name).value

Variable(value, isConst, isArgument) ==
  [value |-> value, isConst |-> isConst, isArgument |-> isArgument, used |-> FALSE]

Rule(holds, name) == IF holds THEN {} ELSE {name}
Meets(condition, name) == IF condition THEN {name} ELSE {}
Distinct(ids) == \A i, j \in DOMAIN ids : i < j => ids[i] # ids[j] \/ ids[i] = Blank

Defined(es) == \A x \in ReadBy(es) : Visible(x) # {}
ReadsZero(es) == \E x \in ReadBy(es) : GoVariable(x).value.value = "zero"

(* The names that a list declares, and where it does. *)
Declared(ids) == {ids[i] : i \in DOMAIN ids} \ {Blank}
Position(ids, x) == CHOOSE i \in DOMAIN ids : ids[i] = x

(* The variables after those that es reads are used. *)
Used(es) ==
  [d \in DOMAIN go.scopes |->
    [x \in DOMAIN go.scopes[d] |->
      IF x \in ReadBy(es) /\ d = Home(x)
        THEN [go.scopes[d][x] EXCEPT !.used = TRUE] ELSE go.scopes[d][x]]]

(* The last block has the variables of new besides, or instead of, its own. *)
Extended(scopes, new) ==
  [scopes EXCEPT ![Len(scopes)] =
    [x \in DOMAIN @ \cup DOMAIN new |-> IF x \in DOMAIN new THEN new[x] ELSE @[x]]]

(* What a statement does to Go's state: the rules it breaks, or else what  *)
(* it meets and the variables it leaves.                                   *)
GoStep(broken, met, scopes) ==
  IF go.broken # {} THEN go
  ELSE IF broken # {} THEN [scopes |-> go.scopes, broken |-> broken, met |-> go.met]
  ELSE [scopes |-> scopes, broken |-> {}, met |-> go.met \cup met]

Ids(ps) == [i \in DOMAIN ps |-> ps[i].id]
Argument(ps, i) == [type |-> ps[i].type, value |-> <<"first", "second", "third">>[i]]

ArgumentVariables(ps) ==
  [x \in Declared(Ids(ps)) |-> Variable(Argument(ps, Position(Ids(ps), x)), FALSE, TRUE)]

BlankBefore(ids) == \E i, j \in DOMAIN ids : i < j /\ ids[i] = Blank /\ ids[j] # Blank

GoArguments(ps) ==
  GoStep(Rule(Distinct(Ids(ps)), "repeated parameter"),
         Meets(BlankBefore(Ids(ps)), "blank parameter"),
         Append(go.scopes, ArgumentVariables(ps)))

DeclarationBreaks(ids, type, es, isConst) ==
  IF ~Defined(es) THEN {"undefined"}
  ELSE UNION {Rule(Distinct(ids) /\ \A i \in DOMAIN ids : ~InScope(ids[i]), "redeclared"),
              Rule(\A i \in DOMAIN es : type \in {NoType, GoValue(es[i]).type}, "type"),
              Rule(isConst => \A x \in ReadBy(es) : GoVariable(x).isConst, "constant")}

DeclaredVariables(ids, type, es, isConst) ==
  [x \in Declared(ids) |->
    Variable(IF es = <<>> THEN Zero(type) ELSE GoValue(es[Position(ids, x)]), isConst, FALSE)]

GoDeclaration(ids, type, es, isConst) ==
  GoStep(DeclarationBreaks(ids, type, es, isConst),
         Meets(ReadsZero(es), "reads zero")
           \cup Meets(\E i \in DOMAIN ids : ids[i] \in ReadBy(es), "reads itself"),
         Extended(Used(es), DeclaredVariables(ids, type, es, isConst)))

(* A short declaration declares the names that its scope does not have,    *)
(* and assigns to the others.                                              *)
Old(ids) == {i \in DOMAIN ids : InScope(ids[i])}

ShortBreaks(ids, es) ==
  IF ~Defined(es) THEN {"undefined"}
  ELSE UNION {Rule(Distinct(ids), "repeated"),
              Rule(\E i \in DOMAIN ids : i \notin Old(ids) /\ ids[i] # Blank, "nothing new"),
              Rule(\A i \in Old(ids) : LET v == GoVariable(ids[i])
                                       IN  ~v.isConst /\ v.value.type = GoValue(es[i]).type,
                   "reassigned")}

ShortVariables(ids, es) ==
  LET value(x) == GoValue(es[Position(ids, x)])
  IN  [x \in Declared(ids) |->
        IF InScope(x) THEN [Used(es)[Block][x] EXCEPT !.value = value(x)]
                      ELSE Variable(value(x), FALSE, FALSE)]

GoShort(ids, es) ==
  GoStep(ShortBreaks(ids, es),
         Meets(ReadsZero(es), "reads zero") \cup Meets(Old(ids) # {}, "redeclares")
           \cup Meets(\E i \in DOMAIN ids : ids[i] \in ReadBy(es), "reads itself"),
         Extended(Used(es), ShortVariables(ids, es)))

AssignmentBreaks(x, e) ==
  IF ~Defined(<<e>>) \/ (x # Blank /\ Visible(x) = {}) THEN {"undefined"}
  ELSE Rule(x # Blank => /\ ~GoVariable(x).isConst
                         /\ GoVariable(x).value.type = GoValue(e).type, "assigned")

AssignedVariables(x, e) ==
  IF x = Blank THEN Used(<<e>>) ELSE [Used(<<e>>) EXCEPT ![Home(x)][x].value = GoValue(e)]

GoAssignment(x, e) ==
  GoStep(AssignmentBreaks(x, e), Meets(ReadsZero(<<e>>), "reads zero"), AssignedVariables(x, e))

GoUse(e) ==
  GoStep(Rule(Defined(<<e>>), "undefined"), Meets(ReadsZero(<<e>>), "reads zero"), Used(<<e>>))

GoInit ==
  go = [scopes |-> <<[x \in FieldIds |-> Variable(Fields[FieldIndex(x)].value, FALSE, FALSE)]>>,
        broken |-> {}, met |-> {}]

GoOpen == GoStep({}, {}, Append(go.scopes, NoNames))

(* Every variable is read somewhere; parameters and constants need not be. *)
Unused == {x \in DOMAIN go.scopes[Block] :
             LET v == go.scopes[Block][x] IN ~v.used /\ ~v.isConst /\ ~v.isArgument}

GoClose == GoStep(Rule(Unused = {}, "unused"), {}, SubSeq(go.scopes, 1, Block - 1))
=============================================================================
