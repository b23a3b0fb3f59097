------------------------------ MODULE ReadsProofs ------------------------------
(***************************************************************************)
(* Proofs about LocalSlots: what the generated code reads from a name is   *)
(* what Go reads, and the JVM accepts the code.                            *)
(*                                                                         *)
(* The inductive invariant says that the scopes of the generator have the  *)
(* names of Go's blocks, and that the slot of each variable that is not    *)
(* hidden in its own block holds the value that Go gives to it.            *)
(***************************************************************************)
EXTENDS LocalSlotsProofs

-----------------------------------------------------------------------------
(* The generator has two scopes where Go has one block: the arguments and  *)
(* the body.  This is the block that a scope belongs to.                   *)
Level(c) == IF c <= 2 THEN c ELSE c - 1

Covers(context, blocks) ==
  /\ \A c \in DOMAIN context :
       Level(c) \in DOMAIN blocks /\ DOMAIN context[c] \subseteq DOMAIN blocks[Level(c)]
  /\ \A d \in DOMAIN blocks : \A x \in DOMAIN blocks[d] :
       \E c \in DOMAIN context : Level(c) = d /\ x \in DOMAIN context[c]

(* The names of the package stand for fields, all others for slots.        *)
Refs(context) ==
  \A c \in DOMAIN context : \A x \in DOMAIN context[c] :
    IF c = 1 THEN x \in FieldIds /\ context[c][x] = RefConstant(FieldIndex(x), FALSE)
             ELSE context[c][x].isLocal

(* A short declaration gives an argument a second slot, in the scope of    *)
(* the body; from then on this is the one that counts.                     *)
Shown(context, c, x) ==
  /\ c \in DOMAIN context
  /\ x \in DOMAIN context[c]
  /\ ~(c = 2 /\ 3 \in DOMAIN context /\ x \in DOMAIN context[3])

Holds(m, ref, v) ==
  IF ref.isLocal THEN v.value # "zero" => m.locals[Slot(ref)] = v
                 ELSE m.statics[ref.index] = v

Holding(context, blocks, m) ==
  \A c \in DOMAIN context : \A x \in DOMAIN context[c] :
    Shown(context, c, x) => Holds(m, context[c][x], blocks[Level(c)][x].value)

(* Every value has a type.                                                 *)
Valued(blocks) ==
  \A d \in DOMAIN blocks : \A x \in DOMAIN blocks[d] : blocks[d][x].value.type \in Types

Machine(m) ==
  \E V : m \in [locals : [0 .. (SlotLimit - 1) -> V], statics : [DOMAIN Fields -> V],
                places : Nat, refused : BOOLEAN]

Readable(g, blocks, m, number) ==
  /\ Machine(m)
  /\ Covers(g.context, blocks)
  /\ Refs(g.context)
  /\ Holding(g.context, blocks, m)
  /\ Valued(blocks)
  /\ ~m.refused
  /\ m.places <= number

Reading ==
  /\ stage = "signature" => Readable(generator, go.scopes, jvm, 0)
  /\ stage = "body" /\ Handled =>
       Readable(generator, go.scopes, jvm, analysis.numberLocalVariables)
  /\ stage = "done" /\ Handled => ~jvm.refused

-----------------------------------------------------------------------------
(* The slots of the generator.                                             *)

(* The generator in the body of a function, for a frame of number places.  *)
Placed(g, blocks, number) ==
  /\ Sound(g.context, g.indexCurrentLocalVariable)
  /\ g.indexCurrentLocalVariable <= number
  /\ number \in Nat
  /\ number <= SlotLimit
  /\ \E S : blocks \in Seq(S)
  /\ Len(blocks) >= 2
  /\ Len(g.context) = Len(blocks) + 1

LEMMA BodyPlaced ==
  ASSUME Inv, Named, stage = "body", Handled
  PROVE  Placed(generator, go.scopes, analysis.numberLocalVariables)
<1>1. Body(analysis, generator) /\ Matches(analysis.scopesDeclarations, go.scopes, Exact(go.met))
  BY DEF Inv, Named, Handled
<1>2. analysis.numberLocalVariables \in Nat
  BY DEF Inv, Analysis
<1> QED BY <1>1, <1>2 DEF Body, Matches, Placed, Handled

LEMMA PlacedContext ==
  ASSUME NEW g, NEW blocks, NEW number, Placed(g, blocks, number)
  PROVE  /\ \E S : g.context \in Seq(S)
         /\ g.context # <<>>
         /\ DOMAIN g.context = 1 .. (Len(blocks) + 1)
         /\ DOMAIN blocks = 1 .. Len(blocks)
         /\ Len(blocks) \in Nat /\ Len(blocks) >= 2
         /\ Len(g.context) = Len(blocks) + 1
         /\ g.indexCurrentLocalVariable \in Nat
<1>1. PICK S : g.context \in Seq(S)
  BY DEF Placed, Sound
<1>2. PICK T : blocks \in Seq(T)
  BY DEF Placed
<1>3. Len(blocks) \in Nat /\ DOMAIN blocks = 1 .. Len(blocks)
  BY <1>2, LenProperties
<1>4. DOMAIN g.context = 1 .. Len(g.context)
  BY <1>1, LenProperties
<1> QED BY <1>1, <1>3, <1>4 DEF Placed, Sound

(* As long as there are not too many variables, a slot is its number.      *)
LEMMA SlotIs ==
  ASSUME NEW context, NEW limit, Sound(context, limit), limit <= SlotLimit,
         NEW c \in DOMAIN context, NEW x \in DOMAIN context[c], context[c][x].isLocal
  PROVE  /\ Slot(context[c][x]) = context[c][x].index
         /\ Slot(context[c][x]) \in 0 .. (SlotLimit - 1)
         /\ Slot(context[c][x]) < limit
<1>1. x \in LocalRefs(context[c])
  BY DEF LocalRefs
<1>2. context[c][x].index \in Nat /\ context[c][x].index < limit /\ limit \in Nat
  BY <1>1 DEF Sound, SlotsBelow
<1>3. \A i \in Nat : i < SlotLimit => i % SlotLimit = i
  BY SlotLimitAssumption
<1>4. context[c][x].index < SlotLimit
  BY <1>2, SlotLimitAssumption
<1> QED BY <1>2, <1>3, <1>4, SlotLimitAssumption DEF Slot

(* What Number does to the context.                                        *)
LEMMA NumberIs ==
  ASSUME NEW g, NEW S, g.context \in Seq(S), g.context # <<>>, g.indexCurrentLocalVariable \in Nat,
         NEW T, NEW ids \in Seq(T)
  PROVE  LET old == g.context
             new == Number(g, ids).context
             n == Len(g.context)
         IN  /\ \E U : new \in Seq(U)
             /\ Len(new) = n /\ n \in Nat /\ DOMAIN new = 1 .. n /\ DOMAIN old = 1 .. n /\ n >= 1
             /\ \A d \in 1 .. n : d # n => new[d] = old[d]
             /\ DOMAIN new[n] = DOMAIN old[n] \cup AddedNames(ids)
             /\ \A x \in DOMAIN old[n] : x \notin AddedNames(ids) => new[n][x] = old[n][x]
             /\ \A x \in AddedNames(ids) :
                  /\ new[n][x] = RefConstant(g.indexCurrentLocalVariable + Rank(ids, AddedLast(ids, x)), TRUE)
                  /\ Rank(ids, AddedLast(ids, x)) \in Nat
<1> DEFINE old == g.context
           n == Len(old)
           elements == [i \in DOMAIN ids |->
                         RefConstant(g.indexCurrentLocalVariable + Cardinality({j \in Added(ids) : j < i}), TRUE)]
           new == addAll(old, ids, elements)
<1>1. Number(g, ids).context = new
  BY DEF Number
<1>2. ASSUME NEW x \in AddedNames(ids)
      PROVE  /\ elements[AddedLast(ids, x)] = RefConstant(g.indexCurrentLocalVariable + Rank(ids, AddedLast(ids, x)), TRUE)
             /\ Rank(ids, AddedLast(ids, x)) \in Nat
  <2>1. AddedLast(ids, x) \in Added(ids)
    BY AddedLastIs DEF AddedNames
  <2>2. AddedLast(ids, x) \in DOMAIN ids
    BY <2>1 DEF Added
  <2>3. Rank(ids, AddedLast(ids, x)) \in Nat
    BY <2>1, Ranks
  <2> QED BY <2>2, <2>3 DEF Rank
<1> HIDE DEF elements
<1>3. /\ \E U : addAll(g.context, ids, elements) \in Seq(U)
      /\ Len(addAll(g.context, ids, elements)) = Len(g.context)
      /\ \A d \in 1 .. Len(g.context) : d # Len(g.context) => addAll(g.context, ids, elements)[d] = g.context[d]
      /\ addAll(g.context, ids, elements)[Len(g.context)] =
           [x \in DOMAIN g.context[Len(g.context)] \cup AddedNames(ids) |->
             IF x \in AddedNames(ids) THEN elements[AddedLast(ids, x)] ELSE g.context[Len(g.context)][x]]
  <2>1. PICK scopes \in Seq(S) : scopes = g.context
    OBVIOUS
  <2>2. scopes # <<>>
    BY <2>1
  <2>3. /\ \E U : addAll(scopes, ids, elements) \in Seq(U)
        /\ Len(addAll(scopes, ids, elements)) = Len(scopes)
        /\ \A d \in 1 .. Len(scopes) : d # Len(scopes) => addAll(scopes, ids, elements)[d] = scopes[d]
        /\ addAll(scopes, ids, elements)[Len(scopes)] =
             [x \in DOMAIN scopes[Len(scopes)] \cup AddedNames(ids) |->
               IF x \in AddedNames(ids) THEN elements[AddedLast(ids, x)] ELSE scopes[Len(scopes)][x]]
    BY <2>2, AddAll, ZenonT(60)
  <2> QED BY <2>1, <2>3
<1> HIDE DEF new
<1>4. /\ \E U : new \in Seq(U)
      /\ Len(new) = n
      /\ \A d \in 1 .. n : d # n => new[d] = old[d]
      /\ new[n] = [x \in DOMAIN old[n] \cup AddedNames(ids) |->
                    IF x \in AddedNames(ids) THEN elements[AddedLast(ids, x)] ELSE old[n][x]]
  BY <1>3 DEF new
<1>5. n \in Nat /\ n >= 1 /\ DOMAIN old = 1 .. n
  <2>1. old \in Seq(S) /\ old # <<>>
    OBVIOUS
  <2> HIDE DEF old
  <2>2. Len(old) \in Nat /\ DOMAIN old = 1 .. Len(old) /\ Len(old) # 0
    BY <2>1, LenProperties, EmptySeq
  <2> QED BY <2>2
<1>6. DOMAIN new = 1 .. n
  <2>1. PICK U : new \in Seq(U)
    BY <1>4
  <2> HIDE DEF old, n
  <2> QED BY <1>4, <2>1, LenProperties
<1> HIDE DEF n, old
<1>7. /\ DOMAIN new[n] = DOMAIN old[n] \cup AddedNames(ids)
      /\ \A x \in DOMAIN old[n] : x \notin AddedNames(ids) => new[n][x] = old[n][x]
      /\ \A x \in AddedNames(ids) : new[n][x] = elements[AddedLast(ids, x)]
  BY <1>4
<1> QED BY <1>1, <1>2, <1>4, <1>5, <1>6, <1>7 DEF n, old

(* The generator means by a name the slot that holds the variable that Go  *)
(* means.                                                                  *)
LEMMA ShownIs ==
  ASSUME NEW g, NEW number, Placed(g, go.scopes, number), Covers(g.context, go.scopes), NEW x, Visible(x) # {}
  PROVE  LET c == Innermost(g.context, x)
         IN  /\ Declares(g.context, x)
             /\ c \in DOMAIN g.context /\ x \in DOMAIN g.context[c]
             /\ Shown(g.context, c, x)
             /\ Level(c) = Home(x)
             /\ Home(x) \in DOMAIN go.scopes /\ x \in DOMAIN go.scopes[Home(x)]
<1>1. PICK S : g.context \in Seq(S)
  BY PlacedContext
<1>2. PICK T : go.scopes \in Seq(T)
  BY DEF Placed
<1> DEFINE n == Len(go.scopes)
           context == g.context
<1>3. n \in Nat /\ n >= 2 /\ DOMAIN context = 1 .. (n + 1) /\ DOMAIN go.scopes = 1 .. n
  BY PlacedContext
<1>4. Home(x) \in Visible(x) /\ \A d \in Visible(x) : d <= Home(x)
  BY <1>2, HomeIs
<1>5. Home(x) \in 1 .. n /\ x \in DOMAIN go.scopes[Home(x)]
  BY <1>3, <1>4 DEF Visible
<1>6. PICK b \in DOMAIN context : Level(b) = Home(x) /\ x \in DOMAIN context[b]
  BY <1>3, <1>5 DEF Covers
<1>7. Declares(context, x)
  BY <1>6 DEF Declares
<1> DEFINE c == Innermost(context, x)
<1>8. /\ c \in DOMAIN context
      /\ x \in DOMAIN context[c]
      /\ \A d \in DOMAIN context : x \in DOMAIN context[d] => d <= c
  <2> HIDE DEF context
  <2>1. context \in Seq(S)
    BY <1>1 DEF context
  <2> QED BY <1>7, <2>1, InnermostIs
<1> HIDE DEF c
<1>9. Level(c) \in 1 .. n /\ Level(b) \in 1 .. n
  <2> HIDE DEF n, context
  <2> QED BY <1>3, <1>6, <1>8 DEF Level
<1>10. Level(c) \in Visible(x)
  BY <1>3, <1>8, <1>9 DEF Covers, Visible
<1>11. Level(b) <= Level(c)
  <2> HIDE DEF n, context
  <2>1. b <= c /\ b \in Nat /\ c \in Nat
    BY <1>3, <1>6, <1>8
  <2> QED BY <2>1 DEF Level
<1>12. Level(c) = Home(x)
  <2> HIDE DEF n, context
  <2> QED BY <1>4, <1>5, <1>6, <1>9, <1>10, <1>11
<1>13. Shown(context, c, x)
  <2> HIDE DEF n, context
  <2>1. 3 \in DOMAIN context /\ x \in DOMAIN context[3] => 3 <= c
    BY <1>8
  <2> QED BY <1>3, <1>8, <2>1 DEF Shown
<1> QED BY <1>3, <1>5, <1>7, <1>8, <1>12, <1>13 DEF c

-----------------------------------------------------------------------------
(* What the code pushes for an expression.                                 *)

(* Neither a field nor the slot of a variable holds anything but its value. *)
LEMMA PushedIs ==
  ASSUME NEW g, NEW a, NEW m, NEW number, Placed(g, go.scopes, number),
         Covers(g.context, go.scopes), Refs(g.context), Holding(g.context, go.scopes, m), Valued(go.scopes),
         NEW e \in Expressions,
         e.kind = "read" => Visible(e.name) # {} /\ GoVariable(e.name).value.value # "zero",
         ExpressionType(a, e) = GoValue(e).type
  PROVE  /\ Pushed(m, g, a, e) = GoValue(e)
         /\ GoValue(e).type \in Types
         /\ e.kind = "read" => GoValue(e) # Unset /\ Places(g, e.name) \in Nat /\ Places(g, e.name) <= number
<1>1. CASE e.kind = "literal"
  <2>1. e.value \in Literals
    BY <1>1, Kinds
  <2> QED BY <1>1, <2>1, TypesAssumption DEF Pushed, GoValue
<1>2. CASE e.kind = "read"
  <2> DEFINE x == e.name
             c == Innermost(g.context, x)
             ref == g.context[c][x]
             v == GoVariable(x).value
  <2>1. GoValue(e) = v
    BY <1>2 DEF GoValue
  <2>2. /\ c \in DOMAIN g.context /\ x \in DOMAIN g.context[c]
        /\ Shown(g.context, c, x)
        /\ Level(c) = Home(x)
        /\ Home(x) \in DOMAIN go.scopes /\ x \in DOMAIN go.scopes[Home(x)]
    BY <1>2, ShownIs
  <2>3. v = go.scopes[Level(c)][x].value
    BY <2>2 DEF GoVariable
  <2>4. v.type \in Types
    BY <2>2, <2>3 DEF Valued
  <2>5. Holds(m, ref, v)
    BY <2>2, <2>3 DEF Holding
  <2>6. find(g.context, x) = ref
    BY DEF find
  <2>7. v # Unset
    BY <2>4, TypesAssumption
  <2> HIDE DEF c, v, ref
  <2>8. CASE ref.isLocal
    <3>1. v.value # "zero"
      BY <1>2 DEF v
    <3>2. m.locals[Slot(ref)] = v
      BY <2>5, <2>8, <3>1 DEF Holds
    <3>3. Pushed(m, g, a, e) = v
      BY <1>2, <2>1, <2>6, <2>8, <3>2 DEF Pushed
    <3>4. Slot(ref) \in 0 .. (SlotLimit - 1) /\ Slot(ref) < g.indexCurrentLocalVariable
      <4>1. Sound(g.context, g.indexCurrentLocalVariable) /\ g.indexCurrentLocalVariable <= SlotLimit
        <5>1. g.indexCurrentLocalVariable \in Nat
          BY PlacedContext
        <5> QED BY <5>1, SlotLimitAssumption DEF Placed
      <4> QED BY <2>2, <2>8, <4>1, SlotIs DEF ref
    <3>5. Places(g, x) = Slot(ref) + 1
      BY <2>6, <2>8 DEF Places
    <3>6. g.indexCurrentLocalVariable <= number /\ number \in Nat /\ g.indexCurrentLocalVariable \in Nat
      BY PlacedContext DEF Placed
    <3>7. Slot(ref) \in Nat
      BY <3>4, SlotLimitAssumption
    <3> QED BY <2>1, <2>4, <2>7, <3>3, <3>4, <3>5, <3>6, <3>7
  <2>9. CASE ~ref.isLocal
    <3>1. m.statics[ref.index] = v
      BY <2>5, <2>9 DEF Holds
    <3>2. Pushed(m, g, a, e) = v
      BY <1>2, <2>6, <2>9, <3>1 DEF Pushed
    <3>3. Places(g, x) = 0 /\ number \in Nat
      BY <2>6, <2>9 DEF Places, Placed
    <3> QED BY <2>1, <2>4, <2>7, <3>2, <3>3
  <2> QED BY <2>8, <2>9
<1> QED BY <1>1, <1>2, Kinds

(* A declaration does not change what the other names stand for.           *)
LEMMA FindKept ==
  ASSUME NEW g, NEW S, g.context \in Seq(S), g.context # <<>>, g.indexCurrentLocalVariable \in Nat,
         NEW T, NEW ids \in Seq(T), NEW x, Declares(g.context, x), x \notin AddedNames(ids)
  PROVE  find(Number(g, ids).context, x) = find(g.context, x)
<1> DEFINE old == g.context
           new == Number(g, ids).context
           n == Len(old)
<1>1. /\ \E U : new \in Seq(U)
      /\ n \in Nat /\ DOMAIN new = 1 .. n /\ DOMAIN old = 1 .. n
      /\ \A d \in 1 .. n : d # n => new[d] = old[d]
      /\ DOMAIN new[n] = DOMAIN old[n] \cup AddedNames(ids)
      /\ \A y \in DOMAIN old[n] : y \notin AddedNames(ids) => new[n][y] = old[n][y]
  BY NumberIs
<1>2. PICK U : new \in Seq(U)
  BY <1>1
<1>3. old \in Seq(S) /\ Declares(old, x)
  OBVIOUS
<1> HIDE DEF old, new, n
<1>4. \A d \in 1 .. n : x \in DOMAIN new[d] <=> x \in DOMAIN old[d]
  BY <1>1
<1>5. Declares(new, x)
  BY <1>1, <1>3, <1>4 DEF Declares
<1> DEFINE c == Innermost(old, x)
           d == Innermost(new, x)
<1>6. c \in 1 .. n /\ x \in DOMAIN old[c] /\ \A b \in 1 .. n : x \in DOMAIN old[b] => b <= c
  BY <1>1, <1>3, InnermostIs
<1>7. d \in 1 .. n /\ x \in DOMAIN new[d] /\ \A b \in 1 .. n : x \in DOMAIN new[b] => b <= d
  BY <1>1, <1>2, <1>5, InnermostIs
<1> HIDE DEF c, d
<1>8. c = d
  BY <1>1, <1>4, <1>6, <1>7
<1>9. new[d][x] = old[c][x]
  BY <1>1, <1>6, <1>8
<1> QED BY <1>9 DEF find, c, d, old, new

LEMMA SameFound ==
  ASSUME NEW g, NEW number, Placed(g, go.scopes, number), Covers(g.context, go.scopes),
         NEW T, NEW ids \in Seq(T), NEW x, Visible(x) # {}, x \notin AddedNames(ids)
  PROVE  find(Number(g, ids).context, x) = find(g.context, x)
<1>1. Declares(g.context, x)
  BY ShownIs
<1>2. PICK S : g.context \in Seq(S)
  BY PlacedContext
<1>3. g.context # <<>> /\ g.indexCurrentLocalVariable \in Nat
  BY PlacedContext
<1> QED BY <1>1, <1>2, <1>3, FindKept

-----------------------------------------------------------------------------
(* The machine.                                                            *)

LEMMA TouchesIs ==
  ASSUME NEW m, Machine(m), NEW places \in Nat, NEW number \in Nat, m.places <= number, places <= number
  PROVE  /\ Machine(Touches(m, places))
         /\ Touches(m, places).locals = m.locals
         /\ Touches(m, places).statics = m.statics
         /\ Touches(m, places).refused = m.refused
         /\ Touches(m, places).places <= number
<1>1. PICK V : m \in [locals : [0 .. (SlotLimit - 1) -> V], statics : [DOMAIN Fields -> V],
                      places : Nat, refused : BOOLEAN]
  BY DEF Machine
<1> DEFINE p == IF places > m.places THEN places ELSE m.places
<1>2. Touches(m, places) = [m EXCEPT !.places = p]
  BY DEF Touches
<1>3. p \in Nat /\ p <= number
  BY <1>1
<1> HIDE DEF p
<1>4. /\ [m EXCEPT !.places = p] \in [locals : [0 .. (SlotLimit - 1) -> V], statics : [DOMAIN Fields -> V],
                                     places : Nat, refused : BOOLEAN]
      /\ [m EXCEPT !.places = p].locals = m.locals
      /\ [m EXCEPT !.places = p].statics = m.statics
      /\ [m EXCEPT !.places = p].refused = m.refused
      /\ [m EXCEPT !.places = p].places = p
  BY <1>1, <1>3
<1> QED BY <1>2, <1>3, <1>4 DEF Machine

(* No load changes the frame.                                              *)
LEMMA LoadsKeep ==
  ASSUME NEW m, Machine(m), NEW g, NEW a, NEW e
  PROVE  Loads(m, g, a, e).locals = m.locals
<1>1. PICK V : m \in [locals : [0 .. (SlotLimit - 1) -> V], statics : [DOMAIN Fields -> V],
                      places : Nat, refused : BOOLEAN]
  BY DEF Machine
<1> DEFINE refused == m.refused \/ Pushed(m, g, a, e) = Unset
           n == [m EXCEPT !.refused = refused]
<1>2. Loads(m, g, a, e) = m \/ Loads(m, g, a, e) = Touches(n, Places(g, e.name))
  BY DEF Loads
<1> HIDE DEF refused
<1>3. DOMAIN n = {"locals", "statics", "places", "refused"} /\ n.locals = m.locals
  BY <1>1
<1> HIDE DEF n
<1>4. \A p : [n EXCEPT !.places = p].locals = n.locals
  BY <1>3
<1>5. Touches(n, Places(g, e.name)).locals = n.locals
  BY <1>4 DEF Touches
<1> QED BY <1>2, <1>3, <1>5

(* A load that finds its value leaves the machine as it is, but for the    *)
(* places that it needs.                                                   *)
LEMMA LoadsIs ==
  ASSUME NEW m, Machine(m), ~m.refused, NEW number \in Nat, m.places <= number,
         NEW g, NEW a, NEW e,
         e.kind # "literal" =>
           Pushed(m, g, a, e) # Unset /\ Places(g, e.name) \in Nat /\ Places(g, e.name) <= number
  PROVE  /\ Machine(Loads(m, g, a, e))
         /\ Loads(m, g, a, e).locals = m.locals
         /\ Loads(m, g, a, e).statics = m.statics
         /\ ~Loads(m, g, a, e).refused
         /\ Loads(m, g, a, e).places <= number
<1>1. CASE e.kind = "literal"
  BY <1>1 DEF Loads
<1>2. CASE e.kind # "literal"
  <2> DEFINE m1 == [m EXCEPT !.refused = FALSE]
  <2>1. PICK V : m \in [locals : [0 .. (SlotLimit - 1) -> V], statics : [DOMAIN Fields -> V],
                        places : Nat, refused : BOOLEAN]
    BY DEF Machine
  <2>2. [m EXCEPT !.refused = (@ \/ Pushed(m, g, a, e) = Unset)] = m1
    <3>1. (m.refused \/ Pushed(m, g, a, e) = Unset) = FALSE
      BY <1>2
    <3> QED BY <3>1
  <2>3. Loads(m, g, a, e) = Touches(m1, Places(g, e.name))
    BY <1>2, <2>2 DEF Loads
  <2>4. /\ m1 \in [locals : [0 .. (SlotLimit - 1) -> V], statics : [DOMAIN Fields -> V],
                   places : Nat, refused : BOOLEAN]
        /\ m1.locals = m.locals /\ m1.statics = m.statics /\ m1.refused = FALSE /\ m1.places = m.places
    BY <2>1
  <2> HIDE DEF m1
  <2>5. Machine(m1) /\ m1.places <= number
    BY <2>4 DEF Machine
  <2>6. Places(g, e.name) \in Nat /\ Places(g, e.name) <= number
    BY <1>2
  <2> QED BY <2>3, <2>4, <2>5, <2>6, TouchesIs
<1> QED BY <1>1, <1>2

(* A store changes one place of the frame, or one field.                   *)
Stored(n, m, ref, v) ==
  /\ \A s \in 0 .. (SlotLimit - 1) : n.locals[s] = IF ref.isLocal /\ s = Slot(ref) THEN v ELSE m.locals[s]
  /\ \A i \in DOMAIN Fields : n.statics[i] = IF ~ref.isLocal /\ i = ref.index THEN v ELSE m.statics[i]

LEMMA StoresIs ==
  ASSUME NEW m, Machine(m), NEW number \in Nat, m.places <= number,
         NEW g, NEW x, x # Blank, NEW v, NEW ref, ref = find(g.context, x),
         ref.isLocal => Slot(ref) \in 0 .. (SlotLimit - 1) /\ Slot(ref) < number,
         ~ref.isLocal => ref.index \in DOMAIN Fields
  PROVE  /\ Machine(Stores(m, g, x, v))
         /\ Stores(m, g, x, v).refused = m.refused
         /\ Stores(m, g, x, v).places <= number
         /\ Stored(Stores(m, g, x, v), m, ref, v)
<1>1. PICK V : m \in [locals : [0 .. (SlotLimit - 1) -> V], statics : [DOMAIN Fields -> V],
                      places : Nat, refused : BOOLEAN]
  BY DEF Machine
<1> DEFINE W == V \cup {v}
<1>2. CASE ref.isLocal
  <2> DEFINE s == Slot(ref)
             locals == [m.locals EXCEPT ![s] = v]
             m1 == [m EXCEPT !.locals = locals]
  <2>1. s \in 0 .. (SlotLimit - 1) /\ s \in Nat /\ s + 1 \in Nat /\ s + 1 <= number
    BY <1>2, SlotLimitAssumption
  <2>2. Stores(m, g, x, v) = Touches(m1, s + 1)
    BY <1>2 DEF Stores, Places
  <2> HIDE DEF s
  <2>3. locals \in [0 .. (SlotLimit - 1) -> W] /\ \A t \in 0 .. (SlotLimit - 1) : locals[t] = IF t = s THEN v ELSE m.locals[t]
    BY <1>1, <2>1
  <2> HIDE DEF locals
  <2>4. m.statics \in [DOMAIN Fields -> W]
    BY <1>1
  <2> HIDE DEF W
  <2>5. /\ m1 \in [locals : [0 .. (SlotLimit - 1) -> W], statics : [DOMAIN Fields -> W],
                   places : Nat, refused : BOOLEAN]
        /\ m1.locals = locals /\ m1.statics = m.statics /\ m1.refused = m.refused /\ m1.places = m.places
    BY <1>1, <2>3, <2>4
  <2> HIDE DEF m1
  <2>6. Machine(m1) /\ m1.places <= number
    BY <2>5 DEF Machine
  <2>7. /\ Machine(Touches(m1, s + 1))
        /\ Touches(m1, s + 1).locals = locals
        /\ Touches(m1, s + 1).statics = m.statics
        /\ Touches(m1, s + 1).refused = m.refused
        /\ Touches(m1, s + 1).places <= number
    BY <2>1, <2>5, <2>6, TouchesIs
  <2> QED BY <1>2, <2>2, <2>3, <2>7 DEF s, Stored
<1>3. CASE ~ref.isLocal
  <2> DEFINE i == ref.index
             statics == [m.statics EXCEPT ![i] = v]
             m1 == [m EXCEPT !.statics = statics]
  <2>1. i \in DOMAIN Fields
    BY <1>3
  <2>2. Stores(m, g, x, v) = m1
    BY <1>3 DEF Stores
  <2> HIDE DEF i
  <2>3. statics \in [DOMAIN Fields -> W] /\ \A j \in DOMAIN Fields : statics[j] = IF j = i THEN v ELSE m.statics[j]
    BY <1>1, <2>1
  <2> HIDE DEF statics
  <2>4. m.locals \in [0 .. (SlotLimit - 1) -> W]
    BY <1>1
  <2> HIDE DEF W
  <2>5. /\ m1 \in [locals : [0 .. (SlotLimit - 1) -> W], statics : [DOMAIN Fields -> W],
                   places : Nat, refused : BOOLEAN]
        /\ m1.locals = m.locals /\ m1.statics = statics /\ m1.refused = m.refused /\ m1.places = m.places
    BY <1>1, <2>3, <2>4
  <2> HIDE DEF m1
  <2>6. Machine(m1) /\ m1.places <= number
    BY <2>5 DEF Machine
  <2> QED BY <1>3, <2>2, <2>3, <2>5, <2>6 DEF i, Stored
<1> QED BY <1>2, <1>3

-----------------------------------------------------------------------------
(* Each step keeps the invariant.                                          *)

(* A statement after which the function is handled: it was handled before, *)
(* too, and the statement breaks no rule.                                  *)
Excluded == {"blank parameter", "reads zero", "reads itself"}

LEMMA Proceeds ==
  ASSUME NEW broken, NEW met, NEW scopes, NEW next, next = GoStep(broken, met, scopes),
         next.broken = {}, next.met \cap Excluded = {}
  PROVE  /\ go.broken = {} /\ broken = {}
         /\ next.scopes = scopes
         /\ go.met \cap Excluded = {} /\ met \cap Excluded = {}
<1>1. go.broken = {} /\ broken = {} /\ next.scopes = scopes /\ next.met = go.met \cup met
  BY DEF GoStep
<1> QED BY <1>1

LEMMA HandledIs ==
  ASSUME NEW number \in Nat, NEW more \in Nat, number <= more, more <= SlotLimit,
         analysis.numberLocalVariables = number, go.broken = {}, go.met \cap Excluded = {}
  PROVE  Handled
<1>1. number <= SlotLimit
  BY SlotLimitAssumption
<1> QED BY <1>1 DEF Handled, Excluded

LEMMA RejectedReading ==
  ASSUME Rejected
  PROVE  Reading'
BY DEF Rejected, Reading

LEMMA BodyReading ==
  ASSUME stage' = "body",
         Handled' => Readable(generator', go'.scopes, jvm', analysis'.numberLocalVariables)
  PROVE  Reading'
BY DEF Reading

(* The same values in the same places.                                     *)
LEMMA SameReadable ==
  ASSUME NEW g, NEW blocks, NEW m, NEW number, Readable(g, blocks, m, number),
         NEW others, DOMAIN others = DOMAIN blocks,
         \A d \in DOMAIN blocks :
           /\ DOMAIN others[d] = DOMAIN blocks[d]
           /\ \A x \in DOMAIN blocks[d] : others[d][x].value = blocks[d][x].value,
         NEW n, Machine(n), n.locals = m.locals, n.statics = m.statics, ~n.refused, n.places <= number
  PROVE  Readable(g, others, n, number)
<1>1. Covers(g.context, others)
  BY DEF Readable, Covers
<1>2. Holding(g.context, others, n)
  <2> SUFFICES ASSUME NEW c \in DOMAIN g.context, NEW x \in DOMAIN g.context[c], Shown(g.context, c, x)
               PROVE  Holds(n, g.context[c][x], others[Level(c)][x].value)
    BY DEF Holding
  <2>1. Level(c) \in DOMAIN blocks /\ x \in DOMAIN blocks[Level(c)]
    BY DEF Readable, Covers
  <2>2. Holds(m, g.context[c][x], blocks[Level(c)][x].value)
    BY DEF Readable, Holding
  <2> QED BY <2>1, <2>2 DEF Holds
<1>3. Valued(others)
  BY DEF Readable, Valued
<1> QED BY <1>1, <1>2, <1>3 DEF Readable

LEMMA UsedReadable ==
  ASSUME NEW scopes, NEW exact, Matches(scopes, go.scopes, exact),
         NEW g, NEW m, NEW number, Readable(g, go.scopes, m, number), NEW es,
         NEW n, Machine(n), n.locals = m.locals, n.statics = m.statics, ~n.refused, n.places <= number
  PROVE  Readable(g, Used(es), n, number)
<1>1. DOMAIN Used(es) = DOMAIN go.scopes
  BY DEF Used
<1>2. DOMAIN go.scopes = 1 .. Len(go.scopes)
  <2>1. PICK T : go.scopes \in Seq(T)
    BY DEF Matches
  <2> QED BY <2>1, LenProperties
<1>3. \A d \in DOMAIN go.scopes :
        /\ DOMAIN Used(es)[d] = DOMAIN go.scopes[d]
        /\ \A x \in DOMAIN go.scopes[d] : Used(es)[d][x].value = go.scopes[d][x].value
  BY <1>2, UseMatches
<1> QED BY <1>1, <1>3, SameReadable

(* An expression of values that were assigned is evaluated as in Go.       *)
Assigned(e) == e.kind = "read" => Visible(e.name) # {} /\ GoVariable(e.name).value.value # "zero"

LEMMA AssignedIs ==
  ASSUME NEW es, Defined(es), ~ReadsZero(es), NEW i \in DOMAIN es
  PROVE  Assigned(es[i])
BY DEF Assigned, Defined, ReadsZero, ReadBy

LEMMA LoadReadable ==
  ASSUME NEW a, NEW exact, Matches(a.scopesDeclarations, go.scopes, exact),
         NEW g, NEW m, NEW number, Placed(g, go.scopes, number), Readable(g, go.scopes, m, number),
         NEW e \in Expressions, Assigned(e)
  PROVE  /\ Pushed(m, g, a, e) = GoValue(e)
         /\ GoValue(e).type \in Types
         /\ Readable(g, go.scopes, Loads(m, g, a, e), number)
<1> DEFINE n == Loads(m, g, a, e)
<1>1. e.kind = "read" => Visible(e.name) # {} /\ GoVariable(e.name).value.value # "zero"
  BY DEF Assigned
<1>2. ExpressionType(a, e) = GoValue(e).type
  <2>1. Evaluable(<<e>>) /\ Defined(<<e>>)
    BY <1>1, Kinds DEF Evaluable, Defined, ReadBy
  <2>2. \A i \in DOMAIN <<e>> : ExpressionType(a, <<e>>[i]) = GoValue(<<e>>[i]).type
    BY <2>1, SameTypes
  <2>3. 1 \in DOMAIN <<e>> /\ <<e>>[1] = e
    OBVIOUS
  <2> QED BY <2>2, <2>3
<1>3. /\ Pushed(m, g, a, e) = GoValue(e)
      /\ GoValue(e).type \in Types
      /\ e.kind = "read" => GoValue(e) # Unset /\ Places(g, e.name) \in Nat /\ Places(g, e.name) <= number
  BY <1>1, <1>2, PushedIs DEF Readable
<1>4. /\ Machine(n) /\ n.locals = m.locals /\ n.statics = m.statics
      /\ ~n.refused /\ n.places <= number
  <2>1. Machine(m) /\ ~m.refused /\ m.places <= number
    BY DEF Readable
  <2>2. number \in Nat
    BY DEF Placed
  <2> QED BY <1>3, <2>1, <2>2, LoadsIs, Kinds DEF n
<1> HIDE DEF n
<1>5. Readable(g, go.scopes, n, number)
  BY <1>4, SameReadable
<1> QED BY <1>3, <1>5 DEF n

LEMMA UseVariableReading ==
  ASSUME Inv, Named, Reading, NEW e \in Expressions, UseVariable(e)
  PROVE  Reading'
<1>1. CASE Rejected
  BY <1>1, RejectedReading
<1>2. CASE ~Rejected
  <2> DEFINE number == analysis.numberLocalVariables
             breaks == Rule(Defined(<<e>>), "undefined")
             met == Meets(ReadsZero(<<e>>), "reads zero")
             n == Loads(jvm, generator, analysis, e)
  <2>1. /\ stage = "body" /\ stage' = "body" /\ generator' = generator
        /\ analysis' = Visited(analysis, <<e>>) /\ jvm' = n
        /\ go' = GoStep(breaks, met, Used(<<e>>))
    BY <1>2 DEF UseVariable, InBody, Goes, GoUse
  <2>2. Analysis(analysis)
    BY DEF Inv
  <2>3. analysis'.numberLocalVariables = number /\ number \in Nat
    BY <2>1, <2>2, VisitedAnalysis DEF Analysis
  <2>4. ASSUME Handled'
        PROVE  Readable(generator', go'.scopes, jvm', analysis'.numberLocalVariables)
    <3> HIDE DEF n
    <3>1. /\ Handled /\ breaks = {} /\ go'.scopes = Used(<<e>>)
          /\ met \cap Excluded = {}
      <4> HIDE DEF breaks, met
      <4>1. go'.broken = {} /\ go'.met \cap Excluded = {} /\ number <= SlotLimit
        BY <2>3, <2>4 DEF Handled, Excluded
      <4>2. go.broken = {} /\ breaks = {} /\ go'.scopes = Used(<<e>>) /\ go.met \cap Excluded = {} /\ met \cap Excluded = {}
        BY <2>1, <4>1, Proceeds
      <4> QED BY <4>1, <4>2 DEF Handled, Excluded
    <3>2. Matches(analysis.scopesDeclarations, go.scopes, Exact(go.met))
      BY <2>1, <3>1 DEF Named, Handled
    <3>3. Placed(generator, go.scopes, number)
      BY <2>1, <3>1, BodyPlaced
    <3>4. Readable(generator, go.scopes, jvm, number)
      BY <2>1, <3>1 DEF Reading
    <3>5. Defined(<<e>>) /\ ~ReadsZero(<<e>>)
      BY <3>1 DEF Rule, Meets, Excluded
    <3>6. Readable(generator, go.scopes, n, number)
      <4>1. Assigned(e)
        BY <3>5 DEF Assigned, Defined, ReadsZero, ReadBy
      <4> QED BY <3>2, <3>3, <3>4, <4>1, LoadReadable DEF n
    <3>7. Readable(generator, Used(<<e>>), n, number)
      BY <3>2, <3>6, UsedReadable DEF Readable
    <3> QED BY <2>1, <2>3, <3>1, <3>7
  <2> QED BY <2>1, <2>4, BodyReading
<1> QED BY <1>1, <1>2

(* A block is opened: a scope without names.                               *)
LEMMA PushReadable ==
  ASSUME NEW g, NEW blocks, NEW m, NEW number, Placed(g, blocks, number), Readable(g, blocks, m, number),
         NEW h, h.context = pushScope(g.context)
  PROVE  Readable(h, Append(blocks, NoNames), m, number)
<1> DEFINE n == Len(blocks)
           old == g.context
           new == h.context
           after == Append(blocks, NoNames)
<1>1. /\ DOMAIN old = 1 .. (n + 1) /\ DOMAIN blocks = 1 .. n /\ n \in Nat /\ n >= 2 /\ Len(old) = n + 1
  BY PlacedContext
<1>2. DOMAIN NoNames = {}
  BY DEF NoNames
<1>3. /\ DOMAIN new = 1 .. (n + 2)
      /\ \A c \in 1 .. (n + 1) : new[c] = old[c]
      /\ DOMAIN new[n + 2] = {}
  <2>1. PICK S : old \in Seq(S)
    BY PlacedContext
  <2>2. /\ pushScope(old) \in Seq(S \cup {NoNames})
        /\ Len(pushScope(old)) = Len(old) + 1
        /\ \A d \in 1 .. Len(old) : pushScope(old)[d] = old[d]
        /\ pushScope(old)[Len(old) + 1] = NoNames
    <3> HIDE DEF old
    <3> QED BY <2>1, PushScope
  <2>3. new = pushScope(old)
    OBVIOUS
  <2> HIDE DEF new, old, n
  <2>4. Len(new) = n + 2 /\ n + 1 + 1 = n + 2
    BY <1>1, <2>2, <2>3
  <2>5. DOMAIN new = 1 .. Len(new)
    BY <2>2, <2>3, LenProperties
  <2> QED BY <1>1, <1>2, <2>2, <2>3, <2>4, <2>5
<1>4. /\ DOMAIN after = 1 .. (n + 1)
      /\ \A d \in 1 .. n : after[d] = blocks[d]
      /\ DOMAIN after[n + 1] = {}
  <2>1. PICK T : blocks \in Seq(T)
    BY DEF Placed
  <2>2. /\ Len(after) = n + 1
        /\ \A d \in 1 .. n : after[d] = blocks[d]
        /\ after[n + 1] = NoNames
        /\ after \in Seq(T \cup {NoNames})
    BY <2>1, AppendProperties
  <2> HIDE DEF after, n
  <2>3. DOMAIN after = 1 .. Len(after)
    BY <2>2, LenProperties
  <2> QED BY <1>2, <2>2, <2>3
<1> HIDE DEF n, old, new, after
<1>5. \A c \in 1 .. (n + 1) : Level(c) \in 1 .. n
  BY <1>1 DEF Level
<1>6. Level(n + 2) = n + 1
  BY <1>1 DEF Level
<1>7. \A c \in 1 .. (n + 2) : c \in 1 .. (n + 1) \/ c = n + 2
  BY <1>1
<1>8. \A d \in 1 .. (n + 1) : d \in 1 .. n \/ d = n + 1
  BY <1>1
<1>9. 1 .. (n + 1) \subseteq 1 .. (n + 2) /\ 1 .. n \subseteq 1 .. (n + 1) /\ n + 1 \in 1 .. (n + 1) /\ 3 \in 1 .. (n + 1)
  BY <1>1
<1>10. Covers(old, blocks) /\ Refs(old) /\ Holding(old, blocks, m) /\ Valued(blocks)
  BY DEF Readable, old
<1>11. Covers(new, after)
  <2>1. ASSUME NEW c \in DOMAIN new
        PROVE  Level(c) \in DOMAIN after /\ DOMAIN new[c] \subseteq DOMAIN after[Level(c)]
    <3>1. CASE c \in 1 .. (n + 1)
      <4>1. new[c] = old[c] /\ after[Level(c)] = blocks[Level(c)] /\ Level(c) \in 1 .. n
        BY <1>3, <1>4, <1>5, <3>1
      <4>2. DOMAIN old[c] \subseteq DOMAIN blocks[Level(c)]
        BY <1>1, <1>10, <3>1 DEF Covers
      <4> QED BY <1>4, <1>9, <4>1, <4>2
    <3>2. CASE c = n + 2
      BY <1>3, <1>4, <1>6, <1>9, <3>2
    <3> QED BY <1>3, <1>7, <3>1, <3>2
  <2>2. ASSUME NEW d \in DOMAIN after, NEW x \in DOMAIN after[d]
        PROVE  \E c \in DOMAIN new : Level(c) = d /\ x \in DOMAIN new[c]
    <3>1. d \in 1 .. n
      BY <1>4, <1>8, <2>2
    <3>2. x \in DOMAIN blocks[d]
      BY <1>4, <2>2, <3>1
    <3>3. PICK c \in DOMAIN old : Level(c) = d /\ x \in DOMAIN old[c]
      BY <1>1, <1>10, <3>1, <3>2 DEF Covers
    <3> QED BY <1>1, <1>3, <1>9, <3>3
  <2> QED BY <2>1, <2>2 DEF Covers
<1>12. Refs(new)
  <2> SUFFICES ASSUME NEW c \in DOMAIN new, NEW x \in DOMAIN new[c]
               PROVE  IF c = 1 THEN x \in FieldIds /\ new[c][x] = RefConstant(FieldIndex(x), FALSE)
                               ELSE new[c][x].isLocal
    BY DEF Refs
  <2>1. c \in DOMAIN old /\ new[c] = old[c]
    BY <1>1, <1>3, <1>7
  <2> QED BY <1>10, <2>1 DEF Refs
<1>13. Holding(new, after, m)
  <2> SUFFICES ASSUME NEW c \in DOMAIN new, NEW x \in DOMAIN new[c], Shown(new, c, x)
               PROVE  Holds(m, new[c][x], after[Level(c)][x].value)
    BY DEF Holding
  <2>1. c \in 1 .. (n + 1) /\ c \in DOMAIN old /\ new[c] = old[c]
    BY <1>1, <1>3, <1>7
  <2>2. new[3] = old[3] /\ 3 \in DOMAIN new /\ 3 \in DOMAIN old
    BY <1>1, <1>3, <1>9
  <2>3. Shown(old, c, x)
    BY <2>1, <2>2 DEF Shown
  <2>4. after[Level(c)] = blocks[Level(c)]
    BY <1>4, <1>5, <2>1
  <2> QED BY <1>10, <2>1, <2>3, <2>4 DEF Holding
<1>14. Valued(after)
  <2> SUFFICES ASSUME NEW d \in DOMAIN after, NEW x \in DOMAIN after[d]
               PROVE  after[d][x].value.type \in Types
    BY DEF Valued
  <2>1. d \in 1 .. n
    BY <1>4, <1>8
  <2> QED BY <1>1, <1>4, <1>10, <2>1 DEF Valued
<1> QED BY <1>11, <1>12, <1>13, <1>14 DEF Readable, new, after

(* A block is closed.                                                      *)
LEMMA PopReadable ==
  ASSUME NEW g, NEW blocks, NEW m, NEW number, Placed(g, blocks, number), Readable(g, blocks, m, number),
         Len(blocks) > 2, NEW h, h.context = popScope(g.context)
  PROVE  Readable(h, SubSeq(blocks, 1, Len(blocks) - 1), m, number)
<1> DEFINE n == Len(blocks)
           old == g.context
           new == h.context
           after == SubSeq(blocks, 1, n - 1)
<1>1. /\ DOMAIN old = 1 .. (n + 1) /\ DOMAIN blocks = 1 .. n /\ n \in Nat /\ n >= 3 /\ Len(old) = n + 1
      /\ old # <<>>
  BY PlacedContext
<1>2. DOMAIN new = 1 .. n /\ \A c \in 1 .. n : new[c] = old[c]
  <2>1. PICK S : old \in Seq(S)
    BY PlacedContext
  <2>2. /\ popScope(old) \in Seq(S)
        /\ Len(popScope(old)) = Len(old) - 1
        /\ \A d \in 1 .. (Len(old) - 1) : popScope(old)[d] = old[d]
    <3> HIDE DEF old
    <3> QED BY <1>1, <2>1, PopScope
  <2>3. new = popScope(old)
    OBVIOUS
  <2> HIDE DEF new, old, n
  <2>4. Len(old) - 1 = n
    BY <1>1
  <2>5. DOMAIN new = 1 .. Len(new)
    BY <2>2, <2>3, LenProperties
  <2> QED BY <2>2, <2>3, <2>4, <2>5
<1>3. DOMAIN after = 1 .. (n - 1) /\ \A d \in 1 .. (n - 1) : after[d] = blocks[d]
  <2>1. PICK T : blocks \in Seq(T)
    BY DEF Placed
  <2>2. /\ Len(after) = n - 1
        /\ \A d \in 1 .. (n - 1) : after[d] = blocks[d]
        /\ after \in Seq(T)
    <3>1. 1 \in 1 .. n + 1 /\ n - 1 \in 0 .. n /\ n - 1 \in Nat
      BY <1>1
    <3> QED BY <1>1, <2>1, <3>1, SubSeqProperties
  <2> HIDE DEF after, n
  <2>3. DOMAIN after = 1 .. Len(after)
    BY <2>2, LenProperties
  <2> QED BY <2>2, <2>3
<1> HIDE DEF n, old, new, after
<1>4. \A c \in 1 .. n : Level(c) \in 1 .. (n - 1)
  BY <1>1 DEF Level
<1>5. Level(n + 1) = n
  BY <1>1 DEF Level
<1>6. /\ 1 .. n \subseteq 1 .. (n + 1) /\ 1 .. (n - 1) \subseteq 1 .. n /\ 3 \in 1 .. n
      /\ n \notin 1 .. (n - 1) /\ \A c \in 1 .. (n + 1) : c \in 1 .. n \/ c = n + 1
  BY <1>1
<1>7. Covers(old, blocks) /\ Refs(old) /\ Holding(old, blocks, m) /\ Valued(blocks)
  BY DEF Readable, old
<1>8. Covers(new, after)
  <2>1. ASSUME NEW c \in DOMAIN new
        PROVE  Level(c) \in DOMAIN after /\ DOMAIN new[c] \subseteq DOMAIN after[Level(c)]
    BY <1>1, <1>2, <1>3, <1>4, <1>6, <1>7 DEF Covers
  <2>2. ASSUME NEW d \in DOMAIN after, NEW x \in DOMAIN after[d]
        PROVE  \E c \in DOMAIN new : Level(c) = d /\ x \in DOMAIN new[c]
    <3>1. d \in 1 .. n /\ x \in DOMAIN blocks[d] /\ d # n
      BY <1>3, <1>6, <2>2
    <3>2. PICK c \in DOMAIN old : Level(c) = d /\ x \in DOMAIN old[c]
      BY <1>1, <1>7, <3>1 DEF Covers
    <3>3. c \in 1 .. n
      BY <1>1, <1>5, <1>6, <3>1, <3>2
    <3> QED BY <1>2, <3>2, <3>3
  <2> QED BY <2>1, <2>2 DEF Covers
<1>9. Refs(new)
  BY <1>1, <1>2, <1>6, <1>7 DEF Refs
<1>10. Holding(new, after, m)
  <2> SUFFICES ASSUME NEW c \in DOMAIN new, NEW x \in DOMAIN new[c], Shown(new, c, x)
               PROVE  Holds(m, new[c][x], after[Level(c)][x].value)
    BY DEF Holding
  <2>1. c \in DOMAIN old /\ new[c] = old[c]
    BY <1>1, <1>2, <1>6
  <2>2. new[3] = old[3] /\ 3 \in DOMAIN new /\ 3 \in DOMAIN old
    BY <1>1, <1>2, <1>6
  <2>3. Shown(old, c, x)
    BY <2>1, <2>2 DEF Shown
  <2>4. after[Level(c)] = blocks[Level(c)]
    BY <1>2, <1>3, <1>4
  <2> QED BY <1>7, <2>1, <2>3, <2>4 DEF Holding
<1>11. Valued(after)
  BY <1>1, <1>3, <1>6, <1>7 DEF Valued
<1> QED BY <1>8, <1>9, <1>10, <1>11 DEF Readable, new, after, n

LEMMA OpenBlockReading ==
  ASSUME Inv, Named, Reading, OpenBlock
  PROVE  Reading'
<1> DEFINE number == analysis.numberLocalVariables
           blocks == Append(go.scopes, NoNames)
<1>1. /\ stage = "body" /\ stage' = "body" /\ jvm' = jvm
      /\ analysis' = [analysis EXCEPT !.scopesDeclarations = pushScope(@)]
      /\ generator' = [generator EXCEPT !.context = pushScope(@)]
      /\ go' = GoStep({}, {}, blocks)
  BY DEF OpenBlock, Unbroken, InBody, Goes, GoOpen
<1>2. analysis'.numberLocalVariables = number
  <2>1. Analysis(analysis)
    BY DEF Inv
  <2> QED BY <1>1, <2>1, PushAnalysis
<1>3. generator'.context = pushScope(generator.context)
  <2>1. Generation(generator)
    BY DEF Inv
  <2> QED BY <1>1, <2>1, PushGeneration
<1>4. ASSUME Handled'
      PROVE  Readable(generator', go'.scopes, jvm', analysis'.numberLocalVariables)
  <2>1. go'.broken = {} /\ go'.met \cap Excluded = {} /\ number <= SlotLimit
    BY <1>2, <1>4 DEF Handled, Excluded
  <2>2. go'.scopes = blocks /\ Handled
    <3>1. go.broken = {} /\ go'.scopes = blocks /\ go.met \cap Excluded = {}
      BY <1>1, <2>1 DEF GoStep
    <3> QED BY <2>1, <3>1 DEF Handled, Excluded
  <2>3. Placed(generator, go.scopes, number)
    BY <1>1, <2>2, BodyPlaced
  <2>4. Readable(generator, go.scopes, jvm, number)
    BY <1>1, <2>2 DEF Reading
  <2>5. PICK h : h = generator'
    OBVIOUS
  <2>6. Readable(h, blocks, jvm, number)
    BY <1>3, <2>3, <2>4, <2>5, PushReadable
  <2> QED BY <1>1, <1>2, <2>2, <2>5, <2>6
<1> QED BY <1>1, <1>4, BodyReading

LEMMA CloseBlockReading ==
  ASSUME Inv, Named, Reading, CloseBlock
  PROVE  Reading'
<1>1. CASE Rejected
  BY <1>1, RejectedReading
<1>2. CASE ~Rejected
  <2> DEFINE number == analysis.numberLocalVariables
             blocks == SubSeq(go.scopes, 1, Len(go.scopes) - 1)
             breaks == Rule(Unused = {}, "unused")
  <2>1. /\ stage = "body" /\ stage' = "body" /\ jvm' = jvm
        /\ Len(analysis.scopesDeclarations) > 2
        /\ analysis' = [analysis EXCEPT !.scopesDeclarations = popScope(@)]
        /\ generator' = [generator EXCEPT !.context = popScope(@)]
        /\ go' = GoStep(breaks, {}, blocks)
    BY <1>2 DEF CloseBlock, Goes, GoClose, Block
  <2>2. Analysis(analysis) /\ Generation(generator) /\ Body(analysis, generator)
    BY <2>1 DEF Inv
  <2>3. analysis'.numberLocalVariables = number /\ number \in Nat
    <3>1. Len(analysis.scopesDeclarations) >= 2
      BY <2>2 DEF Body
    <3>2. number \in Nat
      BY <2>2 DEF Analysis
    <3> QED BY <2>1, <2>2, <3>1, <3>2, PopAnalysis
  <2>4. generator'.context = popScope(generator.context)
    <3>1. generator.context # <<>>
      BY <2>2 DEF Body, Sound
    <3> QED BY <2>1, <2>2, <3>1, PopGeneration
  <2>5. ASSUME Handled'
        PROVE  Readable(generator', go'.scopes, jvm', analysis'.numberLocalVariables)
    <3>1. go'.broken = {} /\ go'.met \cap Excluded = {} /\ number <= SlotLimit
      BY <2>3, <2>5 DEF Handled, Excluded
    <3>2. go'.scopes = blocks /\ Handled
      <4> HIDE DEF blocks, breaks
      <4>1. go.broken = {} /\ go'.scopes = blocks /\ go.met \cap Excluded = {}
        BY <2>1, <3>1 DEF GoStep
      <4> QED BY <3>1, <4>1 DEF Handled, Excluded
    <3>3. Placed(generator, go.scopes, number)
      BY <2>1, <3>2, BodyPlaced
    <3>4. Readable(generator, go.scopes, jvm, number)
      BY <2>1, <3>2 DEF Reading
    <3>5. Len(go.scopes) > 2
      <4>1. Len(analysis.scopesDeclarations) = Len(go.scopes)
        BY <2>1, <3>2 DEF Named, Handled, Matches
      <4> QED BY <2>1, <4>1
    <3>6. PICK h : h = generator'
      OBVIOUS
    <3>7. Readable(h, blocks, jvm, number)
      BY <2>4, <3>3, <3>4, <3>5, <3>6, PopReadable
    <3> QED BY <2>1, <2>3, <3>2, <3>6, <3>7
  <2> QED BY <2>1, <2>5, BodyReading
<1> QED BY <1>1, <1>2

LEMMA FinishReading ==
  ASSUME Inv, Named, Reading, Finish
  PROVE  Reading'
<1>1. CASE Rejected
  BY <1>1, RejectedReading
<1>2. CASE ~Rejected
  <2> DEFINE number == analysis.numberLocalVariables
             blocks == SubSeq(go.scopes, 1, Len(go.scopes) - 1)
             breaks == Rule(Unused = {}, "unused")
  <2>1. /\ stage = "body" /\ stage' = "done"
        /\ Len(analysis.scopesDeclarations) = 2
        /\ analysis' = [analysis EXCEPT !.scopesDeclarations = popScope(@)]
        /\ jvm' = [jvm EXCEPT !.refused = (@ \/ jvm.places > number)]
        /\ go' = GoStep(breaks, {}, blocks)
    BY <1>2 DEF Finish, GoClose, Block
  <2>2. Analysis(analysis)
    BY <2>1 DEF Inv
  <2>3. analysis'.numberLocalVariables = number /\ number \in Nat
    <3>1. number \in Nat
      BY <2>2 DEF Analysis
    <3> QED BY <2>1, <2>2, <3>1, PopAnalysis
  <2>4. ASSUME Handled'
        PROVE  ~jvm'.refused
    <3>1. go'.broken = {} /\ go'.met \cap Excluded = {} /\ number <= SlotLimit
      BY <2>3, <2>4 DEF Handled, Excluded
    <3>2. Handled
      <4> HIDE DEF blocks, breaks
      <4>1. go.broken = {} /\ go.met \cap Excluded = {}
        BY <2>1, <3>1 DEF GoStep
      <4> QED BY <3>1, <4>1 DEF Handled, Excluded
    <3>3. Readable(generator, go.scopes, jvm, number)
      BY <2>1, <3>2 DEF Reading
    <3>4. PICK V : jvm \in [locals : [0 .. (SlotLimit - 1) -> V], statics : [DOMAIN Fields -> V],
                            places : Nat, refused : BOOLEAN]
      BY <3>3 DEF Readable, Machine
    <3>5. (jvm.refused \/ jvm.places > number) = FALSE
      <4>1. jvm.places \in Nat /\ jvm.places <= number /\ ~jvm.refused
        BY <3>3, <3>4 DEF Readable
      <4>2. ~(jvm.places > number)
        <5>1. PICK p \in Nat, q \in Nat : p = jvm.places /\ q = number
          BY <2>3, <4>1
        <5> QED BY <4>1, <5>1
      <4> QED BY <4>1, <4>2
    <3>6. jvm' = [jvm EXCEPT !.refused = FALSE]
      BY <2>1, <3>5
    <3> QED BY <3>4, <3>6
  <2> QED BY <2>1, <2>4 DEF Reading
<1> QED BY <1>1, <1>2

-----------------------------------------------------------------------------
(* Assignments.                                                            *)

(* Of the variables that are not hidden in their own block, a name has one *)
(* in each block.                                                          *)
LEMMA ShownOnce ==
  ASSUME NEW context, NEW b \in Nat, NEW c \in Nat, NEW x,
         Shown(context, b, x), Shown(context, c, x), Level(b) = Level(c)
  PROVE  b = c
<1>1. b = c \/ (b = 2 /\ c = 3) \/ (b = 3 /\ c = 2)
  BY DEF Level
<1> QED BY <1>1 DEF Shown

LEMMA FieldIs ==
  ASSUME NEW context, Refs(context), NEW c \in DOMAIN context, NEW x \in DOMAIN context[c], ~context[c][x].isLocal
  PROVE  /\ c = 1 /\ x \in FieldIds
         /\ context[c][x].index = FieldIndex(x)
         /\ context[c][x].index \in DOMAIN Fields
         /\ Fields[context[c][x].index].id = x
<1>1. c = 1 /\ x \in FieldIds /\ context[c][x] = RefConstant(FieldIndex(x), FALSE)
  BY DEF Refs
<1>2. FieldIndex(x) \in DOMAIN Fields /\ Fields[FieldIndex(x)].id = x
  BY <1>1 DEF FieldIds, FieldIndex
<1> QED BY <1>1, <1>2 DEF RefConstant

LEMMA StoredHolds ==
  ASSUME NEW context, NEW limit, Sound(context, limit), limit <= SlotLimit, Refs(context),
         NEW b \in DOMAIN context, NEW x \in DOMAIN context[b], NEW m, NEW n, NEW v,
         Stored(n, m, context[b][x], v)
  PROVE  Holds(n, context[b][x], v)
<1>1. CASE context[b][x].isLocal
  BY <1>1, SlotIs DEF Holds, Stored
<1>2. CASE ~context[b][x].isLocal
  BY <1>2, FieldIs DEF Holds, Stored
<1> QED BY <1>1, <1>2

(* A store leaves what all other names stand for.                          *)
LEMMA OthersHold ==
  ASSUME NEW context, NEW limit, Sound(context, limit), limit <= SlotLimit, Refs(context),
         NEW b \in DOMAIN context, NEW x \in DOMAIN context[b], NEW m, NEW n, NEW v,
         Stored(n, m, context[b][x], v),
         NEW c \in DOMAIN context, NEW y \in DOMAIN context[c], c # b \/ y # x,
         NEW w, Holds(m, context[c][y], w)
  PROVE  Holds(n, context[c][y], w)
<1>1. CASE context[c][y].isLocal
  <2>1. Slot(context[c][y]) \in 0 .. (SlotLimit - 1) /\ Slot(context[c][y]) = context[c][y].index
    BY <1>1, SlotIs
  <2>2. ASSUME context[b][x].isLocal
        PROVE  Slot(context[c][y]) # Slot(context[b][x])
    <3>1. Slot(context[b][x]) = context[b][x].index
      BY <2>2, SlotIs
    <3>2. y \in LocalRefs(context[c]) /\ x \in LocalRefs(context[b])
      BY <1>1, <2>2 DEF LocalRefs
    <3> QED BY <2>1, <3>1, <3>2 DEF Sound, SlotsDiffer
  <2>3. n.locals[Slot(context[c][y])] = m.locals[Slot(context[c][y])]
    BY <2>1, <2>2 DEF Stored
  <2> QED BY <1>1, <2>3 DEF Holds
<1>2. CASE ~context[c][y].isLocal
  <2>1. /\ context[c][y].index \in DOMAIN Fields
        /\ c = 1 /\ Fields[context[c][y].index].id = y
    BY <1>2, FieldIs
  <2>2. ~context[b][x].isLocal => b = 1 /\ Fields[context[b][x].index].id = x
    BY FieldIs
  <2>3. ~(~context[b][x].isLocal /\ context[c][y].index = context[b][x].index)
    BY <2>1, <2>2
  <2>4. n.statics[context[c][y].index] = m.statics[context[c][y].index]
    BY <2>1, <2>3 DEF Stored
  <2> QED BY <1>2, <2>4 DEF Holds
<1> QED BY <1>1, <1>2

(* A value is assigned to the variable that Go assigns it to.              *)
LEMMA StoredReadable ==
  ASSUME NEW g, NEW number, Placed(g, go.scopes, number),
         NEW x, x # Blank, Visible(x) # {}, NEW v, v.type \in Types,
         NEW blocks, DOMAIN blocks = DOMAIN go.scopes,
         \A d \in DOMAIN go.scopes :
           /\ DOMAIN blocks[d] = DOMAIN go.scopes[d]
           /\ \A y \in DOMAIN go.scopes[d] :
                blocks[d][y].value = IF d = Home(x) /\ y = x THEN v ELSE go.scopes[d][y].value,
         NEW m, Readable(g, go.scopes, m, number)
  PROVE  Readable(g, blocks, Stores(m, g, x, v), number)
<1> DEFINE context == g.context
           b == Innermost(context, x)
           ref == find(context, x)
           n == Stores(m, g, x, v)
<1>1. /\ Covers(context, go.scopes) /\ Refs(context) /\ Holding(context, go.scopes, m) /\ Valued(go.scopes)
      /\ Machine(m) /\ ~m.refused /\ m.places <= number
  BY DEF Readable
<1>2. /\ b \in DOMAIN context /\ x \in DOMAIN context[b]
      /\ Shown(context, b, x)
      /\ Level(b) = Home(x)
      /\ ref = context[b][x]
  <2>1. /\ b \in DOMAIN context /\ x \in DOMAIN context[b]
        /\ Shown(context, b, x)
        /\ Level(b) = Home(x)
    BY <1>1, ShownIs
  <2> QED BY <2>1 DEF find
<1>3. /\ Sound(context, g.indexCurrentLocalVariable) /\ g.indexCurrentLocalVariable <= SlotLimit
      /\ g.indexCurrentLocalVariable <= number /\ g.indexCurrentLocalVariable \in Nat /\ number \in Nat
  <2>1. g.indexCurrentLocalVariable \in Nat
    BY PlacedContext
  <2> QED BY <2>1, SlotLimitAssumption DEF Placed
<1>4. \A c \in DOMAIN context : c \in Nat
  BY PlacedContext
<1> HIDE DEF b, ref
<1>5. ref.isLocal => Slot(ref) \in 0 .. (SlotLimit - 1) /\ Slot(ref) < number
  <2> SUFFICES ASSUME ref.isLocal
               PROVE  Slot(ref) \in 0 .. (SlotLimit - 1) /\ Slot(ref) < number
    OBVIOUS
  <2>1. Slot(ref) \in 0 .. (SlotLimit - 1) /\ Slot(ref) < g.indexCurrentLocalVariable
    BY <1>2, <1>3, SlotIs
  <2> QED BY <1>3, <2>1, SlotLimitAssumption
<1>6. ~ref.isLocal => ref.index \in DOMAIN Fields
  BY <1>1, <1>2, FieldIs
<1>7. /\ Machine(n) /\ n.refused = m.refused /\ n.places <= number
      /\ Stored(n, m, ref, v)
  <2>1. ref = find(g.context, x)
    BY DEF ref
  <2> HIDE DEF context
  <2> QED BY <1>1, <1>3, <1>5, <1>6, <2>1, StoresIs
<1> HIDE DEF n, context
<1>8. PICK limit \in Nat : limit = g.indexCurrentLocalVariable /\ Sound(context, limit) /\ limit <= SlotLimit
  BY <1>3
<1>9. Holding(context, blocks, n)
  <2> SUFFICES ASSUME NEW c \in DOMAIN context, NEW y \in DOMAIN context[c], Shown(context, c, y)
               PROVE  Holds(n, context[c][y], blocks[Level(c)][y].value)
    BY DEF Holding
  <2>1. Level(c) \in DOMAIN go.scopes /\ y \in DOMAIN go.scopes[Level(c)]
    BY <1>1 DEF Covers
  <2>2. CASE Level(c) = Home(x) /\ y = x
    <3>1. c = b
      BY <1>2, <1>4, <2>2, ShownOnce
    <3>2. Holds(n, context[b][x], v)
      BY <1>1, <1>2, <1>7, <1>8, StoredHolds
    <3> QED BY <2>1, <2>2, <3>1, <3>2
  <2>3. CASE ~(Level(c) = Home(x) /\ y = x)
    <3>1. c # b \/ y # x
      BY <1>2, <2>3
    <3>2. blocks[Level(c)][y].value = go.scopes[Level(c)][y].value
      BY <2>1, <2>3
    <3>3. Holds(m, context[c][y], go.scopes[Level(c)][y].value)
      BY <1>1 DEF Holding
    <3>4. Holds(n, context[c][y], go.scopes[Level(c)][y].value)
      BY <1>1, <1>2, <1>7, <1>8, <3>1, <3>3, OthersHold
    <3> QED BY <3>2, <3>4
  <2> QED BY <2>2, <2>3
<1>10. Covers(context, blocks)
  BY <1>1 DEF Covers
<1>11. Valued(blocks)
  BY <1>1 DEF Valued
<1> QED BY <1>1, <1>7, <1>9, <1>10, <1>11 DEF Readable, n, context

LEMMA AssignReading ==
  ASSUME Inv, Named, Reading, NEW x, NEW e \in Expressions, Assign(x, e)
  PROVE  Reading'
<1>1. CASE Rejected
  BY <1>1, RejectedReading
<1>2. CASE ~Rejected
  <2> DEFINE number == analysis.numberLocalVariables
             breaks == AssignmentBreaks(x, e)
             met == Meets(ReadsZero(<<e>>), "reads zero")
             blocks == AssignedVariables(x, e)
             v == GoValue(e)
             n == Loads(jvm, generator, analysis, e)
  <2>1. /\ stage = "body" /\ stage' = "body" /\ generator' = generator
        /\ analysis' = Visited(analysis, <<e>>)
        /\ jvm' = Initialised(jvm, generator, analysis, x, e)
        /\ go' = GoStep(breaks, met, blocks)
    BY <1>2 DEF Assign, Unbroken, InBody, Goes, GoAssignment
  <2>2. Analysis(analysis)
    BY DEF Inv
  <2>3. analysis'.numberLocalVariables = number /\ number \in Nat
    BY <2>1, <2>2, VisitedAnalysis DEF Analysis
  <2>4. ASSUME Handled'
        PROVE  Readable(generator', go'.scopes, jvm', analysis'.numberLocalVariables)
    <3> HIDE DEF n, v
    <3>1. /\ Handled /\ breaks = {} /\ go'.scopes = blocks
          /\ met \cap Excluded = {}
      <4> HIDE DEF breaks, met, blocks
      <4>1. go'.broken = {} /\ go'.met \cap Excluded = {} /\ number <= SlotLimit
        BY <2>3, <2>4 DEF Handled, Excluded
      <4>2. go.broken = {} /\ breaks = {} /\ go'.scopes = blocks /\ go.met \cap Excluded = {} /\ met \cap Excluded = {}
        BY <2>1, <4>1, Proceeds
      <4> QED BY <4>1, <4>2 DEF Handled, Excluded
    <3>2. PICK exact : Matches(analysis.scopesDeclarations, go.scopes, exact)
      BY <2>1, <3>1 DEF Named, Handled
    <3>3. Placed(generator, go.scopes, number)
      BY <2>1, <3>1, BodyPlaced
    <3>4. Readable(generator, go.scopes, jvm, number)
      BY <2>1, <3>1 DEF Reading
    <3>5. /\ Defined(<<e>>) /\ ~ReadsZero(<<e>>)
          /\ x # Blank => Visible(x) # {} /\ GoVariable(x).value.type = v.type
      BY <3>1 DEF AssignmentBreaks, Rule, Meets, Excluded, v
    <3>6. /\ Pushed(jvm, generator, analysis, e) = v
          /\ v.type \in Types
          /\ Readable(generator, go.scopes, n, number)
      <4>1. Assigned(e)
        BY <3>5 DEF Assigned, Defined, ReadsZero, ReadBy
      <4> QED BY <3>2, <3>3, <3>4, <4>1, LoadReadable DEF n, v
    <3>7. CASE x = Blank
      <4>1. jvm' = n /\ blocks = Used(<<e>>)
        BY <2>1, <3>7 DEF Initialised, Stores, n, AssignedVariables
      <4>2. Readable(generator, Used(<<e>>), n, number)
        BY <3>2, <3>6, UsedReadable DEF Readable
      <4> QED BY <2>1, <2>3, <3>1, <4>1, <4>2
    <3>8. CASE x # Blank
      <4> DEFINE h == Home(x)
      <4>1. jvm' = Stores(n, generator, x, v)
        BY <2>1, <3>6 DEF Initialised, n
      <4>2. h \in 1 .. Len(go.scopes) /\ x \in DOMAIN go.scopes[h]
        BY <3>2, <3>5, <3>8, Resolution
      <4>3. /\ Matches(Use(analysis.scopesDeclarations, <<e>>), Used(<<e>>), exact)
            /\ Len(Used(<<e>>)) = Len(go.scopes)
            /\ \A d \in 1 .. Len(go.scopes) :
                 /\ DOMAIN Used(<<e>>)[d] = DOMAIN go.scopes[d]
                 /\ \A y \in DOMAIN go.scopes[d] : Used(<<e>>)[d][y].value = go.scopes[d][y].value
        BY <3>2, UseMatches
      <4>4. v.type = Used(<<e>>)[h][x].value.type
        BY <3>5, <3>8, <4>2, <4>3 DEF GoVariable
      <4>5. blocks = [Used(<<e>>) EXCEPT ![h][x].value = v]
        BY <3>8 DEF AssignedVariables, v
      <4>6. /\ Matches(Use(analysis.scopesDeclarations, <<e>>), blocks, exact)
            /\ Len(blocks) = Len(Used(<<e>>))
            /\ \A d \in 1 .. Len(Used(<<e>>)) :
                 /\ DOMAIN blocks[d] = DOMAIN Used(<<e>>)[d]
                 /\ \A y \in DOMAIN Used(<<e>>)[d] :
                      blocks[d][y].value = IF d = h /\ y = x THEN v ELSE Used(<<e>>)[d][y].value
        <5>1. h \in 1 .. Len(Used(<<e>>)) /\ x \in DOMAIN Used(<<e>>)[h]
          BY <4>2, <4>3
        <5> HIDE DEF h, blocks
        <5>2. PICK scopes : scopes = Use(analysis.scopesDeclarations, <<e>>)
          OBVIOUS
        <5>3. PICK used : used = Used(<<e>>)
          OBVIOUS
        <5> QED BY <4>3, <4>4, <4>5, <5>1, <5>2, <5>3, AssignedMatches, SMTT(40)
      <4>7. DOMAIN blocks = 1 .. Len(blocks) /\ DOMAIN go.scopes = 1 .. Len(go.scopes)
        <5> HIDE DEF blocks
        <5>1. PICK T : blocks \in Seq(T)
          BY <4>6 DEF Matches
        <5>2. PICK U : go.scopes \in Seq(U)
          BY <3>2 DEF Matches
        <5> QED BY <5>1, <5>2, LenProperties
      <4> HIDE DEF blocks
      <4>8. /\ DOMAIN blocks = DOMAIN go.scopes
            /\ \A d \in DOMAIN go.scopes :
                 /\ DOMAIN blocks[d] = DOMAIN go.scopes[d]
                 /\ \A y \in DOMAIN go.scopes[d] :
                      blocks[d][y].value = IF d = Home(x) /\ y = x THEN v ELSE go.scopes[d][y].value
        BY <4>3, <4>6, <4>7
      <4>9. Readable(generator, blocks, Stores(n, generator, x, v), number)
        BY <3>3, <3>5, <3>6, <3>8, <4>8, StoredReadable
      <4> QED BY <2>1, <2>3, <3>1, <4>1, <4>9
    <3> QED BY <3>7, <3>8
  <2> QED BY <2>1, <2>4, BodyReading
<1> QED BY <1>1, <1>2

-----------------------------------------------------------------------------
(* Declarations.                                                           *)

(* The place of the frame that the code uses for a name. *)
SlotOf(g, x) == Slot(find(g.context, x))

(* A name that is declared gets a place that no variable had before.       *)
LEMMA NewSlots ==
  ASSUME NEW g, NEW blocks, NEW number, Placed(g, blocks, number),
         NEW T, NEW ids \in Seq(T), NEW h, h = Number(g, ids), h.indexCurrentLocalVariable <= number,
         NEW x \in AddedNames(ids)
  PROVE  /\ Len(g.context) \in DOMAIN h.context /\ x \in DOMAIN h.context[Len(g.context)]
         /\ find(h.context, x) = h.context[Len(g.context)][x]
         /\ h.context[Len(g.context)][x].isLocal
         /\ SlotOf(h, x) = h.context[Len(g.context)][x].index
         /\ SlotOf(h, x) \in 0 .. (SlotLimit - 1)
         /\ g.indexCurrentLocalVariable <= SlotOf(h, x)
         /\ SlotOf(h, x) < number
<1> DEFINE n == Len(g.context)
           new == h.context
           ref == new[n][x]
<1>1. PICK S : g.context \in Seq(S)
  BY PlacedContext
<1>2. g.context # <<>> /\ g.indexCurrentLocalVariable \in Nat
  BY PlacedContext
<1>3. /\ \E U : new \in Seq(U)
      /\ n \in Nat /\ DOMAIN new = 1 .. n /\ n >= 1
      /\ DOMAIN new[n] = DOMAIN g.context[n] \cup AddedNames(ids)
      /\ ref = RefConstant(g.indexCurrentLocalVariable + Rank(ids, AddedLast(ids, x)), TRUE)
      /\ Rank(ids, AddedLast(ids, x)) \in Nat
  <2>1. LET after == Number(g, ids).context
        IN  /\ \E U : after \in Seq(U)
            /\ n \in Nat /\ DOMAIN after = 1 .. n /\ n >= 1
            /\ DOMAIN after[n] = DOMAIN g.context[n] \cup AddedNames(ids)
            /\ \A y \in AddedNames(ids) :
                 /\ after[n][y] = RefConstant(g.indexCurrentLocalVariable + Rank(ids, AddedLast(ids, y)), TRUE)
                 /\ Rank(ids, AddedLast(ids, y)) \in Nat
    BY <1>1, <1>2, NumberIs
  <2>2. new = Number(g, ids).context
    OBVIOUS
  <2> HIDE DEF new, n
  <2> QED BY <2>1, <2>2
<1>4. n \in DOMAIN new /\ x \in DOMAIN new[n]
  BY <1>3
<1>5. find(new, x) = ref
  <2>1. Declares(new, x)
    BY <1>4 DEF Declares
  <2>2. PICK U : new \in Seq(U)
    BY <1>3
  <2> HIDE DEF new, ref, n
  <2>3. /\ Innermost(new, x) \in DOMAIN new
        /\ \A c \in DOMAIN new : x \in DOMAIN new[c] => c <= Innermost(new, x)
    BY <2>1, <2>2, InnermostIs
  <2>4. Innermost(new, x) = n
    BY <1>3, <1>4, <2>3
  <2> QED BY <2>4 DEF find, ref
<1>6. Sound(new, h.indexCurrentLocalVariable) /\ h.indexCurrentLocalVariable \in Nat
  <2>1. Sound(g.context, g.indexCurrentLocalVariable)
    BY DEF Placed
  <2> QED BY <2>1, NumberIsSound DEF Sound
<1>7. number \in Nat /\ number <= SlotLimit
  BY DEF Placed
<1>8. h.indexCurrentLocalVariable <= SlotLimit
  BY <1>6, <1>7, SlotLimitAssumption
<1>9. ref.isLocal /\ ref.index = g.indexCurrentLocalVariable + Rank(ids, AddedLast(ids, x))
  BY <1>3 DEF RefConstant
<1>10. Slot(ref) = ref.index /\ Slot(ref) \in 0 .. (SlotLimit - 1) /\ Slot(ref) < h.indexCurrentLocalVariable
  BY <1>4, <1>6, <1>8, <1>9, SlotIs
<1>11. SlotOf(h, x) = Slot(ref)
  BY <1>5 DEF SlotOf
<1> HIDE DEF ref, n, new
<1>12. g.indexCurrentLocalVariable <= Slot(ref)
  <2>1. PICK l \in Nat, r \in Nat : l = g.indexCurrentLocalVariable /\ r = Rank(ids, AddedLast(ids, x))
    BY <1>2, <1>3
  <2>2. Slot(ref) = l + r
    BY <1>9, <1>10, <2>1
  <2> QED BY <2>1, <2>2
<1>13. Slot(ref) < number
  BY <1>6, <1>7, <1>10, SlotLimitAssumption
<1> QED BY <1>4, <1>5, <1>9, <1>10, <1>11, <1>12, <1>13 DEF ref, n, new

LEMMA NewSlotsDiffer ==
  ASSUME NEW g, NEW blocks, NEW number, Placed(g, blocks, number),
         NEW T, NEW ids \in Seq(T), NEW h, h = Number(g, ids), h.indexCurrentLocalVariable <= number,
         NEW x \in AddedNames(ids), NEW y \in AddedNames(ids), x # y
  PROVE  SlotOf(h, x) # SlotOf(h, y)
<1> DEFINE n == Len(g.context)
<1>1. /\ n \in DOMAIN h.context /\ x \in DOMAIN h.context[n] /\ y \in DOMAIN h.context[n]
      /\ h.context[n][x].isLocal /\ h.context[n][y].isLocal
      /\ SlotOf(h, x) = h.context[n][x].index
      /\ SlotOf(h, y) = h.context[n][y].index
  BY NewSlots
<1> HIDE DEF n
<1>2. SlotsDiffer(h.context)
  <2>1. Sound(g.context, g.indexCurrentLocalVariable)
    BY DEF Placed
  <2> QED BY <2>1, NumberIsSound DEF Sound
<1> QED BY <1>1, <1>2 DEF SlotsDiffer, LocalRefs

(* The evaluation of a value, and its store in the place of a new name.    *)
Apart(e, ids) == e.kind = "read" => e.name \notin AddedNames(ids)

Filled(k, m, h, x, v) ==
  /\ x # Blank => k.locals[SlotOf(h, x)] = v
  /\ \A s \in 0 .. (SlotLimit - 1) : x = Blank \/ s # SlotOf(h, x) => k.locals[s] = m.locals[s]

LEMMA InitialisedIs ==
  ASSUME NEW a, NEW exact, Matches(a.scopesDeclarations, go.scopes, exact),
         NEW g, NEW m, NEW number, Placed(g, go.scopes, number), Readable(g, go.scopes, m, number),
         NEW T, NEW ids \in Seq(T), NEW h, h = Number(g, ids), h.indexCurrentLocalVariable <= number,
         NEW x \in AddedNames(ids) \cup {Blank},
         NEW e \in Expressions, Assigned(e), Apart(e, ids)
  PROVE  /\ Readable(g, go.scopes, Initialised(m, h, a, x, e), number)
         /\ Filled(Initialised(m, h, a, x, e), m, h, x, GoValue(e))
         /\ GoValue(e).type \in Types
<1> DEFINE k == Initialised(m, h, a, x, e)
           n == Loads(m, g, a, e)
           v == GoValue(e)
<1>1. /\ Pushed(m, g, a, e) = v
      /\ v.type \in Types
      /\ Readable(g, go.scopes, n, number)
  <2> HIDE DEF k, n, v
  <2> QED BY LoadReadable DEF n, v
<1>7. n.locals = m.locals
  BY LoadsKeep DEF Readable
<1>2. e.kind # "literal" => Visible(e.name) # {} /\ e.name \notin AddedNames(ids)
  <2>1. e.kind # "literal" => e.kind = "read"
    BY Kinds
  <2> QED BY <2>1 DEF Assigned, Apart
<1>3. /\ Pushed(m, h, a, e) = v
      /\ Loads(m, h, a, e) = n
  <2>1. e.kind # "literal" => find(h.context, e.name) = find(g.context, e.name)
    <3> HIDE DEF n, v, k
    <3>1. Covers(g.context, go.scopes)
      BY DEF Readable
    <3> QED BY <1>2, <3>1, SameFound
  <2>2. Pushed(m, h, a, e) = Pushed(m, g, a, e) /\ (e.kind # "literal" => Places(h, e.name) = Places(g, e.name))
    BY <2>1 DEF Pushed, Places
  <2> QED BY <1>1, <2>2 DEF Loads
<1>4. k = Stores(n, h, x, v)
  BY <1>3 DEF Initialised
<1> HIDE DEF n, v, k
<1>5. CASE x = Blank
  <2>1. k = n
    BY <1>4, <1>5 DEF Stores
  <2> QED BY <1>7, <1>1, <1>5, <2>1 DEF k, v, Filled
<1>6. CASE x # Blank
  <2> DEFINE s == SlotOf(h, x)
             ref == find(h.context, x)
  <2>1. /\ ref.isLocal /\ Slot(ref) = s
        /\ s \in 0 .. (SlotLimit - 1)
        /\ g.indexCurrentLocalVariable <= s
        /\ s < number
    BY <1>6, NewSlots DEF SlotOf
  <2>2. Machine(n) /\ n.places <= number /\ ~n.refused
    BY <1>1 DEF Readable
  <2>3. number \in Nat
    BY DEF Placed
  <2>4. /\ Machine(k) /\ k.refused = n.refused /\ k.places <= number
        /\ Stored(k, n, ref, v)
    <3>1. PICK r : r = ref
      OBVIOUS
    <3>2. r.isLocal => Slot(r) \in 0 .. (SlotLimit - 1) /\ Slot(r) < number
      BY <2>1, <3>1
    <3>3. ~r.isLocal => r.index \in DOMAIN Fields
      BY <2>1, <3>1
    <3>4. r = find(h.context, x)
      BY <3>1
    <3> HIDE DEF s, ref
    <3>5. /\ Machine(Stores(n, h, x, v)) /\ Stores(n, h, x, v).refused = n.refused /\ Stores(n, h, x, v).places <= number
          /\ Stored(Stores(n, h, x, v), n, r, v)
      BY <1>6, <2>2, <2>3, <3>2, <3>3, <3>4, StoresIs
    <3> QED BY <1>4, <3>1, <3>5
  <2> HIDE DEF s, ref
  <2>5. /\ k.locals[s] = v
        /\ \A t \in 0 .. (SlotLimit - 1) : t # s => k.locals[t] = n.locals[t]
        /\ \A i \in DOMAIN Fields : k.statics[i] = n.statics[i]
    BY <2>1, <2>4 DEF Stored
  <2>6. Holding(g.context, go.scopes, k)
    <3> SUFFICES ASSUME NEW c \in DOMAIN g.context, NEW y \in DOMAIN g.context[c], Shown(g.context, c, y)
                 PROVE  Holds(k, g.context[c][y], go.scopes[Level(c)][y].value)
      BY DEF Holding
    <3>1. Holds(n, g.context[c][y], go.scopes[Level(c)][y].value)
      BY <1>1 DEF Readable, Holding
    <3>2. CASE g.context[c][y].isLocal
      <4>1. g.indexCurrentLocalVariable \in Nat /\ g.indexCurrentLocalVariable <= SlotLimit /\ Sound(g.context, g.indexCurrentLocalVariable)
        <5>1. g.indexCurrentLocalVariable \in Nat
          BY PlacedContext
        <5> QED BY <5>1, SlotLimitAssumption DEF Placed
      <4>2. Slot(g.context[c][y]) \in 0 .. (SlotLimit - 1) /\ Slot(g.context[c][y]) < g.indexCurrentLocalVariable
        BY <3>2, <4>1, SlotIs
      <4>3. Slot(g.context[c][y]) # s
        BY <2>1, <4>1, <4>2, SlotLimitAssumption
      <4>4. k.locals[Slot(g.context[c][y])] = n.locals[Slot(g.context[c][y])]
        BY <2>5, <4>2, <4>3
      <4> QED BY <3>1, <3>2, <4>4 DEF Holds
    <3>3. CASE ~g.context[c][y].isLocal
      <4>1. g.context[c][y].index \in DOMAIN Fields
        BY <1>1, <3>3, FieldIs DEF Readable
      <4> QED BY <2>5, <3>1, <3>3, <4>1 DEF Holds
    <3> QED BY <3>2, <3>3
  <2>7. Readable(g, go.scopes, k, number)
    BY <1>1, <2>2, <2>4, <2>6 DEF Readable
  <2> QED BY <1>7, <1>1, <1>6, <2>5, <2>7 DEF k, v, s, Filled
<1> QED BY <1>5, <1>6

(* All values of a declaration, of which there are at most two.            *)
Proper(ids, es) ==
  /\ Distinct(ids)
  /\ es \in Seq(Expressions) /\ Len(es) <= 2 /\ (es = <<>> \/ DOMAIN es = DOMAIN ids)
  /\ Defined(es) /\ ~ReadsZero(es) /\ ~\E i \in DOMAIN ids : ids[i] \in ReadBy(es)

Initial(k, h, ids, es) ==
  es # <<>> => \A x \in AddedNames(ids) :
                 /\ k.locals[SlotOf(h, x)] = GoValue(es[Position(ids, x)])
                 /\ GoValue(es[Position(ids, x)]).type \in Types

LEMMA InitialisesIs ==
  ASSUME NEW a, NEW exact, Matches(a.scopesDeclarations, go.scopes, exact),
         NEW g, NEW m, NEW number, Placed(g, go.scopes, number), Readable(g, go.scopes, m, number),
         NEW T, NEW ids \in Seq(T), NEW es, Proper(ids, es),
         NEW h, h = Number(g, ids), h.indexCurrentLocalVariable <= number
  PROVE  /\ Readable(g, go.scopes, Initialises(m, h, a, ids, es), number)
         /\ Initial(Initialises(m, h, a, ids, es), h, ids, es)
<1> USE DEF Proper
<1> DEFINE k == Initialises(m, h, a, ids, es)
<1>1. /\ Len(es) \in Nat /\ DOMAIN es = 1 .. Len(es)
      /\ \A i \in DOMAIN es : es[i] \in Expressions
      /\ es = <<>> <=> Len(es) = 0
  BY LenProperties, ElementOfSeq, EmptySeq
<1>2. ASSUME NEW i \in DOMAIN es
      PROVE  Assigned(es[i]) /\ Apart(es[i], ids)
  <2>1. es[i].kind = "read" => es[i].name \in ReadBy(es)
    BY DEF ReadBy
  <2>2. \A x \in AddedNames(ids) : \E j \in DOMAIN ids : ids[j] = x
    BY DEF AddedNames, Added
  <2>3. es[i].kind = "read" => es[i].name \notin AddedNames(ids)
    BY <2>1, <2>2
  <2> QED BY <2>3, AssignedIs DEF Apart
<1>3. ASSUME NEW i \in DOMAIN ids
      PROVE  ids[i] \in AddedNames(ids) \cup {Blank}
  BY DEF AddedNames, Added
<1>4. ASSUME NEW x \in AddedNames(ids)
      PROVE  Position(ids, x) \in DOMAIN ids /\ ids[Position(ids, x)] = x /\ x # Blank
  <2>1. x \in Declared(ids)
    BY DeclaredNames
  <2> QED BY <2>1, DeclaredNames DEF Declared
<1>5. Len(es) = 0 \/ Len(es) = 1 \/ Len(es) = 2
  BY <1>1
<1>6. CASE Len(es) = 0
  <2>1. k = m
    BY <1>6 DEF Initialises
  <2> QED BY <1>1, <1>6, <2>1 DEF Initial
<1>7. CASE Len(es) = 1
  <2>1. k = Initialised(m, h, a, ids[1], es[1])
    BY <1>7 DEF Initialises
  <2>2. 1 \in DOMAIN es /\ 1 \in DOMAIN ids /\ \A i \in DOMAIN ids : i = 1
    BY <1>1, <1>7
  <2> HIDE DEF k
  <2>3. PICK x \in AddedNames(ids) \cup {Blank}, e \in Expressions :
          /\ x = ids[1] /\ e = es[1]
          /\ Assigned(e) /\ Apart(e, ids)
    BY <1>1, <1>2, <1>3, <2>2
  <2>4. /\ Readable(g, go.scopes, Initialised(m, h, a, x, e), number)
        /\ Filled(Initialised(m, h, a, x, e), m, h, x, GoValue(e))
        /\ GoValue(e).type \in Types
    BY <2>3, InitialisedIs
  <2>5. ASSUME NEW y \in AddedNames(ids)
        PROVE  y = x /\ y # Blank /\ es[Position(ids, y)] = e
    BY <1>4, <2>2, <2>3
  <2> QED BY <2>1, <2>3, <2>4, <2>5 DEF k, Filled, Initial
<1>8. CASE Len(es) = 2
  <2>1. k = Initialised(Initialised(m, h, a, ids[1], es[1]), h, a, ids[2], es[2])
    BY <1>8 DEF Initialises
  <2>2. 1 \in DOMAIN es /\ 2 \in DOMAIN es /\ 1 \in DOMAIN ids /\ 2 \in DOMAIN ids /\ \A i \in DOMAIN ids : i = 1 \/ i = 2
    BY <1>1, <1>8
  <2> HIDE DEF k
  <2>3. PICK x \in AddedNames(ids) \cup {Blank}, e \in Expressions :
          /\ x = ids[1] /\ e = es[1]
          /\ Assigned(e) /\ Apart(e, ids)
    BY <1>1, <1>2, <1>3, <2>2
  <2>4. PICK y \in AddedNames(ids) \cup {Blank}, f \in Expressions :
          /\ y = ids[2] /\ f = es[2]
          /\ Assigned(f) /\ Apart(f, ids)
    BY <1>1, <1>2, <1>3, <2>2
  <2>5. PICK n : n = Initialised(m, h, a, x, e)
    OBVIOUS
  <2>6. /\ Readable(g, go.scopes, n, number)
        /\ Filled(n, m, h, x, GoValue(e))
        /\ GoValue(e).type \in Types
    BY <2>3, <2>5, InitialisedIs
  <2>7. k = Initialised(n, h, a, y, f)
    BY <2>1, <2>3, <2>4, <2>5
  <2>8. /\ Readable(g, go.scopes, k, number)
        /\ Filled(k, n, h, y, GoValue(f))
        /\ GoValue(f).type \in Types
    BY <2>4, <2>6, <2>7, InitialisedIs
  <2>9. ASSUME NEW z \in AddedNames(ids)
        PROVE  /\ k.locals[SlotOf(h, z)] = GoValue(es[Position(ids, z)])
               /\ GoValue(es[Position(ids, z)]).type \in Types
    <3>1. CASE Position(ids, z) = 2
      BY <1>4, <2>4, <2>8, <3>1 DEF Filled
    <3>2. CASE Position(ids, z) = 1
      <4>1. z = x /\ z # Blank
        BY <1>4, <2>3, <3>2
      <4>2. y # z
        <5>1. 1 < 2 => ids[1] # ids[2] \/ ids[1] = Blank
          BY <2>2 DEF Distinct
        <5> QED BY <2>3, <2>4, <4>1, <5>1
      <4>3. y = Blank \/ SlotOf(h, z) # SlotOf(h, y)
        BY <4>2, NewSlotsDiffer
      <4>4. SlotOf(h, z) \in 0 .. (SlotLimit - 1)
        BY NewSlots
      <4>5. k.locals[SlotOf(h, z)] = n.locals[SlotOf(h, z)]
        BY <2>8, <4>3, <4>4 DEF Filled
      <4> QED BY <2>3, <2>6, <3>2, <4>1, <4>5 DEF Filled
    <3> QED BY <1>4, <2>2, <3>1, <3>2
  <2> QED BY <2>8, <2>9 DEF k, Initial
<1> QED BY <1>5, <1>6, <1>7, <1>8

(* The names of the block in which a declaration stands, afterwards.       *)
Extends(blocks, ids) ==
  /\ DOMAIN blocks = DOMAIN go.scopes
  /\ \A d \in DOMAIN go.scopes :
       DOMAIN blocks[d] = IF d = Len(go.scopes) THEN DOMAIN go.scopes[d] \cup AddedNames(ids) ELSE DOMAIN go.scopes[d]
  /\ \A d \in DOMAIN go.scopes : \A x \in DOMAIN go.scopes[d] :
       d # Len(go.scopes) \/ x \notin AddedNames(ids) => blocks[d][x].value = go.scopes[d][x].value

Set(m, h, ids, blocks) ==
  \A x \in AddedNames(ids) :
    LET v == blocks[Len(go.scopes)][x].value
    IN  v.type \in Types /\ (v.value # "zero" => m.locals[SlotOf(h, x)] = v)

LEMMA NumberedScopes ==
  ASSUME NEW g, NEW blocks, NEW number, Placed(g, blocks, number), NEW T, NEW ids \in Seq(T),
         NEW h, h = Number(g, ids), NEW n, n = Len(g.context)
  PROVE  /\ DOMAIN h.context = 1 .. n
         /\ \A c \in 1 .. n : c # n => h.context[c] = g.context[c]
         /\ DOMAIN h.context[n] = DOMAIN g.context[n] \cup AddedNames(ids)
         /\ \A x \in DOMAIN g.context[n] : x \notin AddedNames(ids) => h.context[n][x] = g.context[n][x]
<1>1. PICK S : g.context \in Seq(S)
  BY PlacedContext
<1>2. g.context # <<>> /\ g.indexCurrentLocalVariable \in Nat
  BY PlacedContext
<1> DEFINE old == g.context
           after == Number(g, ids).context
           last == Len(old)
<1>3. /\ DOMAIN after = 1 .. last
      /\ \A c \in 1 .. last : c # last => after[c] = old[c]
      /\ DOMAIN after[last] = DOMAIN old[last] \cup AddedNames(ids)
      /\ \A x \in DOMAIN old[last] : x \notin AddedNames(ids) => after[last][x] = old[last][x]
  BY <1>1, <1>2, NumberIs
<1> QED BY <1>3

LEMMA DeclaredReadable ==
  ASSUME NEW g, NEW m, NEW number, Placed(g, go.scopes, number), Readable(g, go.scopes, m, number),
         NEW T, NEW ids \in Seq(T), NEW h, h = Number(g, ids), h.indexCurrentLocalVariable <= number,
         NEW blocks, Extends(blocks, ids), Set(m, h, ids, blocks)
  PROVE  Readable(h, blocks, m, number)
<1> USE DEF Extends, Set
<1> DEFINE n == Len(go.scopes)
           old == g.context
           new == h.context
<1>1. /\ DOMAIN old = 1 .. (n + 1) /\ DOMAIN go.scopes = 1 .. n /\ n \in Nat /\ n >= 2 /\ Len(old) = n + 1
  BY PlacedContext
<1>2. /\ DOMAIN new = 1 .. (n + 1)
      /\ \A c \in 1 .. (n + 1) : c # n + 1 => new[c] = old[c]
      /\ DOMAIN new[n + 1] = DOMAIN old[n + 1] \cup AddedNames(ids)
      /\ \A x \in DOMAIN old[n + 1] : x \notin AddedNames(ids) => new[n + 1][x] = old[n + 1][x]
  <2>1. PICK l : l = Len(g.context)
    OBVIOUS
  <2>2. /\ DOMAIN h.context = 1 .. l
        /\ \A c \in 1 .. l : c # l => h.context[c] = g.context[c]
        /\ DOMAIN h.context[l] = DOMAIN g.context[l] \cup AddedNames(ids)
        /\ \A x \in DOMAIN g.context[l] : x \notin AddedNames(ids) => h.context[l][x] = g.context[l][x]
    BY <2>1, NumberedScopes
  <2>3. l = n + 1
    BY <1>1, <2>1
  <2> QED BY <2>2, <2>3
<1>3. \A x \in AddedNames(ids) : new[n + 1][x].isLocal /\ SlotOf(h, x) = Slot(new[n + 1][x])
  <2> SUFFICES ASSUME NEW x \in AddedNames(ids)
               PROVE  new[n + 1][x].isLocal /\ SlotOf(h, x) = Slot(new[n + 1][x])
    OBVIOUS
  <2>1. find(h.context, x) = h.context[Len(g.context)][x] /\ h.context[Len(g.context)][x].isLocal
    BY NewSlots
  <2> QED BY <1>1, <2>1 DEF SlotOf
<1>4. Covers(old, go.scopes) /\ Refs(old) /\ Holding(old, go.scopes, m) /\ Valued(go.scopes)
  BY DEF Readable
<1> HIDE DEF n, old, new
<1>5. Level(n + 1) = n
  BY <1>1 DEF Level
<1>6. /\ n \in 1 .. n /\ n + 1 \in 1 .. (n + 1) /\ 1 # n + 1
      /\ \A c \in 1 .. (n + 1) : Level(c) = n => c = n + 1 \/ (c = 2 /\ n + 1 = 3)
  BY <1>1 DEF Level
<1>7. \A c \in DOMAIN old : DOMAIN old[c] \subseteq DOMAIN new[c]
  BY <1>1, <1>2
<1>8. \A d \in DOMAIN go.scopes : DOMAIN go.scopes[d] \subseteq DOMAIN blocks[d]
  OBVIOUS
<1>9. AddedNames(ids) \subseteq DOMAIN blocks[n]
  BY <1>1, <1>6 DEF n
<1>10. Covers(new, blocks)
  <2>1. ASSUME NEW c \in DOMAIN new
        PROVE  Level(c) \in DOMAIN blocks /\ DOMAIN new[c] \subseteq DOMAIN blocks[Level(c)]
    <3>1. Level(c) \in DOMAIN go.scopes /\ DOMAIN old[c] \subseteq DOMAIN blocks[Level(c)]
      BY <1>1, <1>2, <1>4, <1>8 DEF Covers
    <3>2. CASE c # n + 1
      BY <1>2, <3>1, <3>2
    <3>3. CASE c = n + 1
      BY <1>2, <1>5, <1>9, <3>1, <3>3
    <3> QED BY <3>2, <3>3
  <2>2. ASSUME NEW d \in DOMAIN blocks, NEW x \in DOMAIN blocks[d]
        PROVE  \E c \in DOMAIN new : Level(c) = d /\ x \in DOMAIN new[c]
    <3>1. CASE x \in DOMAIN go.scopes[d]
      <4>1. PICK c \in DOMAIN old : Level(c) = d /\ x \in DOMAIN old[c]
        BY <1>4, <3>1 DEF Covers
      <4> QED BY <1>1, <1>2, <1>7, <4>1
    <3>2. CASE x \notin DOMAIN go.scopes[d]
      <4>1. d = n /\ x \in AddedNames(ids)
        BY <3>2 DEF n
      <4> QED BY <1>2, <1>5, <1>6, <4>1
    <3> QED BY <3>1, <3>2
  <2> QED BY <2>1, <2>2 DEF Covers
<1>11. Refs(new)
  <2> SUFFICES ASSUME NEW c \in DOMAIN new, NEW x \in DOMAIN new[c]
               PROVE  IF c = 1 THEN x \in FieldIds /\ new[c][x] = RefConstant(FieldIndex(x), FALSE)
                               ELSE new[c][x].isLocal
    BY DEF Refs
  <2>1. CASE c # n + 1
    BY <1>1, <1>2, <1>4, <2>1 DEF Refs
  <2>2. CASE c = n + 1 /\ x \in AddedNames(ids)
    BY <1>3, <1>6, <2>2
  <2>3. CASE c = n + 1 /\ x \notin AddedNames(ids)
    <3>1. x \in DOMAIN old[c] /\ new[c][x] = old[c][x] /\ c # 1 /\ c \in DOMAIN old
      BY <1>1, <1>2, <1>6, <2>3
    <3> QED BY <1>4, <3>1 DEF Refs
  <2> QED BY <2>1, <2>2, <2>3
<1>12. Holding(new, blocks, m)
  <2> SUFFICES ASSUME NEW c \in DOMAIN new, NEW x \in DOMAIN new[c], Shown(new, c, x)
               PROVE  Holds(m, new[c][x], blocks[Level(c)][x].value)
    BY DEF Holding
  <2>1. CASE c = n + 1 /\ x \in AddedNames(ids)
    <3>1. blocks[n][x].value.value # "zero" => m.locals[SlotOf(h, x)] = blocks[n][x].value
      BY <2>1 DEF n
    <3> QED BY <1>3, <1>5, <2>1, <3>1 DEF Holds
  <2>2. CASE ~(c = n + 1 /\ x \in AddedNames(ids))
    <3>1. c \in DOMAIN old /\ x \in DOMAIN old[c] /\ new[c][x] = old[c][x]
      BY <1>1, <1>2, <2>2
    <3>2. Shown(old, c, x)
      <4>1. 3 \in DOMAIN old /\ x \in DOMAIN old[3] => 3 \in DOMAIN new /\ x \in DOMAIN new[3]
        BY <1>1, <1>2, <1>7
      <4> QED BY <3>1, <4>1 DEF Shown
    <3>3. Level(c) \in DOMAIN go.scopes /\ x \in DOMAIN go.scopes[Level(c)]
      BY <1>4, <3>1 DEF Covers
    <3>4. Level(c) # n \/ x \notin AddedNames(ids)
      <4> SUFFICES ASSUME Level(c) = n, x \in AddedNames(ids)
                   PROVE  FALSE
        OBVIOUS
      <4>1. c = 2 /\ n + 1 = 3
        BY <1>1, <1>6, <2>2, <3>1
      <4>2. 3 \in DOMAIN new /\ x \in DOMAIN new[3]
        BY <1>2, <1>6, <4>1
      <4> QED BY <4>1, <4>2 DEF Shown
    <3>5. blocks[Level(c)][x].value = go.scopes[Level(c)][x].value
      BY <3>3, <3>4 DEF n
    <3>6. Holds(m, old[c][x], go.scopes[Level(c)][x].value)
      BY <1>4, <3>1, <3>2 DEF Holding
    <3> QED BY <3>1, <3>5, <3>6
  <2> QED BY <2>1, <2>2
<1>13. Valued(blocks)
  <2> SUFFICES ASSUME NEW d \in DOMAIN blocks, NEW x \in DOMAIN blocks[d]
               PROVE  blocks[d][x].value.type \in Types
    BY DEF Valued
  <2>1. CASE d = n /\ x \in AddedNames(ids)
    BY <2>1 DEF n
  <2>2. CASE ~(d = n /\ x \in AddedNames(ids))
    <3>1. x \in DOMAIN go.scopes[d] /\ blocks[d][x].value = go.scopes[d][x].value
      BY <2>2 DEF n
    <3> QED BY <1>4, <3>1 DEF Valued
  <2> QED BY <2>1, <2>2
<1> QED BY <1>10, <1>11, <1>12, <1>13 DEF Readable, new

(* The blocks of Go after a declaration.                                   *)
Gives(blocks, ids, new) == \A x \in AddedNames(ids) : blocks[Len(go.scopes)][x] = new[x]

LEMMA ExtendedValues ==
  ASSUME NEW scopes, NEW exact, Matches(scopes, go.scopes, exact), Len(go.scopes) >= 2, NEW es, NEW ids,
         NEW new, DOMAIN new = AddedNames(ids)
  PROVE  /\ Extends(Extended(Used(es), new), ids)
         /\ Gives(Extended(Used(es), new), ids, new)
<1> DEFINE n == Len(go.scopes)
<1>1. /\ Matches(Use(scopes, es), Used(es), exact)
      /\ Len(Used(es)) = n
      /\ \A d \in 1 .. n :
           /\ DOMAIN Used(es)[d] = DOMAIN go.scopes[d]
           /\ \A x \in DOMAIN go.scopes[d] : Used(es)[d][x].value = go.scopes[d][x].value
  BY UseMatches
<1>2. DOMAIN go.scopes = 1 .. n /\ n \in 1 .. n
  <2>1. PICK T : go.scopes \in Seq(T)
    BY DEF Matches
  <2>2. n \in Nat /\ DOMAIN go.scopes = 1 .. n
    BY <2>1, LenProperties
  <2> QED BY <2>2
<1> DEFINE used == Used(es)
           blocks == Extended(used, new)
<1>3. DOMAIN used = 1 .. n
  BY <1>2 DEF Used
<1> HIDE DEF used, n
<1>4. /\ DOMAIN blocks = 1 .. n
      /\ \A d \in 1 .. n : d # n => blocks[d] = used[d]
      /\ DOMAIN blocks[n] = DOMAIN used[n] \cup DOMAIN new
      /\ \A x \in DOMAIN blocks[n] : blocks[n][x] = IF x \in DOMAIN new THEN new[x] ELSE used[n][x]
  BY <1>1, <1>2, <1>3 DEF Extended, used
<1> HIDE DEF blocks
<1>5. \A d \in DOMAIN go.scopes :
        DOMAIN blocks[d] = IF d = n THEN DOMAIN go.scopes[d] \cup AddedNames(ids) ELSE DOMAIN go.scopes[d]
  BY <1>1, <1>2, <1>4 DEF used
<1>6. ASSUME NEW d \in DOMAIN go.scopes, NEW x \in DOMAIN go.scopes[d], d # n \/ x \notin AddedNames(ids)
      PROVE  blocks[d][x].value = go.scopes[d][x].value
  <2>1. used[d][x].value = go.scopes[d][x].value
    BY <1>1, <1>2 DEF used
  <2>2. CASE d # n
    BY <1>2, <1>4, <2>1, <2>2
  <2>3. CASE d = n
    <3>1. x \in DOMAIN blocks[n] /\ x \notin DOMAIN new
      BY <1>5, <1>6, <2>3
    <3> QED BY <1>4, <2>1, <2>3, <3>1
  <2> QED BY <2>2, <2>3
<1>7. Extends(blocks, ids)
  BY <1>2, <1>4, <1>5, <1>6 DEF Extends, n
<1>8. \A x \in AddedNames(ids) : blocks[n][x] = new[x]
  BY <1>4
<1> QED BY <1>7, <1>8 DEF blocks, n, used, Gives

(* What a declaration, short or not, does to the values that names have.   *)
LEMMA DeclarationReadable ==
  ASSUME NEW a, NEW exact, Matches(a.scopesDeclarations, go.scopes, exact),
         NEW g, NEW m, NEW number, Placed(g, go.scopes, number), Readable(g, go.scopes, m, number),
         NEW T, NEW ids \in Seq(T), NEW es, Proper(ids, es),
         NEW h, h = Number(g, ids), NEW more \in Nat, number <= more, more <= SlotLimit,
         h.indexCurrentLocalVariable <= more,
         NEW new, DOMAIN new = AddedNames(ids),
         \A x \in AddedNames(ids) :
           IF es = <<>> THEN new[x].value.type \in Types /\ new[x].value.value = "zero"
                        ELSE new[x].value = GoValue(es[Position(ids, x)])
  PROVE  Readable(h, Extended(Used(es), new), Initialises(m, h, a, ids, es), more)
<1> DEFINE k == Initialises(m, h, a, ids, es)
           blocks == Extended(Used(es), new)
<1>1. g.indexCurrentLocalVariable <= more /\ number \in Nat
  <2>1. g.indexCurrentLocalVariable \in Nat
    BY PlacedContext
  <2> QED BY <2>1 DEF Placed
<1>2. Placed(g, go.scopes, more)
  BY <1>1 DEF Placed
<1>3. Readable(g, go.scopes, m, more)
  <2>1. PICK V : m \in [locals : [0 .. (SlotLimit - 1) -> V], statics : [DOMAIN Fields -> V],
                        places : Nat, refused : BOOLEAN]
    BY DEF Readable, Machine
  <2>2. m.places \in Nat /\ m.places <= number
    BY <2>1 DEF Readable
  <2>3. m.places <= more
    <3>1. PICK p \in Nat, q \in Nat : p = m.places /\ q = number
      BY <1>1, <2>2
    <3> QED BY <2>2, <3>1
  <2> QED BY <2>3 DEF Readable
<1>4. Readable(g, go.scopes, k, more) /\ Initial(k, h, ids, es)
  BY <1>2, <1>3, InitialisesIs
<1> HIDE DEF k
<1>5. Len(go.scopes) >= 2
  BY DEF Placed
<1>6. Extends(blocks, ids) /\ Gives(blocks, ids, new)
  <2>1. PICK scopes : scopes = a.scopesDeclarations
    OBVIOUS
  <2>2. Matches(scopes, go.scopes, exact)
    BY <2>1
  <2> QED BY <1>5, <2>2, ExtendedValues
<1> HIDE DEF blocks
<1>7. Set(k, h, ids, blocks)
  <2> SUFFICES ASSUME NEW x \in AddedNames(ids)
               PROVE  new[x].value.type \in Types /\ (new[x].value.value # "zero" => k.locals[SlotOf(h, x)] = new[x].value)
    BY <1>6 DEF Set, Gives
  <2> QED BY <1>4 DEF Initial
<1>8. Readable(h, blocks, k, more)
  BY <1>2, <1>4, <1>6, <1>7, DeclaredReadable
<1> QED BY <1>8 DEF blocks, k

(* The next numbers of the frame and of the generator. *)
LEMMA DeclarationNumbers ==
  ASSUME Inv, stage = "body", NEW T, NEW ids \in Seq(T), NEW es, NEW types, NEW isConst,
         analysis' = Entered(Count(Visited(analysis, es), ids), ids, types, isConst),
         NEW h, h = Number(generator, ids)
  PROVE  /\ analysis'.numberLocalVariables \in Nat
         /\ analysis.numberLocalVariables \in Nat
         /\ analysis.numberLocalVariables <= analysis'.numberLocalVariables
         /\ h.indexCurrentLocalVariable <= analysis'.numberLocalVariables
<1>1. Analysis(analysis) /\ Body(analysis, generator)
  BY DEF Inv
<1>2. Sound(generator.context, generator.indexCurrentLocalVariable) /\ generator.indexCurrentLocalVariable \in Nat
      /\ generator.indexCurrentLocalVariable <= analysis.numberLocalVariables
      /\ Len(analysis.scopesDeclarations) >= 2
  BY <1>1 DEF Body, Sound
<1> DEFINE added == Cardinality(Added(ids))
<1>3. added \in Nat
  BY Ranks
<1>4. h.indexCurrentLocalVariable = generator.indexCurrentLocalVariable + added
  BY <1>2, NumberIsSound
<1>5. analysis.numberLocalVariables \in Nat
  BY <1>1 DEF Analysis
<1>6. analysis'.numberLocalVariables = analysis.numberLocalVariables + added
  BY <1>1, <1>2, DeclaredAnalysis
<1> HIDE DEF added
<1> QED BY <1>2, <1>3, <1>4, <1>5, <1>6

LEMMA DeclareReading ==
  ASSUME Inv, Named, Reading, NEW S, NEW ids \in Seq(S), NEW type \in Types \cup {NoType},
         NEW es \in Seq(Expressions), Len(es) <= 2, Shaped(ids, type, es),
         NEW isConst \in BOOLEAN, Declare(ids, type, es, isConst)
  PROVE  Reading'
<1>1. CASE Rejected
  BY <1>1, RejectedReading
<1>2. CASE ~Rejected
  <2> DEFINE number == analysis.numberLocalVariables
             breaks == DeclarationBreaks(ids, type, es, isConst)
             met == Meets(ReadsZero(es), "reads zero")
                      \cup Meets(\E i \in DOMAIN ids : ids[i] \in ReadBy(es), "reads itself")
             new == DeclaredVariables(ids, type, es, isConst)
             blocks == Extended(Used(es), new)
             types == DeclaredTypes(analysis, ids, type, es)
             h == Number(generator, ids)
  <2>1. /\ stage = "body" /\ stage' = "body" /\ generator' = h
        /\ analysis' = Entered(Count(Visited(analysis, es), ids), ids, types, isConst)
        /\ jvm' = Initialises(jvm, h, analysis, ids, es)
        /\ go' = GoStep(breaks, met, blocks)
    BY <1>2 DEF Declare, Unbroken, InBody, Goes, GoDeclaration, AnalyseVariable
  <2>3. /\ analysis'.numberLocalVariables \in Nat
        /\ number \in Nat
        /\ number <= analysis'.numberLocalVariables
        /\ h.indexCurrentLocalVariable <= analysis'.numberLocalVariables
    <3> HIDE DEF types
    <3>1. PICK constant : constant = isConst
      OBVIOUS
    <3>2. analysis' = Entered(Count(Visited(analysis, es), ids), ids, types, constant)
      BY <2>1, <3>1
    <3> QED BY <2>1, <3>2, DeclarationNumbers
  <2>4. ASSUME Handled'
        PROVE  Readable(generator', go'.scopes, jvm', analysis'.numberLocalVariables)
    <3> HIDE DEF h, types
    <3>1. PICK more \in Nat : more = analysis'.numberLocalVariables
      BY <2>3
    <3>2. /\ Handled /\ breaks = {} /\ go'.scopes = blocks
          /\ met \cap Excluded = {} /\ more <= SlotLimit
      <4> HIDE DEF breaks, met, blocks
      <4>1. go'.broken = {} /\ go'.met \cap Excluded = {} /\ more <= SlotLimit
        BY <2>4, <3>1 DEF Handled, Excluded
      <4>2. go.broken = {} /\ breaks = {} /\ go'.scopes = blocks /\ go.met \cap Excluded = {} /\ met \cap Excluded = {}
        BY <2>1, <4>1, Proceeds
      <4>3. Handled
        <5>1. number <= more
          BY <2>3, <3>1
        <5> QED BY <2>3, <4>1, <4>2, <5>1, HandledIs
      <4> QED BY <4>1, <4>2, <4>3
    <3>3. PICK exact : Matches(analysis.scopesDeclarations, go.scopes, exact)
      BY <2>1, <3>2 DEF Named, Handled
    <3>4. Placed(generator, go.scopes, number) /\ Readable(generator, go.scopes, jvm, number)
      BY <2>1, <3>2, BodyPlaced DEF Reading
    <3>5. Proper(ids, es)
      <4>1. Defined(es) /\ Distinct(ids)
        BY <3>2 DEF DeclarationBreaks, Rule
      <4>2. ~ReadsZero(es) /\ ~\E i \in DOMAIN ids : ids[i] \in ReadBy(es)
        BY <3>2 DEF Meets, Excluded
      <4> QED BY <4>1, <4>2 DEF Proper, Shaped
    <3>6. DOMAIN new = AddedNames(ids)
      BY DeclaredNames DEF DeclaredVariables
    <3>7. \A x \in AddedNames(ids) :
            IF es = <<>> THEN new[x].value.type \in Types /\ new[x].value.value = "zero"
                         ELSE new[x].value = GoValue(es[Position(ids, x)])
      <4> SUFFICES ASSUME NEW x \in AddedNames(ids)
                   PROVE  IF es = <<>> THEN new[x].value.type \in Types /\ new[x].value.value = "zero"
                                       ELSE new[x].value = GoValue(es[Position(ids, x)])
        OBVIOUS
      <4>1. new[x].value = IF es = <<>> THEN Zero(type) ELSE GoValue(es[Position(ids, x)])
        BY DeclaredNames DEF DeclaredVariables, Variable
      <4>2. CASE es = <<>>
        <5>1. type \in Types
          <6>1. CASE type # NoType
            BY <6>1
          <6>2. CASE type = NoType
            <7>1. DOMAIN ids = {}
              BY <4>2, <6>2 DEF Shaped
            <7> QED BY <7>1 DEF AddedNames, Added
          <6> QED BY <6>1, <6>2
        <5> QED BY <4>1, <4>2, <5>1 DEF Zero
      <4>3. CASE es # <<>>
        BY <4>1, <4>3
      <4> QED BY <4>2, <4>3
    <3> HIDE DEF new
    <3>8. Readable(h, Extended(Used(es), new), Initialises(jvm, h, analysis, ids, es), more)
      <4>1. h = Number(generator, ids) /\ h.indexCurrentLocalVariable <= more /\ number <= more
        BY <2>3, <3>1 DEF h
      <4> HIDE DEF number
      <4> QED BY <3>2, <3>3, <3>4, <3>5, <3>6, <3>7, <4>1, DeclarationReadable
    <3> QED BY <2>1, <3>1, <3>2, <3>8
  <2> QED BY <2>1, <2>4, BodyReading
<1> QED BY <1>1, <1>2

LEMMA ShortDeclareReading ==
  ASSUME Inv, Named, Reading, NEW S, NEW ids \in Seq(S),
         NEW es \in Seq(Expressions), Len(es) <= 2, DOMAIN es = DOMAIN ids, ShortDeclare(ids, es)
  PROVE  Reading'
<1>1. CASE Rejected
  BY <1>1, RejectedReading
<1>2. CASE ~Rejected
  <2> DEFINE number == analysis.numberLocalVariables
             breaks == ShortBreaks(ids, es)
             met == Meets(ReadsZero(es), "reads zero") \cup Meets(Old(ids) # {}, "redeclares")
                      \cup Meets(\E i \in DOMAIN ids : ids[i] \in ReadBy(es), "reads itself")
             new == ShortVariables(ids, es)
             blocks == Extended(Used(es), new)
             types == DeclaredTypes(analysis, ids, NoType, es)
             h == Number(generator, ids)
  <2>1. /\ stage = "body" /\ stage' = "body" /\ generator' = h
        /\ analysis' = Entered(Count(Visited(analysis, es), ids), ids, types, FALSE)
        /\ jvm' = Initialises(jvm, h, analysis, ids, es)
        /\ go' = GoStep(breaks, met, blocks)
    BY <1>2 DEF ShortDeclare, Unbroken, InBody, Goes, GoShort, AnalyseShort
  <2>3. /\ analysis'.numberLocalVariables \in Nat
        /\ number \in Nat
        /\ number <= analysis'.numberLocalVariables
        /\ h.indexCurrentLocalVariable <= analysis'.numberLocalVariables
    <3> HIDE DEF types
    <3>1. PICK constant : constant = FALSE
      OBVIOUS
    <3>2. analysis' = Entered(Count(Visited(analysis, es), ids), ids, types, constant)
      BY <2>1, <3>1
    <3> QED BY <2>1, <3>2, DeclarationNumbers
  <2>4. ASSUME Handled'
        PROVE  Readable(generator', go'.scopes, jvm', analysis'.numberLocalVariables)
    <3> HIDE DEF h, types
    <3>1. PICK more \in Nat : more = analysis'.numberLocalVariables
      BY <2>3
    <3>2. /\ Handled /\ breaks = {} /\ go'.scopes = blocks
          /\ met \cap Excluded = {} /\ more <= SlotLimit
      <4> HIDE DEF breaks, met, blocks
      <4>1. go'.broken = {} /\ go'.met \cap Excluded = {} /\ more <= SlotLimit
        BY <2>4, <3>1 DEF Handled, Excluded
      <4>2. go.broken = {} /\ breaks = {} /\ go'.scopes = blocks /\ go.met \cap Excluded = {} /\ met \cap Excluded = {}
        BY <2>1, <4>1, Proceeds
      <4>3. Handled
        <5>1. number <= more
          BY <2>3, <3>1
        <5> QED BY <2>3, <4>1, <4>2, <5>1, HandledIs
      <4> QED BY <4>1, <4>2, <4>3
    <3>3. PICK exact : Matches(analysis.scopesDeclarations, go.scopes, exact)
      BY <2>1, <3>2 DEF Named, Handled
    <3>4. Placed(generator, go.scopes, number) /\ Readable(generator, go.scopes, jvm, number)
      BY <2>1, <3>2, BodyPlaced DEF Reading
    <3>5. Proper(ids, es)
      <4>1. Defined(es) /\ Distinct(ids)
        BY <3>2 DEF ShortBreaks, Rule
      <4>2. ~ReadsZero(es) /\ ~\E i \in DOMAIN ids : ids[i] \in ReadBy(es)
        BY <3>2 DEF Meets, Excluded
      <4> QED BY <4>1, <4>2 DEF Proper
    <3>6. DOMAIN new = AddedNames(ids)
      BY DeclaredNames DEF ShortVariables
    <3>7. \A x \in AddedNames(ids) :
            IF es = <<>> THEN new[x].value.type \in Types /\ new[x].value.value = "zero"
                         ELSE new[x].value = GoValue(es[Position(ids, x)])
      <4> SUFFICES ASSUME NEW x \in AddedNames(ids)
                   PROVE  es # <<>> /\ new[x].value = GoValue(es[Position(ids, x)])
        OBVIOUS
      <4>1. x \in Declared(ids) /\ Position(ids, x) \in DOMAIN ids
        BY DeclaredNames
      <4>2. es # <<>>
        BY <4>1
      <4>3. CASE InScope(x)
        <5> DEFINE u == Used(es)[Block][x]
        <5>1. new[x] = [u EXCEPT !.value = GoValue(es[Position(ids, x)])]
          BY <4>1, <4>3 DEF ShortVariables
        <5>2. "value" \in DOMAIN u
          <6>1. Block \in 1 .. Len(go.scopes) /\ x \in DOMAIN go.scopes[Block]
            <7>1. PICK scopes : scopes = analysis.scopesDeclarations
              OBVIOUS
            <7>2. Matches(scopes, go.scopes, exact)
              BY <3>3, <7>1
            <7> QED BY <4>3, <7>2, InScopeHome
          <6>2. Matches(Use(analysis.scopesDeclarations, es), Used(es), exact)
                /\ Len(Used(es)) = Len(go.scopes)
                /\ DOMAIN Used(es)[Block] = DOMAIN go.scopes[Block]
            BY <3>3, <6>1, UseMatches
          <6>3. u \in [value : {u.value}, isConst : BOOLEAN, isArgument : BOOLEAN, used : BOOLEAN]
            BY <6>1, <6>2 DEF Matches, Fits
          <6> HIDE DEF u
          <6> QED BY <6>3
        <5> HIDE DEF u, new
        <5> QED BY <4>2, <5>1, <5>2
      <4>4. CASE ~InScope(x)
        BY <4>1, <4>2, <4>4 DEF ShortVariables, Variable
      <4> QED BY <4>3, <4>4
    <3> HIDE DEF new
    <3>8. Readable(h, Extended(Used(es), new), Initialises(jvm, h, analysis, ids, es), more)
      <4>1. h = Number(generator, ids) /\ h.indexCurrentLocalVariable <= more /\ number <= more
        BY <2>3, <3>1 DEF h
      <4> HIDE DEF number
      <4> QED BY <3>2, <3>3, <3>4, <3>5, <3>6, <3>7, <4>1, DeclarationReadable
    <3> QED BY <2>1, <3>1, <3>2, <3>8
  <2> QED BY <2>1, <2>4, BodyReading
<1> QED BY <1>1, <1>2

-----------------------------------------------------------------------------
(* The beginning: the fields have their values, and the arguments are in   *)
(* the frame in their order.                                               *)

LEMMA InitReading == Init => Reading
<1> SUFFICES ASSUME Init PROVE Reading
  OBVIOUS
<1> DEFINE fields == [x \in FieldIds |-> RefConstant(FieldIndex(x), FALSE)]
           block == [x \in FieldIds |-> Variable(Fields[FieldIndex(x)].value, FALSE, FALSE)]
           V == {Unset} \cup {Fields[i].value : i \in DOMAIN Fields}
           m == [locals |-> [s \in 0 .. (SlotLimit - 1) |-> Unset],
                 statics |-> [i \in DOMAIN Fields |-> Fields[i].value],
                 places |-> 0, refused |-> FALSE]
<1>1. generator.context = <<fields>> /\ go.scopes = <<block>> /\ jvm = m /\ stage = "signature"
  BY DEF Init, GoInit
<1>2. \A x \in FieldIds : FieldIndex(x) \in DOMAIN Fields /\ Fields[FieldIndex(x)].id = x
  BY DEF FieldIds, FieldIndex
<1>3. Machine(m)
  <2>1. m \in [locals : [0 .. (SlotLimit - 1) -> V], statics : [DOMAIN Fields -> V], places : Nat, refused : BOOLEAN]
    OBVIOUS
  <2> HIDE DEF m, V
  <2> QED BY <2>1 DEF Machine
<1>4. \A x \in FieldIds : /\ fields[x].index = FieldIndex(x) /\ ~fields[x].isLocal
                          /\ block[x].value = Fields[FieldIndex(x)].value
                          /\ m.statics[FieldIndex(x)] = block[x].value
  BY <1>2 DEF RefConstant, Variable
<1>5. ~m.refused /\ m.places = 0
  OBVIOUS
<1>6. DOMAIN fields = FieldIds /\ DOMAIN block = FieldIds /\ \A x \in FieldIds : fields[x] = RefConstant(FieldIndex(x), FALSE)
  OBVIOUS
<1> HIDE DEF fields, block, m
<1>7. DOMAIN <<fields>> = {1} /\ <<fields>>[1] = fields /\ DOMAIN <<block>> = {1} /\ <<block>>[1] = block
  OBVIOUS
<1>8. Level(1) = 1
  BY DEF Level
<1>9. Covers(<<fields>>, <<block>>)
  BY <1>6, <1>7, <1>8 DEF Covers
<1>10. Refs(<<fields>>)
  BY <1>6, <1>7 DEF Refs
<1>11. Holding(<<fields>>, <<block>>, m)
  BY <1>4, <1>6, <1>7, <1>8 DEF Holding, Holds
<1>12. Valued(<<block>>)
  BY <1>2, <1>4, <1>6, <1>7, TypesAssumption DEF Valued
<1>13. Readable(generator, <<block>>, m, 0)
  BY <1>1, <1>3, <1>5, <1>9, <1>10, <1>11, <1>12 DEF Readable
<1> QED BY <1>1, <1>13 DEF Reading

(* The arguments are numbered in their order if no blank one is skipped.   *)
LEMMA ArgumentSlots ==
  ASSUME NEW S, NEW ids \in Seq(S), Distinct(ids), ~BlankBefore(ids), NEW x \in AddedNames(ids)
  PROVE  /\ Position(ids, x) \in 1 .. Len(ids)
         /\ Rank(ids, AddedLast(ids, x)) = Position(ids, x) - 1
<1> DEFINE p == Position(ids, x)
<1>1. x \in Declared(ids) /\ p \in 1 .. Len(ids) /\ ids[p] = x /\ AddedLast(ids, x) = p
  <2>1. x \in Declared(ids) /\ p \in DOMAIN ids /\ ids[p] = x
    BY DeclaredNames
  <2> QED BY <2>1, LastIsPosition
<1>2. x # Blank
  BY <1>1 DEF Declared
<1> HIDE DEF p
<1>3. p \in DOMAIN ids /\ DOMAIN ids = 1 .. Len(ids) /\ Len(ids) \in Nat /\ p \in Nat /\ p >= 1
  BY <1>1
<1>4. \A j \in DOMAIN ids : j < p => ids[j] # Blank
  BY <1>1, <1>2, <1>3 DEF BlankBefore
<1>5. {j \in Added(ids) : j < p} = 1 .. (p - 1)
  BY <1>3, <1>4 DEF Added
<1>6. Cardinality(1 .. (p - 1)) = p - 1
  <2>1. 1 \in Int /\ p - 1 \in Int
    BY <1>3
  <2>2. Cardinality(1 .. (p - 1)) = IF 1 > p - 1 THEN 0 ELSE (p - 1) - 1 + 1
    BY <2>1, FS_Interval
  <2> QED BY <1>3, <2>2
<1> QED BY <1>1, <1>5, <1>6 DEF Rank, p

(* Each argument has the slot of its place in the list.                    *)
Ordered(scope, ids) == \A x \in AddedNames(ids) : scope[x] = RefConstant(Position(ids, x) - 1, TRUE)

(* The generator before the arguments of a function get their slots.       *)
Starts(g) == Len(g.context) = 2 /\ g.context[2] = NoNames /\ g.indexCurrentLocalVariable = 0

LEMMA ArgumentsNumbered ==
  ASSUME NEW g, NEW S, g.context \in Seq(S), Starts(g),
         NEW T, NEW ids \in Seq(T), NEW h, h = Number(g, ids)
  PROVE  /\ \E U : h.context \in Seq(U)
         /\ Len(h.context) = 2
         /\ h.context[1] = g.context[1]
         /\ DOMAIN h.context[2] = AddedNames(ids)
         /\ Distinct(ids) /\ ~BlankBefore(ids) => Ordered(h.context[2], ids)
<1>1. DOMAIN g.context[2] = {}
  BY DEF NoNames, Starts
<1>2. g.context # <<>> /\ g.indexCurrentLocalVariable \in Nat
  BY DEF Starts
<1> DEFINE old == g.context
           after == Number(g, ids).context
           last == Len(old)
<1>3. /\ \E U : after \in Seq(U)
      /\ Len(after) = last
      /\ \A d \in 1 .. last : d # last => after[d] = old[d]
      /\ DOMAIN after[last] = DOMAIN old[last] \cup AddedNames(ids)
  BY <1>2, NumberIs
<1>4. ASSUME NEW x \in AddedNames(ids)
      PROVE  /\ after[last][x] = RefConstant(g.indexCurrentLocalVariable + Rank(ids, AddedLast(ids, x)), TRUE)
             /\ Rank(ids, AddedLast(ids, x)) \in Nat
  BY <1>2, NumberIs
<1>5. h.context = after /\ last = 2 /\ g.indexCurrentLocalVariable = 0
  BY DEF Starts
<1> HIDE DEF after, last, old
<1>6. ASSUME Distinct(ids), ~BlankBefore(ids), NEW x \in AddedNames(ids)
      PROVE  after[2][x] = RefConstant(Position(ids, x) - 1, TRUE)
  <2>1. Rank(ids, AddedLast(ids, x)) = Position(ids, x) - 1
    BY <1>6, ArgumentSlots
  <2>2. PICK r \in Nat : r = Rank(ids, AddedLast(ids, x))
    BY <1>4
  <2>3. 0 + r = r
    OBVIOUS
  <2> QED BY <1>4, <1>5, <2>1, <2>2, <2>3
<1>7. 1 \in 1 .. 2 /\ 1 # 2
  OBVIOUS
<1>8. h.context[1] = g.context[1] /\ DOMAIN h.context[2] = AddedNames(ids)
  BY <1>1, <1>3, <1>5, <1>7 DEF old
<1>9. Len(h.context) = 2 /\ \E U : h.context \in Seq(U)
  BY <1>3, <1>5
<1> QED BY <1>5, <1>6, <1>8, <1>9 DEF Ordered

(* The names in the body: the fields, the arguments, nothing else.         *)
LEMMA CalledReadable ==
  ASSUME NEW ps \in ParameterLists, Distinct(Ids(ps)), ~BlankBefore(Ids(ps)), Len(ps) <= SlotLimit,
         NEW g, DOMAIN g.context = {1}, NEW block, NEW m, Readable(g, <<block>>, m, 0),
         NEW k, DOMAIN k.context = {1, 2, 3}, k.context[1] = g.context[1], k.context[3] = NoNames,
         DOMAIN k.context[2] = AddedNames(Ids(ps)),
         Ordered(k.context[2], Ids(ps))
  PROVE  Readable(k, <<block, ArgumentVariables(ps)>>, Called(m, ps), Len(ps))
<1> DEFINE new == ArgumentVariables(ps)
           names == AddedNames(Ids(ps))
           blocks == <<block, new>>
           n == Called(m, ps)
           old == g.context
           context == k.context
<1>1. Len(ps) \in Nat /\ DOMAIN ps = 1 .. Len(ps) /\ DOMAIN Ids(ps) = DOMAIN ps
  BY IdsOfParameters
<1>2. \A x \in names : Position(Ids(ps), x) \in 1 .. Len(ps)
  BY <1>1, DeclaredNames
<1>3. /\ Machine(n) /\ n.statics = m.statics /\ ~n.refused /\ n.places = Len(ps)
      /\ \A s \in 0 .. (SlotLimit - 1) : s < Len(ps) => n.locals[s] = Argument(ps, s + 1)
  <2>1. PICK V : m \in [locals : [0 .. (SlotLimit - 1) -> V], statics : [DOMAIN Fields -> V],
                        places : Nat, refused : BOOLEAN]
    BY DEF Readable, Machine
  <2> DEFINE W == V \cup {Unset} \cup {Argument(ps, i) : i \in 1 .. Len(ps)}
             locals == [s \in 0 .. (SlotLimit - 1) |-> IF s < Len(ps) THEN Argument(ps, s + 1) ELSE Unset]
  <2>2. ~m.refused
    BY DEF Readable
  <2>3. n = [m EXCEPT !.locals = locals, !.places = Len(ps)]
    BY <2>1 DEF Called
  <2>4. locals \in [0 .. (SlotLimit - 1) -> W]
    <3>1. ASSUME NEW s \in 0 .. (SlotLimit - 1), s < Len(ps)
          PROVE  s + 1 \in 1 .. Len(ps)
      BY <1>1, <3>1, SlotLimitAssumption
    <3> QED BY <3>1
  <2>5. \A s \in 0 .. (SlotLimit - 1) : s < Len(ps) => locals[s] = Argument(ps, s + 1)
    OBVIOUS
  <2>6. m.statics \in [DOMAIN Fields -> W]
    BY <2>1
  <2> HIDE DEF locals, W, n
  <2>7. n \in [locals : [0 .. (SlotLimit - 1) -> W], statics : [DOMAIN Fields -> W], places : Nat, refused : BOOLEAN]
    BY <1>1, <2>1, <2>3, <2>4, <2>6
  <2>8. n.locals = locals /\ n.places = Len(ps) /\ n.statics = m.statics /\ n.refused = m.refused
    BY <2>1, <2>3
  <2> QED BY <2>2, <2>5, <2>7, <2>8 DEF Machine
<1>4. /\ DOMAIN new = names
      /\ \A x \in names : new[x].value = Argument(ps, Position(Ids(ps), x))
  BY DeclaredNames DEF ArgumentVariables, Variable
<1>5. \A i \in 1 .. Len(ps) : Argument(ps, i).type \in Types
  <2> SUFFICES ASSUME NEW i \in 1 .. Len(ps) PROVE ps[i].type \in Types
    BY DEF Argument
  <2>1. ps \in Seq([id : Names \cup {Blank}, type : Types])
    BY NamesAssumption
  <2>2. ps[i] \in [id : Names \cup {Blank}, type : Types]
    BY <2>1, ElementOfSeq
  <2> QED BY <2>2
<1> HIDE DEF new, n
<1>6. DOMAIN blocks = {1, 2} /\ blocks[1] = block /\ blocks[2] = new
  OBVIOUS
<1>7. DOMAIN <<block>> = {1} /\ <<block>>[1] = block
  OBVIOUS
<1>8. Level(1) = 1 /\ Level(2) = 2 /\ Level(3) = 2
  BY DEF Level
<1>9. DOMAIN NoNames = {}
  BY DEF NoNames
<1>10. DOMAIN old[1] = DOMAIN block
  BY <1>7, <1>8 DEF Readable, Covers
<1> HIDE DEF blocks, names
<1>11. DOMAIN context = {1, 2, 3} /\ context[1] = old[1] /\ DOMAIN context[2] = names /\ DOMAIN context[3] = {}
  BY <1>9 DEF names
<1>12. ASSUME NEW x \in names
       PROVE  context[2][x].isLocal /\ Slot(context[2][x]) = Position(Ids(ps), x) - 1
              /\ Position(Ids(ps), x) - 1 \in 0 .. (SlotLimit - 1)
              /\ Position(Ids(ps), x) - 1 < Len(ps) /\ Position(Ids(ps), x) \in Nat
  <2>1. context[2][x] = RefConstant(Position(Ids(ps), x) - 1, TRUE)
    BY DEF names, context, Ordered
  <2>2. PICK p \in 1 .. Len(ps) : p = Position(Ids(ps), x)
    BY <1>2
  <2>3. p - 1 \in 0 .. (SlotLimit - 1) /\ p - 1 < Len(ps)
    BY <1>1, SlotLimitAssumption
  <2>4. (p - 1) % SlotLimit = p - 1
    BY <2>3, SlotLimitAssumption
  <2>5. context[2][x].index = p - 1 /\ context[2][x].isLocal
    BY <2>1, <2>2 DEF RefConstant
  <2> QED BY <1>1, <2>2, <2>3, <2>4, <2>5 DEF Slot
<1> HIDE DEF context, old
<1>13. Covers(context, blocks)
  <2>1. \A d \in DOMAIN blocks : \A x \in DOMAIN blocks[d] :
          d \in DOMAIN context /\ Level(d) = d /\ x \in DOMAIN context[d]
    BY <1>4, <1>6, <1>8, <1>10, <1>11
  <2>2. \A c \in DOMAIN context : Level(c) \in DOMAIN blocks /\ DOMAIN context[c] \subseteq DOMAIN blocks[Level(c)]
    BY <1>4, <1>6, <1>8, <1>10, <1>11
  <2> QED BY <2>1, <2>2 DEF Covers
<1>14. Refs(context)
  <2>1. \A x \in DOMAIN old[1] : x \in FieldIds /\ old[1][x] = RefConstant(FieldIndex(x), FALSE)
    BY DEF Readable, Refs, old
  <2>2. \A x \in DOMAIN context[1] : x \in FieldIds /\ context[1][x] = RefConstant(FieldIndex(x), FALSE)
    <3>1. DOMAIN old = {1}
      BY DEF old
    <3> QED BY <1>11, <2>1
  <2>3. \A x \in DOMAIN context[2] : context[2][x].isLocal
    BY <1>11, <1>12
  <2> SUFFICES ASSUME NEW c \in DOMAIN context, NEW x \in DOMAIN context[c]
               PROVE  IF c = 1 THEN x \in FieldIds /\ context[c][x] = RefConstant(FieldIndex(x), FALSE)
                               ELSE context[c][x].isLocal
    BY DEF Refs
  <2>4. CASE c = 1
    BY <2>2, <2>4
  <2>5. CASE c = 2
    BY <2>3, <2>5
  <2> QED BY <1>11, <2>4, <2>5
<1>15. Holding(context, blocks, n)
  <2> SUFFICES ASSUME NEW c \in DOMAIN context, NEW x \in DOMAIN context[c]
               PROVE  Holds(n, context[c][x], blocks[Level(c)][x].value)
    BY DEF Holding
  <2>1. CASE c = 1
    <3>1. 1 \in DOMAIN old /\ x \in DOMAIN old[1]
      BY <1>11, <2>1 DEF old
    <3>2. Shown(old, 1, x)
      BY <3>1 DEF Shown
    <3>3. Holds(m, old[1][x], block[x].value)
      BY <1>7, <1>8, <3>1, <3>2 DEF Readable, Holding, old
    <3>4. ~old[1][x].isLocal
      <4>1. old[1][x] = RefConstant(FieldIndex(x), FALSE)
        BY <3>1 DEF Readable, Refs, old
      <4> QED BY <4>1 DEF RefConstant
    <3>5. Holds(n, old[1][x], block[x].value)
      BY <1>3, <3>3, <3>4 DEF Holds
    <3>6. context[c][x] = old[1][x] /\ blocks[Level(c)][x] = block[x]
      BY <1>6, <1>8, <1>11, <2>1
    <3> QED BY <3>5, <3>6
  <2>2. CASE c = 2
    <3>1. x \in names
      BY <1>11, <2>2
    <3> DEFINE p == Position(Ids(ps), x)
    <3>2. n.locals[p - 1] = Argument(ps, (p - 1) + 1)
      BY <1>3, <1>12, <3>1
    <3>3. (p - 1) + 1 = p
      BY <1>12, <3>1
    <3>4. blocks[Level(c)][x].value = Argument(ps, p)
      BY <1>4, <1>6, <1>8, <2>2, <3>1
    <3>5. n.locals[p - 1] = Argument(ps, p)
      BY <3>2, <3>3
    <3> HIDE DEF p
    <3>6. context[c][x].isLocal /\ Slot(context[c][x]) = p - 1
      BY <1>12, <2>2, <3>1 DEF p
    <3> QED BY <3>4, <3>5, <3>6 DEF Holds
  <2> QED BY <1>11, <2>1, <2>2
<1>16. Valued(blocks)
  <2>1. \A x \in DOMAIN block : block[x].value.type \in Types
    BY <1>7 DEF Readable, Valued
  <2> QED BY <1>2, <1>4, <1>5, <1>6, <2>1 DEF Valued
<1>17. n.places <= Len(ps)
  BY <1>1, <1>3
<1> QED BY <1>3, <1>13, <1>14, <1>15, <1>16, <1>17 DEF Readable, blocks, n, new, context

LEMMA BeginReading ==
  ASSUME Inv, Named, Reading, NEW ps \in ParameterLists, Begin(ps)
  PROVE  Reading'
<1> DEFINE ids == Ids(ps)
           new == ArgumentVariables(ps)
           breaks == Rule(Distinct(ids), "repeated parameter")
           met == Meets(BlankBefore(ids), "blank parameter")
           g == [generator EXCEPT !.context = pushScope(@), !.indexCurrentLocalVariable = 0]
           h == Number(g, ids)
<1>1. /\ stage = "signature" /\ stage' = "body"
      /\ go' = GoStep(breaks, met, Append(go.scopes, new))
      /\ generator' = [h EXCEPT !.context = pushScope(@)]
      /\ jvm' = Called(jvm, ps)
      /\ analysis'.numberLocalVariables = Len(ps)
  BY DEF Begin, GoArguments, GenerateArguments, AnalyseArguments
<1>2. Signature(analysis, generator) /\ Generation(generator)
  BY <1>1 DEF Inv
<1>3. Readable(generator, go.scopes, jvm, 0)
  BY <1>1 DEF Reading
<1>4. ids \in Seq(Names \cup {Blank})
  BY IdsOfParameters
<1>5. PICK S : generator.context \in Seq(S)
  BY <1>2 DEF Generation
<1>6. Len(generator.context) = 1 /\ DOMAIN generator.context = {1}
  <2>1. Len(generator.context) = 1
    BY <1>2 DEF Signature
  <2> QED BY <1>5, <2>1, LenProperties
<1>7. g.context = pushScope(generator.context) /\ g.indexCurrentLocalVariable = 0
  BY <1>2 DEF Generation
<1> HIDE DEF g
<1>8. /\ g.context \in Seq(S \cup {NoNames}) /\ Len(g.context) = 2 /\ g.context # <<>>
      /\ g.context[1] = generator.context[1] /\ g.context[2] = NoNames
  <2>1. PICK scopes \in Seq(S) : scopes = generator.context
    BY <1>5
  <2>2. /\ pushScope(scopes) \in Seq(S \cup {NoNames})
        /\ Len(pushScope(scopes)) = Len(scopes) + 1
        /\ pushScope(scopes) # <<>>
        /\ \A d \in 1 .. Len(scopes) : pushScope(scopes)[d] = scopes[d]
        /\ pushScope(scopes)[Len(scopes) + 1] = NoNames
    BY PushScope
  <2>3. Len(scopes) = 1
    BY <1>6, <2>1
  <2> QED BY <1>7, <2>1, <2>2, <2>3
<1>9. DOMAIN NoNames = {}
  BY DEF NoNames
<1>10. /\ \E U : h.context \in Seq(U)
       /\ Len(h.context) = 2
       /\ h.context[1] = generator.context[1]
       /\ DOMAIN h.context[2] = AddedNames(ids)
       /\ Distinct(ids) /\ ~BlankBefore(ids) => Ordered(h.context[2], ids)
  <2> HIDE DEF ids
  <2>1. PICK f : f = g
    OBVIOUS
  <2>2. PICK k : k = h
    OBVIOUS
  <2>3. k = Number(f, ids) /\ Starts(f)
    BY <1>7, <1>8, <2>1, <2>2 DEF Starts
  <2>4. PICK U : f.context \in Seq(U)
    BY <1>8, <2>1
  <2>5. PICK T : ids \in Seq(T)
    BY <1>4
  <2> HIDE DEF h
  <2>6. /\ \E V : k.context \in Seq(V)
        /\ Len(k.context) = 2
        /\ k.context[1] = f.context[1]
        /\ DOMAIN k.context[2] = AddedNames(ids)
        /\ Distinct(ids) /\ ~BlankBefore(ids) => Ordered(k.context[2], ids)
    BY <2>3, <2>4, <2>5, ArgumentsNumbered
  <2> QED BY <1>8, <2>1, <2>2, <2>6
<1>11. generator'.context = pushScope(h.context)
  BY <1>1 DEF Number
<1> HIDE DEF h
<1>12. PICK U : h.context \in Seq(U)
  BY <1>10
<1>13. /\ DOMAIN generator'.context = {1, 2, 3}
       /\ generator'.context[1] = generator.context[1]
       /\ generator'.context[2] = h.context[2]
       /\ generator'.context[3] = NoNames
  <2>1. PICK scopes \in Seq(U) : scopes = h.context
    BY <1>12
  <2>2. /\ pushScope(scopes) \in Seq(U \cup {NoNames})
        /\ Len(pushScope(scopes)) = Len(scopes) + 1
        /\ \A d \in 1 .. Len(scopes) : pushScope(scopes)[d] = scopes[d]
        /\ pushScope(scopes)[Len(scopes) + 1] = NoNames
    BY PushScope
  <2>3. Len(scopes) = 2
    BY <1>10, <2>1
  <2>4. DOMAIN pushScope(scopes) = 1 .. 3
    BY <2>2, <2>3, LenProperties
  <2>5. 1 .. 3 = {1, 2, 3}
    OBVIOUS
  <2> QED BY <1>10, <1>11, <2>1, <2>2, <2>3, <2>4, <2>5
<1>14. ASSUME Handled'
       PROVE  Readable(generator', go'.scopes, jvm', analysis'.numberLocalVariables)
  <2>1. go'.broken = {} /\ go'.met \cap Excluded = {} /\ Len(ps) <= SlotLimit
    BY <1>1, <1>14 DEF Handled, Excluded
  <2>2. breaks = {} /\ met \cap Excluded = {} /\ go'.scopes = Append(go.scopes, new)
    <3> HIDE DEF breaks, met, new
    <3> DEFINE blocks == Append(go.scopes, new)
    <3>1. PICK next : next = go'
      OBVIOUS
    <3>2. next = GoStep(breaks, met, blocks) /\ next.broken = {} /\ next.met \cap Excluded = {}
      BY <1>1, <2>1, <3>1
    <3> HIDE DEF blocks
    <3>3. breaks = {} /\ next.scopes = blocks /\ met \cap Excluded = {}
      BY <3>2, Proceeds
    <3> QED BY <3>1, <3>3 DEF blocks
  <2>3. Distinct(ids) /\ ~BlankBefore(ids)
    BY <2>2 DEF Rule, Meets, Excluded
  <2> HIDE DEF breaks, met, ids
  <2>4. Ordered(generator'.context[2], ids)
    BY <1>10, <1>13, <2>3
  <2>5. PICK block : go.scopes = <<block>>
    <3>1. Matches(analysis.scopesDeclarations, go.scopes, Exact(go.met))
      BY <1>1 DEF Named
    <3>2. Len(go.scopes) = 1
      BY <1>2, <3>1 DEF Matches, Signature
    <3>3. PICK T : go.scopes \in Seq(T)
      BY <3>1 DEF Matches
    <3> QED BY <3>2, <3>3
  <2>6. Append(go.scopes, new) = <<block, new>>
    <3> HIDE DEF new
    <3>1. <<block>> \in Seq({block, new}) /\ Len(<<block>>) = 1 /\ <<block>>[1] = block
      OBVIOUS
    <3>2. Append(<<block>>, new) = [i \in 1 .. 2 |-> IF i = 2 THEN new ELSE block]
      BY <3>1
    <3>3. <<block, new>> = [i \in 1 .. 2 |-> IF i = 2 THEN new ELSE block]
      OBVIOUS
    <3> QED BY <2>5, <3>2, <3>3
  <2>7. PICK k : k = generator'
    OBVIOUS
  <2>8. /\ DOMAIN k.context = {1, 2, 3} /\ k.context[1] = generator.context[1] /\ k.context[3] = NoNames
        /\ DOMAIN k.context[2] = AddedNames(ids)
        /\ Ordered(k.context[2], ids)
    BY <1>10, <1>13, <2>4, <2>7
  <2>9. Readable(generator, <<block>>, jvm, 0)
    BY <1>3, <2>5
  <2>10. Readable(k, <<block, new>>, Called(jvm, ps), Len(ps))
    <3>1. Distinct(Ids(ps)) /\ ~BlankBefore(Ids(ps)) /\ DOMAIN k.context[2] = AddedNames(Ids(ps))
          /\ Ordered(k.context[2], Ids(ps))
      BY <2>3, <2>8 DEF ids
    <3> QED BY <1>6, <2>1, <2>8, <2>9, <3>1, CalledReadable
  <2> QED BY <1>1, <2>2, <2>6, <2>7, <2>10
<1> QED BY <1>1, <1>14, BodyReading

-----------------------------------------------------------------------------
(* The invariant.                                                          *)

LEMMA StepReading == Inv /\ Named /\ Reading /\ [Next]_vars => Reading'
<1> SUFFICES ASSUME Inv, Named, Reading, [Next]_vars PROVE Reading'
  OBVIOUS
<1>1. ASSUME NEW x \in Targets PROVE <<x>> \in Seq(Targets) /\ DOMAIN <<x>> = {1}
  OBVIOUS
<1>2. ASSUME NEW x \in Targets, NEW y \in Targets PROVE <<x, y>> \in Seq(Targets) /\ DOMAIN <<x, y>> = 1 .. 2
  OBVIOUS
<1>3. ASSUME NEW e \in Expressions
      PROVE  <<e>> \in Seq(Expressions) /\ Len(<<e>>) <= 2 /\ DOMAIN <<e>> = {1} /\ Evaluable(<<e>>)
  BY DEF Evaluable
<1>4. ASSUME NEW es \in PairValues
      PROVE  es \in Seq(Expressions) /\ Len(es) <= 2 /\ DOMAIN es = 1 .. 2 /\ Evaluable(es)
  <2>1. es \in Seq(Expressions) /\ Len(es) = 2
    BY PairValuesAssumption
  <2>2. DOMAIN es = 1 .. 2
    BY <2>1, LenProperties
  <2>3. \A i \in 1 .. 2 : es[i] \in Expressions
    BY <2>1, ElementOfSeq
  <2> QED BY <2>1, <2>2, <2>3 DEF Evaluable
<1>5. CASE \E ps \in ParameterLists : Begin(ps)
  BY <1>5, BeginReading
<1>6. CASE \E x \in Targets, e \in Expressions :
             \/ \E type \in Types \cup {NoType} : Declare(<<x>>, type, <<e>>, FALSE)
             \/ Declare(<<x>>, NoType, <<e>>, TRUE)
             \/ ShortDeclare(<<x>>, <<e>>)
  <2> PICK x \in Targets, e \in Expressions :
        \/ \E type \in Types \cup {NoType} : Declare(<<x>>, type, <<e>>, FALSE)
        \/ Declare(<<x>>, NoType, <<e>>, TRUE)
        \/ ShortDeclare(<<x>>, <<e>>)
    BY <1>6
  <2> DEFINE ids == <<x>>
             es == <<e>>
  <2>1. ids \in Seq(Targets) /\ es \in Seq(Expressions) /\ Len(es) <= 2 /\ DOMAIN es = DOMAIN ids
    BY <1>1, <1>3
  <2>2. \A type : Shaped(ids, type, es)
    BY <1>1, <1>3 DEF Shaped
  <2>3. CASE \E type \in Types \cup {NoType} : Declare(ids, type, es, FALSE)
    <3> PICK type \in Types \cup {NoType} : Declare(ids, type, es, FALSE)
      BY <2>3
    <3> HIDE DEF ids, es
    <3> QED BY <2>1, <2>2, DeclareReading
  <2>4. CASE Declare(ids, NoType, es, TRUE)
    <3> HIDE DEF ids, es
    <3> QED BY <2>1, <2>2, <2>4, DeclareReading
  <2>5. CASE ShortDeclare(ids, es)
    <3> HIDE DEF ids, es
    <3> QED BY <2>1, <2>5, ShortDeclareReading
  <2> QED BY <2>3, <2>4, <2>5
<1>7. CASE \E x, y \in Targets, es \in PairValues :
             Declare(<<x, y>>, NoType, es, FALSE) \/ ShortDeclare(<<x, y>>, es)
  <2> PICK x \in Targets, y \in Targets, es \in PairValues :
        Declare(<<x, y>>, NoType, es, FALSE) \/ ShortDeclare(<<x, y>>, es)
    BY <1>7
  <2> DEFINE ids == <<x, y>>
  <2>1. ids \in Seq(Targets) /\ es \in Seq(Expressions) /\ Len(es) <= 2 /\ DOMAIN es = DOMAIN ids
    BY <1>2, <1>4
  <2>2. Shaped(ids, NoType, es)
    BY <1>2, <1>4 DEF Shaped
  <2>3. CASE Declare(ids, NoType, es, FALSE)
    <3> HIDE DEF ids
    <3> QED BY <2>1, <2>2, <2>3, DeclareReading
  <2>4. CASE ShortDeclare(ids, es)
    <3> HIDE DEF ids
    <3> QED BY <2>1, <2>4, ShortDeclareReading
  <2> QED BY <2>3, <2>4
<1>8. CASE \E x \in Targets, type \in Types : Declare(<<x>>, type, <<>>, FALSE)
  <2> PICK x \in Targets, type \in Types : Declare(<<x>>, type, <<>>, FALSE)
    BY <1>8
  <2> DEFINE ids == <<x>>
  <2>1. <<>> \in Seq(Expressions) /\ Len(<<>>) = 0 /\ ids \in Seq(Targets)
    BY <1>1
  <2>2. Shaped(ids, type, <<>>)
    BY TypesAssumption DEF Evaluable, Shaped
  <2>3. Declare(ids, type, <<>>, FALSE)
    OBVIOUS
  <2> HIDE DEF ids
  <2>4. PICK es : es = <<>>
    OBVIOUS
  <2>5. es \in Seq(Expressions) /\ Len(es) <= 2
    BY <2>1, <2>4
  <2> QED BY <2>1, <2>2, <2>3, <2>4, <2>5, DeclareReading
<1>9. CASE \E x \in ProgramIds \cup {Blank}, e \in Expressions : Assign(x, e)
  BY <1>9, AssignReading
<1>10. CASE \E e \in Expressions : UseVariable(e)
  BY <1>10, UseVariableReading
<1>11. CASE OpenBlock
  BY <1>11, OpenBlockReading
<1>12. CASE CloseBlock
  BY <1>12, CloseBlockReading
<1>13. CASE Finish
  BY <1>13, FinishReading
<1>14. CASE UNCHANGED vars
  BY <1>14 DEF vars, Reading, Handled
<1> QED BY <1>5, <1>6, <1>7, <1>8, <1>9, <1>10, <1>11, <1>12, <1>13, <1>14 DEF Next

LEMMA ReadsInvariance == Spec => [](Inv /\ Named /\ Reading)
<1>1. Init => Inv /\ Named /\ Reading
  BY InitIsSound, InitNamed, InitReading
<1>2. Inv /\ Named /\ Reading /\ [Next]_vars => (Inv /\ Named /\ Reading)'
  BY StepKeepsInv, StepNamed, StepReading
<1> QED BY <1>1, <1>2, PTL DEF Spec

-----------------------------------------------------------------------------
(* What follows.                                                           *)

LEMMA ReadAssigned ==
  ASSUME Inv, Named, Reading, stage = "body", Handled,
         NEW x \in ProgramIds, Visible(x) # {}, GoVariable(x).value.value # "zero"
  PROVE  Pushed(jvm, generator, analysis, Read(x)) = GoVariable(x).value
<1>1. Placed(generator, go.scopes, analysis.numberLocalVariables)
  BY BodyPlaced
<1>2. Readable(generator, go.scopes, jvm, analysis.numberLocalVariables)
  BY DEF Reading
<1>3. Matches(analysis.scopesDeclarations, go.scopes, Exact(go.met))
  BY DEF Named, Handled
<1>4. PICK e \in Expressions : e = Read(x) /\ e.kind = "read" /\ e.name = x
  <2>1. Read(x) \in Expressions
    BY DEF Expressions
  <2>2. Read(x).kind = "read" /\ Read(x).name = x
    BY DEF Read
  <2> QED BY <2>1, <2>2
<1>5. Assigned(e)
  BY <1>4 DEF Assigned
<1>6. GoValue(e) = GoVariable(x).value
  BY <1>4 DEF GoValue
<1>7. PICK a : a = analysis
  OBVIOUS
<1>8. PICK exact : Matches(a.scopesDeclarations, go.scopes, exact)
  BY <1>3, <1>7
<1>9. PICK number : Placed(generator, go.scopes, number) /\ Readable(generator, go.scopes, jvm, number)
  BY <1>1, <1>2
<1>10. PICK g : g = generator
  OBVIOUS
<1>11. PICK m : m = jvm
  OBVIOUS
<1>12. Placed(g, go.scopes, number) /\ Readable(g, go.scopes, m, number)
  BY <1>9, <1>10, <1>11
<1>13. Pushed(m, g, a, e) = GoValue(e)
  BY <1>5, <1>8, <1>12, LoadReadable
<1> QED BY <1>4, <1>6, <1>7, <1>10, <1>11, <1>13

(* Whatever a function declares, hides, assigns and reads, in blocks nested *)
(* as deep as may be, the code that is generated for a name (visit(        *)
(* IdentifierAsExpression) and the stores of declarations and assignments  *)
(* in codegen.cpp) reads the value that Go reads, as long as the generator *)
(* handles the function.                                                   *)
THEOREM ReadsTheSameVariable == Spec => []ReadsAsInGo
<1>1. Inv /\ Named /\ Reading => ReadsAsInGo
  BY ReadAssigned DEF ReadsAsInGo
<1> QED BY <1>1, ReadsInvariance, PTL

(* The JVM accepts the code of such a function: each load finds a value of *)
(* the type of its name, and the frame, of as many places as the analysis  *)
(* counted variables (types_visitor.cpp), has all slots that are used.     *)
THEOREM FunctionIsAccepted == Spec => []NeverRefused
<1>1. Reading => NeverRefused
  BY DEF Reading, NeverRefused
<1> QED BY <1>1, ReadsInvariance, PTL
=============================================================================
