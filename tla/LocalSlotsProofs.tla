--------------------------- MODULE LocalSlotsProofs ---------------------------
(***************************************************************************)
(* Proofs about LocalSlots, for all names, types, literals, lists of       *)
(* parameters and lengths of functions: the slots fit in the frame, and    *)
(* the analysis of types accepts the functions that Go's rules on          *)
(* declarations allow, and no others but those that the properties name.   *)
(*                                                                         *)
(* The first inductive invariant says that the slots in the scopes of the  *)
(* generator are different and below the next free one, and that the       *)
(* analysis has counted at least as many variables.  The second says that  *)
(* the scopes of the analysis match the blocks of Go as long as no rule is *)
(* broken: the same names in each, and the analysis knows no more uses     *)
(* than Go does.                                                           *)
(***************************************************************************)
EXTENDS LocalSlots, FiniteSetTheorems, SequenceTheorems, WellFoundedInduction, TLAPS

-----------------------------------------------------------------------------
(* Lists of names.                                                         *)

(* A set of positions has a last one.                                      *)
LEMMA LastPosition ==
  ASSUME NEW n \in Nat, NEW T \in SUBSET (1..n), T # {}
  PROVE  \E i \in T : \A j \in T : j <= i
<1> DEFINE R == OpToRel(<, Nat)
           U == {n - i : i \in T}
<1>1. \A i \in T : i \in Nat /\ n - i \in Nat
  OBVIOUS
<1>2. U \subseteq Nat /\ U # {}
  <2> HIDE DEF R
  <2> QED BY <1>1
<1>3. PICK u \in U : \A v \in U : ~ (<<v, u>> \in R)
  <2> HIDE DEF U, R
  <2>1. IsWellFoundedOn(R, Nat)
    BY NatLessThanWellFounded DEF R
  <2> QED BY <1>2, <2>1, WFMin
<1>4. \A v \in U : v \in Nat /\ u \in Nat /\ ~(v < u)
  <2>1. TAKE v \in U
  <2>2. <<v, u>> \in Nat \X Nat /\ ~(<<v, u>> \in R)
    BY <1>2, <1>3
  <2> HIDE DEF U
  <2> QED BY <2>2 DEF OpToRel
<1>5. PICK i \in T : u = n - i
  <2> HIDE DEF R
  <2> QED BY <1>3
<1>6. \A j \in T : ~(n - j < n - i)
  <2> HIDE DEF R
  <2> QED BY <1>4, <1>5
<1> HIDE DEF R, U
<1> QED BY <1>1, <1>5, <1>6

LEMMA AddedLastIs ==
  ASSUME NEW S, NEW ids \in Seq(S), NEW x \in {ids[i] : i \in Added(ids)}
  PROVE  AddedLast(ids, x) \in Added(ids) /\ ids[AddedLast(ids, x)] = x
<1> DEFINE T == {i \in Added(ids) : ids[i] = x}
<1>1. T \in SUBSET (1..Len(ids)) /\ T # {} /\ Len(ids) \in Nat
  BY DEF Added
<1>2. PICK i \in T : \A j \in T : j <= i
  <2> HIDE DEF T
  <2> QED BY <1>1, LastPosition
<1> QED BY <1>2 DEF AddedLast

Rank(ids, i) == Cardinality({j \in Added(ids) : j < i})

LEMMA Ranks ==
  ASSUME NEW S, NEW ids \in Seq(S)
  PROVE  /\ Cardinality(Added(ids)) \in Nat
         /\ Cardinality(Added(ids)) <= Len(ids)
         /\ \A i \in Added(ids) : Rank(ids, i) \in Nat /\ Rank(ids, i) < Cardinality(Added(ids))
         /\ \A i, k \in Added(ids) : i # k => Rank(ids, i) # Rank(ids, k)
<1> DEFINE A == Added(ids)
           Before(i) == {j \in A : j < i}
<1>1. IsFiniteSet(1..Len(ids)) /\ Cardinality(1..Len(ids)) = Len(ids)
  <2>1. Len(ids) \in Nat
    OBVIOUS
  <2> QED BY <2>1, FS_Interval
<1>2. A \in SUBSET (1..Len(ids))
  BY DEF Added
<1>3. IsFiniteSet(A) /\ Cardinality(A) <= Len(ids) /\ Cardinality(A) \in Nat
  BY <1>1, <1>2, FS_Subset, FS_CardinalityType
<1>4. ASSUME NEW i \in A, NEW T \in SUBSET A, Before(i) \subseteq T, i \in T
      PROVE  Cardinality(Before(i)) \in Nat /\ Cardinality(Before(i)) < Cardinality(T)
  <2>1. IsFiniteSet(T) /\ IsFiniteSet(Before(i)) /\ Cardinality(T) \in Nat /\ Cardinality(Before(i)) \in Nat
    BY <1>3, <1>4, FS_Subset, FS_CardinalityType
  <2>2. Before(i) \in SUBSET T /\ Before(i) # T
    BY <1>2, <1>4
  <2> QED BY <2>1, <2>2, FS_Subset
<1>5. \A i \in A : Cardinality(Before(i)) \in Nat /\ Cardinality(Before(i)) < Cardinality(A)
  BY <1>4
<1>6. \A i, k \in A : i < k => Cardinality(Before(i)) < Cardinality(Before(k))
  <2>1. TAKE i, k \in A
  <2>2. HAVE i < k
  <2>3. Before(k) \in SUBSET A /\ Before(i) \subseteq Before(k) /\ i \in Before(k)
    BY <1>2, <2>2
  <2> HIDE DEF Before
  <2> QED BY <1>4, <2>3
<1>7. \A i, k \in A : i # k => i < k \/ k < i
  BY <1>2
<1>8. \A i : Rank(ids, i) = Cardinality(Before(i))
  BY DEF Rank
<1>9. \A i, k \in A : i # k => Cardinality(Before(i)) # Cardinality(Before(k))
  <2> HIDE DEF A, Before
  <2> QED BY <1>5, <1>6, <1>7
<1> HIDE DEF Before
<1> QED BY <1>3, <1>5, <1>8, <1>9

-----------------------------------------------------------------------------
(* Scopes.                                                                 *)

AddedNames(ids) == {ids[i] : i \in Added(ids)}

(* addAll changes the last scope only.                                     *)
LEMMA AddAll ==
  ASSUME NEW S, NEW scopes \in Seq(S), scopes # <<>>, NEW ids, NEW elements
  PROVE  /\ \E T : addAll(scopes, ids, elements) \in Seq(T)
         /\ Len(addAll(scopes, ids, elements)) = Len(scopes)
         /\ \A d \in 1 .. Len(scopes) :
              d # Len(scopes) => addAll(scopes, ids, elements)[d] = scopes[d]
         /\ addAll(scopes, ids, elements)[Len(scopes)] =
              [x \in DOMAIN scopes[Len(scopes)] \cup AddedNames(ids) |->
                IF x \in AddedNames(ids) THEN elements[AddedLast(ids, x)] ELSE scopes[Len(scopes)][x]]
<1> DEFINE new == [x \in DOMAIN scopes[Len(scopes)] \cup AddedNames(ids) |->
                    IF x \in AddedNames(ids) THEN elements[AddedLast(ids, x)] ELSE scopes[Len(scopes)][x]]
<1>1. addAll(scopes, ids, elements) = [scopes EXCEPT ![Len(scopes)] = new]
  BY DEF addAll, LastScope, AddedNames
<1> HIDE DEF new
<1>2. Len(scopes) \in 1 .. Len(scopes)
  BY EmptySeq
<1>3. scopes \in Seq(S \cup {new}) /\ new \in S \cup {new}
  BY SeqMonotonic
<1>4. /\ [scopes EXCEPT ![Len(scopes)] = new] \in Seq(S \cup {new})
      /\ Len([scopes EXCEPT ![Len(scopes)] = new]) = Len(scopes)
      /\ \A d \in 1 .. Len(scopes) :
           [scopes EXCEPT ![Len(scopes)] = new][d] = IF d = Len(scopes) THEN new ELSE scopes[d]
  BY <1>2, <1>3, ExceptSeq
<1>5. addAll(scopes, ids, elements)[Len(scopes)] = new
  BY <1>1, <1>2, <1>4
<1> QED BY <1>1, <1>4, <1>5 DEF new

LEMMA AddAllKeepsScopes ==
  ASSUME NEW S, NEW scopes \in Seq(S), scopes # <<>>, NEW ids, NEW elements
  PROVE  /\ \E T : addAll(scopes, ids, elements) \in Seq(T)
         /\ Len(addAll(scopes, ids, elements)) = Len(scopes)
BY AddAll

LEMMA PushScope ==
  ASSUME NEW S, NEW scopes \in Seq(S)
  PROVE  /\ pushScope(scopes) \in Seq(S \cup {NoNames})
         /\ Len(pushScope(scopes)) = Len(scopes) + 1
         /\ pushScope(scopes) # <<>>
         /\ \A d \in 1 .. Len(scopes) : pushScope(scopes)[d] = scopes[d]
         /\ pushScope(scopes)[Len(scopes) + 1] = NoNames
<1>1. scopes \in Seq(S \cup {NoNames}) /\ NoNames \in S \cup {NoNames}
  OBVIOUS
<1> HIDE DEF NoNames
<1> QED BY <1>1, AppendProperties DEF pushScope

LEMMA PopScope ==
  ASSUME NEW S, NEW scopes \in Seq(S), scopes # <<>>
  PROVE  /\ popScope(scopes) \in Seq(S)
         /\ Len(popScope(scopes)) = Len(scopes) - 1
         /\ \A d \in 1 .. (Len(scopes) - 1) : popScope(scopes)[d] = scopes[d]
<1> DEFINE n == Len(scopes) - 1
<1>1. n \in Nat
  BY EmptySeq
<1>2. \A i \in 1 .. n : scopes[i] \in S
  BY <1>1
<1> HIDE DEF n
<1>3. /\ SubSeq(scopes, 1, n) \in Seq(S)
      /\ Len(SubSeq(scopes, 1, n)) = IF 1 <= n THEN n - 1 + 1 ELSE 0
      /\ \A d \in 1 .. (n - 1 + 1) : SubSeq(scopes, 1, n)[d] = scopes[1 + d - 1]
  BY <1>1, <1>2, SubSeqProperties
<1>4. /\ Len(SubSeq(scopes, 1, n)) = n
      /\ \A d \in 1 .. n : SubSeq(scopes, 1, n)[d] = scopes[d]
  BY <1>1, <1>3
<1> QED BY <1>3, <1>4 DEF n, popScope

LEMMA UseKeepsScopes ==
  ASSUME NEW S, NEW scopes \in Seq(S), NEW es
  PROVE  /\ \E T : Use(scopes, es) \in Seq(T)
         /\ Len(Use(scopes, es)) = Len(scopes)
<1> DEFINE scope(d) == [x \in DOMAIN scopes[d] |->
                         IF x \in ReadBy(es) /\ Innermost(scopes, x) = d
                           THEN [scopes[d][x] EXCEPT !.used = TRUE] ELSE scopes[d][x]]
<1>1. Use(scopes, es) = [d \in 1 .. Len(scopes) |-> scope(d)] /\ Len(scopes) \in Nat
  BY DEF Use
<1> HIDE DEF scope
<1>2. Use(scopes, es) \in Seq({scope(d) : d \in 1 .. Len(scopes)})
  BY <1>1
<1>3. Len(Use(scopes, es)) = Len(scopes)
  BY <1>1
<1> QED BY <1>2, <1>3

-----------------------------------------------------------------------------
(* Slots.                                                                  *)

(* Slots in scope are below the limit, and different.                      *)
SlotsBelow(context, limit) ==
  \A d \in DOMAIN context : \A x \in LocalRefs(context[d]) :
    context[d][x].index \in Nat /\ context[d][x].index < limit

SlotsDiffer(context) ==
  \A c, d \in DOMAIN context :
    \A x \in LocalRefs(context[c]), y \in LocalRefs(context[d]) :
      context[c][x].index = context[d][y].index => c = d /\ x = y

Sound(context, limit) ==
  /\ limit \in Nat
  /\ \E S : context \in Seq(S)
  /\ context # <<>>
  /\ SlotsBelow(context, limit)
  /\ SlotsDiffer(context)

(* Number gives every new name a slot of its own, from the limit on.       *)
LEMMA NumberIsSound ==
  ASSUME NEW g, NEW S, NEW ids \in Seq(S), Sound(g.context, g.indexCurrentLocalVariable)
  PROVE  /\ Sound(Number(g, ids).context, Number(g, ids).indexCurrentLocalVariable)
         /\ Len(Number(g, ids).context) = Len(g.context)
         /\ Number(g, ids).indexCurrentLocalVariable =
              g.indexCurrentLocalVariable + Cardinality(Added(ids))
<1> DEFINE old == g.context
           limit == g.indexCurrentLocalVariable
           elements == [i \in DOMAIN ids |->
                         RefConstant(limit + Cardinality({j \in Added(ids) : j < i}), TRUE)]
           new == addAll(old, ids, elements)
           size == Cardinality(Added(ids))
           IsNew(d, x) == d = Len(old) /\ x \in AddedNames(ids)
<1>1. Number(g, ids).context = new /\ Number(g, ids).indexCurrentLocalVariable = limit + size
  BY DEF Number
<1>2. PICK T : old \in Seq(T)
  BY DEF Sound
<1>3. old # <<>> /\ limit \in Nat /\ SlotsBelow(old, limit) /\ SlotsDiffer(old)
  BY DEF Sound
<1>4. Len(old) \in 1 .. Len(old) /\ DOMAIN old = 1 .. Len(old)
  BY <1>2, <1>3, EmptySeq
<1>5. size \in Nat
  BY Ranks
<1>6. ASSUME NEW x \in AddedNames(ids)
      PROVE  /\ AddedLast(ids, x) \in Added(ids)
             /\ ids[AddedLast(ids, x)] = x
             /\ elements[AddedLast(ids, x)] = RefConstant(limit + Rank(ids, AddedLast(ids, x)), TRUE)
  <2>1. AddedLast(ids, x) \in Added(ids) /\ ids[AddedLast(ids, x)] = x
    BY AddedLastIs DEF AddedNames
  <2>2. AddedLast(ids, x) \in DOMAIN ids
    BY <2>1 DEF Added
  <2> QED BY <2>1, <2>2 DEF Rank
<1> HIDE DEF elements
<1>7. /\ \E U : new \in Seq(U)
      /\ Len(new) = Len(old)
      /\ \A d \in 1 .. Len(old) : d # Len(old) => new[d] = old[d]
      /\ new[Len(old)] = [x \in DOMAIN old[Len(old)] \cup AddedNames(ids) |->
                            IF x \in AddedNames(ids) THEN elements[AddedLast(ids, x)] ELSE old[Len(old)][x]]
  <2> HIDE DEF old, limit, size, IsNew
  <2> QED BY <1>2, <1>3, AddAll
<1> HIDE DEF new, old, limit, size
<1>8. DOMAIN new = 1 .. Len(old) /\ new # <<>>
  <2>1. PICK U : new \in Seq(U)
    BY <1>7
  <2>2. DOMAIN new = 1 .. Len(new)
    BY <2>1, LenProperties
  <2>3. Len(new) = Len(old) /\ Len(old) \in 1 .. Len(old)
    BY <1>4, <1>7
  <2>4. new # <<>>
    BY <2>3, EmptySeq
  <2> QED BY <2>2, <2>3, <2>4
<1>9. ASSUME NEW d \in DOMAIN new, NEW x \in LocalRefs(new[d]), ~IsNew(d, x)
      PROVE  d \in DOMAIN old /\ x \in LocalRefs(old[d]) /\ new[d][x].index = old[d][x].index
  <2>1. d \in DOMAIN old /\ x \in DOMAIN new[d] /\ new[d][x].isLocal
    BY <1>4, <1>8 DEF LocalRefs
  <2>2. x \in DOMAIN old[d] /\ new[d][x] = old[d][x]
    <3>1. CASE d = Len(old)
      BY <1>7, <1>9, <2>1, <3>1
    <3>2. CASE d # Len(old)
      BY <1>4, <1>7, <2>1, <3>2
    <3> QED BY <3>1, <3>2
  <2> QED BY <2>1, <2>2 DEF LocalRefs
<1>10. ASSUME NEW x \in AddedNames(ids)
       PROVE  new[Len(old)][x].index = limit + Rank(ids, AddedLast(ids, x))
  <2>1. new[Len(old)][x] = elements[AddedLast(ids, x)]
    BY <1>7
  <2>2. elements[AddedLast(ids, x)] = RefConstant(limit + Rank(ids, AddedLast(ids, x)), TRUE)
    BY <1>6
  <2>3. \A i : RefConstant(i, TRUE).index = i
    BY DEF RefConstant
  <2> QED BY <2>1, <2>2, <2>3
<1>11. SlotsBelow(new, limit + size)
  <2> SUFFICES ASSUME NEW d \in DOMAIN new, NEW x \in LocalRefs(new[d])
               PROVE  new[d][x].index \in Nat /\ new[d][x].index < limit + size
    BY DEF SlotsBelow
  <2>1. CASE IsNew(d, x)
    <3>1. Rank(ids, AddedLast(ids, x)) \in Nat /\ Rank(ids, AddedLast(ids, x)) < size
      BY <1>6, <2>1, Ranks DEF size
    <3> QED BY <1>3, <1>5, <1>10, <2>1, <3>1
  <2>2. CASE ~IsNew(d, x)
    BY <1>3, <1>5, <1>9, <2>2 DEF SlotsBelow
  <2> QED BY <2>1, <2>2
<1>12. SlotsDiffer(new)
  <2> SUFFICES ASSUME NEW c \in DOMAIN new, NEW d \in DOMAIN new,
                      NEW x \in LocalRefs(new[c]), NEW y \in LocalRefs(new[d]),
                      new[c][x].index = new[d][y].index
               PROVE  c = d /\ x = y
    BY DEF SlotsDiffer
  <2>1. ASSUME NEW e \in DOMAIN new, NEW z \in LocalRefs(new[e]), IsNew(e, z)
        PROVE  new[e][z].index \in Nat /\ new[e][z].index >= limit
    <3>1. Rank(ids, AddedLast(ids, z)) \in Nat
      BY <1>6, <2>1, Ranks
    <3> QED BY <1>3, <1>10, <2>1, <3>1
  <2>2. ASSUME NEW e \in DOMAIN new, NEW z \in LocalRefs(new[e]), ~IsNew(e, z)
        PROVE  new[e][z].index \in Nat /\ new[e][z].index < limit
    BY <1>3, <1>9, <2>2 DEF SlotsBelow
  <2>3. IsNew(c, x) <=> IsNew(d, y)
    <3> HIDE DEF IsNew
    <3> QED BY <1>3, <2>1, <2>2
  <2>4. CASE IsNew(c, x)
    <3>1. Rank(ids, AddedLast(ids, x)) = Rank(ids, AddedLast(ids, y))
      <4>1. Rank(ids, AddedLast(ids, x)) \in Nat /\ Rank(ids, AddedLast(ids, y)) \in Nat
        BY <1>6, <2>3, <2>4, Ranks
      <4> QED BY <1>3, <1>10, <2>3, <2>4, <4>1
    <3>2. AddedLast(ids, x) = AddedLast(ids, y)
      BY <1>6, <2>3, <2>4, <3>1, Ranks
    <3> QED BY <1>6, <2>3, <2>4, <3>2
  <2>5. CASE ~IsNew(c, x)
    BY <1>3, <1>9, <2>3, <2>5 DEF SlotsDiffer
  <2> QED BY <2>4, <2>5
<1>13. limit + size \in Nat
  BY <1>3, <1>5
<1> QED BY <1>1, <1>7, <1>8, <1>11, <1>12, <1>13 DEF Sound, old, limit, size

LEMMA PushIsSound ==
  ASSUME NEW context, NEW limit, Sound(context, limit)
  PROVE  /\ Sound(pushScope(context), limit)
         /\ Len(pushScope(context)) = Len(context) + 1
<1>1. PICK S : context \in Seq(S)
  BY DEF Sound
<1> DEFINE new == pushScope(context)
<1>2. /\ new \in Seq(S \cup {NoNames})
      /\ Len(new) = Len(context) + 1
      /\ new # <<>>
      /\ \A d \in 1 .. Len(context) : new[d] = context[d]
      /\ new[Len(context) + 1] = NoNames
  BY <1>1, PushScope
<1> HIDE DEF new
<1>3. Len(context) \in Nat /\ DOMAIN context = 1 .. Len(context) /\ DOMAIN new = 1 .. (Len(context) + 1)
  BY <1>1, <1>2, LenProperties
<1>4. LocalRefs(NoNames) = {}
  BY DEF LocalRefs, NoNames
<1>5. \A d \in DOMAIN new : \A x \in LocalRefs(new[d]) : d \in DOMAIN context /\ new[d] = context[d]
  BY <1>2, <1>3, <1>4
<1>6. SlotsBelow(new, limit) /\ SlotsDiffer(new)
  BY <1>5 DEF Sound, SlotsBelow, SlotsDiffer
<1> QED BY <1>2, <1>6 DEF Sound, new

LEMMA PopIsSound ==
  ASSUME NEW context, NEW limit, Sound(context, limit), Len(context) >= 2
  PROVE  /\ Sound(popScope(context), limit)
         /\ Len(popScope(context)) = Len(context) - 1
<1>1. PICK S : context \in Seq(S)
  BY DEF Sound
<1> DEFINE new == popScope(context)
<1>2. /\ new \in Seq(S)
      /\ Len(new) = Len(context) - 1
      /\ \A d \in 1 .. (Len(context) - 1) : new[d] = context[d]
  BY <1>1, PopScope DEF Sound
<1> HIDE DEF new
<1>3. Len(context) \in Nat /\ DOMAIN context = 1 .. Len(context) /\ DOMAIN new = 1 .. (Len(context) - 1)
  BY <1>1, <1>2, LenProperties
<1>4. new # <<>>
  BY <1>2, <1>3, EmptySeq
<1>5. \A d \in DOMAIN new : d \in DOMAIN context /\ new[d] = context[d]
  BY <1>2, <1>3
<1>6. SlotsBelow(new, limit) /\ SlotsDiffer(new)
  BY <1>5 DEF Sound, SlotsBelow, SlotsDiffer
<1> QED BY <1>2, <1>4, <1>6 DEF Sound, new

-----------------------------------------------------------------------------
(* What the analysis does to its scopes and to its counter.                *)

Analysis(a) == \E S : a \in [scopesDeclarations : Seq(S), numberLocalVariables : Nat]

LEMMA VisitedAnalysis ==
  ASSUME NEW a, Analysis(a), NEW es
  PROVE  /\ Analysis(Visited(a, es))
         /\ Len(Visited(a, es).scopesDeclarations) = Len(a.scopesDeclarations)
         /\ Visited(a, es).numberLocalVariables = a.numberLocalVariables
<1>1. PICK S : a \in [scopesDeclarations : Seq(S), numberLocalVariables : Nat]
  BY DEF Analysis
<1> DEFINE used == Use(a.scopesDeclarations, es)
<1>2. PICK T : used \in Seq(T) /\ Len(used) = Len(a.scopesDeclarations)
  BY <1>1, UseKeepsScopes
<1>3. Visited(a, es) = [a EXCEPT !.scopesDeclarations = used]
  BY DEF Visited
<1> HIDE DEF used
<1>4. /\ Visited(a, es) \in [scopesDeclarations : Seq(T), numberLocalVariables : Nat]
      /\ Visited(a, es).scopesDeclarations = used
      /\ Visited(a, es).numberLocalVariables = a.numberLocalVariables
  BY <1>1, <1>2, <1>3
<1> QED BY <1>2, <1>4 DEF Analysis

LEMMA CountAnalysis ==
  ASSUME NEW a, Analysis(a), NEW S, NEW ids \in Seq(S)
  PROVE  /\ Analysis(Count(a, ids))
         /\ Count(a, ids).scopesDeclarations = a.scopesDeclarations
         /\ Count(a, ids).numberLocalVariables = a.numberLocalVariables + Cardinality(Added(ids))
<1>1. PICK T : a \in [scopesDeclarations : Seq(T), numberLocalVariables : Nat]
  BY DEF Analysis
<1>2. Cardinality(Added(ids)) \in Nat
  BY Ranks
<1>3. /\ Count(a, ids) \in [scopesDeclarations : Seq(T), numberLocalVariables : Nat]
      /\ Count(a, ids).scopesDeclarations = a.scopesDeclarations
      /\ Count(a, ids).numberLocalVariables = a.numberLocalVariables + Cardinality(Added(ids))
  BY <1>1, <1>2 DEF Count
<1> QED BY <1>3 DEF Analysis

LEMMA EnteredAnalysis ==
  ASSUME NEW a, Analysis(a), a.scopesDeclarations # <<>>, NEW ids, NEW types, NEW isConst
  PROVE  /\ Analysis(Entered(a, ids, types, isConst))
         /\ Len(Entered(a, ids, types, isConst).scopesDeclarations) = Len(a.scopesDeclarations)
         /\ Entered(a, ids, types, isConst).numberLocalVariables = a.numberLocalVariables
<1>1. PICK S : a \in [scopesDeclarations : Seq(S), numberLocalVariables : Nat]
  BY DEF Analysis
<1> DEFINE elements == [i \in DOMAIN ids |-> VariableEntity(types[i], isConst, FALSE)]
           old == a.scopesDeclarations
           new == addAll(old, ids, elements)
<1>2. Entered(a, ids, types, isConst) = [a EXCEPT !.scopesDeclarations = new]
  BY DEF Entered
<1> HIDE DEF elements
<1>3. /\ \E T : new \in Seq(T)
      /\ Len(new) = Len(old)
  <2>1. old \in Seq(S) /\ old # <<>>
    BY <1>1
  <2> HIDE DEF old
  <2> QED BY <2>1, AddAllKeepsScopes
<1> HIDE DEF new
<1>4. PICK T : new \in Seq(T)
  BY <1>3
<1>5. /\ Entered(a, ids, types, isConst) \in [scopesDeclarations : Seq(T), numberLocalVariables : Nat]
      /\ Entered(a, ids, types, isConst).scopesDeclarations = new
      /\ Entered(a, ids, types, isConst).numberLocalVariables = a.numberLocalVariables
  BY <1>1, <1>2, <1>4
<1> QED BY <1>3, <1>4, <1>5 DEF Analysis

(* A declaration counts the names that it adds.                            *)
LEMMA DeclaredAnalysis ==
  ASSUME NEW a, Analysis(a), Len(a.scopesDeclarations) >= 2,
         NEW S, NEW ids \in Seq(S), NEW es, NEW types, NEW isConst
  PROVE  LET b == Entered(Count(Visited(a, es), ids), ids, types, isConst)
         IN  /\ Analysis(b)
             /\ Len(b.scopesDeclarations) = Len(a.scopesDeclarations)
             /\ b.numberLocalVariables = a.numberLocalVariables + Cardinality(Added(ids))
<1> DEFINE v == Visited(a, es)
           c == Count(v, ids)
           b == Entered(c, ids, types, isConst)
<1>1. /\ Analysis(v) /\ Len(v.scopesDeclarations) = Len(a.scopesDeclarations)
      /\ v.numberLocalVariables = a.numberLocalVariables
  BY VisitedAnalysis
<1> HIDE DEF v
<1>2. /\ Analysis(c) /\ c.scopesDeclarations = v.scopesDeclarations
      /\ c.numberLocalVariables = v.numberLocalVariables + Cardinality(Added(ids))
  BY <1>1, CountAnalysis
<1> HIDE DEF c
<1>3. c.scopesDeclarations # <<>>
  <2>1. Len(c.scopesDeclarations) >= 2
    BY <1>1, <1>2
  <2> QED BY <2>1, EmptySeq
<1>4. /\ Analysis(b) /\ Len(b.scopesDeclarations) = Len(c.scopesDeclarations)
      /\ b.numberLocalVariables = c.numberLocalVariables
  BY <1>2, <1>3, EnteredAnalysis
<1>5. /\ Analysis(b) /\ Len(b.scopesDeclarations) = Len(a.scopesDeclarations)
      /\ b.numberLocalVariables = a.numberLocalVariables + Cardinality(Added(ids))
  <2> HIDE DEF b
  <2> QED BY <1>1, <1>2, <1>4
<1> QED BY <1>5 DEF c, v

-----------------------------------------------------------------------------
(* The inductive invariant.                                                *)

Generation(g) == \E S : g \in [context : Seq(S), indexCurrentLocalVariable : Nat]

(* The analysis a and the generator g in the body of a function.           *)
Body(a, g) ==
  /\ Sound(g.context, g.indexCurrentLocalVariable)
  /\ Len(g.context) = Len(a.scopesDeclarations) + 1
  /\ Len(a.scopesDeclarations) >= 2
  /\ g.indexCurrentLocalVariable <= a.numberLocalVariables

Signature(a, g) ==
  /\ Sound(g.context, 0)
  /\ Len(g.context) = 1
  /\ Len(a.scopesDeclarations) = 1

Inv ==
  /\ stage \in {"signature", "body", "done", "rejected"}
  /\ statements \in 0 .. MaxStatements
  /\ Analysis(analysis)
  /\ Generation(generator)
  /\ stage = "signature" => Signature(analysis, generator)
  /\ stage = "body" => Body(analysis, generator)

(* The parts of a generator are enough to make one.                        *)
LEMMA NumberIsGeneration ==
  ASSUME NEW g, NEW S, NEW ids \in Seq(S), Sound(g.context, g.indexCurrentLocalVariable)
  PROVE  Generation(Number(g, ids))
<1> DEFINE new == Number(g, ids)
<1>1. Sound(new.context, new.indexCurrentLocalVariable)
  BY NumberIsSound
<1>2. new = [context |-> new.context, indexCurrentLocalVariable |-> new.indexCurrentLocalVariable]
  BY DEF Number
<1> HIDE DEF new
<1>3. PICK T : new.context \in Seq(T)
  BY <1>1 DEF Sound
<1>4. new.indexCurrentLocalVariable \in Nat
  BY <1>1 DEF Sound
<1>5. new \in [context : Seq(T), indexCurrentLocalVariable : Nat]
  BY <1>2, <1>3, <1>4
<1> QED BY <1>5 DEF Generation, new

(* A declaration takes analysis and generator on, in step.                 *)
LEMMA DeclarationKeepsBody ==
  ASSUME NEW a, Analysis(a), NEW g, Body(a, g),
         NEW S, NEW ids \in Seq(S), NEW es, NEW types, NEW isConst
  PROVE  LET b == Entered(Count(Visited(a, es), ids), ids, types, isConst)
         IN  Analysis(b) /\ Generation(Number(g, ids)) /\ Body(b, Number(g, ids))
<1> DEFINE b == Entered(Count(Visited(a, es), ids), ids, types, isConst)
           h == Number(g, ids)
           n == Cardinality(Added(ids))
<1>1. /\ Analysis(b)
      /\ Len(b.scopesDeclarations) = Len(a.scopesDeclarations)
      /\ b.numberLocalVariables = a.numberLocalVariables + n
  BY DeclaredAnalysis DEF Body
<1>2. /\ Sound(h.context, h.indexCurrentLocalVariable)
      /\ Len(h.context) = Len(g.context)
      /\ h.indexCurrentLocalVariable = g.indexCurrentLocalVariable + n
  BY NumberIsSound DEF Body
<1>3. Generation(h)
  BY NumberIsGeneration DEF Body
<1>4. n \in Nat
  BY Ranks
<1>5. a.numberLocalVariables \in Nat
  BY DEF Analysis
<1>6. g.indexCurrentLocalVariable \in Nat
  BY DEF Body, Sound
<1> HIDE DEF b, h, n
<1>7. Body(b, h)
  BY <1>1, <1>2, <1>4, <1>5, <1>6 DEF Body
<1> QED BY <1>1, <1>3, <1>7 DEF b, h

LEMMA UseKeepsBody ==
  ASSUME NEW a, Analysis(a), NEW g, Body(a, g), NEW es
  PROVE  Analysis(Visited(a, es)) /\ Body(Visited(a, es), g)
BY VisitedAnalysis DEF Body

(* Scopes of the analysis and of the generator are opened and closed       *)
(* together.                                                               *)
LEMMA PushAnalysis ==
  ASSUME NEW a, Analysis(a)
  PROVE  LET b == [a EXCEPT !.scopesDeclarations = pushScope(@)]
         IN  /\ Analysis(b)
             /\ Len(b.scopesDeclarations) = Len(a.scopesDeclarations) + 1
             /\ b.numberLocalVariables = a.numberLocalVariables
<1>1. PICK S : a \in [scopesDeclarations : Seq(S), numberLocalVariables : Nat]
  BY DEF Analysis
<1> DEFINE new == pushScope(a.scopesDeclarations)
           b == [a EXCEPT !.scopesDeclarations = new]
<1>2. new \in Seq(S \cup {NoNames}) /\ Len(new) = Len(a.scopesDeclarations) + 1
  BY <1>1, PushScope
<1> HIDE DEF new
<1>3. /\ b \in [scopesDeclarations : Seq(S \cup {NoNames}), numberLocalVariables : Nat]
      /\ b.scopesDeclarations = new
      /\ b.numberLocalVariables = a.numberLocalVariables
  BY <1>1, <1>2
<1> QED BY <1>2, <1>3 DEF Analysis, new

LEMMA PopAnalysis ==
  ASSUME NEW a, Analysis(a), Len(a.scopesDeclarations) >= 2
  PROVE  LET b == [a EXCEPT !.scopesDeclarations = popScope(@)]
         IN  /\ Analysis(b)
             /\ Len(b.scopesDeclarations) = Len(a.scopesDeclarations) - 1
             /\ b.numberLocalVariables = a.numberLocalVariables
<1>1. PICK S : a \in [scopesDeclarations : Seq(S), numberLocalVariables : Nat]
  BY DEF Analysis
<1> DEFINE old == a.scopesDeclarations
           new == popScope(old)
           b == [a EXCEPT !.scopesDeclarations = new]
<1>2. old \in Seq(S) /\ old # <<>>
  BY <1>1
<1>3. new \in Seq(S) /\ Len(new) = Len(old) - 1
  <2> HIDE DEF old
  <2> QED BY <1>2, PopScope
<1> HIDE DEF new
<1>4. /\ b \in [scopesDeclarations : Seq(S), numberLocalVariables : Nat]
      /\ b.scopesDeclarations = new
      /\ b.numberLocalVariables = a.numberLocalVariables
  BY <1>1, <1>3
<1> QED BY <1>3, <1>4 DEF Analysis, new

LEMMA PushGeneration ==
  ASSUME NEW g, Generation(g)
  PROVE  LET h == [g EXCEPT !.context = pushScope(@)]
         IN  /\ Generation(h)
             /\ h.context = pushScope(g.context)
             /\ h.indexCurrentLocalVariable = g.indexCurrentLocalVariable
<1>1. PICK S : g \in [context : Seq(S), indexCurrentLocalVariable : Nat]
  BY DEF Generation
<1> DEFINE new == pushScope(g.context)
           h == [g EXCEPT !.context = new]
<1>2. new \in Seq(S \cup {NoNames})
  BY <1>1, PushScope
<1> HIDE DEF new
<1>3. /\ h \in [context : Seq(S \cup {NoNames}), indexCurrentLocalVariable : Nat]
      /\ h.context = new
      /\ h.indexCurrentLocalVariable = g.indexCurrentLocalVariable
  BY <1>1, <1>2
<1> QED BY <1>3 DEF Generation, new

LEMMA PopGeneration ==
  ASSUME NEW g, Generation(g), g.context # <<>>
  PROVE  LET h == [g EXCEPT !.context = popScope(@)]
         IN  /\ Generation(h)
             /\ h.context = popScope(g.context)
             /\ Len(h.context) = Len(g.context) - 1
             /\ h.indexCurrentLocalVariable = g.indexCurrentLocalVariable
<1>1. PICK S : g \in [context : Seq(S), indexCurrentLocalVariable : Nat]
  BY DEF Generation
<1> DEFINE old == g.context
           new == popScope(old)
           h == [g EXCEPT !.context = new]
<1>2. old \in Seq(S) /\ old # <<>>
  BY <1>1
<1>3. new \in Seq(S) /\ Len(new) = Len(old) - 1
  <2> HIDE DEF old
  <2> QED BY <1>2, PopScope
<1> HIDE DEF new
<1>4. /\ h \in [context : Seq(S), indexCurrentLocalVariable : Nat]
      /\ h.context = new
      /\ h.indexCurrentLocalVariable = g.indexCurrentLocalVariable
  BY <1>1, <1>3
<1> QED BY <1>3, <1>4 DEF Generation, new

-----------------------------------------------------------------------------
(* The invariant holds initially, and every action keeps it.               *)

LEMMA InitIsSound == Init => Inv
<1> SUFFICES ASSUME Init PROVE Inv
  OBVIOUS
<1> DEFINE fields == [x \in FieldIds |-> RefConstant(FieldIndex(x), FALSE)]
           declared == [x \in FieldIds |-> VariableEntity(Fields[FieldIndex(x)].value.type, FALSE, FALSE)]
<1>1. /\ generator = [context |-> <<fields>>, indexCurrentLocalVariable |-> 0]
      /\ analysis = [scopesDeclarations |-> <<declared>>, numberLocalVariables |-> 0]
  BY DEF Init
<1>2. LocalRefs(fields) = {}
  BY DEF LocalRefs, RefConstant
<1> HIDE DEF fields, declared
<1>3. generator \in [context : Seq({fields}), indexCurrentLocalVariable : Nat]
  BY <1>1
<1>4. analysis \in [scopesDeclarations : Seq({declared}), numberLocalVariables : Nat]
  BY <1>1
<1>5. <<fields>> \in Seq({fields}) /\ <<fields>> # <<>> /\ DOMAIN <<fields>> = {1} /\ <<fields>>[1] = fields
  OBVIOUS
<1>6. Sound(<<fields>>, 0)
  BY <1>2, <1>5 DEF Sound, SlotsBelow, SlotsDiffer
<1>7. Signature(analysis, generator)
  BY <1>1, <1>6 DEF Signature
<1>8. stage = "signature" /\ statements \in 0 .. MaxStatements
  BY MaxStatementsAssumption DEF Init
<1> QED BY <1>3, <1>4, <1>7, <1>8 DEF Inv, Analysis, Generation

LEMMA RejectedKeepsInv ==
  ASSUME Inv, Rejected
  PROVE  Inv'
BY DEF Inv, Rejected, Analysis, Generation

(* One more statement in the body.                                         *)
LEMMA StatementKeepsInv ==
  ASSUME Inv, InBody, NEW n \in {0, 1}, Goes(n),
         Analysis(analysis'), Generation(generator'), Body(analysis', generator')
  PROVE  Inv'
<1>1. stage' = "body" /\ statements' \in 0 .. MaxStatements
  BY MaxStatementsAssumption DEF Inv, InBody, Goes
<1> QED BY <1>1 DEF Inv, Analysis, Generation, Body

LEMMA BeginKeepsInv ==
  ASSUME Inv, NEW ps \in ParameterLists, Begin(ps)
  PROVE  Inv'
<1> DEFINE ids == Ids(ps)
           S == Names \cup {Blank}
           entities == [i \in DOMAIN ps |-> VariableEntity(ps[i].type, FALSE, TRUE)]
           scopes == pushScope(analysis.scopesDeclarations)
           a == addAll(scopes, ids, entities)
           g == [generator EXCEPT !.context = pushScope(@), !.indexCurrentLocalVariable = 0]
           h == Number(g, ids)
           k == [h EXCEPT !.context = pushScope(@)]
<1>1. /\ Signature(analysis, generator)
      /\ Analysis(analysis)
      /\ Generation(generator)
      /\ statements \in 0 .. MaxStatements
  BY DEF Begin, Inv
<1>2. ids \in Seq(S) /\ Len(ids) = Len(ps) /\ Len(ps) \in Nat
  <2>1. ps \in Seq([id : Names \cup {Blank}, type : Types])
    BY NamesAssumption
  <2> DEFINE n == Len(ps)
  <2>2. n \in Nat /\ DOMAIN ps = 1 .. n
    BY <2>1, LenProperties
  <2>3. \A i \in 1 .. n : ps[i].id \in S
    BY <2>1, ElementOfSeq, ZenonT(60)
  <2> HIDE DEF n, S
  <2>4. ids = [i \in 1 .. n |-> ps[i].id]
    BY <2>2 DEF Ids
  <2>5. ids \in Seq(S) /\ Len(ids) = n
    BY <2>2, <2>3, <2>4
  <2> QED BY <2>2, <2>5 DEF n
<1>3. /\ analysis' = [scopesDeclarations |-> a, numberLocalVariables |-> Len(ps)]
      /\ generator' = k
      /\ stage' = "body" /\ statements' = statements
  BY DEF Begin, AnalyseArguments, GenerateArguments
<1> HIDE DEF ids, S
<1>4. (\E T : a \in Seq(T)) /\ Len(a) = 2
  <2>1. PICK T : analysis.scopesDeclarations \in Seq(T)
    BY <1>1 DEF Analysis
  <2>2. /\ scopes \in Seq(T \cup {NoNames})
        /\ Len(scopes) = Len(analysis.scopesDeclarations) + 1
        /\ scopes # <<>>
    BY <2>1, PushScope
  <2> HIDE DEF scopes, entities
  <2>3. (\E U : a \in Seq(U)) /\ Len(a) = Len(scopes)
    BY <2>2, AddAllKeepsScopes
  <2> HIDE DEF a
  <2>4. Len(scopes) = 2
    BY <1>1, <2>2 DEF Signature
  <2> QED BY <2>3, <2>4
<1> HIDE DEF a
<1>5. Analysis(analysis') /\ Len(analysis'.scopesDeclarations) = 2 /\ analysis'.numberLocalVariables = Len(ps)
  <2>1. PICK T : a \in Seq(T)
    BY <1>4
  <2>2. analysis' \in [scopesDeclarations : Seq(T), numberLocalVariables : Nat]
    BY <1>2, <1>3, <2>1
  <2> QED BY <1>3, <1>4, <2>2 DEF Analysis
<1>6. g.context = pushScope(generator.context) /\ g.indexCurrentLocalVariable = 0
  BY <1>1 DEF Generation
<1>7. Sound(g.context, g.indexCurrentLocalVariable) /\ Len(g.context) = 2
  <2>1. Sound(generator.context, 0) /\ Len(generator.context) = 1
    BY <1>1 DEF Signature
  <2>2. /\ Sound(pushScope(generator.context), 0)
        /\ Len(pushScope(generator.context)) = Len(generator.context) + 1
    BY <2>1, PushIsSound
  <2> HIDE DEF g
  <2> QED BY <1>6, <2>1, <2>2
<1> HIDE DEF g
<1>8. /\ Sound(h.context, h.indexCurrentLocalVariable)
      /\ Len(h.context) = 2
      /\ h.indexCurrentLocalVariable = Cardinality(Added(ids))
      /\ Generation(h)
  <2>1. Cardinality(Added(ids)) \in Nat
    BY <1>2, Ranks
  <2>2. g.indexCurrentLocalVariable = 0
    BY <1>6
  <2> QED BY <1>2, <1>7, <2>1, <2>2, NumberIsSound, NumberIsGeneration
<1> HIDE DEF h
<1>9. /\ Generation(k)
      /\ k.context = pushScope(h.context)
      /\ k.indexCurrentLocalVariable = h.indexCurrentLocalVariable
  BY <1>8, PushGeneration
<1> HIDE DEF k
<1>10. Sound(k.context, k.indexCurrentLocalVariable) /\ Len(k.context) = 3
  <2>1. /\ Sound(pushScope(h.context), h.indexCurrentLocalVariable)
        /\ Len(pushScope(h.context)) = Len(h.context) + 1
    BY <1>8, PushIsSound
  <2> QED BY <1>8, <1>9, <2>1
<1>11. Cardinality(Added(ids)) <= Len(ps)
  BY <1>2, Ranks
<1>12. Body(analysis', generator')
  <2>1. k.indexCurrentLocalVariable = Cardinality(Added(ids))
    BY <1>8, <1>9
  <2>2. generator' = k
    BY <1>3
  <2> QED BY <1>5, <1>10, <1>11, <2>1, <2>2 DEF Body
<1> QED BY <1>1, <1>3, <1>5, <1>9, <1>12 DEF Inv, Analysis, Generation, Body

LEMMA DeclareKeepsInv ==
  ASSUME Inv, NEW S, NEW ids \in Seq(S), NEW type, NEW es, NEW isConst,
         Declare(ids, type, es, isConst)
  PROVE  Inv'
<1>1. CASE Rejected
  BY <1>1, RejectedKeepsInv
<1>2. CASE ~Rejected
  <2> DEFINE types == DeclaredTypes(analysis, ids, type, es)
  <2>1. /\ InBody /\ Goes(1)
        /\ analysis' = Entered(Count(Visited(analysis, es), ids), ids, types, isConst)
        /\ generator' = Number(generator, ids)
    BY <1>2 DEF Declare, AnalyseVariable, Unbroken
  <2>2. Analysis(analysis) /\ Body(analysis, generator)
    BY <2>1 DEF Inv, InBody
  <2> HIDE DEF types
  <2>3. Analysis(analysis') /\ Generation(generator') /\ Body(analysis', generator')
    BY <2>1, <2>2, DeclarationKeepsBody
  <2> QED BY <2>1, <2>3, StatementKeepsInv
<1> QED BY <1>1, <1>2

LEMMA ShortDeclareKeepsInv ==
  ASSUME Inv, NEW S, NEW ids \in Seq(S), NEW es, ShortDeclare(ids, es)
  PROVE  Inv'
<1>1. CASE Rejected
  BY <1>1, RejectedKeepsInv
<1>2. CASE ~Rejected
  <2> DEFINE types == DeclaredTypes(analysis, ids, NoType, es)
  <2>1. /\ InBody /\ Goes(1)
        /\ analysis' = Entered(Count(Visited(analysis, es), ids), ids, types, FALSE)
        /\ generator' = Number(generator, ids)
    BY <1>2 DEF ShortDeclare, AnalyseShort, Unbroken
  <2>2. Analysis(analysis) /\ Body(analysis, generator)
    BY <2>1 DEF Inv, InBody
  <2> HIDE DEF types
  <2>3. Analysis(analysis') /\ Generation(generator') /\ Body(analysis', generator')
    BY <2>1, <2>2, DeclarationKeepsBody
  <2> QED BY <2>1, <2>3, StatementKeepsInv
<1> QED BY <1>1, <1>2

(* A statement that declares nothing.                                      *)
LEMMA VisitKeepsInv ==
  ASSUME Inv, InBody, Goes(1), NEW es, analysis' = Visited(analysis, es), generator' = generator
  PROVE  Inv'
<1>1. Analysis(analysis) /\ Body(analysis, generator) /\ Generation(generator)
  BY DEF Inv, InBody
<1>2. Analysis(analysis') /\ Generation(generator') /\ Body(analysis', generator')
  BY <1>1, UseKeepsBody
<1> QED BY <1>2, StatementKeepsInv

LEMMA AssignKeepsInv ==
  ASSUME Inv, NEW x, NEW e, Assign(x, e)
  PROVE  Inv'
<1>1. CASE Rejected
  BY <1>1, RejectedKeepsInv
<1>2. CASE ~Rejected
  BY <1>2, VisitKeepsInv DEF Assign, Unbroken
<1> QED BY <1>1, <1>2

LEMMA UseVariableKeepsInv ==
  ASSUME Inv, NEW e, UseVariable(e)
  PROVE  Inv'
<1>1. CASE Rejected
  BY <1>1, RejectedKeepsInv
<1>2. CASE ~Rejected
  BY <1>2, VisitKeepsInv DEF UseVariable
<1> QED BY <1>1, <1>2

LEMMA OpenBlockKeepsInv ==
  ASSUME Inv, OpenBlock
  PROVE  Inv'
<1>1. /\ InBody /\ Goes(1)
      /\ analysis' = [analysis EXCEPT !.scopesDeclarations = pushScope(@)]
      /\ generator' = [generator EXCEPT !.context = pushScope(@)]
  BY DEF OpenBlock, Unbroken
<1>2. Analysis(analysis) /\ Body(analysis, generator) /\ Generation(generator)
  BY <1>1 DEF Inv, InBody
<1>3. /\ Analysis(analysis')
      /\ Len(analysis'.scopesDeclarations) = Len(analysis.scopesDeclarations) + 1
      /\ analysis'.numberLocalVariables = analysis.numberLocalVariables
  BY <1>1, <1>2, PushAnalysis
<1>4. /\ Generation(generator')
      /\ generator'.context = pushScope(generator.context)
      /\ generator'.indexCurrentLocalVariable = generator.indexCurrentLocalVariable
  BY <1>1, <1>2, PushGeneration
<1>5. Sound(generator.context, generator.indexCurrentLocalVariable)
  BY <1>2 DEF Body
<1>6. /\ Sound(pushScope(generator.context), generator.indexCurrentLocalVariable)
      /\ Len(pushScope(generator.context)) = Len(generator.context) + 1
  BY <1>5, PushIsSound
<1>7. Sound(generator'.context, generator'.indexCurrentLocalVariable)
  BY <1>4, <1>6
<1>8. Body(analysis', generator')
  BY <1>2, <1>3, <1>4, <1>6, <1>7 DEF Body
<1> QED BY <1>1, <1>3, <1>4, <1>8, StatementKeepsInv

LEMMA CloseBlockKeepsInv ==
  ASSUME Inv, CloseBlock
  PROVE  Inv'
<1>1. CASE Rejected
  BY <1>1, RejectedKeepsInv
<1>2. CASE ~Rejected
  <2>1. /\ stage = "body" /\ Len(analysis.scopesDeclarations) > 2 /\ Goes(0)
        /\ analysis' = [analysis EXCEPT !.scopesDeclarations = popScope(@)]
        /\ generator' = [generator EXCEPT !.context = popScope(@)]
    BY <1>2 DEF CloseBlock
  <2>2. Analysis(analysis) /\ Body(analysis, generator) /\ Generation(generator)
    BY <2>1 DEF Inv
  <2>3. Len(analysis.scopesDeclarations) \in Nat /\ Len(analysis.scopesDeclarations) >= 2
    BY <2>1, <2>2 DEF Analysis
  <2>4. /\ Analysis(analysis')
        /\ Len(analysis'.scopesDeclarations) = Len(analysis.scopesDeclarations) - 1
        /\ analysis'.numberLocalVariables = analysis.numberLocalVariables
    BY <2>1, <2>2, <2>3, PopAnalysis
  <2>5. Sound(generator.context, generator.indexCurrentLocalVariable) /\ Len(generator.context) >= 2
    BY <2>2, <2>3 DEF Body
  <2>6. generator.context # <<>>
    BY <2>5 DEF Sound
  <2>7. /\ Generation(generator')
        /\ generator'.context = popScope(generator.context)
        /\ Len(generator'.context) = Len(generator.context) - 1
        /\ generator'.indexCurrentLocalVariable = generator.indexCurrentLocalVariable
    BY <2>1, <2>2, <2>6, PopGeneration
  <2>8. Sound(popScope(generator.context), generator.indexCurrentLocalVariable)
    BY <2>5, PopIsSound
  <2>9. Sound(generator'.context, generator'.indexCurrentLocalVariable)
    BY <2>7, <2>8
  <2>10. Body(analysis', generator')
    BY <2>1, <2>2, <2>3, <2>4, <2>7, <2>9 DEF Body
  <2>11. stage' = "body" /\ statements' \in 0 .. MaxStatements
    BY <2>1, MaxStatementsAssumption DEF Inv, Goes
  <2> QED BY <2>4, <2>7, <2>10, <2>11 DEF Inv, Analysis, Generation, Body
<1> QED BY <1>1, <1>2

LEMMA FinishKeepsInv ==
  ASSUME Inv, Finish
  PROVE  Inv'
<1>1. CASE Rejected
  BY <1>1, RejectedKeepsInv
<1>2. CASE ~Rejected
  <2> DEFINE g == [generator EXCEPT !.context = popScope(@)]
  <2>1. /\ stage = "body" /\ Len(analysis.scopesDeclarations) = 2
        /\ stage' = "done" /\ statements' = statements
        /\ analysis' = [analysis EXCEPT !.scopesDeclarations = popScope(@)]
    BY <1>2 DEF Finish
  <2>2. Analysis(analysis) /\ Body(analysis, generator) /\ Generation(generator)
    BY <2>1 DEF Inv
  <2>3. Analysis(analysis')
    BY <2>1, <2>2, PopAnalysis
  <2>4. generator.context # <<>> /\ Len(generator.context) = 3
    BY <2>1, <2>2 DEF Body, Sound
  <2>5. Generation(g) /\ Len(g.context) = Len(generator.context) - 1
    BY <2>2, <2>4, PopGeneration
  <2>6. generator' = [g EXCEPT !.context = popScope(@)]
    <3>1. generator' = [generator EXCEPT !.context = popScope(popScope(@))]
      BY <1>2 DEF Finish
    <3>2. PICK S : generator \in [context : Seq(S), indexCurrentLocalVariable : Nat]
      BY <2>2 DEF Generation
    <3> QED BY <3>1, <3>2
  <2> HIDE DEF g
  <2>7. g.context # <<>>
    BY <2>4, <2>5, EmptySeq
  <2>8. Generation(generator')
    BY <2>5, <2>6, <2>7, PopGeneration
  <2> QED BY <2>1, <2>3, <2>8 DEF Inv, Analysis, Generation
<1> QED BY <1>1, <1>2

LEMMA StepKeepsInv == Inv /\ [Next]_vars => Inv'
<1> SUFFICES ASSUME Inv, [Next]_vars PROVE Inv'
  OBVIOUS
<1>1. \A x \in Targets : <<x>> \in Seq(Targets)
  OBVIOUS
<1>2. \A x, y \in Targets : <<x, y>> \in Seq(Targets)
  OBVIOUS
<1>3. CASE \E ps \in ParameterLists : Begin(ps)
  BY <1>3, BeginKeepsInv
<1>4. CASE \E x \in Targets, e \in Expressions :
             \/ \E type \in Types \cup {NoType} : Declare(<<x>>, type, <<e>>, FALSE)
             \/ Declare(<<x>>, NoType, <<e>>, TRUE)
             \/ ShortDeclare(<<x>>, <<e>>)
  <2> PICK x \in Targets, e \in Expressions :
        \/ \E type \in Types \cup {NoType} : Declare(<<x>>, type, <<e>>, FALSE)
        \/ Declare(<<x>>, NoType, <<e>>, TRUE)
        \/ ShortDeclare(<<x>>, <<e>>)
    BY <1>4
  <2>1. CASE \E type \in Types \cup {NoType} : Declare(<<x>>, type, <<e>>, FALSE)
    <3> PICK type \in Types \cup {NoType} : Declare(<<x>>, type, <<e>>, FALSE)
      BY <2>1
    <3> QED BY <1>1, DeclareKeepsInv
  <2>2. CASE Declare(<<x>>, NoType, <<e>>, TRUE)
    BY <1>1, <2>2, DeclareKeepsInv
  <2>3. CASE ShortDeclare(<<x>>, <<e>>)
    BY <1>1, <2>3, ShortDeclareKeepsInv
  <2> QED BY <2>1, <2>2, <2>3
<1>5. CASE \E x, y \in Targets, es \in PairValues :
             Declare(<<x, y>>, NoType, es, FALSE) \/ ShortDeclare(<<x, y>>, es)
  <2> PICK x \in Targets, y \in Targets, es \in PairValues :
        Declare(<<x, y>>, NoType, es, FALSE) \/ ShortDeclare(<<x, y>>, es)
    BY <1>5
  <2>1. CASE Declare(<<x, y>>, NoType, es, FALSE)
    BY <1>2, <2>1, DeclareKeepsInv
  <2>2. CASE ShortDeclare(<<x, y>>, es)
    BY <1>2, <2>2, ShortDeclareKeepsInv
  <2> QED BY <2>1, <2>2
<1>6. CASE \E x \in Targets, type \in Types : Declare(<<x>>, type, <<>>, FALSE)
  <2> PICK x \in Targets, type \in Types : Declare(<<x>>, type, <<>>, FALSE)
    BY <1>6
  <2> QED BY <1>1, DeclareKeepsInv
<1>7. CASE \E x \in ProgramIds \cup {Blank}, e \in Expressions : Assign(x, e)
  BY <1>7, AssignKeepsInv
<1>8. CASE \E e \in Expressions : UseVariable(e)
  BY <1>8, UseVariableKeepsInv
<1>9. CASE OpenBlock
  BY <1>9, OpenBlockKeepsInv
<1>10. CASE CloseBlock
  BY <1>10, CloseBlockKeepsInv
<1>11. CASE Finish
  BY <1>11, FinishKeepsInv
<1>12. CASE UNCHANGED vars
  BY <1>12 DEF vars, Inv, Analysis, Generation, Signature, Body
<1> QED BY <1>3, <1>4, <1>5, <1>6, <1>7, <1>8, <1>9, <1>10, <1>11, <1>12 DEF Next

LEMMA Invariance == Spec => []Inv
BY InitIsSound, StepKeepsInv, PTL DEF Spec

-----------------------------------------------------------------------------
(* What follows.                                                           *)

(* The counters are numbers, and the generator always has one scope more   *)
(* than the analysis in the body of a function, for every function.        *)
THEOREM TypeCorrect == Spec => []TypeOK
<1>1. Inv => TypeOK
  <2> SUFFICES ASSUME Inv PROVE TypeOK
    OBVIOUS
  <2>1. analysis.numberLocalVariables \in Nat
    BY DEF Inv, Analysis
  <2>2. generator.indexCurrentLocalVariable \in Nat
    BY DEF Inv, Generation
  <2> QED BY <2>1, <2>2 DEF Inv, TypeOK, Body
<1> QED BY <1>1, Invariance, PTL

(* However long a function is, and whatever it declares, every slot that   *)
(* the generator has given away, and the next one, is in the frame whose   *)
(* size the analysis has counted (types_visitor.cpp and codegen.cpp count  *)
(* independently of each other).                                           *)
THEOREM FrameIsLargeEnough == Spec => []LocalsFit
<1>1. Inv => LocalsFit
  BY DEF Inv, LocalsFit, Body, Sound, SlotsBelow
<1> QED BY <1>1, Invariance, PTL

(* As long as a function has no more variables than the one byte of a load *)
(* can number, two declarations in scope never share a slot of the frame.  *)
THEOREM SlotsAreDistinct == Spec => []NoSharedSlot
<1>1. Inv => NoSharedSlot
  <2> SUFFICES ASSUME Inv, stage = "body", analysis.numberLocalVariables <= SlotLimit
               PROVE  \A c, d \in DOMAIN generator.context :
                        \A x \in LocalRefs(generator.context[c]), y \in LocalRefs(generator.context[d]) :
                          Slot(generator.context[c][x]) = Slot(generator.context[d][y]) => c = d /\ x = y
    BY DEF NoSharedSlot
  <2>1. Body(analysis, generator)
    BY DEF Inv
  <2>2. /\ generator.indexCurrentLocalVariable \in Nat
        /\ analysis.numberLocalVariables \in Nat
        /\ generator.indexCurrentLocalVariable <= SlotLimit
    BY <2>1, SlotLimitAssumption DEF Body, Sound, Inv, Analysis
  <2>3. ASSUME NEW d \in DOMAIN generator.context, NEW x \in LocalRefs(generator.context[d])
        PROVE  Slot(generator.context[d][x]) = generator.context[d][x].index
    <3>1. /\ generator.context[d][x].index \in Nat
          /\ generator.context[d][x].index < generator.indexCurrentLocalVariable
      BY <2>1, <2>3 DEF Body, Sound, SlotsBelow
    <3>2. \A i \in Nat : i < SlotLimit => i % SlotLimit = i
      BY SlotLimitAssumption
    <3>3. generator.context[d][x].index < SlotLimit
      BY <2>2, <3>1, SlotLimitAssumption
    <3> QED BY <3>1, <3>2, <3>3 DEF Slot
  <2>4. SlotsDiffer(generator.context)
    BY <2>1 DEF Body, Sound
  <2> QED BY <2>3, <2>4 DEF SlotsDiffer
<1> QED BY <1>1, Invariance, PTL

-----------------------------------------------------------------------------
(* What the analysis knows of a variable fits what Go knows of it.  It     *)
(* knows all of it if exact, unless a short declaration made it forget.    *)
Fits(e, v, exact) ==
  /\ e \in [type : {v.value.type}, isConst : {v.isConst}, isArgument : BOOLEAN, used : BOOLEAN]
  /\ v \in [value : {v.value}, isConst : BOOLEAN, isArgument : BOOLEAN, used : BOOLEAN]
  /\ e.used => v.used
  /\ e.isArgument => v.isArgument
  /\ exact => (v.used => e.used) /\ (v.isArgument => e.isArgument)

Matches(scopes, blocks, exact) ==
  /\ \E S : scopes \in Seq(S)
  /\ \E S : blocks \in Seq(S)
  /\ blocks # <<>>
  /\ Len(scopes) = Len(blocks)
  /\ \A d \in 1 .. Len(blocks) :
       /\ DOMAIN scopes[d] = DOMAIN blocks[d]
       /\ \A x \in DOMAIN blocks[d] : Fits(scopes[d][x], blocks[d][x], exact)

Exact(met) == "redeclares" \notin met

(* The rules that the compiler does not check.                             *)
Lenient == {"nothing new", "reassigned", "repeated", "repeated parameter"}

Named ==
  /\ stage = "signature" => go.broken = {}
  /\ stage \in {"signature", "body"} /\ go.broken = {} =>
       Matches(analysis.scopesDeclarations, go.scopes, Exact(go.met))
  /\ stage # "rejected" => go.broken \subseteq Lenient
  /\ stage = "rejected" => go.broken # {} \/ ~Exact(go.met)

-----------------------------------------------------------------------------
(* What a name stands for.                                                 *)

LEMMA InnermostIs ==
  ASSUME NEW S, NEW scopes \in Seq(S), NEW x, Declares(scopes, x)
  PROVE  /\ Innermost(scopes, x) \in DOMAIN scopes
         /\ x \in DOMAIN scopes[Innermost(scopes, x)]
         /\ \A c \in DOMAIN scopes : x \in DOMAIN scopes[c] => c <= Innermost(scopes, x)
<1> DEFINE T == {d \in DOMAIN scopes : x \in DOMAIN scopes[d]}
<1>1. T \in SUBSET (1 .. Len(scopes)) /\ T # {} /\ Len(scopes) \in Nat /\ DOMAIN scopes = 1 .. Len(scopes)
  BY DEF Declares
<1>2. PICK d \in T : \A c \in T : c <= d
  <2> HIDE DEF T
  <2> QED BY <1>1, LastPosition
<1>3. \A c \in (d + 1) .. Len(scopes) : x \notin DOMAIN scopes[c]
  BY <1>1, <1>2
<1>4. /\ Innermost(scopes, x) \in DOMAIN scopes
      /\ x \in DOMAIN scopes[Innermost(scopes, x)]
      /\ \A c \in (Innermost(scopes, x) + 1) .. Len(scopes) : x \notin DOMAIN scopes[c]
  BY <1>2, <1>3 DEF Innermost
<1>5. \A c \in DOMAIN scopes : x \in DOMAIN scopes[c] => c <= Innermost(scopes, x)
  <2> DEFINE n == Innermost(scopes, x)
  <2>1. n \in 1 .. Len(scopes) /\ \A c \in (n + 1) .. Len(scopes) : x \notin DOMAIN scopes[c]
    BY <1>1, <1>4
  <2> HIDE DEF n
  <2>2. \A c \in 1 .. Len(scopes) : x \in DOMAIN scopes[c] => c <= n
    BY <1>1, <2>1
  <2> QED BY <1>1, <2>2 DEF n
<1> QED BY <1>4, <1>5

LEMMA HomeIs ==
  ASSUME NEW S, go.scopes \in Seq(S), NEW x, Visible(x) # {}
  PROVE  Home(x) \in Visible(x) /\ \A c \in Visible(x) : c <= Home(x)
<1>1. Visible(x) \in SUBSET (1 .. Len(go.scopes)) /\ Len(go.scopes) \in Nat
  BY DEF Visible
<1>2. PICK d \in Visible(x) : \A c \in Visible(x) : c <= d
  BY <1>1, LastPosition
<1> QED BY <1>2 DEF Home

(* Analysis and Go mean the same variable by a name.                       *)
LEMMA Resolution ==
  ASSUME NEW scopes, NEW exact, Matches(scopes, go.scopes, exact), NEW x
  PROVE  /\ Declares(scopes, x) <=> Visible(x) # {}
         /\ Visible(x) # {} => /\ Innermost(scopes, x) = Home(x)
                               /\ Home(x) \in 1 .. Len(go.scopes)
                               /\ x \in DOMAIN go.scopes[Home(x)]
                               /\ \A c \in Visible(x) : c <= Home(x)
                               /\ Fits(find(scopes, x), GoVariable(x), exact)
<1>1. PICK S : scopes \in Seq(S)
  BY DEF Matches
<1>2. PICK T : go.scopes \in Seq(T)
  BY DEF Matches
<1>3. DOMAIN scopes = 1 .. Len(go.scopes) /\ DOMAIN go.scopes = 1 .. Len(go.scopes)
  BY <1>1, <1>2, LenProperties DEF Matches
<1>4. \A d \in 1 .. Len(go.scopes) : DOMAIN scopes[d] = DOMAIN go.scopes[d]
  BY DEF Matches
<1>5. Visible(x) = {d \in DOMAIN scopes : x \in DOMAIN scopes[d]}
  BY <1>3, <1>4 DEF Visible
<1>6. Declares(scopes, x) <=> Visible(x) # {}
  BY <1>5 DEF Declares
<1>7. ASSUME Visible(x) # {}
      PROVE  /\ Innermost(scopes, x) = Home(x)
             /\ Home(x) \in 1 .. Len(go.scopes)
             /\ x \in DOMAIN go.scopes[Home(x)]
             /\ \A c \in Visible(x) : c <= Home(x)
             /\ Fits(find(scopes, x), GoVariable(x), exact)
  <2>1. Home(x) \in Visible(x) /\ \A c \in Visible(x) : c <= Home(x)
    BY <1>2, <1>7, HomeIs
  <2>2. Innermost(scopes, x) \in Visible(x) /\ \A c \in Visible(x) : c <= Innermost(scopes, x)
    BY <1>1, <1>5, <1>6, <1>7, InnermostIs
  <2>3. \A c \in Visible(x) : c \in Int
    BY <1>3 DEF Visible
  <2>4. Innermost(scopes, x) = Home(x)
    BY <2>1, <2>2, <2>3
  <2>5. Home(x) \in 1 .. Len(go.scopes) /\ x \in DOMAIN go.scopes[Home(x)]
    BY <1>3, <2>1 DEF Visible
  <2>6. Fits(scopes[Home(x)][x], go.scopes[Home(x)][x], exact)
    BY <2>5 DEF Matches
  <2> QED BY <2>1, <2>4, <2>5, <2>6 DEF find, GoVariable
<1> QED BY <1>6, <1>7

Evaluable(es) == \A i \in DOMAIN es : es[i] \in Expressions

LEMMA Kinds ==
  ASSUME NEW e \in Expressions
  PROVE  \/ e.kind = "literal" /\ e.value \in Literals
         \/ e.kind = "read" /\ e.name \in ProgramIds
BY DEF Expressions, Literal, Read

(* They agree on what is defined, and on types.                            *)
LEMMA SameTypes ==
  ASSUME NEW a, NEW exact, Matches(a.scopesDeclarations, go.scopes, exact), NEW es, Evaluable(es)
  PROVE  /\ Resolves(a, es) <=> Defined(es)
         /\ Defined(es) => \A i \in DOMAIN es : ExpressionType(a, es[i]) = GoValue(es[i]).type
<1>1. Resolves(a, es) <=> Defined(es)
  BY Resolution DEF Resolves, Defined
<1>2. ASSUME Defined(es), NEW i \in DOMAIN es
      PROVE  ExpressionType(a, es[i]) = GoValue(es[i]).type
  <2>1. CASE es[i].kind = "literal"
    BY <2>1 DEF ExpressionType, GoValue
  <2>2. CASE es[i].kind = "read"
    <3>1. Visible(es[i].name) # {}
      BY <1>2, <2>2 DEF Defined, ReadBy
    <3>2. Fits(find(a.scopesDeclarations, es[i].name), GoVariable(es[i].name), exact)
      BY <3>1, Resolution
    <3> QED BY <2>2, <3>2 DEF Fits, ExpressionType, GoValue
  <2> QED BY <2>1, <2>2, Kinds DEF Evaluable
<1> QED BY <1>1, <1>2

-----------------------------------------------------------------------------
(* What the statements do to the scopes keeps them matching.               *)

LEMMA FitsLess ==
  ASSUME NEW e, NEW v, NEW exact, Fits(e, v, exact), NEW less, less => exact
  PROVE  Fits(e, v, less)
BY DEF Fits

LEMMA MatchesLess ==
  ASSUME NEW scopes, NEW blocks, NEW exact, Matches(scopes, blocks, exact), NEW less, less => exact
  PROVE  Matches(scopes, blocks, less)
BY FitsLess DEF Matches

(* A use is a use for both.                                                *)
LEMMA UseMatches ==
  ASSUME NEW scopes, NEW exact, Matches(scopes, go.scopes, exact), NEW es
  PROVE  /\ Matches(Use(scopes, es), Used(es), exact)
         /\ Len(Used(es)) = Len(go.scopes)
         /\ \A d \in 1 .. Len(go.scopes) :
              /\ DOMAIN Used(es)[d] = DOMAIN go.scopes[d]
              /\ \A x \in DOMAIN go.scopes[d] :
                   /\ Used(es)[d][x].value = go.scopes[d][x].value
                   /\ Used(es)[d][x].isConst = go.scopes[d][x].isConst
<1> DEFINE block(d) == [x \in DOMAIN go.scopes[d] |->
                         IF x \in ReadBy(es) /\ d = Home(x)
                           THEN [go.scopes[d][x] EXCEPT !.used = TRUE] ELSE go.scopes[d][x]]
           scope(d) == [x \in DOMAIN scopes[d] |->
                         IF x \in ReadBy(es) /\ Innermost(scopes, x) = d
                           THEN [scopes[d][x] EXCEPT !.used = TRUE] ELSE scopes[d][x]]
           n == Len(go.scopes)
<1>1. PICK S : scopes \in Seq(S)
  BY DEF Matches
<1>2. PICK T : go.scopes \in Seq(T)
  BY DEF Matches
<1>3. DOMAIN scopes = 1 .. n /\ DOMAIN go.scopes = 1 .. n /\ n \in Nat
  BY <1>1, <1>2, LenProperties DEF Matches
<1>4. Used(es) = [d \in 1 .. n |-> block(d)] /\ Use(scopes, es) = [d \in 1 .. n |-> scope(d)]
  BY <1>3 DEF Used, Use
<1>5. ASSUME NEW d \in 1 .. n, NEW x \in DOMAIN go.scopes[d]
      PROVE  /\ x \in DOMAIN scopes[d]
             /\ Innermost(scopes, x) = Home(x)
             /\ Fits(scopes[d][x], go.scopes[d][x], exact)
  <2>1. Visible(x) # {}
    BY <1>3, <1>5 DEF Visible
  <2>2. x \in DOMAIN scopes[d] /\ Fits(scopes[d][x], go.scopes[d][x], exact)
    BY <1>5 DEF Matches
  <2> QED BY <2>1, <2>2, Resolution
<1>6. ASSUME NEW e, NEW v, Fits(e, v, exact)
      PROVE  /\ Fits([e EXCEPT !.used = TRUE], [v EXCEPT !.used = TRUE], exact)
             /\ [v EXCEPT !.used = TRUE].value = v.value
             /\ [v EXCEPT !.used = TRUE].isConst = v.isConst
  <2>1. /\ e \in [type : {v.value.type}, isConst : {v.isConst}, isArgument : BOOLEAN, used : BOOLEAN]
        /\ v \in [value : {v.value}, isConst : BOOLEAN, isArgument : BOOLEAN, used : BOOLEAN]
    BY <1>6 DEF Fits
  <2>2. /\ [v EXCEPT !.used = TRUE].value = v.value
        /\ [v EXCEPT !.used = TRUE].isConst = v.isConst
        /\ [v EXCEPT !.used = TRUE].isArgument = v.isArgument
        /\ [v EXCEPT !.used = TRUE].used = TRUE
        /\ [e EXCEPT !.used = TRUE].isArgument = e.isArgument
        /\ [e EXCEPT !.used = TRUE].used = TRUE
    BY <2>1
  <2>3. /\ [e EXCEPT !.used = TRUE] \in [type : {v.value.type}, isConst : {v.isConst}, isArgument : BOOLEAN, used : BOOLEAN]
        /\ [v EXCEPT !.used = TRUE] \in [value : {v.value}, isConst : BOOLEAN, isArgument : BOOLEAN, used : BOOLEAN]
    BY <2>1
  <2> QED BY <1>6, <2>2, <2>3 DEF Fits
<1>7. ASSUME NEW d \in 1 .. n
      PROVE  DOMAIN scope(d) = DOMAIN block(d) /\ DOMAIN block(d) = DOMAIN go.scopes[d]
  BY <1>7 DEF Matches
<1>8. ASSUME NEW d \in 1 .. n, NEW x \in DOMAIN go.scopes[d]
      PROVE  /\ Fits(scope(d)[x], block(d)[x], exact)
             /\ block(d)[x].value = go.scopes[d][x].value
             /\ block(d)[x].isConst = go.scopes[d][x].isConst
  <2>1. CASE x \in ReadBy(es) /\ d = Home(x)
    <3>1. scope(d)[x] = [scopes[d][x] EXCEPT !.used = TRUE] /\ block(d)[x] = [go.scopes[d][x] EXCEPT !.used = TRUE]
      BY <1>5, <1>8, <2>1
    <3> HIDE DEF scope, block
    <3> QED BY <1>5, <1>6, <1>8, <3>1
  <2>2. CASE ~(x \in ReadBy(es) /\ d = Home(x))
    <3>1. scope(d)[x] = scopes[d][x] /\ block(d)[x] = go.scopes[d][x]
      BY <1>5, <1>8, <2>2
    <3> HIDE DEF scope, block
    <3> QED BY <1>5, <1>8, <3>1
  <2> QED BY <2>1, <2>2
<1> HIDE DEF scope, block
<1>9. /\ Use(scopes, es) \in Seq({scope(d) : d \in 1 .. n})
      /\ Used(es) \in Seq({block(d) : d \in 1 .. n})
      /\ Len(Use(scopes, es)) = n /\ Len(Used(es)) = n
      /\ \A d \in 1 .. n : Use(scopes, es)[d] = scope(d) /\ Used(es)[d] = block(d)
  BY <1>3, <1>4
<1>10. n # 0
  BY <1>2 DEF Matches
<1>11. Used(es) # <<>>
  BY <1>9, <1>10, EmptySeq
<1> QED BY <1>7, <1>8, <1>9, <1>11 DEF Matches

(* A block of Go gets new variables.                                       *)
LEMMA ExtendedIs ==
  ASSUME NEW S, NEW blocks \in Seq(S), blocks # <<>>, NEW new
  PROVE  /\ \E T : Extended(blocks, new) \in Seq(T)
         /\ Len(Extended(blocks, new)) = Len(blocks)
         /\ \A d \in 1 .. Len(blocks) : d # Len(blocks) => Extended(blocks, new)[d] = blocks[d]
         /\ Extended(blocks, new)[Len(blocks)] =
              [x \in DOMAIN blocks[Len(blocks)] \cup DOMAIN new |->
                IF x \in DOMAIN new THEN new[x] ELSE blocks[Len(blocks)][x]]
<1> DEFINE last == [x \in DOMAIN blocks[Len(blocks)] \cup DOMAIN new |->
                     IF x \in DOMAIN new THEN new[x] ELSE blocks[Len(blocks)][x]]
<1>1. Extended(blocks, new) = [blocks EXCEPT ![Len(blocks)] = last]
  BY DEF Extended
<1> HIDE DEF last
<1>2. Len(blocks) \in 1 .. Len(blocks)
  BY EmptySeq
<1>3. blocks \in Seq(S \cup {last}) /\ last \in S \cup {last}
  BY SeqMonotonic
<1>4. /\ [blocks EXCEPT ![Len(blocks)] = last] \in Seq(S \cup {last})
      /\ Len([blocks EXCEPT ![Len(blocks)] = last]) = Len(blocks)
      /\ \A d \in 1 .. Len(blocks) :
           [blocks EXCEPT ![Len(blocks)] = last][d] = IF d = Len(blocks) THEN last ELSE blocks[d]
  BY <1>2, <1>3, ExceptSeq
<1>5. Extended(blocks, new)[Len(blocks)] = last
  BY <1>1, <1>2, <1>4
<1> QED BY <1>1, <1>4, <1>5 DEF last

(* Declarations that fit are added to the scopes of both.                  *)
LEMMA DeclarationMatches ==
  ASSUME NEW scopes, NEW blocks, NEW exact, Matches(scopes, blocks, exact),
         NEW ids, NEW entities, NEW new, DOMAIN new = AddedNames(ids),
         \A x \in AddedNames(ids) : Fits(entities[AddedLast(ids, x)], new[x], exact)
  PROVE  Matches(addAll(scopes, ids, entities), Extended(blocks, new), exact)
<1> DEFINE as == addAll(scopes, ids, entities)
           gs == Extended(blocks, new)
           n == Len(blocks)
<1>1. PICK S : scopes \in Seq(S)
  BY DEF Matches
<1>2. PICK T : blocks \in Seq(T)
  BY DEF Matches
<1>3. blocks # <<>> /\ Len(scopes) = n
  BY DEF Matches
<1>4. n \in 1 .. n /\ scopes # <<>>
  BY <1>1, <1>2, <1>3, EmptySeq
<1>5. /\ \E U : as \in Seq(U)
      /\ Len(as) = n
      /\ \A d \in 1 .. n : d # n => as[d] = scopes[d]
      /\ as[n] = [x \in DOMAIN scopes[n] \cup AddedNames(ids) |->
                    IF x \in AddedNames(ids) THEN entities[AddedLast(ids, x)] ELSE scopes[n][x]]
  <2>1. /\ \E U : addAll(scopes, ids, entities) \in Seq(U)
        /\ Len(addAll(scopes, ids, entities)) = Len(scopes)
        /\ \A d \in 1 .. Len(scopes) : d # Len(scopes) => addAll(scopes, ids, entities)[d] = scopes[d]
        /\ addAll(scopes, ids, entities)[Len(scopes)] =
             [x \in DOMAIN scopes[Len(scopes)] \cup AddedNames(ids) |->
               IF x \in AddedNames(ids) THEN entities[AddedLast(ids, x)] ELSE scopes[Len(scopes)][x]]
    BY <1>1, <1>4, AddAll
  <2> HIDE DEF n
  <2> QED BY <1>3, <2>1
<1>6. /\ \E U : gs \in Seq(U)
      /\ Len(gs) = n
      /\ \A d \in 1 .. n : d # n => gs[d] = blocks[d]
      /\ gs[n] = [x \in DOMAIN blocks[n] \cup AddedNames(ids) |->
                    IF x \in AddedNames(ids) THEN new[x] ELSE blocks[n][x]]
  <2>1. /\ \E U : Extended(blocks, new) \in Seq(U)
        /\ Len(Extended(blocks, new)) = Len(blocks)
        /\ \A d \in 1 .. Len(blocks) : d # Len(blocks) => Extended(blocks, new)[d] = blocks[d]
        /\ Extended(blocks, new)[Len(blocks)] =
             [x \in DOMAIN blocks[Len(blocks)] \cup DOMAIN new |->
               IF x \in DOMAIN new THEN new[x] ELSE blocks[Len(blocks)][x]]
    BY <1>2, <1>3, ExtendedIs
  <2> QED BY <2>1
<1> HIDE DEF as, gs
<1>7. ASSUME NEW d \in 1 .. n
      PROVE  /\ DOMAIN as[d] = DOMAIN gs[d]
             /\ \A x \in DOMAIN gs[d] : Fits(as[d][x], gs[d][x], exact)
  <2>1. DOMAIN scopes[d] = DOMAIN blocks[d] /\ \A x \in DOMAIN blocks[d] : Fits(scopes[d][x], blocks[d][x], exact)
    BY DEF Matches
  <2> HIDE DEF n
  <2>2. CASE d = n
    <3>1. DOMAIN as[d] = DOMAIN gs[d] /\ DOMAIN gs[d] = DOMAIN blocks[n] \cup AddedNames(ids)
      BY <1>5, <1>6, <2>1, <2>2
    <3>2. ASSUME NEW x \in AddedNames(ids)
          PROVE  as[d][x] = entities[AddedLast(ids, x)] /\ gs[d][x] = new[x]
      BY <1>5, <1>6, <2>2
    <3>3. ASSUME NEW x \in DOMAIN blocks[n], x \notin AddedNames(ids)
          PROVE  as[d][x] = scopes[d][x] /\ gs[d][x] = blocks[d][x]
      BY <1>5, <1>6, <2>1, <2>2, <3>3
    <3> QED BY <2>1, <2>2, <3>1, <3>2, <3>3
  <2>3. CASE d # n
    BY <1>5, <1>6, <2>1, <2>3
  <2> QED BY <2>2, <2>3
<1>8. gs # <<>>
  BY <1>4, <1>6, EmptySeq
<1> QED BY <1>5, <1>6, <1>7, <1>8 DEF Matches, as, gs

(* A scope and a block that fit are added.                                 *)
LEMMA AppendMatches ==
  ASSUME NEW scopes, NEW blocks, NEW exact, Matches(scopes, blocks, exact),
         NEW S, NEW as \in Seq(S), NEW block,
         Len(as) = Len(scopes) + 1,
         \A d \in 1 .. Len(scopes) : as[d] = scopes[d],
         DOMAIN as[Len(scopes) + 1] = DOMAIN block,
         \A x \in DOMAIN block : Fits(as[Len(scopes) + 1][x], block[x], exact)
  PROVE  Matches(as, Append(blocks, block), exact)
<1> DEFINE n == Len(blocks)
           gs == Append(blocks, block)
<1>1. PICK T : blocks \in Seq(T)
  BY DEF Matches
<1>2. n \in Nat /\ Len(scopes) = n
  BY <1>1, LenProperties DEF Matches
<1>3. blocks \in Seq(T \cup {block}) /\ block \in T \cup {block}
  BY <1>1
<1>4. /\ gs \in Seq(T \cup {block})
      /\ Len(gs) = n + 1
      /\ \A d \in 1 .. n : gs[d] = blocks[d]
      /\ gs[n + 1] = block
      /\ gs # <<>>
  BY <1>3, AppendProperties
<1> HIDE DEF gs
<1>5. ASSUME NEW d \in 1 .. (n + 1)
      PROVE  /\ DOMAIN as[d] = DOMAIN gs[d]
             /\ \A x \in DOMAIN gs[d] : Fits(as[d][x], gs[d][x], exact)
  <2>1. CASE d = n + 1
    BY <1>2, <1>4, <2>1
  <2>2. CASE d # n + 1
    <3>1. d \in 1 .. n
      BY <1>2, <2>2
    <3>2. d \in 1 .. Len(scopes)
      BY <1>2, <3>1
    <3>3. as[d] = scopes[d]
      BY <3>2
    <3>4. gs[d] = blocks[d]
      BY <1>4, <3>1
    <3> QED BY <3>1, <3>3, <3>4 DEF Matches
  <2> QED BY <2>1, <2>2
<1> QED BY <1>2, <1>4, <1>5 DEF Matches, gs

LEMMA PushMatches ==
  ASSUME NEW scopes, NEW blocks, NEW exact, Matches(scopes, blocks, exact)
  PROVE  Matches(pushScope(scopes), Append(blocks, NoNames), exact)
<1>1. PICK S : scopes \in Seq(S)
  BY DEF Matches
<1>2. /\ pushScope(scopes) \in Seq(S \cup {NoNames})
      /\ Len(pushScope(scopes)) = Len(scopes) + 1
      /\ \A d \in 1 .. Len(scopes) : pushScope(scopes)[d] = scopes[d]
      /\ pushScope(scopes)[Len(scopes) + 1] = NoNames
  BY <1>1, PushScope
<1>3. DOMAIN NoNames = {}
  BY DEF NoNames
<1> QED BY <1>2, <1>3, AppendMatches

LEMMA PopMatches ==
  ASSUME NEW scopes, NEW blocks, NEW exact, Matches(scopes, blocks, exact), Len(scopes) >= 2
  PROVE  Matches(popScope(scopes), SubSeq(blocks, 1, Len(blocks) - 1), exact)
<1>1. PICK S : scopes \in Seq(S)
  BY DEF Matches
<1>2. PICK T : blocks \in Seq(T)
  BY DEF Matches
<1>3. Len(scopes) = Len(blocks) /\ Len(blocks) \in Nat /\ scopes # <<>> /\ blocks # <<>>
  BY <1>1, <1>2, LenProperties, EmptySeq DEF Matches
<1>4. /\ popScope(scopes) \in Seq(S)
      /\ Len(popScope(scopes)) = Len(scopes) - 1
      /\ \A d \in 1 .. (Len(scopes) - 1) : popScope(scopes)[d] = scopes[d]
  BY <1>1, <1>3, PopScope
<1>5. /\ popScope(blocks) \in Seq(T)
      /\ Len(popScope(blocks)) = Len(blocks) - 1
      /\ \A d \in 1 .. (Len(blocks) - 1) : popScope(blocks)[d] = blocks[d]
  BY <1>2, <1>3, PopScope
<1>6. popScope(blocks) # <<>>
  BY <1>3, <1>5, EmptySeq
<1>7. ASSUME NEW d \in 1 .. (Len(blocks) - 1)
      PROVE  /\ DOMAIN popScope(scopes)[d] = DOMAIN popScope(blocks)[d]
             /\ \A x \in DOMAIN popScope(blocks)[d] :
                  Fits(popScope(scopes)[d][x], popScope(blocks)[d][x], exact)
  <2>1. d \in 1 .. Len(blocks) /\ popScope(scopes)[d] = scopes[d] /\ popScope(blocks)[d] = blocks[d]
    BY <1>3, <1>4, <1>5
  <2> QED BY <2>1 DEF Matches
<1>8. Matches(popScope(scopes), popScope(blocks), exact)
  BY <1>3, <1>4, <1>5, <1>6, <1>7 DEF Matches
<1> QED BY <1>8 DEF popScope

(* What the names of a list are declared as.                               *)
LEMMA DeclaredNames ==
  ASSUME NEW ids
  PROVE  /\ Declared(ids) = AddedNames(ids)
         /\ \A x \in Declared(ids) : Position(ids, x) \in DOMAIN ids /\ ids[Position(ids, x)] = x
BY DEF Declared, AddedNames, Added, Position

LEMMA LastIsPosition ==
  ASSUME NEW S, NEW ids \in Seq(S), Distinct(ids), NEW x \in Declared(ids)
  PROVE  AddedLast(ids, x) = Position(ids, x)
<1>1. /\ AddedLast(ids, x) \in Added(ids)
      /\ ids[AddedLast(ids, x)] = x
  BY DeclaredNames, AddedLastIs DEF AddedNames
<1>2. Position(ids, x) \in DOMAIN ids /\ ids[Position(ids, x)] = x
  BY DeclaredNames
<1>3. x # Blank
  BY DEF Declared
<1>4. AddedLast(ids, x) \in 1 .. Len(ids) /\ Position(ids, x) \in 1 .. Len(ids) /\ DOMAIN ids = 1 .. Len(ids)
  BY <1>1, <1>2 DEF Added
<1> DEFINE p == AddedLast(ids, x)
           q == Position(ids, x)
<1>5. p \in DOMAIN ids /\ q \in DOMAIN ids /\ ids[p] = ids[q] /\ ids[p] # Blank /\ p \in Int /\ q \in Int
  BY <1>1, <1>2, <1>3, <1>4
<1> HIDE DEF p, q
<1>6. ~(p < q) /\ ~(q < p)
  BY <1>5 DEF Distinct
<1>7. p = q
  BY <1>5, <1>6
<1> QED BY <1>7 DEF p, q

-----------------------------------------------------------------------------
(* The errors of the analysis are the rules of Go that a statement breaks. *)

LEMMA DeclarationErrors ==
  ASSUME NEW a, NEW exact, Matches(a.scopesDeclarations, go.scopes, exact),
         NEW S, NEW ids \in Seq(S), NEW type, NEW es, Evaluable(es), NEW isConst \in BOOLEAN
  PROVE  VariableErrors(a, ids, type, es, isConst) <=> DeclarationBreaks(ids, type, es, isConst) # {}
<1>1. Resolves(a, es) <=> Defined(es)
  BY SameTypes
<1>2. CASE ~Defined(es)
  BY <1>1, <1>2 DEF VariableErrors, DeclarationBreaks
<1>3. CASE Defined(es)
  <2>1. DOMAIN LastScope(a.scopesDeclarations) = DOMAIN go.scopes[Block]
    <3>1. PICK T : go.scopes \in Seq(T)
      BY DEF Matches
    <3>2. Len(a.scopesDeclarations) = Len(go.scopes) /\ Len(go.scopes) \in 1 .. Len(go.scopes)
      BY <3>1, EmptySeq DEF Matches
    <3> QED BY <3>2 DEF Matches, LastScope, Block
  <2>2. Redeclares(a, ids) <=> ~(Distinct(ids) /\ \A i \in DOMAIN ids : ~InScope(ids[i]))
    <3>1. DOMAIN ids \subseteq Int
      OBVIOUS
    <3>2. Distinct(ids) <=> ~ \E i \in DOMAIN ids : ids[i] # Blank /\ \E j \in 1 .. (i - 1) : ids[j] = ids[i]
      BY DEF Distinct
    <3> QED BY <2>1, <3>2 DEF Redeclares, InScope
  <2>3. (type # NoType /\ \E i \in DOMAIN es : ExpressionType(a, es[i]) # type)
          <=> ~ \A i \in DOMAIN es : type \in {NoType, GoValue(es[i]).type}
    <3>1. \A i \in DOMAIN es : ExpressionType(a, es[i]) = GoValue(es[i]).type
      BY <1>3, SameTypes
    <3>2. \A i \in DOMAIN es : (type # NoType /\ ExpressionType(a, es[i]) # type)
                                <=> ~(type \in {NoType, GoValue(es[i]).type})
      BY <3>1
    <3> QED BY <3>2
  <2>4. (\E i \in DOMAIN es : ~ConstExpression(a, es[i])) <=> ~ \A x \in ReadBy(es) : GoVariable(x).isConst
    <3>1. \A x \in ReadBy(es) : find(a.scopesDeclarations, x).isConst = GoVariable(x).isConst
      <4> TAKE x \in ReadBy(es)
      <4>1. Fits(find(a.scopesDeclarations, x), GoVariable(x), exact)
        BY <1>3, Resolution DEF Defined
      <4> QED BY <4>1 DEF Fits
    <3>2. (\E i \in DOMAIN es : ~ConstExpression(a, es[i]))
            <=> \E x \in ReadBy(es) : ~find(a.scopesDeclarations, x).isConst
      BY DEF ConstExpression, ReadBy
    <3> QED BY <3>1, <3>2
  <2> QED BY <1>1, <1>3, <2>2, <2>3, <2>4 DEF VariableErrors, DeclarationBreaks, Rule
<1> QED BY <1>2, <1>3

LEMMA AssignedErrors ==
  ASSUME NEW a, NEW exact, Matches(a.scopesDeclarations, go.scopes, exact),
         NEW x, NEW e \in Expressions
  PROVE  AssignmentErrors(a, x, e) <=> AssignmentBreaks(x, e) # {}
<1>1. Evaluable(<<e>>)
  BY DEF Evaluable
<1>2. Resolves(a, <<e>>) <=> Defined(<<e>>)
  BY <1>1, SameTypes
<1>3. Defined(<<e>>) => ExpressionType(a, e) = GoValue(e).type
  <2>1. Defined(<<e>>) => \A i \in DOMAIN <<e>> : ExpressionType(a, <<e>>[i]) = GoValue(<<e>>[i]).type
    BY <1>1, SameTypes
  <2>2. 1 \in DOMAIN <<e>> /\ <<e>>[1] = e
    OBVIOUS
  <2> QED BY <2>1, <2>2
<1>4. Declares(a.scopesDeclarations, x) <=> Visible(x) # {}
  BY Resolution
<1>5. Visible(x) # {} => /\ find(a.scopesDeclarations, x).isConst = GoVariable(x).isConst
                        /\ find(a.scopesDeclarations, x).type = GoVariable(x).value.type
  BY Resolution DEF Fits
<1>6. AssignmentErrors(a, x, e) <=>
        \/ ~Defined(<<e>>)
        \/ x # Blank /\ (\/ Visible(x) = {}
                         \/ GoVariable(x).isConst
                         \/ GoVariable(x).value.type # ExpressionType(a, e))
  BY <1>2, <1>4, <1>5 DEF AssignmentErrors
<1>7. AssignmentBreaks(x, e) # {} <=>
        \/ ~Defined(<<e>>)
        \/ x # Blank /\ (\/ Visible(x) = {}
                         \/ GoVariable(x).isConst
                         \/ GoVariable(x).value.type # GoValue(e).type)
  BY DEF AssignmentBreaks, Rule
<1> QED BY <1>3, <1>6, <1>7

(* A variable that the analysis takes for unused is unused for Go, unless  *)
(* the analysis forgot a use.                                              *)
LEMMA UnusedVariables ==
  ASSUME NEW a, NEW exact, Matches(a.scopesDeclarations, go.scopes, exact)
  PROVE  /\ ~UnusedErrors(a) => Unused = {}
         /\ exact /\ UnusedErrors(a) => Unused # {}
<1>1. PICK T : go.scopes \in Seq(T)
  BY DEF Matches
<1>2. Len(a.scopesDeclarations) = Len(go.scopes) /\ Len(go.scopes) \in 1 .. Len(go.scopes)
  BY <1>1, EmptySeq DEF Matches
<1> DEFINE scope == LastScope(a.scopesDeclarations)
           block == go.scopes[Block]
<1>3. DOMAIN scope = DOMAIN block /\ \A x \in DOMAIN block : Fits(scope[x], block[x], exact)
  BY <1>2 DEF Matches, LastScope, Block
<1>4. UnusedErrors(a) <=> \E x \in DOMAIN scope : ~scope[x].used /\ ~scope[x].isArgument /\ ~scope[x].isConst
  BY DEF UnusedErrors
<1>5. Unused = {x \in DOMAIN block : ~block[x].used /\ ~block[x].isConst /\ ~block[x].isArgument}
  BY DEF Unused
<1> HIDE DEF scope, block
<1>6. ASSUME NEW x \in DOMAIN block
      PROVE  /\ scope[x].isConst <=> block[x].isConst
             /\ scope[x].used => block[x].used
             /\ scope[x].isArgument => block[x].isArgument
             /\ exact => (block[x].used => scope[x].used) /\ (block[x].isArgument => scope[x].isArgument)
  BY <1>3 DEF Fits
<1>7. ASSUME ~UnusedErrors(a), NEW x \in DOMAIN block
      PROVE  block[x].used \/ block[x].isConst \/ block[x].isArgument
  <2>1. scope[x].used \/ scope[x].isArgument \/ scope[x].isConst
    BY <1>3, <1>4, <1>7
  <2>2. /\ scope[x].isConst => block[x].isConst
        /\ scope[x].used => block[x].used
        /\ scope[x].isArgument => block[x].isArgument
    BY <1>6, <1>7
  <2> QED BY <2>1, <2>2
<1>8. ASSUME exact, UnusedErrors(a)
      PROVE  \E x \in DOMAIN block : ~block[x].used /\ ~block[x].isConst /\ ~block[x].isArgument
  <2>1. PICK x \in DOMAIN scope : ~scope[x].used /\ ~scope[x].isArgument /\ ~scope[x].isConst
    BY <1>4, <1>8
  <2>2. x \in DOMAIN block
    BY <1>3
  <2>3. /\ block[x].isConst => scope[x].isConst
        /\ block[x].used => scope[x].used
        /\ block[x].isArgument => scope[x].isArgument
    BY <1>6, <1>8, <2>2
  <2> QED BY <2>1, <2>2, <2>3
<1> QED BY <1>5, <1>7, <1>8

LEMMA GoSteps ==
  ASSUME NEW broken, NEW met, NEW scopes
  PROVE  LET next == GoStep(broken, met, scopes)
         IN  /\ go.broken # {} => next = go
             /\ go.broken = {} => next.broken = broken
             /\ go.broken = {} /\ broken = {} => next.scopes = scopes /\ next.met = go.met \cup met
BY DEF GoStep

-----------------------------------------------------------------------------
(* Each step keeps the invariant.                                          *)

LEMMA OneMatches ==
  ASSUME NEW scope, NEW block, NEW exact, DOMAIN scope = DOMAIN block,
         \A x \in DOMAIN block : Fits(scope[x], block[x], exact)
  PROVE  Matches(<<scope>>, <<block>>, exact)
<1>1. <<scope>> \in Seq({scope}) /\ <<block>> \in Seq({block})
  OBVIOUS
<1>2. Len(<<scope>>) = 1 /\ Len(<<block>>) = 1 /\ <<scope>>[1] = scope /\ <<block>>[1] = block /\ <<block>> # <<>>
  OBVIOUS
<1>3. \A d \in 1 .. Len(<<block>>) : d = 1
  BY <1>2
<1> QED BY <1>1, <1>2, <1>3 DEF Matches

LEMMA InitNamed == Init => Named
<1> SUFFICES ASSUME Init PROVE Named
  OBVIOUS
<1> DEFINE scope == [x \in FieldIds |-> VariableEntity(Fields[FieldIndex(x)].value.type, FALSE, FALSE)]
           block == [x \in FieldIds |-> Variable(Fields[FieldIndex(x)].value, FALSE, FALSE)]
<1>1. analysis.scopesDeclarations = <<scope>> /\ go.scopes = <<block>> /\ go.broken = {} /\ stage = "signature"
  BY DEF Init, GoInit
<1>2. DOMAIN scope = DOMAIN block /\ \A x \in DOMAIN block : Fits(scope[x], block[x], Exact(go.met))
  BY DEF Fits, VariableEntity, Variable
<1> HIDE DEF scope, block
<1>3. Matches(<<scope>>, <<block>>, Exact(go.met))
  BY <1>2, OneMatches
<1> QED BY <1>1, <1>3 DEF Named

LEMMA RejectedNamed ==
  ASSUME Rejected, go'.broken # {} \/ ~Exact(go'.met)
  PROVE  Named'
BY DEF Rejected, Named

(* In a function that has broken a rule only uses of variables and the end *)
(* are left.                                                               *)
LEMMA BrokenNamed ==
  ASSUME Named, stage \in {"body", "done"}, go.broken # {}, go' = go, stage' \in {"body", "done", "rejected"}
  PROVE  Named'
BY DEF Named

LEMMA MatchedNamed ==
  ASSUME stage' = "body", go'.broken = {},
         NEW exact, Matches(analysis'.scopesDeclarations, go'.scopes, exact), Exact(go'.met) => exact
  PROVE  Named'
<1>1. PICK scopes : scopes = analysis'.scopesDeclarations
  OBVIOUS
<1>2. PICK blocks : blocks = go'.scopes
  OBVIOUS
<1>3. PICK less : less = Exact(go'.met)
  OBVIOUS
<1>4. Matches(scopes, blocks, less)
  BY <1>1, <1>2, <1>3, MatchesLess
<1>5. Matches(analysis'.scopesDeclarations, go'.scopes, Exact(go'.met))
  BY <1>1, <1>2, <1>3, <1>4
<1> QED BY <1>5 DEF Named, Matches, Exact

(* The scopes after a declaration.                                         *)
Entities(ids, types, isConst) == [i \in DOMAIN ids |-> VariableEntity(types[i], isConst, FALSE)]

LEMMA EnteredScopes ==
  ASSUME NEW a, Analysis(a), NEW ids, NEW es, NEW types, NEW isConst
  PROVE  Entered(Count(Visited(a, es), ids), ids, types, isConst).scopesDeclarations =
           addAll(Use(a.scopesDeclarations, es), ids, Entities(ids, types, isConst))
<1>1. PICK S : a \in [scopesDeclarations : Seq(S), numberLocalVariables : Nat]
  BY DEF Analysis
<1> DEFINE entities == Entities(ids, types, isConst)
           used == Use(a.scopesDeclarations, es)
           size == Cardinality(Added(ids))
<1>2. Entered(Count(Visited(a, es), ids), ids, types, isConst) =
        [[[a EXCEPT !.scopesDeclarations = used]
            EXCEPT !.numberLocalVariables = @ + size]
            EXCEPT !.scopesDeclarations = addAll(@, ids, entities)]
  BY DEF Entered, Count, Visited, Entities
<1> HIDE DEF entities, used, size
<1>3. [[[a EXCEPT !.scopesDeclarations = used]
            EXCEPT !.numberLocalVariables = @ + size]
            EXCEPT !.scopesDeclarations = addAll(@, ids, entities)].scopesDeclarations
        = addAll(used, ids, entities)
  BY <1>1
<1> QED BY <1>2, <1>3 DEF entities, used

LEMMA VisitedScopes ==
  ASSUME NEW a, Analysis(a), NEW es
  PROVE  Visited(a, es).scopesDeclarations = Use(a.scopesDeclarations, es)
<1>1. PICK S : a \in [scopesDeclarations : Seq(S), numberLocalVariables : Nat]
  BY DEF Analysis
<1> QED BY <1>1 DEF Visited

(* As many values as names, or none and a type.                            *)
Shaped(ids, type, es) == DOMAIN es = DOMAIN ids \/ (es = <<>> /\ type # NoType)

LEMMA DeclareNamed ==
  ASSUME Inv, Named, NEW S, NEW ids \in Seq(S), NEW type, NEW es, Evaluable(es), Shaped(ids, type, es),
         NEW isConst \in BOOLEAN, Declare(ids, type, es, isConst)
  PROVE  Named'
<1> DEFINE exact == Exact(go.met)
           scopes == analysis.scopesDeclarations
           met == Meets(ReadsZero(es), "reads zero")
                    \cup Meets(\E i \in DOMAIN ids : ids[i] \in ReadBy(es), "reads itself")
           new == DeclaredVariables(ids, type, es, isConst)
           types == DeclaredTypes(analysis, ids, type, es)
           entities == Entities(ids, types, isConst)
<1>1. stage = "body" /\ go.broken = {} /\ go' = GoStep(DeclarationBreaks(ids, type, es, isConst), met, Extended(Used(es), new))
  BY DEF Declare, Unbroken, InBody, GoDeclaration
<1>2. Matches(scopes, go.scopes, exact) /\ Analysis(analysis)
  BY <1>1 DEF Named, Inv
<1>3. VariableErrors(analysis, ids, type, es, isConst) <=> DeclarationBreaks(ids, type, es, isConst) # {}
  BY <1>2, DeclarationErrors
<1> HIDE DEF met, new, exact
<1>4. CASE VariableErrors(analysis, ids, type, es, isConst)
  <2>1. go'.broken # {} /\ Rejected
    BY <1>1, <1>3, <1>4, GoSteps DEF Declare
  <2> QED BY <2>1, RejectedNamed
<1>5. CASE ~VariableErrors(analysis, ids, type, es, isConst)
  <2>1. /\ stage' = "body"
        /\ analysis' = Entered(Count(Visited(analysis, es), ids), ids, types, isConst)
    BY <1>1, <1>5 DEF Declare, Goes, AnalyseVariable
  <2>2. DeclarationBreaks(ids, type, es, isConst) = {}
    BY <1>3, <1>5
  <2>3. go'.broken = {} /\ go'.scopes = Extended(Used(es), new) /\ go'.met = go.met \cup met
    BY <1>1, <2>2, GoSteps
  <2>4. /\ Defined(es) /\ Distinct(ids)
        /\ \A i \in DOMAIN es : type \in {NoType, GoValue(es[i]).type}
    BY <2>2 DEF DeclarationBreaks, Rule
  <2>5. analysis'.scopesDeclarations = addAll(Use(scopes, es), ids, entities)
    <3> HIDE DEF types
    <3>1. Entered(Count(Visited(analysis, es), ids), ids, types, isConst).scopesDeclarations =
            addAll(Use(analysis.scopesDeclarations, es), ids, Entities(ids, types, isConst))
      BY <1>2, EnteredScopes
    <3> QED BY <2>1, <3>1
  <2>6. \A i \in DOMAIN es : ExpressionType(analysis, es[i]) = GoValue(es[i]).type
    BY <1>2, <2>4, SameTypes
  <2>7. ASSUME NEW x \in AddedNames(ids)
        PROVE  Fits(entities[AddedLast(ids, x)], new[x], exact)
    <3> DEFINE p == Position(ids, x)
    <3>1. x \in Declared(ids) /\ p \in DOMAIN ids /\ AddedLast(ids, x) = p
      BY <2>4, DeclaredNames, LastIsPosition
    <3>2. new[x] = Variable(IF es = <<>> THEN Zero(type) ELSE GoValue(es[p]), isConst, FALSE)
      BY <3>1 DEF new, DeclaredVariables
    <3>3. entities[p] = VariableEntity(IF type # NoType THEN type ELSE ExpressionType(analysis, es[p]), isConst, FALSE)
      BY <3>1 DEF DeclaredTypes, Entities
    <3> HIDE DEF p, entities
    <3>4. CASE es = <<>>
      <4>1. type # NoType
        BY <3>1, <3>4 DEF Shaped
      <4>2. Zero(type).type = type
        BY DEF Zero
      <4> QED BY <3>1, <3>2, <3>3, <3>4, <4>1, <4>2 DEF Fits, Variable, VariableEntity
    <3>5. CASE es # <<>>
      <4>1. p \in DOMAIN es
        BY <3>1, <3>5 DEF Shaped
      <4>2. (IF type # NoType THEN type ELSE ExpressionType(analysis, es[p])) = GoValue(es[p]).type
        BY <2>4, <2>6, <4>1
      <4> QED BY <3>1, <3>2, <3>3, <3>5, <4>2 DEF Fits, Variable, VariableEntity
    <3> QED BY <3>4, <3>5
  <2>8. Matches(Use(scopes, es), Used(es), exact)
    BY <1>2, UseMatches
  <2>9. DOMAIN new = AddedNames(ids)
    BY DeclaredNames DEF new, DeclaredVariables
  <2> HIDE DEF entities, scopes
  <2>10. Matches(analysis'.scopesDeclarations, go'.scopes, exact)
    BY <2>3, <2>5, <2>7, <2>8, <2>9, DeclarationMatches
  <2>11. Exact(go'.met) => exact
    BY <2>3 DEF Exact, exact
  <2> QED BY <2>1, <2>3, <2>10, <2>11, MatchedNamed
<1> QED BY <1>4, <1>5

(* A name that the block has already stands for the block's own variable.  *)
LEMMA InScopeHome ==
  ASSUME NEW scopes, NEW exact, Matches(scopes, go.scopes, exact), NEW x, InScope(x)
  PROVE  Home(x) = Block /\ Block \in 1 .. Len(go.scopes) /\ x \in DOMAIN go.scopes[Block]
<1>1. PICK T : go.scopes \in Seq(T)
  BY DEF Matches
<1>2. Block \in 1 .. Len(go.scopes) /\ Block = Len(go.scopes) /\ DOMAIN go.scopes = 1 .. Len(go.scopes)
  BY <1>1, EmptySeq DEF Matches, Block
<1>3. Block \in Visible(x)
  BY <1>2 DEF Visible, InScope
<1>4. Home(x) \in 1 .. Len(go.scopes) /\ Block <= Home(x)
  BY <1>3, Resolution
<1> QED BY <1>2, <1>4 DEF InScope

LEMMA ShortDeclareNamed ==
  ASSUME Inv, Named, NEW S, NEW ids \in Seq(S), NEW es, Evaluable(es), DOMAIN es = DOMAIN ids,
         ShortDeclare(ids, es)
  PROVE  Named'
<1> DEFINE exact == Exact(go.met)
           less == Exact(go'.met)
           scopes == analysis.scopesDeclarations
           met == Meets(ReadsZero(es), "reads zero") \cup Meets(Old(ids) # {}, "redeclares")
                    \cup Meets(\E i \in DOMAIN ids : ids[i] \in ReadBy(es), "reads itself")
           new == ShortVariables(ids, es)
           types == DeclaredTypes(analysis, ids, NoType, es)
           entities == Entities(ids, types, FALSE)
<1>1. stage = "body" /\ go.broken = {} /\ go' = GoStep(ShortBreaks(ids, es), met, Extended(Used(es), new))
  BY DEF ShortDeclare, Unbroken, InBody, GoShort
<1>2. Matches(scopes, go.scopes, exact) /\ Analysis(analysis)
  BY <1>1 DEF Named, Inv
<1>3. Resolves(analysis, es) <=> Defined(es)
  BY <1>2, SameTypes
<1> HIDE DEF new
<1>4. CASE ~Resolves(analysis, es)
  <2>1. ShortBreaks(ids, es) # {}
    BY <1>3, <1>4 DEF ShortBreaks
  <2>2. go'.broken # {} /\ Rejected
    <3> HIDE DEF met
    <3> QED BY <1>1, <1>4, <2>1, GoSteps DEF ShortDeclare
  <2> QED BY <2>2, RejectedNamed
<1>5. CASE Resolves(analysis, es)
  <2>1. /\ stage' = "body"
        /\ analysis' = Entered(Count(Visited(analysis, es), ids), ids, types, FALSE)
    BY <1>1, <1>5 DEF ShortDeclare, Goes, AnalyseShort
  <2>2. CASE ShortBreaks(ids, es) # {}
    <3>1. ShortBreaks(ids, es) \subseteq Lenient
      BY <1>3, <1>5 DEF ShortBreaks, Rule, Lenient
    <3>2. go'.broken = ShortBreaks(ids, es)
      <4> HIDE DEF met
      <4> QED BY <1>1, GoSteps
    <3> QED BY <2>1, <2>2, <3>1, <3>2 DEF Named
  <2>3. CASE ShortBreaks(ids, es) = {}
    <3>1. go'.broken = {} /\ go'.scopes = Extended(Used(es), new) /\ go'.met = go.met \cup met
      <4> HIDE DEF met
      <4> QED BY <1>1, <2>3, GoSteps
    <3>2. /\ Defined(es) /\ Distinct(ids)
          /\ \A i \in Old(ids) : ~GoVariable(ids[i]).isConst
      BY <2>3 DEF ShortBreaks, Rule
    <3>3. less => exact /\ Old(ids) = {}
      BY <3>1 DEF Exact, Meets
    <3>4. analysis'.scopesDeclarations = addAll(Use(scopes, es), ids, entities)
      <4> HIDE DEF types
      <4>1. PICK isConst : isConst = FALSE
        OBVIOUS
      <4>2. Entered(Count(Visited(analysis, es), ids), ids, types, isConst).scopesDeclarations =
              addAll(Use(analysis.scopesDeclarations, es), ids, Entities(ids, types, isConst))
        BY <1>2, EnteredScopes
      <4> QED BY <2>1, <4>1, <4>2
    <3>5. \A i \in DOMAIN es : ExpressionType(analysis, es[i]) = GoValue(es[i]).type
      BY <1>2, <3>2, SameTypes
    <3>6. /\ Matches(Use(scopes, es), Used(es), exact)
          /\ \A d \in 1 .. Len(go.scopes) :
               /\ DOMAIN Used(es)[d] = DOMAIN go.scopes[d]
               /\ \A x \in DOMAIN go.scopes[d] : Used(es)[d][x].isConst = go.scopes[d][x].isConst
          /\ Len(Used(es)) = Len(go.scopes)
      BY <1>2, UseMatches
    <3>7. ASSUME NEW x \in AddedNames(ids)
          PROVE  Fits(entities[AddedLast(ids, x)], new[x], less)
      <4> DEFINE p == Position(ids, x)
                 u == Used(es)[Block][x]
      <4>1. x \in Declared(ids) /\ p \in DOMAIN ids /\ ids[p] = x /\ AddedLast(ids, x) = p
        BY <3>2, DeclaredNames, LastIsPosition
      <4>2. new[x] = IF InScope(x) THEN [u EXCEPT !.value = GoValue(es[p])] ELSE Variable(GoValue(es[p]), FALSE, FALSE)
        BY <4>1 DEF new, ShortVariables
      <4>3. entities[p] = VariableEntity(GoValue(es[p]).type, FALSE, FALSE)
        BY <3>5, <4>1 DEF DeclaredTypes, Entities
      <4> HIDE DEF p, entities
      <4>4. CASE InScope(x)
        <5>1. p \in Old(ids)
          BY <4>1, <4>4 DEF Old
        <5>2. ~less /\ ~GoVariable(x).isConst
          BY <3>2, <3>3, <4>1, <5>1
        <5>3. Home(x) = Block /\ Block \in 1 .. Len(go.scopes) /\ x \in DOMAIN go.scopes[Block]
          BY <1>2, <4>4, InScopeHome
        <5>4. ~u.isConst
          BY <3>6, <5>2, <5>3 DEF GoVariable
        <5>5. Fits(Use(scopes, es)[Block][x], u, exact)
          BY <3>6, <5>3 DEF Matches
        <5>6. u \in [value : {u.value}, isConst : BOOLEAN, isArgument : BOOLEAN, used : BOOLEAN]
          BY <5>5 DEF Fits
        <5> HIDE DEF u, less
        <5>7. /\ new[x].value = GoValue(es[p])
              /\ new[x].isConst = FALSE
              /\ new[x] \in [value : {GoValue(es[p])}, isConst : BOOLEAN, isArgument : BOOLEAN, used : BOOLEAN]
          BY <4>2, <4>4, <5>4, <5>6
        <5>8. /\ entities[p].used = FALSE /\ entities[p].isArgument = FALSE
              /\ entities[p] \in [type : {GoValue(es[p]).type}, isConst : {FALSE}, isArgument : BOOLEAN, used : BOOLEAN]
          BY <4>3 DEF VariableEntity
        <5> QED BY <4>1, <5>2, <5>7, <5>8 DEF Fits
      <4>5. CASE ~InScope(x)
        BY <4>1, <4>2, <4>3, <4>5 DEF Fits, Variable, VariableEntity
      <4> QED BY <4>4, <4>5
    <3>8. DOMAIN new = AddedNames(ids)
      BY DeclaredNames DEF new, ShortVariables
    <3> HIDE DEF entities, scopes, met
    <3>9. Matches(Use(scopes, es), Used(es), less)
      <4> HIDE DEF exact, less
      <4> QED BY <3>3, <3>6, MatchesLess
    <3>10. Matches(analysis'.scopesDeclarations, go'.scopes, less)
      <4> HIDE DEF exact, less
      <4> QED BY <3>1, <3>4, <3>7, <3>8, <3>9, DeclarationMatches
    <3> QED BY <2>1, <3>1, <3>10, MatchedNamed
  <2> QED BY <2>2, <2>3
<1> QED BY <1>4, <1>5

(* An assignment leaves all but the value, whose type is the same.         *)
LEMMA AssignedMatches ==
  ASSUME NEW scopes, NEW blocks, NEW exact, Matches(scopes, blocks, exact),
         NEW h \in 1 .. Len(blocks), NEW x \in DOMAIN blocks[h], NEW value, value.type = blocks[h][x].value.type
  PROVE  LET after == [blocks EXCEPT ![h][x].value = value]
         IN  /\ Matches(scopes, after, exact)
             /\ Len(after) = Len(blocks)
             /\ \A d \in 1 .. Len(blocks) :
                  /\ DOMAIN after[d] = DOMAIN blocks[d]
                  /\ \A y \in DOMAIN blocks[d] :
                       after[d][y].value = IF d = h /\ y = x THEN value ELSE blocks[d][y].value
<1> DEFINE variable == [blocks[h][x] EXCEPT !.value = value]
           block == [blocks[h] EXCEPT ![x] = variable]
           after == [blocks EXCEPT ![h] = block]
<1>1. PICK T : blocks \in Seq(T)
  BY DEF Matches
<1>2. [blocks EXCEPT ![h][x].value = value] = after
  OBVIOUS
<1>3. \A d \in 1 .. Len(blocks) :
        /\ DOMAIN scopes[d] = DOMAIN blocks[d]
        /\ \A y \in DOMAIN blocks[d] : Fits(scopes[d][y], blocks[d][y], exact)
  BY DEF Matches
<1>4. Fits(scopes[h][x], blocks[h][x], exact)
  BY <1>3
<1>5. /\ variable.value = value
      /\ variable \in [value : {value}, isConst : {blocks[h][x].isConst}, isArgument : {blocks[h][x].isArgument},
                       used : {blocks[h][x].used}]
  BY <1>4 DEF Fits
<1> HIDE DEF variable
<1>6. Fits(scopes[h][x], variable, exact)
  BY <1>4, <1>5 DEF Fits
<1>7. DOMAIN block = DOMAIN blocks[h] /\ \A y \in DOMAIN blocks[h] : block[y] = IF y = x THEN variable ELSE blocks[h][y]
  OBVIOUS
<1> HIDE DEF block
<1>8. blocks \in Seq(T \cup {block}) /\ block \in T \cup {block}
  BY <1>1, SeqMonotonic
<1>9. /\ after \in Seq(T \cup {block})
      /\ Len(after) = Len(blocks)
      /\ \A d \in 1 .. Len(blocks) : after[d] = IF d = h THEN block ELSE blocks[d]
  BY <1>8, ExceptSeq
<1>10. after # <<>>
  <2>1. Len(blocks) # 0
    BY <1>1 DEF Matches
  <2> HIDE DEF after
  <2> QED BY <1>9, <2>1, EmptySeq
<1> HIDE DEF after
<1>11. \A d \in 1 .. Len(blocks) :
         /\ DOMAIN after[d] = DOMAIN blocks[d]
         /\ \A y \in DOMAIN blocks[d] :
              /\ after[d][y].value = IF d = h /\ y = x THEN value ELSE blocks[d][y].value
              /\ Fits(scopes[d][y], after[d][y], exact)
  BY <1>3, <1>5, <1>6, <1>7, <1>9
<1>12. Matches(scopes, after, exact)
  BY <1>3, <1>9, <1>10, <1>11 DEF Matches
<1> QED BY <1>2, <1>9, <1>11, <1>12

LEMMA AssignNamed ==
  ASSUME Inv, Named, NEW x, NEW e \in Expressions, Assign(x, e)
  PROVE  Named'
<1> DEFINE exact == Exact(go.met)
           scopes == analysis.scopesDeclarations
           met == Meets(ReadsZero(<<e>>), "reads zero")
<1>1. stage = "body" /\ go.broken = {} /\ go' = GoStep(AssignmentBreaks(x, e), met, AssignedVariables(x, e))
  BY DEF Assign, Unbroken, InBody, GoAssignment
<1>2. Matches(scopes, go.scopes, exact) /\ Analysis(analysis)
  BY <1>1 DEF Named, Inv
<1>3. AssignmentErrors(analysis, x, e) <=> AssignmentBreaks(x, e) # {}
  BY <1>2, AssignedErrors
<1> HIDE DEF met, exact
<1>4. CASE AssignmentErrors(analysis, x, e)
  <2>1. go'.broken # {} /\ Rejected
    BY <1>1, <1>3, <1>4, GoSteps DEF Assign
  <2> QED BY <2>1, RejectedNamed
<1>5. CASE ~AssignmentErrors(analysis, x, e)
  <2>1. stage' = "body" /\ analysis' = Visited(analysis, <<e>>)
    BY <1>1, <1>5 DEF Assign, Goes
  <2>2. AssignmentBreaks(x, e) = {}
    BY <1>3, <1>5
  <2>3. go'.broken = {} /\ go'.scopes = AssignedVariables(x, e) /\ go'.met = go.met \cup met
    BY <1>1, <2>2, GoSteps
  <2>4. x # Blank => /\ Visible(x) # {}
                     /\ GoVariable(x).value.type = GoValue(e).type
    BY <2>2 DEF AssignmentBreaks, Rule
  <2>5. analysis'.scopesDeclarations = Use(scopes, <<e>>)
    BY <1>2, <2>1, VisitedScopes
  <2>6. /\ Matches(Use(scopes, <<e>>), Used(<<e>>), exact)
        /\ Len(Used(<<e>>)) = Len(go.scopes)
        /\ \A d \in 1 .. Len(go.scopes) :
             /\ DOMAIN Used(<<e>>)[d] = DOMAIN go.scopes[d]
             /\ \A y \in DOMAIN go.scopes[d] : Used(<<e>>)[d][y].value = go.scopes[d][y].value
    BY <1>2, UseMatches
  <2>7. Matches(Use(scopes, <<e>>), AssignedVariables(x, e), exact)
    <3>1. CASE x = Blank
      BY <2>6, <3>1 DEF AssignedVariables
    <3>2. CASE x # Blank
      <4> DEFINE h == Home(x)
                 value == GoValue(e)
      <4>1. h \in 1 .. Len(go.scopes) /\ x \in DOMAIN go.scopes[h]
        BY <1>2, <2>4, <3>2, Resolution
      <4>2. h \in 1 .. Len(Used(<<e>>)) /\ x \in DOMAIN Used(<<e>>)[h]
        BY <2>6, <4>1
      <4>3. value.type = Used(<<e>>)[h][x].value.type
        BY <2>4, <2>6, <3>2, <4>1 DEF GoVariable
      <4>4. AssignedVariables(x, e) = [Used(<<e>>) EXCEPT ![h][x].value = value]
        BY <3>2 DEF AssignedVariables
      <4> HIDE DEF h, value, scopes
      <4> QED BY <2>6, <4>2, <4>3, <4>4, AssignedMatches
    <3> QED BY <3>1, <3>2
  <2>8. Exact(go'.met) => exact
    BY <2>3 DEF Exact, exact
  <2> QED BY <2>1, <2>3, <2>5, <2>7, <2>8, MatchedNamed
<1> QED BY <1>4, <1>5

LEMMA UseVariableNamed ==
  ASSUME Inv, Named, NEW e \in Expressions, UseVariable(e)
  PROVE  Named'
<1> DEFINE exact == Exact(go.met)
           scopes == analysis.scopesDeclarations
           met == Meets(ReadsZero(<<e>>), "reads zero")
           breaks == Rule(Defined(<<e>>), "undefined")
<1>1. stage = "body" /\ go' = GoStep(breaks, met, Used(<<e>>)) /\ stage' \in {"body", "rejected"}
  BY DEF UseVariable, InBody, GoUse, Rejected, Goes
<1>2. CASE go.broken # {}
  <2>1. go' = go
    BY <1>1, <1>2, GoSteps
  <2> QED BY <1>1, <1>2, <2>1, BrokenNamed
<1>3. CASE go.broken = {}
  <2>1. Matches(scopes, go.scopes, exact) /\ Analysis(analysis)
    BY <1>1, <1>3 DEF Named, Inv
  <2>2. Evaluable(<<e>>)
    BY DEF Evaluable
  <2>3. Resolves(analysis, <<e>>) <=> Defined(<<e>>)
    BY <2>1, <2>2, SameTypes
  <2>4. Resolves(analysis, <<e>>) <=> breaks = {}
    BY <2>3 DEF Rule
  <2> HIDE DEF met, exact, breaks
  <2>5. CASE ~Resolves(analysis, <<e>>)
    <3>1. go'.broken # {} /\ Rejected
      BY <1>1, <1>3, <2>4, <2>5, GoSteps DEF UseVariable
    <3> QED BY <3>1, RejectedNamed
  <2>6. CASE Resolves(analysis, <<e>>)
    <3>1. stage' = "body" /\ analysis' = Visited(analysis, <<e>>)
      BY <1>1, <2>6 DEF UseVariable, Goes
    <3>2. go'.broken = {} /\ go'.scopes = Used(<<e>>) /\ go'.met = go.met \cup met
      BY <1>1, <1>3, <2>4, <2>6, GoSteps
    <3>3. analysis'.scopesDeclarations = Use(scopes, <<e>>)
      BY <2>1, <3>1, VisitedScopes
    <3>4. Matches(Use(scopes, <<e>>), Used(<<e>>), exact)
      BY <2>1, UseMatches
    <3>5. Exact(go'.met) => exact
      BY <3>2 DEF Exact, exact
    <3> QED BY <3>1, <3>2, <3>3, <3>4, <3>5, MatchedNamed
  <2> QED BY <2>5, <2>6
<1> QED BY <1>2, <1>3

LEMMA OpenBlockNamed ==
  ASSUME Inv, Named, OpenBlock
  PROVE  Named'
<1> DEFINE exact == Exact(go.met)
           scopes == analysis.scopesDeclarations
<1>1. /\ stage = "body" /\ go.broken = {} /\ go' = GoStep({}, {}, Append(go.scopes, NoNames))
      /\ stage' = "body" /\ analysis' = [analysis EXCEPT !.scopesDeclarations = pushScope(@)]
  BY DEF OpenBlock, Unbroken, InBody, Goes, GoOpen
<1>2. Matches(scopes, go.scopes, exact) /\ Analysis(analysis)
  BY <1>1 DEF Named, Inv
<1>3. go'.broken = {} /\ go'.scopes = Append(go.scopes, NoNames) /\ go'.met = go.met \cup {}
  BY <1>1 DEF GoStep
<1>4. analysis'.scopesDeclarations = pushScope(scopes)
  <2>1. PICK S : analysis \in [scopesDeclarations : Seq(S), numberLocalVariables : Nat]
    BY <1>2 DEF Analysis
  <2> QED BY <1>1, <2>1
<1> HIDE DEF exact
<1>5. Matches(pushScope(scopes), Append(go.scopes, NoNames), exact)
  BY <1>2, PushMatches
<1>6. Exact(go'.met) => exact
  BY <1>3 DEF exact
<1> QED BY <1>1, <1>3, <1>4, <1>5, <1>6, MatchedNamed

(* The end of a block or of the function.                                  *)
LEMMA EndNamed ==
  ASSUME Inv, Named, stage = "body", go' = GoClose,
         UnusedErrors(analysis) => Rejected,
         ~UnusedErrors(analysis) =>
           \/ stage' = "done"
           \/ /\ stage' = "body" /\ Len(analysis.scopesDeclarations) >= 2
              /\ analysis' = [analysis EXCEPT !.scopesDeclarations = popScope(@)]
  PROVE  Named'
<1> DEFINE exact == Exact(go.met)
           scopes == analysis.scopesDeclarations
           breaks == Rule(Unused = {}, "unused")
           after == SubSeq(go.scopes, 1, Block - 1)
<1>1. go' = GoStep(breaks, {}, after) /\ stage' \in {"body", "done", "rejected"}
  BY DEF GoClose, Rejected
<1>2. CASE go.broken # {}
  <2>1. go' = go
    BY <1>1, <1>2, GoSteps
  <2> QED BY <1>1, <1>2, <2>1, BrokenNamed
<1>3. CASE go.broken = {}
  <2>1. Matches(scopes, go.scopes, exact) /\ Analysis(analysis)
    BY <1>3 DEF Named, Inv
  <2>2. /\ ~UnusedErrors(analysis) => Unused = {}
        /\ exact /\ UnusedErrors(analysis) => Unused # {}
    <3> HIDE DEF exact
    <3> QED BY <2>1, UnusedVariables
  <2>3. breaks = {} <=> Unused = {}
    BY DEF Rule
  <2> HIDE DEF breaks, after
  <2>4. CASE UnusedErrors(analysis)
    <3>1. CASE Unused # {}
      <4>1. go'.broken # {}
        BY <1>1, <1>3, <2>3, <3>1, GoSteps
      <4> QED BY <2>4, <4>1, RejectedNamed
    <3>2. CASE Unused = {}
      <4>1. ~exact /\ go'.met = go.met \cup {}
        <5>1. ~exact
          BY <2>2, <2>4, <3>2
        <5>2. breaks = {}
          BY <2>3, <3>2
        <5> QED BY <1>1, <1>3, <5>1, <5>2 DEF GoStep
      <4>2. ~Exact(go'.met)
        BY <4>1 DEF exact
      <4> QED BY <2>4, <4>2, RejectedNamed
    <3> QED BY <3>1, <3>2
  <2>5. CASE ~UnusedErrors(analysis)
    <3>1. go'.broken = {} /\ go'.scopes = after /\ go'.met = go.met \cup {}
      <4>1. breaks = {}
        BY <2>2, <2>3, <2>5
      <4> QED BY <1>1, <1>3, <4>1 DEF GoStep
    <3>2. CASE stage' = "done"
      BY <3>1, <3>2 DEF Named
    <3>3. CASE stage' # "done"
      <4>1. /\ stage' = "body" /\ Len(scopes) >= 2
            /\ analysis' = [analysis EXCEPT !.scopesDeclarations = popScope(@)]
        BY <2>5, <3>3
      <4>2. PICK S : analysis \in [scopesDeclarations : Seq(S), numberLocalVariables : Nat]
        BY <2>1 DEF Analysis
      <4>3. analysis'.scopesDeclarations = popScope(scopes)
        BY <4>1, <4>2
      <4> HIDE DEF exact
      <4>4. Matches(popScope(scopes), after, exact)
        BY <2>1, <4>1, PopMatches DEF after, Block
      <4>5. Exact(go'.met) => exact
        BY <3>1 DEF exact
      <4> QED BY <3>1, <4>1, <4>3, <4>4, <4>5, MatchedNamed
    <3> QED BY <3>2, <3>3
  <2> QED BY <2>4, <2>5
<1> QED BY <1>2, <1>3

LEMMA CloseBlockNamed ==
  ASSUME Inv, Named, CloseBlock
  PROVE  Named'
<1>1. Len(analysis.scopesDeclarations) >= 2
  <2>1. PICK S : analysis.scopesDeclarations \in Seq(S)
    BY DEF Inv, Analysis
  <2>2. Len(analysis.scopesDeclarations) \in Nat
    BY <2>1
  <2> QED BY <2>2 DEF CloseBlock
<1> QED BY <1>1, EndNamed DEF CloseBlock, Goes

LEMMA FinishNamed ==
  ASSUME Inv, Named, Finish
  PROVE  Named'
BY EndNamed DEF Finish

LEMMA IdsOfParameters ==
  ASSUME NEW ps \in ParameterLists
  PROVE  /\ Ids(ps) \in Seq(Names \cup {Blank})
         /\ DOMAIN Ids(ps) = DOMAIN ps
         /\ Len(Ids(ps)) = Len(ps) /\ Len(ps) \in Nat
         /\ DOMAIN ps = 1 .. Len(ps)
<1>1. ps \in Seq([id : Names \cup {Blank}, type : Types])
  BY NamesAssumption
<1> DEFINE n == Len(ps)
           S == Names \cup {Blank}
<1>2. n \in Nat /\ DOMAIN ps = 1 .. n
  BY <1>1, LenProperties
<1>3. \A i \in 1 .. n : ps[i].id \in S
  BY <1>1, ElementOfSeq, ZenonT(60)
<1> HIDE DEF n, S
<1>4. Ids(ps) = [i \in 1 .. n |-> ps[i].id]
  BY <1>2 DEF Ids
<1>5. Ids(ps) \in Seq(S) /\ Len(Ids(ps)) = n
  BY <1>2, <1>3, <1>4
<1>6. DOMAIN Ids(ps) = DOMAIN ps
  BY DEF Ids
<1> QED BY <1>2, <1>5, <1>6 DEF n, S

LEMMA BeginNamed ==
  ASSUME Inv, Named, NEW ps \in ParameterLists, Begin(ps)
  PROVE  Named'
<1> DEFINE exact == Exact(go.met)
           scopes == analysis.scopesDeclarations
           ids == Ids(ps)
           entities == [i \in DOMAIN ps |-> VariableEntity(ps[i].type, FALSE, TRUE)]
           new == ArgumentVariables(ps)
           breaks == Rule(Distinct(ids), "repeated parameter")
           met == Meets(BlankBefore(ids), "blank parameter")
<1>1. /\ stage = "signature" /\ go' = GoStep(breaks, met, Append(go.scopes, new))
      /\ stage' = "body"
      /\ analysis'.scopesDeclarations = addAll(pushScope(scopes), ids, entities)
  BY DEF Begin, GoArguments, AnalyseArguments
<1>2. go.broken = {} /\ Matches(scopes, go.scopes, exact)
  BY <1>1 DEF Named
<1>3. ids \in Seq(Names \cup {Blank}) /\ DOMAIN ids = DOMAIN ps
  BY IdsOfParameters
<1>4. CASE breaks # {}
  <2>1. breaks \subseteq Lenient
    BY DEF Rule, Lenient
  <2>2. go'.broken = breaks
    BY <1>1, <1>2 DEF GoStep
  <2> QED BY <1>1, <1>4, <2>1, <2>2 DEF Named
<1>5. CASE breaks = {}
  <2>1. Distinct(ids)
    BY <1>5 DEF Rule
  <2> HIDE DEF breaks, met
  <2>2. go'.broken = {} /\ go'.scopes = Append(go.scopes, new) /\ go'.met = go.met \cup met
    BY <1>1, <1>2, <1>5 DEF GoStep
  <2>3. DOMAIN new = AddedNames(ids)
    BY DeclaredNames DEF ArgumentVariables
  <2>4. ASSUME NEW x \in AddedNames(ids)
        PROVE  Fits(entities[AddedLast(ids, x)], new[x], exact)
    <3> DEFINE p == Position(ids, x)
    <3>1. x \in Declared(ids) /\ p \in DOMAIN ps /\ AddedLast(ids, x) = p
      <4> HIDE DEF ids
      <4> QED BY <1>3, <2>1, DeclaredNames, LastIsPosition
    <3>2. new[x] = Variable(Argument(ps, p), FALSE, TRUE)
      BY <3>1 DEF ArgumentVariables
    <3>3. entities[p] = VariableEntity(ps[p].type, FALSE, TRUE)
      BY <3>1
    <3>4. Argument(ps, p).type = ps[p].type
      BY DEF Argument
    <3> HIDE DEF p, new, entities, exact
    <3> QED BY <3>1, <3>2, <3>3, <3>4 DEF Fits, Variable, VariableEntity
  <2> HIDE DEF entities, new, ids
  <2> DEFINE pushed == pushScope(scopes)
             as == addAll(pushed, ids, entities)
  <2>5. PICK S : scopes \in Seq(S)
    BY <1>2 DEF Matches
  <2>6. Len(scopes) \in Nat
    BY <2>5
  <2>7. /\ pushed \in Seq(S \cup {NoNames})
        /\ Len(pushed) = Len(scopes) + 1
        /\ pushed # <<>>
        /\ \A d \in 1 .. Len(scopes) : pushed[d] = scopes[d]
        /\ pushed[Len(scopes) + 1] = NoNames
    BY <2>5, PushScope
  <2> HIDE DEF pushed
  <2>8. /\ \E T : as \in Seq(T)
        /\ Len(as) = Len(pushed)
        /\ \A d \in 1 .. Len(pushed) : d # Len(pushed) => as[d] = pushed[d]
        /\ as[Len(pushed)] = [x \in DOMAIN pushed[Len(pushed)] \cup AddedNames(ids) |->
                                IF x \in AddedNames(ids) THEN entities[AddedLast(ids, x)] ELSE pushed[Len(pushed)][x]]
    <3>1. pushed \in Seq(S \cup {NoNames}) /\ pushed # <<>>
      BY <2>7
    <3>2. PICK U : pushed \in Seq(U)
      BY <3>1
    <3> QED BY <3>1, <3>2, AddAll, ZenonT(60)
  <2>9. analysis'.scopesDeclarations = as
    BY <1>1 DEF pushed
  <2> HIDE DEF as, scopes
  <2>10. ASSUME NEW d \in 1 .. Len(scopes)
         PROVE  as[d] = scopes[d]
    <3>1. d \in 1 .. Len(pushed) /\ d # Len(pushed) /\ pushed[d] = scopes[d]
      BY <2>6, <2>7
    <3> QED BY <2>8, <3>1
  <2>11. DOMAIN NoNames = {}
    BY DEF NoNames
  <2>12. /\ DOMAIN as[Len(scopes) + 1] = AddedNames(ids)
         /\ \A x \in AddedNames(ids) : as[Len(scopes) + 1][x] = entities[AddedLast(ids, x)]
    BY <2>7, <2>8, <2>11
  <2>13. PICK T : as \in Seq(T)
    BY <2>8
  <2>14. Len(as) = Len(scopes) + 1
    BY <2>7, <2>8
  <2> HIDE DEF exact
  <2>15. Matches(as, Append(go.scopes, new), exact)
    BY <1>2, <2>3, <2>4, <2>10, <2>12, <2>13, <2>14, AppendMatches
  <2>16. Exact(go'.met) => exact
    BY <2>2 DEF Exact, exact
  <2> QED BY <1>1, <2>2, <2>9, <2>15, <2>16, MatchedNamed
<1> QED BY <1>4, <1>5

LEMMA StepNamed == Inv /\ Named /\ [Next]_vars => Named'
<1> SUFFICES ASSUME Inv, Named, [Next]_vars PROVE Named'
  OBVIOUS
<1>1. ASSUME NEW x \in Targets PROVE <<x>> \in Seq(Targets) /\ DOMAIN <<x>> = {1}
  OBVIOUS
<1>2. ASSUME NEW x \in Targets, NEW y \in Targets PROVE <<x, y>> \in Seq(Targets) /\ DOMAIN <<x, y>> = 1 .. 2
  OBVIOUS
<1>3. ASSUME NEW e \in Expressions PROVE Evaluable(<<e>>) /\ DOMAIN <<e>> = {1}
  BY DEF Evaluable
<1>4. ASSUME NEW es \in PairValues PROVE Evaluable(es) /\ DOMAIN es = 1 .. 2
  BY PairValuesAssumption DEF Evaluable
<1>5. CASE \E ps \in ParameterLists : Begin(ps)
  BY <1>5, BeginNamed
<1>6. CASE \E x \in Targets, e \in Expressions :
             \/ \E type \in Types \cup {NoType} : Declare(<<x>>, type, <<e>>, FALSE)
             \/ Declare(<<x>>, NoType, <<e>>, TRUE)
             \/ ShortDeclare(<<x>>, <<e>>)
  <2> PICK x \in Targets, e \in Expressions :
        \/ \E type \in Types \cup {NoType} : Declare(<<x>>, type, <<e>>, FALSE)
        \/ Declare(<<x>>, NoType, <<e>>, TRUE)
        \/ ShortDeclare(<<x>>, <<e>>)
    BY <1>6
  <2>1. \A type : Shaped(<<x>>, type, <<e>>)
    BY <1>1, <1>3 DEF Shaped
  <2>2. CASE \E type \in Types \cup {NoType} : Declare(<<x>>, type, <<e>>, FALSE)
    <3> PICK type \in Types \cup {NoType} : Declare(<<x>>, type, <<e>>, FALSE)
      BY <2>2
    <3> QED BY <1>1, <1>3, <2>1, DeclareNamed
  <2>3. CASE Declare(<<x>>, NoType, <<e>>, TRUE)
    BY <1>1, <1>3, <2>1, <2>3, DeclareNamed
  <2>4. CASE ShortDeclare(<<x>>, <<e>>)
    BY <1>1, <1>3, <2>4, ShortDeclareNamed
  <2> QED BY <2>2, <2>3, <2>4
<1>7. CASE \E x, y \in Targets, es \in PairValues :
             Declare(<<x, y>>, NoType, es, FALSE) \/ ShortDeclare(<<x, y>>, es)
  <2> PICK x \in Targets, y \in Targets, es \in PairValues :
        Declare(<<x, y>>, NoType, es, FALSE) \/ ShortDeclare(<<x, y>>, es)
    BY <1>7
  <2>1. Shaped(<<x, y>>, NoType, es)
    BY <1>2, <1>4 DEF Shaped
  <2>2. CASE Declare(<<x, y>>, NoType, es, FALSE)
    BY <1>2, <1>4, <2>1, <2>2, DeclareNamed
  <2>3. CASE ShortDeclare(<<x, y>>, es)
    BY <1>2, <1>4, <2>3, ShortDeclareNamed
  <2> QED BY <2>2, <2>3
<1>8. CASE \E x \in Targets, type \in Types : Declare(<<x>>, type, <<>>, FALSE)
  <2> PICK x \in Targets, type \in Types : Declare(<<x>>, type, <<>>, FALSE)
    BY <1>8
  <2>1. Evaluable(<<>>) /\ Shaped(<<x>>, type, <<>>)
    BY TypesAssumption DEF Evaluable, Shaped
  <2> QED BY <1>1, <2>1, DeclareNamed
<1>9. CASE \E x \in ProgramIds \cup {Blank}, e \in Expressions : Assign(x, e)
  BY <1>9, AssignNamed
<1>10. CASE \E e \in Expressions : UseVariable(e)
  BY <1>10, UseVariableNamed
<1>11. CASE OpenBlock
  BY <1>11, OpenBlockNamed
<1>12. CASE CloseBlock
  BY <1>12, CloseBlockNamed
<1>13. CASE Finish
  BY <1>13, FinishNamed
<1>14. CASE UNCHANGED vars
  BY <1>14 DEF vars, Named, Matches, Exact
<1> QED BY <1>5, <1>6, <1>7, <1>8, <1>9, <1>10, <1>11, <1>12, <1>13, <1>14 DEF Next

LEMMA NamesInvariance == Spec => [](Inv /\ Named)
<1>1. Init => Inv /\ Named
  BY InitIsSound, InitNamed
<1>2. Inv /\ Named /\ [Next]_vars => (Inv /\ Named)'
  BY StepKeepsInv, StepNamed
<1> QED BY <1>1, <1>2, PTL DEF Spec

-----------------------------------------------------------------------------
(* What follows.                                                           *)

(* Whatever a function declares, hides, assigns and reads, in blocks nested *)
(* as deep as may be: if the analysis has no error (types_visitor.cpp,     *)
(* const_expressions_visitor.cpp), the function obeys Go's rules on        *)
(* declarations, up to the four that the property names.                   *)
THEOREM AcceptedIsLegal == Spec => []AcceptsOnlyLegal
<1>1. Named => AcceptsOnlyLegal
  BY DEF Named, AcceptsOnlyLegal, Lenient
<1> QED BY <1>1, NamesInvariance, PTL

(* If the analysis has an error, the function breaks a rule, unless a      *)
(* short declaration assigns to a variable of its own block.               *)
THEOREM RejectedIsIllegal == Spec => []RejectsOnlyIllegal
<1>1. Named => RejectsOnlyIllegal
  BY DEF Named, RejectsOnlyIllegal, Exact
<1> QED BY <1>1, NamesInvariance, PTL
=============================================================================
