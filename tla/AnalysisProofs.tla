---------------------------- MODULE AnalysisProofs ----------------------------
(***************************************************************************)
(* Proofs about the analysis of CompiledPackage, for all packages, hash    *)
(* functions and orders of the maps: a package that is accepted is legal   *)
(* Go, up to what the analysis does not look at, and a legal package whose *)
(* initialisers read no variables is accepted.                             *)
(***************************************************************************)
EXTENDS InitialiserProofs

(* What the analysis does not look at: a variable has a name that is not   *)
(* that of a function, functions are not read as values, initialisers      *)
(* call functions with results, and values are as many as names.           *)
CountsOK(p) == \A d \in ToSet(p) : CountsAgree(d)

Plain(p) ==
  /\ FunctionIds(p) \cap VariableIds(p) = {}
  /\ \A e \in Expressions(p) : Reads(e) \cap FunctionIds(p) = {}
  /\ \A v \in Variables(p) : ResultsUsed(p, Initialiser(v))
  /\ CountsOK(p)

-----------------------------------------------------------------------------
(* The requests and the declarations of a package stand for each other.    *)

LEMMA OneElement == ASSUME NEW S, NEW s \in Seq(S), DOMAIN s = {1} PROVE s = <<s[1]>>
<1>1. Len(s) \in Nat /\ DOMAIN s = 1 .. Len(s)
  BY MapFacts DEF IsSequence
<1>2. 1 \in 1 .. Len(s) /\ \A n \in 1 .. Len(s) : n = 1
  BY <1>1
<1>3. Len(s) = 1
  BY <1>1, <1>2
<1> QED BY <1>3

FunctionAs(d, m) == m = Method(d) /\ d.identifiers = <<m.id>>

LEMMA FunctionParts ==
  ASSUME NEW d, NEW m, FunctionAs(d, m)
  PROVE  d.identifiers[1] = m.id /\ d.result = m.type /\ d.body = m.value
<1>1. d.identifiers = <<m.id>> /\ m = Method(d)
  BY DEF FunctionAs
<1>2. \A x : <<x>>[1] = x
  OBVIOUS
<1>3. d.identifiers[1] = m.id
  <2> QED BY ONLY <1>1, <1>2
<1>4. d.result = m.type /\ d.body = m.value
  BY <1>1 DEF Method
<1> QED BY <1>3, <1>4

LEMMA FunctionsAsked ==
  ASSUME NEW p \in Packages
  PROVE  /\ \A a \in DOMAIN MethodRequests(p) :
              MethodRequests(p)[a] \in MethodSet /\ \E d \in Functions(p) : FunctionAs(d, MethodRequests(p)[a])
         /\ \A d \in Functions(p) : \E a \in DOMAIN MethodRequests(p) : FunctionAs(d, MethodRequests(p)[a])
<1> DEFINE r == MethodRequests(p)
<1>1. p \in Seq(TopDeclarations) /\ r \in Seq(MethodSet) /\ Joins(MethodsAsked(p), Len(p), r)
  BY PackagesAssumption, MethodRequestsAre
<1>2. ASSUME NEW i \in 1 .. Len(p), p[i].kind = "function"
      PROVE  p[i] \in Functions(p) /\ FunctionAs(p[i], Method(p[i]))
  <2>1. p[i] \in TopDeclarations /\ p[i] \in ToSet(p)
    BY <1>1 DEF ToSet
  <2>2. DOMAIN p[i].identifiers = {1}
    BY <2>1, <1>2, FunctionDeclaration
  <2>3. p[i].identifiers \in Seq(Identifiers)
    BY <2>1, VariableDeclaration
  <2>4. p[i].identifiers = <<p[i].identifiers[1]>>
    BY <2>2, <2>3, OneElement
  <2> QED BY <1>2, <2>1, <2>4 DEF Functions, FunctionAs, Method
<1>3. ASSUME NEW i, NEW k, Inside(MethodsAsked(p), Len(p), i, k)
      PROVE  p[i].kind = "function" /\ MethodsAsked(p)[i][k] = Method(p[i])
  BY <1>1, <1>3 DEF Inside, MethodsAsked
<1>4. ASSUME NEW a \in DOMAIN r
      PROVE  r[a] \in MethodSet /\ \E d \in Functions(p) : FunctionAs(d, r[a])
  <2>1. PICK i, k : Inside(MethodsAsked(p), Len(p), i, k) /\ r[a] = MethodsAsked(p)[i][k]
    BY <1>1 DEF Joins, Comes
  <2> QED BY <1>1, <1>2, <1>3, <2>1 DEF Inside
<1>5. ASSUME NEW d \in Functions(p) PROVE \E a \in DOMAIN r : FunctionAs(d, r[a])
  <2>1. PICK i \in 1 .. Len(p) : p[i] = d
    BY <1>1 DEF Functions, ToSet
  <2>2. d.kind = "function"
    BY DEF Functions
  <2>3. Inside(MethodsAsked(p), Len(p), i, 1)
    BY <1>1, <2>1, <2>2 DEF Inside, MethodsAsked
  <2>4. PICK a \in DOMAIN r : r[a] = MethodsAsked(p)[i][1]
    BY <1>1, <2>3 DEF Joins, Goes
  <2> QED BY <1>2, <1>3, <2>1, <2>2, <2>3, <2>4
<1> QED BY <1>4, <1>5

(* A request for a field is one variable of the package.                   *)
VariableAs(v, f) ==
  /\ v.isConst = f.isConst /\ v.values = f.value
  /\ IF v.id = "_" THEN f.id \in ToSet(BlankNames) ELSE f.id = v.id
  /\ f.type = IF v.id = "_" THEN "Any" ELSE IF v.type = NoType THEN "Invalid" ELSE v.type
  /\ v.values = <<>> => f.type \in NamedTypes \cup {"Any"} /\ ~v.isConst

VariableIn(d, i) ==
  [id |-> d.identifiers[i], type |-> d.type, isConst |-> d.isConst, values |-> ValueAt(d, i)]

LEMMA FieldIsVariable ==
  ASSUME NEW d \in TopDeclarations, d.kind # "function", CountsAgree(d), NEW i \in DOMAIN d.identifiers,
         NEW f, Renamed(FieldOf(d, i), f)
  PROVE  VariableAs(VariableIn(d, i), f)
<1>1. d.identifiers \in Seq(Identifiers) /\ d.type \in NamedTypes \cup {NoType}
      /\ d.values \in Seq(Seq(Operands) \ {<<>>})
      /\ (d.values = <<>> => d.type # NoType /\ ~d.isConst)
  BY DEF TopDeclarations
<1>2. ValueAt(d, i) = <<>> => d.values = <<>>
  <2>1. SUFFICES ASSUME d.values # <<>> PROVE i \in DOMAIN d.values
    BY DEF ValueAt
  <2> QED BY <1>1, <2>1 DEF CountsAgree
<1>3. d.identifiers[i] # "_" => DeclaredType(d, i) = (IF d.type = NoType THEN "Invalid" ELSE d.type)
  BY DEF DeclaredType
<1>4. d.identifiers[i] = "_" => DeclaredType(d, i) = "Any"
  BY DEF DeclaredType
<1>5. d.values = <<>> => DeclaredType(d, i) \in NamedTypes \cup {"Any"}
  BY <1>1, <1>3, <1>4
<1>6. DeclaredType(d, i) = IF d.identifiers[i] = "_" THEN "Any" ELSE IF d.type = NoType THEN "Invalid" ELSE d.type
  BY <1>3, <1>4
<1> QED BY <1>1, <1>2, <1>5, <1>6 DEF VariableAs, VariableIn, Renamed, FieldOf

LEMMA VariablesAsked ==
  ASSUME NEW p \in Packages, CountsOK(p)
  PROVE  LET r == BlanksNamed(FieldRequests(p))
         IN  /\ \A a \in DOMAIN r : r[a].id \in FieldIds /\ \E v \in Variables(p) : VariableAs(v, r[a])
             /\ \A v \in Variables(p) : \E a \in DOMAIN r : VariableAs(v, r[a])
<1> DEFINE q == FieldRequests(p)
           r == BlanksNamed(q)
<1>1. p \in Seq(TopDeclarations) /\ q \in Seq(FieldSet) /\ Joins(FieldsAsked(p), Len(p), q)
  BY PackagesAssumption, FieldRequestsAre
<1>2. DOMAIN r = DOMAIN q /\ \A a \in DOMAIN q : Renamed(q[a], r[a])
  BY BlanksNamedAre
<1>3. \A a \in DOMAIN r : r[a].id \in FieldIds
  BY RequestsOK DEF FieldsOK, FieldOK
<1>4. ASSUME NEW i \in 1 .. Len(p), p[i].kind # "function"
      PROVE  /\ p[i] \in TopDeclarations /\ CountsAgree(p[i])
             /\ \A k \in DOMAIN p[i].identifiers : VariableIn(p[i], k) \in Variables(p)
  <2>1. p[i] \in TopDeclarations /\ p[i] \in ToSet(p)
    BY <1>1 DEF ToSet
  <2>2. p[i].kind = "variable"
    BY <1>4, <2>1 DEF TopDeclarations
  <2> QED BY <2>1, <2>2 DEF Variables, VariableIn, CountsOK
<1>5. ASSUME NEW i, NEW k, Inside(FieldsAsked(p), Len(p), i, k)
      PROVE  LET d == p[Len(p) + 1 - i]
             IN  /\ Len(p) + 1 - i \in 1 .. Len(p) /\ d.kind # "function" /\ k \in DOMAIN d.identifiers
                 /\ FieldsAsked(p)[i][k] = FieldOf(d, k)
  <2>1. i \in 1 .. Len(p) /\ k \in DOMAIN FieldsAsked(p)[i]
    BY <1>5 DEF Inside
  <2>2. DOMAIN p = 1 .. Len(p) /\ Len(p) \in Nat
    BY <1>1
  <2> QED BY <2>1, <2>2 DEF FieldsAsked
<1> HIDE DEF q, r
<1>6. ASSUME NEW a \in DOMAIN r PROVE \E v \in Variables(p) : VariableAs(v, r[a])
  <2>1. PICK i, k : Inside(FieldsAsked(p), Len(p), i, k) /\ q[a] = FieldsAsked(p)[i][k]
    BY <1>1, <1>2 DEF Joins, Comes
  <2>2. PICK n \in 1 .. Len(p) : /\ p[n].kind # "function" /\ k \in DOMAIN p[n].identifiers
                                 /\ q[a] = FieldOf(p[n], k)
    BY <1>5, <2>1
  <2>3. VariableIn(p[n], k) \in Variables(p) /\ VariableAs(VariableIn(p[n], k), r[a])
    BY <1>2, <1>4, <2>2, FieldIsVariable
  <2> QED BY <2>3
<1>7. ASSUME NEW v \in Variables(p) PROVE \E a \in DOMAIN r : VariableAs(v, r[a])
  <2>1. PICK d \in ToSet(p) : d.kind = "variable" /\ \E k \in DOMAIN d.identifiers : v = VariableIn(d, k)
    BY DEF Variables, VariableIn
  <2>2. PICK k \in DOMAIN d.identifiers : v = VariableIn(d, k)
    BY <2>1
  <2>3. PICK n \in 1 .. Len(p) : p[n] = d
    BY <1>1 DEF ToSet
  <2>4. PICK i \in 1 .. Len(p) : n = Len(p) + 1 - i
    <3>1. Len(p) + 1 - n \in 1 .. Len(p) /\ n = Len(p) + 1 - (Len(p) + 1 - n)
      BY <1>1
    <3> QED BY <3>1
  <2>5. Inside(FieldsAsked(p), Len(p), i, k) /\ FieldsAsked(p)[i][k] = FieldOf(d, k)
    BY <1>1, <2>1, <2>3, <2>4 DEF Inside, FieldsAsked
  <2>6. PICK a \in DOMAIN q : q[a] = FieldOf(d, k)
    BY <1>1, <2>5 DEF Joins, Goes
  <2>7. VariableAs(v, r[a])
    BY <1>2, <1>4, <2>1, <2>2, <2>3, <2>6, FieldIsVariable
  <2> QED BY <1>2, <2>6, <2>7
<1> QED BY <1>3, <1>6, <1>7 DEF q, r

(* When the names of the requests differ, a name stands for one of them.   *)
Unique(r) == \A a \in DOMAIN r : \A b \in DOMAIN r : r[a].id = r[b].id => a = b

LEMMA FunctionIs ==
  ASSUME NEW p \in Packages, Unique(MethodRequests(p)), NEW a \in DOMAIN MethodRequests(p)
  PROVE  /\ FunctionOf(p, MethodRequests(p)[a].id) \in Functions(p)
         /\ FunctionAs(FunctionOf(p, MethodRequests(p)[a].id), MethodRequests(p)[a])
<1> DEFINE m == MethodRequests(p)[a]
           g == FunctionOf(p, m.id)
<1>1. \E d \in Functions(p) : d.identifiers = <<m.id>>
  BY FunctionsAsked DEF FunctionAs
<1>2. g \in Functions(p) /\ g.identifiers = <<m.id>>
  BY <1>1 DEF FunctionOf
<1>3. PICK b \in DOMAIN MethodRequests(p) : FunctionAs(g, MethodRequests(p)[b])
  BY <1>2, FunctionsAsked
<1>4. MethodRequests(p)[b].id = m.id
  <2>1. <<m.id>> = <<MethodRequests(p)[b].id>>
    BY <1>2, <1>3 DEF FunctionAs
  <2> QED BY <2>1
<1>5. a = b
  BY <1>4 DEF Unique
<1> QED BY <1>2, <1>3, <1>5

LEMMA VariableIs ==
  ASSUME NEW p \in Packages, CountsOK(p), Unique(BlanksNamed(FieldRequests(p))), NEW v \in Variables(p), v.id # "_"
  PROVE  /\ VariableOf(p, v.id) \in Variables(p)
         /\ VariableOf(p, v.id).isConst = v.isConst /\ VariableOf(p, v.id).values = v.values
<1> DEFINE r == BlanksNamed(FieldRequests(p))
           w == VariableOf(p, v.id)
<1>1. w \in Variables(p) /\ w.id = v.id
  BY DEF VariableOf, Named
<1>2. PICK a \in DOMAIN r : VariableAs(v, r[a])
  BY VariablesAsked
<1>3. PICK b \in DOMAIN r : VariableAs(w, r[b])
  BY <1>1, VariablesAsked
<1>4. a = b
  BY <1>1, <1>2, <1>3 DEF VariableAs, Unique
<1> QED BY <1>1, <1>2, <1>3, <1>4 DEF VariableAs

-----------------------------------------------------------------------------
(* The maps hold what was requested, under different names, and all of it  *)
(* unless an error is reported.                                            *)

Alike(f, r, typed) == f.id = r.id /\ f.value = r.value /\ (typed \/ r.value = <<>> => f.type = r.type)

Distinct(map) == \A i \in DOMAIN map : \A j \in DOMAIN map : map[i].id = map[j].id => i = j

Comprises(map, r, typed) == \E i \in DOMAIN map : Alike(map[i], r, typed)

MapOK(map, requests, n, typed, e) ==
  /\ Distinct(map)
  /\ \A i \in DOMAIN map : \E a \in 1 .. n - 1 : Alike(map[i], requests[a], typed)
  /\ e = {} => /\ \A a \in 1 .. n - 1 : Comprises(map, requests[a], typed)
               /\ \A a \in 1 .. n - 1 : \A b \in 1 .. n - 1 : requests[a].id = requests[b].id => a = b

LEMMA EmptyMapOK == ASSUME NEW requests, NEW typed, NEW e PROVE MapOK(<<>>, requests, 1, typed, e)
<1>1. 1 .. 1 - 1 = {} /\ DOMAIN <<>> = {}
  OBVIOUS
<1> QED BY <1>1 DEF MapOK, Distinct

LEMMA InsertedIs ==
  ASSUME NEW S, NEW map \in Seq(S), NEW entry, NEW place \in 1 .. (Len(map) + 1),
         NEW r, r = InsertAt(map, place, entry)
  PROVE  /\ DOMAIN r = 1 .. (Len(map) + 1)
         /\ \A i \in DOMAIN r : r[i] = IF i = place THEN entry ELSE map[IF i < place THEN i ELSE i - 1]
<1> DEFINE a == SubSeq(map, 1, place - 1)
           b == SubSeq(map, place, Len(map))
<1>1. r = (a \o <<entry>>) \o b
  BY DEF InsertAt
<1>2. /\ a \in Seq(S) /\ Len(a) = place - 1
      /\ \A i \in 1 .. place - 1 : a[i] = map[i]
  OBVIOUS
<1>3. /\ b \in Seq(S) /\ Len(b) = Len(map) + 1 - place
      /\ \A i \in 1 .. Len(map) + 1 - place : b[i] = map[place + i - 1]
  OBVIOUS
<1> HIDE DEF a, b
<1> DEFINE c == a \o <<entry>>
<1>4. /\ c \in Seq(S \cup {entry}) /\ Len(c) = place
      /\ \A i \in 1 .. place : c[i] = IF i = place THEN entry ELSE map[i]
  BY <1>2
<1> HIDE DEF c
<1>5. r = c \o b /\ b \in Seq(S \cup {entry})
  BY <1>1, <1>3 DEF c
<1>6. DOMAIN r = 1 .. (Len(map) + 1)
  BY <1>3, <1>4, <1>5
<1>7. ASSUME NEW i \in DOMAIN r
      PROVE  r[i] = IF i = place THEN entry ELSE map[IF i < place THEN i ELSE i - 1]
  <2>1. CASE i <= place
    BY <1>3, <1>4, <1>5, <1>6, <2>1
  <2>2. CASE i > place
    <3>1. r[i] = b[i - place]
      BY <1>3, <1>4, <1>5, <1>6, <2>2
    <3>2. i - place \in 1 .. Len(map) + 1 - place /\ place + (i - place) - 1 = i - 1
      BY <1>6, <2>2
    <3>3. b[i - place] = map[place + (i - place) - 1]
      BY <1>3, <3>2
    <3>4. i # place /\ ~(i < place)
      BY <1>6, <2>2
    <3> QED BY <3>1, <3>2, <3>3, <3>4
  <2> QED BY <1>6, <2>1, <2>2
<1> QED BY <1>6, <1>7

(* One entry more: the old ones keep their order around it.                *)
LEMMA EntryAdded ==
  ASSUME NEW map, IsSequence(map), NEW entry, ~Holds(map, entry.id), NEW r, r = TryEmplace(map, entry)
  PROVE  /\ IsSequence(r)
         /\ \A j \in DOMAIN map : \E i \in DOMAIN r : r[i] = map[j]
         /\ \E i \in DOMAIN r : r[i] = entry
         /\ \A i \in DOMAIN r : r[i] = entry \/ \E j \in DOMAIN map : r[i] = map[j]
         /\ Distinct(map) => Distinct(r)
<1>1. PICK S : map \in Seq(S)
  BY DEF IsSequence
<1>2. PICK place \in 1 .. (Len(map) + 1) : r = InsertAt(map, place, entry)
  BY EmplacedAt
<1>3. DOMAIN r = 1 .. (Len(map) + 1)
      /\ \A i \in DOMAIN r : r[i] = IF i = place THEN entry ELSE map[IF i < place THEN i ELSE i - 1]
  BY <1>1, <1>2, InsertedIs
<1>4. /\ \E i \in DOMAIN r : r[i] = entry
      /\ \A j \in DOMAIN map : \E i \in DOMAIN r : r[i] = map[j]
  BY <1>1, <1>2, InsertedAll
<1>5. IsSequence(r) /\ \A i \in DOMAIN r : r[i] = entry \/ \E j \in DOMAIN map : r[i] = map[j]
  BY <1>1, <1>2, Inserted DEF AddsEntry
<1>6. ASSUME Distinct(map) PROVE Distinct(r)
  <2> DEFINE old(i) == IF i < place THEN i ELSE i - 1
  <2>1. DOMAIN map = 1 .. Len(map) /\ Len(map) \in Nat
    BY MapFacts
  <2>2. ASSUME NEW i \in DOMAIN r, i # place
        PROVE  old(i) \in DOMAIN map /\ r[i] = map[old(i)] /\ r[i].id # entry.id
    <3>1. old(i) \in DOMAIN map
      BY <1>3, <2>1, <2>2
    <3>2. r[i] = map[old(i)]
      BY <1>3, <2>2
    <3> QED BY <3>1, <3>2 DEF Holds
  <2>3. ASSUME NEW i \in DOMAIN r, NEW j \in DOMAIN r, r[i].id = r[j].id PROVE i = j
    <3>1. r[place] = entry
      BY <1>2, <1>3
    <3>2. CASE i = place
      BY <2>2, <2>3, <3>1, <3>2
    <3>3. CASE j = place
      BY <2>2, <2>3, <3>1, <3>3
    <3>4. CASE i # place /\ j # place
      <4>1. old(i) = old(j)
        <5>1. old(i) \in DOMAIN map /\ old(j) \in DOMAIN map
          BY <2>2, <3>4
        <5>2. map[old(i)].id = map[old(j)].id
          BY <2>2, <2>3, <3>4
        <5> HIDE DEF old
        <5> QED BY <1>6, <5>1, <5>2 DEF Distinct
      <4> QED BY <1>2, <1>3, <2>1, <3>4, <4>1
    <3> QED BY <3>2, <3>3, <3>4
  <2> QED BY <2>3 DEF Distinct
<1> QED BY <1>4, <1>5, <1>6

LEMMA Emplacing ==
  ASSUME NEW map, IsSequence(map), NEW requests, NEW n \in Nat \ {0}, NEW typed, NEW e,
         MapOK(map, requests, n, typed, e), NEW r, r = TryEmplace(map, requests[n]),
         NEW d, d = e \cup Redeclared(map, requests[n].id)
  PROVE  MapOK(r, requests, n + 1, typed, d)
<1> DEFINE entry == requests[n]
<1>1. 1 .. n + 1 - 1 = (1 .. n - 1) \cup {n} /\ n \notin 1 .. n - 1
  OBVIOUS
<1>2. CASE Holds(map, entry.id)
  <2>1. r = map
    BY <1>2 DEF TryEmplace
  <2>2. d # {}
    BY <1>2 DEF Redeclared
  <2> QED BY <1>1, <2>1, <2>2 DEF MapOK
<1>3. CASE ~Holds(map, entry.id)
  <2>1. /\ \A j \in DOMAIN map : \E i \in DOMAIN r : r[i] = map[j]
        /\ \E i \in DOMAIN r : r[i] = entry
        /\ \A i \in DOMAIN r : r[i] = entry \/ \E j \in DOMAIN map : r[i] = map[j]
        /\ Distinct(r)
    BY <1>3, EntryAdded DEF MapOK
  <2>2. Alike(entry, entry, typed)
    BY DEF Alike
  <2>3. \A i \in DOMAIN r : \E a \in 1 .. n + 1 - 1 : Alike(r[i], requests[a], typed)
    BY <1>1, <2>1, <2>2 DEF MapOK
  <2>4. ASSUME d = {}
        PROVE  /\ \A a \in 1 .. n + 1 - 1 : Comprises(r, requests[a], typed)
               /\ \A a \in 1 .. n + 1 - 1 : \A b \in 1 .. n + 1 - 1 : requests[a].id = requests[b].id => a = b
    <3>1. e = {}
      BY <2>4
    <3>2. \A a \in 1 .. n - 1 : Comprises(r, requests[a], typed)
      BY <2>1, <3>1 DEF MapOK, Comprises
    <3>3. Comprises(r, requests[n], typed)
      BY <2>1, <2>2 DEF Comprises
    <3>4. \A a \in 1 .. n - 1 : requests[a].id # entry.id
      BY <1>3, <3>1 DEF MapOK, Comprises, Holds, Alike
    <3> QED BY <1>1, <3>1, <3>2, <3>3, <3>4 DEF MapOK
  <2> QED BY <2>1, <2>3, <2>4 DEF MapOK
<1> QED BY <1>2, <1>3

LEMMA MoreErrors ==
  ASSUME NEW map, NEW requests, NEW n, NEW typed, NEW e, MapOK(map, requests, n, typed, e), NEW d, e \subseteq d
  PROVE  MapOK(map, requests, n, typed, d)
BY DEF MapOK

LEMMA Retyped ==
  ASSUME NEW map, NEW requests, NEW n, NEW e, MapOK(map, requests, n, FALSE, e), NEW r, DOMAIN r = DOMAIN map,
         \A i \in DOMAIN map : /\ r[i].id = map[i].id /\ r[i].value = map[i].value
                               /\ map[i].value = <<>> => r[i].type = map[i].type
  PROVE  MapOK(r, requests, n, FALSE, e)
<1>1. \A i \in DOMAIN map : \A f : Alike(map[i], f, FALSE) => Alike(r[i], f, FALSE)
  BY DEF Alike
<1> QED BY <1>1 DEF MapOK, Distinct, Comprises

FieldsNamed(p) == BlanksNamed(FieldRequests(p))

(* How many requests were made.                                            *)
MethodsTo == IF stage = "methods" THEN next ELSE Len(MethodRequests(package)) + 1
FieldsTo ==
  IF stage = "fields" THEN next ELSE IF stage = "methods" THEN 1 ELSE Len(FieldsNamed(package)) + 1

ConstsTo(p, n) == {FieldsNamed(p)[a].id : a \in {b \in 1 .. n - 1 : FieldsNamed(p)[b].isConst}}

Accepted == (AfterFields \ {"analyze methods"}) \cup {"written"}
Mapped == {"methods", "fields", "analyze fields", "analyze methods"} \cup Accepted

MapsOK ==
  /\ stage = "scope" =>
       methods = <<>> /\ fields = <<>> /\ consts = {} /\ scope = <<>> /\ errors = {} /\ next = 1
  /\ stage \in Mapped =>
       /\ MainErrors(package) = {}
       /\ MapOK(methods, MethodRequests(package), MethodsTo, TRUE, errors)
       /\ MapOK(fields, FieldsNamed(package), FieldsTo, FALSE, errors)
       /\ consts = ConstsTo(package, FieldsTo)
  /\ stage \in Accepted => errors = {}

LEMMA StartMaps == Start => MapsOK
BY DEF Start, Init, MapsOK, Mapped, Accepted, AfterFields

LEMMA ScopeMaps == MapsOK /\ AnalyzePackageScope => MapsOK'
<1> SUFFICES ASSUME MapsOK, AnalyzePackageScope PROVE MapsOK'
  OBVIOUS
<1>1. /\ package' = package /\ methods' = methods /\ fields' = fields /\ consts' = consts
      /\ errors' = MainErrors(package) /\ next' = next
      /\ stage' = IF errors' = {} THEN "methods" ELSE "rejected"
      /\ methods = <<>> /\ fields = <<>> /\ consts = {} /\ next = 1
  BY DEF AnalyzePackageScope, MapsOK
<1>2. CASE errors' # {}
  BY <1>1, <1>2 DEF MapsOK, Mapped, Accepted, AfterFields
<1>3. CASE errors' = {}
  <2>1. stage' = "methods"
    BY <1>1, <1>3
  <2>2. MethodsTo' = 1 /\ FieldsTo' = 1
    BY <1>1, <2>1 DEF MethodsTo, FieldsTo
  <2>3. MapOK(methods', MethodRequests(package)', MethodsTo', TRUE, errors')
    BY <1>1, <2>2, EmptyMapOK
  <2>4. MapOK(fields', FieldsNamed(package)', FieldsTo', FALSE, errors')
    BY <1>1, <2>2, EmptyMapOK
  <2>5. consts' = ConstsTo(package, FieldsTo)'
    <3>1. \A p : ConstsTo(p, 1) = {}
      <4>1. 1 .. 1 - 1 = {}
        OBVIOUS
      <4> QED BY <4>1 DEF ConstsTo
    <3> QED BY <1>1, <2>2, <3>1 DEF ConstsTo
  <2> QED BY <1>1, <1>3, <2>1, <2>3, <2>4, <2>5 DEF MapsOK, Accepted, AfterFields
<1> QED BY <1>2, <1>3

LEMMA AddMethodMaps == IInv /\ AnalysisOK /\ MapsOK /\ AddMethod => MapsOK'
<1> DEFINE requests == MethodRequests(package)
           m == requests[next]
<1> SUFFICES ASSUME IInv, AnalysisOK, MapsOK, AddMethod PROVE MapsOK'
  OBVIOUS
<1>1. /\ stage = "methods" /\ package' = package /\ fields' = fields /\ consts' = consts
      /\ methods' = TryEmplace(methods, m) /\ errors' = errors \cup Redeclared(methods, m.id)
      /\ \/ next < Len(requests) /\ stage' = stage /\ next' = next + 1
         \/ /\ ~(next < Len(requests)) /\ next' = 1
            /\ stage' = IF FieldsNamed(package) = <<>> THEN "analyze methods" ELSE "fields"
  BY DEF AddMethod, Continue, FieldsNamed
<1>2. next \in DOMAIN requests /\ IsSequence(methods) /\ IsSequence(requests)
  BY <1>1, RequestsOK DEF IInv, Iterated, MethodsOK
<1>3. next \in Nat \ {0} /\ next <= Len(requests) /\ Len(requests) \in Nat
  BY <1>2, MapFacts
<1>4. MethodsTo = next /\ FieldsTo = 1
  BY <1>1 DEF MethodsTo, FieldsTo
<1>5. /\ MapOK(methods, requests, next, TRUE, errors) /\ MapOK(fields, FieldsNamed(package), 1, FALSE, errors)
      /\ consts = ConstsTo(package, 1) /\ MainErrors(package) = {}
  BY <1>1, <1>4 DEF MapsOK, Mapped
<1>6. MapOK(methods', requests, next + 1, TRUE, errors')
  <2> DEFINE r == methods'
             d == errors'
  <2>1. r = TryEmplace(methods, requests[next]) /\ d = errors \cup Redeclared(methods, requests[next].id)
    BY <1>1
  <2> HIDE DEF r, d, requests
  <2>2. MapOK(r, requests, next + 1, TRUE, d)
    BY <1>2, <1>3, <1>5, <2>1, Emplacing
  <2> QED BY <2>2 DEF r, d, requests
<1>7. MapOK(fields', FieldsNamed(package), 1, FALSE, errors')
  BY <1>1, <1>5, MoreErrors
<1>8. MethodsTo' = next + 1
  <2>1. CASE next < Len(requests)
    BY <1>1, <2>1 DEF MethodsTo
  <2>2. CASE ~(next < Len(requests))
    <3>1. next = Len(requests)
      BY <1>3, <2>2
    <3>2. stage' # "methods"
      BY <1>1, <2>2
    <3> QED BY <1>1, <3>1, <3>2 DEF MethodsTo
  <2> QED BY <2>1, <2>2
<1>9. FieldsTo' = 1
  <2>1. CASE FieldsNamed(package) = <<>> /\ stage' = "analyze methods"
    <3>1. FieldsTo' = Len(FieldsNamed(package)') + 1
      BY <2>1 DEF FieldsTo
    <3>2. FieldsNamed(package)' = <<>>
      BY <1>1, <2>1 DEF FieldsNamed
    <3>3. Len(<<>>) = 0
      OBVIOUS
    <3> QED BY <3>1, <3>2, <3>3
  <2>2. CASE stage' = "methods"
    BY <2>2 DEF FieldsTo
  <2>3. CASE stage' = "fields" /\ next' = 1
    BY <2>3 DEF FieldsTo
  <2>4. \/ stage' = "methods" \/ (stage' = "fields" /\ next' = 1)
        \/ (FieldsNamed(package) = <<>> /\ stage' = "analyze methods")
    BY <1>1
  <2> QED BY <2>1, <2>2, <2>3, <2>4
<1>10. stage' \in {"methods", "fields", "analyze methods"}
  BY <1>1
<1>11. MapOK(methods', MethodRequests(package)', MethodsTo', TRUE, errors')
  BY <1>1, <1>6, <1>8
<1>12. MapOK(fields', FieldsNamed(package)', FieldsTo', FALSE, errors')
  BY <1>1, <1>7, <1>9 DEF FieldsNamed
<1>13. consts' = ConstsTo(package, FieldsTo)'
  BY <1>1, <1>5, <1>9 DEF ConstsTo, FieldsNamed
<1> QED BY <1>1, <1>5, <1>10, <1>11, <1>12, <1>13 DEF MapsOK, Accepted, AfterFields

LEMMA AddFieldMaps == IInv /\ MapsOK /\ AddField => MapsOK'
<1> DEFINE requests == FieldsNamed(package)
           f == requests[next]
<1> SUFFICES ASSUME IInv, MapsOK, AddField PROVE MapsOK'
  OBVIOUS
<1>1. /\ stage = "fields" /\ package' = package /\ methods' = methods
      /\ consts' = consts \cup (IF f.isConst THEN {f.id} ELSE {})
      /\ fields' = TryEmplace(fields, f) /\ errors' = errors \cup Redeclared(fields, f.id)
      /\ \/ next < Len(requests) /\ stage' = stage /\ next' = next + 1
         \/ ~(next < Len(requests)) /\ next' = 1 /\ stage' = "analyze fields"
  BY DEF AddField, Continue, FieldsNamed
<1>2. next \in DOMAIN requests /\ IsSequence(fields) /\ IsSequence(requests)
  BY <1>1, RequestsOK DEF IInv, Iterated, FieldsOK, FieldsNamed
<1>3. next \in Nat \ {0} /\ next <= Len(requests) /\ Len(requests) \in Nat
  BY <1>2, MapFacts
<1>4. MethodsTo = Len(MethodRequests(package)) + 1 /\ FieldsTo = next
  BY <1>1 DEF MethodsTo, FieldsTo
<1>5. /\ MapOK(methods, MethodRequests(package), Len(MethodRequests(package)) + 1, TRUE, errors)
      /\ MapOK(fields, requests, next, FALSE, errors)
      /\ consts = ConstsTo(package, next) /\ MainErrors(package) = {}
  BY <1>1, <1>4 DEF MapsOK, Mapped
<1>6. MapOK(fields', requests, next + 1, FALSE, errors')
  <2> DEFINE r == fields'
             d == errors'
  <2>1. r = TryEmplace(fields, requests[next]) /\ d = errors \cup Redeclared(fields, requests[next].id)
    BY <1>1
  <2> HIDE DEF r, d, requests
  <2>2. MapOK(r, requests, next + 1, FALSE, d)
    BY <1>2, <1>3, <1>5, <2>1, Emplacing
  <2> QED BY <2>2 DEF r, d, requests
<1>7. consts' = ConstsTo(package, next + 1)
  <2> HIDE DEF requests
  <2>1. 1 .. next + 1 - 1 = (1 .. next - 1) \cup {next}
    BY <1>3
  <2>2. ConstsTo(package, next + 1) = ConstsTo(package, next) \cup (IF f.isConst THEN {f.id} ELSE {})
    BY <2>1 DEF ConstsTo, requests
  <2> QED BY <1>1, <1>5, <2>2 DEF requests
<1>8. FieldsTo' = next + 1
  <2>1. CASE next < Len(requests)
    BY <1>1, <2>1 DEF FieldsTo
  <2>2. CASE ~(next < Len(requests))
    <3>1. next = Len(requests)
      BY <1>3, <2>2
    <3>2. FieldsTo' = Len(FieldsNamed(package)') + 1
      BY <1>1, <2>2 DEF FieldsTo
    <3>3. FieldsNamed(package)' = FieldsNamed(package)
      BY <1>1 DEF FieldsNamed
    <3> QED BY <3>1, <3>2, <3>3
  <2> QED BY <2>1, <2>2
<1>9. stage' \in {"fields", "analyze fields"}
  BY <1>1
<1>10. MethodsTo' = Len(MethodRequests(package)) + 1
  BY <1>1, <1>9 DEF MethodsTo
<1>11. MapOK(methods, MethodRequests(package), Len(MethodRequests(package)) + 1, TRUE, errors')
  BY <1>1, <1>5, MoreErrors
<1>12. MapOK(methods', MethodRequests(package)', MethodsTo', TRUE, errors')
  BY <1>1, <1>10, <1>11
<1>13. MapOK(fields', FieldsNamed(package)', FieldsTo', FALSE, errors')
  BY <1>1, <1>6, <1>8 DEF FieldsNamed
<1>14. consts' = ConstsTo(package, FieldsTo)'
  BY <1>1, <1>7, <1>8 DEF ConstsTo, FieldsNamed
<1> QED BY <1>1, <1>5, <1>9, <1>12, <1>13, <1>14 DEF MapsOK, Accepted, AfterFields

(* The later steps keep the maps, up to the types of initialised fields.   *)
LEMMA MapsStay ==
  ASSUME MapsOK, package' = package, methods' = methods, consts' = consts, errors \subseteq errors',
         stage \in Mapped \ {"methods", "fields"},
         DOMAIN fields' = DOMAIN fields,
         \A i \in DOMAIN fields : /\ fields'[i].id = fields[i].id /\ fields'[i].value = fields[i].value
                                  /\ fields[i].value = <<>> => fields'[i].type = fields[i].type,
         stage' \in Mapped \ {"methods", "fields"},
         stage' \in Accepted => errors' = {}
  PROVE  MapsOK'
<1>1. /\ MethodsTo = Len(MethodRequests(package)) + 1 /\ MethodsTo' = Len(MethodRequests(package)) + 1
      /\ FieldsTo = Len(FieldsNamed(package)) + 1 /\ FieldsTo' = Len(FieldsNamed(package)) + 1
  BY DEF MethodsTo, FieldsTo, FieldsNamed
<1>2. /\ MapOK(methods, MethodRequests(package), MethodsTo, TRUE, errors)
      /\ MapOK(fields, FieldsNamed(package), FieldsTo, FALSE, errors)
      /\ consts = ConstsTo(package, FieldsTo) /\ MainErrors(package) = {}
  BY DEF MapsOK
<1>3. MapOK(methods, MethodRequests(package), Len(MethodRequests(package)) + 1, TRUE, errors')
  BY <1>1, <1>2, MoreErrors
<1>4. MapOK(fields, FieldsNamed(package), Len(FieldsNamed(package)) + 1, FALSE, errors')
  BY <1>1, <1>2, MoreErrors
<1>5. MapOK(fields', FieldsNamed(package), Len(FieldsNamed(package)) + 1, FALSE, errors')
  <2> DEFINE r == fields'
             d == errors'
             requests == FieldsNamed(package)
             n == Len(FieldsNamed(package)) + 1
  <2>1. /\ MapOK(fields, requests, n, FALSE, d) /\ DOMAIN r = DOMAIN fields
        /\ \A i \in DOMAIN fields : /\ r[i].id = fields[i].id /\ r[i].value = fields[i].value
                                    /\ fields[i].value = <<>> => r[i].type = fields[i].type
    BY <1>4
  <2> HIDE DEF r, d, requests, n
  <2>2. MapOK(r, requests, n, FALSE, d)
    BY <2>1, Retyped
  <2> QED BY <2>2 DEF r, d, requests, n
<1>6. MapOK(methods', MethodRequests(package)', MethodsTo', TRUE, errors')
  BY <1>1, <1>3
<1>7. MapOK(fields', FieldsNamed(package)', FieldsTo', FALSE, errors')
  BY <1>1, <1>5 DEF FieldsNamed
<1>8. consts' = ConstsTo(package, FieldsTo)'
  BY <1>1, <1>2 DEF ConstsTo, FieldsNamed
<1>9. stage' # "scope"
  BY DEF Mapped, Accepted, AfterFields
<1> QED BY <1>2, <1>6, <1>7, <1>8, <1>9 DEF MapsOK

(* What the analysis of a field without errors does.                       *)
Analysed(f, s, t, c, type) ==
  LET e == f.value[1] IN
  /\ type = ExpressionType(s, e) /\ type # "Invalid"
  /\ t = Bind(s, f.id, ScopeEntry(s, e, type, f.id \in c))
  /\ f.id \in c => IsConstExpression(s, e)

LEMMA FieldEffect ==
  ASSUME IInv, AnalyzeField
  PROVE  /\ next \in DOMAIN fields /\ DOMAIN fields' = DOMAIN fields /\ errors \subseteq errors'
         /\ \A i \in DOMAIN fields :
              /\ fields'[i].id = fields[i].id /\ fields'[i].value = fields[i].value
              /\ i # next \/ fields[i].value = <<>> => fields'[i] = fields[i]
         /\ fields[next].value = <<>> => scope' = scope
         /\ fields[next].value # <<>> /\ errors' = {} =>
              Analysed(fields[next], scope, scope', consts, fields'[next].type)
<1> DEFINE f == fields[next]
           e == f.value[1]
           type == ExpressionType(scope, e)
<1>1. next \in DOMAIN fields /\ IsSequence(fields)
  BY DEF IInv, Iterated, AnalyzeField, FieldsOK
<1>2. PICK S : fields \in Seq(S)
  BY <1>1 DEF IsSequence
<1>3. \/ f.value = <<>> /\ fields' = fields /\ scope' = scope /\ errors' = errors
      \/ f.value # <<>> /\ fields' = fields /\ errors \subseteq errors' /\ errors' # {}
      \/ /\ f.value # <<>> /\ errors' = errors \cup ExpressionErrors(scope, e)
         /\ scope' = Bind(scope, f.id, ScopeEntry(scope, e, type, f.id \in consts))
         /\ fields' = [fields EXCEPT ![next].type = type]
         /\ f.id \in consts => IsConstExpression(scope, e)
  BY DEF AnalyzeField
<1>4. CASE /\ fields' = fields /\ errors \subseteq errors'
           /\ (f.value = <<>> /\ scope' = scope) \/ (f.value # <<>> /\ errors' # {})
  BY <1>1, <1>4, FieldTyped
<1>5. CASE /\ f.value # <<>> /\ errors' = errors \cup ExpressionErrors(scope, e)
           /\ scope' = Bind(scope, f.id, ScopeEntry(scope, e, type, f.id \in consts))
           /\ fields' = [fields EXCEPT ![next].type = type]
           /\ f.id \in consts => IsConstExpression(scope, e)
  <2>1. PICK g : g = [fields[next] EXCEPT !.type = type]
    OBVIOUS
  <2>2. fields' = [fields EXCEPT ![next] = g]
    BY <1>5, <2>1
  <2>3. DOMAIN fields' = DOMAIN fields /\ \A i \in DOMAIN fields : fields'[i] = IF i = next THEN g ELSE fields[i]
    BY <1>1, <1>2, <2>2
  <2>4. g.type = type
    BY <1>1, <2>1 DEF IInv, FieldsOK, FieldOK
  <2>5. fields[next].value # <<>> => f.value # <<>>
    OBVIOUS
  <2>6. errors' = {} => ExpressionErrors(scope, e) = {}
    BY <1>5
  <2>7. ExpressionErrors(scope, e) = {} => type # "Invalid"
    BY DEF ExpressionErrors
  <2>8. fields'[next].type = type
    BY <1>1, <2>3, <2>4
  <2>9. errors' = {} => Analysed(f, scope, scope', consts, fields'[next].type)
    BY <1>5, <2>6, <2>7, <2>8 DEF Analysed
  <2> QED BY <1>1, <1>5, <2>3, <2>9, FieldTyped
<1> QED BY <1>3, <1>4, <1>5

LEMMA AnalyzeFieldMaps == IInv /\ MapsOK /\ AnalyzeField => MapsOK'
<1> SUFFICES ASSUME IInv, MapsOK, AnalyzeField PROVE MapsOK'
  OBVIOUS
<1>1. /\ stage = "analyze fields" /\ package' = package /\ methods' = methods /\ consts' = consts
      /\ stage' \in {"analyze fields", "analyze methods"}
  BY DEF AnalyzeField, Continue
<1>2. stage \in Mapped \ {"methods", "fields"} /\ stage' \in Mapped \ {"methods", "fields"} /\ stage' \notin Accepted
  BY <1>1 DEF Mapped, Accepted, AfterFields
<1> QED BY <1>1, <1>2, FieldEffect, MapsStay

(* Nothing that follows the analysis changes what it has made.             *)
Coding ==
  \/ FillHead \/ FillField \/ FillMethod \/ GenerateHead \/ GenerateField
  \/ GenerateConstructor \/ GenerateInitialiser \/ GenerateClinit \/ GenerateMethod
  \/ WriteClassFile

LEMMA CodingKeeps ==
  ASSUME Coding
  PROVE  /\ stage \in Accepted /\ stage' \in Accepted
         /\ package' = package /\ fields' = fields /\ methods' = methods /\ consts' = consts
         /\ errors' = errors /\ scope' = scope
<1>1. /\ stage \in Accepted /\ stage' \in Accepted
      /\ UNCHANGED <<package, analysis>>
  BY DEF Coding, FillHead, FillField, FillMethod, GenerateHead, GenerateField,
         GenerateConstructor, GenerateInitialiser, GenerateClinit, GenerateMethod, WriteClassFile,
         Continue, Accepted, AfterFields
<1> QED BY <1>1 DEF analysis

LEMMA AnalyzeMethodMaps == MapsOK /\ AnalyzeMethod => MapsOK'
<1> SUFFICES ASSUME MapsOK, AnalyzeMethod PROVE MapsOK'
  OBVIOUS
<1>1. /\ stage = "analyze methods" /\ MapsKept /\ consts' = consts /\ errors \subseteq errors'
      /\ stage' \in {"analyze methods", "rejected"} \/ (stage' = "pool" /\ errors' = {})
  BY DEF AnalyzeMethod, Continue, MapsKept
<1>2. CASE stage' = "rejected"
  BY <1>2 DEF MapsOK, Mapped, Accepted, AfterFields
<1>3. CASE stage' # "rejected"
  <2>1. stage \in Mapped \ {"methods", "fields"} /\ stage' \in Mapped \ {"methods", "fields"}
        /\ (stage' \in Accepted => errors' = {})
    BY <1>1, <1>3 DEF Mapped, Accepted, AfterFields
  <2> QED BY <1>1, <2>1, MapsStay DEF MapsKept
<1> QED BY <1>2, <1>3

LEMMA CodingMaps == MapsOK /\ Coding => MapsOK'
<1> SUFFICES ASSUME MapsOK, Coding PROVE MapsOK'
  OBVIOUS
<1>1. stage \in Mapped \ {"methods", "fields"} /\ stage' \in Mapped \ {"methods", "fields"} /\ errors' = {}
  BY CodingKeeps DEF MapsOK, Mapped, Accepted, AfterFields
<1> QED BY <1>1, CodingKeeps, MapsStay

-----------------------------------------------------------------------------
(* What the maps say of the package.                                       *)

LEMMA Ranges ==
  ASSUME IInv, stage \in Mapped
  PROVE  /\ \A a \in 1 .. MethodsTo - 1 : a \in DOMAIN MethodRequests(package)
         /\ \A a \in 1 .. FieldsTo - 1 : a \in DOMAIN FieldsNamed(package)
         /\ stage # "methods" => \A a \in DOMAIN MethodRequests(package) : a \in 1 .. MethodsTo - 1
         /\ stage \notin {"methods", "fields"} => \A a \in DOMAIN FieldsNamed(package) : a \in 1 .. FieldsTo - 1
<1> DEFINE ms == MethodRequests(package)
           fs == FieldsNamed(package)
<1>1. IsSequence(ms) /\ IsSequence(fs)
  BY RequestsOK DEF IInv, FieldsOK, MethodsOK, FieldsNamed
<1>2. /\ DOMAIN ms = 1 .. Len(ms) /\ Len(ms) \in Nat
      /\ DOMAIN fs = 1 .. Len(fs) /\ Len(fs) \in Nat
  BY <1>1, MapFacts
<1>3. /\ stage = "methods" => next \in DOMAIN ms
      /\ stage = "fields" => next \in DOMAIN fs
  BY DEF IInv, Iterated, FieldsNamed
<1> HIDE DEF ms, fs
<1>4. MethodsTo = IF stage = "methods" THEN next ELSE Len(ms) + 1
  BY DEF MethodsTo, ms
<1>5. FieldsTo = IF stage = "fields" THEN next ELSE IF stage = "methods" THEN 1 ELSE Len(fs) + 1
  BY DEF FieldsTo, fs
<1>6. MethodsTo \in 1 .. Len(ms) + 1 /\ FieldsTo \in 1 .. Len(fs) + 1
  BY <1>2, <1>3, <1>4, <1>5
<1>7. /\ \A a \in 1 .. MethodsTo - 1 : a \in DOMAIN ms
      /\ \A a \in 1 .. FieldsTo - 1 : a \in DOMAIN fs
  BY <1>2, <1>6
<1>8. stage # "methods" => \A a \in DOMAIN ms : a \in 1 .. MethodsTo - 1
  BY <1>2, <1>4
<1>9. stage \notin {"methods", "fields"} => \A a \in DOMAIN fs : a \in 1 .. FieldsTo - 1
  BY <1>2, <1>5
<1> QED BY <1>7, <1>8, <1>9 DEF ms, fs

VariableFor(v, f) ==
  /\ v.values = f.value
  /\ IF v.id = "_" THEN f.id \in ToSet(BlankNames) ELSE f.id = v.id
  /\ f.value = <<>> => f.type \in NamedTypes \cup {"Any"}

LEMMA MethodEntry ==
  ASSUME IInv, MapsOK, stage \in Mapped, NEW i \in DOMAIN methods
  PROVE  methods[i] \in MethodSet /\ \E d \in Functions(package) : FunctionAs(d, methods[i])
<1>1. methods[i] \in MethodSet /\ package \in Packages
  BY DEF IInv, MethodsOK, MethodOK
<1>2. PICK a \in 1 .. MethodsTo - 1 : Alike(methods[i], MethodRequests(package)[a], TRUE)
  BY DEF MapsOK, MapOK
<1>3. a \in DOMAIN MethodRequests(package)
  BY Ranges
<1>4. PICK m : m = MethodRequests(package)[a]
  OBVIOUS
<1>5. m \in MethodSet /\ \E d \in Functions(package) : FunctionAs(d, m)
  BY <1>1, <1>3, <1>4, FunctionsAsked
<1>6. methods[i] = m
  BY <1>1, <1>2, <1>4, <1>5 DEF Alike, MethodSet
<1> QED BY <1>1, <1>5, <1>6

LEMMA FieldEntry ==
  ASSUME IInv, MapsOK, stage \in Mapped, CountsOK(package), NEW i \in DOMAIN fields
  PROVE  fields[i].id \in FieldIds /\ \E v \in Variables(package) : VariableFor(v, fields[i])
<1>1. package \in Packages /\ fields[i].id \in FieldIds
  BY DEF IInv, FieldsOK, FieldOK
<1>2. PICK a \in 1 .. FieldsTo - 1 : Alike(fields[i], FieldsNamed(package)[a], FALSE)
  BY DEF MapsOK, MapOK
<1>3. a \in DOMAIN FieldsNamed(package)
  BY Ranges
<1>4. PICK v \in Variables(package) : VariableAs(v, FieldsNamed(package)[a])
  BY <1>1, <1>3, VariablesAsked DEF FieldsNamed
<1>5. VariableFor(v, fields[i])
  BY <1>2, <1>4 DEF VariableFor, VariableAs, Alike
<1> QED BY <1>1, <1>5

LEMMA CallablesAre ==
  ASSUME IInv, MapsOK, stage \in Mapped PROVE Callables(methods) \subseteq FunctionIds(package)
<1> SUFFICES ASSUME NEW i \in DOMAIN methods, methods[i].id # "_" PROVE methods[i].id \in FunctionIds(package)
  BY DEF Callables, Ids
<1>1. PICK d \in Functions(package) : FunctionAs(d, methods[i])
  BY MethodEntry
<1>2. d.identifiers[1] = methods[i].id
  BY <1>1, FunctionParts
<1> QED BY <1>2 DEF FunctionIds

LEMMA FieldName ==
  ASSUME IInv, MapsOK, stage \in Mapped, CountsOK(package), NEW i \in DOMAIN fields
  PROVE  fields[i].id \in VariableIds(package) \cup ToSet(BlankNames) /\ fields[i].id # "_"
<1>1. PICK v \in Variables(package) : VariableFor(v, fields[i])
  BY FieldEntry
<1>2. fields[i].id # "_"
  BY FieldFacts DEF IInv, FieldsOK
<1> QED BY <1>1, <1>2 DEF VariableFor, VariableIds, Named

LEMMA FunctionName ==
  ASSUME NEW p \in Packages, NEW x \in FunctionIds(p) PROVE x \in Identifiers /\ x # "_"
<1>1. PICK d \in Functions(p) : d.identifiers[1] = x /\ x # "_"
  BY DEF FunctionIds
<1>2. PICK a \in DOMAIN MethodRequests(p) : FunctionAs(d, MethodRequests(p)[a])
  BY FunctionsAsked
<1>3. MethodRequests(p)[a].id = x /\ MethodRequests(p)[a] \in MethodSet
  BY <1>1, <1>2, FunctionsAsked, FunctionParts
<1> QED BY <1>1, <1>3 DEF MethodSet

LEMMA NoClash ==
  ASSUME IInv, MapsOK, stage \in Mapped, Plain(package), NEW i \in DOMAIN fields
  PROVE  fields[i].id \notin FunctionIds(package) /\ fields[i].id \notin Callables(methods)
<1>1. fields[i].id \in VariableIds(package) \cup ToSet(BlankNames)
  BY FieldName DEF Plain
<1>2. fields[i].id \notin FunctionIds(package)
  BY <1>1, FunctionName DEF Plain, Identifiers, IInv
<1> QED BY <1>2, CallablesAre

-----------------------------------------------------------------------------
(* The types of expressions: those of values, that of a call without a     *)
(* result, and that of an error, which no sum gets rid of.                 *)
Kinds == Printed \cup {"Void", "Invalid"}

LEMMA SumKinds ==
  ASSUME NEW l \in Kinds, NEW r \in Kinds
  PROVE  /\ SumType(l, r) \in Printed \cup {"Invalid"}
         /\ SumType(l, r) \in Printed => l \in Printed /\ r \in Printed
<1>1. l = "Invalid" \/ r = "Invalid" => SumType(l, r) = "Invalid"
  BY DEF SumType
<1>2. l = "Void" \/ r = "Void" => SumType(l, r) = "Invalid"
  BY DEF SumType, Ints, Reals
<1>3. l \in Printed /\ r \in Printed => SumType(l, r) \in Printed \cup {"Invalid"}
  BY DEF SumType, DeterminePriorityType, Printed, Ints, Reals
<1>4. "Invalid" \notin Printed
  BY DEF Printed, Ints, Reals
<1> QED BY <1>1, <1>2, <1>3, <1>4 DEF Kinds

KindsAgree(s, e, type, i) ==
  /\ type[i] \in Kinds
  /\ type[i] \in Printed => \A j \in 1 .. i : OperandType(s, e[j]) \in Printed
  /\ type[i] = "Void" => i = 1

LEMMA ExpressionKinds ==
  ASSUME NEW s, NEW e \in Seq(Operands), e # <<>>, \A i \in DOMAIN e : OperandType(s, e[i]) \in Kinds
  PROVE  /\ ExpressionType(s, e) \in Kinds
         /\ ExpressionType(s, e) \in Printed => \A i \in DOMAIN e : OperandType(s, e[i]) \in Printed
         /\ ExpressionType(s, e) = "Void" => Len(e) = 1 /\ OperandType(s, e[1]) = "Void"
<1>1. PICK type : /\ \A i \in DOMAIN e : type[i] = Typed(s, e, type, i)
                  /\ ExpressionType(s, e) = type[Len(e)]
  BY ExpressionTypeIs
<1>2. DOMAIN e = 1 .. Len(e) /\ Len(e) \in Nat /\ Len(e) # 0
  OBVIOUS
<1> DEFINE Good(i) == i \in 1 .. Len(e) => KindsAgree(s, e, type, i)
           S == {n \in Nat : Good(n)}
<1>3. Good(0)
  OBVIOUS
<1>4. ASSUME NEW n \in Nat, Good(n) PROVE Good(n + 1)
  <2> SUFFICES ASSUME n + 1 \in 1 .. Len(e) PROVE KindsAgree(s, e, type, n + 1)
    OBVIOUS
  <2>1. OperandType(s, e[n + 1]) \in Kinds
    BY <1>2
  <2>2. CASE n = 0
    <3>1. type[1] = OperandType(s, e[1])
      BY <1>1, <1>2 DEF Typed
    <3>2. \A j \in 1 .. n + 1 : j = 1
      BY <2>2
    <3> QED BY <2>1, <2>2, <3>1, <3>2 DEF KindsAgree
  <2>3. CASE n # 0
    <3>1. n \in 1 .. Len(e) /\ n + 1 - 1 = n /\ n + 1 # 1
      BY <1>2, <2>3
    <3>2. type[n + 1] = SumType(type[n], OperandType(s, e[n + 1]))
      <4>1. n + 1 \in DOMAIN e
        BY <1>2
      <4>2. type[n + 1] = Typed(s, e, type, n + 1)
        BY <1>1, <4>1
      <4> QED BY <3>1, <4>2 DEF Typed
    <3>3. KindsAgree(s, e, type, n)
      BY <1>4, <3>1
    <3>4. PICK l \in Kinds : l = type[n]
      BY <3>3 DEF KindsAgree
    <3>5. PICK r \in Kinds : r = OperandType(s, e[n + 1])
      BY <2>1
    <3>6. /\ type[n + 1] \in Printed \cup {"Invalid"}
          /\ type[n + 1] \in Printed => l \in Printed /\ r \in Printed
      BY <3>2, <3>4, <3>5, SumKinds
    <3>7. type[n + 1] # "Void" /\ type[n + 1] \in Kinds
      BY <3>6 DEF Kinds, Printed, Ints, Reals
    <3>8. \A j \in 1 .. n + 1 : j \in 1 .. n \/ j = n + 1
      OBVIOUS
    <3>9. type[n + 1] \in Printed => \A j \in 1 .. n + 1 : OperandType(s, e[j]) \in Printed
      <4>1. SUFFICES ASSUME type[n + 1] \in Printed, NEW j \in 1 .. n + 1
                     PROVE  OperandType(s, e[j]) \in Printed
        OBVIOUS
      <4>2. type[n] \in Printed /\ OperandType(s, e[n + 1]) \in Printed
        BY <3>4, <3>5, <3>6, <4>1
      <4>3. \A k \in 1 .. n : OperandType(s, e[k]) \in Printed
        BY <3>3, <4>2 DEF KindsAgree
      <4> QED BY <3>8, <4>2, <4>3
    <3> QED BY <3>7, <3>9 DEF KindsAgree
  <2> QED BY <2>2, <2>3
<1>5. Nat \subseteq S
  <2>1. 0 \in S /\ \A n \in Nat : n \in S => n + 1 \in S
    BY <1>3, <1>4, SMTT(30)
  <2> HIDE DEF S
  <2> QED BY <2>1, CountingUp
<1>6. KindsAgree(s, e, type, Len(e))
  BY <1>2, <1>5
<1>7. Len(e) = 1 => type[Len(e)] = OperandType(s, e[1])
  BY <1>1, <1>2 DEF Typed
<1> QED BY <1>1, <1>2, <1>6, <1>7 DEF KindsAgree

-----------------------------------------------------------------------------
(* The scope of the analysis: every function with its result, and the      *)
(* fields that were analysed with the types of their values.               *)

HasFunction(s, m) ==
  m.id \in DOMAIN s /\ s[m.id] = [type |-> "Function", result |-> m.type, isConst |-> FALSE]

FieldScoped(s, f, c) ==
  f.value # <<>> /\ s[f.id].type = f.type /\ f.type \in Printed /\ (s[f.id].isConst <=> f.id \in c)

SymbolsOK(s, ms, fs, c) ==
  /\ DOMAIN s \subseteq Callables(ms) \cup Ids(fs)
  /\ \A i \in DOMAIN ms : ms[i].id # "_" => HasFunction(s, ms[i])
  /\ \A j \in DOMAIN fs : fs[j].id \in DOMAIN s => FieldScoped(s, fs[j], c)

ReadFound(o) == o.id \in DOMAIN scope /\ \E j \in DOMAIN fields : fields[j].id = o.id
CallFound(o) ==
  \E i \in DOMAIN methods :
    methods[i].id = o.id /\ o.id # "_" /\ OperandType(scope, o) = methods[i].type

LEMMA OperandKinds ==
  ASSUME IInv, MapsOK, stage \in Mapped, Plain(package), SymbolsOK(scope, methods, fields, consts),
         NEW o \in Operands, o.kind = "read" => o.id \notin FunctionIds(package)
  PROVE  /\ OperandType(scope, o) \in Kinds
         /\ OperandType(scope, o) # "Invalid" =>
              (o.kind = "read" => ReadFound(o)) /\ (o.kind = "apply" => CallFound(o))
<1>0. "Invalid" \in Kinds /\ Printed \subseteq Kinds /\ NamedTypes \cup {"Void"} \subseteq Kinds
  BY DEF Kinds, NamedTypes, Printed, Ints, Reals
<1>1. o.kind \in {"literal", "read", "apply"}
  BY DEF Operands
<1>2. CASE o.kind = "literal"
  <2>1. o.type \in {"UntypedInt", "UntypedFloat", "String"}
    BY <1>2 DEF Operands
  <2>2. o.type \in Printed
    BY <2>1 DEF Printed, Ints, Reals
  <2> QED BY <1>0, <1>2, <2>2 DEF OperandType
<1>3. CASE o.kind = "read" /\ o.id \in DOMAIN scope
  <2>1. OperandType(scope, o) = scope[o.id].type
    BY <1>3 DEF OperandType
  <2>2. o.id \notin Callables(methods)
    BY <1>3, CallablesAre
  <2>3. PICK j \in DOMAIN fields : fields[j].id = o.id
    BY <1>3, <2>2 DEF SymbolsOK, Ids
  <2>4. scope[o.id].type \in Printed
    BY <1>3, <2>3 DEF SymbolsOK, FieldScoped
  <2> QED BY <1>0, <1>3, <2>1, <2>3, <2>4 DEF ReadFound
<1>4. CASE o.kind = "apply" /\ o.id \in DOMAIN scope /\ scope[o.id].type = "Function"
  <2>1. OperandType(scope, o) = scope[o.id].result
    BY <1>4 DEF OperandType
  <2>2. o.id \notin Ids(fields)
    <3> SUFFICES ASSUME NEW j \in DOMAIN fields, fields[j].id = o.id PROVE FALSE
      BY DEF Ids
    <3>1. scope[o.id].type \in Printed
      BY <1>4 DEF SymbolsOK, FieldScoped
    <3> QED BY <1>4, <3>1 DEF Printed, Ints, Reals
  <2>3. PICK i \in DOMAIN methods : methods[i].id = o.id /\ o.id # "_"
    BY <1>4, <2>2 DEF SymbolsOK, Callables, Ids
  <2>4. scope[o.id].result = methods[i].type
    <3>1. HasFunction(scope, methods[i])
      BY <2>3 DEF SymbolsOK
    <3>2. PICK m : m = methods[i]
      OBVIOUS
    <3>3. scope[m.id] = [type |-> "Function", result |-> m.type, isConst |-> FALSE]
      BY <3>1, <3>2 DEF HasFunction
    <3>4. scope[m.id].result = m.type
      BY <3>3
    <3> QED BY <2>3, <3>2, <3>4
  <2>5. methods[i].type \in NamedTypes \cup {"Void"}
    BY MethodEntry DEF MethodSet
  <2> QED BY <1>0, <1>4, <2>1, <2>3, <2>4, <2>5 DEF CallFound
<1>5. CASE \/ o.kind \in {"read", "apply"} /\ o.id \notin DOMAIN scope
           \/ o.kind = "apply" /\ o.id \in DOMAIN scope /\ scope[o.id].type # "Function"
  <2>1. OperandType(scope, o) = "Invalid"
    BY <1>5 DEF OperandType
  <2> QED BY <1>0, <2>1
<1> QED BY <1>1, <1>2, <1>3, <1>4, <1>5

VoidCall(e) == \E i \in DOMAIN methods : methods[i].id \in Calls(e) \ {"_"} /\ methods[i].type = "Void"

LEMMA ExpressionFound ==
  ASSUME IInv, MapsOK, stage \in Mapped, Plain(package), SymbolsOK(scope, methods, fields, consts),
         NEW e \in Seq(Operands), e # <<>>, Reads(e) \cap FunctionIds(package) = {},
         ExpressionType(scope, e) # "Invalid"
  PROVE  /\ Reads(e) \subseteq Ids(fields) \cap DOMAIN scope
         /\ Calls(e) \subseteq Callables(methods)
         /\ IF VoidCall(e) THEN ExpressionType(scope, e) = "Void" ELSE ExpressionType(scope, e) \in Printed
<1>1. ASSUME NEW i \in DOMAIN e
      PROVE  e[i] \in Operands /\ (e[i].kind = "read" => e[i].id \notin FunctionIds(package))
  BY DEF Reads, ToSet
<1>2. \A i \in DOMAIN e :
        /\ OperandType(scope, e[i]) \in Kinds
        /\ OperandType(scope, e[i]) # "Invalid" =>
             (e[i].kind = "read" => ReadFound(e[i])) /\ (e[i].kind = "apply" => CallFound(e[i]))
  BY <1>1, OperandKinds
<1>3. /\ ExpressionType(scope, e) \in Kinds
      /\ ExpressionType(scope, e) \in Printed => \A i \in DOMAIN e : OperandType(scope, e[i]) \in Printed
      /\ ExpressionType(scope, e) = "Void" => Len(e) = 1 /\ OperandType(scope, e[1]) = "Void"
  BY <1>2, ExpressionKinds
<1>4. DOMAIN e = 1 .. Len(e) /\ Len(e) \in Nat /\ 1 \in DOMAIN e
  OBVIOUS
<1>5. "Void" \notin Printed /\ "Invalid" \notin Printed
  BY DEF Printed, Ints, Reals
<1>6. \A i \in DOMAIN e : OperandType(scope, e[i]) # "Invalid"
  <2>1. CASE ExpressionType(scope, e) \in Printed
    BY <1>3, <1>5, <2>1
  <2>2. CASE ExpressionType(scope, e) = "Void"
    <3>1. \A i \in DOMAIN e : i = 1
      BY <1>3, <1>4, <2>2
    <3> QED BY <1>3, <2>2, <3>1
  <2> QED BY <1>3, <2>1, <2>2 DEF Kinds
<1>7. Reads(e) \subseteq Ids(fields) \cap DOMAIN scope
  BY <1>2, <1>6 DEF Reads, ToSet, ReadFound, Ids
<1>8. Calls(e) \subseteq Callables(methods)
  <2> SUFFICES ASSUME NEW x \in Calls(e) PROVE x \in Callables(methods)
    OBVIOUS
  <2>1. PICK k \in DOMAIN e : e[k].kind = "apply" /\ e[k].id = x
    BY DEF Calls, ToSet
  <2>2. CallFound(e[k])
    BY <1>2, <1>6, <2>1
  <2> QED BY <2>1, <2>2 DEF CallFound, Callables, Ids
<1>9. Distinct(methods)
  BY DEF MapsOK, MapOK
<1>10. CASE ExpressionType(scope, e) \in Printed
  <2>1. SUFFICES ASSUME NEW i \in DOMAIN methods, methods[i].id \in Calls(e) \ {"_"}, methods[i].type = "Void"
                 PROVE  FALSE
    BY <1>7, <1>8, <1>10 DEF VoidCall
  <2>2. PICK k \in DOMAIN e : e[k].kind = "apply" /\ e[k].id = methods[i].id
    BY <2>1 DEF Calls, ToSet
  <2>3. PICK j \in DOMAIN methods : methods[j].id = e[k].id /\ OperandType(scope, e[k]) = methods[j].type
    BY <1>2, <1>6, <2>2 DEF CallFound
  <2>4. i = j
    BY <1>9, <2>2, <2>3 DEF Distinct
  <2> QED BY <1>3, <1>5, <1>10, <2>1, <2>3, <2>4
<1>11. CASE ExpressionType(scope, e) = "Void"
  <2>1. OperandType(scope, e[1]) = "Void" /\ e[1] \in Operands
    BY <1>1, <1>3, <1>4, <1>11
  <2>2. e[1].kind = "apply"
    <3>1. e[1].kind # "literal"
      BY <2>1 DEF OperandType, Operands
    <3>2. e[1].kind # "read"
      <4> SUFFICES ASSUME e[1].kind = "read" PROVE FALSE
        OBVIOUS
      <4>1. e[1].id \in DOMAIN scope
        BY <1>2, <1>4, <1>6 DEF ReadFound
      <4>2. PICK j \in DOMAIN fields : fields[j].id = e[1].id
        BY <1>2, <1>4, <1>6 DEF ReadFound
      <4>3. scope[e[1].id].type \in Printed
        BY <4>1, <4>2 DEF SymbolsOK, FieldScoped
      <4> QED BY <1>5, <2>1, <4>1, <4>3 DEF OperandType
    <3> QED BY <2>1, <3>1, <3>2 DEF Operands
  <2>3. PICK i \in DOMAIN methods : methods[i].id = e[1].id /\ e[1].id # "_" /\ methods[i].type = "Void"
    BY <1>2, <1>4, <1>6, <2>1, <2>2 DEF CallFound
  <2>4. e[1].id \in Calls(e)
    BY <1>4, <2>2 DEF Calls, ToSet
  <2> QED BY <1>7, <1>8, <1>11, <2>3, <2>4 DEF VoidCall
<1> QED BY <1>3, <1>10, <1>11 DEF Kinds

(* Without errors every request was for a name of its own.                 *)
LEMMA UniqueRequests ==
  ASSUME IInv, MapsOK, errors = {}, stage \in Mapped \ {"methods"}
  PROVE  /\ Unique(MethodRequests(package))
         /\ stage # "fields" => Unique(FieldsNamed(package))
<1>1. MapOK(methods, MethodRequests(package), MethodsTo, TRUE, {}) /\ MapOK(fields, FieldsNamed(package), FieldsTo, FALSE, {})
  BY DEF MapsOK
<1>2. Unique(MethodRequests(package))
  BY <1>1, Ranges DEF MapOK, Unique
<1>3. stage # "fields" => Unique(FieldsNamed(package))
  BY <1>1, Ranges DEF MapOK, Unique
<1> QED BY <1>2, <1>3

LEMMA CalledResult ==
  ASSUME IInv, MapsOK, errors = {}, stage \in Mapped \ {"methods"}, NEW i \in DOMAIN methods
  PROVE  FunctionOf(package, methods[i].id).result = methods[i].type
<1>1. PICK a \in 1 .. MethodsTo - 1 : Alike(methods[i], MethodRequests(package)[a], TRUE)
  BY DEF MapsOK, MapOK
<1>2. a \in DOMAIN MethodRequests(package)
  BY Ranges
<1>3. FunctionAs(FunctionOf(package, MethodRequests(package)[a].id), MethodRequests(package)[a])
  BY <1>2, UniqueRequests, FunctionIs DEF IInv
<1>4. FunctionOf(package, MethodRequests(package)[a].id).result = MethodRequests(package)[a].type
  BY <1>3, FunctionParts
<1> QED BY <1>1, <1>4 DEF Alike

LEMMA FieldExpression ==
  ASSUME IInv, MapsOK, stage \in Mapped, Plain(package), NEW j \in DOMAIN fields, fields[j].value # <<>>
  PROVE  /\ fields[j].value[1] \in Seq(Operands) /\ fields[j].value[1] # <<>>
         /\ Reads(fields[j].value[1]) \cap FunctionIds(package) = {}
         /\ ResultsUsed(package, fields[j].value[1])
<1>1. fields[j].value[1] \in Seq(Operands) /\ fields[j].value[1] # <<>>
  BY FieldFacts DEF IInv, FieldsOK
<1>2. PICK v \in Variables(package) : VariableFor(v, fields[j])
  BY FieldEntry DEF Plain
<1>3. Initialiser(v) = fields[j].value[1]
  BY <1>2 DEF VariableFor, Initialiser
<1> QED BY <1>1, <1>3 DEF Plain, Expressions

LEMMA NoVoidInitialiser ==
  ASSUME IInv, MapsOK, errors = {}, stage \in Mapped \ {"methods"}, NEW e, ResultsUsed(package, e)
  PROVE  ~VoidCall(e)
BY CalledResult DEF VoidCall, ResultsUsed

FieldDone(f, ms, c) ==
  f.value # <<>> =>
    /\ f.type \in Printed
    /\ Calls(f.value[1]) \subseteq Callables(ms)
    /\ f.id \in c => Calls(f.value[1]) = {} /\ Reads(f.value[1]) \subseteq c

LEMMA ConstantReads ==
  ASSUME NEW s, NEW ms, NEW fs, NEW c, SymbolsOK(s, ms, fs, c), NEW e, IsConstExpression(s, e),
         Reads(e) \subseteq Ids(fs) \cap DOMAIN s
  PROVE  Calls(e) = {} /\ Reads(e) \subseteq c
<1>1. Calls(e) = {}
  BY DEF IsConstExpression, Calls
<1>2. ASSUME NEW x \in Reads(e) PROVE x \in c
  <2>1. PICK o \in ToSet(e) : o.kind = "read" /\ o.id = x
    BY DEF Reads
  <2>2. x \in DOMAIN s /\ s[x].isConst
    BY <2>1 DEF IsConstExpression
  <2>3. PICK j \in DOMAIN fs : fs[j].id = x
    BY DEF Ids
  <2> QED BY <2>2, <2>3 DEF SymbolsOK, FieldScoped
<1> QED BY <1>1, <1>2

LEMMA SymbolsWithMethod ==
  ASSUME NEW s, NEW ms, IsSequence(ms), NEW fs, fs = <<>>, NEW c, SymbolsOK(s, ms, fs, c),
         NEW m, ~Holds(ms, m.id), NEW r, r = TryEmplace(ms, m),
         NEW t, t = Bind(s, m.id, [type |-> "Function", result |-> m.type, isConst |-> FALSE])
  PROVE  SymbolsOK(t, r, fs, c)
<1> DEFINE entry == [type |-> "Function", result |-> m.type, isConst |-> FALSE]
<1>1. /\ \A j \in DOMAIN ms : \E i \in DOMAIN r : r[i] = ms[j]
      /\ \E i \in DOMAIN r : r[i] = m
      /\ \A i \in DOMAIN r : r[i] = m \/ \E j \in DOMAIN ms : r[i] = ms[j]
  BY EntryAdded
<1>2. DOMAIN fs = {} /\ Ids(fs) = {}
  <2>1. DOMAIN <<>> = {}
    OBVIOUS
  <2> QED BY <2>1 DEF Ids
<1>3. m.id = "_" => t = s
  BY DEF Bind
<1> HIDE DEF entry
<1>4. m.id # "_" => DOMAIN t = DOMAIN s \cup {m.id} /\ \A y \in DOMAIN t : t[y] = IF y = m.id THEN entry ELSE s[y]
  BY DEF Bind, entry
<1>5. DOMAIN t \subseteq Callables(r) \cup Ids(fs)
  <2>1. Callables(ms) \subseteq Callables(r) /\ (m.id # "_" => m.id \in Callables(r))
    <3>1. Ids(ms) \cup {m.id} \subseteq Ids(r)
      BY EmplacedIds
    <3> QED BY <3>1 DEF Callables
  <2> QED BY <1>2, <1>3, <1>4, <2>1 DEF SymbolsOK
<1>6. ASSUME NEW i \in DOMAIN r, r[i].id # "_" PROVE HasFunction(t, r[i])
  <2>1. CASE r[i] = m
    BY <1>4, <1>6, <2>1 DEF HasFunction, entry
  <2>2. ASSUME NEW j \in DOMAIN ms, r[i] = ms[j] PROVE HasFunction(t, r[i])
    <3>1. HasFunction(s, ms[j]) /\ ms[j].id # m.id
      BY <1>6, <2>2 DEF SymbolsOK, Holds
    <3>2. t[ms[j].id] = s[ms[j].id] /\ ms[j].id \in DOMAIN t
      BY <1>3, <1>4, <3>1 DEF HasFunction
    <3> QED BY <2>2, <3>1, <3>2 DEF HasFunction
  <2> QED BY <1>1, <2>1, <2>2
<1> QED BY <1>2, <1>5, <1>6 DEF SymbolsOK

LEMMA SymbolsWithField ==
  ASSUME NEW s, NEW ms, NEW fs, NEW c, SymbolsOK(s, ms, fs, c), Distinct(fs), NEW n \in DOMAIN fs,
         fs[n].id # "_", fs[n].id \notin Callables(ms), fs[n].value # <<>>,
         NEW gs, DOMAIN gs = DOMAIN fs,
         \A i \in DOMAIN fs : gs[i].id = fs[i].id /\ gs[i].value = fs[i].value /\ (i # n => gs[i] = fs[i]),
         gs[n].type \in Printed, NEW t, Analysed(fs[n], s, t, c, gs[n].type)
  PROVE  SymbolsOK(t, ms, gs, c)
<1> DEFINE x == fs[n].id
<1>1. PICK v : v = ScopeEntry(s, fs[n].value[1], gs[n].type, x \in c)
  OBVIOUS
<1>2. v.type = gs[n].type /\ (v.isConst <=> x \in c)
  BY <1>1 DEF ScopeEntry
<1>3. DOMAIN t = DOMAIN s \cup {x} /\ \A y \in DOMAIN t : t[y] = IF y = x THEN v ELSE s[y]
  BY <1>1 DEF Analysed, Bind
<1>4. Ids(gs) = Ids(fs) /\ x \in Ids(gs)
  BY DEF Ids
<1>5. DOMAIN t \subseteq Callables(ms) \cup Ids(gs)
  BY <1>3, <1>4 DEF SymbolsOK
<1>6. ASSUME NEW i \in DOMAIN ms, ms[i].id # "_" PROVE HasFunction(t, ms[i])
  <2>1. HasFunction(s, ms[i]) /\ ms[i].id # x
    BY <1>6 DEF SymbolsOK, Callables, Ids
  <2> QED BY <1>3, <2>1 DEF HasFunction
<1>7. ASSUME NEW j \in DOMAIN gs, gs[j].id \in DOMAIN t PROVE FieldScoped(t, gs[j], c)
  <2>1. CASE j = n
    BY <1>2, <1>3, <2>1 DEF FieldScoped
  <2>2. CASE j # n
    <3>1. gs[j] = fs[j] /\ fs[j].id # x
      BY <2>2 DEF Distinct
    <3>2. fs[j].id \in DOMAIN s /\ t[fs[j].id] = s[fs[j].id]
      BY <1>3, <1>7, <3>1
    <3>3. FieldScoped(s, fs[j], c)
      BY <3>2 DEF SymbolsOK
    <3> QED BY <3>1, <3>2, <3>3 DEF FieldScoped
  <2> QED BY <2>1, <2>2
<1> QED BY <1>5, <1>6, <1>7 DEF SymbolsOK

(* The invariant of the analysis, while it has found no error.             *)
MethodDone(s, m) == MethodErrors(s, m) = {}

ScopeOK ==
  Plain(package) /\ errors = {} /\ stage \in Mapped =>
    /\ SymbolsOK(scope, methods, fields, consts)
    /\ \A j \in DOMAIN fields :
         (stage = "analyze fields" /\ j < next) \/ stage \in {"analyze methods"} \cup Accepted =>
           FieldDone(fields[j], methods, consts)
    /\ \A i \in DOMAIN methods :
         (stage = "analyze methods" /\ i < next) \/ stage \in Accepted => MethodDone(scope, methods[i])

LEMMA ScopeScope == MapsOK /\ AnalyzePackageScope => ScopeOK'
<1> SUFFICES ASSUME MapsOK, AnalyzePackageScope, stage' \in Mapped PROVE ScopeOK'
  BY DEF ScopeOK
<1>1. /\ stage' = "methods" /\ methods' = <<>> /\ fields' = <<>> /\ scope' = <<>>
  BY DEF AnalyzePackageScope, MapsOK, Mapped, Accepted, AfterFields
<1>2. DOMAIN <<>> = {}
  OBVIOUS
<1>3. SymbolsOK(scope', methods', fields', consts')
  BY <1>1, <1>2 DEF SymbolsOK
<1> QED BY <1>1, <1>2, <1>3 DEF ScopeOK

LEMMA AddMethodScope == IInv /\ AnalysisOK /\ ScopeOK /\ AddMethod => ScopeOK'
<1> SUFFICES ASSUME IInv, AnalysisOK, ScopeOK, AddMethod, Plain(package)', errors' = {} PROVE ScopeOK'
  BY DEF ScopeOK
<1> DEFINE m == MethodRequests(package)[next]
<1>1. /\ stage = "methods" /\ package' = package /\ fields' = fields /\ consts' = consts /\ fields = <<>>
      /\ methods' = TryEmplace(methods, m) /\ errors' = errors \cup Redeclared(methods, m.id)
      /\ scope' = IF Holds(methods, m.id) THEN scope
                  ELSE Bind(scope, m.id, [type |-> "Function", result |-> m.type, isConst |-> FALSE])
      /\ stage' \in {"methods", "fields", "analyze methods"}
      /\ stage' # "methods" => next' = 1
  BY DEF AddMethod, Continue, AnalysisOK
<1>2. errors = {} /\ ~Holds(methods, m.id) /\ IsSequence(methods)
  BY <1>1 DEF Redeclared, IInv, MethodsOK
<1>3. SymbolsOK(scope, methods, fields, consts)
  BY <1>1, <1>2 DEF ScopeOK, Mapped, Plain
<1>4. SymbolsOK(scope', methods', fields', consts')
  <2> DEFINE r == methods'
             t == scope'
  <2>1. r = TryEmplace(methods, m)
        /\ t = Bind(scope, m.id, [type |-> "Function", result |-> m.type, isConst |-> FALSE])
    BY <1>1, <1>2
  <2> HIDE DEF m, r, t
  <2>2. SymbolsOK(t, r, fields, consts)
    BY <1>1, <1>2, <1>3, <2>1, SymbolsWithMethod
  <2> QED BY <1>1, <2>2 DEF r, t
<1>5. DOMAIN fields' = {}
  <2>1. DOMAIN <<>> = {}
    OBVIOUS
  <2> QED BY <1>1, <2>1
<1>6. IsSequence(methods')
  BY <1>2, Emplaced, <1>1 DEF AddsEntry
<1>7. stage' = "analyze methods" => \A i \in DOMAIN methods' : ~(i < next')
  <2> SUFFICES ASSUME next' = 1 PROVE \A i \in DOMAIN methods' : ~(i < next')
    BY <1>1
  <2> QED BY <1>6, NoneBefore
<1> QED BY <1>1, <1>4, <1>5, <1>7 DEF ScopeOK, Accepted, AfterFields

(* No field has the name of a function, before a step and after it.        *)
NamesApart ==
  IInv /\ MapsOK /\ stage \in Mapped /\ Plain(package) =>
    \A i \in DOMAIN fields : fields[i].id \notin Callables(methods)

LEMMA NamesStayApart == NamesApart /\ NamesApart'
<1>1. NamesApart
  BY NoClash DEF NamesApart
<1> QED BY <1>1, PTL

LEMMA AddFieldScope == IInv /\ AnalysisOK /\ IInv' /\ MapsOK' /\ ScopeOK /\ AddField => ScopeOK'
<1> SUFFICES ASSUME IInv, AnalysisOK, IInv', MapsOK', ScopeOK, AddField, Plain(package)', errors' = {} PROVE ScopeOK'
  BY DEF ScopeOK
<1>1. /\ stage = "fields" /\ package' = package /\ methods' = methods /\ scope' = scope
      /\ stage' \in {"fields", "analyze fields"} /\ (stage' # "fields" => next' = 1)
      /\ errors = {}
  BY DEF AddField, Continue
<1>2. SymbolsOK(scope, methods, fields, consts) /\ DOMAIN scope \subseteq Callables(methods)
  BY <1>1 DEF ScopeOK, AnalysisOK, Mapped, Plain
<1>3. stage' \in Mapped
  BY <1>1 DEF Mapped
<1>4. \A j \in DOMAIN fields' : fields'[j].id \notin Callables(methods)
  <2>1. \A j \in DOMAIN fields' : fields'[j].id \notin Callables(methods')
    BY <1>3, NamesStayApart DEF NamesApart
  <2> QED BY <1>1, <2>1
<1>5. SymbolsOK(scope', methods', fields', consts')
  BY <1>1, <1>2, <1>4 DEF SymbolsOK
<1>6. stage' = "analyze fields" => \A i \in DOMAIN fields' : ~(i < next')
  <2> SUFFICES ASSUME next' = 1 PROVE \A i \in DOMAIN fields' : ~(i < next')
    BY <1>1
  <2>1. IsSequence(fields')
    BY DEF IInv, FieldsOK
  <2> QED BY <2>1, NoneBefore
<1> QED BY <1>1, <1>5, <1>6 DEF ScopeOK, Accepted, AfterFields

LEMMA AnalyzeFieldScope == IInv /\ MapsOK /\ ScopeOK /\ AnalyzeField => ScopeOK'
<1> SUFFICES ASSUME IInv, MapsOK, ScopeOK, AnalyzeField, Plain(package)', errors' = {} PROVE ScopeOK'
  BY DEF ScopeOK
<1> DEFINE f == fields[next]
           e == f.value[1]
<1>1. /\ stage = "analyze fields" /\ package' = package /\ methods' = methods /\ consts' = consts
      /\ \/ next < Len(fields) /\ stage' = stage /\ next' = next + 1
         \/ ~(next < Len(fields)) /\ stage' = "analyze methods" /\ next' = 1
  BY DEF AnalyzeField, Continue
<1>2. /\ next \in DOMAIN fields /\ DOMAIN fields' = DOMAIN fields /\ errors = {}
      /\ \A i \in DOMAIN fields :
           /\ fields'[i].id = fields[i].id /\ fields'[i].value = fields[i].value
           /\ i # next \/ fields[i].value = <<>> => fields'[i] = fields[i]
      /\ f.value = <<>> => scope' = scope
      /\ f.value # <<>> => Analysed(f, scope, scope', consts, fields'[next].type)
  BY FieldEffect
<1>3. stage \in Mapped \ {"methods"} /\ Plain(package) /\ SymbolsOK(scope, methods, fields, consts)
      /\ \A j \in DOMAIN fields : j < next => FieldDone(fields[j], methods, consts)
  BY <1>1, <1>2 DEF ScopeOK, Mapped, Plain
<1>4. SymbolsOK(scope', methods, fields', consts) /\ FieldDone(fields'[next], methods, consts)
  <2>1. CASE f.value = <<>>
    <3>1. \A i \in DOMAIN fields : fields'[i] = fields[i]
      BY <1>2, <2>1
    <3>2. Ids(fields') = Ids(fields)
      BY <1>2, <3>1 DEF Ids
    <3>3. SymbolsOK(scope', methods, fields', consts)
      BY <1>2, <1>3, <2>1, <3>1, <3>2 DEF SymbolsOK
    <3>4. FieldDone(fields'[next], methods, consts)
      BY <1>2, <2>1 DEF FieldDone
    <3> QED BY <3>3, <3>4
  <2>2. CASE f.value # <<>>
    <3>1. /\ e \in Seq(Operands) /\ e # <<>> /\ Reads(e) \cap FunctionIds(package) = {} /\ ResultsUsed(package, e)
      BY <1>2, <1>3, <2>2, FieldExpression
    <3>2. ExpressionType(scope, e) # "Invalid" /\ fields'[next].type = ExpressionType(scope, e)
          /\ (f.id \in consts => IsConstExpression(scope, e))
      BY <1>2, <2>2 DEF Analysed
    <3>3. ~VoidCall(e)
      BY <1>2, <1>3, <3>1, NoVoidInitialiser
    <3>4. /\ Reads(e) \subseteq Ids(fields) \cap DOMAIN scope /\ Calls(e) \subseteq Callables(methods)
          /\ fields'[next].type \in Printed
      <4> HIDE DEF e
      <4> QED BY <1>3, <3>1, <3>2, <3>3, ExpressionFound
    <3>5. f.id \in consts => Calls(e) = {} /\ Reads(e) \subseteq consts
      <4> HIDE DEF e
      <4> QED BY <1>3, <3>2, <3>4, ConstantReads
    <3>6. FieldDone(fields'[next], methods, consts)
      BY <1>2, <3>4, <3>5 DEF FieldDone
    <3>7. Distinct(fields) /\ f.id # "_" /\ f.id \notin Callables(methods)
      BY <1>2, <1>3, NoClash, FieldFacts DEF MapsOK, MapOK, IInv, FieldsOK
    <3>8. SymbolsOK(scope', methods, fields', consts)
      <4>1. PICK gs, t : gs = fields' /\ t = scope'
        OBVIOUS
      <4>2. /\ DOMAIN gs = DOMAIN fields /\ gs[next].type \in Printed
            /\ \A i \in DOMAIN fields : gs[i].id = fields[i].id /\ gs[i].value = fields[i].value /\ (i # next => gs[i] = fields[i])
            /\ Analysed(f, scope, t, consts, gs[next].type)
        BY <1>2, <2>2, <3>4, <4>1
      <4>3. SymbolsOK(t, methods, gs, consts)
        BY <1>2, <1>3, <2>2, <3>7, <4>2, SymbolsWithField
      <4> QED BY <4>1, <4>3
    <3> QED BY <3>6, <3>8
  <2> QED BY <2>1, <2>2
<1>5. \A j \in DOMAIN fields : j < next \/ j = next => FieldDone(fields'[j], methods, consts)
  BY <1>2, <1>3, <1>4
<1>6. DOMAIN fields = 1 .. Len(fields) /\ Len(fields) \in Nat
  BY MapFacts DEF IInv, FieldsOK
<1>7. \A i \in DOMAIN methods : ~(i < 1)
  BY NoneBefore DEF IInv, MethodsOK
<1>8. CASE next < Len(fields)
  <2>1. \A j \in DOMAIN fields : j < next' => FieldDone(fields'[j], methods, consts)
    <3>1. \A j \in 1 .. Len(fields) : j < next + 1 => j < next \/ j = next
      BY <1>2, <1>6
    <3> QED BY <1>1, <1>5, <1>6, <1>8, <3>1
  <2> QED BY <1>1, <1>2, <1>4, <1>8, <2>1 DEF ScopeOK, Accepted, AfterFields
<1>9. CASE ~(next < Len(fields))
  <2>1. \A j \in DOMAIN fields : FieldDone(fields'[j], methods, consts)
    BY <1>2, <1>5, <1>6, <1>9
  <2> QED BY <1>1, <1>2, <1>4, <1>7, <1>9, <2>1 DEF ScopeOK, Accepted, AfterFields
<1> QED BY <1>8, <1>9

LEMMA AnalyzeMethodScope == IInv /\ ScopeOK /\ AnalyzeMethod => ScopeOK'
<1> SUFFICES ASSUME IInv, ScopeOK, AnalyzeMethod, Plain(package)', errors' = {} PROVE ScopeOK'
  BY DEF ScopeOK
<1>1. /\ stage = "analyze methods" /\ MapsKept /\ consts' = consts /\ scope' = scope
      /\ errors = {} /\ MethodDone(scope, methods[next])
      /\ \/ next < Len(methods) /\ stage' = stage /\ next' = next + 1
         \/ ~(next < Len(methods)) /\ stage' = "pool"
  BY DEF AnalyzeMethod, Continue, MapsKept, MethodDone
<1>2. next \in DOMAIN methods /\ IsSequence(methods)
  BY <1>1 DEF IInv, Iterated, MethodsOK
<1>3. DOMAIN methods = 1 .. Len(methods) /\ Len(methods) \in Nat
  BY <1>2, MapFacts
<1>4. /\ SymbolsOK(scope, methods, fields, consts)
      /\ \A j \in DOMAIN fields : FieldDone(fields[j], methods, consts)
      /\ \A i \in DOMAIN methods : i < next => MethodDone(scope, methods[i])
  BY <1>1 DEF ScopeOK, Mapped, Plain, MapsKept
<1>5. CASE next < Len(methods)
  <2>1. \A i \in DOMAIN methods : i < next + 1 => MethodDone(scope, methods[i])
    <3>1. \A j \in 1 .. Len(methods) : j < next + 1 => j < next \/ j = next
      BY <1>2, <1>3
    <3> QED BY <1>1, <1>3, <1>4, <3>1
  <2> QED BY <1>1, <1>4, <1>5, <2>1 DEF ScopeOK, MapsKept, Accepted, AfterFields
<1>6. CASE ~(next < Len(methods))
  <2>1. \A i \in DOMAIN methods : MethodDone(scope, methods[i])
    <3>1. \A j \in 1 .. Len(methods) : j < next \/ j = next
      BY <1>2, <1>3, <1>6
    <3> QED BY <1>1, <1>3, <1>4, <3>1
  <2> QED BY <1>1, <1>4, <1>6, <2>1 DEF ScopeOK, MapsKept, Accepted, AfterFields
<1> QED BY <1>5, <1>6

LEMMA CodingScope == ScopeOK /\ Coding => ScopeOK'
BY CodingKeeps DEF ScopeOK, Mapped, Accepted, AfterFields, Plain

-----------------------------------------------------------------------------
(* All steps keep the invariant of the analysis.                           *)

AnalysedOK == MapsOK /\ ScopeOK

LEMMA CompileAnalysed == AllOK /\ AllOK' /\ AnalysedOK /\ Compile => AnalysedOK'
<1> SUFFICES ASSUME AllOK, AllOK', AnalysedOK, Compile PROVE AnalysedOK'
  OBVIOUS
<1>1. IInv /\ IInv' /\ AnalysisOK /\ MapsOK /\ ScopeOK
  BY DEF AllOK, Sound, AnalysedOK
<1>2. CASE AnalyzePackageScope
  BY <1>1, <1>2, ScopeMaps, ScopeScope DEF AnalysedOK
<1>3. CASE AddMethod
  BY <1>1, <1>3, AddMethodMaps, AddMethodScope DEF AnalysedOK
<1>4. CASE AddField
  BY <1>1, <1>4, AddFieldMaps, AddFieldScope DEF AnalysedOK
<1>5. CASE AnalyzeField
  BY <1>1, <1>5, AnalyzeFieldMaps, AnalyzeFieldScope DEF AnalysedOK
<1>6. CASE AnalyzeMethod
  BY <1>1, <1>6, AnalyzeMethodMaps, AnalyzeMethodScope DEF AnalysedOK
<1>7. CASE Coding
  BY <1>1, <1>7, CodingMaps, CodingScope DEF AnalysedOK
<1> QED BY <1>2, <1>3, <1>4, <1>5, <1>6, <1>7 DEF Compile, Coding

LEMMA StepAnalysed == AllOK /\ AllOK' /\ AnalysedOK /\ [Step]_vars => AnalysedOK'
<1> SUFFICES ASSUME AllOK, AllOK', AnalysedOK, [Step]_vars PROVE AnalysedOK'
  OBVIOUS
<1>1. CASE Compile
  BY <1>1, CompileAnalysed
<1>2. CASE stage' \in {"refused", "running"}
  BY <1>2 DEF AnalysedOK, MapsOK, ScopeOK, Mapped, Accepted, AfterFields
<1>3. CASE UNCHANGED vars
  <2>1. /\ UNCHANGED <<package, stage, next, errors, fields, methods, consts, scope>>
    BY <1>3 DEF vars, classVars, analysis
  <2>2. MethodsTo' = MethodsTo /\ FieldsTo' = FieldsTo
    BY <2>1 DEF MethodsTo, FieldsTo, FieldsNamed
  <2> QED BY <2>1, <2>2 DEF AnalysedOK, MapsOK, ScopeOK, FieldsNamed, ConstsTo, Plain
<1>4. Load => stage' \in {"refused", "running"}
  BY DEF Load
<1>5. Push \/ GetStatic \/ PutStatic \/ Add \/ Invoke \/ ReturnValue \/ Return => stage' \in {"refused", "running"}
  BY DEF Push, GetStatic, PutStatic, Add, Invoke, ReturnValue, Return, Operation, JVM
<1> QED BY <1>1, <1>2, <1>3, <1>4, <1>5 DEF Step

LEMMA StartAnalysed == Start => AnalysedOK
BY StartMaps DEF AnalysedOK, ScopeOK, Start, Init, Mapped, Accepted, AfterFields

-----------------------------------------------------------------------------
(* A package that is accepted.                                             *)

Legalised == AllOK /\ AnalysedOK /\ stage \in Accepted /\ Plain(package)

LEMMA LegalisedIs ==
  ASSUME Legalised
  PROVE  /\ IInv /\ AnalysisOK /\ MapsOK /\ ScopeOK /\ package \in Packages /\ CountsOK(package) /\ errors = {}
         /\ stage \in Mapped \ {"methods", "fields"}
         /\ SymbolsOK(scope, methods, fields, consts)
         /\ \A j \in DOMAIN fields : FieldDone(fields[j], methods, consts) /\ ReadsKnown(j)
         /\ \A i \in DOMAIN methods : MethodDone(scope, methods[i])
         /\ Unique(MethodRequests(package)) /\ Unique(FieldsNamed(package))
<1>1. IInv /\ AnalysisOK /\ MapsOK /\ ScopeOK /\ package \in Packages /\ CountsOK(package)
  BY DEF Legalised, AllOK, Sound, AnalysedOK, IInv, Plain
<1>2. stage \in Accepted /\ stage \in Mapped \ {"methods", "fields"} /\ stage \in Generating \cup {"written"}
  BY DEF Legalised, Mapped, Accepted, AfterFields, Generating, WithPool
<1>3. errors = {}
  BY <1>1, <1>2 DEF MapsOK
<1>4. Unique(MethodRequests(package)) /\ Unique(FieldsNamed(package))
  BY <1>1, <1>2, <1>3, UniqueRequests
<1>5. \A j \in DOMAIN fields : ReadsKnown(j)
  BY <1>1, <1>2 DEF AnalysisOK, Generating, WithPool
<1> QED BY <1>1, <1>2, <1>3, <1>4, <1>5 DEF ScopeOK, Legalised

LEMMA VariableHeld ==
  ASSUME Legalised, NEW v \in Variables(package)
  PROVE  \E j \in DOMAIN fields : VariableFor(v, fields[j]) /\ (v.isConst => fields[j].id \in consts)
<1>1. PICK a \in DOMAIN FieldsNamed(package) : VariableAs(v, FieldsNamed(package)[a])
  BY LegalisedIs, VariablesAsked DEF FieldsNamed
<1>2. a \in 1 .. FieldsTo - 1
  BY <1>1, LegalisedIs, Ranges
<1>3. PICK j \in DOMAIN fields : Alike(fields[j], FieldsNamed(package)[a], FALSE)
  BY <1>2, LegalisedIs DEF MapsOK, MapOK, Comprises
<1>4. VariableFor(v, fields[j])
  BY <1>1, <1>3 DEF VariableFor, VariableAs, Alike
<1>5. v.isConst => fields[j].id \in ConstsTo(package, FieldsTo)
  BY <1>1, <1>2, <1>3 DEF VariableAs, Alike, ConstsTo
<1> QED BY <1>4, <1>5, LegalisedIs DEF MapsOK

LEMMA FunctionHeld ==
  ASSUME Legalised, NEW d \in Functions(package)
  PROVE  \E i \in DOMAIN methods : FunctionAs(d, methods[i])
<1>1. PICK a \in DOMAIN MethodRequests(package) : FunctionAs(d, MethodRequests(package)[a])
  BY LegalisedIs, FunctionsAsked
<1>2. a \in 1 .. MethodsTo - 1 /\ MethodRequests(package)[a] \in MethodSet
  BY <1>1, LegalisedIs, Ranges, FunctionsAsked
<1>3. PICK i \in DOMAIN methods : Alike(methods[i], MethodRequests(package)[a], TRUE)
  BY <1>2, LegalisedIs DEF MapsOK, MapOK, Comprises
<1>4. methods[i] \in MethodSet
  BY LegalisedIs, MethodEntry
<1>5. methods[i] = MethodRequests(package)[a]
  BY <1>2, <1>3, <1>4 DEF Alike, MethodSet
<1> QED BY <1>1, <1>5

LEMMA OperandNames ==
  ASSUME NEW e \in Seq(Operands) PROVE Reads(e) \subseteq Identifiers /\ Calls(e) \subseteq Identifiers
<1>1. \A o \in ToSet(e) : o \in Operands
  BY DEF ToSet
<1>2. \A o \in Operands : o.kind # "literal" => o.id \in Identifiers
  BY DEF Operands
<1> QED BY <1>1, <1>2 DEF Reads, Calls

LEMMA NamedField ==
  ASSUME Legalised, NEW x \in Ids(fields) \cap Identifiers PROVE x \in VariableIds(package)
<1>1. PICK j \in DOMAIN fields : fields[j].id = x
  BY DEF Ids
<1>2. x \in VariableIds(package) \cup ToSet(BlankNames)
  BY <1>1, LegalisedIs, FieldName
<1> QED BY <1>2 DEF Identifiers

(* What the analysis of a body without errors has found.                   *)
LEMMA BodyFound ==
  ASSUME Legalised, NEW i \in DOMAIN methods, methods[i].value # <<>>
  PROVE  LET e == methods[i].value IN
         /\ e \in Seq(Operands)
         /\ Reads(e) \subseteq Ids(fields) /\ Calls(e) \subseteq Callables(methods) /\ ~VoidCall(e)
         /\ ExpressionType(scope, e) \in Printed
<1> DEFINE e == methods[i].value
           type == ExpressionType(scope, e)
<1>1. methods[i] \in MethodSet /\ \E d \in Functions(package) : FunctionAs(d, methods[i])
  BY LegalisedIs, MethodEntry
<1>2. PICK d \in Functions(package) : FunctionAs(d, methods[i])
  BY <1>1
<1>3. e \in Seq(Operands) /\ e # <<>> /\ methods[i].type \in NamedTypes \cup {"Void"}
  BY <1>1 DEF MethodSet
<1>4. e \in Expressions(package)
  BY <1>2, FunctionParts DEF Expressions
<1>5. Reads(e) \cap FunctionIds(package) = {}
  BY <1>4 DEF Legalised, Plain
<1>6. MethodErrors(scope, methods[i]) = {}
  BY LegalisedIs DEF MethodDone
<1>7. type # "Invalid"
  BY <1>6 DEF MethodErrors, ExpressionErrors
<1>8. type # "Void"
  <2> SUFFICES ASSUME type = "Void" PROVE MethodErrors(scope, methods[i]) # {}
    BY <1>6
  <2>1. "Void" \notin Printable
    BY DEF Printable, Ints, Reals
  <2>2. methods[i].type # "Void" => ~EqualTypes(methods[i].type, "Void")
    BY <1>3 DEF NamedTypes, EqualTypes, Ints, Reals
  <2> QED BY <2>1, <2>2 DEF MethodErrors
<1>9. /\ Reads(e) \subseteq Ids(fields) \cap DOMAIN scope
      /\ Calls(e) \subseteq Callables(methods)
      /\ IF VoidCall(e) THEN type = "Void" ELSE type \in Printed
  <2> HIDE DEF e
  <2>1. IInv /\ MapsOK /\ stage \in Mapped /\ Plain(package) /\ SymbolsOK(scope, methods, fields, consts)
    BY LegalisedIs DEF Legalised
  <2> QED BY <1>3, <1>5, <1>7, <2>1, ExpressionFound
<1> QED BY <1>3, <1>8, <1>9

-----------------------------------------------------------------------------
(* The rules of Go, one by one.                                            *)

LEMMA LegalMain == Legalised => MainDeclared(package)
<1> SUFFICES ASSUME Legalised PROVE MainDeclared(package)
  OBVIOUS
<1> DEFINE mains == {m \in ToSet(MethodRequests(package)) : m.id = "main"}
<1>1. MainErrors(package) = {}
  BY LegalisedIs DEF MapsOK
<1>2. mains # {} /\ \A m \in mains : m.type = "Void"
  BY <1>1 DEF MainErrors
<1>3. PICK a \in DOMAIN MethodRequests(package) : MethodRequests(package)[a].id = "main"
  BY <1>2 DEF ToSet
<1>4. MethodRequests(package)[a].type = "Void"
  BY <1>2, <1>3 DEF ToSet
<1>5. /\ FunctionOf(package, "main") \in Functions(package)
      /\ FunctionAs(FunctionOf(package, "main"), MethodRequests(package)[a])
  BY <1>3, LegalisedIs, FunctionIs
<1>6. FunctionOf(package, "main").result = "Void" /\ FunctionOf(package, "main").identifiers[1] = "main"
  BY <1>3, <1>4, <1>5, FunctionParts
<1> QED BY <1>5, <1>6 DEF MainDeclared, FunctionIds

LEMMA LegalExpression ==
  ASSUME Legalised, NEW e \in Expressions(package)
  PROVE  /\ Reads(e) \subseteq VariableIds(package) /\ Calls(e) \subseteq FunctionIds(package)
         /\ ResultsUsed(package, e)
<1>1. CASE e = <<>>
  <2>1. ToSet(e) = {}
    BY <1>1 DEF ToSet
  <2> QED BY <2>1 DEF Reads, Calls, ResultsUsed
<1>2. CASE e # <<>> /\ \E v \in Variables(package) : e = Initialiser(v)
  <2>1. PICK v \in Variables(package) : e = Initialiser(v)
    BY <1>2
  <2>2. PICK j \in DOMAIN fields : VariableFor(v, fields[j])
    BY VariableHeld
  <2>3. fields[j].value # <<>> /\ e = fields[j].value[1]
    BY <1>2, <2>1, <2>2 DEF VariableFor, Initialiser
  <2>4. e \in Seq(Operands) /\ Reads(e) \cap FunctionIds(package) = {} /\ ResultsUsed(package, e)
    BY <2>3, LegalisedIs, FieldExpression DEF Legalised
  <2>5. Calls(e) \subseteq Callables(methods) /\ Callables(methods) \subseteq FunctionIds(package)
    BY <2>3, LegalisedIs, CallablesAre DEF FieldDone
  <2>6. Reads(e) \subseteq Callables(methods) \cup Ids(fields)
    BY <2>3, LegalisedIs DEF ReadsKnown, InitialisedBefore, Ids
  <2>7. Reads(e) \subseteq Ids(fields) \cap Identifiers
    BY <2>4, <2>5, <2>6, OperandNames
  <2> QED BY <2>4, <2>5, <2>7, NamedField
<1>3. CASE e # <<>> /\ \E d \in Functions(package) : e = d.body
  <2>1. PICK d \in Functions(package) : e = d.body
    BY <1>3
  <2>2. PICK i \in DOMAIN methods : FunctionAs(d, methods[i])
    BY FunctionHeld
  <2>3. e = methods[i].value
    BY <2>1, <2>2, FunctionParts
  <2>4. /\ e \in Seq(Operands) /\ Reads(e) \subseteq Ids(fields) /\ Calls(e) \subseteq Callables(methods)
        /\ ~VoidCall(e)
    BY <1>3, <2>3, BodyFound
  <2>5. Reads(e) \subseteq VariableIds(package)
    BY <2>4, OperandNames, NamedField
  <2>6. Calls(e) \subseteq FunctionIds(package)
    BY <2>4, LegalisedIs, CallablesAre
  <2>7. ASSUME NEW x \in Calls(e) PROVE FunctionOf(package, x).result # "Void"
    <3>1. PICK k \in DOMAIN methods : methods[k].id = x /\ x # "_"
      BY <2>4 DEF Callables, Ids
    <3>2. methods[k].type # "Void"
      BY <2>4, <3>1 DEF VoidCall
    <3> QED BY <3>1, <3>2, LegalisedIs, CalledResult
  <2> QED BY <2>5, <2>6, <2>7 DEF ResultsUsed
<1> QED BY <1>1, <1>2, <1>3 DEF Expressions

LEMMA LegalConstants == Legalised => ConstantsConstant(package)
<1> SUFFICES ASSUME Legalised, NEW v \in Variables(package), v.isConst
             PROVE  v.values # <<>> /\ Constant(package, Initialiser(v))
  BY DEF ConstantsConstant
<1> DEFINE e == Initialiser(v)
<1>1. PICK a \in DOMAIN FieldsNamed(package) : VariableAs(v, FieldsNamed(package)[a])
  BY LegalisedIs, VariablesAsked DEF FieldsNamed
<1>2. v.values # <<>>
  BY <1>1 DEF VariableAs
<1>3. PICK j \in DOMAIN fields : VariableFor(v, fields[j]) /\ fields[j].id \in consts
  BY VariableHeld
<1>4. fields[j].value # <<>> /\ e = fields[j].value[1]
  BY <1>2, <1>3 DEF VariableFor, Initialiser
<1>5. Calls(e) = {} /\ Reads(e) \subseteq consts
  BY <1>3, <1>4, LegalisedIs DEF FieldDone
<1>6. e \in Seq(Operands)
  BY <1>4, LegalisedIs, FieldExpression DEF Legalised
<1>7. ASSUME NEW x \in Reads(e) PROVE VariableOf(package, x).isConst
  <2>1. x \in Identifiers /\ x \in consts /\ x \in VariableIds(package)
    BY <1>5, <1>6, OperandNames, LegalExpression DEF Expressions
  <2>2. PICK b \in 1 .. FieldsTo - 1 : FieldsNamed(package)[b].isConst /\ FieldsNamed(package)[b].id = x
    BY <2>1, LegalisedIs DEF MapsOK, ConstsTo
  <2>3. b \in DOMAIN FieldsNamed(package)
    BY LegalisedIs, Ranges
  <2>4. PICK w \in Variables(package) : VariableAs(w, FieldsNamed(package)[b])
    BY <2>3, LegalisedIs, VariablesAsked DEF FieldsNamed
  <2>5. w.isConst /\ w.id = x
    BY <2>1, <2>2, <2>4 DEF VariableAs, Identifiers
  <2>6. w.id # "_"
    <3>1. PICK n \in Named(package) : n.id = x
      BY <2>1 DEF VariableIds
    <3> QED BY <2>5, <3>1 DEF Named
  <2> QED BY <2>5, <2>6, LegalisedIs, VariableIs DEF FieldsNamed
<1> QED BY <1>2, <1>5, <1>7 DEF Constant

LEMMA Declared ==
  ASSUME NEW p \in Packages
  PROVE  /\ DOMAIN p = 1 .. Len(p) /\ Len(p) \in Nat
         /\ \A i \in DOMAIN p : p[i] \in TopDeclarations /\ p[i] \in ToSet(p)
<1>1. p \in Seq(TopDeclarations)
  BY PackagesAssumption
<1> QED BY <1>1 DEF ToSet

LEMMA FunctionPlaces ==
  ASSUME Legalised, NEW i \in DOMAIN package, NEW j \in DOMAIN package, i # j,
         package[i].kind = "function", package[j].kind = "function"
  PROVE  package[i].identifiers[1] # package[j].identifiers[1]
<1> DEFINE p == package
           r == MethodRequests(p)
<1>1. p \in Seq(TopDeclarations) /\ Joins(MethodsAsked(p), Len(p), r) /\ Unique(r)
  BY LegalisedIs, PackagesAssumption, MethodRequestsAre
<1>2. DOMAIN p = 1 .. Len(p) /\ Len(p) \in Nat
  BY LegalisedIs, Declared
<1>3. ASSUME NEW n \in DOMAIN p, p[n].kind = "function"
      PROVE  Inside(MethodsAsked(p), Len(p), n, 1) /\ MethodsAsked(p)[n][1] = Method(p[n])
  BY <1>2, <1>3 DEF Inside, MethodsAsked
<1>4. Differ(i, 1, j, 1)
  BY DEF Differ
<1> HIDE DEF r
<1>5. Both(r, MethodsAsked(p)[i][1], MethodsAsked(p)[j][1])
  BY <1>1, <1>3, <1>4 DEF Joins, Apart
<1>6. PICK a \in DOMAIN r : \E b \in DOMAIN r : a # b /\ r[a] = Method(p[i]) /\ r[b] = Method(p[j])
  BY <1>3, <1>5 DEF Both
<1>7. PICK b \in DOMAIN r : a # b /\ r[a] = Method(p[i]) /\ r[b] = Method(p[j])
  BY <1>6
<1>8. r[a].id # r[b].id
  BY <1>1, <1>7 DEF Unique
<1> QED BY <1>7, <1>8 DEF Method

(* Counting from the end and back.                                         *)
LEMMA Mirror ==
  ASSUME NEW h \in Nat, NEW n \in 1 .. h, NEW m \in 1 .. h
  PROVE  /\ h + 1 - n \in 1 .. h
         /\ h + 1 - (h + 1 - n) = n
         /\ h + 1 - n = h + 1 - m => n = m
  OBVIOUS

LEMMA VariablePlaces ==
  ASSUME Legalised, NEW i \in DOMAIN package, NEW j \in DOMAIN package,
         package[i].kind # "function", package[j].kind # "function",
         NEW k \in DOMAIN package[i].identifiers, NEW l \in DOMAIN package[j].identifiers,
         Differ(i, k, j, l), package[i].identifiers[k] # "_"
  PROVE  package[i].identifiers[k] # package[j].identifiers[l]
<1> DEFINE p == package
           q == FieldRequests(p)
           r == FieldsNamed(p)
           At1(n) == Len(p) + 1 - n
<1>1. /\ p \in Seq(TopDeclarations) /\ Joins(FieldsAsked(p), Len(p), q) /\ Unique(r)
      /\ DOMAIN r = DOMAIN q /\ \A a \in DOMAIN q : Renamed(q[a], r[a])
  BY LegalisedIs, PackagesAssumption, FieldRequestsAre, BlanksNamedAre DEF FieldsNamed
<1>2. DOMAIN p = 1 .. Len(p) /\ Len(p) \in Nat
  BY LegalisedIs, Declared
<1>3. ASSUME NEW n \in DOMAIN p, p[n].kind # "function", NEW m \in DOMAIN p[n].identifiers
      PROVE  Inside(FieldsAsked(p), Len(p), At1(n), m) /\ FieldsAsked(p)[At1(n)][m] = FieldOf(p[n], m)
  <2>1. At1(n) \in 1 .. Len(p) /\ Len(p) + 1 - At1(n) = n
    <3>1. PICK h \in Nat : h = Len(p) /\ n \in 1 .. h
      BY <1>2
    <3>2. h + 1 - n \in 1 .. h /\ h + 1 - (h + 1 - n) = n
      BY <3>1, Mirror
    <3> QED BY <3>1, <3>2
  <2> HIDE DEF At1
  <2> QED BY <1>2, <1>3, <2>1 DEF Inside, FieldsAsked
<1>4. Differ(At1(i), k, At1(j), l)
  <2>1. PICK h \in Nat : h = Len(p) /\ i \in 1 .. h /\ j \in 1 .. h
    BY <1>2
  <2>2. h + 1 - i = h + 1 - j => i = j
    BY ONLY <2>1, Mirror
  <2> QED BY <2>1, <2>2 DEF Differ
<1> HIDE DEF q, r, At1
<1>5. Both(q, FieldsAsked(p)[At1(i)][k], FieldsAsked(p)[At1(j)][l])
  BY <1>1, <1>3, <1>4 DEF Joins, Apart
<1>6. PICK a \in DOMAIN q : \E b \in DOMAIN q : a # b /\ q[a] = FieldOf(p[i], k) /\ q[b] = FieldOf(p[j], l)
  BY <1>3, <1>5 DEF Both
<1>7. PICK b \in DOMAIN q : a # b /\ q[a] = FieldOf(p[i], k) /\ q[b] = FieldOf(p[j], l)
  BY <1>6
<1>8. q[a].id = p[i].identifiers[k] /\ q[b].id = p[j].identifiers[l]
  <2>1. \A d, n : FieldOf(d, n).id = d.identifiers[n]
    BY DEF FieldOf
  <2> QED BY <1>7, <2>1
<1>9. r[a].id # r[b].id
  BY <1>1, <1>7 DEF Unique
<1>10. SUFFICES ASSUME q[a].id = q[b].id PROVE FALSE
  BY <1>8
<1>11. r[a].id = q[a].id /\ r[b].id = q[b].id
  BY <1>1, <1>8, <1>10 DEF Renamed
<1> QED BY <1>9, <1>10, <1>11

LEMMA VariableListed ==
  ASSUME NEW p, NEW d \in ToSet(p), d.kind = "variable", NEW m \in DOMAIN d.identifiers
  PROVE  VariableIn(d, m) \in Variables(p)
<1> DEFINE ds == {e \in ToSet(p) : e.kind = "variable"}
           of(e) == {VariableIn(e, i) : i \in DOMAIN e.identifiers}
<1>1. d \in ds /\ VariableIn(d, m) \in of(d)
  OBVIOUS
<1>2. VariableIn(d, m) \in UNION {of(e) : e \in ds}
  BY <1>1
<1> QED BY <1>2 DEF Variables, VariableIn

LEMMA PlaceNames ==
  ASSUME NEW p \in Packages, NEW i \in DOMAIN p, NEW k \in DOMAIN p[i].identifiers,
         p[i].identifiers[k] # "_"
  PROVE  IF p[i].kind = "function" THEN k = 1 /\ p[i].identifiers[k] \in FunctionIds(p)
                                   ELSE p[i].identifiers[k] \in VariableIds(p)
<1>1. p[i] \in TopDeclarations /\ p[i] \in ToSet(p)
  BY Declared
<1>2. CASE p[i].kind = "function"
  <2>1. k = 1
    BY <1>1, <1>2, FunctionDeclaration
  <2> QED BY <1>1, <1>2, <2>1 DEF FunctionIds, Functions
<1>3. CASE p[i].kind # "function"
  <2>1. p[i].kind = "variable"
    BY <1>1, <1>3 DEF TopDeclarations
  <2>2. VariableIn(p[i], k) \in Variables(p)
    BY <1>1, <2>1, VariableListed
  <2>3. VariableIn(p[i], k).id = p[i].identifiers[k]
    BY DEF VariableIn
  <2> QED BY <1>3, <2>2, <2>3 DEF VariableIds, Named
<1> QED BY <1>2, <1>3

LEMMA LegalDeclarations == Legalised => DeclaredOnce(package)
<1> SUFFICES ASSUME Legalised, NEW i \in DOMAIN package, NEW j \in DOMAIN package,
                    NEW k \in DOMAIN package[i].identifiers, NEW l \in DOMAIN package[j].identifiers,
                    package[i].identifiers[k] = package[j].identifiers[l], package[i].identifiers[k] # "_"
             PROVE  <<i, k>> = <<j, l>>
  BY DEF DeclaredOnce
<1>1. package \in Packages /\ FunctionIds(package) \cap VariableIds(package) = {}
  BY LegalisedIs DEF Legalised, Plain
<1>2. CASE package[i].kind = "function" /\ package[j].kind = "function"
  <2>1. k = 1 /\ l = 1
    BY <1>1, <1>2, PlaceNames
  <2>2. i = j
    BY <1>2, <2>1, FunctionPlaces
  <2> QED BY <2>1, <2>2
<1>3. CASE package[i].kind # "function" /\ package[j].kind # "function"
  <2>1. ~Differ(i, k, j, l)
    BY <1>3, VariablePlaces
  <2> QED BY <2>1 DEF Differ
<1>4. CASE (package[i].kind = "function") # (package[j].kind = "function")
  BY <1>1, <1>4, PlaceNames
<1> QED BY <1>2, <1>3, <1>4

(* Without calls, what a variable uses was initialised before it.          *)
LEMMA FieldUses ==
  ASSUME Legalised, \A v \in Variables(package) : Calls(Initialiser(v)) = {},
         NEW x \in VariableIds(package)
  PROVE  \E j \in DOMAIN fields : fields[j].id = x /\ Uses(package, x) \subseteq InitialisedBefore(j)
<1>1. PICK v \in Variables(package) : v.id = x /\ x # "_"
  BY DEF VariableIds, Named
<1>2. PICK j \in DOMAIN fields : VariableFor(v, fields[j])
  BY VariableHeld
<1>3. fields[j].id = x /\ fields[j].value = v.values
  BY <1>1, <1>2 DEF VariableFor
<1>4. ExpressionOf(package, x) = Initialiser(v)
  <2>1. x \notin FunctionIds(package)
    BY DEF Legalised, Plain
  <2>2. VariableOf(package, x).values = v.values
    BY <1>1, LegalisedIs, VariableIs DEF FieldsNamed
  <2> QED BY <2>1, <2>2 DEF ExpressionOf, Initialiser
<1>5. Uses(package, x) = Reads(Initialiser(v))
  BY <1>4 DEF Uses
<1>6. CASE v.values = <<>>
  <2>1. Initialiser(v) = <<>>
    BY <1>6 DEF Initialiser
  <2>2. ToSet(<<>>) = {}
    BY DEF ToSet
  <2>3. Reads(Initialiser(v)) = {}
    BY <2>1, <2>2 DEF Reads
  <2> QED BY <1>3, <1>5, <2>3
<1>7. CASE v.values # <<>>
  <2>1. fields[j].value # <<>> /\ Initialiser(v) = fields[j].value[1]
    BY <1>3, <1>7 DEF Initialiser
  <2>2. Reads(Initialiser(v)) \subseteq Callables(methods) \cup InitialisedBefore(j)
    BY <2>1, LegalisedIs DEF ReadsKnown
  <2>3. Reads(Initialiser(v)) \cap FunctionIds(package) = {}
    BY DEF Legalised, Plain, Expressions
  <2>4. Callables(methods) \subseteq FunctionIds(package)
    BY LegalisedIs, CallablesAre
  <2> QED BY <1>3, <1>5, <2>2, <2>3, <2>4
<1> QED BY <1>6, <1>7

LEMMA LegalCycles ==
  ASSUME Legalised, \A v \in Variables(package) : Calls(Initialiser(v)) = {}
  PROVE  Acyclic(package)
<1> DEFINE known == FunctionIds(package) \cup VariableIds(package)
           uses == [x \in known |-> Uses(package, x)]
<1> SUFFICES ASSUME NEW x \in VariableIds(package)
             PROVE  \E ids \in SUBSET (DOMAIN uses \ {x}) : uses[x] \subseteq ids /\ \A y \in ids : uses[y] \subseteq ids
  BY DEF Acyclic
<1>1. PICK j \in DOMAIN fields : fields[j].id = x /\ Uses(package, x) \subseteq InitialisedBefore(j)
  BY FieldUses
<1>2. DOMAIN fields = 1 .. Len(fields) /\ Len(fields) \in Nat
  BY LegalisedIs, MapFacts DEF IInv, FieldsOK
<1>3. Distinct(fields)
  BY LegalisedIs DEF MapsOK, MapOK
<1> DEFINE ids == InitialisedBefore(j) \cap VariableIds(package)
<1>4. ASSUME NEW y \in VariableIds(package) PROVE Uses(package, y) \subseteq VariableIds(package)
  <2>1. PICK v \in Variables(package) : v.id = y /\ y # "_"
    BY DEF VariableIds, Named
  <2>2. y \notin FunctionIds(package) /\ VariableOf(package, y) \in Variables(package)
    BY <2>1, LegalisedIs, VariableIs DEF Legalised, Plain, FieldsNamed
  <2>3. Uses(package, y) = Reads(Initialiser(VariableOf(package, y)))
    BY <2>2 DEF Uses, ExpressionOf
  <2> QED BY <2>2, <2>3, LegalExpression DEF Expressions
<1>5. x \notin InitialisedBefore(j)
  BY <1>1, <1>2, <1>3 DEF InitialisedBefore, Distinct
<1>6. ids \in SUBSET (DOMAIN uses \ {x})
  BY <1>5
<1>7. uses[x] \subseteq ids
  BY <1>1, <1>4
<1>8. ASSUME NEW y \in ids PROVE uses[y] \subseteq ids
  <2>1. PICK i \in DOMAIN fields : i < j /\ fields[i].id = y
    BY DEF InitialisedBefore
  <2>2. PICK n \in DOMAIN fields : fields[n].id = y /\ Uses(package, y) \subseteq InitialisedBefore(n)
    BY FieldUses
  <2>3. n = i
    BY <1>3, <2>1, <2>2 DEF Distinct
  <2>4. InitialisedBefore(n) \subseteq InitialisedBefore(j)
    BY <1>2, <2>1, <2>3 DEF InitialisedBefore
  <2> QED BY <1>4, <2>2, <2>4
<1> QED BY <1>6, <1>7, <1>8

LEMMA AcceptedIsLegal == AllOK /\ AnalysedOK => AcceptsOnlyLegal
<1> SUFFICES ASSUME AllOK, AnalysedOK, stage = "written",
                    \A d \in ToSet(package) : CountsAgree(d),
                    FunctionIds(package) \cap VariableIds(package) = {},
                    Acyclic(package) \/ CalledByInitialisers = {},
                    \A v \in Variables(package) : ResultsUsed(package, Initialiser(v)),
                    \A e \in Expressions(package) : Reads(e) \cap FunctionIds(package) = {}
             PROVE  Legal(package)
  BY DEF AcceptsOnlyLegal
<1>1. Legalised
  BY DEF Legalised, Accepted, Plain, CountsOK
<1>2. Acyclic(package)
  <2>1. CalledByInitialisers = {} => \A v \in Variables(package) : Calls(Initialiser(v)) = {}
    BY DEF CalledByInitialisers
  <2> QED BY <1>1, <2>1, LegalCycles
<1>3. NamesResolve(package) /\ \A e \in Expressions(package) : ResultsUsed(package, e)
  BY <1>1, LegalExpression DEF NamesResolve
<1> QED BY <1>1, <1>2, <1>3, LegalMain, LegalDeclarations, LegalConstants DEF Legal

(* The compiler accepts only legal packages, up to the rules it does not   *)
(* check: at the end of a compilation whose analysis reported no error,    *)
(* the package obeys every other rule of Go at the package level, for all  *)
(* packages, hash functions and orders of evaluation.                      *)
THEOREM AcceptedPackageLegal == Spec => []AcceptsOnlyLegal
<1>1. Start => AllOK /\ AnalysedOK
  BY StartAll, StartAnalysed
<1>2. AllOK /\ AnalysedOK /\ [Step]_vars => (AllOK /\ AnalysedOK)'
  BY StepAll, StepAnalysed
<1>3. AllOK /\ AnalysedOK => AcceptsOnlyLegal
  BY AcceptedIsLegal
<1> QED BY <1>1, <1>2, <1>3, PTL DEF Spec

(* A legal package is one in which there is nothing to overlook.           *)
LEMMA LegalIsPlain ==
  ASSUME NEW p \in Packages, Legal(p)
  PROVE  Plain(p)
<1>1. DeclaredOnce(p) /\ NamesResolve(p) /\ CountsOK(p) /\ \A e \in Expressions(p) : ResultsUsed(p, e)
  BY DEF Legal, CountsOK
<1>2. FunctionIds(p) \cap VariableIds(p) = {}
  <2>1. SUFFICES ASSUME NEW x \in FunctionIds(p), x \in VariableIds(p) PROVE FALSE
    OBVIOUS
  <2>2. PICK d \in ToSet(p) : d.kind = "function" /\ d.identifiers[1] = x /\ x # "_"
    BY DEF FunctionIds, Functions
  <2>3. PICK i \in DOMAIN p : p[i] = d
    BY DEF ToSet
  <2>4. PICK v \in Variables(p) : v.id = x
    BY <2>1 DEF VariableIds, Named
  <2>5. PICK g \in ToSet(p) : g.kind = "variable" /\ \E k \in DOMAIN g.identifiers : v = VariableIn(g, k)
    BY DEF Variables, VariableIn
  <2>6. PICK k \in DOMAIN g.identifiers : v = VariableIn(g, k)
    BY <2>5
  <2>7. PICK j \in DOMAIN p : p[j] = g
    BY DEF ToSet
  <2>8. g.identifiers[k] = x
    BY <2>4, <2>6 DEF VariableIn
  <2>9. 1 \in DOMAIN d.identifiers
    BY <2>2, <2>3, Declared, FunctionDeclaration
  <2>10. /\ p[i].identifiers[1] = p[j].identifiers[k] /\ p[i].identifiers[1] # "_"
         /\ 1 \in DOMAIN p[i].identifiers /\ k \in DOMAIN p[j].identifiers
    BY <2>2, <2>3, <2>6, <2>7, <2>8, <2>9
  <2>11. i = j
    <3>1. \A a \in DOMAIN p[i].identifiers, b \in DOMAIN p[j].identifiers :
            p[i].identifiers[a] = p[j].identifiers[b] => p[i].identifiers[a] = "_" \/ <<i, a>> = <<j, b>>
      BY <1>1 DEF DeclaredOnce
    <3>2. <<i, 1>> = <<j, k>>
      BY <2>10, <3>1
    <3> QED BY <3>2
  <2> QED BY <2>2, <2>3, <2>5, <2>7, <2>11
<1>3. \A e \in Expressions(p) : Reads(e) \cap FunctionIds(p) = {}
  BY <1>1, <1>2 DEF NamesResolve
<1>4. \A v \in Variables(p) : ResultsUsed(p, Initialiser(v))
  BY <1>1 DEF Expressions
<1> QED BY <1>1, <1>2, <1>3, <1>4 DEF Plain


-----------------------------------------------------------------------------
(* A package that declares no name twice asks for no name twice.           *)

LEMMA BlankNamesDiffer ==
  ASSUME NEW k \in DOMAIN BlankNames, NEW l \in DOMAIN BlankNames, BlankNames[k] = BlankNames[l]
  PROVE  k = l
  BY DEF BlankNames

LEMMA BlanksCounted ==
  ASSUME NEW requests, NEW i \in Nat, NEW j \in Nat, i < j, requests[j].id = "_"
  PROVE  BlanksTo(requests, i) # BlanksTo(requests, j)
<1> DEFINE A == {n \in 1 .. i : requests[n].id = "_"}
           B == {n \in 1 .. j : requests[n].id = "_"}
<1>1. IsFiniteSet(1 .. j) /\ B \subseteq 1 .. j
  <2>1. IsFiniteSet(1 .. j)
    <3>1. 1 \in Int /\ j \in Int
      BY ONLY j \in Nat
    <3> QED BY ONLY <3>1, FS_Interval
  <2> QED BY <2>1
<1>2. IsFiniteSet(B)
  BY <1>1, FS_Subset
<1>3. A \subseteq B /\ j \in B /\ j \notin A
  <2>1. j \in 1 .. j /\ j \notin 1 .. i /\ \A n \in 1 .. i : n \in 1 .. j
    <3> QED BY ONLY i \in Nat, j \in Nat, i < j
  <2> QED BY <2>1
<1> HIDE DEF A, B
<1>4. Cardinality(A) # Cardinality(B)
  BY <1>2, <1>3, FS_Subset
<1> QED BY <1>4 DEF BlanksTo, A, B

(* Only one function of the package has no name.                           *)
BlankFunction(d) == d.identifiers = <<"_">> /\ d.kind = "function"

OneBlank(p) ==
  \A i \in DOMAIN p : \A j \in DOMAIN p : BlankFunction(p[i]) /\ BlankFunction(p[j]) => i = j

LEMMA NamedOnce ==
  ASSUME NEW p, DeclaredOnce(p), NEW i \in DOMAIN p, NEW j \in DOMAIN p,
         NEW k \in DOMAIN p[i].identifiers, NEW l \in DOMAIN p[j].identifiers,
         p[i].identifiers[k] = p[j].identifiers[l], p[i].identifiers[k] # "_"
  PROVE  i = j /\ k = l
<1>1. <<i, k>> = <<j, l>>
  BY DEF DeclaredOnce
<1> QED BY <1>1

LEMMA MethodsUnique ==
  ASSUME NEW p \in Packages, DeclaredOnce(p), OneBlank(p)
  PROVE  Unique(MethodRequests(p))
<1> DEFINE r == MethodRequests(p)
<1>1. Joins(MethodsAsked(p), Len(p), r) /\ DOMAIN p = 1 .. Len(p)
  BY MethodRequestsAre, Declared
<1>2. ASSUME NEW i, NEW k, Inside(MethodsAsked(p), Len(p), i, k)
      PROVE  /\ i \in DOMAIN p /\ p[i].kind = "function" /\ k = 1 /\ MethodsAsked(p)[i][k] = Method(p[i])
             /\ 1 \in DOMAIN p[i].identifiers
             /\ p[i].identifiers[1] = "_" => p[i].identifiers = <<"_">>
  <2>1. i \in DOMAIN p /\ p[i].kind = "function" /\ k = 1 /\ MethodsAsked(p)[i][k] = Method(p[i])
    BY <1>1, <1>2 DEF Inside, MethodsAsked
  <2>2. DOMAIN p[i].identifiers = {1} /\ p[i].identifiers \in Seq(Identifiers)
    BY <2>1, Declared, FunctionDeclaration, VariableDeclaration
  <2>3. p[i].identifiers = <<p[i].identifiers[1]>>
    BY <2>2, OneElement
  <2> QED BY <2>1, <2>2, <2>3
<1> HIDE DEF r
<1>3. SUFFICES ASSUME NEW a \in DOMAIN r, NEW b \in DOMAIN r, r[a].id = r[b].id, a # b PROVE FALSE
  BY DEF Unique, r
<1>4. TwoPlaces(MethodsAsked(p), Len(p), r[a], r[b])
  BY <1>1, <1>3 DEF Joins, Splits
<1>5. PICK i, k, j, l :
        /\ Inside(MethodsAsked(p), Len(p), i, k) /\ Inside(MethodsAsked(p), Len(p), j, l) /\ Differ(i, k, j, l)
        /\ r[a] = MethodsAsked(p)[i][k] /\ r[b] = MethodsAsked(p)[j][l]
  BY <1>4 DEF TwoPlaces
<1>6. i # j /\ r[a] = Method(p[i]) /\ r[b] = Method(p[j])
  <2>1. k = 1 /\ MethodsAsked(p)[i][k] = Method(p[i])
    BY <1>2, <1>5
  <2>2. l = 1 /\ MethodsAsked(p)[j][l] = Method(p[j])
    BY <1>2, <1>5
  <2>3. i # j
    BY <1>5, <2>1, <2>2 DEF Differ
  <2> QED BY <1>5, <2>1, <2>2, <2>3
<1>7. p[i].identifiers[1] = p[j].identifiers[1]
  BY <1>3, <1>6 DEF Method
<1>10. /\ i \in DOMAIN p /\ p[i].kind = "function" /\ 1 \in DOMAIN p[i].identifiers
       /\ p[i].identifiers[1] = "_" => p[i].identifiers = <<"_">>
  BY <1>2, <1>5
<1>11. /\ j \in DOMAIN p /\ p[j].kind = "function" /\ 1 \in DOMAIN p[j].identifiers
       /\ p[j].identifiers[1] = "_" => p[j].identifiers = <<"_">>
  BY <1>2, <1>5
<1>8. CASE p[i].identifiers[1] # "_"
  <2>1. i = j
    BY <1>7, <1>8, <1>10, <1>11, NamedOnce
  <2> QED BY <1>6, <2>1
<1>9. CASE p[i].identifiers[1] = "_"
  <2>1. p[i].identifiers = <<"_">> /\ p[j].identifiers = <<"_">>
    BY <1>7, <1>9, <1>10, <1>11
  <2> QED BY <1>6, <1>10, <1>11, <2>1 DEF OneBlank, BlankFunction
<1> QED BY <1>8, <1>9

LEMMA FieldsUnique ==
  ASSUME NEW p \in Packages, DeclaredOnce(p)
  PROVE  Unique(FieldsNamed(p))
<1> DEFINE q == FieldRequests(p)
           r == FieldsNamed(p)
           At1(n) == Len(p) + 1 - n
<1>1. /\ q \in Seq(FieldSet) /\ Joins(FieldsAsked(p), Len(p), q)
      /\ DOMAIN r = DOMAIN q /\ \A a \in DOMAIN q : Renamed(q[a], r[a])
      /\ DOMAIN p = 1 .. Len(p) /\ Len(p) \in Nat
  BY FieldRequestsAre, BlanksNamedAre, Declared DEF FieldsNamed
<1>2. ASSUME NEW i, NEW k, Inside(FieldsAsked(p), Len(p), i, k)
      PROVE  /\ At1(i) \in DOMAIN p /\ k \in DOMAIN p[At1(i)].identifiers
             /\ FieldsAsked(p)[i][k].id = p[At1(i)].identifiers[k]
             /\ i \in 1 .. Len(p)
  <2>1. i \in 1 .. Len(p) /\ k \in DOMAIN FieldsAsked(p)[i]
    BY <1>2 DEF Inside
  <2>2. At1(i) \in DOMAIN p
    BY <1>1, <2>1
  <2> HIDE DEF At1
  <2>3. FieldsAsked(p)[i] = IF p[At1(i)].kind = "function" THEN <<>>
                            ELSE [j \in DOMAIN p[At1(i)].identifiers |-> FieldOf(p[At1(i)], j)]
    BY <1>1, <2>1 DEF FieldsAsked, At1
  <2>4. k \in DOMAIN p[At1(i)].identifiers /\ FieldsAsked(p)[i][k] = FieldOf(p[At1(i)], k)
    BY <2>1, <2>3
  <2> QED BY <2>1, <2>2, <2>4 DEF FieldOf
<1>3. ASSUME NEW a \in DOMAIN q, q[a].id = "_"
      PROVE  /\ r[a].id = BlankNames[BlanksTo(q, a)] /\ BlanksTo(q, a) \in DOMAIN BlankNames
             /\ r[a].id \in ToSet(BlankNames)
  <2>1. BlanksTo(q, a) \in DOMAIN BlankNames
    BY <1>3, PackagesAssumption
  <2>2. PICK f \in FieldSet : f = q[a]
    BY <1>1
  <2>3. r[a] = [f EXCEPT !.id = BlankName(q, a)]
    BY <1>3, <2>2 DEF FieldsNamed, BlanksNamed
  <2>4. r[a].id = BlankName(q, a)
    BY <2>2, <2>3 DEF FieldSet
  <2> HIDE DEF q, r
  <2>5. BlankNames[BlanksTo(q, a)] \in ToSet(BlankNames)
    BY <2>1 DEF ToSet
  <2> QED BY <2>1, <2>4, <2>5 DEF BlankName
<1> HIDE DEF q, r
<1>4. SUFFICES ASSUME NEW a \in DOMAIN q, NEW b \in DOMAIN q, r[a].id = r[b].id, a # b PROVE FALSE
  BY <1>1 DEF Unique, r
<1>5. PICK i, k, j, l :
        /\ Inside(FieldsAsked(p), Len(p), i, k) /\ Inside(FieldsAsked(p), Len(p), j, l) /\ Differ(i, k, j, l)
        /\ q[a] = FieldsAsked(p)[i][k] /\ q[b] = FieldsAsked(p)[j][l]
  BY <1>1, <1>4 DEF Joins, Splits, TwoPlaces
<1>6. CASE q[a].id # "_" /\ q[b].id # "_"
  <2>1. r[a].id = q[a].id /\ r[b].id = q[b].id
    BY <1>1, <1>6 DEF Renamed
  <2>2. p[At1(i)].identifiers[k] = p[At1(j)].identifiers[l] /\ p[At1(i)].identifiers[k] # "_"
    BY <1>2, <1>4, <1>5, <1>6, <2>1
  <2>3. At1(i) = At1(j) /\ k = l
    <3> HIDE DEF At1
    <3>1. At1(i) \in DOMAIN p /\ k \in DOMAIN p[At1(i)].identifiers
      BY <1>2, <1>5
    <3>2. At1(j) \in DOMAIN p /\ l \in DOMAIN p[At1(j)].identifiers
      BY <1>2, <1>5
    <3>3. PICK x, y : x = At1(i) /\ y = At1(j)
      OBVIOUS
    <3>5. /\ x \in DOMAIN p /\ k \in DOMAIN p[x].identifiers /\ y \in DOMAIN p /\ l \in DOMAIN p[y].identifiers
          /\ p[x].identifiers[k] = p[y].identifiers[l] /\ p[x].identifiers[k] # "_"
      BY <2>2, <3>1, <3>2, <3>3
    <3>6. DeclaredOnce(p)
      OBVIOUS
    <3>7. <<x, k>> = <<y, l>>
      BY ONLY <3>5, <3>6 DEF DeclaredOnce
    <3>4. x = y /\ k = l
      BY <3>7
    <3> QED BY <3>3, <3>4
  <2>4. i = j
    <3>1. PICK h \in Nat : h = Len(p) /\ i \in 1 .. h /\ j \in 1 .. h
      BY <1>1, <1>2, <1>5
    <3> QED BY <3>1, <2>3, Mirror
  <2> QED BY <1>5, <2>3, <2>4 DEF Differ
<1>7. CASE q[a].id = "_" /\ q[b].id = "_"
  <2>1. BlanksTo(q, a) = BlanksTo(q, b)
    BY <1>3, <1>4, <1>7, BlankNamesDiffer
  <2>2. a \in Nat /\ b \in Nat
    BY <1>1
  <2>3. a < b \/ b < a
    BY <1>4, <2>2
  <2> QED BY <1>7, <2>1, <2>2, <2>3, BlanksCounted
<1>8. ASSUME NEW c \in DOMAIN q, NEW d \in DOMAIN q, q[c].id = "_", q[d].id # "_" PROVE r[c].id # r[d].id
  <2>1. r[d].id = q[d].id /\ q[d] \in FieldSet
    <3>1. Renamed(q[d], r[d]) /\ q[d] \in FieldSet
      BY <1>1
    <3> QED BY <1>8, <3>1 DEF Renamed
  <2>2. q[d].id \in Identifiers
    BY <2>1 DEF FieldSet
  <2> QED BY <1>3, <1>8, <2>1, <2>2 DEF Identifiers
<1> QED BY <1>4, <1>6, <1>7, <1>8

-----------------------------------------------------------------------------
(* The compiler's types follow those of Go: where Go converts all operands *)
(* to a type, the type that the compiler finds for their sum converts to   *)
(* it as well.                                                             *)

LEMMA ConvertsTwice ==
  ASSUME NEW t, NEW u \in GoTypes, NEW w, Converts(t, u), Converts(u, w)
  PROVE  Converts(t, w)
  BY DEF Converts, GoTypes

LEMMA ConvertsDefault ==
  ASSUME NEW t \in GoTypes
  PROVE  Converts(t, DefaultType(t))
<1>1. CASE t = "UntypedInt"
  BY <1>1 DEF Converts, DefaultType
<1>2. CASE t = "UntypedFloat"
  BY <1>2 DEF Converts, DefaultType
<1>3. CASE t \notin {"UntypedInt", "UntypedFloat"}
  <2>1. DefaultType(t) = t
    BY <1>3 DEF DefaultType
  <2> QED BY <2>1 DEF Converts
<1> QED BY <1>1, <1>2, <1>3

LEMMA Converted ==
  ASSUME NEW t, NEW u \in GoTypes, Converts(t, u)
  PROVE  /\ t \in GoTypes /\ t \in Printable /\ t # "Invalid"
         /\ EqualTypes(t, u) /\ EqualTypes(u, t)
<1>1. t \in GoTypes
  BY DEF Converts, GoTypes
<1>2. t \in Printable /\ t # "Invalid"
  BY <1>1 DEF GoTypes, Printable, Ints, Reals
<1>3. EqualTypes(t, u) /\ EqualTypes(u, t)
  BY DEF Converts, EqualTypes, GoTypes, Ints, Reals
<1> QED BY <1>1, <1>2, <1>3

LEMMA SumConverts ==
  ASSUME NEW l, NEW r, NEW t \in GoTypes, Converts(l, t), Converts(r, t)
  PROVE  Converts(SumType(l, r), t)
<1>1. CASE t = "String"
  <2>1. l = "String" /\ r = "String"
    BY <1>1 DEF Converts
  <2> QED BY <1>1, <2>1 DEF Converts, SumType
<1>2. CASE t = "UntypedInt"
  <2>1. l = "UntypedInt" /\ r = "UntypedInt"
    BY <1>2 DEF Converts
  <2> QED BY <1>2, <2>1 DEF Converts, SumType, DeterminePriorityType, EqualTypes, Ints, Reals
<1>3. CASE t = "Int"
  <2>1. l \in {"UntypedInt", "Int"} /\ r \in {"UntypedInt", "Int"}
    BY <1>3 DEF Converts
  <2> QED BY <1>3, <2>1 DEF Converts, SumType, DeterminePriorityType, EqualTypes, Ints, Reals
<1>4. CASE t = "UntypedFloat"
  <2>1. l \in {"UntypedInt", "UntypedFloat"} /\ r \in {"UntypedInt", "UntypedFloat"}
    BY <1>4 DEF Converts
  <2> QED BY <1>4, <2>1 DEF Converts, SumType, DeterminePriorityType, EqualTypes, Ints, Reals
<1>5. CASE t = "Float"
  <2>1. l \in {"UntypedInt", "UntypedFloat", "Float"} /\ r \in {"UntypedInt", "UntypedFloat", "Float"}
    BY <1>5 DEF Converts
  <2> QED BY <1>5, <2>1 DEF Converts, SumType, DeterminePriorityType, EqualTypes, Ints, Reals
<1> QED BY <1>1, <1>2, <1>3, <1>4, <1>5 DEF GoTypes

LEMMA ExpressionConverts ==
  ASSUME NEW s, NEW e \in Seq(Operands), e # <<>>, NEW t \in GoTypes,
         \A i \in DOMAIN e : Converts(OperandType(s, e[i]), t)
  PROVE  Converts(ExpressionType(s, e), t)
<1>1. PICK type : /\ \A i \in DOMAIN e : type[i] = Typed(s, e, type, i)
                  /\ ExpressionType(s, e) = type[Len(e)]
  BY ExpressionTypeIs
<1>2. DOMAIN e = 1 .. Len(e) /\ Len(e) \in Nat /\ Len(e) # 0
  OBVIOUS
<1> DEFINE Good(i) == i \in 1 .. Len(e) => Converts(type[i], t)
           S == {n \in Nat : Good(n)}
<1>3. Good(0)
  OBVIOUS
<1>4. ASSUME NEW n \in Nat, Good(n) PROVE Good(n + 1)
  <2> SUFFICES ASSUME n + 1 \in 1 .. Len(e) PROVE Converts(type[n + 1], t)
    OBVIOUS
  <2>1. Converts(OperandType(s, e[n + 1]), t)
    BY <1>2
  <2>2. CASE n = 0
    <3>1. type[1] = OperandType(s, e[1])
      BY <1>1, <1>2 DEF Typed
    <3> QED BY <2>1, <2>2, <3>1
  <2>3. CASE n # 0
    <3>1. n \in 1 .. Len(e) /\ n + 1 - 1 = n /\ n + 1 # 1
      BY <1>2, <2>3
    <3>2. type[n + 1] = SumType(type[n], OperandType(s, e[n + 1]))
      <4>1. n + 1 \in DOMAIN e
        BY <1>2
      <4>2. type[n + 1] = Typed(s, e, type, n + 1)
        BY <1>1, <4>1
      <4> QED BY <3>1, <4>2 DEF Typed
    <3>3. Converts(type[n], t)
      BY <1>4, <3>1
    <3> QED BY <2>1, <3>2, <3>3, SumConverts
  <2> QED BY <2>2, <2>3
<1>5. Len(e) \in S
  <2>1. 0 \in S
    BY <1>3
  <2>2. \A n \in S : n + 1 \in S
    BY <1>4
  <2> HIDE DEF S
  <2> QED BY <1>2, <2>1, <2>2, CountingUp
<1> QED BY <1>1, <1>2, <1>5

-----------------------------------------------------------------------------
(* What a package needs in order to be accepted, and the types it has.     *)

GoTypesOf(p) == CHOOSE types : Typing(p, types)

Acceptable(p) ==
  /\ Legal(p) /\ WellTyped(p) /\ OneBlank(p)
  /\ \A v \in Variables(p) : Reads(Initialiser(v)) = {}
  /\ \A e \in Expressions(p), v \in Named(p) : v.id \in Reads(e) => v.values # <<>>

LEMMA AcceptableIs ==
  ASSUME NEW p \in Packages, Acceptable(p)
  PROVE  /\ Plain(p) /\ CountsOK(p) /\ MainDeclared(p) /\ NamesResolve(p) /\ ConstantsConstant(p)
         /\ Typing(p, GoTypesOf(p))
         /\ Unique(MethodRequests(p)) /\ Unique(FieldsNamed(p))
<1>1. Legal(p) /\ WellTyped(p) /\ OneBlank(p)
  BY DEF Acceptable
<1>2. Plain(p)
  BY <1>1, LegalIsPlain
<1>3. DeclaredOnce(p) /\ MainDeclared(p) /\ NamesResolve(p) /\ ConstantsConstant(p)
  BY <1>1 DEF Legal
<1>4. \E types : Typing(p, types)
  BY <1>1 DEF WellTyped
<1>5. Typing(p, GoTypesOf(p))
  BY <1>4 DEF GoTypesOf
<1> QED BY <1>1, <1>2, <1>3, <1>5, MethodsUnique, FieldsUnique DEF Plain

(* A field that was analysed has a type that converts to the one in Go.    *)
TypedField(p, s, f) ==
  f.value # <<>> =>
    f.id \in DOMAIN s /\ (f.id \in VariableIds(p) => Converts(f.type, GoTypesOf(p)[f.id]))

Analysing == {"analyze fields", "analyze methods"}

LEMMA OperandConverts ==
  ASSUME IInv, MapsOK, errors = {}, stage \in Analysing, Acceptable(package),
         SymbolsOK(scope, methods, fields, consts), NEW o \in Operands,
         o.kind = "read" =>
           /\ o.id \in VariableIds(package)
           /\ \E j \in DOMAIN fields : fields[j].id = o.id /\ fields[j].value # <<>> /\ TypedField(package, scope, fields[j]),
         o.kind = "apply" => o.id \in FunctionIds(package)
  PROVE  Converts(OperandType(scope, o), TypeIn(package, GoTypesOf(package), o))
<1>1. package \in Packages /\ stage \in Mapped \ {"methods"}
  BY DEF IInv, Mapped, Analysing
<1>2. o.kind \in {"literal", "read", "apply"}
  BY DEF Operands
<1>3. CASE o.kind = "literal"
  BY <1>3 DEF OperandType, TypeIn, Converts
<1>4. CASE o.kind = "read"
  <2>1. PICK j \in DOMAIN fields : fields[j].id = o.id /\ fields[j].value # <<>> /\ TypedField(package, scope, fields[j])
    BY <1>4
  <2>2. o.id \in DOMAIN scope /\ Converts(fields[j].type, GoTypesOf(package)[o.id])
    BY <1>4, <2>1 DEF TypedField
  <2>3. scope[o.id].type = fields[j].type
    BY <2>1, <2>2 DEF SymbolsOK, FieldScoped
  <2>4. OperandType(scope, o) = scope[o.id].type
    BY <1>4, <2>2 DEF OperandType
  <2>5. TypeIn(package, GoTypesOf(package), o) = GoTypesOf(package)[o.id]
    BY <1>4 DEF TypeIn
  <2> QED BY <2>2, <2>3, <2>4, <2>5
<1>5. CASE o.kind = "apply"
  <2>1. PICK d \in Functions(package) : d.identifiers[1] = o.id /\ o.id # "_"
    BY <1>5 DEF FunctionIds
  <2>2. PICK a \in DOMAIN MethodRequests(package) : FunctionAs(d, MethodRequests(package)[a])
    BY <1>1, FunctionsAsked
  <2>3. MethodRequests(package)[a].id = o.id /\ a \in 1 .. MethodsTo - 1
    BY <1>1, <2>1, <2>2, FunctionParts, Ranges
  <2>4. PICK i \in DOMAIN methods : Alike(methods[i], MethodRequests(package)[a], TRUE)
    BY <1>1, <2>3 DEF MapsOK, MapOK, Comprises
  <2>5. methods[i].id = o.id
    BY <2>3, <2>4 DEF Alike
  <2>6. PICK m : m = methods[i]
    OBVIOUS
  <2>7. HasFunction(scope, m)
    BY <2>1, <2>5, <2>6 DEF SymbolsOK
  <2>8. o.id \in DOMAIN scope /\ scope[o.id] = [type |-> "Function", result |-> m.type, isConst |-> FALSE]
    BY <2>5, <2>6, <2>7 DEF HasFunction
  <2>9. scope[o.id].type = "Function" /\ scope[o.id].result = m.type
    BY <2>8
  <2>10. OperandType(scope, o) = m.type
    BY <1>5, <2>8, <2>9 DEF OperandType
  <2>11. FunctionOf(package, o.id).result = m.type
    BY <1>1, <2>5, <2>6, CalledResult
  <2>12. TypeIn(package, GoTypesOf(package), o) = m.type
    BY <1>5, <2>11 DEF TypeIn
  <2> QED BY <2>10, <2>12 DEF Converts
<1> QED BY <1>2, <1>3, <1>4, <1>5

(* An expression gets a type that converts to the one it has in Go.        *)
LEMMA TypeFound ==
  ASSUME IInv, MapsOK, errors = {}, stage \in Analysing, Acceptable(package),
         SymbolsOK(scope, methods, fields, consts), NEW e \in Seq(Operands), e # <<>>,
         e \in Expressions(package), NEW t \in GoTypes, HasType(package, GoTypesOf(package), e, t),
         \A x \in Reads(e) : \E j \in DOMAIN fields :
           fields[j].id = x /\ fields[j].value # <<>> /\ TypedField(package, scope, fields[j])
  PROVE  Converts(ExpressionType(scope, e), t)
<1>1. package \in Packages
  BY DEF IInv
<1>2. Reads(e) \subseteq VariableIds(package) /\ Calls(e) \subseteq FunctionIds(package)
  BY <1>1, AcceptableIs DEF NamesResolve
<1>3. ASSUME NEW i \in DOMAIN e PROVE Converts(OperandType(scope, e[i]), t)
  <2>1. PICK o \in Operands : o = e[i]
    OBVIOUS
  <2>2. o.kind = "read" => o.id \in Reads(e)
    BY <2>1 DEF Reads, ToSet
  <2>3. o.kind = "apply" => o.id \in Calls(e)
    BY <2>1 DEF Calls, ToSet
  <2>4. Converts(OperandType(scope, o), TypeIn(package, GoTypesOf(package), o))
    BY <1>2, <2>2, <2>3, OperandConverts
  <2>5. Converts(TypeIn(package, GoTypesOf(package), o), t)
    BY <2>1 DEF HasType
  <2>6. TypeIn(package, GoTypesOf(package), o) \in GoTypes
    BY <2>5, Converted
  <2> QED BY <2>1, <2>4, <2>5, <2>6, ConvertsTwice
<1> QED BY <1>3, ExpressionConverts

(* A field of which nothing was analysed yet is what was asked for.        *)
Fresh(p, f) == \E a \in DOMAIN FieldsNamed(p) : Alike(f, FieldsNamed(p)[a], TRUE)

LEMMA VariableName ==
  ASSUME NEW p \in Packages, NEW x \in VariableIds(p)
  PROVE  x \in Identifiers
<1>1. PICK v \in Variables(p) : v.id = x
  BY DEF VariableIds, Named
<1>2. PICK d \in ToSet(p) : d.kind = "variable" /\ \E k \in DOMAIN d.identifiers : v = VariableIn(d, k)
  BY DEF Variables, VariableIn
<1>3. PICK k \in DOMAIN d.identifiers : v = VariableIn(d, k)
  BY <1>2
<1>4. d.identifiers[k] = x
  BY <1>1, <1>3 DEF VariableIn
<1>5. d.identifiers \in Seq(Identifiers)
  BY Declared, VariableDeclaration DEF ToSet
<1> QED BY <1>4, <1>5

(* What a variable asks of its initialiser, and gets.                      *)
LEMMA InitialiserTyped ==
  ASSUME NEW p \in Packages, Acceptable(p), NEW v \in Variables(p), v.values # <<>>,
         NEW r, VariableAs(v, r)
  PROVE  \E t \in GoTypes :
           /\ HasType(p, GoTypesOf(p), Initialiser(v), t)
           /\ r.type \notin {"Any", "Invalid"} => r.type \in GoTypes /\ Converts(t, r.type)
           /\ v.id # "_" => Converts(t, GoTypesOf(p)[v.id])
<1> DEFINE types == GoTypesOf(p)
<1>1. VariableTyped(p, types, v) /\ types \in [VariableIds(p) -> GoTypes]
  BY AcceptableIs DEF Typing
<1> HIDE DEF types
<1>2. PICK t \in GoTypes :
         /\ HasType(p, types, Initialiser(v), t)
         /\ v.type # NoType => Converts(t, v.type)
         /\ v.type = NoType /\ v.id # "_" => types[v.id] = IF v.isConst THEN t ELSE DefaultType(t)
  BY <1>1 DEF VariableTyped
<1>3. v.id # "_" => v.id \in VariableIds(p) /\ types[v.id] \in GoTypes
  BY <1>1 DEF VariableIds, Named
<1>4. v.type # NoType /\ v.id # "_" => types[v.id] = v.type
  BY <1>1 DEF VariableTyped
<1>5. r.type \notin {"Any", "Invalid"} => v.id # "_" /\ v.type # NoType /\ r.type = v.type
  BY DEF VariableAs
<1>6. v.id # "_" => Converts(t, types[v.id])
  <2>1. CASE v.type = NoType
    <3>1. Converts(t, t) /\ Converts(t, DefaultType(t))
      BY ConvertsDefault DEF Converts
    <3> QED BY <1>2, <2>1, <3>1
  <2>2. CASE v.type # NoType
    BY <1>2, <1>4, <2>2
  <2> QED BY <2>1, <2>2
<1>7. r.type \notin {"Any", "Invalid"} => r.type \in GoTypes /\ Converts(t, r.type)
  BY <1>2, <1>3, <1>4, <1>5
<1> QED BY <1>2, <1>6, <1>7 DEF types

(* No error is found in the field that is analysed.                        *)
LEMMA FieldTypes ==
  ASSUME IInv, MapsOK, errors = {}, stage = "analyze fields", Acceptable(package),
         SymbolsOK(scope, methods, fields, consts), NEW j \in DOMAIN fields, Fresh(package, fields[j]),
         fields[j].value # <<>>,
         NEW e, e = fields[j].value[1], NEW type, type = ExpressionType(scope, e)
  PROVE  /\ type # "Invalid"
         /\ fields[j].type \notin {"Any", "Invalid"} => EqualTypes(type, fields[j].type)
         /\ fields[j].id \in consts => IsConstExpression(scope, e)
         /\ fields[j].id \in VariableIds(package) => Converts(type, GoTypesOf(package)[fields[j].id])
<1>1. package \in Packages /\ stage \in Mapped \ {"methods"} /\ stage \in Analysing /\ stage \notin {"methods", "fields"}
  BY DEF IInv, Mapped, Analysing
<1>2. Plain(package) /\ CountsOK(package) /\ ConstantsConstant(package) /\ Unique(FieldsNamed(package))
  BY <1>1, AcceptableIs
<1>3. PICK a \in DOMAIN FieldsNamed(package) : Alike(fields[j], FieldsNamed(package)[a], TRUE)
  BY DEF Fresh
<1>4. PICK r : r = FieldsNamed(package)[a]
  OBVIOUS
<1>5. fields[j].id = r.id /\ fields[j].value = r.value /\ fields[j].type = r.type
  BY <1>3, <1>4 DEF Alike
<1>6. PICK v \in Variables(package) : VariableAs(v, r)
  BY <1>1, <1>2, <1>4, VariablesAsked DEF FieldsNamed
<1>7. v.values # <<>> /\ Initialiser(v) = e
  BY <1>5, <1>6 DEF VariableAs, Initialiser
<1>8. e \in Seq(Operands) /\ e # <<>>
  BY <1>1, <1>2, FieldExpression
<1>9. e \in Expressions(package) /\ Reads(e) = {}
  BY <1>7 DEF Expressions, Acceptable
<1>10. PICK t \in GoTypes :
         /\ HasType(package, GoTypesOf(package), e, t)
         /\ r.type \notin {"Any", "Invalid"} => r.type \in GoTypes /\ Converts(t, r.type)
         /\ v.id # "_" => Converts(t, GoTypesOf(package)[v.id])
  BY <1>1, <1>6, <1>7, InitialiserTyped
<1>11. Converts(type, t)
  BY <1>1, <1>8, <1>9, <1>10, TypeFound
<1>12. type # "Invalid"
  BY <1>11, Converted
<1>13. ASSUME fields[j].type \notin {"Any", "Invalid"} PROVE EqualTypes(type, fields[j].type)
  <2>1. fields[j].type \in GoTypes /\ Converts(t, fields[j].type)
    BY <1>5, <1>10, <1>13
  <2>2. Converts(type, fields[j].type)
    BY <1>11, <2>1, ConvertsTwice
  <2> QED BY <2>1, <2>2, Converted
<1>14. ASSUME fields[j].id \in consts PROVE IsConstExpression(scope, e)
  <2>1. PICK b \in 1 .. FieldsTo - 1 : FieldsNamed(package)[b].isConst /\ FieldsNamed(package)[b].id = r.id
    BY <1>1, <1>5, <1>14 DEF MapsOK, ConstsTo
  <2>2. b \in DOMAIN FieldsNamed(package)
    BY <1>1, Ranges
  <2>3. b = a
    BY <1>2, <1>4, <2>1, <2>2 DEF Unique
  <2>4. v.isConst
    BY <1>4, <1>6, <2>1, <2>3 DEF VariableAs
  <2>5. Calls(e) = {}
    BY <1>2, <1>7, <2>4 DEF ConstantsConstant, Constant
  <2> QED BY <1>9, <2>5 DEF IsConstExpression, Calls, Reads
<1>15. ASSUME fields[j].id \in VariableIds(package) PROVE Converts(type, GoTypesOf(package)[fields[j].id])
  <2>1. fields[j].id \in Identifiers /\ fields[j].id # "_"
    <3>1. fields[j].id # "_"
      BY <1>1, <1>2, FieldName
    <3> QED BY <1>1, <1>15, <3>1, VariableName
  <2>2. v.id = fields[j].id
    BY <1>5, <1>6, <2>1 DEF VariableAs, Identifiers
  <2>3. Converts(t, GoTypesOf(package)[v.id])
    BY <1>10, <2>1, <2>2
  <2> QED BY <1>11, <2>2, <2>3, ConvertsTwice
<1> QED BY <1>12, <1>13, <1>14, <1>15

(* No error is found in a function.                                        *)
LEMMA MethodTypes ==
  ASSUME IInv, MapsOK, errors = {}, stage = "analyze methods", Acceptable(package),
         SymbolsOK(scope, methods, fields, consts), NEW i \in DOMAIN methods,
         \A j \in DOMAIN fields : TypedField(package, scope, fields[j])
  PROVE  MethodErrors(scope, methods[i]) = {}
<1>1. package \in Packages /\ stage \in Mapped \ {"methods"} /\ stage \in Analysing /\ stage \notin {"methods", "fields"}
  BY DEF IInv, Mapped, Analysing
<1>2. CountsOK(package) /\ NamesResolve(package) /\ Typing(package, GoTypesOf(package))
  BY <1>1, AcceptableIs
<1>3. PICK m : m = methods[i]
  OBVIOUS
<1>4. m \in MethodSet /\ \E d \in Functions(package) : FunctionAs(d, m)
  BY <1>1, <1>3, MethodEntry
<1>5. PICK d \in Functions(package) : FunctionAs(d, m)
  BY <1>4
<1>6. d.body = m.value /\ d.result = m.type
  BY <1>5, FunctionParts
<1>7. SUFFICES ASSUME m.value # <<>> PROVE MethodErrors(scope, m) = {}
  BY <1>3 DEF MethodErrors
<1>8. PICK e : e = m.value
  OBVIOUS
<1>9. e \in Expressions(package) /\ e # <<>> /\ e \in Seq(Operands)
  <2>1. e \in Seq(Operands)
    BY <1>4, <1>8 DEF MethodSet
  <2> QED BY <1>6, <1>7, <1>8, <2>1 DEF Expressions
<1>10. PICK t \in GoTypes : /\ HasType(package, GoTypesOf(package), e, t)
                            /\ m.type # "Void" => Converts(t, m.type)
  BY <1>2, <1>6, <1>7, <1>8 DEF Typing, FunctionTyped
<1>11. ASSUME NEW x \in Reads(e)
       PROVE  \E j \in DOMAIN fields :
                fields[j].id = x /\ fields[j].value # <<>> /\ TypedField(package, scope, fields[j])
  <2>1. x \in VariableIds(package)
    BY <1>2, <1>9 DEF NamesResolve
  <2>2. PICK v \in Named(package) : v.id = x
    BY <2>1 DEF VariableIds
  <2>3. v \in Variables(package) /\ v.id # "_" /\ v.values # <<>>
    BY <1>9, <2>2 DEF Named, Acceptable
  <2>4. PICK a \in DOMAIN FieldsNamed(package) : VariableAs(v, FieldsNamed(package)[a])
    BY <1>1, <1>2, <2>3, VariablesAsked DEF FieldsNamed
  <2>5. FieldsNamed(package)[a].id = x /\ FieldsNamed(package)[a].value # <<>> /\ a \in 1 .. FieldsTo - 1
    BY <1>1, <2>2, <2>3, <2>4, Ranges DEF VariableAs
  <2>6. PICK j \in DOMAIN fields : Alike(fields[j], FieldsNamed(package)[a], FALSE)
    BY <1>1, <2>5 DEF MapsOK, MapOK, Comprises
  <2>7. fields[j].id = x /\ fields[j].value # <<>>
    BY <2>5, <2>6 DEF Alike
  <2> QED BY <2>7
<1>12. Converts(ExpressionType(scope, e), t)
  BY <1>1, <1>9, <1>10, <1>11, TypeFound
<1>13. PICK type : type = ExpressionType(scope, e)
  OBVIOUS
<1>14. type \in Printable /\ ExpressionErrors(scope, e) = {}
  BY <1>12, <1>13, Converted DEF ExpressionErrors
<1>15. m.type # "Void" => EqualTypes(m.type, type)
  <2>1. SUFFICES ASSUME m.type # "Void" PROVE EqualTypes(m.type, type)
    OBVIOUS
  <2>2. m.type \in GoTypes
    BY <1>4, <2>1 DEF MethodSet, NamedTypes, GoTypes
  <2>3. Converts(type, m.type)
    BY <1>10, <1>12, <1>13, <2>1, ConvertsTwice
  <2> QED BY <2>2, <2>3, Converted
<1> QED BY <1>8, <1>13, <1>14, <1>15 DEF MethodErrors

-----------------------------------------------------------------------------
(* A package that deserves it is accepted: no step reports an error.       *)

Accepting ==
  /\ stage # "rejected"
  /\ stage \in Mapped => errors = {}
  /\ stage = "fields" => \A j \in DOMAIN fields : Fresh(package, fields[j])
  /\ stage = "analyze fields" =>
       \A j \in DOMAIN fields : IF j < next THEN TypedField(package, scope, fields[j]) ELSE Fresh(package, fields[j])
  /\ stage = "analyze methods" => \A j \in DOMAIN fields : TypedField(package, scope, fields[j])

AcceptOK == Acceptable(package) => Accepting

LEMMA MainAccepted ==
  ASSUME NEW p \in Packages, Acceptable(p) PROVE MainErrors(p) = {}
<1> DEFINE r == MethodRequests(p)
<1>1. /\ \A a \in DOMAIN r : r[a] \in MethodSet /\ \E d \in Functions(p) : FunctionAs(d, r[a])
      /\ \A d \in Functions(p) : \E a \in DOMAIN r : FunctionAs(d, r[a])
  BY FunctionsAsked
<1>2. MainDeclared(p) /\ Unique(r)
  BY AcceptableIs
<1>3. PICK d \in Functions(p) : d.identifiers[1] = "main"
  BY <1>2 DEF MainDeclared, FunctionIds
<1>4. PICK a \in DOMAIN r : FunctionAs(d, r[a])
  BY <1>1, <1>3
<1>5. r[a].id = "main" /\ r[a] \in ToSet(r)
  BY <1>3, <1>4, FunctionParts DEF ToSet
<1>6. ASSUME NEW m \in ToSet(r), m.id = "main" PROVE m.type = "Void"
  <2>1. PICK b \in DOMAIN r : r[b] = m
    BY DEF ToSet
  <2>2. FunctionAs(FunctionOf(p, "main"), m)
    BY <1>2, <1>6, <2>1, FunctionIs
  <2>3. FunctionOf(p, "main").result = m.type
    BY <2>2, FunctionParts
  <2> QED BY <1>2, <2>3 DEF MainDeclared
<1> QED BY <1>5, <1>6 DEF MainErrors

LEMMA ScopeAccepts == IInv /\ MapsOK /\ AcceptOK /\ AnalyzePackageScope => AcceptOK'
<1> SUFFICES ASSUME IInv, AnalyzePackageScope, Acceptable(package)' PROVE Accepting'
  BY DEF AcceptOK
<1>1. package' = package /\ errors' = MainErrors(package) /\ stage' = IF errors' = {} THEN "methods" ELSE "rejected"
  BY DEF AnalyzePackageScope
<1>2. Acceptable(package) /\ package \in Packages
  BY <1>1 DEF IInv, Acceptable, Legal, WellTyped, OneBlank
<1>3. errors' = {}
  BY <1>1, <1>2, MainAccepted
<1> QED BY <1>1, <1>3 DEF Accepting

(* A name that was not asked for before is not held.                       *)
LEMMA NotHeld ==
  ASSUME NEW map, NEW requests, Unique(requests), NEW n \in DOMAIN requests, n \in Nat, NEW typed, NEW e,
         \A a \in 1 .. n - 1 : a \in DOMAIN requests,
         MapOK(map, requests, n, typed, e)
  PROVE  Redeclared(map, requests[n].id) = {}
<1>1. SUFFICES ASSUME NEW i \in DOMAIN map, map[i].id = requests[n].id PROVE FALSE
  BY DEF Redeclared, Holds
<1>2. PICK a \in 1 .. n - 1 : Alike(map[i], requests[a], typed)
  BY DEF MapOK
<1>3. requests[a].id = requests[n].id
  BY <1>1, <1>2 DEF Alike
<1>4. a = n
  BY <1>3 DEF Unique
<1> QED BY <1>2, <1>4

LEMMA AddMethodAccepts == IInv /\ MapsOK /\ AcceptOK /\ AddMethod => AcceptOK'
<1> DEFINE requests == MethodRequests(package)
           m == requests[next]
<1> SUFFICES ASSUME IInv, MapsOK, AcceptOK, AddMethod, Acceptable(package)' PROVE Accepting'
  BY DEF AcceptOK
<1>1. /\ stage = "methods" /\ package' = package /\ fields' = fields
      /\ errors' = errors \cup Redeclared(methods, m.id)
      /\ stage' \in {"methods", "fields", "analyze methods"}
  BY DEF AddMethod, Continue
<1>2. Acceptable(package) /\ package \in Packages
  BY <1>1 DEF IInv, Acceptable, Legal, WellTyped, OneBlank
<1>3. errors = {} /\ stage \in Mapped
  BY <1>1, <1>2 DEF AcceptOK, Accepting, Mapped
<1>4. next \in DOMAIN requests /\ IsSequence(requests)
  BY <1>1, RequestsOK DEF IInv, Iterated, MethodsOK
<1>5. next \in Nat /\ MethodsTo = next /\ FieldsTo = 1
  <2>1. DOMAIN requests = 1 .. Len(requests) /\ Len(requests) \in Nat
    BY <1>4, MapFacts
  <2>2. next \in Nat
    <3> HIDE DEF requests
    <3> QED BY <1>4, <2>1
  <2> QED BY <1>1, <2>2 DEF MethodsTo, FieldsTo
<1>6. MapOK(methods, requests, next, TRUE, errors) /\ MapOK(fields, FieldsNamed(package), 1, FALSE, errors)
  BY <1>3, <1>5 DEF MapsOK
<1>7. \A a \in 1 .. next - 1 : a \in DOMAIN requests
  BY <1>3, <1>5, Ranges
<1>8. Unique(requests)
  BY <1>2, AcceptableIs
<1>9. errors' = {}
  <2> HIDE DEF requests
  <2>1. Redeclared(methods, requests[next].id) = {}
    BY <1>4, <1>5, <1>6, <1>7, <1>8, NotHeld
  <2> QED BY <1>1, <1>3, <2>1
<1>10. \A j \in DOMAIN fields' : FALSE
  <2>1. 1 .. 1 - 1 = {}
    OBVIOUS
  <2> QED BY <1>1, <1>6, <2>1 DEF MapOK
<1> QED BY <1>1, <1>9, <1>10 DEF Accepting

LEMMA AddFieldAccepts == IInv /\ MapsOK /\ AcceptOK /\ AddField => AcceptOK'
<1> DEFINE requests == FieldsNamed(package)
           f == requests[next]
<1> SUFFICES ASSUME IInv, MapsOK, AcceptOK, AddField, Acceptable(package)' PROVE Accepting'
  BY DEF AcceptOK
<1>1. /\ stage = "fields" /\ package' = package /\ fields' = TryEmplace(fields, f)
      /\ errors' = errors \cup Redeclared(fields, f.id)
      /\ stage' \in {"fields", "analyze fields"} /\ (stage' = "analyze fields" => next' = 1)
  BY DEF AddField, Continue, FieldsNamed
<1>2. Acceptable(package) /\ package \in Packages
  BY <1>1 DEF IInv, Acceptable, Legal, WellTyped, OneBlank
<1>3. errors = {} /\ stage \in Mapped /\ \A j \in DOMAIN fields : Fresh(package, fields[j])
  BY <1>1, <1>2 DEF AcceptOK, Accepting, Mapped
<1>4. next \in DOMAIN requests /\ IsSequence(requests) /\ IsSequence(fields)
  BY <1>1, RequestsOK DEF IInv, Iterated, FieldsOK, FieldsNamed
<1>5. next \in Nat /\ FieldsTo = next
  <2>1. DOMAIN requests = 1 .. Len(requests) /\ Len(requests) \in Nat
    BY <1>4, MapFacts
  <2>2. next \in Nat
    <3> HIDE DEF requests
    <3> QED BY <1>4, <2>1
  <2> QED BY <1>1, <2>2 DEF FieldsTo
<1>6. MapOK(fields, requests, next, FALSE, errors)
  BY <1>3, <1>5 DEF MapsOK
<1>7. \A a \in 1 .. next - 1 : a \in DOMAIN requests
  BY <1>3, <1>5, Ranges
<1>8. Unique(requests)
  BY <1>2, AcceptableIs
<1>9. Redeclared(fields, f.id) = {}
  <2> HIDE DEF requests
  <2> QED BY <1>4, <1>5, <1>6, <1>7, <1>8, NotHeld
<1>10. errors' = {}
  BY <1>1, <1>3, <1>9
<1>11. ASSUME NEW j \in DOMAIN fields' PROVE Fresh(package, fields'[j])
  <2>1. ~Holds(fields, f.id)
    BY <1>9 DEF Redeclared
  <2>2. PICK r : r = fields' /\ r = TryEmplace(fields, f)
    BY <1>1
  <2>3. r[j] = f \/ \E k \in DOMAIN fields : r[j] = fields[k]
    <3> HIDE DEF f
    <3> QED BY <1>4, <1>11, <2>1, <2>2, EntryAdded
  <2>4. Fresh(package, f)
    BY <1>4 DEF Fresh, Alike
  <2> QED BY <1>3, <2>2, <2>3, <2>4
<1>12. stage' = "analyze fields" => \A j \in DOMAIN fields' : ~(j < next')
  <2> SUFFICES ASSUME next' = 1 PROVE \A i \in DOMAIN fields' : ~(i < next')
    BY <1>1
  <2>1. IsSequence(fields')
    <3>1. PICK r : r = fields' /\ r = TryEmplace(fields, f)
      BY <1>1
    <3>2. ~Holds(fields, f.id)
      BY <1>9 DEF Redeclared
    <3>3. IsSequence(r)
      <4> HIDE DEF f
      <4> QED BY <1>4, <3>1, <3>2, EntryAdded
    <3> QED BY <3>1, <3>3
  <2> QED BY <2>1, NoneBefore
<1>13. \A j \in DOMAIN fields' : Fresh(package', fields'[j])
  BY <1>1, <1>11
<1> QED BY <1>1, <1>10, <1>12, <1>13 DEF Accepting

LEMMA TypedStays ==
  ASSUME NEW p, NEW s, NEW t, DOMAIN s \subseteq DOMAIN t, NEW f, TypedField(p, s, f)
  PROVE  TypedField(p, t, f)
  BY DEF TypedField

LEMMA AnalyzeFieldAccepts == IInv /\ MapsOK /\ ScopeOK /\ AcceptOK /\ AnalyzeField => AcceptOK'
<1> DEFINE f == fields[next]
           e == f.value[1]
           type == ExpressionType(scope, e)
<1> SUFFICES ASSUME IInv, MapsOK, ScopeOK, AcceptOK, AnalyzeField, Acceptable(package)' PROVE Accepting'
  BY DEF AcceptOK
<1>1. /\ stage = "analyze fields" /\ package' = package /\ methods' = methods /\ consts' = consts
      /\ \/ next < Len(fields) /\ stage' = stage /\ next' = next + 1
         \/ ~(next < Len(fields)) /\ stage' = "analyze methods" /\ next' = 1
  BY DEF AnalyzeField, Continue
<1>2. Acceptable(package) /\ package \in Packages /\ stage \in Mapped \ {"methods"}
  BY <1>1 DEF IInv, Acceptable, Legal, WellTyped, OneBlank, Mapped
<1>3. /\ errors = {}
      /\ \A j \in DOMAIN fields : IF j < next THEN TypedField(package, scope, fields[j]) ELSE Fresh(package, fields[j])
  BY <1>1, <1>2 DEF AcceptOK, Accepting
<1>4. Plain(package) /\ CountsOK(package) /\ SymbolsOK(scope, methods, fields, consts)
  BY <1>2, <1>3, AcceptableIs DEF ScopeOK
<1>5. /\ next \in DOMAIN fields /\ DOMAIN fields' = DOMAIN fields
      /\ \A i \in DOMAIN fields :
           /\ fields'[i].id = fields[i].id /\ fields'[i].value = fields[i].value
           /\ i # next \/ fields[i].value = <<>> => fields'[i] = fields[i]
      /\ f.value = <<>> => scope' = scope
      /\ f.value # <<>> /\ errors' = {} => Analysed(f, scope, scope', consts, fields'[next].type)
  BY FieldEffect
<1>6. DOMAIN fields = 1 .. Len(fields) /\ Len(fields) \in Nat /\ next \in Nat
  <2>1. DOMAIN fields = 1 .. Len(fields) /\ Len(fields) \in Nat
    BY MapFacts DEF IInv, FieldsOK
  <2> QED BY <1>5, <2>1
<1>7. Fresh(package, f)
  BY <1>3, <1>5, <1>6
<1>8. f.value # <<>> =>
        /\ type # "Invalid"
        /\ f.type \notin {"Any", "Invalid"} => EqualTypes(type, f.type)
        /\ f.id \in consts => IsConstExpression(scope, e)
        /\ f.id \in VariableIds(package) => Converts(type, GoTypesOf(package)[f.id])
  BY <1>1, <1>2, <1>3, <1>4, <1>5, <1>7, FieldTypes
<1>9. errors' = {}
  <2>1. CASE f.value = <<>>
    BY <1>3, <2>1 DEF AnalyzeField
  <2>2. CASE f.value # <<>>
    <3>1. ExpressionErrors(scope, e) = {}
      BY <1>8, <2>2 DEF ExpressionErrors
    <3>2. errors' = errors \cup ExpressionErrors(scope, e)
      BY <1>8, <2>2 DEF AnalyzeField
    <3> QED BY <1>3, <3>1, <3>2
  <2> QED BY <2>1, <2>2
<1>10. DOMAIN scope \subseteq DOMAIN scope' /\ TypedField(package, scope', fields'[next])
  <2>1. CASE f.value = <<>>
    BY <1>5, <2>1 DEF TypedField
  <2>2. CASE f.value # <<>>
    <3>1. fields'[next].type = type /\ scope' = Bind(scope, f.id, ScopeEntry(scope, e, type, f.id \in consts))
      BY <1>5, <1>9, <2>2 DEF Analysed
    <3>2. f.id # "_"
      BY <1>2, <1>4, <1>5, FieldName
    <3>3. DOMAIN scope' = DOMAIN scope \cup {f.id}
      BY <3>1, <3>2 DEF Bind
    <3>4. f.id \in VariableIds(package) => Converts(type, GoTypesOf(package)[f.id])
      BY <1>8, <2>2
    <3>5. fields'[next].id = f.id
      BY <1>5
    <3> HIDE DEF f, type, e
    <3> QED BY <3>1, <3>3, <3>4, <3>5 DEF TypedField
  <2> QED BY <2>1, <2>2
<1>11. ASSUME NEW j \in DOMAIN fields, j < next PROVE TypedField(package, scope', fields'[j])
  <2>1. fields'[j] = fields[j] /\ TypedField(package, scope, fields[j])
    BY <1>3, <1>5, <1>6, <1>11
  <2>2. PICK t : t = scope'
    OBVIOUS
  <2>3. TypedField(package, t, fields[j])
    BY <1>10, <2>1, <2>2, TypedStays
  <2> QED BY <2>1, <2>2, <2>3
<1>12. ASSUME NEW j \in DOMAIN fields, ~(j < next), j # next PROVE Fresh(package, fields'[j])
  BY <1>3, <1>5, <1>12
<1> HIDE DEF f
<1>13. CASE next < Len(fields)
  <2>1. \A j \in DOMAIN fields : j < next + 1 => j < next \/ j = next
    BY <1>6
  <2>2. \A j \in DOMAIN fields : ~(j < next + 1) => ~(j < next) /\ j # next
    BY <1>6
  <2>3. \A j \in DOMAIN fields :
          IF j < next + 1 THEN TypedField(package, scope', fields'[j]) ELSE Fresh(package, fields'[j])
    BY <1>10, <1>11, <1>12, <2>1, <2>2
  <2>4. stage' = "analyze fields" /\ next' = next + 1
    BY <1>1, <1>13
  <2> QED BY <1>1, <1>5, <1>9, <2>3, <2>4 DEF Accepting
<1>14. CASE ~(next < Len(fields))
  <2>1. \A j \in DOMAIN fields : j < next \/ j = next
    BY <1>5, <1>6, <1>14
  <2>2. \A j \in DOMAIN fields : TypedField(package, scope', fields'[j])
    BY <1>10, <1>11, <2>1
  <2>3. stage' = "analyze methods"
    BY <1>1, <1>14
  <2> QED BY <1>1, <1>5, <1>9, <2>2, <2>3 DEF Accepting
<1> QED BY <1>13, <1>14

LEMMA AnalyzeMethodAccepts == IInv /\ MapsOK /\ ScopeOK /\ AcceptOK /\ AnalyzeMethod => AcceptOK'
<1> SUFFICES ASSUME IInv, MapsOK, ScopeOK, AcceptOK, AnalyzeMethod, Acceptable(package)' PROVE Accepting'
  BY DEF AcceptOK
<1>1. /\ stage = "analyze methods" /\ package' = package /\ fields' = fields /\ scope' = scope
      /\ errors' = errors \cup MethodErrors(scope, methods[next])
      /\ stage' \in {"analyze methods", IF errors' = {} THEN "pool" ELSE "rejected"}
  BY DEF AnalyzeMethod, Continue
<1>2. Acceptable(package) /\ package \in Packages /\ stage \in Mapped
  BY <1>1 DEF IInv, Acceptable, Legal, WellTyped, OneBlank, Mapped
<1>3. errors = {} /\ \A j \in DOMAIN fields : TypedField(package, scope, fields[j])
  BY <1>1, <1>2 DEF AcceptOK, Accepting
<1>4. SymbolsOK(scope, methods, fields, consts)
  BY <1>2, <1>3, AcceptableIs DEF ScopeOK
<1>5. next \in DOMAIN methods
  BY <1>1 DEF IInv, Iterated
<1>6. errors' = {}
  BY <1>1, <1>2, <1>3, <1>4, <1>5, MethodTypes
<1> QED BY <1>1, <1>3, <1>6 DEF Accepting

LEMMA CodingAccepts == AcceptOK /\ Coding => AcceptOK'
<1> SUFFICES ASSUME AcceptOK, Coding, Acceptable(package)' PROVE Accepting'
  BY DEF AcceptOK
<1>1. stage \in Accepted /\ stage' \in Accepted /\ package' = package /\ errors' = errors
  BY CodingKeeps
<1>2. Acceptable(package)
  BY <1>1 DEF Acceptable, Legal, WellTyped, OneBlank
<1>3. errors = {}
  BY <1>1, <1>2 DEF AcceptOK, Accepting, Mapped
<1> QED BY <1>1, <1>3 DEF Accepting, Accepted, AfterFields

LEMMA StepAccepts == AllOK /\ AnalysedOK /\ AcceptOK /\ [Step]_vars => AcceptOK'
<1> SUFFICES ASSUME AllOK, AnalysedOK, AcceptOK, [Step]_vars PROVE AcceptOK'
  OBVIOUS
<1>1. IInv /\ MapsOK /\ ScopeOK
  BY DEF AllOK, AnalysedOK
<1>2. CASE Compile
  <2>1. CASE AnalyzePackageScope
    BY <1>1, <2>1, ScopeAccepts
  <2>2. CASE AddMethod
    BY <1>1, <2>2, AddMethodAccepts
  <2>3. CASE AddField
    BY <1>1, <2>3, AddFieldAccepts
  <2>4. CASE AnalyzeField
    BY <1>1, <2>4, AnalyzeFieldAccepts
  <2>5. CASE AnalyzeMethod
    BY <1>1, <2>5, AnalyzeMethodAccepts
  <2>6. CASE Coding
    BY <2>6, CodingAccepts
  <2> QED BY <1>2, <2>1, <2>2, <2>3, <2>4, <2>5, <2>6 DEF Compile, Coding
<1>3. CASE stage' \in {"refused", "running"}
  BY <1>3 DEF AcceptOK, Accepting, Mapped, Accepted, AfterFields
<1>4. CASE UNCHANGED vars
  <2>1. UNCHANGED <<package, stage, next, errors, fields, scope>>
    BY <1>4 DEF vars, classVars, analysis
  <2>2. Acceptable(package)' <=> Acceptable(package)
    BY <2>1 DEF Acceptable, Legal, WellTyped, OneBlank
  <2> QED BY <2>1, <2>2 DEF AcceptOK, Accepting
<1>5. Load => stage' \in {"refused", "running"}
  BY DEF Load
<1>6. Push \/ GetStatic \/ PutStatic \/ Add \/ Invoke \/ ReturnValue \/ Return => stage' \in {"refused", "running"}
  BY DEF Push, GetStatic, PutStatic, Add, Invoke, ReturnValue, Return, Operation, JVM
<1> QED BY <1>2, <1>3, <1>4, <1>5, <1>6 DEF Step

LEMMA NotRejected == AcceptOK /\ IInv => AcceptsIndependent
<1> SUFFICES ASSUME AcceptOK, stage = "rejected", Legal(package), WellTyped(package),
                    ~\E v \in Variables(package) : Reads(Initialiser(v)) # {},
                    ~\E e \in Expressions(package), v \in Named(package) : v.id \in Reads(e) /\ v.values = <<>>,
                    ~\E i, j \in DOMAIN package :
                        i # j /\ package[i].identifiers = <<"_">> /\ package[j].identifiers = <<"_">>
                              /\ package[i].kind = "function" /\ package[j].kind = "function"
             PROVE  FALSE
  BY DEF AcceptsIndependent
<1>1. OneBlank(package)
  BY DEF OneBlank, BlankFunction
<1>2. Acceptable(package)
  BY <1>1 DEF Acceptable
<1> QED BY <1>2 DEF AcceptOK, Accepting

(* A legal and well typed package is accepted, whatever its names hash to  *)
(* and so in whatever order its fields are analysed, if no initialiser     *)
(* reads a variable, every variable that is read is initialised, and at    *)
(* most one function has no name: the only errors an order can cause are   *)
(* about names that are not yet in the scope of the analysis.              *)
THEOREM LegalPackageAccepted == Spec => []AcceptsIndependent
<1>1. Start => AllOK /\ AnalysedOK /\ AcceptOK
  BY StartAll, StartAnalysed DEF Start, Init, AcceptOK, Accepting, Mapped, Accepted, AfterFields
<1>2. AllOK /\ AnalysedOK /\ AcceptOK /\ [Step]_vars => (AllOK /\ AnalysedOK /\ AcceptOK)'
  BY StepAll, StepAnalysed, StepAccepts
<1>3. AllOK /\ AnalysedOK /\ AcceptOK => AcceptsIndependent
  BY NotRejected DEF AllOK
<1> QED BY <1>1, <1>2, <1>3, PTL DEF Spec
=============================================================================
