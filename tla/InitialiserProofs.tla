--------------------------- MODULE InitialiserProofs ---------------------------
(***************************************************************************)
(* Proofs about CompiledPackage, for all packages, hash functions and      *)
(* orders of evaluation: the static initialiser writes every variable      *)
(* before it reads it, because the order of its code is that of the        *)
(* analysis, which refuses a read of a name it has not seen yet.           *)
(***************************************************************************)
EXTENDS PackageProofs

-----------------------------------------------------------------------------
(* An expression has a type only if every name it reads is declared.       *)

Typed(s, e, type, i) ==
  IF i = 1 THEN OperandType(s, e[1]) ELSE SumType(type[i - 1], OperandType(s, e[i]))

LEMMA TypeExists ==
  ASSUME NEW s, NEW e, NEW n \in Nat
  PROVE  \E type : type = [i \in 1 .. n |-> Typed(s, e, type, i)]
<1> DEFINE Is(m, type) == type = [i \in 1 .. m |-> Typed(s, e, type, i)]
           Has(m) == \E type : Is(m, type)
           Without == {m \in Nat : ~Has(m)}
<1>1. Has(0)
  <2>1. Is(0, <<>>)
    OBVIOUS
  <2> QED BY <2>1
<1>2. ASSUME NEW m \in Nat, Has(m) PROVE Has(m + 1)
  <2>1. PICK f : Is(m, f)
    BY <1>2
  <2> DEFINE g == [i \in 1 .. (m + 1) |-> Typed(s, e, f, i)]
  <2>2. \A i \in 1 .. m : g[i] = f[i]
    BY <2>1
  <2>3. ASSUME NEW i \in 1 .. (m + 1) PROVE Typed(s, e, g, i) = Typed(s, e, f, i)
    <3>1. i # 1 => g[i - 1] = f[i - 1]
      <4>1. i # 1 => i - 1 \in 1 .. m
        OBVIOUS
      <4> HIDE DEF g
      <4> QED BY <4>1, <2>2
    <3> HIDE DEF g
    <3> QED BY <3>1 DEF Typed
  <2>4. Is(m + 1, g)
    BY <2>3
  <2> HIDE DEF Is, g
  <2> QED BY <2>4
<1>3. Without = {}
  <2>1. SUFFICES ASSUME Without # {} PROVE FALSE
    OBVIOUS
  <2>2. PICK m \in Without : \A k \in Without : m <= k
    <3>1. Without \subseteq Nat
      OBVIOUS
    <3> HIDE DEF Without
    <3> QED BY <2>1, <3>1, LeastNumber
  <2> HIDE DEF Has
  <2>3. m \in Nat /\ m # 0 /\ ~Has(m)
    BY <1>1, <2>2
  <2>4. m - 1 \in Nat /\ (m - 1) + 1 = m /\ ~(m <= m - 1)
    BY <2>3
  <2>5. Has(m - 1)
    BY <2>2, <2>4
  <2> QED BY <1>2, <2>3, <2>4, <2>5
<1> HIDE DEF Is
<1> QED BY <1>3 DEF Is

LEMMA ExpressionTypeIs ==
  ASSUME NEW s, NEW S, NEW e \in Seq(S)
  PROVE  \E type : /\ \A i \in DOMAIN e : type[i] = Typed(s, e, type, i)
                   /\ ExpressionType(s, e) = type[Len(e)]
<1> DEFINE Is(type) == type = [i \in DOMAIN e |-> Typed(s, e, type, i)]
           type == CHOOSE c : Is(c)
<1>1. DOMAIN e = 1 .. Len(e) /\ Len(e) \in Nat
  OBVIOUS
<1>2. \E c : Is(c)
  <2>1. PICK c : c = [i \in 1 .. Len(e) |-> Typed(s, e, c, i)]
    BY <1>1, TypeExists
  <2>2. Is(c)
    BY <1>1, <2>1
  <2> HIDE DEF Is
  <2> QED BY <2>2
<1>3. Is(type)
  <2> HIDE DEF Is
  <2> QED BY <1>2
<1>4. ExpressionType(s, e) = type[Len(e)]
  BY DEF ExpressionType, Typed
<1>5. \A i \in DOMAIN e : type[i] = Typed(s, e, type, i)
  <2> HIDE DEF type
  <2> QED BY <1>3
<1> HIDE DEF type
<1> QED BY <1>4, <1>5

LEMMA ReadsDeclared ==
  ASSUME NEW s, NEW S, NEW e \in Seq(S), e # <<>>, ExpressionErrors(s, e) = {}
  PROVE  Reads(e) \subseteq DOMAIN s
<1>1. PICK type : /\ \A i \in DOMAIN e : type[i] = Typed(s, e, type, i)
                  /\ ExpressionType(s, e) = type[Len(e)]
  BY ExpressionTypeIs
<1>2. DOMAIN e = 1 .. Len(e) /\ Len(e) \in Nat /\ Len(e) \in DOMAIN e
  OBVIOUS
<1>3. type[Len(e)] # "Invalid"
  BY <1>1 DEF ExpressionErrors
<1>4. ASSUME NEW i \in DOMAIN e PROVE type[i] # "Invalid"
  <2>1. SUFFICES ASSUME type[i] = "Invalid" PROVE FALSE
    OBVIOUS
  <2> DEFINE T == {k \in DOMAIN e : i <= k /\ type[k] # "Invalid"}
  <2>2. T \in SUBSET Nat /\ Len(e) \in T
    BY <1>2, <1>3
  <2>3. PICK m \in T : \A k \in T : m <= k
    <3> HIDE DEF T
    <3> QED BY <2>2, LeastNumber
  <2>4. m # i /\ m \in DOMAIN e /\ m - 1 \in DOMAIN e /\ i <= m - 1 /\ m # 1 /\ type[m] # "Invalid"
    BY <2>1, <1>2
  <2>5. type[m - 1] # "Invalid"
    BY <1>1, <2>4 DEF Typed, SumType
  <2>6. m - 1 \in T
    BY <2>4, <2>5
  <2> HIDE DEF T
  <2> QED BY <2>3, <2>4, <2>6, <1>2
<1>5. ASSUME NEW i \in DOMAIN e PROVE OperandType(s, e[i]) # "Invalid"
  BY <1>1, <1>4 DEF Typed, SumType
<1>6. ASSUME NEW i \in DOMAIN e, e[i].kind = "read" PROVE e[i].id \in DOMAIN s
  BY <1>5, <1>6 DEF OperandType
<1> QED BY <1>6 DEF Reads, ToSet

-----------------------------------------------------------------------------
(* Emplacing keeps the names of a map and adds one.                        *)

Ids(map) == {map[i].id : i \in DOMAIN map}

LEMMA JoinedAround ==
  ASSUME NEW T, NEW a \in Seq(T), NEW b \in Seq(T), NEW x \in T
  PROVE  LET r == a \o <<x>> \o b
         IN  /\ r \in Seq(T) /\ Len(r) = Len(a) + 1 + Len(b) /\ r[Len(a) + 1] = x
             /\ \A j \in 1 .. Len(a) : r[j] = a[j]
             /\ \A j \in 1 .. Len(b) : r[Len(a) + 1 + j] = b[j]
<1> DEFINE c == a \o <<x>>
           r == c \o b
<1>1. /\ c \in Seq(T) /\ Len(c) = Len(a) + 1 /\ c[Len(a) + 1] = x
      /\ \A j \in 1 .. Len(a) : c[j] = a[j]
  OBVIOUS
<1> HIDE DEF c
<1>2. /\ r \in Seq(T) /\ Len(r) = Len(c) + Len(b)
      /\ \A j \in 1 .. Len(c) : r[j] = c[j]
      /\ \A j \in 1 .. Len(b) : r[Len(c) + j] = b[j]
  BY <1>1
<1> HIDE DEF r
<1>3. /\ Len(r) = Len(a) + 1 + Len(b) /\ r[Len(a) + 1] = x
      /\ \A j \in 1 .. Len(a) : r[j] = a[j]
      /\ \A j \in 1 .. Len(b) : r[Len(a) + 1 + j] = b[j]
  BY <1>1, <1>2
<1> QED BY <1>2, <1>3 DEF r, c

LEMMA InsertedAll ==
  ASSUME NEW S, NEW map \in Seq(S), NEW entry, NEW place \in 1 .. (Len(map) + 1)
  PROVE  LET r == InsertAt(map, place, entry)
         IN  /\ \E i \in DOMAIN r : r[i] = entry
             /\ \A j \in DOMAIN map : \E i \in DOMAIN r : r[i] = map[j]
<1> DEFINE a == SubSeq(map, 1, place - 1)
           b == SubSeq(map, place, Len(map))
           r == InsertAt(map, place, entry)
<1>1. DOMAIN map = 1 .. Len(map) /\ Len(map) \in Nat
  OBVIOUS
<1>2. /\ a \in Seq(S \cup {entry}) /\ Len(a) = place - 1
      /\ \A j \in 1 .. (place - 1) : a[j] = map[j]
  OBVIOUS
<1>3. /\ b \in Seq(S \cup {entry}) /\ Len(b) = Len(map) - place + 1
      /\ \A j \in place .. Len(map) : b[j - place + 1] = map[j]
  OBVIOUS
<1>4. r = a \o <<entry>> \o b
  BY DEF InsertAt
<1> HIDE DEF a, b
<1>5. /\ r \in Seq(S \cup {entry}) /\ Len(r) = Len(map) + 1 /\ DOMAIN r = 1 .. (Len(map) + 1)
      /\ r[place] = entry
      /\ \A j \in 1 .. (place - 1) : r[j] = a[j]
      /\ \A j \in 1 .. Len(b) : r[place + j] = b[j]
  <2>1. Len(a) + 1 = place /\ place + Len(b) = Len(map) + 1 /\ Len(a) = place - 1
    BY <1>1, <1>2, <1>3
  <2>2. PICK T : T = S \cup {entry}
    OBVIOUS
  <2>3. a \in Seq(T) /\ b \in Seq(T) /\ entry \in T
    BY <1>2, <1>3, <2>2
  <2> HIDE DEF r
  <2>4. /\ r \in Seq(T) /\ Len(r) = Len(a) + 1 + Len(b) /\ r[Len(a) + 1] = entry
        /\ \A j \in 1 .. Len(a) : r[j] = a[j]
        /\ \A j \in 1 .. Len(b) : r[Len(a) + 1 + j] = b[j]
    BY ONLY <1>4, <2>3, JoinedAround
  <2>5. DOMAIN r = 1 .. Len(r)
    BY ONLY <2>4
  <2>6. r \in Seq(S \cup {entry})
    BY <2>2, <2>4
  <2>7. Len(r) = Len(map) + 1
    BY <2>1, <2>4
  <2> QED BY ONLY <2>1, <2>4, <2>5, <2>6, <2>7
<1> HIDE DEF r
<1>6. ASSUME NEW j \in DOMAIN map PROVE \E i \in DOMAIN r : r[i] = map[j]
  <2>1. CASE j < place
    <3>1. j \in 1 .. (place - 1) /\ j \in DOMAIN r
      BY <1>1, <1>5, <2>1
    <3> QED BY <3>1, <1>2, <1>5
  <2>2. CASE ~(j < place)
    <3>1. j \in place .. Len(map) /\ j - place + 1 \in 1 .. Len(b) /\ place + (j - place + 1) = j + 1 /\ j + 1 \in DOMAIN r
      BY <1>1, <1>3, <1>5, <2>2
    <3>2. r[j + 1] = b[j - place + 1]
      BY <3>1, <1>5
    <3>3. b[j - place + 1] = map[j]
      BY <3>1, <1>3
    <3> QED BY <3>1, <3>2, <3>3
  <2> QED BY <2>1, <2>2
<1>7. place \in DOMAIN r
  BY <1>5
<1>8. (\E i \in DOMAIN r : r[i] = entry) /\ \A j \in DOMAIN map : \E i \in DOMAIN r : r[i] = map[j]
  BY <1>5, <1>6, <1>7
<1> QED BY <1>8 DEF r

LEMMA EmplacedIds ==
  ASSUME NEW map, IsSequence(map), NEW entry
  PROVE  Ids(map) \cup {entry.id} \subseteq Ids(TryEmplace(map, entry))
<1>1. PICK S : map \in Seq(S)
  BY DEF IsSequence
<1>2. CASE Holds(map, entry.id)
  BY <1>2 DEF TryEmplace, Holds, Ids
<1>3. CASE ~Holds(map, entry.id)
  <2>1. PICK place \in 1 .. (Len(map) + 1) : TryEmplace(map, entry) = InsertAt(map, place, entry)
    BY <1>3, EmplacedAt
  <2>2. PICK r : r = InsertAt(map, place, entry)
    OBVIOUS
  <2>3. (\E i \in DOMAIN r : r[i] = entry) /\ \A j \in DOMAIN map : \E i \in DOMAIN r : r[i] = map[j]
    BY <1>1, <2>2, InsertedAll
  <2> QED BY <2>1, <2>2, <2>3 DEF Ids
<1> QED BY <1>2, <1>3

-----------------------------------------------------------------------------
(* The names of methods that can be called: not the blank one.             *)
Callables(map) == Ids(map) \ {"_"}

(* The analysis: what an initialiser reads is a function, or a variable    *)
(* with a value that precedes it in the order of the map.                  *)

InitialisedBefore(n) ==
  {fields[j].id : j \in {i \in DOMAIN fields : i < n /\ fields[i].value # <<>>}}

ReadsKnown(i) ==
  fields[i].value # <<>> => Reads(fields[i].value[1]) \subseteq Callables(methods) \cup InitialisedBefore(i)

Generating == WithPool \cup {"pool", "refused", "running"}

AnalysisOK ==
  /\ errors \subseteq {"no main", "main has a result", "redeclared", "type or name",
                       "initialiser", "type of result"}
  /\ consts \subseteq Ids(fields)
  /\ stage \in {"scope", "methods"} => fields = <<>>
  /\ stage \in {"scope", "methods", "fields"} => DOMAIN scope \subseteq Callables(methods)
  /\ stage = "analyze fields" =>
       /\ DOMAIN scope \subseteq Callables(methods) \cup InitialisedBefore(next)
       /\ errors = {} => \A i \in DOMAIN fields : i < next => ReadsKnown(i)
  /\ stage = "analyze methods" /\ errors = {} => \A i \in DOMAIN fields : ReadsKnown(i)
  /\ stage \in Generating => \A i \in DOMAIN fields : ReadsKnown(i)

LEMMA StartAnalysis == Start => AnalysisOK
BY EmptyMap DEF Start, Init, AnalysisOK, Generating, WithPool

LEMMA ScopeAnalysis == AnalysisOK /\ AnalyzePackageScope => AnalysisOK'
<1> SUFFICES ASSUME AnalysisOK, AnalyzePackageScope PROVE AnalysisOK'
  OBVIOUS
<1>1. /\ stage = "scope" /\ stage' \in {"methods", "rejected"}
      /\ errors' = MainErrors(package)
      /\ fields' = fields /\ methods' = methods /\ consts' = consts /\ scope' = scope
  BY DEF AnalyzePackageScope
<1>2. errors' \subseteq {"no main", "main has a result"}
  BY <1>1 DEF MainErrors
<1>3. fields = <<>> /\ DOMAIN scope \subseteq Callables(methods) /\ consts \subseteq Ids(fields)
  BY <1>1 DEF AnalysisOK
<1> QED BY <1>1, <1>2, <1>3 DEF AnalysisOK, Generating, WithPool, Ids

LEMMA AddMethodAnalysis == IInv /\ AnalysisOK /\ AddMethod => AnalysisOK'
<1> SUFFICES ASSUME IInv, AnalysisOK, AddMethod PROVE AnalysisOK'
  OBVIOUS
<1>1. PICK m : m = MethodRequests(package)[next]
  OBVIOUS
<1>2. /\ stage = "methods" /\ stage' \in {"methods", "fields", "analyze methods"}
      /\ methods' = TryEmplace(methods, m)
      /\ errors' = errors \cup Redeclared(methods, m.id)
      /\ scope' = scope \/ \E v : scope' = Bind(scope, m.id, v)
      /\ fields' = fields /\ consts' = consts
  BY <1>1 DEF AddMethod, Continue
<1>3. Ids(methods) \cup {m.id} \subseteq Ids(methods')
  BY <1>2, EmplacedIds DEF IInv, MethodsOK
<1>4. DOMAIN scope' \subseteq DOMAIN scope \cup ({m.id} \ {"_"})
  BY <1>2 DEF Bind
<1>5. fields' = <<>> /\ DOMAIN fields' = {} /\ DOMAIN scope \subseteq Callables(methods) /\ consts \subseteq Ids(fields)
  BY <1>2, EmptyMap DEF AnalysisOK
<1>6. DOMAIN scope' \subseteq Callables(methods')
  BY <1>3, <1>4, <1>5 DEF Callables
<1>7. errors' \subseteq errors \cup {"redeclared"}
  BY <1>2 DEF Redeclared
<1> QED BY <1>2, <1>5, <1>6, <1>7 DEF AnalysisOK, Generating, WithPool

LEMMA AddFieldAnalysis == IInv /\ AnalysisOK /\ AddField => AnalysisOK'
<1> SUFFICES ASSUME IInv, AnalysisOK, AddField PROVE AnalysisOK'
  OBVIOUS
<1>1. PICK f : f = BlanksNamed(FieldRequests(package))[next]
  OBVIOUS
<1>2. /\ stage = "fields" /\ (stage' = "fields" \/ (stage' = "analyze fields" /\ next' = 1))
      /\ fields' = TryEmplace(fields, f)
      /\ errors' = errors \cup Redeclared(fields, f.id)
      /\ consts' \subseteq consts \cup {f.id}
      /\ methods' = methods /\ scope' = scope
  BY <1>1 DEF AddField, Continue
<1>3. Ids(fields) \cup {f.id} \subseteq Ids(fields')
  BY <1>2, EmplacedIds DEF IInv, FieldsOK
<1>4. consts \subseteq Ids(fields) /\ DOMAIN scope \subseteq Callables(methods)
  BY <1>2 DEF AnalysisOK
<1>5. consts' \subseteq Ids(fields')
  BY <1>2, <1>3, <1>4
<1>6. errors' \subseteq errors \cup {"redeclared"}
  BY <1>2 DEF Redeclared
<1>7. \A i \in DOMAIN fields' : ~(i < 1)
  <2>1. IsSequence(fields')
    BY <1>2, Emplaced DEF IInv, FieldsOK, AddsEntry
  <2>2. DOMAIN fields' = 1 .. Len(fields') /\ Len(fields') \in Nat
    BY <2>1, MapFacts
  <2> QED BY <2>2
<1> QED BY <1>2, <1>4, <1>5, <1>6, <1>7 DEF AnalysisOK, Generating, WithPool

(* Analysing a field changes its type only.                                *)
LEMMA FieldTyped ==
  ASSUME IInv, AnalyzeField
  PROVE  /\ DOMAIN fields' = DOMAIN fields
         /\ \A i \in DOMAIN fields : fields'[i].id = fields[i].id /\ fields'[i].value = fields[i].value
<1>1. fields' = fields \/ \E type : fields' = [fields EXCEPT ![next].type = type]
  BY DEF AnalyzeField
<1>2. next \in DOMAIN fields /\ IsSequence(fields)
  BY DEF IInv, Iterated, AnalyzeField, FieldsOK
<1>3. ASSUME NEW type, fields' = [fields EXCEPT ![next].type = type]
      PROVE  /\ DOMAIN fields' = DOMAIN fields
             /\ \A i \in DOMAIN fields : fields'[i].id = fields[i].id /\ fields'[i].value = fields[i].value
  <2>1. PICK S : fields \in Seq(S)
    BY <1>2 DEF IsSequence
  <2>2. PICK g : g = [fields[next] EXCEPT !.type = type]
    OBVIOUS
  <2>3. fields' = [fields EXCEPT ![next] = g]
    BY <1>3, <2>2
  <2>4. g.id = fields[next].id /\ g.value = fields[next].value
    BY <2>2
  <2>5. DOMAIN fields' = DOMAIN fields /\ \A i \in DOMAIN fields : fields'[i] = IF i = next THEN g ELSE fields[i]
    BY <2>1, <2>3, <1>2
  <2> QED BY <2>4, <2>5
<1> QED BY <1>1, <1>3

LEMMA SameReads ==
  ASSUME DOMAIN fields' = DOMAIN fields, Ids(methods)' = Ids(methods),
         \A i \in DOMAIN fields : fields'[i].id = fields[i].id /\ fields'[i].value = fields[i].value
  PROVE  /\ Ids(fields)' = Ids(fields)
         /\ \A n : InitialisedBefore(n)' = InitialisedBefore(n)
         /\ \A i \in DOMAIN fields : ReadsKnown(i)' = ReadsKnown(i)
<1>1. Ids(fields)' = Ids(fields)
  BY DEF Ids
<1>2. ASSUME NEW n PROVE InitialisedBefore(n)' = InitialisedBefore(n)
  BY DEF InitialisedBefore
<1>3. ASSUME NEW i \in DOMAIN fields PROVE ReadsKnown(i)' = ReadsKnown(i)
  <2>1. fields'[i].value = fields[i].value /\ InitialisedBefore(i)' = InitialisedBefore(i)
    BY <1>2
  <2> QED BY <2>1 DEF ReadsKnown, Callables
<1> QED BY <1>1, <1>2, <1>3

(* What one round finds out: the reads of the initialiser are declared, or *)
(* there is an error.                                                      *)
LEMMA FieldAnalysed ==
  ASSUME IInv, AnalyzeField
  PROVE  /\ errors \subseteq errors'
         /\ errors' \subseteq errors \cup {"type or name", "initialiser"}
         /\ DOMAIN scope' \subseteq DOMAIN scope \cup (IF fields[next].value = <<>> THEN {} ELSE {fields[next].id})
         /\ fields[next].value # <<>> /\ errors' = {} => Reads(fields[next].value[1]) \subseteq DOMAIN scope
<1> DEFINE f == fields[next]
           e == f.value[1]
<1>1. FieldOK(f)
  BY DEF IInv, FieldsOK, Iterated, AnalyzeField
<1>2. CASE f.value = <<>>
  BY <1>2 DEF AnalyzeField
<1>3. CASE f.value # <<>>
  <2>1. /\ errors \cup ExpressionErrors(scope, e) \subseteq errors'
        /\ errors' \subseteq errors \cup ExpressionErrors(scope, e) \cup {"initialiser"}
        /\ scope' = scope \/ \E v : scope' = Bind(scope, f.id, v)
    BY <1>3 DEF AnalyzeField
  <2>2. ExpressionErrors(scope, e) \subseteq {"type or name"}
    BY DEF ExpressionErrors
  <2>3. e \in Seq(Operands) /\ e # <<>>
    BY <1>1, <1>3, FieldFacts
  <2> HIDE DEF f, e
  <2>4. ExpressionErrors(scope, e) = {} => Reads(e) \subseteq DOMAIN scope
    BY <2>3, ReadsDeclared
  <2>5. DOMAIN scope' \subseteq DOMAIN scope \cup {f.id}
    BY <2>1 DEF Bind
  <2> QED BY <1>3, <2>1, <2>2, <2>4, <2>5 DEF f, e
<1> QED BY <1>2, <1>3

LEMMA AnalyzeFieldAnalysis == IInv /\ AnalysisOK /\ AnalyzeField => AnalysisOK'
<1> SUFFICES ASSUME IInv, AnalysisOK, AnalyzeField PROVE AnalysisOK'
  OBVIOUS
<1>1. /\ stage = "analyze fields" /\ methods' = methods /\ consts' = consts
      /\ \/ stage' = "analyze fields" /\ next' = next + 1
         \/ stage' = "analyze methods" /\ ~(next < Len(fields))
  BY DEF AnalyzeField, Continue
<1>2. next \in DOMAIN fields /\ DOMAIN fields = 1 .. Len(fields) /\ Len(fields) \in Nat
  BY <1>1, MapFacts DEF IInv, FieldsOK, Iterated
<1>3. /\ DOMAIN fields' = DOMAIN fields /\ Ids(methods)' = Ids(methods) /\ Ids(fields)' = Ids(fields)
      /\ \A n : InitialisedBefore(n)' = InitialisedBefore(n)
      /\ \A i \in DOMAIN fields : ReadsKnown(i)' = ReadsKnown(i)
  BY <1>1, FieldTyped, SameReads DEF Ids
<1>4. /\ errors \subseteq errors'
      /\ errors' \subseteq errors \cup {"type or name", "initialiser"}
      /\ DOMAIN scope' \subseteq DOMAIN scope \cup (IF fields[next].value = <<>> THEN {} ELSE {fields[next].id})
      /\ fields[next].value # <<>> /\ errors' = {} => Reads(fields[next].value[1]) \subseteq DOMAIN scope
  BY FieldAnalysed
<1>5. /\ DOMAIN scope \subseteq Callables(methods) \cup InitialisedBefore(next)
      /\ errors = {} => \A i \in DOMAIN fields : i < next => ReadsKnown(i)
      /\ consts \subseteq Ids(fields)
  BY <1>1 DEF AnalysisOK
<1>6. errors' = {} => ReadsKnown(next)
  BY <1>4, <1>5 DEF ReadsKnown
<1>7. errors' = {} => \A i \in DOMAIN fields : i < next + 1 => ReadsKnown(i)
  <2>1. \A i \in DOMAIN fields : i < next + 1 => i < next \/ i = next
    BY <1>2
  <2> QED BY <1>4, <1>5, <1>6, <2>1
<1>8. DOMAIN scope' \subseteq Callables(methods) \cup InitialisedBefore(next + 1)
  <2>1. InitialisedBefore(next) \subseteq InitialisedBefore(next + 1)
    BY <1>2 DEF InitialisedBefore
  <2>2. fields[next].value # <<>> => fields[next].id \in InitialisedBefore(next + 1)
    BY <1>2 DEF InitialisedBefore
  <2> QED BY <1>4, <1>5, <2>1, <2>2
<1>9. ~(next < Len(fields)) => \A i \in DOMAIN fields : i < next + 1
  BY <1>2
<1>10. CASE stage' = "analyze fields" /\ next' = next + 1
  <2>1. InitialisedBefore(next)' = InitialisedBefore(next + 1)
    <3>1. PICK n : n = next + 1
      OBVIOUS
    <3>2. InitialisedBefore(next)' = InitialisedBefore(n)'
      BY <1>10, <3>1 DEF InitialisedBefore
    <3> QED BY <1>3, <3>1, <3>2
  <2>2. DOMAIN scope' \subseteq Callables(methods)' \cup InitialisedBefore(next)'
    BY <1>3, <1>8, <2>1 DEF Callables
  <2>3. errors' = {} => \A i \in DOMAIN fields' : i < next' => ReadsKnown(i)'
    BY <1>3, <1>7, <1>10
  <2> QED BY <1>1, <1>3, <1>4, <1>5, <1>10, <2>2, <2>3 DEF AnalysisOK, Generating, WithPool
<1>11. CASE stage' = "analyze methods" /\ ~(next < Len(fields))
  <2>1. errors' = {} => \A i \in DOMAIN fields' : ReadsKnown(i)'
    BY <1>3, <1>7, <1>9, <1>11
  <2> QED BY <1>1, <1>3, <1>4, <1>5, <1>11, <2>1 DEF AnalysisOK, Generating, WithPool
<1> QED BY <1>1, <1>10, <1>11

(* The steps that keep the maps keep what the fields read.                 *)
LEMMA ReadsKept ==
  ASSUME MapsKept
  PROVE  /\ Ids(fields)' = Ids(fields) /\ Ids(methods)' = Ids(methods) /\ DOMAIN fields' = DOMAIN fields
         /\ \A n : InitialisedBefore(n)' = InitialisedBefore(n)
         /\ \A i \in DOMAIN fields : ReadsKnown(i)' = ReadsKnown(i)
BY SameReads DEF MapsKept, Ids

LEMMA AnalyzeMethodAnalysis == AnalysisOK /\ AnalyzeMethod => AnalysisOK'
<1> SUFFICES ASSUME AnalysisOK, AnalyzeMethod PROVE AnalysisOK'
  OBVIOUS
<1>1. /\ stage = "analyze methods" /\ MapsKept /\ consts' = consts
      /\ errors' = errors \cup MethodErrors(scope, methods[next])
      /\ stage' \in {"analyze methods", "rejected"} \/ (stage' = "pool" /\ errors' = {})
  BY DEF AnalyzeMethod, Continue, MapsKept
<1>2. MethodErrors(scope, methods[next]) \subseteq {"type or name", "type of result"}
  BY DEF MethodErrors, ExpressionErrors
<1>3. /\ errors' = {} => \A i \in DOMAIN fields : ReadsKnown(i)
      /\ consts \subseteq Ids(fields)
  BY <1>1 DEF AnalysisOK
<1>4. errors' = {} => \A i \in DOMAIN fields' : ReadsKnown(i)'
  BY <1>1, <1>3, ReadsKept
<1>5. consts' \subseteq Ids(fields)'
  BY <1>1, <1>3, ReadsKept
<1> QED BY <1>1, <1>2, <1>4, <1>5 DEF AnalysisOK, Generating, WithPool

LEMMA AnalysisKept ==
  ASSUME AnalysisOK, MapsKept, errors' = errors, consts' = consts,
         stage \in Generating, stage' \in Generating
  PROVE  AnalysisOK'
<1>1. (\A i \in DOMAIN fields : ReadsKnown(i)) /\ consts \subseteq Ids(fields)
  BY DEF AnalysisOK
<1>2. (\A i \in DOMAIN fields' : ReadsKnown(i)') /\ consts' \subseteq Ids(fields)'
  BY <1>1, ReadsKept
<1> QED BY <1>2 DEF AnalysisOK, Generating, WithPool

-----------------------------------------------------------------------------
(* The context: every member has an index of the pool, and a name that a   *)
(* function has stands for the function, a variable of that name or not.   *)

Keeps(p, q) == DOMAIN p \subseteq DOMAIN q /\ \A i \in DOMAIN p : q[i] = p[i]

LEMMA GrownKeepsAll == ASSUME NEW p, NEW q, P!Good(p), Grown(p, q) PROVE Keeps(p, q)
<1>1. /\ DOMAIN p = 1 .. Len(p) /\ DOMAIN q = 1 .. Len(q) /\ Len(p) \in Nat /\ Len(q) \in Nat
      /\ P!Grows(p, q)
  BY DEF P!Good, Grown
<1> QED BY <1>1 DEF Keeps, P!Grows

IsMethod(p, n) == n \in DOMAIN p /\ p[n].type = "MethodRef"

Filled(c, p, x) == x # "_" => x \in DOMAIN c /\ IsMethod(p, c[x])

MethodsFilled == {"head", "field infos", "constructor", "initialisers", "clinit"}

ContextOK ==
  /\ \A x \in DOMAIN context : context[x] \in DOMAIN pool
  /\ stage \notin WithPool \cup {"refused", "running"} => context = <<>>
  /\ stage = "method refs" => \A i \in DOMAIN methods : i < next => Filled(context, pool, methods[i].id)
  /\ stage \in MethodsFilled => \A i \in DOMAIN methods : Filled(context, pool, methods[i].id)

LEMMA EmptyContext ==
  ASSUME context' = <<>>, stage' \notin MethodsFilled PROVE stage' # "method refs" => ContextOK'
BY EmptyMap DEF ContextOK

LEMMA AnalysisContext ==
  ASSUME ContextOK, AnalyzePackageScope \/ AddMethod \/ AddField \/ AnalyzeField \/ AnalyzeMethod
  PROVE  ContextOK'
<1>1. /\ stage \in {"scope", "methods", "fields", "analyze fields", "analyze methods"}
      /\ stage' \in {"methods", "fields", "analyze fields", "analyze methods", "pool", "rejected"}
      /\ context' = context
  BY DEF AnalyzePackageScope, AddMethod, AddField, AnalyzeField, AnalyzeMethod, Continue, output
<1>2. context = <<>>
  BY <1>1 DEF ContextOK, WithPool
<1> QED BY <1>1, <1>2, EmptyContext DEF MethodsFilled

(* No entry of a sequence comes before its first.                          *)
LEMMA NoneBefore == ASSUME NEW map, IsSequence(map) PROVE \A i \in DOMAIN map : ~(i < 1)
<1>1. DOMAIN map = 1 .. Len(map) /\ Len(map) \in Nat
  BY MapFacts
<1> QED BY <1>1

LEMMA FillHeadContext == IInv /\ ContextOK /\ FillHead => ContextOK'
<1> SUFFICES ASSUME IInv, ContextOK, FillHead PROVE ContextOK'
  OBVIOUS
<1>1. /\ stage = "pool" /\ stage' \in {"field refs", "method refs"} /\ next' = next
      /\ context' = context /\ methods' = methods
  BY DEF FillHead, analysis
<1>2. context = <<>> /\ next = 1 /\ \A i \in DOMAIN methods : ~(i < 1)
  BY <1>1, Once, NoneBefore DEF ContextOK, WithPool, IInv, MethodsOK
<1> QED BY <1>1, <1>2, EmptyMap DEF ContextOK, WithPool, MethodsFilled

LEMMA FillFieldContext == IInv /\ ContextOK /\ FillField => ContextOK'
<1> SUFFICES ASSUME IInv, ContextOK, FillField PROVE ContextOK'
  OBVIOUS
<1>1. /\ stage = "field refs" /\ methods' = methods
      /\ stage' = "field refs" \/ (stage' = "method refs" /\ next' = 1)
  BY DEF FillField, analysis, Continue
<1>2. P!Good(pool) /\ \A i \in DOMAIN methods : ~(i < 1)
  BY <1>1, NoneBefore DEF IInv, WithPool, MethodsOK
<1>3. PICK n \in DOMAIN pool' : context' = Bind(context, fields[next].id, n)
  BY FillFieldPool
<1>4. Keeps(pool, pool')
  BY <1>2, FillFieldPool, GrownKeepsAll
<1>5. \A x \in DOMAIN context' : context'[x] \in DOMAIN pool'
  BY <1>3, <1>4 DEF ContextOK, Bind, Keeps
<1> QED BY <1>1, <1>2, <1>5 DEF ContextOK, WithPool, MethodsFilled

LEMMA FillMethodContext == IInv /\ ContextOK /\ FillMethod => ContextOK'
<1> SUFFICES ASSUME IInv, ContextOK, FillMethod PROVE ContextOK'
  OBVIOUS
<1>1. /\ stage = "method refs" /\ methods' = methods
      /\ \/ stage' = "method refs" /\ next' = next + 1
         \/ stage' = "head" /\ ~(next < Len(methods))
  BY DEF FillMethod, analysis, Continue
<1>2. P!Good(pool) /\ DOMAIN methods = 1 .. Len(methods) /\ Len(methods) \in Nat /\ next \in DOMAIN methods
  BY <1>1, MapFacts DEF IInv, WithPool, MethodsOK, Iterated
<1>3. PICK n \in DOMAIN pool' : pool'[n].type = "MethodRef" /\ context' = Bind(context, methods[next].id, n)
  BY FillMethodPool
<1>4. Keeps(pool, pool')
  BY <1>2, FillMethodPool, GrownKeepsAll
<1>5. \A x \in DOMAIN context' : context'[x] \in DOMAIN pool'
  BY <1>3, <1>4 DEF ContextOK, Bind, Keeps
<1>6. ASSUME NEW x, x = methods[next].id \/ Filled(context, pool, x)
      PROVE  Filled(context', pool', x)
  BY <1>3, <1>4, <1>6 DEF Filled, Bind, Keeps, IsMethod
<1>7. \A i \in DOMAIN methods : i < next => Filled(context, pool, methods[i].id)
  BY <1>1 DEF ContextOK
<1>8. ASSUME NEW i \in DOMAIN methods, i < next + 1 PROVE Filled(context', pool', methods'[i].id)
  <2>1. i < next \/ i = next
    BY <1>2, <1>8
  <2>2. methods'[i].id = methods[next].id \/ Filled(context, pool, methods'[i].id)
    BY <1>1, <1>7, <2>1
  <2> QED BY <1>6, <2>2 DEF Filled
<1>9. ~(next < Len(methods)) => \A i \in DOMAIN methods : i < next + 1
  BY <1>2
<1>10. CASE stage' = "method refs" /\ next' = next + 1
  BY <1>1, <1>5, <1>8, <1>10 DEF ContextOK, WithPool, MethodsFilled
<1>11. CASE stage' = "head" /\ ~(next < Len(methods))
  BY <1>1, <1>5, <1>8, <1>9, <1>11 DEF ContextOK, WithPool, MethodsFilled
<1> QED BY <1>1, <1>10, <1>11

LEMMA ContextKept ==
  ASSUME ContextOK, context' = context, methods' = methods, Keeps(pool, pool'),
         stage' \in (WithPool \cup {"refused", "running"}) \ {"method refs"},
         stage' \in MethodsFilled => stage \in MethodsFilled
  PROVE  ContextOK'
<1>1. \A x \in DOMAIN context' : context'[x] \in DOMAIN pool'
  BY DEF ContextOK, Keeps
<1>2. \A x : Filled(context, pool, x) => Filled(context', pool', x)
  BY DEF Filled, IsMethod, Keeps
<1>3. stage' \in MethodsFilled => \A i \in DOMAIN methods' : Filled(context', pool', methods'[i].id)
  BY <1>2 DEF ContextOK
<1> QED BY <1>1, <1>3 DEF ContextOK

-----------------------------------------------------------------------------
(* The static initialiser: what it reads is a reference to a method, which *)
(* no JVM reads from, or was put before.                                   *)

PutsAt(code, k, n) == code[k] = <<"putstatic", n>>

Put(code, n) == \E k \in DOMAIN code : PutsAt(code, k, n)

Covered(code, p) ==
  \A k \in DOMAIN code :
    code[k][1] = "getstatic" =>
      \/ IsMethod(p, code[k][2])
      \/ \E j \in DOMAIN code : j < k /\ PutsAt(code, j, code[k][2])

ClinitMade == {"bodies", "write", "written", "refused", "running"}

ClinitOps == ExpressionOps \cup {"putstatic"}

ClinitOK ==
  /\ IsSequence(clinit)
  /\ \A k \in DOMAIN clinit : clinit[k][1] \in ClinitOps
  /\ Covered(clinit, pool)
  /\ stage \notin {"initialisers", "clinit"} \cup ClinitMade => clinit = <<>>
  /\ stage = "initialisers" =>
       \A i \in DOMAIN fields : i < next /\ fields[i].value # <<>> => Put(clinit, context[fields[i].id])

LEMMA EmptyClinit ==
  ASSUME clinit' = <<>>, stage' # "initialisers" PROVE ClinitOK'
BY EmptyMap DEF ClinitOK, Covered

LEMMA ConstructorClinit == IInv /\ ClinitOK /\ GenerateConstructor => ClinitOK'
<1> SUFFICES ASSUME IInv, ClinitOK, GenerateConstructor PROVE ClinitOK'
  OBVIOUS
<1>1. /\ stage = "constructor" /\ next' = next /\ fields' = fields /\ clinit' = clinit
  BY DEF GenerateConstructor, analysis
<1>2. clinit = <<>> /\ next = 1 /\ \A i \in DOMAIN fields : ~(i < 1)
  BY <1>1, Once, NoneBefore DEF ClinitOK, ClinitMade, IInv, FieldsOK
<1> QED BY <1>1, <1>2, EmptyMap DEF ClinitOK, Covered

(* The code of one more initialiser, and the instruction that stores its   *)
(* value.                                                                  *)
Stored(c, code, n) == c \o code \o <<<<"putstatic", n>>>>

LEMMA CoveredStays ==
  ASSUME NEW c, IsSequence(c), \A k \in DOMAIN c : c[k][1] \in ClinitOps,
         NEW p, NEW q, Covered(c, p), Keeps(p, q),
         NEW refs, NEW calls, NEW code, Coded(code, q, refs, calls),
         \A r \in refs : IsMethod(q, r) \/ Put(c, r),
         NEW n, NEW d, d = Stored(c, code, n)
  PROVE  /\ IsSequence(d) /\ \A k \in DOMAIN d : d[k][1] \in ClinitOps
         /\ Covered(d, q) /\ Put(d, n)
         /\ \A r : Put(c, r) => Put(d, r)
<1> DEFINE put == <<"putstatic", n>>
<1>1. put[1] = "putstatic" /\ put[1] # "getstatic" /\ put[1] \in ClinitOps
  BY DEF ClinitOps
<1>2. PICK S : c \in Seq(S)
  BY DEF IsSequence
<1>3. PICK T : code \in Seq(T)
  BY DEF Coded, IsSequence
<1>4. PICK U : c \in Seq(U) /\ code \in Seq(U) /\ put \in U
  <2>1. c \in Seq(S \cup T \cup {put}) /\ code \in Seq(S \cup T \cup {put}) /\ put \in S \cup T \cup {put}
    BY <1>2, <1>3
  <2> QED BY <2>1
<1>5. d = c \o code \o <<put>>
  BY DEF Stored
<1> HIDE DEF put
<1> DEFINE a == Len(c)
           b == Len(code)
<1>6. a \in Nat /\ b \in Nat /\ DOMAIN c = 1 .. a /\ DOMAIN code = 1 .. b
  BY <1>4
<1>7. /\ d \in Seq(U) /\ DOMAIN d = 1 .. (a + b + 1)
      /\ \A k \in 1 .. a : d[k] = c[k]
      /\ \A k \in 1 .. b : d[a + k] = code[k]
      /\ d[a + b + 1] = put
  BY <1>4, <1>5
<1> HIDE DEF a, b
<1>8. ASSUME NEW k \in DOMAIN d
      PROVE  \/ k \in DOMAIN c /\ d[k] = c[k]
             \/ a < k /\ \E l \in DOMAIN code : d[k] = code[l]
             \/ d[k] = put
  <2>1. CASE k <= a
    BY <1>6, <1>7, <2>1
  <2>2. CASE a < k /\ k <= a + b
    <3>1. k - a \in 1 .. b /\ a + (k - a) = k
      BY <1>6, <1>7, <2>2
    <3> QED BY <1>6, <1>7, <2>2, <3>1
  <2>3. CASE a + b < k
    <3>1. k = a + b + 1
      BY <1>6, <1>7, <2>3
    <3> QED BY <1>7, <3>1
  <2>4. k \in Nat
    BY <1>7
  <2>5. k <= a \/ (a < k /\ k <= a + b) \/ a + b < k
    BY <1>6, <2>4
  <2> QED BY <2>1, <2>2, <2>3, <2>5
<1>9. \A k \in DOMAIN c : k \in DOMAIN d /\ d[k] = c[k] /\ k <= a
  BY <1>6, <1>7
<1>10. ASSUME NEW k \in DOMAIN d PROVE d[k][1] \in ClinitOps
  BY <1>1, <1>8 DEF Coded, InCode, ClinitOps
<1>11. ASSUME NEW r, Put(c, r) PROVE \E j \in DOMAIN d : j <= a /\ PutsAt(d, j, r)
  BY <1>9, <1>11 DEF Put, PutsAt
<1>12. ASSUME NEW k \in DOMAIN d, d[k][1] = "getstatic"
       PROVE  \/ IsMethod(q, d[k][2])
              \/ \E j \in DOMAIN d : j < k /\ PutsAt(d, j, d[k][2])
  <2>1. CASE k \in DOMAIN c /\ d[k] = c[k]
    <3>1. CASE IsMethod(p, c[k][2])
      BY <2>1, <3>1 DEF Keeps, IsMethod
    <3>2. CASE \E j \in DOMAIN c : j < k /\ PutsAt(c, j, c[k][2])
      BY <1>9, <2>1, <3>2 DEF PutsAt
    <3> QED BY <1>12, <2>1, <3>1, <3>2 DEF Covered
  <2>2. CASE a < k /\ \E l \in DOMAIN code : d[k] = code[l]
    <3>1. d[k][2] \in refs
      BY <1>12, <2>2 DEF Coded, InCode, Linked
    <3>2. CASE Put(c, d[k][2])
      <4>1. PICK j \in DOMAIN d : j <= a /\ PutsAt(d, j, d[k][2])
        BY <3>2, <1>11
      <4>2. j < k
        BY <4>1, <2>2, <1>6, <1>7
      <4> QED BY <4>1, <4>2
    <3> QED BY <3>1, <3>2
  <2>3. CASE d[k] = put
    BY <1>1, <1>12, <2>3
  <2> QED BY <1>8, <2>1, <2>2, <2>3
<1>13. Put(d, n)
  <2>1. a + b + 1 \in DOMAIN d
    BY <1>6, <1>7
  <2> QED BY <1>7, <2>1 DEF Put, PutsAt, put
<1> QED BY <1>7, <1>10, <1>11, <1>12, <1>13 DEF IsSequence, Covered, Put

LEMMA ReadsCovered ==
  ASSUME IInv, AnalysisOK, ContextOK, ClinitOK, stage = "initialisers", next \in DOMAIN fields,
         fields[next].value # <<>>, NEW q, Keeps(pool, q)
  PROVE  \A r \in FieldsRead(fields[next].value[1]) : IsMethod(q, r) \/ Put(clinit, r)
<1> DEFINE e == fields[next].value[1]
<1> SUFFICES ASSUME NEW r \in FieldsRead(e) PROVE IsMethod(q, r) \/ Put(clinit, r)
  OBVIOUS
<1>1. PICK i \in DOMAIN e : e[i].kind = "read" /\ r = context[e[i].id]
  BY DEF FieldsRead
<1>2. e[i].id \in Reads(e)
  BY <1>1 DEF Reads, ToSet
<1>3. e[i].id \in Callables(methods) \cup InitialisedBefore(next)
  BY <1>2 DEF AnalysisOK, Generating, WithPool, ReadsKnown
<1> HIDE DEF e
<1>4. CASE e[i].id \in Callables(methods)
  <2>1. e[i].id # "_" /\ Filled(context, pool, e[i].id)
    BY <1>4 DEF ContextOK, MethodsFilled, Callables, Ids
  <2> QED BY <1>1, <2>1 DEF Filled, IsMethod, Keeps
<1>5. CASE e[i].id \in InitialisedBefore(next)
  <2>1. PICK j \in DOMAIN fields : j < next /\ fields[j].value # <<>> /\ fields[j].id = e[i].id
    BY <1>5 DEF InitialisedBefore
  <2>2. Put(clinit, context[fields[j].id])
    BY <2>1 DEF ClinitOK
  <2> QED BY <1>1, <2>1, <2>2
<1> QED BY <1>3, <1>4, <1>5

(* The first n fields are written where they have a value.                 *)
PutBefore(code, n) ==
  \A i \in DOMAIN fields : i < n /\ fields[i].value # <<>> => Put(code, context[fields[i].id])

LEMMA InitialiserMade ==
  ASSUME IInv, AnalysisOK, ContextOK, ClinitOK, GenerateInitialiser
  PROVE  /\ Keeps(pool, pool')
         /\ IsSequence(clinit') /\ \A k \in DOMAIN clinit' : clinit'[k][1] \in ClinitOps
         /\ Covered(clinit', pool')
         /\ PutBefore(clinit', next + 1)
<1>1. /\ stage = "initialisers" /\ next \in DOMAIN fields /\ P!Good(pool)
      /\ DOMAIN fields = 1 .. Len(fields)
  BY MapFacts DEF GenerateInitialiser, IInv, Iterated, WithPool, FieldsOK
<1>2. /\ IsSequence(clinit) /\ \A k \in DOMAIN clinit : clinit[k][1] \in ClinitOps
      /\ Covered(clinit, pool) /\ PutBefore(clinit, next)
  BY <1>1 DEF ClinitOK, PutBefore
<1>3. \A i \in DOMAIN fields : i < next + 1 => i < next \/ i = next
  BY <1>1
<1>4. CASE fields[next].value = <<>>
  <2>1. pool' = pool /\ clinit' = clinit
    BY <1>4, GenerateInitialiserPool
  <2>2. PutBefore(clinit, next + 1)
    BY <1>2, <1>3, <1>4 DEF PutBefore
  <2> QED BY <1>2, <2>1, <2>2 DEF Keeps
<1>5. CASE fields[next].value # <<>>
  <2>1. PICK n, d, refs, q : /\ n = context[fields[next].id] /\ d = clinit' /\ q = pool'
                             /\ refs = FieldsRead(fields[next].value[1])
    OBVIOUS
  <2>2. PICK code, calls : Coded(code, q, refs, calls) /\ d = Stored(clinit, code, n)
    BY <1>5, <2>1, GenerateInitialiserPool DEF Stored
  <2>3. Keeps(pool, pool')
    BY <1>1, <1>5, GenerateInitialiserPool, GrownKeepsAll
  <2>4. \A r \in refs : IsMethod(pool', r) \/ Put(clinit, r)
    BY <1>1, <1>5, <2>1, <2>3, ReadsCovered
  <2>5. /\ IsSequence(d) /\ \A k \in DOMAIN d : d[k][1] \in ClinitOps
        /\ Covered(d, pool') /\ Put(d, n)
        /\ \A r : Put(clinit, r) => Put(d, r)
    <3>1. Keeps(pool, q) /\ \A r \in refs : IsMethod(q, r) \/ Put(clinit, r)
      BY <2>1, <2>3, <2>4
    <3>2. /\ IsSequence(d) /\ \A k \in DOMAIN d : d[k][1] \in ClinitOps
          /\ Covered(d, q) /\ Put(d, n)
          /\ \A r : Put(clinit, r) => Put(d, r)
      BY <1>2, <2>2, <3>1, CoveredStays
    <3> QED BY <2>1, <3>2
  <2>6. PutBefore(d, next + 1)
    BY <1>2, <1>3, <2>1, <2>5 DEF PutBefore
  <2> QED BY <2>1, <2>3, <2>5, <2>6
<1> QED BY <1>4, <1>5

LEMMA InitialiserClinit == IInv /\ AnalysisOK /\ ContextOK /\ ClinitOK /\ GenerateInitialiser => ClinitOK'
<1> SUFFICES ASSUME IInv, AnalysisOK, ContextOK, ClinitOK, GenerateInitialiser PROVE ClinitOK'
  OBVIOUS
<1>1. /\ fields' = fields /\ context' = context
      /\ (stage' = "initialisers" /\ next' = next + 1) \/ stage' = "clinit"
  BY DEF GenerateInitialiser, Continue, analysis
<1>2. /\ IsSequence(clinit') /\ \A k \in DOMAIN clinit' : clinit'[k][1] \in ClinitOps
      /\ Covered(clinit', pool')
      /\ PutBefore(clinit', next + 1)
  BY InitialiserMade
<1>3. stage' = "initialisers" =>
        \A i \in DOMAIN fields' : i < next' /\ fields'[i].value # <<>> => Put(clinit', context'[fields'[i].id])
  BY <1>1, <1>2 DEF PutBefore
<1> QED BY <1>1, <1>2, <1>3 DEF ClinitOK

LEMMA ClinitKept ==
  ASSUME ClinitOK, clinit' = clinit, stage \in ClinitMade \cup {"clinit"}, stage' \in ClinitMade, Keeps(pool, pool')
  PROVE  ClinitOK'
<1>1. Covered(clinit', pool')
  BY DEF ClinitOK, Covered, IsMethod, Keeps
<1> QED BY <1>1 DEF ClinitOK, ClinitMade

-----------------------------------------------------------------------------
(* The class file: every method ends with a return, and the one that is    *)
(* named <clinit> is the static initialiser.                               *)

InitialiserCode == Append(clinit, <<"return", 0>>)

InfoOK(m, p, codes) ==
  /\ m.name \in DOMAIN p /\ Ends(m.code)
  /\ p[m.name].lit = "<clinit>" => m.code \in codes

InfosOK(infos, p, codes) == IsSequence(infos) /\ \A k \in DOMAIN infos : InfoOK(infos[k], p, codes)

TailKeys == {"this", "super", "fields", "methods"}

BeforeClinit == {"field infos", "constructor", "initialisers", "clinit"}

FileOK ==
  /\ stage \in BeforeClinit => DOMAIN file = TailKeys /\ InfosOK(file.methods, pool, {})
  /\ stage \in {"bodies", "write"} => DOMAIN file = TailKeys
  /\ stage \in ClinitMade => InfosOK(file.methods, pool, {InitialiserCode})
  /\ stage \in {"written", "refused", "running"} =>
       file.constants = [i \in DOMAIN pool |-> ToBytes(pool[i])]

LEMMA InfosKept ==
  ASSUME NEW infos, NEW p, NEW q, NEW codes, NEW more, InfosOK(infos, p, codes), Keeps(p, q), codes \subseteq more
  PROVE  InfosOK(infos, q, more)
BY DEF InfosOK, InfoOK, Keeps

LEMMA WithMethodIs ==
  ASSUME NEW f, NEW info, DOMAIN f = TailKeys
  PROVE  /\ DOMAIN WithMethod(f, info) = TailKeys
         /\ WithMethod(f, info).methods = Append(f.methods, info)
BY DEF WithMethod, TailKeys

LEMMA InfosAppend ==
  ASSUME NEW infos, NEW p, NEW codes, InfosOK(infos, p, codes), NEW info, InfoOK(info, p, codes)
  PROVE  InfosOK(Append(infos, info), p, codes)
<1>1. PICK S : infos \in Seq(S)
  BY DEF InfosOK, IsSequence
<1>2. infos \in Seq(S \cup {info})
  BY <1>1
<1>3. /\ Append(infos, info) \in Seq(S \cup {info})
      /\ \A k \in DOMAIN Append(infos, info) :
           (k \in DOMAIN infos /\ Append(infos, info)[k] = infos[k]) \/ Append(infos, info)[k] = info
  BY <1>2
<1>4. \A k \in DOMAIN Append(infos, info) : InfoOK(Append(infos, info)[k], p, codes)
  BY <1>3 DEF InfosOK
<1> QED BY <1>3, <1>4 DEF InfosOK, IsSequence

LEMMA MethodAdded ==
  ASSUME NEW p, P!Good(p), NEW f, DOMAIN f = TailKeys, NEW codes, NEW more,
         InfosOK(f.methods, p, codes), codes \subseteq more,
         NEW name, NEW code, Ends(code), NEW q, NEW g,
         NEW descriptor, AddsMethod(p, f, name, descriptor, code, q, g),
         name = "<clinit>" => code \in more
  PROVE  DOMAIN g = TailKeys /\ InfosOK(g.methods, q, more)
<1>1. PICK info : /\ Grown(p, q) /\ g = WithMethod(f, info)
                  /\ P!IsUtf8(q, info.name, name) /\ info.code = code
  BY DEF AddsMethod
<1>2. DOMAIN g = TailKeys /\ g.methods = Append(f.methods, info)
  BY <1>1, WithMethodIs
<1>3. Keeps(p, q)
  BY <1>1, GrownKeepsAll
<1>4. info.name \in DOMAIN q /\ q[info.name].lit = name
  <2>1. DOMAIN q = 1 .. Len(q)
    BY <1>1 DEF Grown, P!Good
  <2> QED BY <1>1, <2>1 DEF P!IsUtf8, P!Utf8, P!Entry
<1>5. InfoOK(info, q, more)
  BY <1>1, <1>4 DEF InfoOK
<1>6. InfosOK(f.methods, q, more)
  BY <1>3, InfosKept
<1> QED BY <1>2, <1>5, <1>6, InfosAppend

LEMMA HeadFile == IInv /\ GenerateHead => FileOK'
<1> SUFFICES ASSUME IInv, GenerateHead PROVE FileOK'
  OBVIOUS
<1>1. stage' \in {"constructor", "field infos"}
  BY DEF GenerateHead
<1>2. DOMAIN file' = TailKeys /\ file'.methods = <<>>
  BY GenerateHeadPool DEF TailKeys
<1>3. InfosOK(file'.methods, pool', {})
  BY <1>2, EmptyMap DEF InfosOK
<1> QED BY <1>1, <1>2, <1>3 DEF FileOK, BeforeClinit, ClinitMade

LEMMA FieldFile == IInv /\ FileOK /\ GenerateField => FileOK'
<1> SUFFICES ASSUME IInv, FileOK, GenerateField PROVE FileOK'
  OBVIOUS
<1>1. stage = "field infos" /\ stage' \in {"constructor", "field infos"}
  BY DEF GenerateField, Continue
<1>2. PICK info : file' = [file EXCEPT !.fields = Append(@, info)]
  BY GenerateFieldPool
<1>3. DOMAIN file = TailKeys /\ InfosOK(file.methods, pool, {})
  BY <1>1 DEF FileOK, BeforeClinit
<1>4. DOMAIN file' = TailKeys /\ file'.methods = file.methods
  BY <1>2, <1>3 DEF TailKeys
<1>5. Keeps(pool, pool')
  BY <1>1, GenerateFieldPool, GrownKeepsAll DEF IInv, WithPool
<1>6. InfosOK(file'.methods, pool', {})
  BY <1>3, <1>4, <1>5, InfosKept
<1> QED BY <1>1, <1>4, <1>6 DEF FileOK, BeforeClinit, ClinitMade

LEMMA ConstructorFile == IInv /\ FileOK /\ GenerateConstructor => FileOK'
<1> SUFFICES ASSUME IInv, FileOK, GenerateConstructor PROVE FileOK'
  OBVIOUS
<1>1. stage = "constructor" /\ stage' \in {"initialisers", "bodies"}
  BY DEF GenerateConstructor
<1>2. DOMAIN file = TailKeys /\ InfosOK(file.methods, pool, {}) /\ P!Good(pool)
  BY <1>1 DEF FileOK, BeforeClinit, IInv, WithPool
<1>3. PICK g, q, code, name, descriptor : /\ g = file' /\ q = pool' /\ name # "<clinit>" /\ Ends(code)
                              /\ AddsMethod(pool, file, name, descriptor, code, q, g)
  BY GenerateConstructorPool
<1>4. ASSUME NEW more PROVE DOMAIN g = TailKeys /\ InfosOK(g.methods, q, more)
  <2>1. PICK f, p : f = file /\ p = pool
    OBVIOUS
  <2>2. PICK none : none = {}
    OBVIOUS
  <2>3. none \subseteq more /\ InfosOK(f.methods, p, none)
    BY <1>2, <2>1, <2>2
  <2> QED BY <1>2, <1>3, <2>1, <2>3, MethodAdded
<1> QED BY <1>1, <1>3, <1>4 DEF FileOK, BeforeClinit, ClinitMade

LEMMA InitialiserFile == IInv /\ FileOK /\ Keeps(pool, pool') /\ GenerateInitialiser => FileOK'
<1> SUFFICES ASSUME IInv, FileOK, Keeps(pool, pool'), GenerateInitialiser PROVE FileOK'
  OBVIOUS
<1>1. stage = "initialisers" /\ stage' \in {"initialisers", "clinit"} /\ file' = file
  BY DEF GenerateInitialiser, Continue
<1>2. DOMAIN file = TailKeys /\ InfosOK(file.methods, pool, {})
  BY <1>1 DEF FileOK, BeforeClinit
<1>3. InfosOK(file'.methods, pool', {})
  BY <1>1, <1>2, InfosKept
<1> QED BY <1>1, <1>2, <1>3 DEF FileOK, BeforeClinit, ClinitMade

LEMMA ClinitFile == IInv /\ ClinitOK /\ FileOK /\ GenerateClinit => FileOK'
<1> SUFFICES ASSUME IInv, ClinitOK, FileOK, GenerateClinit PROVE FileOK'
  OBVIOUS
<1>1. stage = "clinit" /\ stage' = "bodies" /\ clinit' = clinit
  BY DEF GenerateClinit
<1>2. DOMAIN file = TailKeys /\ InfosOK(file.methods, pool, {}) /\ P!Good(pool)
  BY <1>1 DEF FileOK, BeforeClinit, IInv, WithPool
<1>3. PICK g, q, code, name, descriptor : /\ g = file' /\ q = pool' /\ code = InitialiserCode
                              /\ AddsMethod(pool, file, name, descriptor, code, q, g)
  BY GenerateClinitPool DEF InitialiserCode
<1>4. Ends(code)
  BY <1>3, EndsAppend DEF InitialiserCode, Returns, ClinitOK
<1>5. PICK none, codes, f, p : none = {} /\ codes = {code} /\ f = file /\ p = pool
  OBVIOUS
<1>6. DOMAIN f = TailKeys /\ InfosOK(f.methods, p, none) /\ P!Good(p) /\ none \subseteq codes /\ code \in codes
  BY <1>2, <1>5
<1>7. DOMAIN g = TailKeys /\ InfosOK(g.methods, q, codes)
  BY <1>3, <1>4, <1>5, <1>6, MethodAdded
<1>8. InitialiserCode' = InitialiserCode
  BY <1>1 DEF InitialiserCode
<1> QED BY <1>1, <1>3, <1>5, <1>7, <1>8 DEF FileOK, BeforeClinit, ClinitMade

LEMMA MethodFile == IInv /\ FileOK /\ GenerateMethod => FileOK'
<1> SUFFICES ASSUME IInv, FileOK, GenerateMethod PROVE FileOK'
  OBVIOUS
<1>1. stage = "bodies" /\ stage' \in {"bodies", "write"} /\ clinit' = clinit
  BY DEF GenerateMethod, Continue
<1>2. DOMAIN file = TailKeys /\ InfosOK(file.methods, pool, {InitialiserCode}) /\ P!Good(pool)
  BY <1>1 DEF FileOK, ClinitMade, IInv, WithPool
<1>3. PICK g, q, codes, code, name, descriptor : /\ g = file' /\ q = pool' /\ codes = {InitialiserCode}
                                     /\ name # "<clinit>" /\ Ends(code)
                                     /\ AddsMethod(pool, file, name, descriptor, code, q, g)
  BY GenerateMethodPool
<1>4. DOMAIN g = TailKeys /\ InfosOK(g.methods, q, codes)
  BY <1>2, <1>3, MethodAdded
<1>5. InitialiserCode' = InitialiserCode
  BY <1>1 DEF InitialiserCode
<1> QED BY <1>1, <1>3, <1>4, <1>5 DEF FileOK, BeforeClinit, ClinitMade

LEMMA WriteFile == FileOK /\ WriteClassFile => FileOK'
<1> SUFFICES ASSUME FileOK, WriteClassFile PROVE FileOK'
  OBVIOUS
<1>1. /\ stage = "write" /\ stage' = "written" /\ clinit' = clinit /\ pool' = pool
      /\ file'.methods = file.methods /\ file'.constants = [i \in DOMAIN pool |-> ToBytes(pool[i])]
  BY DEF WriteClassFile
<1>2. DOMAIN file = TailKeys /\ InfosOK(file.methods, pool, {InitialiserCode})
  BY <1>1 DEF FileOK, ClinitMade
<1>3. InitialiserCode' = InitialiserCode
  BY <1>1 DEF InitialiserCode
<1> QED BY <1>1, <1>2, <1>3 DEF FileOK, BeforeClinit

LEMMA FileKept ==
  ASSUME FileOK, file' = file, pool' = pool, clinit' = clinit,
         stage' = stage \/ (stage = "written" /\ stage' \in {"refused", "running"})
  PROVE  FileOK'
<1>1. InitialiserCode' = InitialiserCode
  BY DEF InitialiserCode
<1> QED BY <1>1 DEF FileOK, ClinitMade, BeforeClinit

LEMMA NoTail ==
  ASSUME stage' \in Stages, stage' \notin BeforeClinit \cup ClinitMade PROVE FileOK'
BY DEF FileOK, ClinitMade

-----------------------------------------------------------------------------
(* The activations: each is at an instruction of a method of the class,    *)
(* and all but the last at a call.                                         *)

Codes == {m.code : m \in ToSet(file.methods)}

IsFrame(f) == \E code, pc, stack : f = [code |-> code, pc |-> pc, stack |-> stack]

FrameOK(f, codes) == IsFrame(f) /\ f.code \in codes /\ f.pc \in DOMAIN f.code

At(f) == f.code[f.pc][1]

StackOK(fs, codes) ==
  /\ IsSequence(fs)
  /\ \A d \in DOMAIN fs : FrameOK(fs[d], codes) /\ (d # Len(fs) => At(fs[d]) = "invokestatic")

LEMMA FrameAdvances ==
  ASSUME NEW f, NEW codes, FrameOK(f, codes), Ends(f.code), At(f) \notin Returns, NEW stack
  PROVE  /\ FrameOK(Advanced(f, stack), codes)
         /\ Advanced(f, stack).code = f.code /\ Advanced(f, stack).pc = f.pc + 1
<1>1. PICK c, p, s : f = [code |-> c, pc |-> p, stack |-> s]
  BY DEF FrameOK, IsFrame
<1>2. f.code = c /\ f.pc = p
  BY <1>1
<1>3. DOMAIN c = 1 .. Len(c) /\ Len(c) \in Nat /\ c[Len(c)][1] \in Returns /\ c[p][1] \notin Returns
  BY <1>2, MapFacts DEF Ends, At
<1>4. p \in Nat /\ p + 1 \in DOMAIN c
  <2>1. PICK n : n = Len(c)
    OBVIOUS
  <2>2. n \in Nat /\ p # n /\ p \in 1 .. n
    BY <1>2, <1>3, <2>1 DEF FrameOK
  <2>3. p \in Nat /\ p + 1 \in 1 .. n
    BY <2>2
  <2>4. DOMAIN c = 1 .. n
    BY <1>3, <2>1
  <2> QED BY <2>3, <2>4
<1>5. PICK q : q = p + 1
  OBVIOUS
<1>6. Advanced(f, stack) = [f EXCEPT !.pc = q, !.stack = stack]
  BY <1>2, <1>5 DEF Advanced
<1>7. Advanced(f, stack) = [code |-> c, pc |-> q, stack |-> stack]
  <2>1. PICK h : h = [f EXCEPT !.pc = q]
    OBVIOUS
  <2>2. h = [code |-> c, pc |-> q, stack |-> s]
    BY <1>1, <2>1
  <2>3. Advanced(f, stack) = [h EXCEPT !.stack = stack]
    BY <1>6, <2>1
  <2>4. [h EXCEPT !.stack = stack] = [code |-> c, pc |-> q, stack |-> stack]
    BY <2>2
  <2> QED BY <2>3, <2>4
<1>8. PICK g : g = Advanced(f, stack)
  OBVIOUS
<1>9. g = [code |-> c, pc |-> q, stack |-> stack]
  BY <1>7, <1>8
<1>10. IsFrame(g)
  BY <1>9 DEF IsFrame
<1>11. g.code = c /\ g.pc = q
  BY <1>9
<1> QED BY <1>2, <1>4, <1>5, <1>8, <1>10, <1>11 DEF FrameOK

(* How a step moves the stack of activations, and its base.                *)
OnTop(fs, stack) == [fs EXCEPT ![Len(fs)] = Advanced(@, stack)]

LEMMA TopAdvances ==
  ASSUME NEW fs, NEW codes, StackOK(fs, codes), fs # <<>>, \A c \in codes : Ends(c),
         At(fs[Len(fs)]) \notin Returns, NEW stack,
         NEW gs, gs = OnTop(fs, stack)
  PROVE  /\ StackOK(gs, codes) /\ gs # <<>>
         /\ Len(fs) # 1 => gs[1] = fs[1]
         /\ Len(fs) = 1 => gs[1].code = fs[1].code /\ gs[1].pc = fs[1].pc + 1
<1>1. PICK S : fs \in Seq(S)
  BY DEF StackOK, IsSequence
<1> DEFINE n == Len(fs)
           g == Advanced(fs[n], stack)
<1>2. n \in Nat /\ n # 0 /\ DOMAIN fs = 1 .. n /\ n \in DOMAIN fs /\ 1 \in DOMAIN fs
  BY <1>1
<1>3. gs \in Seq(S \cup {g}) /\ DOMAIN gs = DOMAIN fs /\ Len(gs) = n
      /\ gs[n] = g /\ \A d \in DOMAIN fs : d # n => gs[d] = fs[d]
  BY <1>1, <1>2 DEF OnTop
<1>4. FrameOK(fs[n], codes)
  BY <1>2 DEF StackOK
<1>5. FrameOK(g, codes) /\ g.code = fs[n].code /\ g.pc = fs[n].pc + 1
  BY <1>4, FrameAdvances DEF FrameOK
<1> HIDE DEF g, n
<1>6. \A d \in DOMAIN gs : FrameOK(gs[d], codes) /\ (d # Len(gs) => At(gs[d]) = "invokestatic")
  BY <1>3, <1>5 DEF StackOK, n
<1>7. gs # <<>>
  BY <1>2, <1>3
<1> QED BY <1>2, <1>3, <1>5, <1>6, <1>7 DEF StackOK, IsSequence, n

LEMMA TopInvokes ==
  ASSUME NEW fs, NEW codes, StackOK(fs, codes), fs # <<>>, At(fs[Len(fs)]) = "invokestatic",
         NEW g, FrameOK(g, codes), NEW gs, gs = Append(fs, g)
  PROVE  StackOK(gs, codes) /\ gs # <<>> /\ gs[1] = fs[1]
<1>1. PICK S : fs \in Seq(S)
  BY DEF StackOK, IsSequence
<1> DEFINE n == Len(fs)
<1>2. n \in Nat /\ n # 0 /\ DOMAIN fs = 1 .. n
  BY <1>1
<1>3. gs \in Seq(S \cup {g}) /\ DOMAIN gs = 1 .. (n + 1) /\ Len(gs) = n + 1
      /\ gs[n + 1] = g /\ \A d \in 1 .. n : gs[d] = fs[d]
  BY <1>1, <1>2
<1> HIDE DEF n
<1>4. ASSUME NEW d \in DOMAIN gs PROVE FrameOK(gs[d], codes) /\ (d # Len(gs) => At(gs[d]) = "invokestatic")
  <2>1. CASE d = n + 1
    BY <1>3, <2>1
  <2>2. CASE d # n + 1
    <3>1. d \in 1 .. n
      BY <1>2, <1>3, <2>2
    <3>2. FrameOK(fs[d], codes) /\ At(fs[d]) = "invokestatic"
      BY <1>2, <3>1 DEF StackOK, n
    <3> QED BY <1>3, <3>1, <3>2
  <2> QED BY <2>1, <2>2
<1>5. gs # <<>> /\ 1 \in 1 .. n
  BY <1>2, <1>3
<1> QED BY <1>3, <1>4, <1>5 DEF StackOK, IsSequence

LEMMA TopReturns ==
  ASSUME NEW fs, NEW codes, StackOK(fs, codes), fs # <<>>, NEW gs, gs = Front(fs)
  PROVE  /\ StackOK(gs, codes)
         /\ gs # <<>> => gs[1] = fs[1]
<1>1. PICK S : fs \in Seq(S)
  BY DEF StackOK, IsSequence
<1> DEFINE n == Len(fs)
<1>2. n \in Nat /\ n # 0 /\ DOMAIN fs = 1 .. n
  BY <1>1
<1>3. gs \in Seq(S) /\ DOMAIN gs = 1 .. (n - 1) /\ Len(gs) = n - 1
      /\ \A d \in 1 .. (n - 1) : gs[d] = fs[d]
  BY <1>1, <1>2 DEF Front
<1> HIDE DEF n
<1>4. ASSUME NEW d \in DOMAIN gs PROVE FrameOK(gs[d], codes) /\ At(gs[d]) = "invokestatic"
  <2>1. d \in DOMAIN fs /\ d # n /\ gs[d] = fs[d]
    BY <1>2, <1>3
  <2> QED BY <2>1 DEF StackOK, n
<1>5. gs # <<>> => 1 \in 1 .. (n - 1)
  BY <1>2, <1>3
<1> QED BY <1>3, <1>4, <1>5 DEF StackOK, IsSequence

Resumed(fs, stack) == Append(SubSeq(fs, 1, Len(fs) - 2), Advanced(fs[Len(fs) - 1], stack))

LEMMA TopReturnsValue ==
  ASSUME NEW fs, NEW codes, StackOK(fs, codes), \A c \in codes : Ends(c), Len(fs) > 1, NEW stack,
         NEW gs, gs = Resumed(fs, stack)
  PROVE  /\ StackOK(gs, codes) /\ gs # <<>>
         /\ Len(fs) # 2 => gs[1] = fs[1]
         /\ Len(fs) = 2 => At(fs[1]) = "invokestatic" /\ gs[1].code = fs[1].code /\ gs[1].pc = fs[1].pc + 1
<1>1. PICK S : fs \in Seq(S)
  BY DEF StackOK, IsSequence
<1> DEFINE hs == Front(fs)
           n == Len(hs)
<1>2. /\ Len(fs) \in Nat /\ hs \in Seq(S) /\ n = Len(fs) - 1 /\ n \in Nat /\ n # 0
      /\ DOMAIN hs = 1 .. n /\ hs[n] = fs[Len(fs) - 1] /\ hs # <<>>
  <2>1. Len(fs) \in Nat /\ Len(fs) - 1 \in Nat
    BY <1>1
  <2>2. hs \in Seq(S) /\ n = Len(fs) - 1 /\ \A d \in 1 .. (Len(fs) - 1) : hs[d] = fs[d]
    BY <1>1, <2>1 DEF Front
  <2> HIDE DEF hs
  <2>3. n \in Nat /\ n # 0 /\ DOMAIN hs = 1 .. n /\ n \in 1 .. (Len(fs) - 1)
    BY <2>1, <2>2
  <2> QED BY <2>1, <2>2, <2>3
<1>3. StackOK(hs, codes) /\ hs[1] = fs[1]
  <2>1. fs # <<>>
    BY <1>1
  <2> QED BY <1>2, <2>1, TopReturns
<1>4. gs = OnTop(hs, stack)
  <2>1. PICK g : g = Advanced(hs[n], stack)
    OBVIOUS
  <2>2. gs = Append(SubSeq(fs, 1, Len(fs) - 2), g)
    BY <1>2, <2>1 DEF Resumed
  <2>3. PICK a : a = SubSeq(fs, 1, Len(fs) - 2)
    OBVIOUS
  <2>4. a \in Seq(S) /\ Len(a) = Len(fs) - 2 /\ \A d \in 1 .. (Len(fs) - 2) : a[d] = fs[d]
    BY <1>1, <1>2, <2>3
  <2>5. /\ gs \in Seq(S \cup {g}) /\ DOMAIN gs = 1 .. n /\ gs[n] = g
        /\ \A d \in 1 .. n : d # n => gs[d] = fs[d]
    BY <1>2, <2>2, <2>3, <2>4
  <2>6. \A d \in 1 .. n : hs[d] = fs[d]
    BY <1>1, <1>2 DEF Front
  <2> HIDE DEF hs
  <2>7. gs = [d \in 1 .. n |-> IF d = n THEN g ELSE hs[d]]
    BY <2>5, <2>6
  <2>8. [hs EXCEPT ![n] = g] = [d \in 1 .. n |-> IF d = n THEN g ELSE hs[d]]
    BY <1>2
  <2> QED BY <2>1, <2>7, <2>8 DEF OnTop
<1>5. At(hs[n]) = "invokestatic"
  <2>1. n \in DOMAIN fs /\ n # Len(fs)
    BY <1>1, <1>2
  <2>2. hs[n] = fs[n]
    BY <1>2
  <2> QED BY <2>1, <2>2 DEF StackOK
<1>6. At(hs[n]) \notin Returns
  BY <1>5 DEF Returns
<1> HIDE DEF hs
<1>7. /\ StackOK(gs, codes) /\ gs # <<>>
      /\ Len(hs) # 1 => gs[1] = hs[1]
      /\ Len(hs) = 1 => gs[1].code = hs[1].code /\ gs[1].pc = hs[1].pc + 1
  <2>1. PICK ks : ks = hs
    OBVIOUS
  <2>2. StackOK(ks, codes) /\ ks # <<>> /\ At(ks[Len(ks)]) \notin Returns /\ gs = OnTop(ks, stack)
    BY <1>2, <1>3, <1>4, <1>6, <2>1
  <2>3. /\ StackOK(gs, codes) /\ gs # <<>>
        /\ Len(ks) # 1 => gs[1] = ks[1]
        /\ Len(ks) = 1 => gs[1].code = ks[1].code /\ gs[1].pc = ks[1].pc + 1
    BY ONLY <2>2, TopAdvances, \A c \in codes : Ends(c)
  <2> QED BY <2>1, <2>3
<1>8. (Len(fs) = 2 <=> n = 1)
  BY <1>2
<1> QED BY <1>3, <1>5, <1>7, <1>8

-----------------------------------------------------------------------------
(* A class that runs is loadable, its statics are its fields, and the base *)
(* of the stack is the static initialiser, which has written everything    *)
(* that precedes its next instruction.                                     *)

BaseOK(fs, w) ==
  fs # <<>> =>
    /\ fs[1].code = InitialiserCode
    /\ \A k \in DOMAIN InitialiserCode :
         k < fs[1].pc /\ InitialiserCode[k][1] = "putstatic" => NameAt(InitialiserCode[k][2]) \in ToSet(w)

RunOK ==
  /\ Resolvable
  /\ DOMAIN statics = {Utf8At(f.name) : f \in ToSet(file.fields)}
  /\ IsSequence(written) /\ ToSet(written) \subseteq DOMAIN statics
  /\ StackOK(frames, Codes)
  /\ BaseOK(frames, written)

MachineOK ==
  /\ stage # "running" => frames = <<>> /\ written = <<>>
  /\ stage = "running" => RunOK

LEMMA SameFile ==
  ASSUME file' = file
  PROVE  /\ Resolvable => Resolvable'
         /\ Codes' = Codes
         /\ \A i : NameAt(i)' = NameAt(i) /\ Utf8At(i)' = Utf8At(i)
<1>1. \A i : Utf8At(i)' = Utf8At(i)
  BY DEF Utf8At
<1>2. \A i, type : Tagged(i, type)' <=> Tagged(i, type)
  BY DEF Tagged
<1>3. \A i : IsText(i)' <=> IsText(i)
  BY DEF IsText, Tagged
<1>4. \A i : /\ IsClass(i)' <=> IsClass(i)
             /\ IsNameAndType(i)' <=> IsNameAndType(i)
  BY DEF IsClass, IsNameAndType, IsText, Tagged
<1>5. \A i : ClassName(i)' = ClassName(i) /\ Member(i)' = Member(i) /\ NameAt(i)' = NameAt(i)
  BY DEF ClassName, Member, Utf8At, NameAt
<1>6. \A i, type : IsRef(i, type)' <=> IsRef(i, type)
  BY DEF IsRef, IsClass, IsNameAndType, IsText, Tagged
<1>7. MembersOf(file.fields)' = MembersOf(file.fields) /\ MembersOf(file.methods)' = MembersOf(file.methods)
  BY DEF MembersOf, Utf8At
<1>8. \A i : Instructs(i)' <=> Instructs(i)
  BY <1>2, <1>3, <1>5, <1>6, <1>7 DEF Instructs
<1>9. DeclaresOnce(file.fields) /\ DeclaresOnce(file.methods) => DeclaresOnce(file.fields)' /\ DeclaresOnce(file.methods)'
  BY DEF DeclaresOnce, Utf8At
<1>10. Codes' = Codes
  BY DEF Codes
<1>11. Resolvable => Resolvable'
  BY <1>1, <1>3, <1>4, <1>5, <1>8, <1>9 DEF Resolvable
<1> QED BY <1>1, <1>5, <1>10, <1>11

LEMMA RunStays ==
  ASSUME RunOK, JVM, DOMAIN statics' = DOMAIN statics, IsSequence(written'),
         ToSet(written') \subseteq DOMAIN statics,
         StackOK(frames', Codes), BaseOK(frames', written')
  PROVE  RunOK'
<1>1. file' = file /\ clinit' = clinit
  BY DEF JVM, output
<1>2. /\ Resolvable' /\ Codes' = Codes
      /\ \A i : NameAt(i)' = NameAt(i) /\ Utf8At(i)' = Utf8At(i)
  BY <1>1, SameFile DEF RunOK
<1>3. {Utf8At(f.name) : f \in ToSet(file.fields)}' = {Utf8At(f.name) : f \in ToSet(file.fields)}
  BY <1>1 DEF Utf8At
<1>4. InitialiserCode' = InitialiserCode
  BY <1>1 DEF InitialiserCode
<1>5. BaseOK(frames, written)'
  BY <1>1, <1>4 DEF BaseOK, NameAt, Member, Utf8At, ClassName
<1> QED BY <1>2, <1>3, <1>5 DEF RunOK

LEMMA BaseStays ==
  ASSUME NEW fs, NEW gs, NEW w, NEW v, fs # <<>>, BaseOK(fs, w), ToSet(w) \subseteq ToSet(v),
         fs[1].pc \in Nat, IsSequence(InitialiserCode),
         gs # <<>> =>
           \/ gs[1] = fs[1]
           \/ /\ gs[1].code = fs[1].code /\ gs[1].pc = fs[1].pc + 1
              /\ At(fs[1]) = "putstatic" => NameAt(fs[1].code[fs[1].pc][2]) \in ToSet(v)
  PROVE  BaseOK(gs, v)
<1> SUFFICES ASSUME gs # <<>> PROVE BaseOK(gs, v)
  BY DEF BaseOK
<1>1. /\ fs[1].code = InitialiserCode
      /\ \A k \in DOMAIN InitialiserCode :
           k < fs[1].pc /\ InitialiserCode[k][1] = "putstatic" => NameAt(InitialiserCode[k][2]) \in ToSet(w)
  BY DEF BaseOK
<1>2. CASE gs[1] = fs[1]
  BY <1>1, <1>2 DEF BaseOK
<1>3. CASE /\ gs[1].code = fs[1].code /\ gs[1].pc = fs[1].pc + 1
           /\ At(fs[1]) = "putstatic" => NameAt(fs[1].code[fs[1].pc][2]) \in ToSet(v)
  <2>1. ASSUME NEW k \in DOMAIN InitialiserCode, k < gs[1].pc, InitialiserCode[k][1] = "putstatic"
        PROVE  NameAt(InitialiserCode[k][2]) \in ToSet(v)
    <3>1. k \in Nat
      <4>1. DOMAIN InitialiserCode = 1 .. Len(InitialiserCode) /\ Len(InitialiserCode) \in Nat
        BY MapFacts
      <4> QED BY <4>1
    <3>2. k < fs[1].pc \/ k = fs[1].pc
      BY <1>3, <2>1, <3>1
    <3>3. CASE k < fs[1].pc
      BY <1>1, <2>1, <3>3
    <3>4. CASE k = fs[1].pc
      BY <1>1, <1>3, <2>1, <3>4 DEF At
    <3> QED BY <3>2, <3>3, <3>4
  <2> QED BY <1>1, <1>3, <2>1 DEF BaseOK
<1> QED BY <1>2, <1>3

(* What a run knows of the code it is in.                                  *)
CodeOK(c) == Ends(c) /\ \A k \in DOMAIN c : Instructs(c[k])

LEMMA CodesOK ==
  ASSUME FileOK, stage \in {"written", "running"}, Resolvable
  PROVE  \A c \in Codes : CodeOK(c)
<1>1. InfosOK(file.methods, pool, {InitialiserCode})
  BY DEF FileOK, ClinitMade
<1>2. \A m \in ToSet(file.methods) : Ends(m.code)
  BY <1>1 DEF InfosOK, InfoOK, ToSet
<1>3. \A m \in ToSet(file.methods) : \A k \in DOMAIN m.code : Instructs(m.code[k])
  BY DEF Resolvable
<1> QED BY <1>2, <1>3 DEF Codes, CodeOK

LEMMA InitialiserIs ==
  ASSUME ClinitOK
  PROVE  /\ Ends(InitialiserCode) /\ IsSequence(InitialiserCode)
         /\ \A k \in DOMAIN InitialiserCode :
              \/ k \in DOMAIN clinit /\ InitialiserCode[k] = clinit[k]
              \/ InitialiserCode[k][1] = "return"
<1> DEFINE i == <<"return", 0>>
<1>1. PICK S : clinit \in Seq(S)
  BY DEF ClinitOK, IsSequence
<1>2. i[1] = "return"
  OBVIOUS
<1>3. InitialiserCode = Append(clinit, i)
  BY DEF InitialiserCode
<1>4. Ends(InitialiserCode)
  BY EndsAppend DEF InitialiserCode, ClinitOK, Returns
<1> HIDE DEF i
<1>5. clinit \in Seq(S \cup {i})
  BY <1>1
<1>6. \A k \in DOMAIN InitialiserCode :
        (k \in DOMAIN clinit /\ InitialiserCode[k] = clinit[k]) \/ InitialiserCode[k] = i
  BY <1>3, <1>5
<1> QED BY <1>2, <1>4, <1>6 DEF Ends

(* The activation on top of the stack, and the one at its base.            *)
LEMMA TopIs ==
  ASSUME FileOK, ClinitOK, stage = "running", RunOK, frames # <<>>
  PROVE  /\ Len(frames) \in Nat /\ Len(frames) # 0
         /\ Top.code \in Codes /\ Top.pc \in DOMAIN Top.code /\ Instructs(Instruction)
         /\ Instruction[1] = At(Top)
         /\ frames[1].pc \in Nat
         /\ Len(frames) = 1 => Top = frames[1] /\ Top.code = InitialiserCode
<1>1. /\ Len(frames) \in Nat /\ DOMAIN frames = 1 .. Len(frames)
      /\ \A d \in DOMAIN frames : FrameOK(frames[d], Codes)
  BY MapFacts DEF RunOK, StackOK
<1>2. Len(frames) # 0 /\ Len(frames) \in DOMAIN frames /\ 1 \in DOMAIN frames
  <2>1. PICK S : frames \in Seq(S)
    BY DEF RunOK, StackOK, IsSequence
  <2> QED BY <2>1
<1>3. FrameOK(Top, Codes) /\ FrameOK(frames[1], Codes)
  BY <1>1, <1>2 DEF Top
<1>4. CodeOK(Top.code) /\ CodeOK(frames[1].code)
  BY <1>3, CodesOK DEF FrameOK, RunOK
<1>5. Instructs(Instruction) /\ Instruction[1] = At(Top)
  BY <1>3, <1>4 DEF FrameOK, CodeOK, Instruction, At
<1>6. frames[1].pc \in Nat
  <2>1. PICK c : c = frames[1].code
    OBVIOUS
  <2>2. DOMAIN c = 1 .. Len(c) /\ Len(c) \in Nat
    BY <1>4, <2>1, MapFacts DEF CodeOK, Ends
  <2> QED BY <1>3, <2>1, <2>2 DEF FrameOK
<1>7. Len(frames) = 1 => Top = frames[1] /\ Top.code = InitialiserCode
  BY DEF Top, RunOK, BaseOK
<1> QED BY <1>1, <1>2, <1>3, <1>5, <1>6, <1>7 DEF FrameOK

LEMMA AdvanceRuns ==
  ASSUME FileOK, ClinitOK, stage = "running", RunOK, frames # <<>>, JVM,
         NEW stack, frames' = OnTop(frames, stack), At(Top) \notin Returns,
         DOMAIN statics' = DOMAIN statics, IsSequence(written'), ToSet(written') \subseteq DOMAIN statics,
         ToSet(written) \subseteq ToSet(written'),
         At(Top) = "putstatic" => NameAt(Instruction[2]) \in ToSet(written')
  PROVE  RunOK'
<1>1. PICK fs, gs, codes : fs = frames /\ gs = frames' /\ codes = Codes
  OBVIOUS
<1>2. \A c \in codes : Ends(c)
  BY <1>1, CodesOK DEF CodeOK, RunOK
<1>3. StackOK(fs, codes) /\ fs # <<>> /\ At(fs[Len(fs)]) \notin Returns /\ gs = OnTop(fs, stack)
  BY <1>1 DEF RunOK, Top
<1>4. /\ StackOK(gs, codes) /\ gs # <<>>
      /\ Len(fs) # 1 => gs[1] = fs[1]
      /\ Len(fs) = 1 => gs[1].code = fs[1].code /\ gs[1].pc = fs[1].pc + 1
  BY <1>2, <1>3, TopAdvances
<1>5. Len(fs) = 1 => Top = fs[1] /\ Instruction[2] = fs[1].code[fs[1].pc][2]
  BY <1>1 DEF Top, Instruction
<1>6. /\ BaseOK(fs, written) /\ fs[1].pc \in Nat /\ IsSequence(InitialiserCode)
  BY <1>1, TopIs, InitialiserIs DEF RunOK
<1>7. \/ gs[1] = fs[1]
      \/ /\ gs[1].code = fs[1].code /\ gs[1].pc = fs[1].pc + 1
         /\ At(fs[1]) = "putstatic" => NameAt(fs[1].code[fs[1].pc][2]) \in ToSet(written')
  BY <1>4, <1>5
<1>8. PICK w, v : w = written /\ v = written'
  OBVIOUS
<1>9. BaseOK(gs, v)
  BY <1>3, <1>6, <1>7, <1>8, BaseStays
<1> QED BY <1>1, <1>4, <1>8, <1>9, RunStays


(* The steps of the JVM.                                                   *)
Machinery == FileOK /\ ClinitOK /\ MachineOK

LEMMA Runs ==
  ASSUME Machinery, NEW ops, Operation(ops)
  PROVE  /\ FileOK /\ ClinitOK /\ stage = "running" /\ RunOK /\ frames # <<>>
         /\ At(Top) \in ops /\ Instruction[1] = At(Top) /\ Instructs(Instruction)
<1>1. FileOK /\ ClinitOK /\ stage = "running" /\ RunOK /\ frames # <<>> /\ Instruction[1] \in ops
  BY DEF Machinery, Operation, MachineOK
<1>2. Instruction[1] = At(Top) /\ Instructs(Instruction)
  BY <1>1, TopIs
<1> QED BY <1>1, <1>2

LEMMA ProceedsOnTop == ASSUME NEW stack, Proceeds(stack) PROVE frames' = OnTop(frames, stack)
BY DEF Proceeds, OnTop

(* Push, GetStatic and Add write nothing.                                  *)
LEMMA QuietRuns ==
  ASSUME Machinery, NEW ops, Operation(ops), "putstatic" \notin ops, ops \cap Returns = {},
         NEW stack, Proceeds(stack), UNCHANGED <<statics, written>>, JVM
  PROVE  RunOK'
<1>1. /\ FileOK /\ ClinitOK /\ stage = "running" /\ RunOK /\ frames # <<>>
      /\ At(Top) \notin Returns /\ At(Top) # "putstatic"
  BY Runs
<1>2. frames' = OnTop(frames, stack) /\ statics' = statics /\ written' = written
  BY ProceedsOnTop
<1>3. IsSequence(written) /\ ToSet(written) \subseteq DOMAIN statics
  BY <1>1 DEF RunOK
<1> QED BY <1>1, <1>2, <1>3, AdvanceRuns

LEMMA PushRuns == Machinery /\ Push => RunOK'
BY QuietRuns DEF Push, Returns

LEMMA GetStaticRuns == Machinery /\ GetStatic => RunOK'
BY QuietRuns DEF GetStatic, Returns

LEMMA AddRuns == Machinery /\ Add => RunOK'
BY QuietRuns DEF Add, Returns

LEMMA PutStaticRuns == Machinery /\ PutStatic => RunOK'
<1> SUFFICES ASSUME Machinery, PutStatic PROVE RunOK'
  OBVIOUS
<1> DEFINE x == NameAt(Instruction[2])
<1>1. Operation({"putstatic"}) /\ JVM
  BY DEF PutStatic
<1>2. /\ FileOK /\ ClinitOK /\ stage = "running" /\ RunOK /\ frames # <<>>
      /\ At(Top) = "putstatic" /\ Instruction[1] = "putstatic" /\ Instructs(Instruction)
  <2>1. /\ FileOK /\ ClinitOK /\ stage = "running" /\ RunOK /\ frames # <<>>
        /\ At(Top) \in {"putstatic"} /\ Instruction[1] = At(Top) /\ Instructs(Instruction)
    BY <1>1, Runs
  <2> QED BY <2>1
<1>3. x \in DOMAIN statics
  <2>1. Member(Instruction[2]) \in MembersOf(file.fields)
    BY <1>2 DEF Instructs
  <2>2. PICK m \in ToSet(file.fields) : Member(Instruction[2]) = <<ThisClass, Utf8At(m.name), Utf8At(m.descriptor)>>
    BY <2>1 DEF MembersOf
  <2>3. x = Utf8At(m.name)
    BY <2>2 DEF NameAt
  <2> QED BY <1>2, <2>2, <2>3 DEF RunOK
<1>4. \E stack : frames' = OnTop(frames, stack)
  BY ProceedsOnTop DEF PutStatic
<1>5. DOMAIN statics' = DOMAIN statics
  BY DEF PutStatic
<1>6. IsSequence(written') /\ ToSet(written') = ToSet(written) \cup {x}
  <2>1. PICK S : written \in Seq(S)
    BY <1>2 DEF RunOK, IsSequence
  <2>2. written' = Append(written, x)
    BY DEF PutStatic
  <2> HIDE DEF x
  <2>3. /\ written' \in Seq(S \cup {x}) /\ DOMAIN written' = 1 .. (Len(written) + 1) /\ Len(written) \in Nat
        /\ DOMAIN written = 1 .. Len(written)
        /\ written'[Len(written) + 1] = x /\ \A k \in 1 .. Len(written) : written'[k] = written[k]
    BY <2>1, <2>2
  <2>4. PICK n, v, w : n = Len(written) /\ v = written' /\ w = written
    OBVIOUS
  <2>5. ToSet(v) = ToSet(w) \cup {x}
    <3>1. /\ n \in Nat /\ DOMAIN v = 1 .. (n + 1) /\ DOMAIN w = 1 .. n
          /\ v[n + 1] = x /\ \A k \in 1 .. n : v[k] = w[k]
      BY <2>3, <2>4
    <3>2. \A k \in 1 .. (n + 1) : k \in 1 .. n \/ k = n + 1
      BY <3>1
    <3>3. \A k \in 1 .. n : k \in 1 .. (n + 1)
      BY <3>1
    <3>4. n + 1 \in 1 .. (n + 1)
      BY <3>1
    <3> QED BY <3>1, <3>2, <3>3, <3>4 DEF ToSet
  <2> QED BY <2>3, <2>4, <2>5 DEF IsSequence, ToSet
<1>7. ToSet(written') \subseteq DOMAIN statics /\ ToSet(written) \subseteq ToSet(written') /\ x \in ToSet(written')
  BY <1>2, <1>3, <1>6 DEF RunOK
<1>8. At(Top) \notin Returns
  BY <1>2 DEF Returns
<1> QED BY <1>1, <1>2, <1>4, <1>5, <1>6, <1>7, <1>8, AdvanceRuns


LEMMA ActivationOK ==
  ASSUME FileOK, stage \in {"written", "running"}, Resolvable, NEW name, \E m \in ToSet(file.methods) : Utf8At(m.name) = name
  PROVE  /\ FrameOK(Activation(name), Codes) /\ Activation(name).pc = 1
         /\ \E m \in ToSet(file.methods) : Utf8At(m.name) = name /\ Activation(name).code = m.code
<1> DEFINE m == CHOOSE m \in ToSet(file.methods) : Utf8At(m.name) = name
<1>1. m \in ToSet(file.methods) /\ Utf8At(m.name) = name
  OBVIOUS
<1>2. Activation(name) = [code |-> m.code, pc |-> 1, stack |-> <<>>]
  BY DEF Activation, CodeOf
<1> HIDE DEF m
<1>3. m.code \in Codes
  BY <1>1 DEF Codes
<1>4. 1 \in DOMAIN m.code
  <2>1. PICK c : c = m.code
    OBVIOUS
  <2>2. CodeOK(c)
    BY <1>3, <2>1, CodesOK
  <2>3. PICK S : c \in Seq(S)
    BY <2>2 DEF CodeOK, Ends, IsSequence
  <2>4. c # <<>>
    BY <2>2 DEF CodeOK, Ends
  <2> QED BY <2>1, <2>3, <2>4
<1>5. PICK g : g = Activation(name)
  OBVIOUS
<1>6. PICK c : c = m.code
  OBVIOUS
<1>7. g = [code |-> c, pc |-> 1, stack |-> <<>>]
  BY <1>2, <1>5, <1>6
<1>8. FrameOK(g, Codes) /\ g.pc = 1 /\ g.code = c
  BY <1>3, <1>4, <1>6, <1>7 DEF FrameOK, IsFrame
<1> QED BY <1>1, <1>5, <1>6, <1>8

LEMMA InvokeRuns == Machinery /\ Invoke => RunOK'
<1> SUFFICES ASSUME Machinery, Invoke PROVE RunOK'
  OBVIOUS
<1>1. PICK g : g = Activation(NameAt(Instruction[2]))
  OBVIOUS
<1>2. Operation({"invokestatic"}) /\ JVM /\ frames' = Append(frames, g) /\ statics' = statics /\ written' = written
  BY <1>1 DEF Invoke
<1>3. /\ FileOK /\ ClinitOK /\ stage = "running" /\ RunOK /\ frames # <<>>
      /\ At(Top) \in {"invokestatic"} /\ Instruction[1] = At(Top) /\ Instructs(Instruction)
  BY <1>2, Runs
<1>4. FrameOK(g, Codes)
  <2>1. Member(Instruction[2]) \in MembersOf(file.methods)
    BY <1>3 DEF Instructs
  <2>2. PICK m \in ToSet(file.methods) : Member(Instruction[2]) = <<ThisClass, Utf8At(m.name), Utf8At(m.descriptor)>>
    BY <2>1 DEF MembersOf
  <2>3. NameAt(Instruction[2]) = Utf8At(m.name)
    BY <2>2 DEF NameAt
  <2>4. \E n \in ToSet(file.methods) : Utf8At(n.name) = NameAt(Instruction[2])
    BY <2>2, <2>3
  <2> QED BY <1>1, <1>3, <2>4, ActivationOK DEF RunOK
<1>5. PICK fs, gs, codes : fs = frames /\ gs = frames' /\ codes = Codes
  OBVIOUS
<1>6. StackOK(fs, codes) /\ fs # <<>> /\ At(fs[Len(fs)]) = "invokestatic" /\ FrameOK(g, codes) /\ gs = Append(fs, g)
  BY <1>2, <1>3, <1>4, <1>5 DEF RunOK, Top
<1>7. StackOK(gs, codes) /\ gs # <<>> /\ gs[1] = fs[1]
  BY ONLY <1>6, TopInvokes
<1>8. BaseOK(fs, written) /\ fs[1].pc \in Nat /\ IsSequence(InitialiserCode)
  BY <1>3, <1>5, TopIs, InitialiserIs DEF RunOK
<1>9. BaseOK(gs, written)
  BY <1>6, <1>7, <1>8, BaseStays
<1> QED BY <1>2, <1>3, <1>5, <1>7, <1>9, RunStays DEF RunOK

LEMMA ReturnRuns == Machinery /\ Return => RunOK'
<1> SUFFICES ASSUME Machinery, Return PROVE RunOK'
  OBVIOUS
<1>1. Operation({"return"}) /\ JVM /\ frames' = Front(frames) /\ statics' = statics /\ written' = written
  BY DEF Return
<1>2. FileOK /\ ClinitOK /\ stage = "running" /\ RunOK /\ frames # <<>>
  BY <1>1, Runs
<1>3. PICK fs, gs, codes : fs = frames /\ gs = frames' /\ codes = Codes
  OBVIOUS
<1>4. StackOK(fs, codes) /\ fs # <<>> /\ gs = Front(fs)
  BY <1>1, <1>2, <1>3 DEF RunOK
<1>5. StackOK(gs, codes) /\ (gs # <<>> => gs[1] = fs[1])
  BY ONLY <1>4, TopReturns
<1>6. BaseOK(fs, written) /\ fs[1].pc \in Nat /\ IsSequence(InitialiserCode)
  BY <1>2, <1>3, TopIs, InitialiserIs DEF RunOK
<1>7. BaseOK(gs, written)
  BY <1>4, <1>5, <1>6, BaseStays
<1> QED BY <1>1, <1>2, <1>3, <1>5, <1>7, RunStays DEF RunOK

LEMMA ReturnValueRuns == Machinery /\ ReturnValue => RunOK'
<1> SUFFICES ASSUME Machinery, ReturnValue PROVE RunOK'
  OBVIOUS
<1>1. Operation(DOMAIN Returned) /\ JVM /\ statics' = statics /\ written' = written
  BY DEF ReturnValue
<1>2. /\ FileOK /\ ClinitOK /\ stage = "running" /\ RunOK /\ frames # <<>>
      /\ At(Top) \in DOMAIN Returned /\ Instruction[1] = At(Top) /\ Instructs(Instruction)
  BY <1>1, Runs
<1>3. PICK fs, gs, codes : fs = frames /\ gs = frames' /\ codes = Codes
  OBVIOUS
<1>4. PICK stack : gs = Resumed(fs, stack)
  BY <1>3 DEF ReturnValue, Resumed
<1>5. /\ Len(fs) \in Nat /\ Len(fs) # 0
      /\ Top.pc \in DOMAIN Top.code
      /\ Len(fs) = 1 => Top.code = InitialiserCode
  BY <1>2, <1>3, TopIs
<1>6. Len(fs) # 1
  <2> SUFFICES ASSUME Len(fs) = 1 PROVE FALSE
    OBVIOUS
  <2>1. PICK k : k = Top.pc
    OBVIOUS
  <2>2. k \in DOMAIN InitialiserCode /\ InitialiserCode[k][1] \in {"ireturn", "freturn", "areturn"}
    BY <1>2, <1>5, <2>1 DEF At, Returned
  <2>3. k \in DOMAIN clinit /\ clinit[k][1] \in {"ireturn", "freturn", "areturn"}
    BY <1>2, <2>2, InitialiserIs
  <2>4. clinit[k][1] \in ClinitOps
    BY <1>2, <2>3 DEF ClinitOK
  <2> QED BY <2>3, <2>4 DEF ClinitOps, ExpressionOps
<1>7. Len(fs) > 1
  <2>1. PICK n : n = Len(fs)
    OBVIOUS
  <2>2. n \in Nat /\ n # 0 /\ n # 1
    BY <1>5, <1>6, <2>1
  <2>3. n > 1
    BY ONLY <2>2
  <2> QED BY <2>1, <2>3
<1>8. \A c \in codes : Ends(c)
  BY <1>2, <1>3, CodesOK DEF CodeOK, RunOK
<1>9. StackOK(fs, codes) /\ fs # <<>>
  BY <1>2, <1>3 DEF RunOK
<1>10. /\ StackOK(gs, codes) /\ gs # <<>>
       /\ Len(fs) # 2 => gs[1] = fs[1]
       /\ Len(fs) = 2 => At(fs[1]) = "invokestatic" /\ gs[1].code = fs[1].code /\ gs[1].pc = fs[1].pc + 1
  BY <1>4, <1>7, <1>8, <1>9, TopReturnsValue
<1>11. BaseOK(fs, written) /\ fs[1].pc \in Nat /\ IsSequence(InitialiserCode)
  BY <1>2, <1>3, TopIs, InitialiserIs DEF RunOK
<1>12. BaseOK(gs, written)
  BY <1>9, <1>10, <1>11, BaseStays
<1> QED BY <1>1, <1>2, <1>3, <1>10, <1>12, RunStays DEF RunOK


LEMMA StepRuns == Machinery /\ stage = "running" /\ Step => MachineOK'
<1> SUFFICES ASSUME Machinery, stage = "running", Step PROVE MachineOK'
  OBVIOUS
<1>1. Push \/ GetStatic \/ PutStatic \/ Add \/ Invoke \/ ReturnValue \/ Return
  BY DEF Step, Compile, AnalyzePackageScope, AddMethod, AddField, AnalyzeField, AnalyzeMethod, FillHead,
         FillField, FillMethod, GenerateHead, GenerateField, GenerateConstructor, GenerateInitialiser,
         GenerateClinit, GenerateMethod, WriteClassFile, Load
<1>2. RunOK'
  BY <1>1, PushRuns, GetStaticRuns, PutStaticRuns, AddRuns, InvokeRuns, ReturnValueRuns, ReturnRuns
<1>3. stage' = stage
  BY <1>1 DEF Push, GetStatic, PutStatic, Add, Invoke, ReturnValue, Return, JVM
<1> QED BY <1>2, <1>3 DEF MachineOK

(* The machine starts in the static initialiser, which has run nothing.    *)
LEMMA StaticInitialiser ==
  ASSUME FileOK, stage = "written", NEW m \in ToSet(file.methods), Utf8At(m.name) = "<clinit>"
  PROVE  m.code = InitialiserCode
<1>1. InfosOK(file.methods, pool, {InitialiserCode}) /\ file.constants = [i \in DOMAIN pool |-> ToBytes(pool[i])]
  BY DEF FileOK, ClinitMade
<1>2. m.name \in DOMAIN pool /\ (pool[m.name].lit = "<clinit>" => m.code = InitialiserCode)
  BY <1>1 DEF InfosOK, InfoOK, ToSet
<1>3. Utf8At(m.name) = pool[m.name].lit
  BY <1>1, <1>2 DEF Utf8At, ToBytes
<1> QED BY <1>2, <1>3

LEMMA LoadMachine == Machinery /\ Load => MachineOK'
<1> SUFFICES ASSUME Machinery, Load PROVE MachineOK'
  OBVIOUS
<1>1. /\ FileOK /\ ClinitOK /\ stage = "written" /\ frames = <<>> /\ written = <<>>
      /\ file' = file /\ clinit' = clinit /\ written' = written
  BY DEF Machinery, MachineOK, Load, output, machine
<1>2. CASE ~Loadable
  BY <1>1, <1>2 DEF Load, machine, MachineOK
<1>3. CASE Loadable
  <2>1. /\ stage' = "running"
        /\ DOMAIN statics' = {Utf8At(f.name) : f \in ToSet(file.fields)}
        /\ \/ /\ \E m \in ToSet(file.methods) : Utf8At(m.name) = "<clinit>"
              /\ frames' = <<Activation("<clinit>")>>
           \/ frames' = <<>>
    BY <1>3 DEF Load
  <2>2. Resolvable /\ Resolvable' /\ Codes' = Codes
    BY <1>1, <1>3, SameFile DEF Loadable
  <2>3. DOMAIN statics' = {Utf8At(f.name) : f \in ToSet(file.fields)}'
    BY <1>1, <2>1 DEF Utf8At
  <2>4. IsSequence(written') /\ ToSet(written') \subseteq DOMAIN statics'
    <3>1. written' = <<>>
      BY <1>1
    <3>2. \A w : w = <<>> => IsSequence(w) /\ ToSet(w) = {}
      BY EmptyMap DEF ToSet
    <3> QED BY <3>1, <3>2
  <2>5. StackOK(frames', Codes) /\ (frames' # <<>> => frames'[1].code = InitialiserCode /\ frames'[1].pc = 1)
    <3>1. CASE frames' = <<>>
      BY <3>1, EmptyMap DEF StackOK
    <3>2. CASE /\ \E m \in ToSet(file.methods) : Utf8At(m.name) = "<clinit>"
               /\ frames' = <<Activation("<clinit>")>>
      <4>1. PICK g : g = Activation("<clinit>")
        OBVIOUS
      <4>2. FrameOK(g, Codes) /\ g.pc = 1
        BY <1>1, <2>2, <3>2, <4>1, ActivationOK
      <4>3. \E m \in ToSet(file.methods) : Utf8At(m.name) = "<clinit>" /\ g.code = m.code
        BY <1>1, <2>2, <3>2, <4>1, ActivationOK
      <4>4. g.code = InitialiserCode
        BY <1>1, <4>3, StaticInitialiser
      <4>5. PICK gs : gs = frames'
        OBVIOUS
      <4>6. gs = <<g>>
        BY <3>2, <4>1, <4>5
      <4>7. gs \in Seq({g}) /\ DOMAIN gs = {1} /\ Len(gs) = 1 /\ gs[1] = g
        BY <4>6
      <4>8. StackOK(gs, Codes)
        BY <4>2, <4>7 DEF StackOK, IsSequence
      <4> QED BY <4>2, <4>4, <4>5, <4>7, <4>8
    <3> QED BY <2>1, <3>1, <3>2
  <2>6. BaseOK(frames, written)'
    <3>1. InitialiserCode' = InitialiserCode
      BY <1>1 DEF InitialiserCode
    <3>2. ASSUME NEW k \in DOMAIN InitialiserCode PROVE ~(k < 1)
      <4>1. IsSequence(InitialiserCode)
        BY <1>1, InitialiserIs
      <4> QED BY <4>1, NoneBefore
    <3> QED BY <2>5, <3>1, <3>2 DEF BaseOK
  <2> QED BY <2>1, <2>2, <2>3, <2>4, <2>5, <2>6 DEF MachineOK, RunOK
<1> QED BY <1>2, <1>3


-----------------------------------------------------------------------------
(* The parts together, step by step.                                       *)
Sound == AnalysisOK /\ ContextOK /\ ClinitOK /\ FileOK

LEMMA AnalysisSound ==
  ASSUME IInv, Sound, IInv', AnalyzePackageScope \/ AddMethod \/ AddField \/ AnalyzeField \/ AnalyzeMethod
  PROVE  Sound'
<1>1. AnalysisOK' /\ ContextOK'
  BY ScopeAnalysis, AddMethodAnalysis, AddFieldAnalysis, AnalyzeFieldAnalysis, AnalyzeMethodAnalysis,
     AnalysisContext DEF Sound
<1>2. /\ stage \in {"scope", "methods", "fields", "analyze fields", "analyze methods"}
      /\ stage' \in {"methods", "fields", "analyze fields", "analyze methods", "pool", "rejected"}
      /\ clinit' = clinit
  BY DEF AnalyzePackageScope, AddMethod, AddField, AnalyzeField, AnalyzeMethod, Continue, output
<1>3. clinit' = <<>> /\ stage' # "initialisers"
  BY <1>2 DEF Sound, ClinitOK, ClinitMade
<1>4. ClinitOK'
  BY <1>3, EmptyClinit
<1>5. FileOK'
  BY <1>2, NoTail DEF Stages, BeforeClinit, ClinitMade
<1> QED BY <1>1, <1>4, <1>5 DEF Sound

LEMMA FillSound ==
  ASSUME IInv, Sound, FillHead \/ FillField \/ FillMethod
  PROVE  Sound'
<1>1. /\ stage \in {"pool", "field refs", "method refs"} /\ stage' \in {"field refs", "method refs", "head"}
      /\ MapsKept /\ errors' = errors /\ consts' = consts /\ clinit' = clinit
  BY DEF FillHead, FillField, FillMethod, Continue, analysis, MapsKept
<1>2. AnalysisOK'
  BY <1>1, AnalysisKept DEF Sound, Generating, WithPool
<1>3. ContextOK'
  BY FillHeadContext, FillFieldContext, FillMethodContext DEF Sound
<1>4. clinit' = <<>> /\ stage' # "initialisers"
  BY <1>1 DEF Sound, ClinitOK, ClinitMade
<1>5. ClinitOK'
  BY <1>4, EmptyClinit
<1>6. FileOK'
  BY <1>1, NoTail DEF Stages, BeforeClinit, ClinitMade
<1> QED BY <1>2, <1>3, <1>5, <1>6 DEF Sound

(* Every step of the generator keeps what the analysis and the filling of  *)
(* the pool have established.                                              *)
LEMMA GenerationKeeps ==
  ASSUME Sound, MapsKept, errors' = errors, consts' = consts, context' = context, Keeps(pool, pool'),
         stage \in WithPool \ {"field refs", "method refs"},
         stage' \in (WithPool \cup {"refused", "running"}) \ {"field refs", "method refs", "head"},
         stage' \in MethodsFilled => stage \in MethodsFilled
  PROVE  AnalysisOK' /\ ContextOK'
<1>1. AnalysisOK'
  BY AnalysisKept DEF Sound, Generating, WithPool
<1>2. ContextOK'
  BY ContextKept DEF Sound, MapsKept, WithPool
<1> QED BY <1>1, <1>2

LEMMA GenerateHeadSound == IInv /\ Sound /\ GenerateHead => Sound'
<1> SUFFICES ASSUME IInv, Sound, GenerateHead PROVE Sound'
  OBVIOUS
<1>1. /\ stage = "head" /\ stage' \in {"constructor", "field infos"}
      /\ MapsKept /\ errors' = errors /\ consts' = consts /\ context' = context /\ clinit' = clinit
  BY DEF GenerateHead, analysis, MapsKept
<1>2. Keeps(pool, pool')
  BY <1>1, GenerateHeadPool, GrownKeepsAll DEF IInv, WithPool
<1>3. AnalysisOK' /\ ContextOK'
  BY <1>1, <1>2, GenerationKeeps DEF WithPool, MethodsFilled
<1>4. clinit' = <<>> /\ stage' # "initialisers"
  BY <1>1 DEF Sound, ClinitOK, ClinitMade
<1>5. ClinitOK'
  BY <1>4, EmptyClinit
<1> QED BY <1>3, <1>5, HeadFile DEF Sound

LEMMA GenerateFieldSound == IInv /\ Sound /\ GenerateField => Sound'
<1> SUFFICES ASSUME IInv, Sound, GenerateField PROVE Sound'
  OBVIOUS
<1>1. /\ stage = "field infos" /\ stage' \in {"constructor", "field infos"}
      /\ MapsKept /\ errors' = errors /\ consts' = consts /\ context' = context /\ clinit' = clinit
  BY DEF GenerateField, Continue, analysis, MapsKept
<1>2. Keeps(pool, pool')
  BY <1>1, GenerateFieldPool, GrownKeepsAll DEF IInv, WithPool
<1>3. AnalysisOK' /\ ContextOK'
  BY <1>1, <1>2, GenerationKeeps DEF WithPool, MethodsFilled
<1>4. clinit' = <<>> /\ stage' # "initialisers"
  BY <1>1 DEF Sound, ClinitOK, ClinitMade
<1>5. ClinitOK'
  BY <1>4, EmptyClinit
<1> QED BY <1>3, <1>5, FieldFile DEF Sound

LEMMA GenerateConstructorSound == IInv /\ Sound /\ GenerateConstructor => Sound'
<1> SUFFICES ASSUME IInv, Sound, GenerateConstructor PROVE Sound'
  OBVIOUS
<1>1. /\ stage = "constructor" /\ stage' \in {"initialisers", "bodies"}
      /\ MapsKept /\ errors' = errors /\ consts' = consts /\ context' = context
  BY DEF GenerateConstructor, analysis, MapsKept
<1>2. Keeps(pool, pool')
  BY <1>1, GenerateConstructorPool, GrownKeepsAll DEF IInv, WithPool
<1>3. AnalysisOK' /\ ContextOK'
  BY <1>1, <1>2, GenerationKeeps DEF WithPool, MethodsFilled
<1> QED BY <1>3, ConstructorClinit, ConstructorFile DEF Sound

LEMMA GenerateInitialiserSound == IInv /\ Sound /\ GenerateInitialiser => Sound'
<1> SUFFICES ASSUME IInv, Sound, GenerateInitialiser PROVE Sound'
  OBVIOUS
<1>1. /\ stage = "initialisers" /\ stage' \in {"initialisers", "clinit"}
      /\ MapsKept /\ errors' = errors /\ consts' = consts /\ context' = context
  BY DEF GenerateInitialiser, Continue, analysis, MapsKept
<1>2. Keeps(pool, pool')
  BY InitialiserMade DEF Sound
<1>3. AnalysisOK' /\ ContextOK'
  BY <1>1, <1>2, GenerationKeeps DEF WithPool, MethodsFilled
<1> QED BY <1>2, <1>3, InitialiserClinit, InitialiserFile DEF Sound

LEMMA GenerateClinitSound == IInv /\ Sound /\ GenerateClinit => Sound'
<1> SUFFICES ASSUME IInv, Sound, GenerateClinit PROVE Sound'
  OBVIOUS
<1>1. /\ stage = "clinit" /\ stage' = "bodies"
      /\ MapsKept /\ errors' = errors /\ consts' = consts /\ context' = context /\ clinit' = clinit
  BY DEF GenerateClinit, analysis, MapsKept
<1>2. Keeps(pool, pool')
  BY <1>1, GenerateClinitPool, GrownKeepsAll DEF IInv, WithPool
<1>3. AnalysisOK' /\ ContextOK'
  BY <1>1, <1>2, GenerationKeeps DEF WithPool, MethodsFilled
<1>4. ClinitOK'
  BY <1>1, <1>2, ClinitKept DEF Sound, ClinitMade
<1> QED BY <1>3, <1>4, ClinitFile DEF Sound

LEMMA GenerateMethodSound == IInv /\ Sound /\ GenerateMethod => Sound'
<1> SUFFICES ASSUME IInv, Sound, GenerateMethod PROVE Sound'
  OBVIOUS
<1>1. /\ stage = "bodies" /\ stage' \in {"bodies", "write"}
      /\ MapsKept /\ errors' = errors /\ consts' = consts /\ context' = context /\ clinit' = clinit
  BY DEF GenerateMethod, Continue, analysis, MapsKept
<1>2. Keeps(pool, pool')
  BY <1>1, GenerateMethodPool, GrownKeepsAll DEF IInv, WithPool
<1>3. AnalysisOK' /\ ContextOK'
  BY <1>1, <1>2, GenerationKeeps DEF WithPool, MethodsFilled
<1>4. ClinitOK'
  BY <1>1, <1>2, ClinitKept DEF Sound, ClinitMade
<1> QED BY <1>3, <1>4, MethodFile DEF Sound

LEMMA WriteSound == IInv /\ Sound /\ WriteClassFile => Sound'
<1> SUFFICES ASSUME IInv, Sound, WriteClassFile PROVE Sound'
  OBVIOUS
<1>1. /\ stage = "write" /\ stage' = "written"
      /\ MapsKept /\ errors' = errors /\ consts' = consts /\ context' = context /\ clinit' = clinit
      /\ pool' = pool
  BY DEF WriteClassFile, analysis, MapsKept
<1>2. Keeps(pool, pool')
  BY <1>1 DEF Keeps
<1>3. AnalysisOK' /\ ContextOK'
  BY <1>1, <1>2, GenerationKeeps DEF WithPool, MethodsFilled
<1>4. ClinitOK'
  BY <1>1, <1>2, ClinitKept DEF Sound, ClinitMade
<1> QED BY <1>3, <1>4, WriteFile DEF Sound


(* Loading and running change no part of the class file.                   *)
LEMMA ExecutionSound ==
  ASSUME Sound, UNCHANGED <<package, analysis, output>>, stage \in {"written", "running"},
         stage' = stage \/ (stage = "written" /\ stage' \in {"refused", "running"})
  PROVE  Sound'
<1>1. /\ MapsKept /\ errors' = errors /\ consts' = consts /\ context' = context /\ clinit' = clinit
      /\ pool' = pool /\ file' = file
  BY DEF analysis, output, MapsKept
<1>2. Keeps(pool, pool')
  BY <1>1 DEF Keeps
<1>3. AnalysisOK'
  BY <1>1, AnalysisKept DEF Sound, Generating, WithPool
<1>4. ContextOK'
  BY <1>1, <1>2, ContextKept DEF Sound, MapsKept, WithPool, MethodsFilled
<1>5. ClinitOK'
  BY <1>1, <1>2, ClinitKept DEF Sound, ClinitMade
<1>6. FileOK'
  BY <1>1, FileKept DEF Sound
<1> QED BY <1>3, <1>4, <1>5, <1>6 DEF Sound

LEMMA StutterSound == Sound /\ UNCHANGED vars => Sound'
<1> SUFFICES ASSUME Sound, UNCHANGED vars PROVE Sound'
  OBVIOUS
<1>1. /\ MapsKept /\ errors' = errors /\ consts' = consts /\ context' = context /\ clinit' = clinit
      /\ pool' = pool /\ file' = file /\ stage' = stage /\ next' = next /\ scope' = scope
  BY DEF vars, classVars, analysis, output, MapsKept
<1>2. /\ Ids(fields)' = Ids(fields) /\ Ids(methods)' = Ids(methods) /\ DOMAIN fields' = DOMAIN fields
      /\ InitialisedBefore(next)' = InitialisedBefore(next)
      /\ \A i \in DOMAIN fields : ReadsKnown(i)' = ReadsKnown(i)
  BY <1>1 DEF MapsKept, Ids, InitialisedBefore, ReadsKnown
<1>3. AnalysisOK'
  <2>1. AnalysisOK
    BY DEF Sound
  <2> QED BY <1>1, <1>2, <2>1 DEF AnalysisOK, MapsKept
<1>4. ContextOK'
  BY <1>1 DEF Sound, ContextOK, MapsKept
<1>5. ClinitOK'
  BY <1>1 DEF Sound, ClinitOK, Covered, MapsKept
<1>6. FileOK'
  BY <1>1, FileKept DEF Sound
<1> QED BY <1>3, <1>4, <1>5, <1>6 DEF Sound

LEMMA CompileSound == IInv /\ Sound /\ IInv' /\ Compile => Sound'
BY AnalysisSound, FillSound, GenerateHeadSound, GenerateFieldSound, GenerateConstructorSound,
   GenerateInitialiserSound, GenerateClinitSound, GenerateMethodSound, WriteSound DEF Compile

(* The machine waits for the compiler.                                     *)
LEMMA CompileMachine == MachineOK /\ Compile /\ UNCHANGED machine => MachineOK'
<1> SUFFICES ASSUME MachineOK, Compile, UNCHANGED machine PROVE MachineOK'
  OBVIOUS
<1>1. stage # "running" /\ stage' # "running"
  BY DEF Compile, AnalyzePackageScope, AddMethod, AddField, AnalyzeField, AnalyzeMethod, FillHead, FillField,
         FillMethod, GenerateHead, GenerateField, GenerateConstructor, GenerateInitialiser, GenerateClinit,
         GenerateMethod, WriteClassFile, Continue
<1> QED BY <1>1 DEF MachineOK, machine

LEMMA StutterMachine == MachineOK /\ UNCHANGED vars => MachineOK'
<1> SUFFICES ASSUME MachineOK, UNCHANGED vars PROVE MachineOK'
  OBVIOUS
<1>1. /\ stage' = stage /\ frames' = frames /\ written' = written /\ statics' = statics
      /\ JVM
  BY DEF vars, classVars, machine, JVM, output
<1>2. CASE stage = "running"
  <2>1. RunOK
    BY <1>2 DEF MachineOK
  <2>2. RunOK'
    BY <1>1, <2>1, RunStays DEF RunOK
  <2> QED BY <1>1, <1>2, <2>2 DEF MachineOK
<1>3. CASE stage # "running"
  BY <1>1, <1>3 DEF MachineOK
<1> QED BY <1>2, <1>3

AllOK == IInv /\ Sound /\ MachineOK

LEMMA StartAll == Start => AllOK
<1> SUFFICES ASSUME Start PROVE AllOK
  OBVIOUS
<1>1. IInv /\ AnalysisOK
  BY StartIInv, StartAnalysis
<1>2. /\ stage = "scope" /\ context = <<>> /\ clinit = <<>> /\ frames = <<>> /\ written = <<>>
  BY DEF Start, Init
<1>3. ContextOK
  BY <1>2, EmptyMap DEF ContextOK, MethodsFilled
<1>4. ClinitOK
  BY <1>2, EmptyMap DEF ClinitOK, Covered
<1>5. FileOK
  BY <1>2 DEF FileOK, BeforeClinit, ClinitMade
<1>6. MachineOK
  BY <1>2 DEF MachineOK
<1> QED BY <1>1, <1>3, <1>4, <1>5, <1>6 DEF AllOK, Sound

LEMMA StepAll == AllOK /\ [Step]_vars => AllOK'
<1> SUFFICES ASSUME AllOK, [Step]_vars PROVE AllOK'
  OBVIOUS
<1>1. IInv /\ IInv' /\ Sound /\ MachineOK /\ Machinery
  BY StepIInv DEF AllOK, Sound, Machinery
<1>2. CASE Compile /\ UNCHANGED machine
  BY <1>1, <1>2, CompileSound, CompileMachine DEF AllOK
<1>3. CASE Load
  <2>1. /\ UNCHANGED <<package, analysis, output>> /\ stage = "written" /\ stage' \in {"refused", "running"}
    BY <1>3 DEF Load
  <2>2. Sound'
    BY <1>1, <2>1, ExecutionSound
  <2> QED BY <1>1, <1>3, <2>2, LoadMachine DEF AllOK
<1>4. CASE Push \/ GetStatic \/ PutStatic \/ Add \/ Invoke \/ ReturnValue \/ Return
  <2>1. /\ UNCHANGED <<package, analysis, output>> /\ stage = "running" /\ stage' = stage
    BY <1>4 DEF Push, GetStatic, PutStatic, Add, Invoke, ReturnValue, Return, JVM, Operation
  <2>2. Sound'
    BY <1>1, <2>1, ExecutionSound
  <2>3. Step
    BY <1>4 DEF Step
  <2> QED BY <1>1, <2>1, <2>2, <2>3, StepRuns DEF AllOK
<1>5. CASE UNCHANGED vars
  BY <1>1, <1>5, StutterSound, StutterMachine DEF AllOK
<1> QED BY <1>2, <1>3, <1>4, <1>5 DEF Step

LEMMA AllHolds == Spec => []AllOK
<1>1. Start => AllOK
  BY StartAll
<1>2. AllOK /\ [Step]_vars => AllOK'
  BY StepAll
<1> QED BY <1>1, <1>2, PTL DEF Spec


-----------------------------------------------------------------------------
LEMMA TypesHold == AllOK => TypeOK
<1> SUFFICES ASSUME AllOK PROVE TypeOK
  OBVIOUS
<1>1. /\ stage \in Stages /\ next \in DOMAIN Iterated
      /\ \A x \in DOMAIN context : context[x] \in DOMAIN pool
      /\ errors \subseteq {"no main", "main has a result", "redeclared", "type or name",
                           "initialiser", "type of result"}
      /\ consts \subseteq Ids(fields)
  BY DEF AllOK, IInv, Sound, AnalysisOK, ContextOK
<1>2. Ids(fields) = {f.id : f \in ToSet(fields)}
  BY DEF Ids, ToSet
<1>3. ToSet(written) \subseteq DOMAIN statics
  <2>1. CASE stage = "running"
    BY <2>1 DEF AllOK, MachineOK, RunOK
  <2>2. CASE stage # "running"
    <3>1. written = <<>>
      BY <2>2 DEF AllOK, MachineOK
    <3>2. \A w : w = <<>> => ToSet(w) = {}
      BY EmptyMap DEF ToSet
    <3> QED BY <3>1, <3>2
  <2> QED BY <2>1, <2>2
<1> QED BY <1>1, <1>2, <1>3 DEF TypeOK

(* For every package, the compilation and the run of its class keep the    *)
(* maps, the contexts and the machine within their types: what the context *)
(* of the generator names is in the pool, and only fields of the loaded    *)
(* class are written.                                                      *)
THEOREM PackageTypeOK == Spec => []TypeOK
<1>1. AllOK => TypeOK
  BY TypesHold
<1> QED BY <1>1, AllHolds, PTL

LEMMA ReadsFollow == AllOK => WrittenBeforeRead
<1> SUFFICES ASSUME AllOK, Operation({"getstatic"}), Len(frames) = 1
             PROVE  NameAt(Instruction[2]) \in ToSet(written)
  BY DEF WrittenBeforeRead
<1>1. /\ FileOK /\ ClinitOK /\ stage = "running" /\ RunOK /\ frames # <<>>
      /\ At(Top) = "getstatic" /\ Instruction[1] = "getstatic" /\ Instructs(Instruction)
  <2>1. Machinery
    BY DEF AllOK, Sound, Machinery
  <2>2. At(Top) \in {"getstatic"} /\ Instruction[1] = At(Top)
    BY <2>1, Runs
  <2> QED BY <2>1, <2>2, Runs
<1>2. PICK k : k = frames[1].pc
  OBVIOUS
<1>3. Top = frames[1] /\ Top.code = InitialiserCode /\ k \in DOMAIN InitialiserCode /\ Instruction = InitialiserCode[k]
  BY <1>1, <1>2, TopIs DEF Instruction
<1>4. k \in DOMAIN clinit /\ Instruction = clinit[k]
  BY <1>1, <1>3, InitialiserIs
<1>5. PICK n : n = Instruction[2]
  OBVIOUS
<1>6. IsMethod(pool, n) \/ \E j \in DOMAIN clinit : j < k /\ PutsAt(clinit, j, n)
  BY <1>1, <1>4, <1>5 DEF ClinitOK, Covered
<1>7. CASE IsMethod(pool, n)
  <2>1. n \in DOMAIN pool /\ pool[n].type = "MethodRef"
    BY <1>7 DEF IsMethod
  <2>2. file.constants[n].type = "FieldRef"
    BY <1>1, <1>5 DEF Instructs, IsRef, Tagged
  <2>3. file.constants = [i \in DOMAIN pool |-> ToBytes(pool[i])]
    BY <1>1 DEF FileOK
  <2>4. file.constants[n].type = "MethodRef"
    BY <2>1, <2>3 DEF ToBytes
  <2> QED BY <2>2, <2>4
<1>8. CASE \E j \in DOMAIN clinit : j < k /\ PutsAt(clinit, j, n)
  <2>1. PICK j \in DOMAIN clinit : j < k /\ PutsAt(clinit, j, n)
    BY <1>8
  <2>2. j \in DOMAIN InitialiserCode /\ InitialiserCode[j] = clinit[j]
    <3>1. PICK S : clinit \in Seq(S)
      BY <1>1 DEF ClinitOK, IsSequence
    <3>2. PICK i : i = <<"return", 0>>
      OBVIOUS
    <3>3. InitialiserCode = Append(clinit, i)
      BY <3>2 DEF InitialiserCode
    <3> QED BY <2>1, <3>1, <3>3
  <2>3. PICK i : i = clinit[j]
    OBVIOUS
  <2>4. i = <<"putstatic", n>>
    BY <2>1, <2>3 DEF PutsAt
  <2>5. i[1] = "putstatic" /\ i[2] = n
    BY <2>4
  <2>6. BaseOK(frames, written)
    BY <1>1 DEF RunOK
  <2>7. NameAt(n) \in ToSet(written)
    BY <1>1, <1>2, <2>1, <2>2, <2>3, <2>5, <2>6 DEF BaseOK
  <2> QED BY <1>5, <2>7
<1> QED BY <1>6, <1>7, <1>8

(* Whatever the order of the map, the static initialiser of every package  *)
(* that is accepted reads a field only after it has written it.            *)
THEOREM InitialiserWrittenBeforeRead == Spec => []WrittenBeforeRead
<1>1. AllOK => WrittenBeforeRead
  BY ReadsFollow
<1> QED BY <1>1, AllHolds, PTL
=============================================================================
