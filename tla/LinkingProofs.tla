----------------------------- MODULE LinkingProofs -----------------------------
(***************************************************************************)
(* CompiledPackage writes a class file that links for a legal package:     *)
(* proofs.  Up to the rules of Go that the compiler does not check, every  *)
(* reference that the generator hands out while it makes the tail of the   *)
(* class file is one to a member that the tail declares, once, or to the   *)
(* run-time library, and still is when the pool is written in front.       *)
(***************************************************************************)
EXTENDS AnalysisProofs

-----------------------------------------------------------------------------
(* The pool grows and what an index leads to stays.                        *)

LEMMA KeptWhenGrown ==
  ASSUME NEW p, NEW q, P!Good(p), Grown(p, q)
  PROVE  /\ \A i, s : P!IsUtf8(p, i, s) => P!IsUtf8(q, i, s)
         /\ \A i, k, s : P!IsText(p, i, k, s) => P!IsText(q, i, k, s)
         /\ \A i, k, c, n, t : P!IsRef(p, i, k, c, n, t) => P!IsRef(q, i, k, c, n, t)
<1>1. P!Good(q) /\ P!Grows(p, q)
  BY DEF Grown
<1>2. /\ \A i, s : P!IsUtf8(p, i, s) => P!IsUtf8(q, i, s)
      /\ \A i, k, s : P!IsText(p, i, k, s) => P!IsText(q, i, k, s)
      /\ \A i, n, t : P!IsNaT(p, i, n, t) => P!IsNaT(q, i, n, t)
  BY <1>1, P!Kept
<1>3. 1 .. Len(p) \subseteq 1 .. Len(q) /\ \A i \in 1 .. Len(p) : q[i] = p[i]
  BY <1>1 DEF P!Good, P!Grows
<1> QED BY <1>2, <1>3 DEF P!IsRef

(* The references to the members of the class, one per entry of a map that *)
(* the loop over it has passed.                                            *)
FieldNamed(p, c, f) ==
  f.id \in DOMAIN c /\ P!IsRef(p, c[f.id], "FieldRef", ThisClass, f.id, Descriptor(f.type))

MethodNamed(p, c, m) ==
  m.id # "_" =>
    m.id \in DOMAIN c /\ P!IsRef(p, c[m.id], "MethodRef", ThisClass, m.id, MethodDescriptor(m))

FieldsNamedTo(p, c, fs, n)  == \A i \in DOMAIN fs : i < n => FieldNamed(p, c, fs[i])
MethodsNamedTo(p, c, ms, n) == \A i \in DOMAIN ms : i < n => MethodNamed(p, c, ms[i])

LEMMA NamedGrow ==
  ASSUME NEW p, NEW q, P!Good(p), Grown(p, q), NEW c, NEW map, NEW n
  PROVE  /\ FieldsNamedTo(p, c, map, n) => FieldsNamedTo(q, c, map, n)
         /\ MethodsNamedTo(p, c, map, n) => MethodsNamedTo(q, c, map, n)
<1>1. \A i, k, d, m, t : P!IsRef(p, i, k, d, m, t) => P!IsRef(q, i, k, d, m, t)
  BY KeptWhenGrown
<1> QED BY <1>1 DEF FieldsNamedTo, MethodsNamedTo, FieldNamed, MethodNamed

LEMMA Passed == ASSUME NEW n \in Nat, NEW i \in Nat, i < n + 1 PROVE i < n \/ i = n
  OBVIOUS

(* One more name is bound: the others keep their references.               *)
LEMMA FieldBound ==
  ASSUME NEW p, NEW q, P!Good(p), Grown(p, q), NEW c, NEW fs, Distinct(fs), NEW n \in DOMAIN fs, n \in Nat,
         DOMAIN fs \subseteq Nat, FieldsNamedTo(p, c, fs, n), fs[n].id # "_", NEW r,
         P!IsRef(q, r, "FieldRef", ThisClass, fs[n].id, Descriptor(fs[n].type)),
         NEW d, d = Bind(c, fs[n].id, r)
  PROVE  FieldsNamedTo(q, d, fs, n + 1)
<1>1. SUFFICES ASSUME NEW i \in DOMAIN fs, i < n + 1 PROVE FieldNamed(q, d, fs[i])
  BY DEF FieldsNamedTo
<1>2. fs[n].id \in DOMAIN d /\ d[fs[n].id] = r /\ \A x \in DOMAIN c : x # fs[n].id => x \in DOMAIN d /\ d[x] = c[x]
  BY DEF Bind
<1>3. CASE i = n
  BY <1>2, <1>3 DEF FieldNamed
<1>4. CASE i # n
  <2>1. i < n
    BY ONLY <1>1, <1>4, i \in Nat, n \in Nat, Passed
  <2>2. FieldNamed(q, c, fs[i])
    BY <2>1, NamedGrow DEF FieldsNamedTo
  <2>3. fs[i].id # fs[n].id
    BY <1>4 DEF Distinct
  <2> QED BY <1>2, <2>2, <2>3 DEF FieldNamed
<1> QED BY <1>3, <1>4

LEMMA MethodBound ==
  ASSUME NEW p, NEW q, P!Good(p), Grown(p, q), NEW c, NEW ms, Distinct(ms), NEW n \in DOMAIN ms, n \in Nat,
         DOMAIN ms \subseteq Nat, MethodsNamedTo(p, c, ms, n), NEW r,
         P!IsRef(q, r, "MethodRef", ThisClass, ms[n].id, MethodDescriptor(ms[n])),
         NEW d, d = Bind(c, ms[n].id, r)
  PROVE  MethodsNamedTo(q, d, ms, n + 1)
<1>1. SUFFICES ASSUME NEW i \in DOMAIN ms, i < n + 1, ms[i].id # "_"
               PROVE  ms[i].id \in DOMAIN d /\ P!IsRef(q, d[ms[i].id], "MethodRef", ThisClass, ms[i].id, MethodDescriptor(ms[i]))
  BY DEF MethodsNamedTo, MethodNamed
<1>2. CASE i = n
  <2>1. ms[n].id \in DOMAIN d /\ d[ms[n].id] = r
    BY <1>1, <1>2 DEF Bind
  <2> QED BY <1>2, <2>1
<1>3. CASE i # n
  <2>1. i < n
    BY ONLY <1>1, <1>3, i \in Nat, n \in Nat, Passed
  <2>2. MethodNamed(q, c, ms[i])
    BY <2>1, NamedGrow DEF MethodsNamedTo
  <2>3. ms[i].id # ms[n].id
    BY <1>3 DEF Distinct
  <2>4. ms[i].id \in DOMAIN c => ms[i].id \in DOMAIN d /\ d[ms[i].id] = c[ms[i].id]
    BY <2>3 DEF Bind
  <2> QED BY <1>1, <2>2, <2>4 DEF MethodNamed
<1> QED BY <1>2, <1>3

(* Binding a method leaves the fields, which have other names.             *)
LEMMA FieldsUnbound ==
  ASSUME NEW p, NEW c, NEW fs, NEW n, FieldsNamedTo(p, c, fs, n), NEW x, \A i \in DOMAIN fs : fs[i].id # x,
         NEW r, NEW d, d = Bind(c, x, r)
  PROVE  FieldsNamedTo(p, d, fs, n)
<1>1. SUFFICES ASSUME NEW i \in DOMAIN fs, i < n PROVE FieldNamed(p, d, fs[i])
  BY DEF FieldsNamedTo
<1>2. FieldNamed(p, c, fs[i]) /\ fs[i].id # x
  BY <1>1 DEF FieldsNamedTo
<1>3. fs[i].id \in DOMAIN c => fs[i].id \in DOMAIN d /\ d[fs[i].id] = c[fs[i].id]
  BY <1>2 DEF Bind
<1> QED BY <1>2, <1>3 DEF FieldNamed

-----------------------------------------------------------------------------
(* The members that the tail of the class file declares.                   *)

FieldMember(f)  == [name |-> f.id, descriptor |-> Descriptor(f.type)]
MethodMember(m) == [name |-> m.id, descriptor |-> MethodDescriptor(m)]
OwnMember(name) == [name |-> name, descriptor |-> "()V"]

FieldMembersTo(fs, n)  == {FieldMember(fs[i]) : i \in {j \in DOMAIN fs : j < n}}
MethodMembersTo(ms, n) == {MethodMember(ms[i]) : i \in {j \in DOMAIN ms : j < n}}

(* Entries of a table and members stand for each other, and no two entries *)
(* have the same name.                                                     *)
Describes(p, info, m) == P!IsUtf8(p, info.name, m.name) /\ P!IsUtf8(p, info.descriptor, m.descriptor)
Described(p, infos, m) == \E k \in DOMAIN infos : Describes(p, infos[k], m)
NamesDiffer(p, infos) ==
  \A k \in DOMAIN infos : \A l \in DOMAIN infos : k # l => p[infos[k].name].lit # p[infos[l].name].lit

Lists(p, infos, members) ==
  /\ IsSequence(infos)
  /\ \A k \in DOMAIN infos : \E m \in members : Describes(p, infos[k], m)
  /\ \A m \in members : Described(p, infos, m)
  /\ NamesDiffer(p, infos)

CodesLinked(p, infos, refs, calls) ==
  \A k \in DOMAIN infos :
    P!IsUtf8(p, infos[k].attribute, "Code") /\ AllLinked(p, infos[k].code, refs, calls)

LEMMA Utf8Is ==
  ASSUME NEW p, NEW i, NEW s, P!IsUtf8(p, i, s)
  PROVE  i \in 1 .. Len(p) /\ p[i].type = "Utf8" /\ p[i].lit = s
BY DEF P!IsUtf8, P!Utf8, P!Entry

LEMMA ListsGrow ==
  ASSUME NEW p, NEW q, P!Good(p), Grown(p, q), NEW infos, NEW members, Lists(p, infos, members)
  PROVE  Lists(q, infos, members)
<1>1. \A info, m : Describes(p, info, m) => Describes(q, info, m)
  BY KeptWhenGrown DEF Describes
<1>2. \A k \in DOMAIN infos : q[infos[k].name] = p[infos[k].name]
  <2>1. SUFFICES ASSUME NEW k \in DOMAIN infos PROVE q[infos[k].name] = p[infos[k].name]
    OBVIOUS
  <2>2. PICK m \in members : Describes(p, infos[k], m)
    BY DEF Lists
  <2>3. infos[k].name \in 1 .. Len(p)
    BY <2>2, Utf8Is DEF Describes
  <2> QED BY <2>3 DEF Grown, P!Grows
<1>3. NamesDiffer(q, infos)
  BY <1>2 DEF Lists, NamesDiffer
<1> QED BY <1>1, <1>3 DEF Lists, Described

LEMMA NothingListed ==
  ASSUME NEW p, NEW map
  PROVE  Lists(p, <<>>, {})
BY EmptyMap DEF Lists, NamesDiffer

(* Append, seen entry by entry.                                            *)
LEMMA Appended ==
  ASSUME NEW s, IsSequence(s), NEW x, NEW r, r = Append(s, x)
  PROVE  /\ IsSequence(r)
         /\ \A k \in DOMAIN s : k \in DOMAIN r /\ r[k] = s[k]
         /\ \E n \in DOMAIN r : n \notin DOMAIN s /\ r[n] = x /\ \A k \in DOMAIN r : k \in DOMAIN s \/ k = n
<1>1. PICK S : s \in Seq(S)
  BY DEF IsSequence
<1>2. s \in Seq(S \cup {x}) /\ Len(s) \in Nat /\ DOMAIN s = 1 .. Len(s)
  BY <1>1
<1>3. r \in Seq(S \cup {x}) /\ DOMAIN r = 1 .. Len(s) + 1 /\ r[Len(s) + 1] = x /\ \A k \in 1 .. Len(s) : r[k] = s[k]
  BY <1>2
<1>4. Len(s) + 1 \in 1 .. Len(s) + 1 /\ Len(s) + 1 \notin 1 .. Len(s)
      /\ \A k \in 1 .. Len(s) + 1 : k \in 1 .. Len(s) \/ k = Len(s) + 1
  BY <1>2
<1>5. 1 .. Len(s) \subseteq 1 .. Len(s) + 1
  BY <1>2
<1> QED BY <1>2, <1>3, <1>4, <1>5 DEF IsSequence

LEMMA OneMoreListed ==
  ASSUME NEW p, NEW q, P!Good(p), Grown(p, q), NEW infos, NEW members, Lists(p, infos, members),
         NEW info, NEW m, Describes(q, info, m), \A x \in members : x.name # m.name,
         NEW r, r = Append(infos, info)
  PROVE  Lists(q, r, members \cup {m})
<1>1. Lists(q, infos, members)
  BY ListsGrow
<1> IsSequence(infos)
  BY DEF Lists
<1>2. IsSequence(r) /\ \A k \in DOMAIN infos : k \in DOMAIN r /\ r[k] = infos[k]
  BY Appended
<1>3. PICK n \in DOMAIN r : n \notin DOMAIN infos /\ r[n] = info /\ \A k \in DOMAIN r : k \in DOMAIN infos \/ k = n
  BY Appended
<1>4. \A k \in DOMAIN r : \E x \in members \cup {m} : Describes(q, r[k], x)
  BY <1>1, <1>2, <1>3 DEF Lists
<1>5. \A x \in members \cup {m} : Described(q, r, x)
  BY <1>1, <1>2, <1>3 DEF Lists, Described
<1>6. \A k \in DOMAIN infos : q[infos[k].name].lit # q[info.name].lit
  <2>1. SUFFICES ASSUME NEW k \in DOMAIN infos PROVE q[infos[k].name].lit # q[info.name].lit
    OBVIOUS
  <2>2. PICK x \in members : Describes(q, infos[k], x)
    BY <1>1 DEF Lists
  <2>3. q[infos[k].name].lit = x.name /\ q[info.name].lit = m.name
    BY <2>2, Utf8Is DEF Describes
  <2> QED BY <2>3
<1>7. NamesDiffer(q, r)
  <2>1. NamesDiffer(q, infos)
    BY <1>1 DEF Lists
  <2> QED BY <1>2, <1>3, <1>6, <2>1 DEF NamesDiffer
<1> QED BY <1>2, <1>4, <1>5, <1>7 DEF Lists

LEMMA CodesGrow ==
  ASSUME NEW p, NEW q, P!Good(p), Grown(p, q), NEW infos, NEW refs, NEW calls, CodesLinked(p, infos, refs, calls)
  PROVE  CodesLinked(q, infos, refs, calls)
<1>1. SUFFICES ASSUME NEW k \in DOMAIN infos
               PROVE  P!IsUtf8(q, infos[k].attribute, "Code") /\ AllLinked(q, infos[k].code, refs, calls)
  BY DEF CodesLinked
<1>2. P!IsUtf8(p, infos[k].attribute, "Code") /\ AllLinked(p, infos[k].code, refs, calls)
  BY DEF CodesLinked
<1>3. P!IsUtf8(q, infos[k].attribute, "Code")
  BY <1>2, KeptWhenGrown
<1>4. AllLinked(q, infos[k].code, refs, calls)
  BY <1>2, AllLinkedGrows
<1> QED BY <1>3, <1>4

LEMMA CodesAppend ==
  ASSUME NEW q, NEW infos, IsSequence(infos), NEW refs, NEW calls, CodesLinked(q, infos, refs, calls),
         NEW info, P!IsUtf8(q, info.attribute, "Code"), AllLinked(q, info.code, refs, calls),
         NEW r, r = Append(infos, info)
  PROVE  CodesLinked(q, r, refs, calls)
<1>1. \A k \in DOMAIN infos : k \in DOMAIN r /\ r[k] = infos[k]
  BY Appended
<1>2. PICK n \in DOMAIN r : r[n] = info /\ \A k \in DOMAIN r : k \in DOMAIN infos \/ k = n
  BY Appended
<1> QED BY <1>1, <1>2 DEF CodesLinked

(* The tail of the class file, with the code that the static initialiser   *)
(* has so far: what it declares, and that what it refers to is there.      *)
ClassTail(p, f, code, refs, calls, fms, mms) ==
  /\ P!IsText(p, f.this, "Class", ThisClass) /\ P!IsText(p, f.super, "Class", Object)
  /\ Lists(p, f.fields, fms) /\ Lists(p, f.methods, mms)
  /\ CodesLinked(p, f.methods, refs, calls)
  /\ AllLinked(p, code, refs, calls)

WithField(f, info) == [f EXCEPT !.fields = Append(@, info)]

LEMMA WithMemberIs ==
  ASSUME NEW f, NEW info, DOMAIN f = TailKeys
  PROVE  /\ WithField(f, info).fields = Append(f.fields, info) /\ WithField(f, info).methods = f.methods
         /\ WithField(f, info).this = f.this /\ WithField(f, info).super = f.super
         /\ WithMethod(f, info).methods = Append(f.methods, info) /\ WithMethod(f, info).fields = f.fields
         /\ WithMethod(f, info).this = f.this /\ WithMethod(f, info).super = f.super
BY DEF WithField, WithMethod, TailKeys

LEMMA TailGrows ==
  ASSUME NEW p, NEW q, P!Good(p), Grown(p, q), NEW f, NEW code, NEW refs, NEW calls, NEW fms, NEW mms,
         ClassTail(p, f, code, refs, calls, fms, mms)
  PROVE  ClassTail(q, f, code, refs, calls, fms, mms)
<1>1. P!IsText(q, f.this, "Class", ThisClass) /\ P!IsText(q, f.super, "Class", Object)
  BY KeptWhenGrown DEF ClassTail
<1>2. Lists(p, f.fields, fms) /\ Lists(p, f.methods, mms) /\ CodesLinked(p, f.methods, refs, calls)
      /\ AllLinked(p, code, refs, calls)
  BY DEF ClassTail
<1>3. Lists(q, f.fields, fms) /\ Lists(q, f.methods, mms)
  BY <1>2, ListsGrow
<1>4. CodesLinked(q, f.methods, refs, calls)
  BY <1>2, CodesGrow
<1>5. AllLinked(q, code, refs, calls)
  BY <1>2, AllLinkedGrows
<1> QED BY <1>1, <1>3, <1>4, <1>5 DEF ClassTail

LEMMA TailWithField ==
  ASSUME NEW p, NEW q, P!Good(p), Grown(p, q), NEW f, DOMAIN f = TailKeys,
         NEW code, NEW refs, NEW calls, NEW fms, NEW mms, ClassTail(p, f, code, refs, calls, fms, mms),
         NEW info, NEW m, Describes(q, info, m), \A x \in fms : x.name # m.name,
         NEW g, g = WithField(f, info)
  PROVE  ClassTail(q, g, code, refs, calls, fms \cup {m}, mms)
<1>1. ClassTail(q, f, code, refs, calls, fms, mms)
  BY TailGrows
<1>2. g.fields = Append(f.fields, info) /\ g.methods = f.methods /\ g.this = f.this /\ g.super = f.super
  BY WithMemberIs
<1>3. Lists(p, f.fields, fms)
  BY DEF ClassTail
<1>4. Lists(q, g.fields, fms \cup {m})
  BY <1>2, <1>3, OneMoreListed
<1> QED BY <1>1, <1>2, <1>4 DEF ClassTail

LEMMA TailWithMethod ==
  ASSUME NEW p, NEW q, P!Good(p), NEW f, DOMAIN f = TailKeys,
         NEW code, NEW refs, NEW calls, NEW fms, NEW mms, ClassTail(p, f, code, refs, calls, fms, mms),
         NEW m, NEW own, NEW g, AddsMethod(p, f, m.name, m.descriptor, own, q, g),
         AllLinked(q, own, refs, calls), \A x \in mms : x.name # m.name
  PROVE  ClassTail(q, g, code, refs, calls, fms, mms \cup {m})
<1>1. PICK info : /\ Grown(p, q) /\ g = WithMethod(f, info)
                  /\ P!IsUtf8(q, info.name, m.name) /\ P!IsUtf8(q, info.descriptor, m.descriptor)
                  /\ P!IsUtf8(q, info.attribute, "Code") /\ info.code = own
  BY DEF AddsMethod
<1>2. ClassTail(q, f, code, refs, calls, fms, mms)
  BY <1>1, TailGrows
<1>3. g.methods = Append(f.methods, info) /\ g.fields = f.fields /\ g.this = f.this /\ g.super = f.super
  BY <1>1, WithMemberIs
<1>4. Lists(p, f.methods, mms) /\ CodesLinked(q, f.methods, refs, calls) /\ IsSequence(f.methods)
  BY <1>2 DEF ClassTail, Lists
<1>5. Lists(q, g.methods, mms \cup {m})
  <2>1. Describes(q, info, m)
    BY <1>1 DEF Describes
  <2> QED BY <1>1, <1>3, <1>4, <2>1, OneMoreListed
<1>6. CodesLinked(q, g.methods, refs, calls)
  BY <1>1, <1>3, <1>4, CodesAppend
<1> QED BY <1>2, <1>3, <1>5, <1>6 DEF ClassTail

-----------------------------------------------------------------------------
(* What the indices of the written class file lead to.                     *)

LEMMA BytesLead ==
  ASSUME P!Good(pool), file.constants = [i \in DOMAIN pool |-> ToBytes(pool[i])]
  PROVE  /\ \A i, s : P!IsUtf8(pool, i, s) => IsText(i) /\ Utf8At(i) = s
         /\ \A i, s : P!IsText(pool, i, "Class", s) => IsClass(i) /\ ClassName(i) = s
         /\ \A i, s : P!IsText(pool, i, "String", s) =>
              Tagged(i, "String") /\ IsText(file.constants[i].ids[1])
         /\ \A i, c, n, t : P!IsRef(pool, i, "FieldRef", c, n, t) => IsRef(i, "FieldRef") /\ Member(i) = <<c, n, t>>
         /\ \A i, c, n, t : P!IsRef(pool, i, "MethodRef", c, n, t) => IsRef(i, "MethodRef") /\ Member(i) = <<c, n, t>>
         /\ \A i \in 1 .. Len(pool) : Tagged(i, pool[i].type)
<1>1. DOMAIN pool = 1 .. Len(pool)
  BY DEF P!Good
<1>2. \A i \in 1 .. Len(pool) : i \in DOMAIN file.constants /\ file.constants[i] = ToBytes(pool[i])
  BY <1>1
<1>3. \A c : ToBytes(c).type = c.type /\ ToBytes(c).lit = c.lit
  BY DEF ToBytes
<1>4. \A i \in 1 .. Len(pool) : Tagged(i, pool[i].type)
  BY <1>2, <1>3 DEF Tagged
<1>5. ASSUME NEW i, NEW s, P!IsUtf8(pool, i, s) PROVE IsText(i) /\ Utf8At(i) = s
  <2>1. i \in 1 .. Len(pool) /\ pool[i].type = "Utf8" /\ pool[i].lit = s
    BY <1>5, Utf8Is
  <2> QED BY <1>2, <1>3, <1>4, <2>1 DEF IsText, Utf8At
<1>6. ASSUME NEW i, NEW kind \in {"Class", "String"}, NEW s, P!IsText(pool, i, kind, s)
      PROVE  Tagged(i, kind) /\ IsText(file.constants[i].ids[1]) /\ Utf8At(file.constants[i].ids[1]) = s
  <2>1. PICK u : i \in 1 .. Len(pool) /\ pool[i] = P!Entry(kind, None, u, 0) /\ P!IsUtf8(pool, u, s)
    BY <1>6 DEF P!IsText
  <2>2. pool[i].type = kind /\ pool[i].fst = u
    BY <2>1 DEF P!Entry
  <2>3. ToBytes(pool[i]).ids = <<u>>
    BY <2>2 DEF ToBytes
  <2>4. file.constants[i].ids[1] = u
    BY <1>2, <2>1, <2>3
  <2> QED BY <1>4, <1>5, <2>1, <2>2, <2>4
<1>7. ASSUME NEW i, NEW n, NEW t, P!IsNaT(pool, i, n, t)
      PROVE  /\ IsNameAndType(i)
             /\ Utf8At(file.constants[i].ids[1]) = n /\ Utf8At(file.constants[i].ids[2]) = t
  <2>1. PICK a, b : i \in 1 .. Len(pool) /\ pool[i] = P!NameAndType(a, b) /\ P!IsUtf8(pool, a, n) /\ P!IsUtf8(pool, b, t)
    BY <1>7 DEF P!IsNaT
  <2>2. pool[i].type = "NameAndType" /\ pool[i].fst = a /\ pool[i].snd = b
    BY <2>1 DEF P!NameAndType, P!Entry
  <2>3. ToBytes(pool[i]).ids = <<a, b>>
    BY <2>2 DEF ToBytes
  <2>4. file.constants[i].ids[1] = a /\ file.constants[i].ids[2] = b
    BY <1>2, <2>1, <2>3
  <2>5. \A k \in 1 .. 2 : IsText(file.constants[i].ids[k])
    <3>1. \A k \in 1 .. 2 : k = 1 \/ k = 2
      OBVIOUS
    <3> QED BY <1>5, <2>1, <2>4, <3>1
  <2> QED BY <1>4, <1>5, <2>1, <2>2, <2>4, <2>5 DEF IsNameAndType
<1>8. ASSUME NEW i, NEW kind \in {"FieldRef", "MethodRef"}, NEW c, NEW n, NEW t, P!IsRef(pool, i, kind, c, n, t)
      PROVE  IsRef(i, kind) /\ Member(i) = <<c, n, t>>
  <2>1. PICK a, b : /\ i \in 1 .. Len(pool) /\ pool[i] = P!Entry(kind, None, a, b)
                    /\ P!IsNaT(pool, a, n, t) /\ P!IsText(pool, b, "Class", c)
    BY <1>8 DEF P!IsRef
  <2>2. pool[i].type = kind /\ pool[i].fst = a /\ pool[i].snd = b
    BY <2>1 DEF P!Entry
  <2>3. ToBytes(pool[i]).ids = <<b, a>>
    BY <2>2 DEF ToBytes
  <2>4. file.constants[i].ids[1] = b /\ file.constants[i].ids[2] = a
    BY <1>2, <2>1, <2>3
  <2>5. IsClass(b) /\ ClassName(b) = c
    BY <1>6, <2>1 DEF IsClass, ClassName
  <2> QED BY <1>4, <1>7, <2>1, <2>2, <2>4, <2>5 DEF IsRef, Member
<1> QED BY <1>4, <1>5, <1>6, <1>8 DEF IsClass, ClassName

(* A class file loads when its tail is sound, the members that it refers   *)
(* to are among those that it declares, and its fields have real types.    *)
Referred(p, refs, kind, members) ==
  \A r \in refs : \E m \in members : P!IsRef(p, r, kind, ThisClass, m.name, m.descriptor)

LEMMA InstructionsLead ==
  ASSUME P!Good(pool), file.constants = [i \in DOMAIN pool |-> ToBytes(pool[i])],
         NEW fms, NEW mms, Lists(pool, file.fields, fms), Lists(pool, file.methods, mms),
         NEW refs, NEW calls, Referred(pool, refs, "FieldRef", fms), Referred(pool, calls, "MethodRef", mms),
         NEW i, Linked(pool, i, refs, calls)
  PROVE  Instructs(i)
<1>1. /\ \A n, c, m, t : P!IsRef(pool, n, "FieldRef", c, m, t) => IsRef(n, "FieldRef") /\ Member(n) = <<c, m, t>>
      /\ \A n, c, m, t : P!IsRef(pool, n, "MethodRef", c, m, t) => IsRef(n, "MethodRef") /\ Member(n) = <<c, m, t>>
  BY BytesLead
<1>2. ASSUME NEW infos, NEW members, Lists(pool, infos, members), NEW m \in members
      PROVE  <<ThisClass, m.name, m.descriptor>> \in MembersOf(infos)
  <2>1. PICK k \in DOMAIN infos : Describes(pool, infos[k], m)
    BY <1>2 DEF Lists, Described
  <2>2. Utf8At(infos[k].name) = m.name /\ Utf8At(infos[k].descriptor) = m.descriptor
    BY <2>1, BytesLead DEF Describes
  <2>3. infos[k] \in ToSet(infos)
    BY DEF ToSet
  <2> QED BY <2>2, <2>3 DEF MembersOf
<1>3. CASE i[1] \in {"getstatic", "putstatic"}
  <2>1. PICK m \in fms : P!IsRef(pool, i[2], "FieldRef", ThisClass, m.name, m.descriptor)
    BY <1>3 DEF Linked, Referred
  <2>2. IsRef(i[2], "FieldRef") /\ Member(i[2]) = <<ThisClass, m.name, m.descriptor>>
    BY <1>1, <2>1
  <2>3. Member(i[2]) \in MembersOf(file.fields)
    BY <1>2, <2>2
  <2> QED BY <1>3, <2>2, <2>3 DEF Instructs
<1>4. CASE i[1] = "invokestatic"
  <2>1. PICK m \in mms : P!IsRef(pool, i[2], "MethodRef", ThisClass, m.name, m.descriptor)
    BY <1>4 DEF Linked, Referred
  <2>2. IsRef(i[2], "MethodRef") /\ Member(i[2]) = <<ThisClass, m.name, m.descriptor>>
    BY <1>1, <2>1
  <2>3. Member(i[2]) \in MembersOf(file.methods)
    BY <1>2, <2>2
  <2> QED BY <1>4, <2>2, <2>3 DEF Instructs
<1>5. CASE i[1] \in {"print", "concat", "super init"}
  <2>1. \E c, n, t : <<c, n, t>> \in LibraryMembers /\ P!IsRef(pool, i[2], "MethodRef", c, n, t)
    <3>1. CASE i[1] = "print"
      <4>1. PICK t \in {"Int", "Float", "String"} :
              P!IsRef(pool, i[2], "MethodRef", "$Base", "print", PrintDescriptor(t))
        BY <3>1 DEF Linked
      <4>2. <<"$Base", "print", PrintDescriptor(t)>> \in LibraryMembers
        BY DEF LibraryMembers
      <4> QED BY <4>1, <4>2
    <3>2. CASE i[1] = "concat"
      <4>1. P!IsRef(pool, i[2], "MethodRef", "java/lang/String", "concat", "(Ljava/lang/String;)Ljava/lang/String;")
        BY <3>2 DEF Linked
      <4>2. <<"java/lang/String", "concat", "(Ljava/lang/String;)Ljava/lang/String;">> \in LibraryMembers
        BY DEF LibraryMembers
      <4> QED BY <4>1, <4>2
    <3>3. CASE i[1] = "super init"
      <4>1. P!IsRef(pool, i[2], "MethodRef", Object, "<init>", "()V")
        BY <3>3 DEF Linked
      <4>2. <<Object, "<init>", "()V">> \in LibraryMembers
        BY DEF LibraryMembers
      <4> QED BY <4>1, <4>2
    <3> QED BY <1>5, <3>1, <3>2, <3>3
  <2>2. IsRef(i[2], "MethodRef") /\ Member(i[2]) \in LibraryMembers
    <3>1. PICK c, n, t : <<c, n, t>> \in LibraryMembers /\ P!IsRef(pool, i[2], "MethodRef", c, n, t)
      BY <2>1
    <3> QED BY <1>1, <3>1
  <2> QED BY <1>5, <2>2 DEF Instructs
<1>6. CASE i[1] = "ldc"
  <2>1. i[2] \in 1 .. Len(pool) /\ (pool[i[2]].type \in {"Integer", "Float"} \/ \E s : P!IsText(pool, i[2], "String", s))
    BY <1>6 DEF Linked, Loaded
  <2>2. Tagged(i[2], pool[i[2]].type)
    BY <2>1, BytesLead
  <2>3. \A s : P!IsText(pool, i[2], "String", s) => Tagged(i[2], "String") /\ IsText(file.constants[i[2]].ids[1])
    BY BytesLead
  <2> QED BY <1>6, <2>1, <2>2, <2>3 DEF Instructs
<1>7. CASE i[1] \notin {"getstatic", "putstatic", "invokestatic", "print", "concat", "super init", "ldc"}
  BY <1>7 DEF Instructs
<1> QED BY <1>3, <1>4, <1>5, <1>6, <1>7

LEMMA TablesLead ==
  ASSUME P!Good(pool), file.constants = [i \in DOMAIN pool |-> ToBytes(pool[i])],
         NEW infos, NEW members, Lists(pool, infos, members)
  PROVE  /\ DeclaresOnce(infos)
         /\ \A k \in DOMAIN infos : \E m \in members :
              /\ IsText(infos[k].name) /\ IsText(infos[k].descriptor)
              /\ Utf8At(infos[k].name) = m.name /\ Utf8At(infos[k].descriptor) = m.descriptor
<1>1. \A i, s : P!IsUtf8(pool, i, s) => IsText(i) /\ Utf8At(i) = s
  BY BytesLead
<1>2. ASSUME NEW k \in DOMAIN infos
      PROVE  /\ Utf8At(infos[k].name) = pool[infos[k].name].lit
             /\ \E m \in members :
                  /\ IsText(infos[k].name) /\ IsText(infos[k].descriptor)
                  /\ Utf8At(infos[k].name) = m.name /\ Utf8At(infos[k].descriptor) = m.descriptor
  <2>1. PICK m \in members : P!IsUtf8(pool, infos[k].name, m.name) /\ P!IsUtf8(pool, infos[k].descriptor, m.descriptor)
    BY DEF Lists, Describes
  <2>2. pool[infos[k].name].lit = m.name
    BY <2>1, Utf8Is
  <2> QED BY <1>1, <2>1, <2>2
<1>3. DeclaresOnce(infos)
  <2>1. \A a, b, c, d : <<a, b>> = <<c, d>> => a = c
    OBVIOUS
  <2>2. SUFFICES ASSUME NEW k \in DOMAIN infos, NEW l \in DOMAIN infos, k # l
                 PROVE  Utf8At(infos[k].name) # Utf8At(infos[l].name)
    BY <2>1 DEF DeclaresOnce
  <2>3. pool[infos[k].name].lit # pool[infos[l].name].lit
    BY <2>2 DEF Lists, NamesDiffer
  <2> QED BY <1>2, <2>3
<1> QED BY <1>2, <1>3

LEMMA TailLoads ==
  ASSUME P!Good(pool), file.constants = [i \in DOMAIN pool |-> ToBytes(pool[i])], file.count = Len(pool) + 1,
         NEW code, NEW refs, NEW calls, NEW fms, NEW mms, ClassTail(pool, file, code, refs, calls, fms, mms),
         Referred(pool, refs, "FieldRef", fms), Referred(pool, calls, "MethodRef", mms),
         \A m \in fms : m.descriptor \notin {"V", "Invalid"}
  PROVE  Resolvable
<1>1. file.count = Len(file.constants) + 1
  <2>1. PICK S : pool \in Seq(S)
    BY DEF P!Good
  <2>2. PICK cs : cs = file.constants
    OBVIOUS
  <2>3. cs = [i \in DOMAIN pool |-> cs[i]] /\ \A i \in DOMAIN pool : cs[i] \in {cs[j] : j \in DOMAIN pool}
    BY <2>2
  <2>4. Len(cs) = Len(pool)
    BY <2>1, <2>3, ListIsSequence
  <2> QED BY <2>2, <2>4
<1>2. IsClass(file.this) /\ ClassName(file.this) = ThisClass /\ IsClass(file.super) /\ ClassName(file.super) = Object
  BY BytesLead DEF ClassTail
<1>3. Lists(pool, file.fields, fms) /\ Lists(pool, file.methods, mms) /\ CodesLinked(pool, file.methods, refs, calls)
  BY DEF ClassTail
<1>4. DeclaresOnce(file.fields) /\ DeclaresOnce(file.methods)
  BY <1>3, TablesLead
<1>5. ASSUME NEW f \in ToSet(file.fields)
      PROVE  IsText(f.name) /\ IsText(f.descriptor) /\ Utf8At(f.descriptor) \notin {"V", "Invalid"}
  <2>1. PICK k \in DOMAIN file.fields : f = file.fields[k]
    BY DEF ToSet
  <2>2. PICK m \in fms : IsText(f.name) /\ IsText(f.descriptor) /\ Utf8At(f.descriptor) = m.descriptor
    BY <1>3, <2>1, TablesLead
  <2> QED BY <2>2
<1>6. ASSUME NEW m \in ToSet(file.methods)
      PROVE  /\ IsText(m.name) /\ IsText(m.descriptor)
             /\ IsText(m.attribute) /\ Utf8At(m.attribute) = "Code"
             /\ \A k \in DOMAIN m.code : Instructs(m.code[k])
  <2>1. PICK k \in DOMAIN file.methods : m = file.methods[k]
    BY DEF ToSet
  <2>2. IsText(m.name) /\ IsText(m.descriptor)
    BY <1>3, <2>1, TablesLead
  <2>3. P!IsUtf8(pool, m.attribute, "Code") /\ AllLinked(pool, m.code, refs, calls)
    BY <1>3, <2>1 DEF CodesLinked
  <2>4. IsText(m.attribute) /\ Utf8At(m.attribute) = "Code"
    BY <2>3, BytesLead
  <2>5. \A l \in DOMAIN m.code : Instructs(m.code[l])
    BY <1>3, <2>3, InstructionsLead DEF AllLinked
  <2> QED BY <2>2, <2>4, <2>5
<1> QED BY <1>1, <1>2, <1>4, <1>5, <1>6 DEF Resolvable

-----------------------------------------------------------------------------
(* The invariant of the generation of code, for a package without what the *)
(* analysis does not look at.                                              *)
FieldRefsOf(c, fs)  == {c[fs[i].id] : i \in DOMAIN fs}
MethodRefsOf(c, ms) == {c[ms[i].id] : i \in {j \in DOMAIN ms : ms[j].id # "_"}}

(* How far each of the loops has come.                                     *)
FieldRefsTo ==
  IF stage = "pool" THEN 1 ELSE IF stage = "field refs" THEN next ELSE Len(fields) + 1
MethodRefsTo ==
  IF stage \in {"pool", "field refs"} THEN 1 ELSE IF stage = "method refs" THEN next ELSE Len(methods) + 1
FieldInfosTo == IF stage = "field infos" THEN next ELSE Len(fields) + 1
MethodInfosTo ==
  IF stage \in {"write", "written"} THEN Len(methods) + 1 ELSE IF stage = "bodies" THEN next ELSE 1

Headed == {"field infos", "constructor", "initialisers", "clinit", "bodies", "write", "written"}

(* The methods that the generator adds by itself.                          *)
OwnMembers ==
  IF stage \in {"field infos", "constructor"} THEN {}
  ELSE IF stage \in {"initialisers", "clinit"} THEN {OwnMember("<init>")}
  ELSE {OwnMember("<init>"), OwnMember("<clinit>")}

TailTo(own, fieldsTo, methodsTo) ==
  ClassTail(pool, file, clinit, FieldRefsOf(context, fields), MethodRefsOf(context, methods),
       FieldMembersTo(fields, fieldsTo), own \cup MethodMembersTo(methods, methodsTo))

Links ==
  /\ FieldsNamedTo(pool, context, fields, FieldRefsTo)
  /\ MethodsNamedTo(pool, context, methods, MethodRefsTo)
  /\ stage \in Headed => \E own \in SUBSET OwnMembers : TailTo(own, FieldInfosTo, MethodInfosTo)
  /\ stage = "written" => file.count = Len(pool) + 1

LinkOK == Plain(package) /\ stage \in Accepted => Links
RefusedOK == stage = "refused" /\ Plain(package) => Resolvable

LEMMA MapsAre ==
  ASSUME Legalised
  PROVE  /\ IsSequence(fields) /\ DOMAIN fields = 1 .. Len(fields) /\ Len(fields) \in Nat /\ Distinct(fields)
         /\ IsSequence(methods) /\ DOMAIN methods = 1 .. Len(methods) /\ Len(methods) \in Nat /\ Distinct(methods)
         /\ \A i \in DOMAIN fields : fields[i].id # "_" /\ fields[i].id \notin Callables(methods)
         /\ \A i \in DOMAIN methods : methods[i].id \notin {"<init>", "<clinit>"}
         /\ DOMAIN fields \subseteq Nat /\ DOMAIN methods \subseteq Nat
         /\ stage \in WithPool => P!Good(pool)
<1>1. IInv /\ MapsOK /\ stage \in Mapped /\ CountsOK(package)
  BY LegalisedIs
<1>2. FieldsOK(fields) /\ MethodsOK(methods) /\ (stage \in WithPool => P!Good(pool))
  BY <1>1 DEF IInv
<1>3. Distinct(fields) /\ Distinct(methods)
  BY <1>1 DEF MapsOK, MapOK
<1>4. \A i \in DOMAIN fields : fields[i].id # "_" /\ fields[i].id \notin Callables(methods)
  BY <1>1, FieldName, NoClash DEF Legalised
<1>5. \A i \in DOMAIN methods : methods[i].id \notin {"<init>", "<clinit>"}
  BY <1>2, MethodFacts DEF MethodsOK
<1>6. IsSequence(fields) /\ IsSequence(methods)
  BY <1>2 DEF FieldsOK, MethodsOK
<1>7. \A map : IsSequence(map) => DOMAIN map \subseteq Nat
  BY MapFacts
<1> QED BY <1>2, <1>3, <1>4, <1>5, <1>6, <1>7, MapFacts

(* The end of a round of a loop over a map.                                *)
LEMMA RoundEnds ==
  ASSUME NEW map, IsSequence(map), next \in DOMAIN map, NEW then, Continue(map, then)
  PROVE  /\ next \in Nat
         /\ \/ stage' = stage /\ next' = next + 1
            \/ stage' = then /\ next' = 1 /\ next = Len(map)
<1>1. Len(map) \in Nat /\ DOMAIN map = 1 .. Len(map)
  BY MapFacts
<1>2. next \in Nat /\ (next < Len(map) \/ next = Len(map)) /\ (next = Len(map) => ~(next < Len(map)))
  BY <1>1
<1> QED BY <1>2 DEF Continue

LEMMA NoneNamed ==
  ASSUME NEW map, IsSequence(map), NEW p, NEW c
  PROVE  /\ FieldsNamedTo(p, c, map, 1) /\ MethodsNamedTo(p, c, map, 1)
         /\ FieldMembersTo(map, 1) = {} /\ MethodMembersTo(map, 1) = {}
BY NoneBefore DEF FieldsNamedTo, MethodsNamedTo, FieldMembersTo, MethodMembersTo

LEMMA OneMoreMember ==
  ASSUME NEW map, IsSequence(map), Distinct(map), NEW n \in DOMAIN map
  PROVE  /\ FieldMembersTo(map, n + 1) = FieldMembersTo(map, n) \cup {FieldMember(map[n])}
         /\ MethodMembersTo(map, n + 1) = MethodMembersTo(map, n) \cup {MethodMember(map[n])}
         /\ \A x \in FieldMembersTo(map, n) \cup MethodMembersTo(map, n) : x.name # map[n].id
<1>1. DOMAIN map \subseteq Nat
  BY MapFacts
<1>2. \A i \in DOMAIN map : i < n + 1 <=> i < n \/ i = n
  BY <1>1
<1>3. {j \in DOMAIN map : j < n + 1} = {j \in DOMAIN map : j < n} \cup {n}
  BY <1>2
<1>4. ASSUME NEW x \in FieldMembersTo(map, n) \cup MethodMembersTo(map, n) PROVE x.name # map[n].id
  <2>1. PICK j \in DOMAIN map : j < n /\ x.name = map[j].id
    BY DEF FieldMembersTo, MethodMembersTo, FieldMember, MethodMember
  <2>2. j # n
    BY <1>1, <2>1
  <2> QED BY <2>1, <2>2 DEF Distinct
<1> QED BY <1>3, <1>4 DEF FieldMembersTo, MethodMembersTo

-----------------------------------------------------------------------------
(* The references are handed out.                                          *)

LEMMA FillHeadLinks == Legalised /\ FillHead => Links'
<1> SUFFICES ASSUME Legalised, FillHead PROVE Links'
  OBVIOUS
<1>1. /\ stage = "pool" /\ next' = next /\ fields' = fields /\ methods' = methods /\ context' = context
      /\ stage' = IF fields = <<>> THEN "method refs" ELSE "field refs"
  BY DEF FillHead, analysis
<1>2. next = 1
  BY <1>1, Once, LegalisedIs
<1>3. IsSequence(fields) /\ IsSequence(methods)
  BY MapsAre
<1>4. FieldRefsTo' = 1 /\ MethodRefsTo' = 1
  <2>1. fields = <<>> => Len(fields) + 1 = 1
    OBVIOUS
  <2> QED BY <1>1, <1>2, <2>1 DEF FieldRefsTo, MethodRefsTo
<1>5. FieldsNamedTo(pool', context', fields', 1) /\ MethodsNamedTo(pool', context', methods', 1)
  BY <1>1, <1>3, NoneNamed
<1> QED BY <1>1, <1>4, <1>5 DEF Links, Headed

LEMMA FillFieldLinks == Legalised /\ Links /\ FillField => Links'
<1> SUFFICES ASSUME Legalised, Links, FillField PROVE Links'
  OBVIOUS
<1>1. /\ stage = "field refs" /\ fields' = fields /\ methods' = methods /\ Continue(fields, "method refs")
      /\ IInv /\ P!Good(pool)
  BY LegalisedIs, MapsAre DEF FillField, analysis, WithPool
<1> next \in DOMAIN fields
  BY <1>1 DEF IInv, Iterated
<1>2. /\ IsSequence(fields) /\ IsSequence(methods) /\ Distinct(fields) /\ DOMAIN fields \subseteq Nat
      /\ fields[next].id # "_"
  BY MapsAre
<1>3. /\ next \in Nat
      /\ \/ stage' = "field refs" /\ next' = next + 1
         \/ stage' = "method refs" /\ next' = 1 /\ next = Len(fields)
  BY <1>1, <1>2, RoundEnds
<1>4. FieldRefsTo = next /\ FieldRefsTo' = next + 1 /\ MethodRefsTo' = 1
  BY <1>1, <1>3 DEF FieldRefsTo, MethodRefsTo
<1>5. PICK n : /\ P!IsRef(pool', n, "FieldRef", ThisClass, fields[next].id, Descriptor(fields[next].type))
               /\ context' = Bind(context, fields[next].id, n)
  BY <1>1, FillFieldPool
<1>6. Grown(pool, pool')
  BY <1>1, FillFieldPool
<1>7. FieldsNamedTo(pool, context, fields, next)
  BY <1>4 DEF Links
<1>8. FieldsNamedTo(pool', context', fields, next + 1)
  BY <1>1, <1>2, <1>3, <1>5, <1>6, <1>7, FieldBound
<1>9. MethodsNamedTo(pool', context', methods, 1)
  BY <1>2, NoneNamed
<1> QED BY <1>1, <1>3, <1>4, <1>8, <1>9 DEF Links, Headed

LEMMA FillMethodLinks == Legalised /\ Links /\ FillMethod => Links'
<1> SUFFICES ASSUME Legalised, Links, FillMethod PROVE Links'
  OBVIOUS
<1>1. /\ stage = "method refs" /\ fields' = fields /\ methods' = methods /\ Continue(methods, "head")
      /\ IInv /\ P!Good(pool)
  BY LegalisedIs, MapsAre DEF FillMethod, analysis, WithPool
<1> next \in DOMAIN methods
  BY <1>1 DEF IInv, Iterated
<1>2. IsSequence(methods) /\ Distinct(methods) /\ DOMAIN methods \subseteq Nat
  BY MapsAre
<1>3. /\ next \in Nat
      /\ \/ stage' = "method refs" /\ next' = next + 1
         \/ stage' = "head" /\ next' = 1 /\ next = Len(methods)
  BY <1>1, <1>2, RoundEnds
<1>4. /\ MethodRefsTo = next /\ MethodRefsTo' = next + 1
      /\ FieldRefsTo = Len(fields) + 1 /\ FieldRefsTo' = Len(fields) + 1
  BY <1>1, <1>3 DEF FieldRefsTo, MethodRefsTo
<1>5. PICK n : /\ P!IsRef(pool', n, "MethodRef", ThisClass, methods[next].id, MethodDescriptor(methods[next]))
               /\ context' = Bind(context, methods[next].id, n)
  BY <1>1, FillMethodPool
<1>6. Grown(pool, pool')
  BY <1>1, FillMethodPool
<1>7. MethodsNamedTo(pool', context', methods, next + 1)
  <2>1. MethodsNamedTo(pool, context, methods, next)
    BY <1>4 DEF Links
  <2> QED BY <1>1, <1>2, <1>3, <1>5, <1>6, <2>1, MethodBound
<1>8. FieldsNamedTo(pool', context', fields, Len(fields) + 1)
  <2>1. FieldsNamedTo(pool', context, fields, Len(fields) + 1)
    BY <1>1, <1>4, <1>6, NamedGrow DEF Links
  <2>2. \A i \in DOMAIN fields : fields[i].id # methods[next].id
    BY <1>2, MapsAre DEF Callables, Ids
  <2> QED BY <1>5, <2>1, <2>2, FieldsUnbound
<1> QED BY <1>1, <1>3, <1>4, <1>7, <1>8 DEF Links, Headed

-----------------------------------------------------------------------------
(* The tail is made.  What was handed out stays.                           *)
Making ==
  GenerateHead \/ GenerateField \/ GenerateConstructor \/ GenerateInitialiser \/ GenerateClinit
  \/ GenerateMethod \/ WriteClassFile

AfterRefs == Headed \cup {"head"}

LEMMA RefsStay ==
  ASSUME Legalised, Links, stage \in AfterRefs, stage' \in AfterRefs, Grown(pool, pool'),
         context' = context, fields' = fields, methods' = methods
  PROVE  /\ FieldsNamedTo(pool, context, fields, FieldRefsTo)'
         /\ MethodsNamedTo(pool, context, methods, MethodRefsTo)'
         /\ FieldRefsOf(context', fields') = FieldRefsOf(context, fields)
         /\ MethodRefsOf(context', methods') = MethodRefsOf(context, methods)
<1>1. /\ FieldRefsTo = Len(fields) + 1 /\ MethodRefsTo = Len(methods) + 1
      /\ FieldRefsTo' = Len(fields) + 1 /\ MethodRefsTo' = Len(methods) + 1
  BY DEF AfterRefs, Headed, FieldRefsTo, MethodRefsTo
<1>2. P!Good(pool)
  BY MapsAre DEF AfterRefs, Headed, WithPool
<1>3. /\ FieldsNamedTo(pool', context, fields, Len(fields) + 1)
      /\ MethodsNamedTo(pool', context, methods, Len(methods) + 1)
  BY <1>1, <1>2, NamedGrow DEF Links
<1> QED BY <1>1, <1>3

LEMMA GenerateHeadLinks == Legalised /\ Links /\ GenerateHead => Links'
<1> SUFFICES ASSUME Legalised, Links, GenerateHead PROVE Links'
  OBVIOUS
<1>1. /\ stage = "head" /\ next' = next /\ fields' = fields /\ methods' = methods /\ context' = context /\ clinit' = clinit
      /\ stage' = IF fields = <<>> THEN "constructor" ELSE "field infos"
      /\ IInv
  BY LegalisedIs DEF GenerateHead, analysis
<1>2. next = 1 /\ Grown(pool, pool')
  BY <1>1, Once, GenerateHeadPool
<1>3. IsSequence(fields) /\ IsSequence(methods)
  BY MapsAre
<1>4. FieldInfosTo' = 1 /\ MethodInfosTo' = 1 /\ OwnMembers' = {}
  <2>1. fields = <<>> => Len(fields) + 1 = 1
    OBVIOUS
  <2> QED BY <1>1, <1>2, <2>1 DEF FieldInfosTo, MethodInfosTo, OwnMembers
<1>5. PICK this, super :
         /\ file' = [this |-> this, super |-> super, fields |-> <<>>, methods |-> <<>>]
         /\ P!IsText(pool', this, "Class", ThisClass) /\ P!IsText(pool', super, "Class", Object)
  BY <1>1, GenerateHeadPool
<1>6. file'.this = this /\ file'.super = super /\ file'.fields = <<>> /\ file'.methods = <<>>
  BY <1>5
<1>7. clinit' = <<>>
  BY <1>1 DEF Legalised, AllOK, Sound, ClinitOK, ClinitMade
<1>8. \A refs, calls : ClassTail(pool', file', clinit', refs, calls, {}, {})
  <2>1. \A p, refs, calls : CodesLinked(p, <<>>, refs, calls) /\ AllLinked(p, <<>>, refs, calls)
    BY EmptyMap DEF CodesLinked, AllLinked
  <2>2. \A p : Lists(p, <<>>, {})
    BY NothingListed
  <2> QED BY <1>5, <1>6, <1>7, <2>1, <2>2 DEF ClassTail
<1>9. FieldMembersTo(fields', 1) = {} /\ {} \cup MethodMembersTo(methods', 1) = {}
  BY <1>1, <1>3, NoneNamed
<1>10. TailTo({}, FieldInfosTo, MethodInfosTo)'
  BY <1>4, <1>8, <1>9 DEF TailTo
<1>11. stage' \in AfterRefs /\ stage' # "written"
  BY <1>1 DEF AfterRefs, Headed
<1>12. stage \in AfterRefs
  BY <1>1 DEF AfterRefs
<1>13. FieldsNamedTo(pool, context, fields, FieldRefsTo)' /\ MethodsNamedTo(pool, context, methods, MethodRefsTo)'
  BY <1>1, <1>2, <1>11, <1>12, RefsStay
<1> QED BY <1>4, <1>10, <1>11, <1>13 DEF Links

(* In the stages with a tail, the new tail is all that is to be shown.     *)
LEMMA TailLinks ==
  ASSUME Legalised, Links, stage \in Headed, stage' \in Headed, Grown(pool, pool'),
         context' = context, fields' = fields, methods' = methods,
         NEW own \in SUBSET OwnMembers', NEW fms, NEW mms,
         ClassTail(pool', file', clinit', FieldRefsOf(context, fields), MethodRefsOf(context, methods), fms, mms),
         fms = FieldMembersTo(fields, FieldInfosTo'), mms = own \cup MethodMembersTo(methods, MethodInfosTo'),
         stage' = "written" => file'.count = Len(pool') + 1
  PROVE  Links'
<1>1. stage \in AfterRefs /\ stage' \in AfterRefs
  BY DEF AfterRefs
<1>2. FieldsNamedTo(pool, context, fields, FieldRefsTo)' /\ MethodsNamedTo(pool, context, methods, MethodRefsTo)'
  BY <1>1, RefsStay
<1>3. TailTo(own, FieldInfosTo, MethodInfosTo)'
  BY DEF TailTo
<1> QED BY <1>2, <1>3 DEF Links

(* The tail before a step.                                                 *)
LEMMA TailBefore ==
  ASSUME Legalised, Links, stage \in Headed
  PROVE  /\ P!Good(pool) /\ (stage # "written" => DOMAIN file = TailKeys)
         /\ \E own \in SUBSET OwnMembers :
              ClassTail(pool, file, clinit, FieldRefsOf(context, fields), MethodRefsOf(context, methods),
                   FieldMembersTo(fields, FieldInfosTo), own \cup MethodMembersTo(methods, MethodInfosTo))
<1>1. P!Good(pool)
  BY MapsAre DEF Headed, WithPool
<1>2. stage # "written" => DOMAIN file = TailKeys
  BY DEF Headed, Legalised, AllOK, Sound, FileOK, BeforeClinit
<1>3. \E own \in SUBSET OwnMembers : TailTo(own, FieldInfosTo, MethodInfosTo)
  BY DEF Links
<1> QED BY <1>1, <1>2, <1>3 DEF TailTo

LEMMA GenerateFieldLinks == Legalised /\ Links /\ GenerateField => Links'
<1> SUFFICES ASSUME Legalised, Links, GenerateField PROVE Links'
  OBVIOUS
<1>1. /\ stage = "field infos" /\ fields' = fields /\ methods' = methods /\ context' = context /\ clinit' = clinit
      /\ Continue(fields, "constructor") /\ IInv
  BY LegalisedIs DEF GenerateField, analysis
<1> next \in DOMAIN fields
  BY <1>1 DEF IInv, Iterated
<1>2. IsSequence(fields) /\ Distinct(fields)
  BY MapsAre
<1>3. /\ next \in Nat
      /\ \/ stage' = "field infos" /\ next' = next + 1
         \/ stage' = "constructor" /\ next' = 1 /\ next = Len(fields)
  BY <1>1, <1>2, RoundEnds
<1>4. /\ FieldInfosTo = next /\ FieldInfosTo' = next + 1 /\ MethodInfosTo' = MethodInfosTo
      /\ OwnMembers' = OwnMembers
  BY <1>1, <1>3 DEF FieldInfosTo, MethodInfosTo, OwnMembers
<1>5. Grown(pool, pool')
  BY <1>1, GenerateFieldPool
<1>6. PICK info : /\ file' = WithField(file, info)
                  /\ P!IsUtf8(pool', info.name, fields[next].id)
                  /\ P!IsUtf8(pool', info.descriptor, Descriptor(fields[next].type))
  BY <1>1, GenerateFieldPool DEF WithField
<1>7. stage \in Headed /\ stage' \in Headed /\ stage' # "written"
  BY <1>1, <1>3 DEF Headed
<1>8. P!Good(pool) /\ DOMAIN file = TailKeys
  BY <1>1, <1>7, TailBefore
<1> DEFINE refs == FieldRefsOf(context, fields)
           calls == MethodRefsOf(context, methods)
           m == FieldMember(fields[next])
           fms == FieldMembersTo(fields, next)
<1>9. PICK own \in SUBSET OwnMembers :
         ClassTail(pool, file, clinit, refs, calls, fms, own \cup MethodMembersTo(methods, MethodInfosTo))
  BY <1>4, <1>7, TailBefore
<1>10. Describes(pool', info, m)
  BY <1>6 DEF Describes, FieldMember
<1>11. (\A x \in fms : x.name # m.name) /\ fms \cup {m} = FieldMembersTo(fields, next + 1)
  BY <1>2, OneMoreMember DEF FieldMember
<1> HIDE DEF refs, calls, m, fms
<1>12. ClassTail(pool', file', clinit, refs, calls, fms \cup {m}, own \cup MethodMembersTo(methods, MethodInfosTo))
  BY <1>5, <1>6, <1>8, <1>9, <1>10, <1>11, TailWithField
<1> QED BY <1>1, <1>4, <1>5, <1>7, <1>9, <1>11, <1>12, TailLinks DEF refs, calls

(* One more method is written: its code refers to what was handed out.     *)
LEMMA MethodLinks ==
  ASSUME Legalised, Links, stage \in Headed \ {"written"}, stage' \in Headed \ {"written"}, Grown(pool, pool'),
         context' = context, fields' = fields, methods' = methods, clinit' = clinit,
         NEW m, NEW code, AddsMethod(pool, file, m.name, m.descriptor, code, pool', file'),
         AllLinked(pool', code, FieldRefsOf(context, fields), MethodRefsOf(context, methods)),
         FieldInfosTo' = FieldInfosTo,
         \A x \in OwnMembers \cup MethodMembersTo(methods, MethodInfosTo) : x.name # m.name,
         \/ /\ OwnMembers \cup {m} \subseteq OwnMembers'
            /\ MethodMembersTo(methods, MethodInfosTo') = MethodMembersTo(methods, MethodInfosTo)
         \/ /\ OwnMembers \subseteq OwnMembers'
            /\ MethodMembersTo(methods, MethodInfosTo') = MethodMembersTo(methods, MethodInfosTo) \cup {m}
  PROVE  Links'
<1> DEFINE refs == FieldRefsOf(context, fields)
           calls == MethodRefsOf(context, methods)
           fms == FieldMembersTo(fields, FieldInfosTo)
           ms == MethodMembersTo(methods, MethodInfosTo)
<1>1. P!Good(pool) /\ DOMAIN file = TailKeys
  BY TailBefore
<1>2. PICK own \in SUBSET OwnMembers : ClassTail(pool, file, clinit, refs, calls, fms, own \cup ms)
  BY TailBefore
<1> HIDE DEF refs, calls, fms, ms
<1>3. ClassTail(pool', file', clinit, refs, calls, fms, (own \cup ms) \cup {m})
  <2>1. \A x \in own \cup ms : x.name # m.name
    BY DEF ms
  <2>2. AllLinked(pool', code, refs, calls)
    BY DEF refs, calls
  <2> QED BY <1>1, <1>2, <2>1, <2>2, TailWithMethod
<1>4. \E more \in SUBSET OwnMembers' : (own \cup ms) \cup {m} = more \cup MethodMembersTo(methods, MethodInfosTo')
  <2>1. CASE /\ OwnMembers \cup {m} \subseteq OwnMembers'
             /\ MethodMembersTo(methods, MethodInfosTo') = MethodMembersTo(methods, MethodInfosTo)
    <3>1. own \cup {m} \in SUBSET OwnMembers' /\ (own \cup ms) \cup {m} = (own \cup {m}) \cup ms
      BY <2>1
    <3> QED BY <2>1, <3>1 DEF ms
  <2>2. CASE /\ OwnMembers \subseteq OwnMembers'
             /\ MethodMembersTo(methods, MethodInfosTo') = MethodMembersTo(methods, MethodInfosTo) \cup {m}
    <3>1. own \in SUBSET OwnMembers' /\ (own \cup ms) \cup {m} = own \cup (ms \cup {m})
      BY <2>2
    <3> QED BY <2>2, <3>1 DEF ms
  <2> QED BY <2>1, <2>2
<1>5. PICK more \in SUBSET OwnMembers' :
         (own \cup ms) \cup {m} = more \cup MethodMembersTo(methods, MethodInfosTo')
  BY <1>4
<1> QED BY <1>3, <1>5, TailLinks DEF refs, calls, fms

LEMMA GenerateConstructorLinks == Legalised /\ Links /\ GenerateConstructor => Links'
<1> SUFFICES ASSUME Legalised, Links, GenerateConstructor PROVE Links'
  OBVIOUS
<1>1. /\ stage = "constructor" /\ stage' \in {"initialisers", "bodies"} /\ next' = next
      /\ fields' = fields /\ methods' = methods /\ context' = context /\ clinit' = clinit /\ IInv
  BY LegalisedIs DEF GenerateConstructor, analysis
<1>2. next = 1
  BY <1>1, Once
<1>3. /\ FieldInfosTo' = FieldInfosTo /\ MethodInfosTo = 1 /\ MethodInfosTo' = 1
      /\ OwnMembers = {} /\ OwnMember("<init>") \in OwnMembers'
  BY <1>1, <1>2 DEF FieldInfosTo, MethodInfosTo, OwnMembers
<1>4. Grown(pool, pool')
  BY <1>1, GenerateConstructorPool
<1>5. PICK code : /\ AllLinked(pool', code, {}, {})
                  /\ AddsMethod(pool, file, "<init>", "()V", code, pool', file')
  BY <1>1, GenerateConstructorPool
<1>6. PICK m : m = OwnMember("<init>")
  OBVIOUS
<1>7. m.name = "<init>" /\ m.descriptor = "()V"
  BY <1>6 DEF OwnMember
<1>8. AllLinked(pool', code, FieldRefsOf(context, fields), MethodRefsOf(context, methods))
  <2>1. P!Good(pool') /\ Grown(pool', pool')
    BY <1>4, GrownSelf DEF Grown
  <2> QED BY <1>5, <2>1, AllLinkedGrows
<1>9. MethodMembersTo(methods, 1) = {}
  BY MapsAre, NoneNamed
<1>10. stage \in Headed \ {"written"} /\ stage' \in Headed \ {"written"}
  BY <1>1 DEF Headed
<1>11. OwnMembers \cup {m} \subseteq OwnMembers'
       /\ \A x \in OwnMembers \cup MethodMembersTo(methods, MethodInfosTo) : x.name # m.name
  BY <1>3, <1>6, <1>9
<1>12. AddsMethod(pool, file, m.name, m.descriptor, code, pool', file')
  BY <1>5, <1>7
<1> QED BY <1>1, <1>3, <1>4, <1>8, <1>10, <1>11, <1>12, MethodLinks

LEMMA GenerateClinitLinks == Legalised /\ Links /\ GenerateClinit => Links'
<1> SUFFICES ASSUME Legalised, Links, GenerateClinit PROVE Links'
  OBVIOUS
<1>1. /\ stage = "clinit" /\ stage' = "bodies" /\ next' = next
      /\ fields' = fields /\ methods' = methods /\ context' = context /\ clinit' = clinit /\ IInv
  BY LegalisedIs DEF GenerateClinit, analysis
<1>2. next = 1
  BY <1>1, Once
<1>3. /\ FieldInfosTo' = FieldInfosTo /\ MethodInfosTo = 1 /\ MethodInfosTo' = 1
      /\ OwnMembers = {OwnMember("<init>")} /\ OwnMembers' = {OwnMember("<init>"), OwnMember("<clinit>")}
  BY <1>1, <1>2 DEF FieldInfosTo, MethodInfosTo, OwnMembers
<1>4. Grown(pool, pool')
  BY <1>1, GenerateClinitPool
<1>5. PICK code : code = Append(clinit, <<"return", 0>>)
  OBVIOUS
<1>6. AddsMethod(pool, file, "<clinit>", "()V", code, pool', file')
  BY <1>1, <1>5, GenerateClinitPool
<1>7. PICK m : m = OwnMember("<clinit>")
  OBVIOUS
<1>8. m.name = "<clinit>" /\ m.descriptor = "()V" /\ OwnMember("<init>").name = "<init>"
  BY <1>7 DEF OwnMember
<1>9. stage \in Headed \ {"written"} /\ stage' \in Headed \ {"written"}
  BY <1>1 DEF Headed
<1>10. AllLinked(pool', code, FieldRefsOf(context, fields), MethodRefsOf(context, methods))
  <2> DEFINE refs == FieldRefsOf(context, fields)
             calls == MethodRefsOf(context, methods)
  <2>1. P!Good(pool) /\ AllLinked(pool, clinit, refs, calls)
    BY <1>9, TailBefore DEF ClassTail
  <2> HIDE DEF refs, calls
  <2>2. AllLinked(pool', clinit, refs, calls)
    BY <1>4, <2>1, AllLinkedGrows
  <2>3. IsSequence(clinit)
    BY DEF Legalised, AllOK, Sound, ClinitOK
  <2>4. PICK i : i = <<"return", 0>>
    OBVIOUS
  <2>5. Linked(pool', i, refs, calls)
    BY <2>4 DEF Linked
  <2>6. AllLinked(pool', code, refs, calls)
    BY <1>5, <2>2, <2>3, <2>4, <2>5, LinkedAppend
  <2> QED BY <2>6 DEF refs, calls
<1>11. MethodMembersTo(methods, 1) = {}
  BY MapsAre, NoneNamed
<1>12. OwnMembers \cup {m} \subseteq OwnMembers'
       /\ \A x \in OwnMembers \cup MethodMembersTo(methods, MethodInfosTo) : x.name # m.name
  BY <1>3, <1>7, <1>8, <1>11
<1>13. AddsMethod(pool, file, m.name, m.descriptor, code, pool', file')
  BY <1>6, <1>8
<1> QED BY <1>1, <1>3, <1>4, <1>9, <1>10, <1>12, <1>13, MethodLinks

(* What an expression reads and calls was handed out.                      *)
LEMMA ExpressionRefs ==
  ASSUME NEW e, Reads(e) \subseteq Ids(fields), Calls(e) \subseteq Callables(methods)
  PROVE  /\ FieldsRead(e) \subseteq FieldRefsOf(context, fields)
         /\ MethodsCalled(e) \subseteq MethodRefsOf(context, methods)
<1>1. ASSUME NEW r \in FieldsRead(e) PROVE r \in FieldRefsOf(context, fields)
  <2>1. PICK i \in DOMAIN e : e[i].kind = "read" /\ r = context[e[i].id]
    BY DEF FieldsRead
  <2>2. e[i].id \in Reads(e)
    BY <2>1 DEF Reads, ToSet
  <2>3. PICK j \in DOMAIN fields : fields[j].id = e[i].id
    BY <2>2 DEF Ids
  <2> QED BY <2>1, <2>3 DEF FieldRefsOf
<1>2. ASSUME NEW r \in MethodsCalled(e) PROVE r \in MethodRefsOf(context, methods)
  <2>1. PICK i \in DOMAIN e : e[i].kind = "apply" /\ r = context[e[i].id]
    BY DEF MethodsCalled
  <2>2. e[i].id \in Calls(e)
    BY <2>1 DEF Calls, ToSet
  <2>3. PICK j \in DOMAIN methods : methods[j].id = e[i].id /\ methods[j].id # "_"
    BY <2>2 DEF Callables, Ids
  <2> QED BY <2>1, <2>3 DEF MethodRefsOf
<1> QED BY <1>1, <1>2

LEMMA GenerateMethodLinks == Legalised /\ Links /\ GenerateMethod => Links'
<1> SUFFICES ASSUME Legalised, Links, GenerateMethod PROVE Links'
  OBVIOUS
<1>1. /\ stage = "bodies" /\ fields' = fields /\ methods' = methods /\ context' = context /\ clinit' = clinit
      /\ Continue(methods, "write") /\ IInv
  BY LegalisedIs DEF GenerateMethod, analysis
<1> next \in DOMAIN methods
  BY <1>1 DEF IInv, Iterated
<1>2. IsSequence(methods) /\ Distinct(methods) /\ methods[next].id \notin {"<init>", "<clinit>"}
  BY MapsAre
<1>3. /\ next \in Nat
      /\ \/ stage' = "bodies" /\ next' = next + 1
         \/ stage' = "write" /\ next' = 1 /\ next = Len(methods)
  BY <1>1, <1>2, RoundEnds
<1>4. /\ FieldInfosTo' = FieldInfosTo /\ MethodInfosTo = next /\ MethodInfosTo' = next + 1
      /\ OwnMembers' = OwnMembers /\ OwnMembers = {OwnMember("<init>"), OwnMember("<clinit>")}
  BY <1>1, <1>3 DEF FieldInfosTo, MethodInfosTo, OwnMembers
<1>5. Grown(pool, pool')
  BY <1>1, GenerateMethodPool
<1>6. PICK code :
         /\ BodyTyped(methods[next]) =>
              AllLinked(pool', code, FieldsRead(methods[next].value), MethodsCalled(methods[next].value))
         /\ AddsMethod(pool, file, methods[next].id, MethodDescriptor(methods[next]), code, pool', file')
  BY <1>1, GenerateMethodPool
<1>7. BodyTyped(methods[next])
  BY BodyFound DEF BodyTyped
<1>8. /\ FieldsRead(methods[next].value) \subseteq FieldRefsOf(context, fields)
      /\ MethodsCalled(methods[next].value) \subseteq MethodRefsOf(context, methods)
  <2>1. CASE methods[next].value = <<>>
    BY <2>1, EmptyMap DEF FieldsRead, MethodsCalled
  <2>2. CASE methods[next].value # <<>>
    BY <2>2, BodyFound, ExpressionRefs
  <2> QED BY <2>1, <2>2
<1>9. AllLinked(pool', code, FieldRefsOf(context, fields), MethodRefsOf(context, methods))
  <2>1. P!Good(pool') /\ Grown(pool', pool')
    BY <1>5, GrownSelf DEF Grown
  <2> QED BY <1>6, <1>7, <1>8, <2>1, AllLinkedGrows
<1>10. PICK m : m = MethodMember(methods[next])
  OBVIOUS
<1>11. m.name = methods[next].id /\ m.descriptor = MethodDescriptor(methods[next])
  BY <1>10 DEF MethodMember
<1>12. AddsMethod(pool, file, m.name, m.descriptor, code, pool', file')
  BY <1>6, <1>11
<1>13. stage \in Headed \ {"written"} /\ stage' \in Headed \ {"written"}
  BY <1>1, <1>3 DEF Headed
<1>14. /\ MethodMembersTo(methods, next + 1) = MethodMembersTo(methods, next) \cup {m}
       /\ \A x \in MethodMembersTo(methods, next) : x.name # m.name
  BY <1>2, <1>10, <1>11, OneMoreMember
<1>15. \A x \in OwnMembers : x.name # m.name
  BY <1>2, <1>4, <1>11 DEF OwnMember
<1> QED BY <1>1, <1>4, <1>5, <1>9, <1>12, <1>13, <1>14, <1>15, MethodLinks

LEMMA GenerateInitialiserLinks == Legalised /\ Links /\ GenerateInitialiser => Links'
<1> SUFFICES ASSUME Legalised, Links, GenerateInitialiser PROVE Links'
  OBVIOUS
<1>1. /\ stage = "initialisers" /\ fields' = fields /\ methods' = methods /\ context' = context /\ file' = file
      /\ Continue(fields, "clinit") /\ IInv
  BY LegalisedIs DEF GenerateInitialiser, analysis
<1> next \in DOMAIN fields
  BY <1>1 DEF IInv, Iterated
<1>2. IsSequence(fields)
  BY MapsAre
<1>3. stage' \in {"initialisers", "clinit"}
  BY <1>1, <1>2, RoundEnds
<1>4. FieldInfosTo' = FieldInfosTo /\ MethodInfosTo' = MethodInfosTo /\ OwnMembers' = OwnMembers
  BY <1>1, <1>3 DEF FieldInfosTo, MethodInfosTo, OwnMembers
<1>5. stage \in Headed /\ stage' \in Headed /\ stage' # "written"
  BY <1>1, <1>3 DEF Headed
<1>6. P!Good(pool)
  BY <1>5, TailBefore
<1> DEFINE refs == FieldRefsOf(context, fields)
           calls == MethodRefsOf(context, methods)
           fms == FieldMembersTo(fields, FieldInfosTo)
<1>7. PICK own \in SUBSET OwnMembers :
         ClassTail(pool, file, clinit, refs, calls, fms, own \cup MethodMembersTo(methods, MethodInfosTo))
  BY <1>5, TailBefore
<1>8. CASE fields[next].value = <<>> /\ pool' = pool /\ clinit' = clinit
  <2>1. Grown(pool, pool')
    BY <1>6, <1>8, GrownSelf
  <2> QED BY <1>1, <1>4, <1>5, <1>7, <1>8, <2>1, TailLinks
<1>9. CASE /\ fields[next].value # <<>> /\ Grown(pool, pool')
           /\ \E code : /\ Coded(code, pool', FieldsRead(fields[next].value[1]), MethodsCalled(fields[next].value[1]))
                       /\ clinit' = clinit \o code \o <<<<"putstatic", context[fields[next].id]>>>>
  <2>1. FieldsRead(fields[next].value[1]) \subseteq refs /\ MethodsCalled(fields[next].value[1]) \subseteq calls
    <3>1. FieldDone(fields[next], methods, consts) /\ ReadsKnown(next)
      BY LegalisedIs
    <3>2. Calls(fields[next].value[1]) \subseteq Callables(methods)
      BY <1>9, <3>1 DEF FieldDone
    <3>3. Reads(fields[next].value[1]) \cap FunctionIds(package) = {}
      BY <1>9, LegalisedIs, FieldExpression DEF Legalised
    <3>4. Callables(methods) \subseteq FunctionIds(package)
      BY LegalisedIs, CallablesAre
    <3>5. InitialisedBefore(next) \subseteq Ids(fields)
      BY DEF InitialisedBefore, Ids
    <3>6. Reads(fields[next].value[1]) \subseteq Ids(fields)
      BY <1>9, <3>1, <3>3, <3>4, <3>5 DEF ReadsKnown
    <3> QED BY <3>2, <3>6, ExpressionRefs
  <2>2. PICK code : /\ Coded(code, pool', FieldsRead(fields[next].value[1]), MethodsCalled(fields[next].value[1]))
                    /\ clinit' = clinit \o code \o <<<<"putstatic", context[fields[next].id]>>>>
    BY <1>9
  <2>3. PICK i : i = <<"putstatic", context[fields[next].id]>>
    OBVIOUS
  <2>4. context[fields[next].id] \in refs
    BY DEF FieldRefsOf
  <2> HIDE DEF refs, calls, fms
  <2>5. P!Good(pool') /\ Grown(pool', pool')
    BY <1>9, GrownSelf DEF Grown
  <2>6. AllLinked(pool', code, refs, calls)
    <3>1. AllLinked(pool', code, FieldsRead(fields[next].value[1]), MethodsCalled(fields[next].value[1]))
      BY <2>2 DEF Coded, InCode, AllLinked
    <3> QED BY <2>1, <2>5, <3>1, AllLinkedGrows
  <2>7. AllLinked(pool', clinit, refs, calls)
    <3>1. AllLinked(pool, clinit, refs, calls)
      BY <1>7 DEF ClassTail
    <3> QED BY <1>6, <1>9, <3>1, AllLinkedGrows
  <2>8. AllLinked(pool', <<i>>, refs, calls)
    <3>1. i[1] = "putstatic" /\ i[2] \in refs
      BY <2>3, <2>4
    <3>2. Linked(pool', i, refs, calls)
      BY <3>1 DEF Linked
    <3> QED BY <3>2, OneLinked
  <2>9. IsSequence(clinit) /\ IsSequence(code) /\ IsSequence(<<i>>)
    <3>1. <<i>> \in Seq({i})
      OBVIOUS
    <3> QED BY <2>2, <3>1 DEF Coded, IsSequence, Legalised, AllOK, Sound, ClinitOK
  <2>10. AllLinked(pool', clinit', refs, calls)
    <3>1. AllLinked(pool', clinit \o code, refs, calls) /\ IsSequence(clinit \o code)
      <4>1. AllLinked(pool', clinit \o code, refs, calls)
        BY <2>6, <2>7, <2>9, LinkedJoined
      <4>2. IsSequence(clinit \o code)
        <5>1. PICK S, T : clinit \in Seq(S) /\ code \in Seq(T)
          BY <2>9 DEF IsSequence
        <5>2. clinit \in Seq(S \cup T) /\ code \in Seq(S \cup T)
          BY <5>1
        <5>3. clinit \o code \in Seq(S \cup T)
          BY <5>2
        <5> QED BY <5>3 DEF IsSequence
      <4> QED BY <4>1, <4>2
    <3>2. PICK c : c = clinit \o code
      OBVIOUS
    <3>3. AllLinked(pool', c \o <<i>>, refs, calls)
      BY <2>8, <2>9, <3>1, <3>2, LinkedJoined
    <3> QED BY <2>2, <2>3, <3>2, <3>3
  <2>11. ClassTail(pool', file, clinit, refs, calls, fms, own \cup MethodMembersTo(methods, MethodInfosTo))
    BY <1>6, <1>7, <1>9, TailGrows
  <2>12. ClassTail(pool', file', clinit', refs, calls, fms, own \cup MethodMembersTo(methods, MethodInfosTo))
    BY <1>1, <2>10, <2>11 DEF ClassTail
  <2> QED BY <1>1, <1>4, <1>5, <1>9, <2>12, TailLinks DEF refs, calls, fms
<1> HIDE DEF refs, calls, fms
<1> QED BY <1>1, <1>8, <1>9, GenerateInitialiserPool

LEMMA WriteLinks == Legalised /\ Links /\ WriteClassFile => Links'
<1> SUFFICES ASSUME Legalised, Links, WriteClassFile PROVE Links'
  OBVIOUS
<1>1. /\ stage = "write" /\ stage' = "written"
      /\ fields' = fields /\ methods' = methods /\ context' = context /\ clinit' = clinit /\ pool' = pool
      /\ file' = [count |-> Len(pool) + 1, constants |-> [i \in DOMAIN pool |-> ToBytes(pool[i])],
                  this |-> file.this, super |-> file.super, fields |-> file.fields, methods |-> file.methods]
  BY DEF WriteClassFile, analysis
<1>2. /\ file'.this = file.this /\ file'.super = file.super /\ file'.fields = file.fields
      /\ file'.methods = file.methods /\ file'.count = Len(pool') + 1
  BY <1>1
<1>3. FieldInfosTo' = FieldInfosTo /\ MethodInfosTo' = MethodInfosTo /\ OwnMembers' = OwnMembers
  BY <1>1 DEF FieldInfosTo, MethodInfosTo, OwnMembers
<1>4. stage \in Headed /\ stage' \in Headed
  BY <1>1 DEF Headed
<1>5. Grown(pool, pool')
  BY <1>1, <1>4, TailBefore, GrownSelf
<1>6. PICK own \in SUBSET OwnMembers :
         ClassTail(pool, file, clinit, FieldRefsOf(context, fields), MethodRefsOf(context, methods),
              FieldMembersTo(fields, FieldInfosTo), own \cup MethodMembersTo(methods, MethodInfosTo))
  BY <1>4, TailBefore
<1>7. ClassTail(pool', file', clinit', FieldRefsOf(context, fields), MethodRefsOf(context, methods),
           FieldMembersTo(fields, FieldInfosTo), own \cup MethodMembersTo(methods, MethodInfosTo))
  BY <1>1, <1>2, <1>6 DEF ClassTail
<1> QED BY <1>1, <1>2, <1>3, <1>4, <1>5, <1>7, TailLinks

LEMMA CodingLinks == Legalised /\ Links /\ Coding => Links'
BY FillHeadLinks, FillFieldLinks, FillMethodLinks, GenerateHeadLinks, GenerateFieldLinks, GenerateConstructorLinks,
   GenerateInitialiserLinks, GenerateClinitLinks, GenerateMethodLinks, WriteLinks DEF Coding

-----------------------------------------------------------------------------
(* The written class file is loaded.                                       *)

LEMMA FieldDescriptors ==
  ASSUME Legalised, NEW i \in DOMAIN fields
  PROVE  Descriptor(fields[i].type) \notin {"V", "Invalid"}
<1>1. fields[i].type \in Printed \cup NamedTypes \cup {"Any"}
  <2>1. CASE fields[i].value # <<>>
    BY <2>1, LegalisedIs DEF FieldDone
  <2>2. CASE fields[i].value = <<>>
    <3>1. PICK v \in Variables(package) : VariableFor(v, fields[i])
      BY LegalisedIs, FieldEntry
    <3> QED BY <2>2, <3>1 DEF VariableFor
  <2> QED BY <2>1, <2>2
<1> QED BY <1>1 DEF Descriptor, Printed, NamedTypes, Ints, Reals

LEMMA AllPassed ==
  ASSUME NEW map, IsSequence(map)
  PROVE  \A i \in DOMAIN map : i < Len(map) + 1
<1> QED BY MapFacts

LEMMA WrittenLoads ==
  ASSUME Legalised, Links, stage = "written"
  PROVE  Resolvable
<1> DEFINE refs == FieldRefsOf(context, fields)
           calls == MethodRefsOf(context, methods)
           fms == FieldMembersTo(fields, Len(fields) + 1)
           ms == MethodMembersTo(methods, Len(methods) + 1)
<1>1. FieldInfosTo = Len(fields) + 1 /\ MethodInfosTo = Len(methods) + 1
      /\ FieldRefsTo = Len(fields) + 1 /\ MethodRefsTo = Len(methods) + 1
  BY DEF FieldInfosTo, MethodInfosTo, FieldRefsTo, MethodRefsTo
<1>2. PICK own : ClassTail(pool, file, clinit, refs, calls, fms, own \cup ms)
  BY <1>1, TailBefore DEF Headed
<1>3. P!Good(pool)
  BY TailBefore DEF Headed
<1>4. file.constants = [i \in DOMAIN pool |-> ToBytes(pool[i])]
  BY DEF Legalised, AllOK, Sound, FileOK
<1>5. file.count = Len(pool) + 1
  BY DEF Links
<1>6. /\ \A i \in DOMAIN fields : i < Len(fields) + 1
      /\ \A i \in DOMAIN methods : i < Len(methods) + 1
  BY MapsAre, AllPassed
<1>7. Referred(pool, refs, "FieldRef", fms)
  <2>1. SUFFICES ASSUME NEW r \in refs
                 PROVE  \E m \in fms : P!IsRef(pool, r, "FieldRef", ThisClass, m.name, m.descriptor)
    BY DEF Referred
  <2>2. PICK i \in DOMAIN fields : r = context[fields[i].id]
    BY DEF FieldRefsOf
  <2>3. P!IsRef(pool, r, "FieldRef", ThisClass, fields[i].id, Descriptor(fields[i].type))
    BY <1>1, <1>6, <2>2 DEF Links, FieldsNamedTo, FieldNamed
  <2>4. PICK m \in fms : m = FieldMember(fields[i])
    BY <1>6 DEF FieldMembersTo
  <2>5. m.name = fields[i].id /\ m.descriptor = Descriptor(fields[i].type)
    BY <2>4 DEF FieldMember
  <2> QED BY <2>3, <2>5
<1>8. Referred(pool, calls, "MethodRef", own \cup ms)
  <2>1. SUFFICES ASSUME NEW r \in calls
                 PROVE  \E m \in own \cup ms : P!IsRef(pool, r, "MethodRef", ThisClass, m.name, m.descriptor)
    BY DEF Referred
  <2>2. PICK i \in DOMAIN methods : methods[i].id # "_" /\ r = context[methods[i].id]
    BY DEF MethodRefsOf
  <2>3. P!IsRef(pool, r, "MethodRef", ThisClass, methods[i].id, MethodDescriptor(methods[i]))
    BY <1>1, <1>6, <2>2 DEF Links, MethodsNamedTo, MethodNamed
  <2>4. PICK m \in ms : m = MethodMember(methods[i])
    BY <1>6 DEF MethodMembersTo
  <2>5. m.name = methods[i].id /\ m.descriptor = MethodDescriptor(methods[i])
    BY <2>4 DEF MethodMember
  <2> QED BY <2>3, <2>5
<1>9. \A m \in fms : m.descriptor \notin {"V", "Invalid"}
  <2>1. SUFFICES ASSUME NEW m \in fms PROVE m.descriptor \notin {"V", "Invalid"}
    OBVIOUS
  <2>2. PICK i \in DOMAIN fields : m = FieldMember(fields[i])
    BY DEF FieldMembersTo
  <2>3. m.descriptor = Descriptor(fields[i].type)
    BY <2>2 DEF FieldMember
  <2> QED BY <2>3, FieldDescriptors
<1> HIDE DEF refs, calls, fms, ms
<1> QED BY <1>2, <1>3, <1>4, <1>5, <1>7, <1>8, <1>9, TailLoads

-----------------------------------------------------------------------------
(* Every step keeps the invariant.                                         *)

LEMMA StartLinks == Start => LinkOK /\ RefusedOK
BY DEF Start, Init, LinkOK, RefusedOK, Accepted, AfterFields

LEMMA AnalyzedLinks ==
  ASSUME IInv', AnalyzePackageScope \/ AddMethod \/ AddField \/ AnalyzeField \/ AnalyzeMethod
  PROVE  LinkOK' /\ RefusedOK'
<1>1. stage' \in {"methods", "fields", "analyze fields", "analyze methods", "pool", "rejected"}
  BY DEF AnalyzePackageScope, AddMethod, AddField, AnalyzeField, AnalyzeMethod, Continue
<1>2. CASE stage' # "pool"
  BY <1>1, <1>2 DEF LinkOK, RefusedOK, Accepted, AfterFields
<1>3. CASE stage' = "pool"
  <2>1. FieldRefsTo' = 1 /\ MethodRefsTo' = 1
    BY <1>3 DEF FieldRefsTo, MethodRefsTo
  <2>2. IsSequence(fields') /\ IsSequence(methods')
    BY DEF IInv, FieldsOK, MethodsOK
  <2>3. FieldsNamedTo(pool', context', fields', 1) /\ MethodsNamedTo(pool', context', methods', 1)
    BY <2>2, NoneNamed
  <2> QED BY <1>3, <2>1, <2>3 DEF LinkOK, RefusedOK, Links, Headed
<1> QED BY <1>2, <1>3

LEMMA StepLinks ==
  AllOK /\ AllOK' /\ AnalysedOK /\ LinkOK /\ RefusedOK /\ [Step]_vars => LinkOK' /\ RefusedOK'
<1> SUFFICES ASSUME AllOK, AllOK', AnalysedOK, LinkOK, RefusedOK, [Step]_vars PROVE LinkOK' /\ RefusedOK'
  OBVIOUS
<1>1. CASE AnalyzePackageScope \/ AddMethod \/ AddField \/ AnalyzeField \/ AnalyzeMethod
  BY <1>1, AnalyzedLinks DEF AllOK
<1>2. CASE Coding
  <2>1. stage \in Accepted /\ stage' \in Accepted /\ package' = package
    BY <1>2, CodingKeeps
  <2>2. Plain(package)' <=> Plain(package)
    BY <2>1
  <2>3. Plain(package) => Legalised /\ Links
    BY <2>1 DEF Legalised, LinkOK
  <2>4. Plain(package) => Links'
    BY <1>2, <2>3, CodingLinks
  <2>5. stage' # "refused"
    BY <2>1 DEF Accepted, AfterFields
  <2> QED BY <2>2, <2>4, <2>5 DEF LinkOK, RefusedOK
<1>3. CASE Load
  <2>1. stage = "written" /\ package' = package /\ file' = file /\ stage' \in {"refused", "running"}
    BY <1>3 DEF Load, output
  <2>2. Plain(package) => Legalised /\ Links
    BY <2>1 DEF Legalised, LinkOK, Accepted
  <2>3. Plain(package) => Resolvable'
    BY <2>1, <2>2, WrittenLoads, SameFile
  <2>4. Plain(package') => Plain(package)
    BY <2>1
  <2> QED BY <2>1, <2>3, <2>4 DEF LinkOK, RefusedOK, Accepted, AfterFields
<1>4. CASE Push \/ GetStatic \/ PutStatic \/ Add \/ Invoke \/ ReturnValue \/ Return
  <2>1. stage' = "running"
    BY <1>4 DEF Push, GetStatic, PutStatic, Add, Invoke, ReturnValue, Return, Operation, JVM
  <2> QED BY <2>1 DEF LinkOK, RefusedOK, Accepted, AfterFields
<1>5. CASE UNCHANGED vars
  <2>1. UNCHANGED <<package, stage, next, fields, methods, pool, context, clinit, file>>
    BY <1>5 DEF vars, classVars, analysis, output
  <2>2. /\ FieldRefsTo' = FieldRefsTo /\ MethodRefsTo' = MethodRefsTo /\ OwnMembers' = OwnMembers
        /\ FieldInfosTo' = FieldInfosTo /\ MethodInfosTo' = MethodInfosTo
    BY <2>1 DEF FieldRefsTo, MethodRefsTo, OwnMembers, FieldInfosTo, MethodInfosTo
  <2>3. Links => Links'
    BY <2>1, <2>2 DEF Links, TailTo
  <2>4. Plain(package)' <=> Plain(package)
    BY <2>1
  <2>5. Resolvable => Resolvable'
    BY <2>1, SameFile
  <2> QED BY <2>1, <2>3, <2>4, <2>5 DEF LinkOK, RefusedOK
<1>6. Compile => Coding \/ AnalyzePackageScope \/ AddMethod \/ AddField \/ AnalyzeField \/ AnalyzeMethod
  BY DEF Compile, Coding
<1> QED BY <1>1, <1>2, <1>3, <1>4, <1>5, <1>6 DEF Step

(* The class file of a legal package links: whatever the names hash to,    *)
(* and in whatever order the pool was asked for its entries, the indices   *)
(* in the tail lead to what the JVM expects there, in the file as it was   *)
(* written and when a JVM refuses it, which it can do for its types only.  *)
THEOREM LegalPackageLinks == Spec => []ReferencesResolve
<1>1. Start => AllOK /\ AnalysedOK /\ LinkOK /\ RefusedOK
  BY StartAll, StartAnalysed, StartLinks
<1>2. AllOK /\ AnalysedOK /\ LinkOK /\ RefusedOK /\ [Step]_vars => (AllOK /\ AnalysedOK /\ LinkOK /\ RefusedOK)'
  BY StepAll, StepAnalysed, StepLinks
<1>3. AllOK /\ AnalysedOK /\ LinkOK /\ RefusedOK => ReferencesResolve
  <2> SUFFICES ASSUME AllOK, AnalysedOK, LinkOK, RefusedOK, stage \in {"written", "refused"}, Legal(package)
               PROVE  Resolvable
    BY DEF ReferencesResolve
  <2>1. Plain(package)
    BY LegalIsPlain DEF AllOK, IInv
  <2>2. CASE stage = "refused"
    BY <2>1, <2>2 DEF RefusedOK
  <2>3. CASE stage = "written"
    <3>1. Legalised /\ Links
      BY <2>1, <2>3 DEF Legalised, LinkOK, Accepted, AfterFields
    <3> QED BY <2>3, <3>1, WrittenLoads
  <2> QED BY <2>2, <2>3
<1> QED BY <1>1, <1>2, <1>3, PTL DEF Spec
=============================================================================
