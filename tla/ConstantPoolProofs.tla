-------------------------- MODULE ConstantPoolProofs --------------------------
(***************************************************************************)
(* Proofs about ConstantPool, for every choice of strings, numbers and     *)
(* float equality, and for pools of any size.                              *)
(*                                                                         *)
(* The inductive invariant is Good(pool): the pool is well typed, every    *)
(* index in it leads to an earlier entry of the right kind, and no two     *)
(* entries compare equal.  Outcome(p, o, K) is what one FindOrCreate* does *)
(* to a good pool p, adding entries of the kinds K only.                   *)
(***************************************************************************)
EXTENDS ConstantPool, TLAPS

Good(p) == p \in Seq(Constants) /\ Resolves(p) /\ Unique(p)

Grows(p, q) ==
  /\ Len(p) <= Len(q)
  /\ \A i \in 1..Len(p) : q[i] = p[i]

AddsOnly(p, q, K) == \A k \in (Len(p) + 1)..Len(q) : q[k].type \in K

Outcome(p, o, K) ==
  /\ Good(o.pool)
  /\ Grows(p, o.pool)
  /\ AddsOnly(p, o.pool, K)
  /\ o.id \in 1..Len(o.pool)
  /\ o.pool = p \/ (o.id = Len(o.pool) /\ Len(p) < Len(o.pool))

-----------------------------------------------------------------------------
(* operator== is symmetric and transitive, and is equality of entries      *)
(* except on floats.                                                       *)

LEMMA SameSym == ASSUME NEW c, NEW d, Same(c, d) PROVE Same(d, c)
BY FloatEqAssumption DEF Same

LEMMA SameTrans ==
  ASSUME NEW c, NEW d, NEW e, Same(c, d), Same(d, e)
  PROVE  Same(c, e)
BY FloatEqAssumption DEF Same

LEMMA SameIsEqual ==
  ASSUME NEW c \in Constants, NEW d \in Constants, Same(c, d), c.type # "Float"
  PROVE  c = d
BY DEF Same, Constants

(* What Good and Grows give about a longer pool.                           *)
LEMMA GrowsTrans ==
  ASSUME NEW p \in Seq(Constants), NEW q \in Seq(Constants), NEW r \in Seq(Constants),
         Grows(p, q), Grows(q, r)
  PROVE  Grows(p, r)
BY DEF Grows

(* Entries keep resolving when the pool is appended to.                    *)
LEMMA ResolvesAppend ==
  ASSUME NEW q \in Seq(Constants), NEW c \in Constants, Resolves(q),
         EntryResolves(Append(q, c), Len(q) + 1)
  PROVE  Resolves(Append(q, c))
<1> DEFINE r == Append(q, c)
<1>1. /\ DOMAIN q = 1..Len(q) /\ DOMAIN r = 1..(Len(q) + 1)
      /\ \A i \in 1..Len(q) : r[i] = q[i]
  OBVIOUS
<1>2. ASSUME NEW i \in 1..Len(q) PROVE EntryResolves(r, i)
  <2>1. EntryResolves(q, i) /\ r[i] = q[i]
    BY <1>1 DEF Resolves
  <2>2. ASSUME NEW j, NEW kind, Points(q, i, j, kind) PROVE Points(r, i, j, kind)
    <3>1. j \in 1..Len(q) /\ j \in 1..(i - 1) /\ q[j].type = kind
      BY <2>2 DEF Points
    <3> QED BY <3>1, <1>1 DEF Points
  <2> HIDE DEF r
  <2> QED BY <2>1, <2>2 DEF EntryResolves
<1> QED BY <1>1, <1>2 DEF Resolves

LEMMA UniqueAppend ==
  ASSUME NEW q \in Seq(Constants), NEW c \in Constants, Unique(q), Found(q, c) = {}
  PROVE  Unique(Append(q, c))
<1> DEFINE r == Append(q, c)
<1>1. /\ DOMAIN q = 1..Len(q) /\ DOMAIN r = 1..(Len(q) + 1)
      /\ \A i \in 1..Len(q) : r[i] = q[i]
      /\ r[Len(q) + 1] = c
  OBVIOUS
<1>2. \A i \in 1..Len(q) : ~Same(r[i], c) /\ ~Same(c, r[i])
  BY <1>1, SameSym DEF Found
<1>3. \A i, j \in 1..Len(q) : i # j => ~Same(r[i], r[j])
  BY <1>1 DEF Unique
<1> HIDE DEF r
<1> QED BY <1>1, <1>2, <1>3 DEF Unique, r

(* In a pool without equal entries a search has at most one hit.           *)
LEMMA FoundOnce ==
  ASSUME NEW q \in Seq(Constants), NEW c, Unique(q), NEW k \in Found(q, c)
  PROVE  First(Found(q, c)) = k
<1>1. \A i \in Found(q, c) : i = k
  <2>1. TAKE i \in Found(q, c)
  <2>2. Same(q[i], c) /\ Same(c, q[k]) /\ i \in DOMAIN q /\ k \in DOMAIN q
    BY SameSym DEF Found
  <2>3. Same(q[i], q[k])
    BY <2>2, SameTrans
  <2> QED BY <2>2, <2>3 DEF Unique
<1>2. Found(q, c) = {k} /\ k \in Nat
  BY <1>1 DEF Found
<1> QED BY <1>2 DEF First

(* Interning a constant c whose parts are in q, where q is p with the      *)
(* parts of c added: either all of them were there or c is the last entry. *)
LEMMA InternedOutcome ==
  ASSUME NEW p, NEW q, NEW c \in Constants, NEW K,
         Good(p), Good(q), Grows(p, q), AddsOnly(p, q, K), c.type \notin K,
         EntryResolves(Append(q, c), Len(q) + 1),
         q = p \/ c.fst > Len(p) \/ c.snd > Len(p),
         \* the indices of c are those of parts, checked when c is composite
         q = p \/ c.type \in {"String", "Class", "NameAndType", "FieldRef", "MethodRef"}
  PROVE  /\ Outcome(p, Interned(q, c), K \cup {c.type})
         /\ \/ Interned(q, c).pool[Interned(q, c).id] = c
            \/ /\ Same(Interned(q, c).pool[Interned(q, c).id], c)
               /\ Interned(q, c).pool = p
<1> DEFINE r == Append(q, c)
           o == Interned(q, c)
<1>1. CASE Found(q, c) = {}
  <2>1. o.pool = r /\ o.id = Len(q) + 1
    BY <1>1 DEF Interned
  <2>2. /\ r \in Seq(Constants) /\ Len(r) = Len(q) + 1
        /\ \A i \in 1..Len(q) : r[i] = q[i]
        /\ r[Len(q) + 1] = c
    BY DEF Good
  <2>3. Good(r)
    BY <1>1, <2>2, ResolvesAppend, UniqueAppend DEF Good
  <2> HIDE DEF r
  <2>4. Len(p) \in Nat /\ Len(q) \in Nat
    BY DEF Good
  <2>5. Grows(p, r) /\ Len(p) < Len(r)
    BY <2>2, <2>4 DEF Grows
  <2>6. AddsOnly(p, r, K \cup {c.type})
    BY <2>2, <2>4 DEF AddsOnly
  <2>7. Outcome(p, o, K \cup {c.type})
    BY <2>1, <2>2, <2>3, <2>4, <2>5, <2>6 DEF Outcome
  <2> QED BY <2>1, <2>2, <2>7
<1>2. CASE Found(q, c) # {}
  <2>1. PICK k : k \in Found(q, c)
    BY <1>2
  <2>2. o.pool = q /\ o.id = k
    BY <1>2, <2>1, FoundOnce DEF Interned, Good
  <2>3. /\ k \in 1..Len(q) /\ Same(q[k], c)
        /\ Len(p) \in Nat /\ Len(q) \in Nat /\ q[k] \in Constants
    BY <2>1 DEF Found, Good
  <2>4. q = p
    <3>1. SUFFICES ASSUME q # p PROVE FALSE
      OBVIOUS
    <3>2. q[k].type = c.type /\ q[k].fst = c.fst /\ q[k].snd = c.snd
      BY <2>3 DEF Same
    <3>3. EntryResolves(q, k)
      BY <2>3 DEF Good, Resolves
    <3>4. /\ c.fst \in Nat /\ c.snd \in Nat
          /\ c.fst < k
          /\ c.snd < k
      BY <3>1, <3>2, <3>3, <2>3 DEF EntryResolves, Points, Constants
    <3>5. k \in (Len(p) + 1)..Len(q)
      BY <3>1, <3>4, <2>3
    <3>6. q[k].type \in K
      BY <3>5 DEF AddsOnly
    <3> QED BY <3>2, <3>6
  <2>5. Outcome(p, o, K \cup {c.type})
    BY <2>2, <2>3, <2>4 DEF Outcome, Grows, AddsOnly
  <2> QED BY <2>2, <2>3, <2>4, <2>5
<1> QED BY <1>1, <1>2

(* Two operations one after the other, as the parts of a composite.        *)
LEMMA Chain ==
  ASSUME NEW p, NEW o1, NEW o2, NEW K1, NEW K2,
         Good(p), Outcome(p, o1, K1), Outcome(o1.pool, o2, K2)
  PROVE  /\ Grows(p, o2.pool)
         /\ AddsOnly(p, o2.pool, K1 \cup K2)
         /\ o2.pool = p \/ o1.id > Len(p) \/ o2.id > Len(p)
         /\ o1.id \in 1..Len(o2.pool)
         /\ \A i \in 1..Len(o1.pool) : o2.pool[i] = o1.pool[i]
<1>1. /\ Len(p) \in Nat /\ Len(o1.pool) \in Nat /\ Len(o2.pool) \in Nat
      /\ o1.id \in Nat /\ o2.id \in Nat
  BY DEF Good, Outcome
<1>2. Grows(p, o2.pool)
  BY <1>1 DEF Outcome, Grows
<1>3. AddsOnly(p, o2.pool, K1 \cup K2)
  BY <1>1 DEF Outcome, Grows, AddsOnly
<1>4. o2.pool = p \/ o1.id > Len(p) \/ o2.id > Len(p)
  BY <1>1 DEF Outcome, Grows
<1> QED BY <1>1, <1>2, <1>3, <1>4 DEF Outcome, Grows

-----------------------------------------------------------------------------
(* What the index returned by each operation leads to.                     *)

IsUtf8(q, i, s) == i \in 1..Len(q) /\ q[i] = Utf8(s)

IsText(q, i, kind, s) ==
  i \in 1..Len(q) /\ \E u : q[i] = Entry(kind, None, u, 0) /\ IsUtf8(q, u, s)

IsNaT(q, i, n, t) ==
  i \in 1..Len(q) /\ \E a, b : q[i] = NameAndType(a, b) /\ IsUtf8(q, a, n) /\ IsUtf8(q, b, t)

IsRef(q, i, kind, c, n, t) ==
  i \in 1..Len(q) /\ \E a, b : /\ q[i] = Entry(kind, None, a, b)
                             /\ IsNaT(q, a, n, t) /\ IsText(q, b, "Class", c)

LEMMA Kept ==
  ASSUME NEW p, NEW q, Good(p), Good(q), Grows(p, q)
  PROVE  /\ \A i, s : IsUtf8(p, i, s) => IsUtf8(q, i, s)
         /\ \A i, k, s : IsText(p, i, k, s) => IsText(q, i, k, s)
         /\ \A i, n, t : IsNaT(p, i, n, t) => IsNaT(q, i, n, t)
<1>1. 1..Len(p) \subseteq 1..Len(q) /\ \A i \in 1..Len(p) : q[i] = p[i]
  BY DEF Good, Grows
<1>2. \A i, s : IsUtf8(p, i, s) => IsUtf8(q, i, s)
  BY <1>1 DEF IsUtf8
<1>3. \A i, k, s : IsText(p, i, k, s) => IsText(q, i, k, s)
  BY <1>1, <1>2 DEF IsText
<1>4. \A i, n, t : IsNaT(p, i, n, t) => IsNaT(q, i, n, t)
  BY <1>1, <1>2 DEF IsNaT
<1> QED BY <1>2, <1>3, <1>4

(* Literals: no parts, so the pool the search sees is the pool given.      *)
LEMMA LeafOutcome ==
  ASSUME NEW p, Good(p), NEW c \in Constants,
         c.fst = 0, c.snd = 0,
         \/ c.type = "Utf8" /\ c.lit \in Strings
         \/ c.type = "Integer" /\ c.lit \in Ints
         \/ c.type = "Float" /\ c.lit \in Floats
  PROVE  /\ Outcome(p, Interned(p, c), {c.type})
         /\ \/ Interned(p, c).pool[Interned(p, c).id] = c
            \/ /\ Same(Interned(p, c).pool[Interned(p, c).id], c)
               /\ Interned(p, c).pool = p
<1>1. Grows(p, p) /\ AddsOnly(p, p, {}) /\ c.type \notin {}
  BY DEF Good, Grows, AddsOnly
<1>2. EntryResolves(Append(p, c), Len(p) + 1)
  <2>1. Append(p, c)[Len(p) + 1] = c
    BY DEF Good
  <2> QED BY <2>1 DEF EntryResolves
<1>3. {} \cup {c.type} = {c.type}
  OBVIOUS
<1>4. Outcome(p, Interned(p, c), {} \cup {c.type})
  BY <1>1, <1>2, InternedOutcome
<1>5. \/ Interned(p, c).pool[Interned(p, c).id] = c
      \/ /\ Same(Interned(p, c).pool[Interned(p, c).id], c)
         /\ Interned(p, c).pool = p
  BY <1>1, <1>2, InternedOutcome
<1> QED BY <1>3, <1>4, <1>5

LEMMA Utf8Outcome ==
  ASSUME NEW p, Good(p), NEW s \in Strings, NEW o \in FindOrCreateUtf8(p, s)
  PROVE  Outcome(p, o, {"Utf8"}) /\ IsUtf8(o.pool, o.id, s)
<1> DEFINE c == Utf8(s)
<1>1. c \in Constants /\ c.type = "Utf8" /\ c.lit = s /\ c.fst = 0 /\ c.snd = 0
  BY DEF Utf8, Entry, Constants, Kinds, Literals
<1>2. o = Interned(p, c)
  BY DEF FindOrCreateUtf8
<1> HIDE DEF c
<1>3. Outcome(p, o, {"Utf8"}) /\ (o.pool[o.id] = c \/ Same(o.pool[o.id], c))
  BY <1>1, <1>2, LeafOutcome
<1>4. o.id \in 1..Len(o.pool) /\ o.pool[o.id] \in Constants
  BY <1>3 DEF Outcome, Good
<1>5. o.pool[o.id] = c
  BY <1>1, <1>3, <1>4, SameIsEqual DEF Same
<1> QED BY <1>3, <1>4, <1>5 DEF IsUtf8, c

(* Composites: the search for an entry c whose parts were obtained first.  *)
LEMMA CompositeOutcome ==
  ASSUME NEW p, NEW q, NEW c \in Constants, NEW K,
         Good(p), Good(q), Grows(p, q), AddsOnly(p, q, K), c.type \notin K,
         c.type \in {"String", "Class", "NameAndType", "FieldRef", "MethodRef"},
         EntryResolves(Append(q, c), Len(q) + 1),
         q = p \/ c.fst > Len(p) \/ c.snd > Len(p)
  PROVE  /\ Outcome(p, Interned(q, c), K \cup {c.type})
         /\ Interned(q, c).pool[Interned(q, c).id] = c
         /\ Grows(q, Interned(q, c).pool)
<1> DEFINE o == Interned(q, c)
<1>1. /\ Outcome(p, o, K \cup {c.type})
      /\ o.pool[o.id] = c \/ Same(o.pool[o.id], c)
  BY InternedOutcome
<1>2. Grows(q, o.pool)
  BY DEF Interned, Grows, Good
<1> HIDE DEF o
<1>3. o.id \in 1..Len(o.pool) /\ o.pool[o.id] \in Constants
  BY <1>1 DEF Outcome, Good
<1>4. o.pool[o.id] = c
  BY <1>1, <1>3, SameIsEqual DEF Same
<1> QED BY <1>1, <1>2, <1>4 DEF o

(* String and Class: one Utf8 part.                                        *)
LEMMA TextOutcome ==
  ASSUME NEW p, Good(p), NEW s \in Strings, NEW kind \in {"String", "Class"},
         NEW u \in FindOrCreateUtf8(p, s)
  PROVE  LET o == Interned(u.pool, Entry(kind, None, u.id, 0))
         IN  Outcome(p, o, {"Utf8", kind}) /\ IsText(o.pool, o.id, kind, s)
<1> DEFINE c == Entry(kind, None, u.id, 0)
           o == Interned(u.pool, c)
<1>1. Outcome(p, u, {"Utf8"}) /\ IsUtf8(u.pool, u.id, s)
  BY Utf8Outcome
<1>2. /\ Good(u.pool) /\ Grows(p, u.pool) /\ AddsOnly(p, u.pool, {"Utf8"})
      /\ u.id \in 1..Len(u.pool)
      /\ u.pool = p \/ u.id > Len(p)
  BY <1>1 DEF Outcome
<1>3. /\ c \in Constants /\ c.type = kind /\ c.fst = u.id /\ c.snd = 0 /\ c.lit = None
  BY <1>2 DEF Entry, Constants, Kinds, Literals, Good
<1> HIDE DEF c
<1>4. EntryResolves(Append(u.pool, c), Len(u.pool) + 1)
  <2>1. /\ Append(u.pool, c)[Len(u.pool) + 1] = c
        /\ Append(u.pool, c)[u.id] = u.pool[u.id]
        /\ u.pool[u.id].type = "Utf8"
        /\ Len(u.pool) \in Nat
    BY <1>1, <1>2, <1>3 DEF Good, IsUtf8, Utf8, Entry
  <2>2. Points(Append(u.pool, c), Len(u.pool) + 1, c.fst, "Utf8")
    BY <2>1, <1>2, <1>3 DEF Points
  <2> QED BY <2>1, <2>2, <1>3 DEF EntryResolves
<1>5. /\ Outcome(p, o, {"Utf8"} \cup {c.type}) /\ o.pool[o.id] = c
      /\ Grows(u.pool, o.pool)
  BY <1>2, <1>3, <1>4, CompositeOutcome
<1>6. IsUtf8(o.pool, u.id, s)
  BY <1>1, <1>2, <1>5, Kept DEF Outcome
<1>7. {"Utf8"} \cup {c.type} = {"Utf8", kind}
  BY <1>3
<1> HIDE DEF o
<1>8. o.id \in 1..Len(o.pool)
  BY <1>5 DEF Outcome
<1> QED BY <1>5, <1>6, <1>7, <1>8 DEF IsText, c, o
(* A name and type from the indices of its two strings, however obtained.  *)
LEMMA NaTFromParts ==
  ASSUME NEW p, NEW q, NEW a, NEW b, NEW n, NEW t,
         Good(p), Good(q), Grows(p, q), AddsOnly(p, q, {"Utf8"}),
         IsUtf8(q, a, n), IsUtf8(q, b, t),
         q = p \/ a > Len(p) \/ b > Len(p)
  PROVE  LET o == Interned(q, NameAndType(a, b))
         IN  Outcome(p, o, {"Utf8", "NameAndType"}) /\ IsNaT(o.pool, o.id, n, t)
<1> DEFINE c == NameAndType(a, b)
           o == Interned(q, c)
<1>1. /\ a \in 1..Len(q) /\ b \in 1..Len(q)
      /\ q[a].type = "Utf8" /\ q[b].type = "Utf8"
      /\ Len(q) \in Nat /\ q \in Seq(Constants)
  BY DEF IsUtf8, Utf8, Entry, Good
<1>2. /\ c \in Constants /\ c.type = "NameAndType"
      /\ c.fst = a /\ c.snd = b /\ c.lit = None
  BY <1>1 DEF NameAndType, Entry, Constants, Kinds, Literals
<1> HIDE DEF c
<1>3. EntryResolves(Append(q, c), Len(q) + 1)
  <2>1. /\ Append(q, c)[Len(q) + 1] = c
        /\ Append(q, c)[a] = q[a] /\ Append(q, c)[b] = q[b]
    BY <1>1, <1>2
  <2>2. /\ Points(Append(q, c), Len(q) + 1, c.fst, "Utf8")
        /\ Points(Append(q, c), Len(q) + 1, c.snd, "Utf8")
    BY <2>1, <1>1, <1>2 DEF Points
  <2> QED BY <2>1, <2>2, <1>2 DEF EntryResolves
<1>4. /\ Outcome(p, o, {"Utf8"} \cup {c.type}) /\ o.pool[o.id] = c
      /\ Grows(q, o.pool)
  BY <1>2, <1>3, CompositeOutcome
<1>5. IsUtf8(o.pool, a, n) /\ IsUtf8(o.pool, b, t)
  BY <1>4, Kept DEF Outcome
<1>6. {"Utf8"} \cup {c.type} = {"Utf8", "NameAndType"}
  BY <1>2
<1> HIDE DEF o
<1>7. o.id \in 1..Len(o.pool)
  BY <1>4 DEF Outcome
<1> QED BY <1>4, <1>5, <1>6, <1>7 DEF IsNaT, c, o

LEMMA NaTOutcome ==
  ASSUME NEW p, Good(p), NEW n \in Strings, NEW t \in Strings,
         NEW o \in FindOrCreateNaT(p, n, t)
  PROVE  Outcome(p, o, {"Utf8", "NameAndType"}) /\ IsNaT(o.pool, o.id, n, t)
<1>1. ASSUME NEW x \in FindOrCreateUtf8(p, n), NEW y \in FindOrCreateUtf8(x.pool, t),
             o = Interned(y.pool, NameAndType(x.id, y.id))
      PROVE  Outcome(p, o, {"Utf8", "NameAndType"}) /\ IsNaT(o.pool, o.id, n, t)
  <2>1. Outcome(p, x, {"Utf8"}) /\ IsUtf8(x.pool, x.id, n) /\ Good(x.pool)
    BY Utf8Outcome DEF Outcome
  <2>2. Outcome(x.pool, y, {"Utf8"}) /\ IsUtf8(y.pool, y.id, t) /\ Good(y.pool)
    BY <2>1, Utf8Outcome DEF Outcome
  <2>3. IsUtf8(y.pool, x.id, n)
    BY <2>1, <2>2, Kept DEF Outcome
  <2>4. /\ Grows(p, y.pool) /\ AddsOnly(p, y.pool, {"Utf8"} \cup {"Utf8"})
        /\ y.pool = p \/ x.id > Len(p) \/ y.id > Len(p)
    BY <2>1, <2>2, Chain
  <2>5. {"Utf8"} \cup {"Utf8"} = {"Utf8"}
    OBVIOUS
  <2> QED BY <1>1, <2>2, <2>3, <2>4, <2>5, NaTFromParts
<1>2. ASSUME NEW y \in FindOrCreateUtf8(p, t), NEW x \in FindOrCreateUtf8(y.pool, n),
             o = Interned(x.pool, NameAndType(x.id, y.id))
      PROVE  Outcome(p, o, {"Utf8", "NameAndType"}) /\ IsNaT(o.pool, o.id, n, t)
  <2>1. Outcome(p, y, {"Utf8"}) /\ IsUtf8(y.pool, y.id, t) /\ Good(y.pool)
    BY Utf8Outcome DEF Outcome
  <2>2. Outcome(y.pool, x, {"Utf8"}) /\ IsUtf8(x.pool, x.id, n) /\ Good(x.pool)
    BY <2>1, Utf8Outcome DEF Outcome
  <2>3. IsUtf8(x.pool, y.id, t)
    BY <2>1, <2>2, Kept DEF Outcome
  <2>4. /\ Grows(p, x.pool) /\ AddsOnly(p, x.pool, {"Utf8"} \cup {"Utf8"})
        /\ x.pool = p \/ y.id > Len(p) \/ x.id > Len(p)
    BY <2>1, <2>2, Chain
  <2>5. {"Utf8"} \cup {"Utf8"} = {"Utf8"}
    OBVIOUS
  <2> QED BY <1>2, <2>2, <2>3, <2>4, <2>5, NaTFromParts
<1> QED BY <1>1, <1>2 DEF FindOrCreateNaT

LEMMA ClassOutcome ==
  ASSUME NEW p, Good(p), NEW s \in Strings, NEW o \in FindOrCreateClass(p, s)
  PROVE  Outcome(p, o, {"Utf8", "Class"}) /\ IsText(o.pool, o.id, "Class", s)
BY TextOutcome DEF FindOrCreateClass, Class

LEMMA StringOutcome ==
  ASSUME NEW p, Good(p), NEW s \in Strings, NEW o \in FindOrCreateString(p, s)
  PROVE  Outcome(p, o, {"Utf8", "String"}) /\ IsText(o.pool, o.id, "String", s)
BY TextOutcome DEF FindOrCreateString, String

PartKinds == {"Utf8", "NameAndType", "Class"}

(* The name-and-type and the class of a reference, in either order.        *)
LEMMA PartsOutcome ==
  ASSUME NEW p, Good(p), NEW c \in Strings, NEW n \in Strings, NEW t \in Strings,
         NEW a \in NaTAndClass(p, c, n, t)
  PROVE  /\ Good(a.pool) /\ Grows(p, a.pool) /\ AddsOnly(p, a.pool, PartKinds)
         /\ IsNaT(a.pool, a.nat, n, t) /\ IsText(a.pool, a.class, "Class", c)
         /\ a.pool = p \/ a.nat > Len(p) \/ a.class > Len(p)
<1>1. {"Utf8", "NameAndType"} \cup {"Utf8", "Class"} = PartKinds
      /\ {"Utf8", "Class"} \cup {"Utf8", "NameAndType"} = PartKinds
  BY DEF PartKinds
<1>2. ASSUME NEW x \in FindOrCreateNaT(p, n, t), NEW y \in FindOrCreateClass(x.pool, c),
             a = [pool |-> y.pool, nat |-> x.id, class |-> y.id]
      PROVE  /\ Good(a.pool) /\ Grows(p, a.pool) /\ AddsOnly(p, a.pool, PartKinds)
             /\ IsNaT(a.pool, a.nat, n, t) /\ IsText(a.pool, a.class, "Class", c)
             /\ a.pool = p \/ a.nat > Len(p) \/ a.class > Len(p)
  <2>1. /\ Outcome(p, x, {"Utf8", "NameAndType"}) /\ IsNaT(x.pool, x.id, n, t)
        /\ Good(x.pool)
    BY NaTOutcome DEF Outcome
  <2>2. /\ Outcome(x.pool, y, {"Utf8", "Class"}) /\ IsText(y.pool, y.id, "Class", c)
        /\ Good(y.pool)
    BY <2>1, ClassOutcome DEF Outcome
  <2>3. IsNaT(y.pool, x.id, n, t)
    BY <2>1, <2>2, Kept DEF Outcome
  <2>4. /\ Grows(p, y.pool)
        /\ AddsOnly(p, y.pool, {"Utf8", "NameAndType"} \cup {"Utf8", "Class"})
        /\ y.pool = p \/ x.id > Len(p) \/ y.id > Len(p)
    BY <2>1, <2>2, Chain
  <2> QED BY <1>1, <1>2, <2>2, <2>3, <2>4
<1>3. ASSUME NEW y \in FindOrCreateClass(p, c), NEW x \in FindOrCreateNaT(y.pool, n, t),
             a = [pool |-> x.pool, nat |-> x.id, class |-> y.id]
      PROVE  /\ Good(a.pool) /\ Grows(p, a.pool) /\ AddsOnly(p, a.pool, PartKinds)
             /\ IsNaT(a.pool, a.nat, n, t) /\ IsText(a.pool, a.class, "Class", c)
             /\ a.pool = p \/ a.nat > Len(p) \/ a.class > Len(p)
  <2>1. /\ Outcome(p, y, {"Utf8", "Class"}) /\ IsText(y.pool, y.id, "Class", c)
        /\ Good(y.pool)
    BY ClassOutcome DEF Outcome
  <2>2. /\ Outcome(y.pool, x, {"Utf8", "NameAndType"}) /\ IsNaT(x.pool, x.id, n, t)
        /\ Good(x.pool)
    BY <2>1, NaTOutcome DEF Outcome
  <2>3. IsText(x.pool, y.id, "Class", c)
    BY <2>1, <2>2, Kept DEF Outcome
  <2>4. /\ Grows(p, x.pool)
        /\ AddsOnly(p, x.pool, {"Utf8", "Class"} \cup {"Utf8", "NameAndType"})
        /\ x.pool = p \/ y.id > Len(p) \/ x.id > Len(p)
    BY <2>1, <2>2, Chain
  <2> QED BY <1>1, <1>3, <2>2, <2>3, <2>4
<1> QED BY <1>2, <1>3 DEF NaTAndClass
(* A field or method reference from its two parts.                         *)
LEMMA RefFromParts ==
  ASSUME NEW p, NEW q, NEW a, NEW b, NEW c, NEW n, NEW t,
         NEW kind \in {"FieldRef", "MethodRef"},
         Good(p), Good(q), Grows(p, q), AddsOnly(p, q, PartKinds),
         IsNaT(q, a, n, t), IsText(q, b, "Class", c),
         q = p \/ a > Len(p) \/ b > Len(p)
  PROVE  LET o == Interned(q, Entry(kind, None, a, b))
         IN  Outcome(p, o, PartKinds \cup {kind}) /\ IsRef(o.pool, o.id, kind, c, n, t)
<1> DEFINE e == Entry(kind, None, a, b)
           o == Interned(q, e)
<1>1. /\ a \in 1..Len(q) /\ b \in 1..Len(q)
      /\ q[a].type = "NameAndType" /\ q[b].type = "Class"
      /\ Len(q) \in Nat /\ q \in Seq(Constants)
  BY DEF IsNaT, IsText, NameAndType, Entry, Good
<1>2. /\ e \in Constants /\ e.type = kind
      /\ e.fst = a /\ e.snd = b /\ e.lit = None
  BY <1>1 DEF Entry, Constants, Kinds, Literals
<1> HIDE DEF e
<1>3. EntryResolves(Append(q, e), Len(q) + 1)
  <2>1. /\ Append(q, e)[Len(q) + 1] = e
        /\ Append(q, e)[a] = q[a] /\ Append(q, e)[b] = q[b]
    BY <1>1, <1>2
  <2>2. /\ Points(Append(q, e), Len(q) + 1, e.fst, "NameAndType")
        /\ Points(Append(q, e), Len(q) + 1, e.snd, "Class")
    BY <2>1, <1>1, <1>2 DEF Points
  <2> QED BY <2>1, <2>2, <1>2 DEF EntryResolves
<1>4. e.type \notin PartKinds
  BY <1>2 DEF PartKinds
<1>5. /\ Outcome(p, o, PartKinds \cup {e.type}) /\ o.pool[o.id] = e
      /\ Grows(q, o.pool)
  BY <1>2, <1>3, <1>4, CompositeOutcome
<1>6. IsNaT(o.pool, a, n, t) /\ IsText(o.pool, b, "Class", c)
  BY <1>5, Kept DEF Outcome
<1> HIDE DEF o
<1>7. o.id \in 1..Len(o.pool)
  BY <1>5 DEF Outcome
<1> QED BY <1>2, <1>5, <1>6, <1>7 DEF IsRef, e, o

LEMMA FieldRefOutcome ==
  ASSUME NEW p, Good(p), NEW c \in Strings, NEW n \in Strings, NEW t \in Strings,
         NEW o \in FindOrCreateFieldRef(p, c, n, t)
  PROVE  Outcome(p, o, PartKinds \cup {"FieldRef"}) /\ IsRef(o.pool, o.id, "FieldRef", c, n, t)
<1>1. PICK a \in NaTAndClass(p, c, n, t) : o = Interned(a.pool, Entry("FieldRef", None, a.nat, a.class))
  BY DEF FindOrCreateFieldRef, FieldRef
<1> QED BY <1>1, PartsOutcome, RefFromParts

LEMMA MethodRefOutcome ==
  ASSUME NEW p, Good(p), NEW c \in Strings, NEW n \in Strings, NEW t \in Strings,
         NEW o \in FindOrCreateMethodRef(p, c, n, t)
  PROVE  Outcome(p, o, PartKinds \cup {"MethodRef"}) /\ IsRef(o.pool, o.id, "MethodRef", c, n, t)
<1>1. PICK a \in NaTAndClass(p, c, n, t) : o = Interned(a.pool, Entry("MethodRef", None, a.nat, a.class))
  BY DEF FindOrCreateMethodRef, MethodRef
<1> QED BY <1>1, PartsOutcome, RefFromParts

-----------------------------------------------------------------------------
(* What one request does, seen from outside: the index denotes the request *)
(* exactly when an entry was added for it, and up to == when it was found. *)

Alike(m, r) == <<m, r>> \in Likeness

Answered(p, o, r) ==
  /\ Good(o.pool) /\ Grows(p, o.pool)
  /\ o.id \in 1..Len(o.pool)
  /\ r \in Meanings
  /\ \/ o.pool = p /\ Alike(Denoted(o.pool, o.id), r)
     \/ Len(p) < Len(o.pool) /\ o.id = Len(o.pool) /\ Denoted(o.pool, o.id) = r

LEMMA AnsweredExactly ==
  ASSUME NEW p, NEW o, NEW K, NEW r \in Meanings, Outcome(p, o, K),
         r.kind # "Float", Denoted(o.pool, o.id) = r
  PROVE  Answered(p, o, r)
<1>1. Alike(r, r)
  BY DEF Alike, Likeness
<1> QED BY <1>1 DEF Answered, Outcome

LEMMA DenotedText ==
  ASSUME NEW q, NEW i, NEW kind \in {"String", "Class"}, NEW s, IsText(q, i, kind, s)
  PROVE  Denoted(q, i) = Meaning(kind, s, None, None)
BY DEF IsText, IsUtf8, Utf8, Entry, Denoted, Meaning

LEMMA DenotedNaT ==
  ASSUME NEW q, NEW i, NEW n, NEW t, IsNaT(q, i, n, t)
  PROVE  Denoted(q, i) = Meaning("NameAndType", n, t, None)
BY DEF IsNaT, IsUtf8, Utf8, NameAndType, Entry, Denoted, Meaning

LEMMA DenotedRef ==
  ASSUME NEW q, NEW i, NEW kind \in {"FieldRef", "MethodRef"}, NEW c, NEW n, NEW t,
         IsRef(q, i, kind, c, n, t)
  PROVE  Denoted(q, i) = Meaning(kind, c, n, t)
<1>1. PICK a, b : /\ q[i] = Entry(kind, None, a, b)
                  /\ IsNaT(q, a, n, t) /\ IsText(q, b, "Class", c)
  BY DEF IsRef
<1>2. PICK x, y : q[a] = NameAndType(x, y) /\ IsUtf8(q, x, n) /\ IsUtf8(q, y, t)
  BY <1>1 DEF IsNaT
<1>3. PICK u : q[b] = Entry("Class", None, u, 0) /\ IsUtf8(q, u, c)
  BY <1>1 DEF IsText
<1>4. q[x].lit = n /\ q[y].lit = t /\ q[u].lit = c
  BY <1>2, <1>3 DEF IsUtf8, Utf8, Entry
<1>5. /\ q[i].type = kind /\ q[i].fst = a /\ q[i].snd = b
      /\ q[a].fst = x /\ q[a].snd = y /\ q[b].fst = u
  BY <1>1, <1>2, <1>3 DEF Entry, NameAndType
<1>6. Denoted(q, i) = Meaning(q[i].type, q[q[q[i].snd].fst].lit,
                              q[q[q[i].fst].fst].lit, q[q[q[i].fst].snd].lit)
  BY <1>5 DEF Denoted
<1> QED BY <1>4, <1>5, <1>6
LEMMA LeafAlike ==
  ASSUME NEW c \in Constants, NEW d \in Constants, Same(c, d)
  PROVE  Alike(Meaning(c.type, c.lit, None, None), Meaning(d.type, d.lit, None, None))
<1>1. /\ Meaning(c.type, c.lit, None, None) \in Meanings
      /\ Meaning(d.type, d.lit, None, None) \in Meanings
  BY DEF Meaning, Meanings, Constants, Literals
<1> QED BY <1>1 DEF Alike, Likeness, Meaning, Same

LEMMA LeafAnswered ==
  ASSUME NEW p, Good(p), NEW c \in Constants, c.fst = 0, c.snd = 0,
         \/ c.type = "Utf8" /\ c.lit \in Strings
         \/ c.type = "Integer" /\ c.lit \in Ints
         \/ c.type = "Float" /\ c.lit \in Floats
  PROVE  Answered(p, Interned(p, c), Meaning(c.type, c.lit, None, None))
<1> DEFINE o == Interned(p, c)
           r == Meaning(c.type, c.lit, None, None)
<1>1. Outcome(p, o, {c.type}) /\ (o.pool[o.id] = c \/ (Same(o.pool[o.id], c) /\ o.pool = p))
  BY LeafOutcome
<1>2. r \in Meanings
  BY DEF Meaning, Meanings, Kinds, Literals
<1>3. PICK e \in Constants : e = o.pool[o.id]
  BY <1>1 DEF Outcome, Good
<1>4. e.type = c.type /\ Denoted(o.pool, o.id) = Meaning(e.type, e.lit, None, None)
  BY <1>1, <1>3 DEF Same, Denoted
<1>5. Found(p, c) = {} => o.pool # p
  <2>1. SUFFICES ASSUME Found(p, c) = {} PROVE o.pool # p
    OBVIOUS
  <2>2. o.pool = Append(p, c) /\ Len(Append(p, c)) = Len(p) + 1 /\ Len(p) \in Nat
    BY <2>1 DEF Interned, Good
  <2> QED BY <2>2
<1>6. CASE o.pool = p
  \* a literal that was found is one that compares equal
  <2>1. PICK k : k \in Found(p, c)
    BY <1>5, <1>6
  <2>2. o.id = k
    BY <2>1, FoundOnce DEF Interned, Good
  <2>3. Same(e, c)
    BY <1>3, <2>1, <2>2, <1>6 DEF Found
  <2>4. Alike(Denoted(o.pool, o.id), r)
    BY <2>3, <1>4, LeafAlike
  <2>5. Answered(p, o, r)
    <3> HIDE DEF o, r
    <3> QED BY <2>4, <1>1, <1>2, <1>6 DEF Answered, Outcome
  <2> QED BY <2>5
<1>7. CASE o.pool # p
  <2>1. e = c
    BY <1>1, <1>3, <1>7
  <2>2. Denoted(o.pool, o.id) = r
    BY <2>1, <1>4
  <2>3. Answered(p, o, r)
    <3> HIDE DEF o, r
    <3> QED BY <2>2, <1>1, <1>2, <1>7 DEF Answered, Outcome
  <2> QED BY <2>3
<1> QED BY <1>6, <1>7

(* Every request, whatever its kind, is answered.                          *)
LEMMA EveryRequestAnswered ==
  ASSUME NEW p, Good(p)
  PROVE  /\ \A s \in Strings :
              /\ \A o \in FindOrCreateUtf8(p, s) : Answered(p, o, Meaning("Utf8", s, None, None))
              /\ \A o \in FindOrCreateString(p, s) : Answered(p, o, Meaning("String", s, None, None))
              /\ \A o \in FindOrCreateClass(p, s) : Answered(p, o, Meaning("Class", s, None, None))
         /\ \A n \in Ints : \A o \in FindOrCreateInt(p, n) :
              Answered(p, o, Meaning("Integer", n, None, None))
         /\ \A x \in Floats : \A o \in FindOrCreateFloat(p, x) :
              Answered(p, o, Meaning("Float", x, None, None))
         /\ \A n, t \in Strings : \A o \in FindOrCreateNaT(p, n, t) :
              Answered(p, o, Meaning("NameAndType", n, t, None))
         /\ \A c, n, t \in Strings :
              /\ \A o \in FindOrCreateFieldRef(p, c, n, t) : Answered(p, o, Meaning("FieldRef", c, n, t))
              /\ \A o \in FindOrCreateMethodRef(p, c, n, t) : Answered(p, o, Meaning("MethodRef", c, n, t))
<1>1. ASSUME NEW s \in Strings, NEW o \in FindOrCreateUtf8(p, s)
      PROVE  Answered(p, o, Meaning("Utf8", s, None, None))
  <2>1. /\ Utf8(s) \in Constants /\ Utf8(s).type = "Utf8" /\ Utf8(s).lit = s
        /\ Utf8(s).fst = 0 /\ Utf8(s).snd = 0
    BY DEF Utf8, Entry, Constants, Kinds, Literals
  <2>2. o = Interned(p, Utf8(s))
    BY DEF FindOrCreateUtf8
  <2> QED BY <2>1, <2>2, LeafAnswered
<1>2. ASSUME NEW n \in Ints, NEW o \in FindOrCreateInt(p, n)
      PROVE  Answered(p, o, Meaning("Integer", n, None, None))
  <2>1. /\ Integer(n) \in Constants /\ Integer(n).type = "Integer" /\ Integer(n).lit = n
        /\ Integer(n).fst = 0 /\ Integer(n).snd = 0
    BY DEF Integer, Entry, Constants, Kinds, Literals
  <2>2. o = Interned(p, Integer(n))
    BY DEF FindOrCreateInt
  <2> QED BY <2>1, <2>2, LeafAnswered
<1>3. ASSUME NEW x \in Floats, NEW o \in FindOrCreateFloat(p, x)
      PROVE  Answered(p, o, Meaning("Float", x, None, None))
  <2>1. /\ Float(x) \in Constants /\ Float(x).type = "Float" /\ Float(x).lit = x
        /\ Float(x).fst = 0 /\ Float(x).snd = 0
    BY DEF Float, Entry, Constants, Kinds, Literals
  <2>2. o = Interned(p, Float(x))
    BY DEF FindOrCreateFloat
  <2> QED BY <2>1, <2>2, LeafAnswered
<1>4. ASSUME NEW s \in Strings, NEW o \in FindOrCreateString(p, s)
      PROVE  Answered(p, o, Meaning("String", s, None, None))
  <2>1. Outcome(p, o, {"Utf8", "String"}) /\ IsText(o.pool, o.id, "String", s)
    BY StringOutcome
  <2>2. Denoted(o.pool, o.id) = Meaning("String", s, None, None)
    BY <2>1, DenotedText
  <2>3. Meaning("String", s, None, None) \in Meanings /\ Meaning("String", s, None, None).kind = "String"
    BY DEF Meaning, Meanings, Kinds, Literals
  <2> QED BY <2>1, <2>2, <2>3, AnsweredExactly
<1>5. ASSUME NEW s \in Strings, NEW o \in FindOrCreateClass(p, s)
      PROVE  Answered(p, o, Meaning("Class", s, None, None))
  <2>1. Outcome(p, o, {"Utf8", "Class"}) /\ IsText(o.pool, o.id, "Class", s)
    BY ClassOutcome
  <2>2. Denoted(o.pool, o.id) = Meaning("Class", s, None, None)
    BY <2>1, DenotedText
  <2>3. Meaning("Class", s, None, None) \in Meanings /\ Meaning("Class", s, None, None).kind = "Class"
    BY DEF Meaning, Meanings, Kinds, Literals
  <2> QED BY <2>1, <2>2, <2>3, AnsweredExactly
<1>6. ASSUME NEW n \in Strings, NEW t \in Strings, NEW o \in FindOrCreateNaT(p, n, t)
      PROVE  Answered(p, o, Meaning("NameAndType", n, t, None))
  <2>1. Outcome(p, o, {"Utf8", "NameAndType"}) /\ IsNaT(o.pool, o.id, n, t)
    BY NaTOutcome
  <2>2. Denoted(o.pool, o.id) = Meaning("NameAndType", n, t, None)
    BY <2>1, DenotedNaT
  <2>3. Meaning("NameAndType", n, t, None) \in Meanings /\ Meaning("NameAndType", n, t, None).kind = "NameAndType"
    BY DEF Meaning, Meanings, Kinds, Literals
  <2> QED BY <2>1, <2>2, <2>3, AnsweredExactly
<1>7. ASSUME NEW c \in Strings, NEW n \in Strings, NEW t \in Strings,
             NEW o \in FindOrCreateFieldRef(p, c, n, t)
      PROVE  Answered(p, o, Meaning("FieldRef", c, n, t))
  <2>1. Outcome(p, o, PartKinds \cup {"FieldRef"}) /\ IsRef(o.pool, o.id, "FieldRef", c, n, t)
    BY FieldRefOutcome
  <2>2. Denoted(o.pool, o.id) = Meaning("FieldRef", c, n, t)
    BY <2>1, DenotedRef
  <2>3. Meaning("FieldRef", c, n, t) \in Meanings /\ Meaning("FieldRef", c, n, t).kind = "FieldRef"
    BY DEF Meaning, Meanings, Kinds, Literals
  <2> QED BY <2>1, <2>2, <2>3, AnsweredExactly
<1>8. ASSUME NEW c \in Strings, NEW n \in Strings, NEW t \in Strings,
             NEW o \in FindOrCreateMethodRef(p, c, n, t)
      PROVE  Answered(p, o, Meaning("MethodRef", c, n, t))
  <2>1. Outcome(p, o, PartKinds \cup {"MethodRef"}) /\ IsRef(o.pool, o.id, "MethodRef", c, n, t)
    BY MethodRefOutcome
  <2>2. Denoted(o.pool, o.id) = Meaning("MethodRef", c, n, t)
    BY <2>1, DenotedRef
  <2>3. Meaning("MethodRef", c, n, t) \in Meanings /\ Meaning("MethodRef", c, n, t).kind = "MethodRef"
    BY DEF Meaning, Meanings, Kinds, Literals
  <2> QED BY <2>1, <2>2, <2>3, AnsweredExactly
<1> QED BY <1>1, <1>2, <1>3, <1>4, <1>5, <1>6, <1>7, <1>8

-----------------------------------------------------------------------------
(* Every step of the pool answers a request.                               *)
LEMMA StepAnswers ==
  ASSUME Good(pool), Next
  PROVE  \E o, r : /\ Answered(pool, o, r)
                  /\ pool' = o.pool /\ answer' = [req |-> r, id |-> o.id]
<1> DEFINE Goal == \E o, r : /\ Answered(pool, o, r)
                            /\ pool' = o.pool /\ answer' = [req |-> r, id |-> o.id]
<1>1. ASSUME NEW outcomes, NEW r, Answer(outcomes, r),
             \A o \in outcomes : Answered(pool, o, r)
      PROVE  Goal
  BY <1>1 DEF Answer
<1> HIDE DEF Goal
<1>2. ASSUME NEW s \in Strings, AskUtf8(s) \/ AskString(s) \/ AskClass(s) PROVE Goal
  BY <1>1, <1>2, EveryRequestAnswered DEF AskUtf8, AskString, AskClass
<1>3. ASSUME NEW n \in Ints, AskInt(n) PROVE Goal
  BY <1>1, <1>3, EveryRequestAnswered DEF AskInt
<1>4. ASSUME NEW x \in Floats, AskFloat(x) PROVE Goal
  BY <1>1, <1>4, EveryRequestAnswered DEF AskFloat
<1>5. ASSUME NEW n \in Strings, NEW t \in Strings, AskNaT(n, t) PROVE Goal
  BY <1>1, <1>5, EveryRequestAnswered DEF AskNaT
<1>6. ASSUME NEW c \in Strings, NEW n \in Strings, NEW t \in Strings,
             AskFieldRef(c, n, t) \/ AskMethodRef(c, n, t)
      PROVE  Goal
  BY <1>1, <1>6, EveryRequestAnswered DEF AskFieldRef, AskMethodRef
<1>7. Goal
  BY <1>2, <1>3, <1>4, <1>5, <1>6 DEF Next
<1> QED BY <1>7 DEF Goal
-----------------------------------------------------------------------------
(* The inductive invariant.  Good(pool) alone is inductive; the last       *)
(* answer is carried along because every step replaces it by a correct one.*)
IInv ==
  /\ Good(pool)
  /\ answer \in [req : Meanings \cup {NoRequest.req}, id : Nat]
  /\ AnswerDenotes

LEMMA InitIInv == Init => IInv
<1> SUFFICES ASSUME Init PROVE IInv
  OBVIOUS
<1>1. pool = <<>> /\ answer = NoRequest
  BY DEF Init
<1>2. Good(pool)
  BY <1>1 DEF Good, Resolves, Unique
<1> QED BY <1>1, <1>2 DEF IInv, AnswerDenotes, NoRequest

LEMMA NextIInv == IInv /\ [Next]_vars => IInv'
<1> SUFFICES ASSUME IInv, [Next]_vars PROVE IInv'
  OBVIOUS
<1>1. CASE UNCHANGED vars
  <2>1. pool' = pool /\ answer' = answer
    BY <1>1 DEF vars
  <2> QED BY <2>1 DEF IInv, Good, AnswerDenotes
<1>2. CASE Next
  <2>1. PICK o, r : /\ Answered(pool, o, r)
                    /\ pool' = o.pool /\ answer' = [req |-> r, id |-> o.id]
    BY <1>2, StepAnswers DEF IInv
  <2>2. Good(pool')
    BY <2>1 DEF Answered
  <2>3. DOMAIN pool' = 1..Len(pool') /\ Len(pool') \in Nat
    BY <2>2 DEF Good
  <2>4. answer'.id \in DOMAIN pool' /\ answer'.req = r /\ r \in Meanings
    BY <2>1, <2>3 DEF Answered
  <2>5. answer' \in [req : Meanings \cup {NoRequest.req}, id : Nat]
    BY <2>1, <2>3, <2>4
  <2>6. AnswerDenotes'
    BY <2>1, <2>4 DEF AnswerDenotes, Answered, Alike
  <2> QED BY <2>2, <2>5, <2>6 DEF IInv, Good
<1> QED BY <1>1, <1>2

LEMMA IInvHolds == Spec => []IInv
BY InitIInv, NextIInv, PTL DEF Spec

(* The pool and the answers are always well typed.                         *)
THEOREM TypeCorrect == Spec => []TypeOK
<1>1. IInv => TypeOK
  BY DEF IInv, TypeOK, Good
<1> QED BY <1>1, IInvHolds, PTL

(* No sequence of requests makes the pool hold two equal constants.        *)
THEOREM NoDuplicates == Spec => []PoolUnique
<1>1. IInv => PoolUnique
  BY DEF IInv, PoolUnique, Good
<1> QED BY <1>1, IInvHolds, PTL

(* Every index in the pool leads to an earlier entry of the right kind.    *)
THEOREM AlwaysResolves == Spec => []PoolResolves
<1>1. IInv => PoolResolves
  BY DEF IInv, PoolResolves, Good
<1> QED BY <1>1, IInvHolds, PTL

(* The index returned to the generator leads to what it asked for.         *)
THEOREM AnswersCorrect == Spec => []AnswerDenotes
<1>1. IInv => AnswerDenotes
  BY DEF IInv
<1> QED BY <1>1, IInvHolds, PTL

(* An index handed out once keeps its entry for good.                      *)
THEOREM Stability == Spec => IndicesStable
<1>1. IInv /\ [Next]_vars => [\A i \in DOMAIN pool : i \in DOMAIN pool' /\ pool'[i] = pool[i]]_vars
  <2> SUFFICES ASSUME IInv, Next
               PROVE  \A i \in DOMAIN pool : i \in DOMAIN pool' /\ pool'[i] = pool[i]
    OBVIOUS
  <2>1. PICK o, r : Answered(pool, o, r) /\ pool' = o.pool
    BY StepAnswers DEF IInv
  <2>2. Good(pool) /\ Good(pool') /\ Grows(pool, pool')
    BY <2>1 DEF IInv, Answered
  <2> QED BY <2>2 DEF Good, Grows
<1> QED BY <1>1, IInvHolds, PTL DEF Spec, IndicesStable
-----------------------------------------------------------------------------
(* The refinement: what the entries of a good pool denote.                 *)

Leaf(q, i) == i \in 1..Len(q) /\ q[i].type \in {"Utf8", "Integer", "Float"}

LEMMA EntryShapes ==
  ASSUME NEW q, Good(q), NEW i \in 1..Len(q)
  PROVE  /\ \A kind \in {"String", "Class"} :
              q[i].type = kind => \E s \in Strings : IsText(q, i, kind, s)
         /\ q[i].type = "NameAndType" => \E n, t \in Strings : IsNaT(q, i, n, t)
         /\ \A kind \in {"FieldRef", "MethodRef"} :
              q[i].type = kind => \E c, n, t \in Strings : IsRef(q, i, kind, c, n, t)
<1>1. /\ q \in Seq(Constants) /\ Len(q) \in Nat
      /\ \A j \in 1..Len(q) : q[j] \in Constants /\ EntryResolves(q, j)
  BY DEF Good, Resolves
<1>2. \A j \in 1..Len(q) : q[j] = Entry(q[j].type, q[j].lit, q[j].fst, q[j].snd)
  BY <1>1 DEF Constants, Entry
<1>3. \A j \in 1..Len(q) : \A u, kind :
        Points(q, j, u, kind) => u \in 1..Len(q) /\ q[u].type = kind
  BY <1>1 DEF Points
<1>4. ASSUME NEW u \in 1..Len(q), q[u].type = "Utf8"
      PROVE  \E s \in Strings : IsUtf8(q, u, s)
  BY <1>1, <1>2, <1>4 DEF IsUtf8, Utf8, Entry, EntryResolves
<1>5. ASSUME NEW u \in 1..Len(q), NEW kind \in {"String", "Class"}, q[u].type = kind
      PROVE  \E s \in Strings : IsText(q, u, kind, s)
  <2>1. q[u] = Entry(kind, None, q[u].fst, 0) /\ Points(q, u, q[u].fst, "Utf8")
    BY <1>1, <1>2, <1>5 DEF EntryResolves
  <2>2. PICK s \in Strings : IsUtf8(q, q[u].fst, s)
    BY <2>1, <1>3, <1>4
  <2> QED BY <2>1, <2>2 DEF IsText
<1>6. ASSUME NEW u \in 1..Len(q), q[u].type = "NameAndType"
      PROVE  \E n, t \in Strings : IsNaT(q, u, n, t)
  <2>1. /\ q[u] = NameAndType(q[u].fst, q[u].snd)
        /\ Points(q, u, q[u].fst, "Utf8") /\ Points(q, u, q[u].snd, "Utf8")
    BY <1>1, <1>2, <1>6 DEF EntryResolves, NameAndType
  <2>2. PICK n \in Strings : IsUtf8(q, q[u].fst, n)
    BY <2>1, <1>3, <1>4
  <2>3. PICK t \in Strings : IsUtf8(q, q[u].snd, t)
    BY <2>1, <1>3, <1>4
  <2> QED BY <2>1, <2>2, <2>3 DEF IsNaT
<1>7. ASSUME NEW kind \in {"FieldRef", "MethodRef"}, q[i].type = kind
      PROVE  \E c, n, t \in Strings : IsRef(q, i, kind, c, n, t)
  <2>1. /\ q[i] = Entry(kind, None, q[i].fst, q[i].snd)
        /\ Points(q, i, q[i].fst, "NameAndType") /\ Points(q, i, q[i].snd, "Class")
    BY <1>1, <1>2, <1>7 DEF EntryResolves
  <2>2. PICK n \in Strings, t \in Strings : IsNaT(q, q[i].fst, n, t)
    BY <2>1, <1>3, <1>6
  <2>3. PICK c \in Strings : IsText(q, q[i].snd, "Class", c)
    BY <2>1, <1>3, <1>5
  <2> QED BY <2>1, <2>2, <2>3 DEF IsRef
<1> QED BY <1>5, <1>6, <1>7

LEMMA EntryCases ==
  ASSUME NEW q, Good(q), NEW i \in 1..Len(q)
  PROVE  \/ Leaf(q, i)
         \/ \E kind \in {"String", "Class"}, s \in Strings : IsText(q, i, kind, s)
         \/ \E n, t \in Strings : IsNaT(q, i, n, t)
         \/ \E kind \in {"FieldRef", "MethodRef"}, c, n, t \in Strings : IsRef(q, i, kind, c, n, t)
<1>1. q[i].type \in Kinds
  <2>1. q[i] \in Constants
    BY DEF Good
  <2> QED BY <2>1 DEF Constants
<1>2. CASE q[i].type \in {"Utf8", "Integer", "Float"}
  BY <1>2 DEF Leaf
<1>3. CASE q[i].type \in {"String", "Class"}
  <2>1. \E s \in Strings : IsText(q, i, q[i].type, s)
    BY <1>3, EntryShapes
  <2> QED BY <1>3, <2>1
<1>4. CASE q[i].type = "NameAndType"
  BY <1>4, EntryShapes
<1>5. CASE q[i].type \in {"FieldRef", "MethodRef"}
  <2>1. \E c, n, t \in Strings : IsRef(q, i, q[i].type, c, n, t)
    BY <1>5, EntryShapes
  <2> QED BY <1>5, <2>1
<1> QED BY <1>1, <1>2, <1>3, <1>4, <1>5 DEF Kinds

LEMMA DenotedLeaf ==
  ASSUME NEW q, NEW i, Leaf(q, i)
  PROVE  Denoted(q, i) = Meaning(q[i].type, q[i].lit, None, None)
BY DEF Leaf, Denoted

LEMMA DenotedMeaning ==
  ASSUME NEW q, Good(q), NEW i \in 1..Len(q)
  PROVE  Denoted(q, i) \in Meanings
<1>1. \A k \in Kinds, a, b, c \in Literals : Meaning(k, a, b, c) \in Meanings
  BY DEF Meaning, Meanings
<1>2. Strings \subseteq Literals /\ None \in Literals
  BY DEF Literals
<1>3. CASE Leaf(q, i)
  <2>1. q[i] \in Constants
    BY DEF Good
  <2> QED BY <2>1, <1>1, <1>2, <1>3, DenotedLeaf DEF Constants
<1>4. ASSUME NEW kind \in {"String", "Class"}, NEW s \in Strings, IsText(q, i, kind, s)
      PROVE  Denoted(q, i) \in Meanings
  BY <1>1, <1>2, <1>4, DenotedText DEF Kinds
<1>5. ASSUME NEW n \in Strings, NEW t \in Strings, IsNaT(q, i, n, t)
      PROVE  Denoted(q, i) \in Meanings
  BY <1>1, <1>2, <1>5, DenotedNaT DEF Kinds
<1>6. ASSUME NEW kind \in {"FieldRef", "MethodRef"},
             NEW c \in Strings, NEW n \in Strings, NEW t \in Strings, IsRef(q, i, kind, c, n, t)
      PROVE  Denoted(q, i) \in Meanings
  BY <1>1, <1>2, <1>6, DenotedRef DEF Kinds
<1> QED BY <1>3, <1>4, <1>5, <1>6, EntryCases

(* Entries keep what they denote when the pool grows.                      *)
LEMMA DenotedKept ==
  ASSUME NEW p, NEW q, Good(p), Good(q), Grows(p, q), NEW i \in 1..Len(p)
  PROVE  Denoted(q, i) = Denoted(p, i)
<1>1. q[i] = p[i] /\ i \in 1..Len(q)
  BY DEF Grows, Good
<1>2. CASE Leaf(p, i)
  BY <1>1, <1>2, DenotedLeaf DEF Leaf
<1>3. ASSUME NEW kind \in {"String", "Class"}, NEW s \in Strings, IsText(p, i, kind, s)
      PROVE  Denoted(q, i) = Denoted(p, i)
  BY <1>3, Kept, DenotedText
<1>4. ASSUME NEW n \in Strings, NEW t \in Strings, IsNaT(p, i, n, t)
      PROVE  Denoted(q, i) = Denoted(p, i)
  BY <1>4, Kept, DenotedNaT
<1>5. ASSUME NEW kind \in {"FieldRef", "MethodRef"},
             NEW c \in Strings, NEW n \in Strings, NEW t \in Strings, IsRef(p, i, kind, c, n, t)
      PROVE  Denoted(q, i) = Denoted(p, i)
  <2>1. IsRef(q, i, kind, c, n, t)
    BY <1>1, <1>5, Kept DEF IsRef
  <2> QED BY <1>5, <2>1, DenotedRef
<1> QED BY <1>2, <1>3, <1>4, <1>5, EntryCases
(* In a good pool an entry is determined by what it denotes.               *)
LEMMA SameIndex ==
  ASSUME NEW q, Good(q), NEW i \in 1..Len(q), NEW j \in 1..Len(q),
         q[i] = q[j], q[i].type # "Float"
  PROVE  i = j
<1>1. Same(q[i], q[j])
  BY DEF Same
<1>2. DOMAIN q = 1..Len(q)
  BY DEF Good
<1> QED BY <1>1, <1>2 DEF Good, Unique

LEMMA UniqueUtf8 ==
  ASSUME NEW q, Good(q), NEW i, NEW j, NEW s, IsUtf8(q, i, s), IsUtf8(q, j, s)
  PROVE  i = j
BY SameIndex DEF IsUtf8, Utf8, Entry

LEMMA UniqueText ==
  ASSUME NEW q, Good(q), NEW i, NEW j, NEW kind \in {"String", "Class"}, NEW s,
         IsText(q, i, kind, s), IsText(q, j, kind, s)
  PROVE  i = j
<1>1. PICK u : q[i] = Entry(kind, None, u, 0) /\ IsUtf8(q, u, s)
  BY DEF IsText
<1>2. PICK v : q[j] = Entry(kind, None, v, 0) /\ IsUtf8(q, v, s)
  BY DEF IsText
<1>3. u = v
  BY <1>1, <1>2, UniqueUtf8
<1>4. q[i] = q[j] /\ q[i].type # "Float" /\ i \in 1..Len(q) /\ j \in 1..Len(q)
  BY <1>1, <1>2, <1>3 DEF Entry, IsText
<1> QED BY <1>4, SameIndex

LEMMA UniqueNaT ==
  ASSUME NEW q, Good(q), NEW i, NEW j, NEW n, NEW t, IsNaT(q, i, n, t), IsNaT(q, j, n, t)
  PROVE  i = j
<1>1. PICK a, b : q[i] = NameAndType(a, b) /\ IsUtf8(q, a, n) /\ IsUtf8(q, b, t)
  BY DEF IsNaT
<1>2. PICK x, y : q[j] = NameAndType(x, y) /\ IsUtf8(q, x, n) /\ IsUtf8(q, y, t)
  BY DEF IsNaT
<1>3. a = x /\ b = y
  BY <1>1, <1>2, UniqueUtf8
<1>4. q[i] = q[j] /\ q[i].type # "Float" /\ i \in 1..Len(q) /\ j \in 1..Len(q)
  BY <1>1, <1>2, <1>3 DEF NameAndType, Entry, IsNaT
<1> QED BY <1>4, SameIndex

LEMMA UniqueRef ==
  ASSUME NEW q, Good(q), NEW i, NEW j, NEW kind \in {"FieldRef", "MethodRef"},
         NEW c, NEW n, NEW t, IsRef(q, i, kind, c, n, t), IsRef(q, j, kind, c, n, t)
  PROVE  i = j
<1>1. PICK a, b : q[i] = Entry(kind, None, a, b) /\ IsNaT(q, a, n, t) /\ IsText(q, b, "Class", c)
  BY DEF IsRef
<1>2. PICK x, y : q[j] = Entry(kind, None, x, y) /\ IsNaT(q, x, n, t) /\ IsText(q, y, "Class", c)
  BY DEF IsRef
<1>3. a = x /\ b = y
  BY <1>1, <1>2, UniqueNaT, UniqueText
<1>4. q[i] = q[j] /\ q[i].type # "Float" /\ i \in 1..Len(q) /\ j \in 1..Len(q)
  BY <1>1, <1>2, <1>3 DEF Entry, IsRef
<1> QED BY <1>4, SameIndex

LEMMA DenotedUnique ==
  ASSUME NEW q, Good(q), NEW i \in 1..Len(q), NEW j \in 1..Len(q),
         Alike(Denoted(q, i), Denoted(q, j))
  PROVE  i = j
<1> DEFINE m == Denoted(q, i)
           w == Denoted(q, j)
<1>1. /\ m.kind = w.kind /\ m.b = w.b /\ m.c = w.c
      /\ IF m.kind = "Float" THEN <<m.a, w.a>> \in FloatEq ELSE m.a = w.a
  <2>1. <<m, w>> \in Likeness
    BY DEF Alike
  <2> HIDE DEF m, w
  <2> QED BY <2>1 DEF Likeness
<1>2. CASE Leaf(q, i) /\ Leaf(q, j)
  <2>1. /\ m = Meaning(q[i].type, q[i].lit, None, None)
        /\ w = Meaning(q[j].type, q[j].lit, None, None)
    BY <1>2, DenotedLeaf
  <2>2. q[i].fst = 0 /\ q[i].snd = 0 /\ q[j].fst = 0 /\ q[j].snd = 0
    BY <1>2 DEF Leaf, Good, Resolves, EntryResolves
  <2> HIDE DEF m, w
  <2>3. Same(q[i], q[j])
    BY <1>1, <2>1, <2>2 DEF Same, Meaning
  <2> QED BY <2>3 DEF Good, Unique
<1>3. \A k \in 1..Len(q) : Denoted(q, k).kind = q[k].type
  BY DEF Denoted, Meaning
<1>4. CASE Leaf(q, i) \/ Leaf(q, j)
  <2>1. q[i].type = q[j].type
    BY <1>1, <1>3
  <2> QED BY <2>1, <1>2, <1>4 DEF Leaf
<1>5. CASE ~Leaf(q, i) /\ ~Leaf(q, j)
  <2>1. q[i].type = q[j].type /\ q[i].type # "Float"
    BY <1>1, <1>3, <1>5 DEF Leaf
  <2>2. m.kind = w.kind /\ m.a = w.a /\ m.b = w.b /\ m.c = w.c
    <3>1. m.kind # "Float"
      BY <1>3, <2>1
    <3> HIDE DEF m, w
    <3> QED BY <3>1, <1>1
  <2>3. ASSUME NEW kind \in {"String", "Class"}, NEW s \in Strings, IsText(q, i, kind, s)
        PROVE  i = j
    <3>1. m = Meaning(kind, s, None, None)
      BY <2>3, DenotedText
    <3>2. q[j].type = kind
      BY <2>1, <2>3 DEF IsText, Entry
    <3>3. PICK v \in Strings : IsText(q, j, kind, v)
      BY <3>2, EntryShapes
    <3>4. w = Meaning(kind, v, None, None)
      BY <3>3, DenotedText
    <3>5. s = v
      <4> HIDE DEF m, w
      <4> QED BY <2>2, <3>1, <3>4 DEF Meaning
    <3> QED BY <2>3, <3>3, <3>5, UniqueText
  <2>4. ASSUME NEW n \in Strings, NEW t \in Strings, IsNaT(q, i, n, t)
        PROVE  i = j
    <3>1. m = Meaning("NameAndType", n, t, None)
      BY <2>4, DenotedNaT
    <3>2. q[j].type = "NameAndType"
      BY <2>1, <2>4 DEF IsNaT, NameAndType, Entry
    <3>3. PICK x \in Strings, y \in Strings : IsNaT(q, j, x, y)
      BY <3>2, EntryShapes
    <3>4. w = Meaning("NameAndType", x, y, None)
      BY <3>3, DenotedNaT
    <3>5. n = x /\ t = y
      <4> HIDE DEF m, w
      <4> QED BY <2>2, <3>1, <3>4 DEF Meaning
    <3> QED BY <2>4, <3>3, <3>5, UniqueNaT
  <2>5. ASSUME NEW kind \in {"FieldRef", "MethodRef"},
               NEW c \in Strings, NEW n \in Strings, NEW t \in Strings, IsRef(q, i, kind, c, n, t)
        PROVE  i = j
    <3>1. m = Meaning(kind, c, n, t)
      BY <2>5, DenotedRef
    <3>2. q[j].type = kind
      BY <2>1, <2>5 DEF IsRef, Entry
    <3>3. PICK z \in Strings, x \in Strings, y \in Strings : IsRef(q, j, kind, z, x, y)
      BY <3>2, EntryShapes
    <3>4. w = Meaning(kind, z, x, y)
      BY <3>3, DenotedRef
    <3>5. c = z /\ n = x /\ t = y
      <4> HIDE DEF m, w
      <4> QED BY <2>2, <3>1, <3>4 DEF Meaning
    <3> QED BY <2>5, <3>3, <3>5, UniqueRef
  <2> QED BY <1>5, <2>3, <2>4, <2>5, EntryCases
<1> QED BY <1>4, <1>5
Table == [i \in 1..Len(pool) |-> Denoted(pool, i)]

(* Every step of the pool is a step of the interner, or a stutter.         *)
LEMMA StepRefines ==
  ASSUME Good(pool), Next
  PROVE  Interning!Next
<1>1. PICK o, r : /\ Answered(pool, o, r)
                  /\ pool' = o.pool /\ answer' = [req |-> r, id |-> o.id]
  BY StepAnswers
<1>2. /\ Good(pool') /\ Grows(pool, pool') /\ r \in Meanings
      /\ o.id \in 1..Len(pool') /\ Len(pool) \in Nat /\ Len(pool') \in Nat
      /\ answer'.req = r /\ answer'.id = o.id
  BY <1>1 DEF Answered, Good
<1>3. /\ DOMAIN Table = 1..Len(pool) /\ DOMAIN Table' = 1..Len(pool')
      /\ \A i \in 1..Len(pool) : Table[i] = Denoted(pool, i)
      /\ \A i \in 1..Len(pool') : Table'[i] = Denoted(pool, i)'
  BY DEF Table
<1>4. Table \in Seq(Meanings) /\ Len(Table) = Len(pool)
  BY <1>2, DenotedMeaning DEF Table
<1>5. Table' \in Seq(Meanings) /\ Len(Table') = Len(pool')
  BY <1>2, DenotedMeaning DEF Table
<1>6. \A i \in 1..Len(pool) : Table'[i] = Table[i] /\ i \in 1..Len(pool')
  BY <1>2, <1>3, DenotedKept DEF Grows
<1>7. CASE pool' = pool /\ Alike(Denoted(pool', o.id), r)
  <2>1. Table' = Table
    BY <1>7 DEF Table
  <2>2. Interning!Hit(r, o.id)
    BY <2>1, <1>2, <1>3, <1>7 DEF Interning!Hit, Alike, Table
  <2> QED BY <2>2, <1>1, <1>2, <1>5 DEF Interning!Next, Table
<1>8. CASE /\ Len(pool) < Len(pool') /\ o.id = Len(pool')
           /\ Denoted(pool', o.id) = r
  <2>1. \A i, j \in 1..Len(pool') : i # j => <<Table'[i], Table'[j]>> \notin Likeness
    BY <1>2, <1>3, DenotedUnique DEF Alike
  <2>2. \A j \in 1..Len(pool) : <<Table[j], r>> \notin Likeness
    BY <2>1, <1>2, <1>3, <1>6, <1>8
  <2>3. Interning!Miss(r, o.id)
    <3>1. Interning!Extends(Table', Table)
      BY <1>2, <1>3, <1>4, <1>5, <1>6, <1>8 DEF Interning!Extends
    <3>2. Interning!Distinct(Table')
      BY <2>1, <1>3 DEF Interning!Distinct
    <3> QED BY <2>2, <3>1, <3>2, <1>3, <1>4, <1>5, <1>8 DEF Interning!Miss, Table
  <2> QED BY <2>3, <1>1, <1>2, <1>5 DEF Interning!Next, Table
<1> QED BY <1>1, <1>7, <1>8 DEF Answered

(* The pool implements the interner, whatever order the parts are made in. *)
THEOREM Refinement == Spec => ImplementsInterner
<1>1. Init => Interning!Init
  BY DEF Init, Interning!Init
<1>2. IInv /\ [Next]_vars => [Interning!Next]_(Interning!vars)
  <2> SUFFICES ASSUME IInv, [Next]_vars PROVE [Interning!Next]_(Interning!vars)
    OBVIOUS
  <2>1. CASE UNCHANGED vars
    BY <2>1 DEF vars, Interning!vars, Denoted
  <2>2. CASE Next
    BY <2>2, StepRefines DEF IInv
  <2> QED BY <2>1, <2>2
<1> QED BY <1>1, <1>2, IInvHolds, PTL DEF Spec, ImplementsInterner, Interning!Spec
=============================================================================
