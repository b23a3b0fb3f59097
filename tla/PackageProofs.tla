----------------------------- MODULE PackageProofs -----------------------------
(***************************************************************************)
(* Proofs about CompiledPackage, for all packages, hash functions and      *)
(* orders of evaluation: the compiler's own requests keep the pool of the  *)
(* class file sound.                                                       *)
(***************************************************************************)
EXTENDS CompiledPackage, WellFoundedInduction, FunctionTheorems, FiniteSetTheorems, TLAPS

P == INSTANCE ConstantPoolProofs WITH
  Ints <- Numbers, Floats <- Numbers, FloatEq <- {<<n, n>> : n \in Numbers},
  MaxPool <- 0, answer <- None

-----------------------------------------------------------------------------
(* The lemmas about the pool hold for the pool of the package.             *)

LEMMA PoolAssumption ==
  LET FloatEq == {<<n, n>> : n \in Numbers}
  IN  /\ FloatEq \subseteq Numbers \X Numbers
      /\ \A x, y \in Numbers : <<x, y>> \in FloatEq => <<y, x>> \in FloatEq
      /\ \A x, y, z \in Numbers :
           <<x, y>> \in FloatEq /\ <<y, z>> \in FloatEq => <<x, z>> \in FloatEq
OBVIOUS

LEMMA SameInterned == ASSUME NEW p, NEW c PROVE Pool!Interned(p, c) = P!Interned(p, c)
BY DEF Pool!Interned, P!Interned, Pool!Found, P!Found, Pool!Same, P!Same, Pool!First, P!First

LEMMA SameEntries ==
  /\ \A s : Pool!Utf8(s) = P!Utf8(s) /\ Pool!Integer(s) = P!Integer(s) /\ Pool!Float(s) = P!Float(s)
  /\ \A u : Pool!String(u) = P!String(u) /\ Pool!Class(u) = P!Class(u)
  /\ \A a, b : /\ Pool!NameAndType(a, b) = P!NameAndType(a, b)
               /\ Pool!FieldRef(a, b) = P!FieldRef(a, b)
               /\ Pool!MethodRef(a, b) = P!MethodRef(a, b)
BY DEF Pool!Utf8, P!Utf8, Pool!Integer, P!Integer, Pool!Float, P!Float, Pool!String, P!String,
       Pool!Class, P!Class, Pool!NameAndType, P!NameAndType, Pool!FieldRef, P!FieldRef,
       Pool!MethodRef, P!MethodRef, Pool!Entry, P!Entry

LEMMA SameUtf8 ==
  ASSUME NEW p, NEW s PROVE Pool!FindOrCreateUtf8(p, s) = P!FindOrCreateUtf8(p, s)
BY SameInterned, SameEntries DEF Pool!FindOrCreateUtf8, P!FindOrCreateUtf8

LEMMA SameInt ==
  ASSUME NEW p, NEW n PROVE Pool!FindOrCreateInt(p, n) = P!FindOrCreateInt(p, n)
BY SameInterned, SameEntries DEF Pool!FindOrCreateInt, P!FindOrCreateInt

LEMMA SameFloat ==
  ASSUME NEW p, NEW n PROVE Pool!FindOrCreateFloat(p, n) = P!FindOrCreateFloat(p, n)
BY SameInterned, SameEntries DEF Pool!FindOrCreateFloat, P!FindOrCreateFloat

LEMMA SameString ==
  ASSUME NEW p, NEW s, NEW o \in Pool!FindOrCreateString(p, s) PROVE o \in P!FindOrCreateString(p, s)
<1>1. PICK u \in Pool!FindOrCreateUtf8(p, s) : o = Pool!Interned(u.pool, Pool!String(u.id))
  BY DEF Pool!FindOrCreateString
<1>2. u \in P!FindOrCreateUtf8(p, s) /\ o = P!Interned(u.pool, P!String(u.id))
  BY <1>1, SameUtf8, SameInterned, SameEntries
<1> QED BY <1>2 DEF P!FindOrCreateString

LEMMA SameClass ==
  ASSUME NEW p, NEW s, NEW o \in Pool!FindOrCreateClass(p, s) PROVE o \in P!FindOrCreateClass(p, s)
<1>1. PICK u \in Pool!FindOrCreateUtf8(p, s) : o = Pool!Interned(u.pool, Pool!Class(u.id))
  BY DEF Pool!FindOrCreateClass
<1>2. u \in P!FindOrCreateUtf8(p, s) /\ o = P!Interned(u.pool, P!Class(u.id))
  BY <1>1, SameUtf8, SameInterned, SameEntries
<1> QED BY <1>2 DEF P!FindOrCreateClass

LEMMA SameNaT ==
  ASSUME NEW p, NEW a, NEW b, NEW o \in Pool!FindOrCreateNaT(p, a, b)
  PROVE  o \in P!FindOrCreateNaT(p, a, b)
<1>1. CASE \E n \in Pool!FindOrCreateUtf8(p, a) : \E t \in Pool!FindOrCreateUtf8(n.pool, b) :
             o = Pool!Interned(t.pool, Pool!NameAndType(n.id, t.id))
  <2>1. \E n \in P!FindOrCreateUtf8(p, a) : \E t \in P!FindOrCreateUtf8(n.pool, b) :
             o = P!Interned(t.pool, P!NameAndType(n.id, t.id))
    BY <1>1, SameUtf8, SameInterned, SameEntries
  <2> QED BY <2>1 DEF P!FindOrCreateNaT
<1>2. CASE \E t \in Pool!FindOrCreateUtf8(p, b) : \E n \in Pool!FindOrCreateUtf8(t.pool, a) :
             o = Pool!Interned(n.pool, Pool!NameAndType(n.id, t.id))
  <2>1. \E t \in P!FindOrCreateUtf8(p, b) : \E n \in P!FindOrCreateUtf8(t.pool, a) :
             o = P!Interned(n.pool, P!NameAndType(n.id, t.id))
    BY <1>2, SameUtf8, SameInterned, SameEntries
  <2> QED BY <2>1 DEF P!FindOrCreateNaT
<1> QED BY <1>1, <1>2 DEF Pool!FindOrCreateNaT

LEMMA SameParts ==
  ASSUME NEW p, NEW c, NEW n, NEW t, NEW o \in Pool!NaTAndClass(p, c, n, t)
  PROVE  o \in P!NaTAndClass(p, c, n, t)
<1>1. CASE \E nt \in Pool!FindOrCreateNaT(p, n, t) : \E k \in Pool!FindOrCreateClass(nt.pool, c) :
             o = [pool |-> k.pool, nat |-> nt.id, class |-> k.id]
  <2>1. \E nt \in P!FindOrCreateNaT(p, n, t) : \E k \in P!FindOrCreateClass(nt.pool, c) :
             o = [pool |-> k.pool, nat |-> nt.id, class |-> k.id]
    BY <1>1, SameNaT, SameClass
  <2> QED BY <2>1 DEF P!NaTAndClass
<1>2. CASE \E k \in Pool!FindOrCreateClass(p, c) : \E nt \in Pool!FindOrCreateNaT(k.pool, n, t) :
             o = [pool |-> nt.pool, nat |-> nt.id, class |-> k.id]
  <2>1. \E k \in P!FindOrCreateClass(p, c) : \E nt \in P!FindOrCreateNaT(k.pool, n, t) :
             o = [pool |-> nt.pool, nat |-> nt.id, class |-> k.id]
    BY <1>2, SameNaT, SameClass
  <2> QED BY <2>1 DEF P!NaTAndClass
<1> QED BY <1>1, <1>2 DEF Pool!NaTAndClass

LEMMA SameFieldRef ==
  ASSUME NEW p, NEW c, NEW n, NEW t, NEW o \in Pool!FindOrCreateFieldRef(p, c, n, t)
  PROVE  o \in P!FindOrCreateFieldRef(p, c, n, t)
<1>1. PICK a \in Pool!NaTAndClass(p, c, n, t) : o = Pool!Interned(a.pool, Pool!FieldRef(a.nat, a.class))
  BY DEF Pool!FindOrCreateFieldRef
<1>2. a \in P!NaTAndClass(p, c, n, t) /\ o = P!Interned(a.pool, P!FieldRef(a.nat, a.class))
  BY <1>1, SameParts, SameInterned, SameEntries
<1> QED BY <1>2 DEF P!FindOrCreateFieldRef

LEMMA SameMethodRef ==
  ASSUME NEW p, NEW c, NEW n, NEW t, NEW o \in Pool!FindOrCreateMethodRef(p, c, n, t)
  PROVE  o \in P!FindOrCreateMethodRef(p, c, n, t)
<1>1. PICK a \in Pool!NaTAndClass(p, c, n, t) : o = Pool!Interned(a.pool, Pool!MethodRef(a.nat, a.class))
  BY DEF Pool!FindOrCreateMethodRef
<1>2. a \in P!NaTAndClass(p, c, n, t) /\ o = P!Interned(a.pool, P!MethodRef(a.nat, a.class))
  BY <1>1, SameParts, SameInterned, SameEntries
<1> QED BY <1>2 DEF P!FindOrCreateMethodRef

-----------------------------------------------------------------------------
(* What the requests of the compiler do to a good pool.                    *)

Grown(p, q) == P!Good(q) /\ P!Grows(p, q)

LEMMA GrownSelf == ASSUME NEW p, P!Good(p) PROVE Grown(p, p)
BY DEF Grown, P!Good, P!Grows

LEMMA GrownTrans ==
  ASSUME NEW p, NEW q, NEW r, P!Good(p), Grown(p, q), Grown(q, r) PROVE Grown(p, r)
<1>1. p \in Seq(P!Constants) /\ q \in Seq(P!Constants) /\ r \in Seq(P!Constants)
  BY DEF Grown, P!Good
<1>2. P!Grows(p, q) /\ P!Grows(q, r) /\ P!Good(r)
  BY DEF Grown
<1>3. P!Grows(p, r)
  BY <1>1, <1>2, P!GrowsTrans
<1> QED BY <1>2, <1>3 DEF Grown

(* An index that was handed out is one of the pool.                        *)
Answers(p, o) == Grown(p, o.pool) /\ o.id \in 1 .. Len(o.pool)

LEMMA OutcomeAnswers ==
  ASSUME NEW p, NEW o, NEW K, P!Outcome(p, o, K) PROVE Answers(p, o)
BY DEF P!Outcome, Answers, Grown

LEMMA Utf8Request ==
  ASSUME NEW p, P!Good(p), NEW s \in Strings, NEW o \in Pool!FindOrCreateUtf8(p, s)
  PROVE  Answers(p, o) /\ P!IsUtf8(o.pool, o.id, s)
<1>1. o \in P!FindOrCreateUtf8(p, s)
  BY SameUtf8
<1>2. P!Outcome(p, o, {"Utf8"}) /\ P!IsUtf8(o.pool, o.id, s)
  BY <1>1, P!Utf8Outcome
<1> QED BY <1>2, OutcomeAnswers

LEMMA LeafRequest ==
  ASSUME NEW p, P!Good(p), NEW n \in Numbers,
         NEW o \in Pool!FindOrCreateInt(p, n) \cup Pool!FindOrCreateFloat(p, n)
  PROVE  Answers(p, o) /\ o.pool[o.id].type \in {"Integer", "Float"}
<1>1. P!Integer(n) \in P!Constants /\ P!Float(n) \in P!Constants
  BY DEF P!Integer, P!Float, P!Entry, P!Constants, P!Kinds, P!Literals
<1>2. ASSUME NEW c \in P!Constants, c = P!Integer(n) \/ c = P!Float(n)
      PROVE  /\ Answers(p, P!Interned(p, c))
             /\ P!Interned(p, c).pool[P!Interned(p, c).id].type \in {"Integer", "Float"}
  <2>1. /\ c.fst = 0 /\ c.snd = 0 /\ c.lit \in Numbers
        /\ c.type = "Integer" \/ c.type = "Float"
    BY <1>2 DEF P!Integer, P!Float, P!Entry
  <2>2. P!Outcome(p, P!Interned(p, c), {c.type})
    BY <2>1, P!LeafOutcome
  <2>3. P!Interned(p, c).pool[P!Interned(p, c).id].type = c.type
    <3>1. \/ P!Interned(p, c).pool[P!Interned(p, c).id] = c
          \/ /\ P!Same(P!Interned(p, c).pool[P!Interned(p, c).id], c)
             /\ P!Interned(p, c).pool = p
      BY ONLY P!Good(p), c \in P!Constants, n \in Numbers, <2>1, P!LeafOutcome, PoolAssumption
    <3> QED BY <3>1 DEF P!Same
  <2> QED BY <2>1, <2>2, <2>3, OutcomeAnswers
<1>3. o \in P!FindOrCreateInt(p, n) \/ o \in P!FindOrCreateFloat(p, n)
  BY SameInt, SameFloat
<1> QED BY <1>1, <1>2, <1>3 DEF P!FindOrCreateInt, P!FindOrCreateFloat

LEMMA TextRequest ==
  ASSUME NEW p, P!Good(p), NEW s \in Strings
  PROVE  /\ \A o \in Pool!FindOrCreateString(p, s) : Answers(p, o) /\ P!IsText(o.pool, o.id, "String", s)
         /\ \A o \in Pool!FindOrCreateClass(p, s) : Answers(p, o) /\ P!IsText(o.pool, o.id, "Class", s)
<1>1. ASSUME NEW o \in Pool!FindOrCreateString(p, s)
      PROVE  Answers(p, o) /\ P!IsText(o.pool, o.id, "String", s)
  <2>1. o \in P!FindOrCreateString(p, s)
    BY SameString
  <2>2. P!Outcome(p, o, {"Utf8", "String"}) /\ P!IsText(o.pool, o.id, "String", s)
    BY <2>1, P!StringOutcome
  <2> QED BY <2>2, OutcomeAnswers
<1>2. ASSUME NEW o \in Pool!FindOrCreateClass(p, s)
      PROVE  Answers(p, o) /\ P!IsText(o.pool, o.id, "Class", s)
  <2>1. o \in P!FindOrCreateClass(p, s)
    BY SameClass
  <2>2. P!Outcome(p, o, {"Utf8", "Class"}) /\ P!IsText(o.pool, o.id, "Class", s)
    BY <2>1, P!ClassOutcome
  <2> QED BY <2>2, OutcomeAnswers
<1> QED BY <1>1, <1>2

LEMMA FieldRefRequest ==
  ASSUME NEW p, P!Good(p), NEW c \in Strings, NEW n \in Strings, NEW t \in Strings,
         NEW o \in Pool!FindOrCreateFieldRef(p, c, n, t)
  PROVE  Answers(p, o) /\ P!IsRef(o.pool, o.id, "FieldRef", c, n, t)
<1>1. o \in P!FindOrCreateFieldRef(p, c, n, t)
  BY SameFieldRef
<1>2. P!Outcome(p, o, P!PartKinds \cup {"FieldRef"}) /\ P!IsRef(o.pool, o.id, "FieldRef", c, n, t)
  BY <1>1, P!FieldRefOutcome DEF P!PartKinds
<1> QED BY <1>2, OutcomeAnswers

LEMMA MethodRefRequest ==
  ASSUME NEW p, P!Good(p), NEW c \in Strings, NEW n \in Strings, NEW t \in Strings,
         NEW o \in Pool!FindOrCreateMethodRef(p, c, n, t)
  PROVE  Answers(p, o) /\ P!IsRef(o.pool, o.id, "MethodRef", c, n, t)
<1>1. o \in P!FindOrCreateMethodRef(p, c, n, t)
  BY SameMethodRef
<1>2. P!Outcome(p, o, P!PartKinds \cup {"MethodRef"}) /\ P!IsRef(o.pool, o.id, "MethodRef", c, n, t)
  BY <1>1, P!MethodRefOutcome DEF P!PartKinds
<1> QED BY <1>2, OutcomeAnswers

LEMMA KnownTexts ==
  /\ \A s \in {"Code", ThisClass, Object, "<init>", "<clinit>", "()V", "$Base", "print", "java/lang/String",
                "concat", "(Ljava/lang/String;)Ljava/lang/String;"} : s \in Strings
  /\ \A type : Descriptor(type) \in Strings /\ PrintDescriptor(type) \in Strings
  /\ \A m : MethodDescriptor(m) \in Strings
<1>1. \A type : Descriptor(type) \in Descriptors
  BY DEF Descriptor, Descriptors
<1>2. \A d \in Descriptors : d \in Strings /\ "()" \o d \in Strings /\ "([Ljava/lang/String;)" \o d \in Strings
                             /\ "(" \o d \o ")V" \in Strings
  BY StringsAssumption
<1>3. ASSUME NEW type PROVE PrintDescriptor(type) \in Strings
  <2>1. PICK d \in Descriptors : PrintDescriptor(type) = "(" \o d \o ")V"
    BY <1>1 DEF PrintDescriptor, Descriptors
  <2> QED BY <1>2, <2>1
<1>4. ASSUME NEW m PROVE MethodDescriptor(m) \in Strings
  <2>1. \/ MethodDescriptor(m) = "()" \o Descriptor(m.type)
        \/ MethodDescriptor(m) = "([Ljava/lang/String;)" \o Descriptor(m.type)
    BY DEF MethodDescriptor
  <2>2. Descriptor(m.type) \in Descriptors
    BY <1>1
  <2> QED BY <1>2, <2>1, <2>2
<1>5. \A s \in {"Code", ThisClass, Object, "<init>", "<clinit>", "()V", "$Base", "print", "java/lang/String",
                "concat", "(Ljava/lang/String;)Ljava/lang/String;"} : s \in Strings
  BY StringsAssumption
<1> QED BY <1>1, <1>2, <1>3, <1>4, <1>5

-----------------------------------------------------------------------------
(* The code of expressions.                                                *)

IsSequence(s) == \E S : s \in Seq(S)

(* What an instruction refers to: members of the class that are among refs *)
(* and calls, a literal, or what the library has.                          *)
Loaded(q, n) ==
  n \in 1 .. Len(q) /\ (q[n].type \in {"Integer", "Float"} \/ \E s : P!IsText(q, n, "String", s))

Printed == Ints \cup Reals \cup {"String"}

Linked(q, i, refs, calls) ==
  /\ i[1] \in {"getstatic", "putstatic"} => i[2] \in refs
  /\ i[1] = "invokestatic" => i[2] \in calls
  /\ i[1] = "ldc" => Loaded(q, i[2])
  /\ i[1] = "concat" =>
       P!IsRef(q, i[2], "MethodRef", "java/lang/String", "concat", "(Ljava/lang/String;)Ljava/lang/String;")
  /\ i[1] = "print" =>
       \E t \in {"Int", "Float", "String"} :
         P!IsRef(q, i[2], "MethodRef", "$Base", "print", PrintDescriptor(t))
  /\ i[1] = "super init" => P!IsRef(q, i[2], "MethodRef", Object, "<init>", "()V")

AllLinked(q, code, refs, calls) == \A k \in DOMAIN code : Linked(q, code[k], refs, calls)

LEMMA LinkedGrows ==
  ASSUME NEW p, NEW q, P!Good(p), Grown(p, q), NEW i, NEW refs, NEW calls, NEW more, NEW others,
         Linked(p, i, refs, calls), refs \subseteq more, calls \subseteq others
  PROVE  Linked(q, i, more, others)
<1>1. /\ \A n, k, s : P!IsText(p, n, k, s) => P!IsText(q, n, k, s)
      /\ \A n, k, c, m, t : P!IsRef(p, n, k, c, m, t) => P!IsRef(q, n, k, c, m, t)
  <2>1. P!Good(q) /\ P!Grows(p, q)
    BY DEF Grown
  <2>2. /\ \A n, k, s : P!IsText(p, n, k, s) => P!IsText(q, n, k, s)
        /\ \A n, m, t : P!IsNaT(p, n, m, t) => P!IsNaT(q, n, m, t)
    BY <2>1, P!Kept
  <2>3. 1 .. Len(p) \subseteq 1 .. Len(q) /\ \A n \in 1 .. Len(p) : q[n] = p[n]
    BY <2>1 DEF P!Good, P!Grows
  <2> QED BY <2>2, <2>3 DEF P!IsRef
<1>2. Len(p) \in Nat /\ Len(q) \in Nat /\ Len(p) <= Len(q) /\ \A n \in 1 .. Len(p) : q[n] = p[n]
  BY DEF Grown, P!Grows, P!Good
<1>3. \A n : Loaded(p, n) => Loaded(q, n)
  BY <1>1, <1>2 DEF Loaded
<1> QED BY <1>1, <1>3 DEF Linked

LEMMA AllLinkedGrows ==
  ASSUME NEW p, NEW q, P!Good(p), Grown(p, q), NEW code, NEW refs, NEW calls, NEW more, NEW others,
         AllLinked(p, code, refs, calls), refs \subseteq more, calls \subseteq others
  PROVE  AllLinked(q, code, more, others)
BY LinkedGrows DEF AllLinked

LEMMA OneLinked ==
  ASSUME NEW i, NEW q, NEW refs, NEW calls, Linked(q, i, refs, calls) PROVE AllLinked(q, <<i>>, refs, calls)
<1>1. DOMAIN <<i>> = {1} /\ <<i>>[1] = i
  OBVIOUS
<1> QED BY <1>1 DEF AllLinked

LEMMA TwoLinked ==
  ASSUME NEW i, NEW j, NEW q, NEW refs, NEW calls, Linked(q, i, refs, calls), Linked(q, j, refs, calls)
  PROVE  AllLinked(q, <<i, j>>, refs, calls)
<1>1. DOMAIN <<i, j>> = {1, 2} /\ <<i, j>>[1] = i /\ <<i, j>>[2] = j
  OBVIOUS
<1> QED BY <1>1 DEF AllLinked

LEMMA LinkedAppend ==
  ASSUME NEW code, IsSequence(code), NEW i, NEW q, NEW refs, NEW calls,
         AllLinked(q, code, refs, calls), Linked(q, i, refs, calls)
  PROVE  AllLinked(q, Append(code, i), refs, calls)
<1>1. PICK S : code \in Seq(S)
  BY DEF IsSequence
<1>2. \A k \in DOMAIN Append(code, i) :
        Append(code, i)[k] = i \/ (k \in DOMAIN code /\ Append(code, i)[k] = code[k])
  BY <1>1
<1> HIDE DEF Linked
<1> QED BY <1>2 DEF AllLinked

LEMMA LinkedJoined ==
  ASSUME NEW a, IsSequence(a), NEW b, IsSequence(b), NEW q, NEW refs, NEW calls,
         AllLinked(q, a, refs, calls), AllLinked(q, b, refs, calls)
  PROVE  AllLinked(q, a \o b, refs, calls)
<1>1. PICK S : a \in Seq(S)
  BY DEF IsSequence
<1>2. PICK T : b \in Seq(T)
  BY DEF IsSequence
<1>3. a \in Seq(S \cup T) /\ b \in Seq(S \cup T)
  BY <1>1, <1>2
<1>4. /\ Len(a) \in Nat /\ Len(b) \in Nat /\ DOMAIN (a \o b) = 1 .. (Len(a) + Len(b))
      /\ DOMAIN a = 1 .. Len(a) /\ DOMAIN b = 1 .. Len(b)
      /\ \A k \in 1 .. Len(a) : (a \o b)[k] = a[k]
      /\ \A k \in (Len(a) + 1) .. (Len(a) + Len(b)) : (a \o b)[k] = b[k - Len(a)]
  BY <1>3
<1>5. ASSUME NEW k \in DOMAIN (a \o b) PROVE Linked(q, (a \o b)[k], refs, calls)
  <2>1. CASE k \in DOMAIN a
    BY <1>4, <2>1 DEF AllLinked
  <2>2. CASE k \notin DOMAIN a
    <3>1. k \in (Len(a) + 1) .. (Len(a) + Len(b)) /\ k - Len(a) \in DOMAIN b
      BY <1>4, <2>2
    <3> QED BY <1>4, <3>1 DEF AllLinked
  <2> QED BY <2>1, <2>2
<1> QED BY <1>5 DEF AllLinked

(* The code of an expression.                                              *)
ExpressionOps == {"iconst", "ldc", "getstatic", "invokestatic", "concat", "iadd", "fadd"}

InCode(q, i, refs, calls) == i[1] \in ExpressionOps /\ Linked(q, i, refs, calls)

Coded(code, q, refs, calls) == IsSequence(code) /\ \A k \in DOMAIN code : InCode(q, code[k], refs, calls)

LEMMA CodedGrows ==
  ASSUME NEW p, NEW q, P!Good(p), Grown(p, q), NEW code, NEW refs, NEW calls, Coded(code, p, refs, calls)
  PROVE  Coded(code, q, refs, calls)
BY LinkedGrows DEF Coded, InCode

LEMMA JoinedCode ==
  ASSUME NEW q, NEW refs, NEW calls, NEW a, Coded(a, q, refs, calls), NEW b, Coded(b, q, refs, calls)
  PROVE  Coded(a \o b, q, refs, calls)
<1>1. PICK S : a \in Seq(S)
  BY DEF Coded, IsSequence
<1>2. PICK T : b \in Seq(T)
  BY DEF Coded, IsSequence
<1>3. a \in Seq(S \cup T) /\ b \in Seq(S \cup T)
  BY <1>1, <1>2
<1>4. /\ a \o b \in Seq(S \cup T)
      /\ Len(a) \in Nat /\ Len(b) \in Nat /\ Len(a \o b) = Len(a) + Len(b)
      /\ \A k \in 1 .. Len(a) : (a \o b)[k] = a[k]
      /\ \A k \in (Len(a) + 1) .. (Len(a) + Len(b)) : (a \o b)[k] = b[k - Len(a)]
  BY <1>3
<1>5. ASSUME NEW k \in DOMAIN (a \o b) PROVE InCode(q, (a \o b)[k], refs, calls)
  <2>1. k \in 1 .. (Len(a) + Len(b))
    BY <1>4
  <2>2. CASE k <= Len(a)
    <3>1. k \in 1 .. Len(a)
      BY <2>1, <2>2, <1>4
    <3>2. k \in DOMAIN a /\ (a \o b)[k] = a[k]
      BY <3>1, <1>3, <1>4
    <3> QED BY <3>2 DEF Coded
  <2>3. CASE ~(k <= Len(a))
    <3>1. k \in (Len(a) + 1) .. (Len(a) + Len(b)) /\ k - Len(a) \in 1 .. Len(b)
      BY <2>1, <2>3, <1>4
    <3>2. k - Len(a) \in DOMAIN b /\ (a \o b)[k] = b[k - Len(a)]
      BY <3>1, <1>3, <1>4
    <3> QED BY <3>2 DEF Coded
  <2> QED BY <2>2, <2>3
<1> QED BY <1>4, <1>5 DEF Coded, IsSequence

LEMMA OneInstruction ==
  ASSUME NEW i, NEW q, NEW refs, NEW calls, InCode(q, i, refs, calls)
  PROVE  Coded(<<i>>, q, refs, calls)
<1>1. <<i>> \in Seq({i}) /\ DOMAIN <<i>> = {1} /\ <<i>>[1] = i
  OBVIOUS
<1> QED BY <1>1 DEF Coded, IsSequence

(* The outcomes of a function of the generator that starts from pool p.    *)
Emits(p, outcomes, refs, calls) ==
  \A r \in outcomes : Grown(p, r.pool) /\ Coded(r.code, r.pool, refs, calls)

(* An operand that reads or calls a member does so by its reference.       *)
Refers(o, refs, calls) ==
  (o.kind = "read" => context[o.id] \in refs) /\ (o.kind = "apply" => context[o.id] \in calls)

LEMMA OperandEmits ==
  ASSUME NEW p, P!Good(p), NEW o \in Operands, NEW type, NEW refs, NEW calls, Refers(o, refs, calls)
  PROVE  Emits(p, OperandCode(p, o, type), refs, calls)
<1> SUFFICES ASSUME NEW r \in OperandCode(p, o, type)
             PROVE  Grown(p, r.pool) /\ Coded(r.code, r.pool, refs, calls)
  BY DEF Emits
<1>1. o.kind \in {"literal", "read", "apply"}
  BY DEF Operands
<1>2. ASSUME NEW op, NEW n, NEW q, InCode(q, <<op, n>>, refs, calls), Grown(p, q), r = [pool |-> q, code |-> <<<<op, n>>>>]
      PROVE  Grown(p, r.pool) /\ Coded(r.code, r.pool, refs, calls)
  <2>1. r.pool = q /\ r.code = <<<<op, n>>>>
    BY <1>2
  <2> QED BY <1>2, <2>1, OneInstruction
<1>3. CASE o.kind = "read"
  <2>1. r = [pool |-> p, code |-> <<<<"getstatic", context[o.id]>>>>]
    BY <1>3 DEF OperandCode
  <2>2. InCode(p, <<"getstatic", context[o.id]>>, refs, calls)
    BY <1>3 DEF InCode, Linked, ExpressionOps, Refers
  <2> QED BY <1>2, <2>1, <2>2, GrownSelf
<1>4. CASE o.kind = "apply"
  <2>1. r = [pool |-> p, code |-> <<<<"invokestatic", context[o.id]>>>>]
    BY <1>4 DEF OperandCode
  <2>2. InCode(p, <<"invokestatic", context[o.id]>>, refs, calls)
    BY <1>4 DEF InCode, Linked, ExpressionOps, Refers
  <2> QED BY <1>2, <2>1, <2>2, GrownSelf
<1>5. CASE o.kind = "literal"
  <2>1. r \in LiteralCode(p, o, type)
    BY <1>5 DEF OperandCode
  <2>2. o.type = "String" => o.id \in Strings
    BY <1>5 DEF Operands
  <2>3. o.type # "String" => o.value \in Numbers
    BY <1>5 DEF Operands
  <2>4. ASSUME NEW a, Grown(p, a.pool), Loaded(a.pool, a.id), r = [pool |-> a.pool, code |-> <<<<"ldc", a.id>>>>]
        PROVE  Grown(p, r.pool) /\ Coded(r.code, r.pool, refs, calls)
    <3>1. InCode(a.pool, <<"ldc", a.id>>, refs, calls)
      BY <2>4 DEF InCode, Linked, ExpressionOps
    <3> QED BY <1>2, <2>4, <3>1
  <2>5. CASE o.type = "UntypedInt" /\ type \notin Reals
    <3>1. r \in IntToPool(p, o.value) /\ o.value \in Numbers
      BY <2>1, <2>3, <2>5 DEF LiteralCode
    <3>2. \/ r = [pool |-> p, code |-> <<<<"iconst", o.value>>>>]
          \/ \E a \in Pool!FindOrCreateInt(p, o.value) : r = [pool |-> a.pool, code |-> <<<<"ldc", a.id>>>>]
      BY <3>1 DEF IntToPool
    <3>3. InCode(p, <<"iconst", o.value>>, refs, calls)
      BY DEF InCode, Linked, ExpressionOps
    <3>4. CASE r = [pool |-> p, code |-> <<<<"iconst", o.value>>>>]
      BY <1>2, <3>3, <3>4, GrownSelf
    <3> QED BY <3>1, <3>2, <3>4, <2>4, LeafRequest DEF Answers, Loaded
  <2>6. CASE ~(o.type = "UntypedInt" /\ type \notin Reals)
    <3>1. \E a \in IF o.type = "String" THEN Pool!FindOrCreateString(p, o.id) ELSE Pool!FindOrCreateFloat(p, o.value) :
            r = [pool |-> a.pool, code |-> <<<<"ldc", a.id>>>>]
      BY <2>1, <2>6 DEF LiteralCode
    <3> QED BY <3>1, <2>2, <2>3, <2>4, TextRequest, LeafRequest DEF Answers, Loaded
  <2> QED BY <2>5, <2>6
<1> QED BY <1>1, <1>3, <1>4, <1>5

LEMMA AddEmits ==
  ASSUME NEW p, P!Good(p), NEW type, NEW refs, NEW calls PROVE Emits(p, AddCode(p, type), refs, calls)
<1> SUFFICES ASSUME NEW r \in AddCode(p, type)
             PROVE  Grown(p, r.pool) /\ Coded(r.code, r.pool, refs, calls)
  BY DEF Emits
<1>1. CASE type = "String"
  <2>1. PICK a \in Pool!FindOrCreateMethodRef(p, "java/lang/String", "concat",
                                             "(Ljava/lang/String;)Ljava/lang/String;") :
          r = [pool |-> a.pool, code |-> <<<<"concat", a.id>>>>]
    BY <1>1 DEF AddCode
  <2>2. /\ Answers(p, a)
        /\ P!IsRef(a.pool, a.id, "MethodRef", "java/lang/String", "concat", "(Ljava/lang/String;)Ljava/lang/String;")
    BY KnownTexts, MethodRefRequest
  <2>3. InCode(a.pool, <<"concat", a.id>>, refs, calls)
    BY <2>2 DEF InCode, Linked, ExpressionOps
  <2>4. r.pool = a.pool /\ r.code = <<<<"concat", a.id>>>>
    BY <2>1
  <2>5. Coded(r.code, r.pool, refs, calls)
    BY <2>3, <2>4, OneInstruction
  <2> QED BY <2>2, <2>4, <2>5 DEF Answers
<1>2. CASE type # "String"
  <2>1. PICK op \in {"iadd", "fadd"} : r.pool = p /\ r.code = <<<<op, 0>>>>
    BY <1>2 DEF AddCode
  <2>2. InCode(p, <<op, 0>>, refs, calls)
    BY DEF InCode, Linked, ExpressionOps
  <2> QED BY <2>1, <2>2, GrownSelf, OneInstruction
<1> QED BY <1>1, <1>2

(* Two functions of the generator, one after the other.                    *)
LEMMA JoinedEmits ==
  ASSUME NEW p, P!Good(p), NEW refs, NEW calls, NEW a, Grown(p, a.pool), Coded(a.code, a.pool, refs, calls),
         NEW t, Grown(a.pool, t.pool), Coded(t.code, t.pool, refs, calls),
         NEW r, r = [pool |-> t.pool, code |-> a.code \o t.code]
  PROVE  Grown(p, r.pool) /\ Coded(r.code, r.pool, refs, calls)
<1>1. r.pool = t.pool /\ r.code = a.code \o t.code
  OBVIOUS
<1>2. Coded(a.code, t.pool, refs, calls)
  BY CodedGrows DEF Grown
<1>3. Coded(a.code \o t.code, t.pool, refs, calls)
  BY <1>2, JoinedCode
<1>4. Grown(p, t.pool)
  BY GrownTrans
<1> QED BY <1>1, <1>3, <1>4

LEMMA WithOperandEmits ==
  ASSUME NEW p, P!Good(p), NEW refs, NEW calls, NEW outcomes, Emits(p, outcomes, refs, calls),
         NEW e, NEW i, e[i] \in Operands, Refers(e[i], refs, calls)
  PROVE  Emits(p, WithOperand(outcomes, e, i), refs, calls)
<1> DEFINE type == TypeUpTo(e, i)
           sum == SumTypeAt(e, i)
<1> SUFFICES ASSUME NEW r \in WithOperand(outcomes, e, i)
             PROVE  Grown(p, r.pool) /\ Coded(r.code, r.pool, refs, calls)
  BY DEF Emits
<1>1. PICK b \in Followed(outcomes, LAMBDA q : OperandCode(q, e[i], type)) :
        \E t \in AddCode(b.pool, sum) : r = [pool |-> t.pool, code |-> b.code \o t.code]
  BY DEF WithOperand, Followed
<1>2. PICK a \in outcomes : \E t \in OperandCode(a.pool, e[i], type) :
        b = [pool |-> t.pool, code |-> a.code \o t.code]
  BY DEF Followed
<1>3. Grown(p, a.pool) /\ Coded(a.code, a.pool, refs, calls) /\ P!Good(a.pool)
  BY DEF Emits, Grown
<1>4. Grown(p, b.pool) /\ Coded(b.code, b.pool, refs, calls) /\ P!Good(b.pool)
  <2>1. PICK t \in OperandCode(a.pool, e[i], type) : b = [pool |-> t.pool, code |-> a.code \o t.code]
    BY <1>2
  <2>2. Grown(a.pool, t.pool) /\ Coded(t.code, t.pool, refs, calls)
    BY <1>3, OperandEmits DEF Emits
  <2>3. Grown(p, b.pool) /\ Coded(b.code, b.pool, refs, calls)
    BY <1>3, <2>1, <2>2, JoinedEmits
  <2> QED BY <2>3 DEF Grown
<1>5. PICK t \in AddCode(b.pool, sum) : r = [pool |-> t.pool, code |-> b.code \o t.code]
  BY <1>1
<1>6. Grown(b.pool, t.pool) /\ Coded(t.code, t.pool, refs, calls)
  BY <1>4, AddEmits DEF Emits
<1> QED BY <1>4, <1>5, <1>6, JoinedEmits

LEMMA LeastNumber ==
  ASSUME NEW T \in SUBSET Nat, T # {} PROVE \E m \in T : \A k \in T : m <= k
<1> DEFINE R == OpToRel(<, Nat)
<1>1. PICK m \in T : \A k \in T : ~(<<k, m>> \in R)
  <2>1. IsWellFoundedOn(R, Nat)
    BY NatLessThanWellFounded
  <2> HIDE DEF R
  <2> QED BY <2>1, WFMin
<1>2. ASSUME NEW k \in T PROVE m <= k
  <2>1. <<k, m>> \in Nat \X Nat /\ ~(<<k, m>> \in R)
    BY <1>1
  <2>2. ~(k < m) /\ k \in Nat /\ m \in Nat
    BY <2>1 DEF OpToRel
  <2> HIDE DEF R
  <2> QED BY <2>2
<1> QED BY <1>2

(* A set of numbers that has zero, and the successor of each, has all.     *)
LEMMA CountingUp ==
  ASSUME NEW S, 0 \in S, \A n \in Nat : n \in S => n + 1 \in S
  PROVE  Nat \subseteq S
<1> DEFINE Without == {n \in Nat : n \notin S}
<1>1. SUFFICES ASSUME Without # {} PROVE FALSE
  OBVIOUS
<1>2. PICK n \in Without : \A k \in Without : n <= k
  <2>1. Without \in SUBSET Nat
    OBVIOUS
  <2> HIDE DEF Without
  <2> QED BY <1>1, <2>1, LeastNumber
<1>3. n \in Nat /\ n \notin S /\ n # 0 /\ n - 1 \in Nat /\ (n - 1) + 1 = n
  OBVIOUS
<1>4. n - 1 \notin Without
  BY <1>2, <1>3
<1> QED BY <1>3, <1>4

-----------------------------------------------------------------------------
(* What FlattenSeq makes of sequences: it has the entries of all of them,  *)
(* each at a place of its own.                                             *)

Joined(seqs, join, i) == IF i = 1 THEN seqs[i] ELSE join[i - 1] \o seqs[i]

LEMMA JoinExists ==
  ASSUME NEW seqs, NEW n \in Nat PROVE \E join : join = [i \in 1 .. n |-> Joined(seqs, join, i)]
<1> DEFINE Is(m, join) == join = [i \in 1 .. m |-> Joined(seqs, join, i)]
           With == {m \in Nat : \E join : Is(m, join)}
<1>1. 0 \in With
  <2>1. Is(0, <<>>)
    OBVIOUS
  <2> HIDE DEF Is
  <2> QED BY <2>1
<1>2. ASSUME NEW m \in Nat, m \in With PROVE m + 1 \in With
  <2>1. PICK f : Is(m, f)
    BY <1>2
  <2> DEFINE g == [i \in 1 .. (m + 1) |-> Joined(seqs, f, i)]
  <2>2. \A i \in 1 .. m : g[i] = f[i]
    BY <2>1
  <2>3. ASSUME NEW i \in 1 .. (m + 1) PROVE Joined(seqs, g, i) = Joined(seqs, f, i)
    <3>1. i # 1 => g[i - 1] = f[i - 1]
      <4>1. i # 1 => i - 1 \in 1 .. m
        OBVIOUS
      <4> HIDE DEF g
      <4> QED BY <4>1, <2>2
    <3> HIDE DEF g
    <3> QED BY <3>1 DEF Joined
  <2>4. Is(m + 1, g)
    BY <2>3
  <2> HIDE DEF Is, g
  <2> QED BY <2>4
<1>3. n \in With
  <2> HIDE DEF With
  <2> QED BY <1>1, <1>2, CountingUp
<1> QED BY <1>3

LEMMA FlattenIs ==
  ASSUME NEW S, NEW seqs \in Seq(S), seqs # <<>>
  PROVE  \E join : /\ \A i \in DOMAIN seqs : join[i] = Joined(seqs, join, i)
                   /\ FlattenSeq(seqs) = join[Len(seqs)]
<1> DEFINE Is(f) == f = [i \in 1 .. Len(seqs) |-> Joined(seqs, f, i)]
           join == CHOOSE f : Is(f)
<1>1. DOMAIN seqs = 1 .. Len(seqs) /\ Len(seqs) \in Nat /\ Len(seqs) # 0
  OBVIOUS
<1>2. \E f : Is(f)
  <2>1. PICK f : f = [i \in 1 .. Len(seqs) |-> Joined(seqs, f, i)]
    BY <1>1, JoinExists
  <2> QED BY <2>1
<1>3. Is(join)
  <2> HIDE DEF Is
  <2> QED BY <1>2
<1>4. FlattenSeq(seqs) = join[Len(seqs)]
  BY <1>1 DEF FlattenSeq, Joined
<1>5. \A i \in DOMAIN seqs : join[i] = Joined(seqs, join, i)
  <2> HIDE DEF join
  <2> QED BY <1>1, <1>3
<1> HIDE DEF join
<1> QED BY <1>4, <1>5

(* The entry at place k of the i-th sequence.                              *)
Inside(seqs, n, i, k) == i \in 1 .. n /\ k \in DOMAIN seqs[i]

Comes(seqs, n, r) ==
  \A a \in DOMAIN r : \E i, k : Inside(seqs, n, i, k) /\ r[a] = seqs[i][k]

Goes(seqs, n, r) ==
  \A i, k : Inside(seqs, n, i, k) => \E a \in DOMAIN r : r[a] = seqs[i][k]

(* Two places of r hold u and v.                                           *)
Both(r, u, v) == \E a \in DOMAIN r : \E b \in DOMAIN r : a # b /\ r[a] = u /\ r[b] = v

Differ(i, k, j, l) == ~(i = j /\ k = l)

Apart(seqs, n, r) ==
  \A i, k, j, l :
    Inside(seqs, n, i, k) /\ Inside(seqs, n, j, l) /\ Differ(i, k, j, l) => Both(r, seqs[i][k], seqs[j][l])

(* Two places of r come from two places of the sequences.                  *)
TwoPlaces(seqs, n, u, v) ==
  \E i, k, j, l : /\ Inside(seqs, n, i, k) /\ Inside(seqs, n, j, l) /\ Differ(i, k, j, l)
                  /\ u = seqs[i][k] /\ v = seqs[j][l]

Splits(seqs, n, r) ==
  \A a \in DOMAIN r : \A b \in DOMAIN r : a # b => TwoPlaces(seqs, n, r[a], r[b])

Joins(seqs, n, r) == Comes(seqs, n, r) /\ Goes(seqs, n, r) /\ Apart(seqs, n, r) /\ Splits(seqs, n, r)

LEMMA JoinsOne ==
  ASSUME NEW seqs PROVE Joins(seqs, 1, seqs[1])
<1>1. \A i, k : Inside(seqs, 1, i, k) <=> i = 1 /\ k \in DOMAIN seqs[1]
  BY DEF Inside
<1>2. Comes(seqs, 1, seqs[1]) /\ Goes(seqs, 1, seqs[1])
  BY <1>1 DEF Comes, Goes
<1>3. ASSUME NEW i, NEW k, NEW j, NEW l, Inside(seqs, 1, i, k), Inside(seqs, 1, j, l), Differ(i, k, j, l)
      PROVE  Both(seqs[1], seqs[i][k], seqs[j][l])
  <2>1. i = 1 /\ j = 1 /\ k # l /\ k \in DOMAIN seqs[1] /\ l \in DOMAIN seqs[1]
    BY <1>1, <1>3 DEF Differ
  <2> QED BY <2>1 DEF Both
<1>4. ASSUME NEW a \in DOMAIN seqs[1], NEW b \in DOMAIN seqs[1], a # b
      PROVE  TwoPlaces(seqs, 1, seqs[1][a], seqs[1][b])
  <2>1. Inside(seqs, 1, 1, a) /\ Inside(seqs, 1, 1, b) /\ Differ(1, a, 1, b)
    BY <1>1, <1>4 DEF Differ
  <2> QED BY <2>1 DEF TwoPlaces
<1> QED BY <1>2, <1>3, <1>4 DEF Joins, Apart, Splits

LEMMA JoinsMore ==
  ASSUME NEW S, NEW seqs, NEW n \in Nat, NEW r \in Seq(S), seqs[n + 1] \in Seq(S), Joins(seqs, n, r)
  PROVE  Joins(seqs, n + 1, r \o seqs[n + 1])
<1> DEFINE s == seqs[n + 1]
           t == r \o s
<1>1. /\ DOMAIN r = 1 .. Len(r) /\ Len(r) \in Nat /\ DOMAIN s = 1 .. Len(s) /\ Len(s) \in Nat
      /\ DOMAIN t = 1 .. (Len(r) + Len(s))
      /\ \A a \in 1 .. Len(r) : t[a] = r[a]
      /\ \A a \in 1 .. Len(s) : Len(r) + a \in DOMAIN t /\ t[Len(r) + a] = s[a]
      /\ \A a \in DOMAIN t : a \in DOMAIN r \/ (a - Len(r) \in DOMAIN s /\ t[a] = s[a - Len(r)])
      /\ DOMAIN r \subseteq DOMAIN t
  OBVIOUS
<1>2. \A i, k : Inside(seqs, n + 1, i, k) <=> Inside(seqs, n, i, k) \/ (i = n + 1 /\ k \in DOMAIN s)
  BY DEF Inside
<1> HIDE DEF t, s
<1>3. Comes(seqs, n + 1, t)
  <2>1. SUFFICES ASSUME NEW a \in DOMAIN t
                 PROVE  \E i, k : Inside(seqs, n + 1, i, k) /\ t[a] = seqs[i][k]
    BY DEF Comes
  <2>2. CASE a \in DOMAIN r
    BY <1>1, <1>2, <2>2 DEF Joins, Comes
  <2>3. CASE a \notin DOMAIN r
    BY <1>1, <1>2, <2>3 DEF s
  <2> QED BY <2>2, <2>3
<1>4. Goes(seqs, n + 1, t)
  <2>1. SUFFICES ASSUME NEW i, NEW k, Inside(seqs, n + 1, i, k)
                 PROVE  \E a \in DOMAIN t : t[a] = seqs[i][k]
    BY DEF Goes
  <2>2. CASE Inside(seqs, n, i, k)
    BY <1>1, <2>2 DEF Joins, Goes
  <2>3. CASE i = n + 1 /\ k \in DOMAIN s
    BY <1>1, <2>3 DEF s
  <2> QED BY <1>2, <2>1, <2>2, <2>3
<1>5. ASSUME NEW u, NEW v, Both(r, u, v) PROVE Both(t, u, v)
  BY <1>1, <1>5 DEF Both
<1>6. ASSUME NEW x, NEW y, NEW z, Inside(seqs, n, x, y), z \in DOMAIN s
      PROVE  Both(t, seqs[x][y], s[z]) /\ Both(t, s[z], seqs[x][y])
  <2>1. PICK a \in DOMAIN r : r[a] = seqs[x][y]
    BY <1>6 DEF Joins, Goes
  <2>2. Len(r) + z \in DOMAIN t /\ t[Len(r) + z] = s[z] /\ a # Len(r) + z /\ t[a] = r[a] /\ a \in DOMAIN t
    BY <1>1, <1>6, <2>1
  <2> QED BY <2>1, <2>2 DEF Both
<1>7. Apart(seqs, n + 1, t)
  <2>1. SUFFICES ASSUME NEW i, NEW k, NEW j, NEW l, Inside(seqs, n + 1, i, k), Inside(seqs, n + 1, j, l),
                        Differ(i, k, j, l)
                 PROVE  Both(t, seqs[i][k], seqs[j][l])
    BY DEF Apart
  <2>2. CASE Inside(seqs, n, i, k) /\ Inside(seqs, n, j, l)
    BY <1>5, <2>1, <2>2 DEF Joins, Apart
  <2>3. CASE i = n + 1 /\ k \in DOMAIN s /\ j = n + 1 /\ l \in DOMAIN s
    <3>1. k # l /\ Len(r) + k # Len(r) + l
      BY <1>1, <2>1, <2>3 DEF Differ
    <3>2. /\ Len(r) + k \in DOMAIN t /\ t[Len(r) + k] = s[k]
          /\ Len(r) + l \in DOMAIN t /\ t[Len(r) + l] = s[l]
      BY <1>1, <2>3
    <3>3. Both(t, s[k], s[l])
      BY <3>1, <3>2 DEF Both
    <3> QED BY <2>3, <3>3 DEF s
  <2>4. CASE Inside(seqs, n, i, k) /\ j = n + 1 /\ l \in DOMAIN s
    <3>1. Both(t, seqs[i][k], s[l])
      BY <1>6, <2>4
    <3> QED BY <2>4, <3>1 DEF s
  <2>5. CASE Inside(seqs, n, j, l) /\ i = n + 1 /\ k \in DOMAIN s
    <3>1. Both(t, s[k], seqs[j][l])
      BY <1>6, <2>5
    <3> QED BY <2>5, <3>1 DEF s
  <2> QED BY <1>2, <2>1, <2>2, <2>3, <2>4, <2>5
<1>8. ASSUME NEW a \in DOMAIN t, NEW b \in DOMAIN t, a # b
      PROVE  TwoPlaces(seqs, n + 1, t[a], t[b])
  <2>1. CASE a \in DOMAIN r /\ b \in DOMAIN r
    <3>1. TwoPlaces(seqs, n, r[a], r[b]) /\ t[a] = r[a] /\ t[b] = r[b]
      BY <1>1, <1>8, <2>1 DEF Joins, Splits
    <3> QED BY <1>2, <3>1 DEF TwoPlaces
  <2>2. CASE a \notin DOMAIN r /\ b \notin DOMAIN r
    <3>1. /\ a - Len(r) \in DOMAIN s /\ t[a] = s[a - Len(r)]
          /\ b - Len(r) \in DOMAIN s /\ t[b] = s[b - Len(r)]
          /\ a - Len(r) # b - Len(r)
      BY <1>1, <1>8, <2>2
    <3>2. /\ Inside(seqs, n + 1, n + 1, a - Len(r)) /\ Inside(seqs, n + 1, n + 1, b - Len(r))
          /\ Differ(n + 1, a - Len(r), n + 1, b - Len(r))
      BY <1>2, <3>1 DEF Differ
    <3> QED BY <3>1, <3>2 DEF TwoPlaces, s
  <2>3. ASSUME NEW c \in DOMAIN r, NEW d \in DOMAIN t, d \notin DOMAIN r
        PROVE  \E i, k, l : /\ Inside(seqs, n + 1, i, k) /\ Inside(seqs, n + 1, n + 1, l) /\ i # n + 1
                            /\ t[c] = seqs[i][k] /\ t[d] = seqs[n + 1][l]
    <3>1. PICK i, k : Inside(seqs, n, i, k) /\ r[c] = seqs[i][k]
      BY DEF Joins, Comes
    <3>2. i # n + 1 /\ Inside(seqs, n + 1, i, k) /\ t[c] = r[c]
      BY <1>1, <1>2, <3>1 DEF Inside
    <3>3. Inside(seqs, n + 1, n + 1, d - Len(r)) /\ t[d] = seqs[n + 1][d - Len(r)]
      BY <1>1, <1>2, <2>3 DEF s
    <3> QED BY <3>1, <3>2, <3>3
  <2>4. CASE a \in DOMAIN r /\ b \notin DOMAIN r
    <3>1. PICK i, k, l : /\ Inside(seqs, n + 1, i, k) /\ Inside(seqs, n + 1, n + 1, l) /\ i # n + 1
                         /\ t[a] = seqs[i][k] /\ t[b] = seqs[n + 1][l]
      BY <2>3, <2>4
    <3>2. Differ(i, k, n + 1, l)
      BY <3>1 DEF Differ
    <3> QED BY <3>1, <3>2 DEF TwoPlaces
  <2>5. CASE a \notin DOMAIN r /\ b \in DOMAIN r
    <3>1. PICK i, k, l : /\ Inside(seqs, n + 1, i, k) /\ Inside(seqs, n + 1, n + 1, l) /\ i # n + 1
                         /\ t[b] = seqs[i][k] /\ t[a] = seqs[n + 1][l]
      BY <2>3, <2>5
    <3>2. Differ(n + 1, l, i, k)
      BY <3>1 DEF Differ
    <3> QED BY <3>1, <3>2 DEF TwoPlaces
  <2> QED BY <2>1, <2>2, <2>4, <2>5
<1>9. Splits(seqs, n + 1, t)
  BY <1>8 DEF Splits
<1> QED BY <1>3, <1>4, <1>7, <1>9 DEF Joins, t, s

LEMMA FlattenJoins ==
  ASSUME NEW S, NEW seqs \in Seq(Seq(S))
  PROVE  FlattenSeq(seqs) \in Seq(S) /\ Joins(seqs, Len(seqs), FlattenSeq(seqs))
<1>1. CASE seqs = <<>>
  <2>1. FlattenSeq(seqs) = <<>> /\ Len(seqs) = 0 /\ DOMAIN <<>> = {}
    BY <1>1 DEF FlattenSeq
  <2>2. \A i, k : ~Inside(seqs, 0, i, k)
    BY DEF Inside
  <2> QED BY <2>1, <2>2 DEF Joins, Comes, Goes, Apart, Splits
<1>2. CASE seqs # <<>>
  <2>1. PICK join : /\ \A i \in DOMAIN seqs : join[i] = Joined(seqs, join, i)
                    /\ FlattenSeq(seqs) = join[Len(seqs)]
    BY <1>2, FlattenIs
  <2>2. DOMAIN seqs = 1 .. Len(seqs) /\ Len(seqs) \in Nat /\ Len(seqs) # 0
    BY <1>2
  <2> DEFINE Good(m) == m \in 1 .. Len(seqs) => join[m] \in Seq(S) /\ Joins(seqs, m, join[m])
             Goods == {m \in Nat : Good(m)}
  <2>3. 0 \in Goods
    BY <2>2
  <2>4. ASSUME NEW m \in Nat, m \in Goods PROVE m + 1 \in Goods
    <3>1. SUFFICES ASSUME m + 1 \in 1 .. Len(seqs)
                   PROVE  join[m + 1] \in Seq(S) /\ Joins(seqs, m + 1, join[m + 1])
      OBVIOUS
    <3>2. seqs[m + 1] \in Seq(S) /\ join[m + 1] = Joined(seqs, join, m + 1)
      <4>1. m + 1 \in DOMAIN seqs
        BY <2>2, <3>1
      <4>2. seqs[m + 1] \in Seq(S)
        BY <4>1
      <4> QED BY <2>1, <4>1, <4>2
    <3>3. CASE m = 0
      <4>1. m + 1 = 1 /\ join[1] = seqs[1]
        BY <3>2, <3>3 DEF Joined
      <4> QED BY <3>2, <4>1, JoinsOne
    <3>4. CASE m # 0
      <4>1. m \in 1 .. Len(seqs) /\ m + 1 # 1 /\ (m + 1) - 1 = m
        BY <2>2, <3>1, <3>4
      <4>2. join[m + 1] = join[m] \o seqs[m + 1]
        BY <3>2, <4>1 DEF Joined
      <4>3. join[m] \in Seq(S) /\ Joins(seqs, m, join[m])
        BY <2>4, <4>1
      <4>4. Joins(seqs, m + 1, join[m] \o seqs[m + 1])
        BY <3>2, <4>3, JoinsMore
      <4>5. join[m] \o seqs[m + 1] \in Seq(S)
        BY <3>2, <4>3
      <4> QED BY <4>2, <4>4, <4>5
    <3> QED BY <3>3, <3>4
  <2>5. Len(seqs) \in Goods
    <3> HIDE DEF Goods
    <3> QED BY <2>2, <2>3, <2>4, CountingUp
  <2> QED BY <2>1, <2>2, <2>5
<1> QED BY <1>1, <1>2

(* The function that ExpressionCode defines by recursion exists.           *)
Extended(p, e, code, i) ==
  IF i = 1 THEN OperandCode(p, e[1], TypeUpTo(e, 1)) ELSE WithOperand(code[i - 1], e, i)

LEMMA CodeExists ==
  ASSUME NEW p, NEW e, NEW n \in Nat
  PROVE  \E code : code = [i \in 1 .. n |-> Extended(p, e, code, i)]
<1> DEFINE Is(m, code) == code = [i \in 1 .. m |-> Extended(p, e, code, i)]
           Has(m) == \E code : Is(m, code)
           Without == {m \in Nat : ~Has(m)}
<1>1. Has(0)
  <2>1. Is(0, <<>>)
    OBVIOUS
  <2> QED BY <2>1
<1>2. ASSUME NEW m \in Nat, Has(m) PROVE Has(m + 1)
  <2>1. PICK f : Is(m, f)
    BY <1>2
  <2> DEFINE g == [i \in 1 .. (m + 1) |-> Extended(p, e, f, i)]
  <2>2. \A i \in 1 .. m : g[i] = f[i]
    BY <2>1
  <2>3. ASSUME NEW i \in 1 .. (m + 1) PROVE Extended(p, e, g, i) = Extended(p, e, f, i)
    <3>1. i # 1 => g[i - 1] = f[i - 1]
      <4>1. i # 1 => i - 1 \in 1 .. m
        OBVIOUS
      <4> HIDE DEF g
      <4> QED BY <4>1, <2>2
    <3> HIDE DEF g
    <3> QED BY <3>1 DEF Extended
  <2>4. Is(m + 1, g)
    BY <2>3
  <2> HIDE DEF Is, g
  <2> QED BY <2>4
<1>3. Without = {}
  <2>1. SUFFICES ASSUME Without # {} PROVE FALSE
    OBVIOUS
  <2>2. PICK m \in Without : \A k \in Without : m <= k
    <3>1. Without \subseteq Nat
      OBVIOUS
    <3> HIDE DEF Without
    <3> QED BY <2>1, <3>1, LeastNumber
  <2> HIDE DEF Has
  <2>3. m \in Nat /\ m # 0 /\ ~Has(m)
    BY <1>1, <2>2
  <2>4. m - 1 \in Nat /\ (m - 1) + 1 = m /\ ~(m <= m - 1)
    BY <2>3
  <2>5. Has(m - 1)
    BY <2>2, <2>4
  <2> QED BY <1>2, <2>3, <2>4, <2>5
<1> HIDE DEF Is
<1> QED BY <1>3 DEF Is

LEMMA ExpressionCodeIs ==
  ASSUME NEW p, NEW S, NEW e \in Seq(S)
  PROVE  \E code : /\ \A i \in DOMAIN e : code[i] = Extended(p, e, code, i)
                   /\ ExpressionCode(p, e) = code[Len(e)]
<1> DEFINE Is(code) == code = [i \in DOMAIN e |-> Extended(p, e, code, i)]
           code == CHOOSE c : Is(c)
<1>1. DOMAIN e = 1 .. Len(e) /\ Len(e) \in Nat
  OBVIOUS
<1>2. \E c : Is(c)
  <2>1. PICK c : c = [i \in 1 .. Len(e) |-> Extended(p, e, c, i)]
    BY <1>1, CodeExists
  <2>2. Is(c)
    BY <1>1, <2>1
  <2> HIDE DEF Is
  <2> QED BY <2>2
<1>3. Is(code)
  <2> HIDE DEF Is
  <2> QED BY <1>2
<1>4. ExpressionCode(p, e) = code[Len(e)]
  BY DEF ExpressionCode, Extended
<1>5. \A i \in DOMAIN e : code[i] = Extended(p, e, code, i)
  <2> HIDE DEF code
  <2> QED BY <1>3
<1> HIDE DEF code
<1> QED BY <1>4, <1>5

(* What an expression reads and calls.                                     *)
FieldsRead(e) == {context[e[i].id] : i \in {k \in DOMAIN e : e[k].kind = "read"}}

MethodsCalled(e) == {context[e[i].id] : i \in {k \in DOMAIN e : e[k].kind = "apply"}}

LEMMA ExpressionEmits ==
  ASSUME NEW p, P!Good(p), NEW e \in Seq(Operands), e # <<>>, NEW refs, FieldsRead(e) \subseteq refs,
         NEW calls, MethodsCalled(e) \subseteq calls
  PROVE  Emits(p, ExpressionCode(p, e), refs, calls)
<1>1. PICK code : /\ \A i \in DOMAIN e : code[i] = Extended(p, e, code, i)
                  /\ ExpressionCode(p, e) = code[Len(e)]
  BY ExpressionCodeIs
<1>2. /\ DOMAIN e = 1 .. Len(e) /\ Len(e) \in Nat /\ Len(e) \in DOMAIN e
      /\ \A i \in DOMAIN e : e[i] \in Operands
      /\ \A i \in DOMAIN e : Refers(e[i], refs, calls)
  BY DEF FieldsRead, MethodsCalled, Refers
<1> DEFINE Wrong == {i \in DOMAIN e : ~Emits(p, code[i], refs, calls)}
<1>3. Wrong = {}
  <2>1. SUFFICES ASSUME Wrong # {} PROVE FALSE
    OBVIOUS
  <2>2. PICK m \in Wrong : \A k \in Wrong : m <= k
    <3>1. Wrong \subseteq Nat
      BY <1>2
    <3> HIDE DEF Wrong
    <3> QED BY <2>1, <3>1, LeastNumber
  <2>3. m \in DOMAIN e /\ e[m] \in Operands /\ Refers(e[m], refs, calls) /\ ~Emits(p, code[m], refs, calls)
    BY <1>2
  <2>4. CASE m = 1
    <3>1. code[m] = OperandCode(p, e[m], TypeUpTo(e, m))
      BY <1>1, <2>3, <2>4 DEF Extended
    <3> QED BY <3>1, <2>3, OperandEmits
  <2>5. CASE m # 1
    <3>1. code[m] = WithOperand(code[m - 1], e, m)
      BY <1>1, <2>3, <2>5 DEF Extended
    <3>2. m - 1 \in DOMAIN e /\ ~(m <= m - 1)
      BY <1>2, <2>3, <2>5
    <3>3. Emits(p, code[m - 1], refs, calls)
      BY <2>2, <3>2
    <3> QED BY <3>1, <3>3, <2>3, WithOperandEmits
  <2> QED BY <2>4, <2>5
<1> QED BY <1>1, <1>2, <1>3

(* The code of a method ends in an instruction that leaves it.             *)
Returns == {"return", "ireturn", "freturn", "areturn"}

Ends(code) == IsSequence(code) /\ code # <<>> /\ code[Len(code)][1] \in Returns

LEMMA EndsAppend ==
  ASSUME NEW code, IsSequence(code), NEW op \in Returns
  PROVE  Ends(Append(code, <<op, 0>>))
<1> DEFINE i == <<op, 0>>
           r == Append(code, i)
<1>1. PICK S : code \in Seq(S)
  BY DEF IsSequence
<1>2. i[1] = op
  OBVIOUS
<1> HIDE DEF i
<1>3. r \in Seq(S \cup {i}) /\ Len(r) = Len(code) + 1 /\ Len(code) \in Nat /\ r[Len(r)] = i
  BY <1>1
<1> HIDE DEF r
<1>4. Ends(r)
  BY <1>2, <1>3 DEF Ends, IsSequence
<1> QED BY <1>4 DEF r, i

LEMMA EndsJoined ==
  ASSUME NEW a, IsSequence(a), NEW b, Ends(b)
  PROVE  Ends(a \o b)
<1> DEFINE r == a \o b
<1>1. PICK S : a \in Seq(S)
  BY DEF IsSequence
<1>2. PICK T : b \in Seq(T)
  BY DEF Ends, IsSequence
<1>3. b # <<>> /\ b[Len(b)][1] \in Returns
  BY DEF Ends
<1>4. a \in Seq(S \cup T) /\ b \in Seq(S \cup T)
  BY <1>1, <1>2
<1>5. Len(a) \in Nat /\ Len(b) \in Nat /\ Len(b) # 0
  BY <1>3, <1>4
<1>6. r \in Seq(S \cup T) /\ Len(r) = Len(a) + Len(b) /\ r[Len(r)] = b[Len(b)]
  BY <1>4, <1>5
<1> HIDE DEF r
<1>7. r # <<>>
  BY <1>5, <1>6
<1>8. Ends(r)
  BY <1>3, <1>6, <1>7 DEF Ends, IsSequence
<1> QED BY <1>8 DEF r

LEMMA TwoInstructionsEnd == ASSUME NEW op, NEW n PROVE Ends(<<<<op, n>>, <<"return", 0>>>>)
<1> DEFINE first == <<op, n>>
           return == <<"return", 0>>
           code == <<first, return>>
<1>1. return[1] = "return"
  OBVIOUS
<1> HIDE DEF first, return
<1>2. code \in Seq({first, return}) /\ code # <<>> /\ Len(code) = 2 /\ code[2] = return
  OBVIOUS
<1> HIDE DEF code
<1>3. Ends(code)
  BY <1>1, <1>2 DEF Ends, IsSequence, Returns
<1> QED BY <1>3 DEF code, first, return

(* A body whose value is printed has a type that can be.                   *)
BodyTyped(m) == m.value # <<>> /\ m.type = "Void" => ExpressionType(scope, m.value) \in Printed

LEMMA PrintedAs ==
  ASSUME NEW type \in Printed
  PROVE  \E t \in {"Int", "Float", "String"} : PrintDescriptor(type) = PrintDescriptor(t)
<1>1. type \in Ints => Descriptor(type) = Descriptor("Int") /\ type # "String"
  BY DEF Ints, Reals, Descriptor
<1>2. type \in Reals => Descriptor(type) = Descriptor("Float") /\ type # "String"
  BY DEF Ints, Reals, Descriptor
<1> QED BY <1>1, <1>2 DEF PrintDescriptor, Printed

LEMMA BodyEmits ==
  ASSUME NEW p, P!Good(p), NEW m, m.value \in Seq(Operands), NEW r \in BodyCode(m, p)
  PROVE  /\ Grown(p, r.pool) /\ Ends(r.code)
         /\ BodyTyped(m) => AllLinked(r.pool, r.code, FieldsRead(m.value), MethodsCalled(m.value))
<1> DEFINE refs == FieldsRead(m.value)
           calls == MethodsCalled(m.value)
<1>1. "return" \in Returns /\ ValueReturn(m.type) \in {"ireturn", "freturn", "areturn"}
  BY DEF Returns, ValueReturn
<1>2. CASE m.value = <<>>
  <2>1. r = [pool |-> p, code |-> <<<<"return", 0>>>>]
    BY <1>2 DEF BodyCode
  <2>2. r.pool = p /\ r.code = <<<<"return", 0>>>>
    BY <2>1
  <2>3. Ends(r.code)
    <3>1. <<>> \in Seq({})
      OBVIOUS
    <3>2. IsSequence(<<>>) /\ r.code = Append(<<>>, <<"return", 0>>)
      BY <2>2, <3>1 DEF IsSequence
    <3> QED BY <1>1, <3>2, EndsAppend
  <2>4. AllLinked(r.pool, r.code, refs, calls)
    <3>1. Linked(r.pool, <<"return", 0>>, refs, calls)
      BY DEF Linked
    <3> QED BY <2>2, <3>1, OneLinked
  <2> QED BY <2>2, <2>3, <2>4, GrownSelf
<1>3. CASE m.value # <<>> /\ m.type = "Void"
  <2> DEFINE type == ExpressionType(scope, m.value)
  <2>1. r \in Followed(ExpressionCode(p, m.value), LAMBDA q : PrintCode(q, type))
    BY <1>3 DEF BodyCode
  <2>2. PICK a \in ExpressionCode(p, m.value) : \E t \in PrintCode(a.pool, type) :
          r = [pool |-> t.pool, code |-> a.code \o t.code]
    BY <2>1 DEF Followed
  <2>3. Grown(p, a.pool) /\ P!Good(a.pool) /\ Coded(a.code, a.pool, refs, calls)
    BY <1>3, ExpressionEmits DEF Emits, Grown
  <2>4. PICK t \in PrintCode(a.pool, type) : r = [pool |-> t.pool, code |-> a.code \o t.code]
    BY <2>2
  <2>5. PICK b \in Pool!FindOrCreateMethodRef(a.pool, "$Base", "print", PrintDescriptor(type)) :
          t = [pool |-> b.pool, code |-> <<<<"print", b.id>>, <<"return", 0>>>>]
    BY DEF PrintCode
  <2>6. Answers(a.pool, b) /\ P!IsRef(b.pool, b.id, "MethodRef", "$Base", "print", PrintDescriptor(type))
    BY <2>3, KnownTexts, MethodRefRequest
  <2>7. r.pool = b.pool /\ t.code = <<<<"print", b.id>>, <<"return", 0>>>> /\ r.code = a.code \o t.code
    BY <2>4, <2>5
  <2>8. Ends(t.code)
    BY <2>7, TwoInstructionsEnd
  <2>9. IsSequence(a.code) /\ Ends(r.code)
    BY <2>3, <2>7, <2>8, EndsJoined DEF Coded
  <2>10. ASSUME BodyTyped(m) PROVE AllLinked(r.pool, r.code, refs, calls)
    <3>1. type \in Printed
      BY <1>3, <2>10 DEF BodyTyped
    <3> HIDE DEF type
    <3>2. Linked(b.pool, <<"print", b.id>>, refs, calls)
      <4>1. PICK s \in {"Int", "Float", "String"} : PrintDescriptor(type) = PrintDescriptor(s)
        BY <3>1, PrintedAs
      <4>2. P!IsRef(b.pool, b.id, "MethodRef", "$Base", "print", PrintDescriptor(s))
        BY <2>6, <4>1
      <4> QED BY <4>2 DEF Linked
    <3>3. Linked(b.pool, <<"return", 0>>, refs, calls)
      BY DEF Linked
    <3>4. AllLinked(b.pool, t.code, refs, calls)
      BY <2>7, <3>2, <3>3, TwoLinked
    <3>5. AllLinked(b.pool, a.code, refs, calls)
      BY <2>3, <2>6, AllLinkedGrows DEF Answers, Coded, AllLinked, InCode
    <3>6. IsSequence(t.code)
      BY <2>8 DEF Ends
    <3> QED BY <2>7, <2>9, <3>4, <3>5, <3>6, LinkedJoined
  <2>11. Grown(p, r.pool)
    BY <2>3, <2>6, <2>7, GrownTrans DEF Answers
  <2> QED BY <2>9, <2>10, <2>11
<1>4. CASE m.value # <<>> /\ m.type # "Void"
  <2>1. PICK a \in ExpressionCode(p, m.value) :
          r = [pool |-> a.pool, code |-> Append(a.code, <<ValueReturn(m.type), 0>>)]
    BY <1>4 DEF BodyCode
  <2>2. Grown(p, a.pool) /\ Coded(a.code, a.pool, refs, calls) /\ IsSequence(a.code)
    BY <1>4, ExpressionEmits DEF Emits, Coded
  <2>3. r.pool = a.pool /\ r.code = Append(a.code, <<ValueReturn(m.type), 0>>)
    BY <2>1
  <2>4. Ends(r.code)
    BY <1>1, <2>2, <2>3, EndsAppend DEF Returns
  <2>5. AllLinked(r.pool, r.code, refs, calls)
    <3>1. AllLinked(a.pool, a.code, refs, calls)
      BY <2>2 DEF Coded, InCode, AllLinked
    <3>2. Linked(a.pool, <<ValueReturn(m.type), 0>>, refs, calls)
      BY <1>1 DEF Linked
    <3> QED BY <2>2, <2>3, <3>1, <3>2, LinkedAppend
  <2> QED BY <2>2, <2>3, <2>4, <2>5
<1> QED BY <1>2, <1>3, <1>4

-----------------------------------------------------------------------------
(* A map stays a sequence of entries; emplacing adds its one entry.        *)

LEMMA MapFacts ==
  ASSUME NEW map, IsSequence(map)
  PROVE  /\ Len(map) \in Nat /\ DOMAIN map = 1 .. Len(map)
         /\ map # <<>> => 1 \in DOMAIN map
<1>1. PICK S : map \in Seq(S)
  BY DEF IsSequence
<1> QED BY <1>1

AddsEntry(map, entry, r) ==
  /\ IsSequence(r) /\ r # <<>>
  /\ \A i \in DOMAIN r : r[i] = entry \/ \E j \in DOMAIN map : r[i] = map[j]

LEMMA Inserted ==
  ASSUME NEW S, NEW map \in Seq(S), NEW entry, NEW place \in 1 .. (Len(map) + 1)
  PROVE  AddsEntry(map, entry, InsertAt(map, place, entry))
<1> DEFINE a == SubSeq(map, 1, place - 1)
           b == SubSeq(map, place, Len(map))
           r == InsertAt(map, place, entry)
           From(s) == s \in Seq(S \cup {entry})
                      /\ \A i \in DOMAIN s : s[i] = entry \/ \E j \in DOMAIN map : s[i] = map[j]
<1>1. From(a)
  OBVIOUS
<1>2. From(b)
  OBVIOUS
<1>3. From(<<entry>>)
  OBVIOUS
<1>4. ASSUME NEW s, NEW t, From(s), From(t) PROVE From(s \o t)
  BY <1>4
<1>5. r = a \o <<entry>> \o b
  BY DEF InsertAt
<1>6. Len(a) \in Nat /\ Len(b) \in Nat /\ Len(r) = Len(a) + 1 + Len(b)
  BY <1>5, <1>1, <1>2
<1> HIDE DEF From, a, b
<1>7. From(r)
  BY <1>1, <1>2, <1>3, <1>4, <1>5
<1> HIDE DEF r
<1>8. r # <<>>
  BY <1>6
<1>9. AddsEntry(map, entry, r)
  BY <1>7, <1>8 DEF From, AddsEntry, IsSequence
<1> QED BY <1>9 DEF r

LEMMA EmplacedAt ==
  ASSUME NEW map, IsSequence(map), NEW entry, ~Holds(map, entry.id)
  PROVE  \E place \in 1 .. (Len(map) + 1) : TryEmplace(map, entry) = InsertAt(map, place, entry)
<1> DEFINE bucket == {i \in DOMAIN map : hash[map[i].id] = hash[entry.id]}
           place == IF bucket = {} THEN 1 ELSE CHOOSE i \in bucket : \A j \in bucket : i <= j
<1>1. DOMAIN map = 1 .. Len(map) /\ Len(map) \in Nat
  BY MapFacts
<1>2. place \in 1 .. (Len(map) + 1)
  <2>1. bucket \subseteq DOMAIN map /\ bucket \in SUBSET Nat
    BY <1>1
  <2> HIDE DEF bucket
  <2>2. bucket # {} => place \in bucket
    BY <2>1, LeastNumber
  <2> HIDE DEF place
  <2>3. bucket = {} => place = 1
    BY DEF place
  <2> QED BY <1>1, <2>1, <2>2, <2>3
<1>3. TryEmplace(map, entry) = InsertAt(map, place, entry)
  BY DEF TryEmplace
<1> HIDE DEF place
<1> QED BY <1>2, <1>3

LEMMA Emplaced ==
  ASSUME NEW map, IsSequence(map), NEW entry PROVE AddsEntry(map, entry, TryEmplace(map, entry))
<1>1. PICK S : map \in Seq(S)
  BY DEF IsSequence
<1>2. CASE Holds(map, entry.id)
  <2>1. TryEmplace(map, entry) = map
    BY <1>2 DEF TryEmplace
  <2>2. map # <<>>
    BY <1>2 DEF Holds
  <2> QED BY <2>1, <2>2 DEF AddsEntry
<1>3. CASE ~Holds(map, entry.id)
  BY <1>1, <1>3, EmplacedAt, Inserted
<1> QED BY <1>2, <1>3

(* Where a loop goes next, it finds an entry.                              *)
LEMMA NextRound ==
  ASSUME NEW n, NEW map, IsSequence(map), n \in DOMAIN map, n < Len(map)
  PROVE  n + 1 \in DOMAIN map
<1>1. Len(map) \in Nat /\ DOMAIN map = 1 .. Len(map)
  BY MapFacts
<1> QED BY <1>1

(* What generateMethod does when the code is there: from pool p and the    *)
(* class file f to pool q and the class file g.                            *)
Info(name, descriptor, attribute, code) ==
  [name |-> name, descriptor |-> descriptor, attribute |-> attribute, code |-> code]

WithMethod(f, info) == [f EXCEPT !.methods = Append(@, info)]

Generates(p, f, name, descriptor, code, q, g) ==
  \E n \in Pool!FindOrCreateUtf8(p, name) : \E d \in Pool!FindOrCreateUtf8(n.pool, descriptor) :
  \E c \in Pool!FindOrCreateUtf8(d.pool, "Code") :
    q = c.pool /\ g = WithMethod(f, Info(n.id, d.id, c.id, code))

(* What that adds to the class file.                                       *)
AddsMethod(p, f, name, descriptor, code, q, g) ==
  \E info : /\ Grown(p, q) /\ g = WithMethod(f, info)
            /\ P!IsUtf8(q, info.name, name) /\ P!IsUtf8(q, info.descriptor, descriptor)
            /\ P!IsUtf8(q, info.attribute, "Code") /\ info.code = code

LEMMA GrownKeeps ==
  ASSUME NEW p, NEW q, P!Good(p), Grown(p, q), NEW i, NEW s, P!IsUtf8(p, i, s)
  PROVE  P!IsUtf8(q, i, s)
BY P!Kept DEF Grown

LEMMA MethodGenerated ==
  ASSUME NEW p, P!Good(p), NEW name \in Strings, NEW descriptor \in Strings,
         NEW f, NEW code, NEW q, NEW g, Generates(p, f, name, descriptor, code, q, g)
  PROVE  AddsMethod(p, f, name, descriptor, code, q, g)
<1>1. PICK n \in Pool!FindOrCreateUtf8(p, name) :
        \E d \in Pool!FindOrCreateUtf8(n.pool, descriptor) :
        \E c \in Pool!FindOrCreateUtf8(d.pool, "Code") :
          q = c.pool /\ g = WithMethod(f, Info(n.id, d.id, c.id, code))
  BY DEF Generates
<1>2. Grown(p, n.pool) /\ P!Good(n.pool) /\ P!IsUtf8(n.pool, n.id, name)
  BY Utf8Request DEF Answers, Grown
<1>3. PICK d \in Pool!FindOrCreateUtf8(n.pool, descriptor) :
        \E c \in Pool!FindOrCreateUtf8(d.pool, "Code") :
          q = c.pool /\ g = WithMethod(f, Info(n.id, d.id, c.id, code))
  BY <1>1
<1>4. Grown(n.pool, d.pool) /\ P!Good(d.pool) /\ P!IsUtf8(d.pool, d.id, descriptor)
  BY <1>2, Utf8Request DEF Answers, Grown
<1>5. PICK c \in Pool!FindOrCreateUtf8(d.pool, "Code") :
        q = c.pool /\ g = WithMethod(f, Info(n.id, d.id, c.id, code))
  BY <1>3
<1>6. Grown(d.pool, q) /\ P!IsUtf8(q, c.id, "Code")
  BY <1>4, <1>5, Utf8Request, KnownTexts DEF Answers
<1>7. Grown(n.pool, q)
  BY <1>2, <1>4, <1>6, GrownTrans
<1>8. Grown(p, q) /\ P!IsUtf8(q, n.id, name) /\ P!IsUtf8(q, d.id, descriptor)
  BY <1>2, <1>4, <1>6, <1>7, GrownTrans, GrownKeeps
<1>9. PICK info : info = Info(n.id, d.id, c.id, code)
  OBVIOUS
<1>10. info.name = n.id /\ info.descriptor = d.id /\ info.attribute = c.id /\ info.code = code
  BY <1>9 DEF Info
<1> QED BY <1>5, <1>6, <1>8, <1>9, <1>10 DEF AddsMethod

-----------------------------------------------------------------------------
(* The pool at its beginning: a class that is pushed without a search is   *)
(* not there yet, because its name was not the name of another one.        *)

LEMMA ClassPushed ==
  ASSUME NEW p, P!Good(p), NEW i, NEW s \in Strings, P!IsUtf8(p, i, s),
         \A k \in 1 .. Len(p) : p[k].type = "Class" => p[k].fst # i
  PROVE  P!Good(Append(p, P!Class(i)))
<1> DEFINE c == P!Class(i)
           q == Append(p, c)
<1>1. p \in Seq(P!Constants) /\ Len(p) \in Nat /\ DOMAIN p = 1 .. Len(p) /\ i \in 1 .. Len(p) /\ p[i].type = "Utf8"
  BY DEF P!Good, P!IsUtf8, P!Utf8, P!Entry
<1>2. c \in P!Constants /\ c.type = "Class" /\ c.fst = i /\ c.snd = 0 /\ c.lit = None
  BY <1>1 DEF P!Class, P!Entry, P!Constants, P!Kinds, P!Literals
<1>3. P!Found(p, c) = {}
  BY <1>1, <1>2 DEF P!Found, P!Same
<1>4. q \in Seq(P!Constants) /\ Len(q) = Len(p) + 1 /\ q[Len(p) + 1] = c /\ \A k \in 1 .. Len(p) : q[k] = p[k]
  BY <1>1, <1>2
<1> HIDE DEF c
<1>5. P!EntryResolves(q, Len(p) + 1)
  <2>1. P!Points(q, Len(p) + 1, c.fst, "Utf8")
    BY <1>1, <1>2, <1>4 DEF P!Points
  <2> HIDE DEF q
  <2> QED BY <2>1, <1>2, <1>4 DEF P!EntryResolves
<1>6. P!Resolves(q)
  BY <1>1, <1>2, <1>5, P!ResolvesAppend DEF P!Good
<1>7. P!Unique(q)
  BY <1>1, <1>2, <1>3, PoolAssumption, P!UniqueAppend DEF P!Good
<1> HIDE DEF q
<1>8. P!Good(q)
  BY <1>4, <1>6, <1>7 DEF P!Good
<1> QED BY <1>8 DEF q, c

LEMMA HeadFilled ==
  ASSUME NEW this \in Pool!FindOrCreateUtf8(<<Pool!Utf8("Code")>>, ThisClass),
         NEW super \in Pool!FindOrCreateUtf8(Append(this.pool, Pool!Class(this.id)), Object),
         NEW init \in Pool!FindOrCreateMethodRef(Append(super.pool, Pool!Class(super.id)), Object, "<init>", "()V")
  PROVE  P!Good(init.pool)
<1> DEFINE e == P!Utf8("Code")
           p == <<e>>
           q == Append(this.pool, P!Class(this.id))
<1>1. ThisClass \in Strings /\ Object \in Strings /\ "Code" \in Strings /\ "<init>" \in Strings /\ "()V" \in Strings
      /\ ThisClass # Object
  BY KnownTexts DEF ThisClass, Object
<1>2. P!Good(p) /\ Len(p) = 1 /\ p[1].type = "Utf8"
  <2>1. e \in P!Constants /\ e.type = "Utf8" /\ e.lit \in Strings /\ e.fst = 0 /\ e.snd = 0
    BY <1>1 DEF P!Utf8, P!Entry, P!Constants, P!Kinds, P!Literals
  <2> HIDE DEF e
  <2>2. p \in Seq(P!Constants) /\ DOMAIN p = {1} /\ p[1] = e /\ Len(p) = 1
    BY <2>1
  <2> HIDE DEF p
  <2>3. P!Resolves(p)
    BY <2>1, <2>2 DEF P!Resolves, P!EntryResolves
  <2>4. P!Unique(p)
    BY <2>2 DEF P!Unique
  <2> QED BY <2>1, <2>2, <2>3, <2>4 DEF P!Good
<1> HIDE DEF p
<1>3. P!Outcome(p, this, {"Utf8"}) /\ P!IsUtf8(this.pool, this.id, ThisClass)
  <2>1. this \in P!FindOrCreateUtf8(p, ThisClass)
    BY SameUtf8, SameEntries DEF p
  <2> QED BY <2>1, <1>1, <1>2, P!Utf8Outcome
<1>4. P!Good(this.pool) /\ \A k \in 1 .. Len(this.pool) : this.pool[k].type = "Utf8"
  <2>1. Len(this.pool) \in Nat
    BY <1>3 DEF P!Outcome, P!Good
  <2> QED BY <1>2, <1>3, <2>1 DEF P!Outcome, P!Grows, P!AddsOnly
<1>5. P!Good(q)
  BY <1>1, <1>3, <1>4, ClassPushed
<1>6. /\ Len(q) = Len(this.pool) + 1 /\ Len(this.pool) \in Nat
      /\ q[Len(q)] = P!Class(this.id)
      /\ \A k \in 1 .. Len(this.pool) : q[k] = this.pool[k]
  BY <1>4 DEF P!Good
<1> HIDE DEF q
<1>7. P!Outcome(q, super, {"Utf8"}) /\ P!IsUtf8(super.pool, super.id, Object)
  <2>1. super \in P!FindOrCreateUtf8(q, Object)
    BY SameUtf8, SameEntries DEF q
  <2> QED BY <2>1, <1>1, <1>5, P!Utf8Outcome
<1>8. super.id # this.id
  <2>1. this.id \in 1 .. Len(this.pool) /\ this.pool[this.id] = P!Utf8(ThisClass)
    BY <1>3 DEF P!IsUtf8
  <2>2. super.pool[this.id] = P!Utf8(ThisClass)
    BY <2>1, <1>6, <1>7 DEF P!Outcome, P!Grows
  <2>3. super.pool[super.id] = P!Utf8(Object)
    BY <1>7 DEF P!IsUtf8
  <2> QED BY <2>2, <2>3, <1>1 DEF P!Utf8, P!Entry
<1>9. P!Good(Append(super.pool, P!Class(super.id)))
  <2>1. P!Good(super.pool) /\ Len(super.pool) \in Nat
    BY <1>7 DEF P!Outcome, P!Good
  <2>2. ASSUME NEW k \in 1 .. Len(super.pool), super.pool[k].type = "Class" PROVE super.pool[k].fst # super.id
    <3>1. k <= Len(q)
      BY <2>1, <2>2, <1>6, <1>7 DEF P!Outcome, P!AddsOnly
    <3>2. super.pool[k] = q[k]
      BY <3>1, <1>6, <1>7 DEF P!Outcome, P!Grows
    <3>3. k = Len(q)
      BY <3>1, <3>2, <2>2, <1>4, <1>6
    <3>4. super.pool[k].fst = this.id
      BY <3>2, <3>3, <1>6 DEF P!Class, P!Entry
    <3> QED BY <3>4, <1>8
  <2> QED BY <2>1, <2>2, <1>1, <1>7, ClassPushed
<1>10. Answers(Append(super.pool, P!Class(super.id)), init)
  BY <1>1, <1>9, MethodRefRequest, SameEntries
<1> QED BY <1>10 DEF Answers, Grown

-----------------------------------------------------------------------------
(* What the declarations of a package ask the maps for.                    *)

MethodSet == [id : Identifiers, type : NamedTypes \cup {"Void"}, value : Seq(Operands)]

Initialisers == {<<>>} \cup {<<e>> : e \in Seq(Operands) \ {<<>>}}

FieldSet == [id : Identifiers, isConst : BOOLEAN, value : Initialisers, type : NamedTypes \cup {"Any", "Invalid"}]

MethodsAsked(p) == [i \in DOMAIN p |-> IF p[i].kind = "function" THEN <<Method(p[i])>> ELSE <<>>]

FieldsAsked(p) ==
  [i \in DOMAIN p |->
     LET d == p[Len(p) + 1 - i]
     IN  IF d.kind = "function" THEN <<>> ELSE [j \in DOMAIN d.identifiers |-> FieldOf(d, j)]]

LEMMA FunctionDeclaration ==
  ASSUME NEW d \in TopDeclarations, d.kind = "function"
  PROVE  Method(d) \in MethodSet /\ DOMAIN d.identifiers = {1}
<1>1. d.identifiers \in Seq(Identifiers) /\ Len(d.identifiers) = 1
  BY DEF TopDeclarations
<1>2. d.identifiers[1] \in Identifiers /\ DOMAIN d.identifiers = {1}
  BY <1>1
<1>3. d.result \in NamedTypes \cup {"Void"} /\ d.body \in Seq(Operands)
  BY DEF TopDeclarations
<1> QED BY <1>2, <1>3 DEF Method, MethodSet

LEMMA VariableDeclaration ==
  ASSUME NEW d \in TopDeclarations
  PROVE  /\ d.identifiers \in Seq(Identifiers)
         /\ \A j \in DOMAIN d.identifiers : FieldOf(d, j) \in FieldSet
<1>1. /\ d.identifiers \in Seq(Identifiers) /\ d.isConst \in BOOLEAN /\ d.type \in NamedTypes \cup {NoType}
      /\ d.values \in Seq(Seq(Operands) \ {<<>>})
  BY DEF TopDeclarations
<1>2. ASSUME NEW j \in DOMAIN d.identifiers PROVE FieldOf(d, j) \in FieldSet
  <2>1. d.identifiers[j] \in Identifiers
    BY <1>1
  <2>2. ValueAt(d, j) \in Initialisers
    <3>1. j \in DOMAIN d.values => d.values[j] \in Seq(Operands) \ {<<>>}
      BY <1>1
    <3> QED BY <3>1 DEF ValueAt, Initialisers
  <2>3. DeclaredType(d, j) \in NamedTypes \cup {"Any", "Invalid"}
    BY <1>1 DEF DeclaredType
  <2> QED BY <1>1, <2>1, <2>2, <2>3 DEF FieldOf, FieldSet
<1> QED BY <1>1, <1>2

LEMMA ListIsSequence ==
  ASSUME NEW S, NEW T, NEW p \in Seq(T), NEW f, f = [i \in DOMAIN p |-> f[i]], \A i \in DOMAIN p : f[i] \in S
  PROVE  f \in Seq(S) /\ Len(f) = Len(p)
<1>1. DOMAIN p = 1 .. Len(p) /\ Len(p) \in Nat
  OBVIOUS
<1>2. f \in [1 .. Len(p) -> S]
  BY <1>1
<1> QED BY <1>1, <1>2

LEMMA MethodRequestsAre ==
  ASSUME NEW p \in Packages
  PROVE  MethodRequests(p) \in Seq(MethodSet) /\ Joins(MethodsAsked(p), Len(p), MethodRequests(p))
<1>1. p \in Seq(TopDeclarations)
  BY PackagesAssumption
<1>2. ASSUME NEW i \in DOMAIN p
      PROVE  (IF p[i].kind = "function" THEN <<Method(p[i])>> ELSE <<>>) \in Seq(MethodSet)
  <2>1. p[i] \in TopDeclarations
    BY <1>1
  <2>2. p[i].kind = "function" => Method(p[i]) \in MethodSet
    BY <2>1, FunctionDeclaration
  <2> QED BY <2>2
<1>3. MethodsAsked(p) \in Seq(Seq(MethodSet)) /\ Len(MethodsAsked(p)) = Len(p)
  <2>1. DOMAIN MethodsAsked(p) = DOMAIN p /\ \A i \in DOMAIN p : MethodsAsked(p)[i] \in Seq(MethodSet)
    BY <1>2 DEF MethodsAsked
  <2>2. MethodsAsked(p) = [i \in DOMAIN p |-> MethodsAsked(p)[i]]
    BY DEF MethodsAsked
  <2> QED BY <1>1, <2>1, <2>2, ListIsSequence
<1>4. MethodRequests(p) = FlattenSeq(MethodsAsked(p))
  BY DEF MethodRequests, MethodsAsked
<1> QED BY <1>3, <1>4, FlattenJoins

LEMMA FieldRequestsAre ==
  ASSUME NEW p \in Packages
  PROVE  FieldRequests(p) \in Seq(FieldSet) /\ Joins(FieldsAsked(p), Len(p), FieldRequests(p))
<1>1. p \in Seq(TopDeclarations)
  BY PackagesAssumption
<1>2. ASSUME NEW i \in DOMAIN p PROVE FieldsAsked(p)[i] \in Seq(FieldSet)
  <2>1. PICK d \in TopDeclarations : d = p[Len(p) + 1 - i]
    <3>1. Len(p) + 1 - i \in DOMAIN p
      BY <1>1
    <3> QED BY <1>1, <3>1
  <2>2. FieldsAsked(p)[i] = IF d.kind = "function" THEN <<>> ELSE [j \in DOMAIN d.identifiers |-> FieldOf(d, j)]
    BY <2>1 DEF FieldsAsked
  <2>3. DOMAIN d.identifiers = 1 .. Len(d.identifiers) /\ Len(d.identifiers) \in Nat
    BY VariableDeclaration
  <2>4. [j \in DOMAIN d.identifiers |-> FieldOf(d, j)] \in Seq(FieldSet)
    BY <2>3, VariableDeclaration
  <2> QED BY <2>2, <2>4
<1>3. FieldsAsked(p) \in Seq(Seq(FieldSet)) /\ Len(FieldsAsked(p)) = Len(p)
  <2>1. DOMAIN FieldsAsked(p) = DOMAIN p /\ FieldsAsked(p) = [i \in DOMAIN p |-> FieldsAsked(p)[i]]
    BY DEF FieldsAsked
  <2> QED BY <1>1, <1>2, <2>1, ListIsSequence
<1>4. FieldRequests(p) = FlattenSeq(FieldsAsked(p))
  BY DEF FieldRequests, FieldsAsked
<1> QED BY <1>3, <1>4, FlattenJoins

(* Naming the blank variables changes nothing else.                        *)
Renamed(f, g) ==
  /\ DOMAIN f = DOMAIN g /\ f.isConst = g.isConst /\ f.value = g.value /\ f.type = g.type
  /\ IF f.id = "_" THEN g.id \in ToSet(BlankNames) ELSE g.id = f.id

LEMMA BlanksNamedAre ==
  ASSUME NEW p \in Packages
  PROVE  LET requests == FieldRequests(p)
             named == BlanksNamed(requests)
         IN  /\ DOMAIN named = DOMAIN requests /\ IsSequence(named)
             /\ \A i \in DOMAIN requests : Renamed(requests[i], named[i])
<1> DEFINE requests == FieldRequests(p)
           named == BlanksNamed(requests)
<1>1. requests \in Seq(FieldSet)
  BY FieldRequestsAre
<1>2. \A i \in DOMAIN requests : requests[i].id = "_" => BlankName(requests, i) \in ToSet(BlankNames)
  <2>1. \A i \in DOMAIN requests : requests[i].id = "_" => BlanksTo(requests, i) \in DOMAIN BlankNames
    BY PackagesAssumption
  <2>2. \A k \in DOMAIN BlankNames : BlankNames[k] \in ToSet(BlankNames)
    BY DEF ToSet
  <2> HIDE DEF requests
  <2> QED BY <2>1, <2>2 DEF BlankName
<1> HIDE DEF requests
<1>3. DOMAIN named = DOMAIN requests
  BY DEF BlanksNamed
<1>4. \E S : named \in Seq(S)
  <2>1. DOMAIN named = 1 .. Len(requests) /\ Len(requests) \in Nat
    BY <1>1, <1>3
  <2>2. named \in Seq({named[i] : i \in DOMAIN requests})
    <3>1. named = [i \in DOMAIN requests |-> named[i]]
      BY DEF BlanksNamed
    <3> HIDE DEF named
    <3> QED BY <2>1, <1>3, <3>1
  <2> QED BY <2>2
<1>5. ASSUME NEW i \in DOMAIN requests PROVE Renamed(requests[i], named[i])
  <2>1. requests[i] \in FieldSet
    BY <1>1
  <2>2. PICK f \in FieldSet : f = requests[i]
    BY <2>1
  <2>3. named[i] = IF f.id = "_" THEN [f EXCEPT !.id = BlankName(requests, i)] ELSE f
    BY <2>2 DEF BlanksNamed
  <2>4. f.id = "_" => BlankName(requests, i) \in ToSet(BlankNames)
    BY <1>2, <2>2
  <2> QED BY <2>2, <2>3, <2>4 DEF Renamed, FieldSet
<1> HIDE DEF named
<1>6. IsSequence(named)
  BY <1>4 DEF IsSequence
<1> QED BY <1>3, <1>5, <1>6 DEF requests, named

-----------------------------------------------------------------------------
(* The inductive invariant.                                                *)

FieldIds == (Identifiers \ {"_"}) \cup ToSet(BlankNames)

FieldOK(f) == f.id \in FieldIds /\ f.value \in Initialisers /\ "type" \in DOMAIN f

MethodOK(m) == m \in MethodSet

FieldsOK(map) == IsSequence(map) /\ \A i \in DOMAIN map : FieldOK(map[i])
MethodsOK(map) == IsSequence(map) /\ \A i \in DOMAIN map : MethodOK(map[i])

AfterFields == {"analyze methods", "pool", "field refs", "method refs", "head", "field infos",
                "constructor", "initialisers", "clinit", "bodies", "write"}

WithPool == {"field refs", "method refs", "head", "field infos", "constructor", "initialisers",
             "clinit", "bodies", "write", "written"}

IInv ==
  /\ package \in Packages
  /\ stage \in Stages
  /\ next \in DOMAIN Iterated
  /\ FieldsOK(fields) /\ MethodsOK(methods)
  /\ stage \in AfterFields \cup {"fields", "analyze fields"} => methods # <<>>
  /\ stage \in WithPool => P!Good(pool)

LEMMA RequestsOK ==
  ASSUME NEW p \in Packages
  PROVE  MethodsOK(MethodRequests(p)) /\ FieldsOK(BlanksNamed(FieldRequests(p)))
<1> DEFINE ms == MethodRequests(p)
           requests == FieldRequests(p)
           fs == BlanksNamed(requests)
<1>1. ms \in Seq(MethodSet) /\ requests \in Seq(FieldSet)
  BY MethodRequestsAre, FieldRequestsAre
<1>2. DOMAIN fs = DOMAIN requests /\ IsSequence(fs) /\ \A i \in DOMAIN requests : Renamed(requests[i], fs[i])
  BY BlanksNamedAre
<1> HIDE DEF ms, fs, requests
<1>3. ASSUME NEW i \in DOMAIN fs PROVE FieldOK(fs[i])
  <2>1. requests[i] \in FieldSet /\ Renamed(requests[i], fs[i])
    BY <1>1, <1>2
  <2>2. PICK f \in FieldSet : f = requests[i] /\ Renamed(f, fs[i])
    BY <2>1
  <2> QED BY <2>2 DEF FieldOK, FieldIds, FieldSet, Renamed
<1>4. \A i \in DOMAIN ms : MethodOK(ms[i])
  BY <1>1 DEF MethodOK
<1>5. IsSequence(ms)
  BY <1>1 DEF IsSequence
<1> QED BY <1>2, <1>3, <1>4, <1>5 DEF FieldsOK, MethodsOK, ms, fs, requests

(* The names of members are texts of the pool; an initialiser is one       *)
(* expression.                                                             *)
LEMMA FieldFacts ==
  ASSUME NEW f, FieldOK(f)
  PROVE  f.id \in Strings /\ f.id # "_" /\ (f.value # <<>> => f.value[1] \in Seq(Operands) /\ f.value[1] # <<>>)
<1>1. \A x \in ToSet(BlankNames) : x \in Strings /\ x # "_"
  <2>1. ToSet(BlankNames) = {"$_0", "$_1", "$_2"}
    BY DEF ToSet, BlankNames
  <2> QED BY <2>1, StringsAssumption
<1>2. f.id \in Strings /\ f.id # "_"
  BY <1>1 DEF FieldOK, FieldIds, Identifiers
<1>3. ASSUME f.value # <<>> PROVE f.value[1] \in Seq(Operands) /\ f.value[1] # <<>>
  <2>1. PICK e \in Seq(Operands) \ {<<>>} : f.value = <<e>>
    BY <1>3 DEF FieldOK, Initialisers
  <2>2. f.value[1] = e
    BY <2>1
  <2> QED BY <2>2
<1> QED BY <1>2, <1>3

LEMMA MethodFacts ==
  ASSUME NEW m, MethodOK(m)
  PROVE  m.id \in Strings \ {"<init>", "<clinit>"} /\ m.value \in Seq(Operands)
BY DEF MethodOK, MethodSet, Identifiers

LEMMA EmptyMap == IsSequence(<<>>) /\ DOMAIN <<>> = {}
<1>1. <<>> \in Seq({})
  OBVIOUS
<1> QED BY <1>1 DEF IsSequence

LEMMA OneRound == DOMAIN <<"once">> = {1}
OBVIOUS

LEMMA StartIInv == Start => IInv
<1> SUFFICES ASSUME Start PROVE IInv
  OBVIOUS
<1>1. package \in Packages /\ stage = "scope" /\ next = 1 /\ fields = <<>> /\ methods = <<>>
  BY DEF Start, Init
<1>2. Iterated = <<"once">>
  BY <1>1 DEF Iterated
<1>3. next \in DOMAIN Iterated
  BY <1>1, <1>2
<1> QED BY <1>1, <1>3, EmptyMap DEF IInv, FieldsOK, MethodsOK, Stages, AfterFields, WithPool

LEMMA EmplacedOK ==
  ASSUME NEW map, NEW entry
  PROVE  /\ FieldsOK(map) /\ FieldOK(entry) => FieldsOK(TryEmplace(map, entry)) /\ TryEmplace(map, entry) # <<>>
         /\ MethodsOK(map) /\ MethodOK(entry) => MethodsOK(TryEmplace(map, entry)) /\ TryEmplace(map, entry) # <<>>
BY Emplaced DEF FieldsOK, MethodsOK, AddsEntry

(* A request of a package that has a main, and one of the maps.            *)
LEMMA ScopeStep == IInv /\ AnalyzePackageScope => IInv'
<1> SUFFICES ASSUME IInv, AnalyzePackageScope PROVE IInv'
  OBVIOUS
<1> USE DEF AnalyzePackageScope
<1>1. package' = package /\ fields' = fields /\ methods' = methods /\ next' = next /\ stage = "scope"
  BY DEF output
<1>2. next = 1
  <2>1. next \in DOMAIN <<"once">>
    BY <1>1 DEF IInv, Iterated
  <2> QED BY <2>1
<1>3. MethodsOK(MethodRequests(package))
  BY RequestsOK DEF IInv
<1>4. CASE errors' = {}
  <2>1. stage' = "methods" /\ MainErrors(package) = {}
    BY <1>4
  <2>2. MethodRequests(package) # <<>>
    <3>1. SUFFICES ASSUME MethodRequests(package) = <<>> PROVE FALSE
      OBVIOUS
    <3>2. {m \in ToSet(MethodRequests(package)) : m.id = "main"} = {}
      BY <3>1 DEF ToSet
    <3>3. "no main" \in MainErrors(package)
      BY <3>2 DEF MainErrors
    <3> QED BY <2>1, <3>3
  <2>3. 1 \in DOMAIN MethodRequests(package)
    BY <1>3, <2>2, MapFacts DEF MethodsOK
  <2>4. next' \in DOMAIN Iterated'
    BY <1>1, <1>2, <2>1, <2>3 DEF Iterated
  <2> QED BY <1>1, <2>1, <2>4 DEF IInv, Stages, AfterFields, WithPool
<1>5. CASE errors' # {}
  <2>1. stage' = "rejected"
    BY <1>5
  <2>2. Iterated' = <<"once">>
    BY <2>1 DEF Iterated
  <2>3. next' \in DOMAIN Iterated'
    BY <2>2, <1>1, <1>2
  <2> QED BY <1>1, <2>1, <2>3 DEF IInv, Stages, AfterFields, WithPool
<1> QED BY <1>4, <1>5

LEMMA AddMethodStep == IInv /\ AddMethod => IInv'
<1> SUFFICES ASSUME IInv, AddMethod PROVE IInv'
  OBVIOUS
<1> DEFINE requests == MethodRequests(package)
           m == requests[next]
           blanks == BlanksNamed(FieldRequests(package))
<1>1. /\ package' = package /\ fields' = fields /\ stage = "methods"
      /\ methods' = TryEmplace(methods, m)
      /\ Continue(requests, IF blanks = <<>> THEN "analyze methods" ELSE "fields")
  BY DEF AddMethod
<1>2. MethodsOK(requests) /\ FieldsOK(blanks)
  BY RequestsOK DEF IInv
<1>3. next \in DOMAIN requests
  BY <1>1 DEF IInv, Iterated
<1> HIDE DEF requests, blanks
<1>4. MethodsOK(methods') /\ methods' # <<>>
  <2>1. MethodOK(m) /\ MethodsOK(methods)
    BY <1>2, <1>3 DEF MethodsOK, IInv
  <2> HIDE DEF m
  <2> QED BY <1>1, <2>1, EmplacedOK
<1>5. CASE next < Len(requests)
  <2>1. stage' = stage /\ next' = next + 1
    BY <1>1, <1>5 DEF Continue
  <2>2. next' \in DOMAIN requests
    BY <1>2, <1>3, <1>5, <2>1, NextRound DEF MethodsOK
  <2>3. next' \in DOMAIN Iterated'
    BY <1>1, <2>1, <2>2 DEF Iterated, requests
  <2> QED BY <1>1, <1>4, <2>1, <2>3 DEF IInv, WithPool
<1>6. CASE ~(next < Len(requests))
  <2>1. stage' = (IF blanks = <<>> THEN "analyze methods" ELSE "fields") /\ next' = 1
    BY <1>1, <1>6 DEF Continue
  <2>2. CASE blanks = <<>>
    <3>1. 1 \in DOMAIN methods'
      BY <1>4, MapFacts DEF MethodsOK
    <3>2. next' \in DOMAIN Iterated'
      BY <2>1, <2>2, <3>1 DEF Iterated
    <3> QED BY <1>1, <1>4, <2>1, <2>2, <3>2 DEF IInv, WithPool, Stages
  <2>3. CASE blanks # <<>>
    <3>1. 1 \in DOMAIN blanks
      BY <1>2, <2>3, MapFacts DEF FieldsOK
    <3>2. next' \in DOMAIN Iterated'
      BY <1>1, <2>1, <2>3, <3>1 DEF Iterated, blanks
    <3> QED BY <1>1, <1>4, <2>1, <2>3, <3>2 DEF IInv, WithPool, Stages
  <2> QED BY <2>2, <2>3
<1> QED BY <1>5, <1>6

(* The steps that change neither the package nor its maps.                 *)
MapsKept == package' = package /\ fields' = fields /\ methods' = methods

LEMMA RoundDone ==
  ASSUME IInv, MapsKept, stage' = stage, next' = next + 1, next < Len(Iterated), IsSequence(Iterated),
         stage \in WithPool => P!Good(pool')
  PROVE  IInv'
<1>1. next' \in DOMAIN Iterated
  BY NextRound DEF IInv
<1>2. Iterated' = Iterated
  BY DEF Iterated, MapsKept
<1> QED BY <1>1, <1>2 DEF IInv, MapsKept

LEMMA StageDone ==
  ASSUME IInv, MapsKept, stage' \in Stages \ {"methods", "fields", "analyze fields"}, next' = 1,
         stage' \in AfterFields => methods # <<>>,
         stage' \in {"field refs", "field infos", "initialisers"} => fields # <<>>,
         stage' \in WithPool => P!Good(pool')
  PROVE  IInv'
<1>1. /\ fields # <<>> => 1 \in DOMAIN fields
      /\ methods # <<>> => 1 \in DOMAIN methods
  BY MapFacts DEF IInv, FieldsOK, MethodsOK
<1>2. CASE stage' \in {"field refs", "field infos", "initialisers"}
  <2>1. Iterated' = fields
    BY <1>2 DEF Iterated, MapsKept
  <2> QED BY <1>1, <1>2, <2>1 DEF IInv, MapsKept, AfterFields
<1>3. CASE stage' \in {"analyze methods", "method refs", "bodies"}
  <2>1. Iterated' = methods
    BY <1>3 DEF Iterated, MapsKept
  <2>2. methods # <<>>
    BY <1>3 DEF AfterFields
  <2> QED BY <1>1, <1>3, <2>1, <2>2 DEF IInv, MapsKept
<1>4. CASE stage' \notin {"field refs", "field infos", "initialisers", "analyze methods", "method refs", "bodies"}
  <2>1. Iterated' = <<"once">>
    BY <1>4 DEF Iterated
  <2>3. next' \in DOMAIN Iterated'
    BY <2>1, OneRound
  <2> QED BY <2>3 DEF IInv, MapsKept
<1> QED BY <1>2, <1>3, <1>4

LEMMA Once ==
  ASSUME IInv, stage \in {"pool", "head", "constructor", "clinit", "write", "written"} PROVE next = 1
<1>1. next \in DOMAIN <<"once">>
  BY DEF IInv, Iterated
<1> QED BY <1>1

LEMMA AddFieldStep == IInv /\ AddField => IInv'
<1> SUFFICES ASSUME IInv, AddField PROVE IInv'
  OBVIOUS
<1> DEFINE requests == BlanksNamed(FieldRequests(package))
           f == requests[next]
<1>1. /\ package' = package /\ methods' = methods /\ stage = "fields"
      /\ fields' = TryEmplace(fields, f)
      /\ Continue(requests, "analyze fields")
  BY DEF AddField
<1>2. FieldsOK(requests)
  BY RequestsOK DEF IInv
<1>3. next \in DOMAIN requests
  BY <1>1 DEF IInv, Iterated
<1> HIDE DEF requests
<1>4. FieldsOK(fields') /\ fields' # <<>>
  <2>1. FieldOK(f) /\ FieldsOK(fields)
    BY <1>2, <1>3 DEF FieldsOK, IInv
  <2> HIDE DEF f
  <2> QED BY <1>1, <2>1, EmplacedOK
<1>5. CASE next < Len(requests)
  <2>1. stage' = stage /\ next' = next + 1
    BY <1>1, <1>5 DEF Continue
  <2>2. next' \in DOMAIN requests
    BY <1>2, <1>3, <1>5, <2>1, NextRound DEF FieldsOK
  <2>3. next' \in DOMAIN Iterated'
    BY <1>1, <2>1, <2>2 DEF Iterated, requests
  <2> QED BY <1>1, <1>4, <2>1, <2>3 DEF IInv, WithPool
<1>6. CASE ~(next < Len(requests))
  <2>1. stage' = "analyze fields" /\ next' = 1
    BY <1>1, <1>6 DEF Continue
  <2>2. 1 \in DOMAIN fields'
    BY <1>4, MapFacts DEF FieldsOK
  <2>3. next' \in DOMAIN Iterated'
    BY <2>1, <2>2 DEF Iterated
  <2> QED BY <1>1, <1>4, <2>1, <2>3 DEF IInv, WithPool, Stages
<1> QED BY <1>5, <1>6

LEMMA AnalyzeFieldStep == IInv /\ AnalyzeField => IInv'
<1> SUFFICES ASSUME IInv, AnalyzeField PROVE IInv'
  OBVIOUS
<1>1. /\ package' = package /\ methods' = methods /\ stage = "analyze fields"
      /\ fields' = fields \/ \E type : fields' = [fields EXCEPT ![next].type = type]
      /\ Continue(fields, "analyze methods")
  BY DEF AnalyzeField
<1>2. next \in DOMAIN fields /\ FieldsOK(fields)
  BY <1>1 DEF IInv, Iterated
<1>3. FieldsOK(fields') /\ DOMAIN fields' = DOMAIN fields
  <2>1. CASE fields' = fields
    BY <1>2, <2>1
  <2>2. ASSUME NEW type, fields' = [fields EXCEPT ![next].type = type]
        PROVE  FieldsOK(fields') /\ DOMAIN fields' = DOMAIN fields
    <3>1. PICK S : fields \in Seq(S)
      BY <1>2 DEF FieldsOK, IsSequence
    <3>2. PICK g : g = [fields[next] EXCEPT !.type = type]
      OBVIOUS
    <3>3. fields' = [fields EXCEPT ![next] = g]
      BY <2>2, <3>2
    <3>4. fields' \in Seq(S \cup {g}) /\ DOMAIN fields' = DOMAIN fields
      BY <1>2, <3>1, <3>3
    <3>5. g.id = fields[next].id /\ g.value = fields[next].value /\ DOMAIN g = DOMAIN fields[next]
      BY <3>2
    <3>6. FieldOK(g)
      BY <1>2, <3>5 DEF FieldsOK, FieldOK
    <3>7. \A i \in DOMAIN fields' : FieldOK(fields'[i])
      BY <1>2, <3>3, <3>4, <3>6 DEF FieldsOK
    <3> QED BY <3>4, <3>7 DEF FieldsOK, IsSequence
  <2> QED BY <1>1, <2>1, <2>2
<1>4. CASE next < Len(fields)
  <2>1. stage' = stage /\ next' = next + 1
    BY <1>1, <1>4 DEF Continue
  <2>2. next' \in DOMAIN fields'
    BY <1>2, <1>3, <1>4, <2>1, NextRound DEF FieldsOK
  <2>3. next' \in DOMAIN Iterated'
    BY <1>1, <2>1, <2>2 DEF Iterated
  <2> QED BY <1>1, <1>3, <2>1, <2>3 DEF IInv, WithPool
<1>5. CASE ~(next < Len(fields))
  <2>1. stage' = "analyze methods" /\ next' = 1
    BY <1>1, <1>5 DEF Continue
  <2>2. methods # <<>> /\ 1 \in DOMAIN methods'
    BY <1>1, MapFacts DEF IInv, MethodsOK
  <2>3. next' \in DOMAIN Iterated'
    BY <1>1, <2>1, <2>2 DEF Iterated
  <2> QED BY <1>1, <1>3, <2>1, <2>2, <2>3 DEF IInv, WithPool, Stages
<1> QED BY <1>4, <1>5

LEMMA AnalyzeMethodStep == IInv /\ AnalyzeMethod => IInv'
<1> SUFFICES ASSUME IInv, AnalyzeMethod PROVE IInv'
  OBVIOUS
<1>1. /\ MapsKept /\ stage = "analyze methods"
      /\ Continue(methods, IF errors' = {} THEN "pool" ELSE "rejected")
  BY DEF AnalyzeMethod, MapsKept
<1>2. IsSequence(methods) /\ Iterated = methods /\ methods # <<>>
  BY <1>1 DEF IInv, MethodsOK, Iterated, AfterFields
<1>3. CASE next < Len(methods)
  BY <1>1, <1>2, <1>3, RoundDone DEF Continue, WithPool
<1>4. CASE ~(next < Len(methods))
  <2>1. stage' \in {"pool", "rejected"} /\ next' = 1
    BY <1>1, <1>4 DEF Continue
  <2> QED BY <1>1, <1>2, <2>1, StageDone DEF Stages, WithPool
<1> QED BY <1>3, <1>4

LEMMA FillHeadStep == IInv /\ FillHead => IInv'
<1> SUFFICES ASSUME IInv, FillHead PROVE IInv'
  OBVIOUS
<1>1. /\ MapsKept /\ stage = "pool" /\ next' = next
      /\ stage' = IF fields = <<>> THEN "method refs" ELSE "field refs"
  BY DEF FillHead, MapsKept, analysis
<1>2. P!Good(pool')
  BY HeadFilled DEF FillHead
<1>3. next = 1 /\ methods # <<>>
  BY <1>1, Once DEF IInv, AfterFields
<1> QED BY <1>1, <1>2, <1>3, StageDone DEF Stages

LEMMA FillFieldPool ==
  ASSUME IInv, FillField
  PROVE  /\ Grown(pool, pool')
         /\ \E n \in DOMAIN pool' :
              /\ P!IsRef(pool', n, "FieldRef", ThisClass, fields[next].id, Descriptor(fields[next].type))
              /\ context' = Bind(context, fields[next].id, n)
<1>1. FieldOK(fields[next]) /\ P!Good(pool)
  BY DEF FillField, IInv, FieldsOK, Iterated, WithPool
<1>2. PICK r \in Pool!FindOrCreateFieldRef(pool, ThisClass, fields[next].id, Descriptor(fields[next].type)) :
        pool' = r.pool /\ context' = Bind(context, fields[next].id, r.id)
  BY DEF FillField
<1>3. Answers(pool, r) /\ P!IsRef(r.pool, r.id, "FieldRef", ThisClass, fields[next].id, Descriptor(fields[next].type))
  BY <1>1, KnownTexts, FieldRefRequest, FieldFacts
<1>4. r.id \in DOMAIN r.pool
  BY <1>3 DEF Answers, Grown, P!Good
<1> QED BY <1>2, <1>3, <1>4 DEF Answers

LEMMA FillFieldStep == IInv /\ FillField => IInv'
<1> SUFFICES ASSUME IInv, FillField PROVE IInv'
  OBVIOUS
<1>1. MapsKept /\ stage = "field refs" /\ Continue(fields, "method refs")
  BY DEF FillField, MapsKept, analysis
<1>2. IsSequence(fields) /\ Iterated = fields /\ next \in DOMAIN fields /\ FieldOK(fields[next]) /\ P!Good(pool) /\ methods # <<>>
  BY <1>1 DEF IInv, FieldsOK, Iterated, WithPool, AfterFields
<1>3. P!Good(pool')
  BY FillFieldPool DEF Grown
<1>4. CASE next < Len(fields)
  BY <1>1, <1>2, <1>3, <1>4, RoundDone DEF Continue
<1>5. CASE ~(next < Len(fields))
  <2>1. stage' = "method refs" /\ next' = 1
    BY <1>1, <1>5 DEF Continue
  <2> QED BY <1>1, <1>2, <1>3, <2>1, StageDone DEF Stages
<1> QED BY <1>4, <1>5

LEMMA FillMethodPool ==
  ASSUME IInv, FillMethod
  PROVE  /\ Grown(pool, pool')
         /\ \E n \in DOMAIN pool' :
              /\ pool'[n].type = "MethodRef"
              /\ P!IsRef(pool', n, "MethodRef", ThisClass, methods[next].id, MethodDescriptor(methods[next]))
              /\ context' = Bind(context, methods[next].id, n)
<1>1. MethodOK(methods[next]) /\ P!Good(pool)
  BY DEF FillMethod, IInv, MethodsOK, Iterated, WithPool
<1>2. PICK r \in Pool!FindOrCreateMethodRef(pool, ThisClass, methods[next].id, MethodDescriptor(methods[next])) :
        pool' = r.pool /\ context' = Bind(context, methods[next].id, r.id)
  BY DEF FillMethod
<1>3. /\ Answers(pool, r) /\ r.pool[r.id].type = "MethodRef"
      /\ P!IsRef(r.pool, r.id, "MethodRef", ThisClass, methods[next].id, MethodDescriptor(methods[next]))
  <2>1. PICK name, descriptor : name = methods[next].id /\ descriptor = MethodDescriptor(methods[next])
    OBVIOUS
  <2>2. name \in Strings /\ descriptor \in Strings /\ ThisClass \in Strings
    BY <1>1, <2>1, KnownTexts, MethodFacts
  <2>3. Answers(pool, r) /\ P!IsRef(r.pool, r.id, "MethodRef", ThisClass, name, descriptor)
    BY <1>1, <1>2, <2>1, <2>2, MethodRefRequest
  <2>4. \E a, b : r.pool[r.id] = P!Entry("MethodRef", None, a, b)
    BY <2>3 DEF P!IsRef
  <2> QED BY <2>1, <2>3, <2>4 DEF P!Entry
<1>4. r.id \in DOMAIN r.pool
  BY <1>3 DEF Answers, Grown, P!Good
<1> QED BY <1>2, <1>3, <1>4 DEF Answers

LEMMA FillMethodStep == IInv /\ FillMethod => IInv'
<1> SUFFICES ASSUME IInv, FillMethod PROVE IInv'
  OBVIOUS
<1>1. MapsKept /\ stage = "method refs" /\ Continue(methods, "head")
  BY DEF FillMethod, MapsKept, analysis
<1>2. IsSequence(methods) /\ Iterated = methods /\ next \in DOMAIN methods /\ MethodOK(methods[next]) /\ P!Good(pool) /\ methods # <<>>
  BY <1>1 DEF IInv, MethodsOK, Iterated, WithPool, AfterFields
<1>3. P!Good(pool')
  BY FillMethodPool DEF Grown
<1>4. CASE next < Len(methods)
  BY <1>1, <1>2, <1>3, <1>4, RoundDone DEF Continue
<1>5. CASE ~(next < Len(methods))
  <2>1. stage' = "head" /\ next' = 1
    BY <1>1, <1>5 DEF Continue
  <2> QED BY <1>1, <1>2, <1>3, <2>1, StageDone DEF Stages
<1> QED BY <1>4, <1>5

LEMMA GenerateHeadPool ==
  ASSUME IInv, GenerateHead
  PROVE  /\ Grown(pool, pool')
         /\ \E this, super :
              /\ file' = [this |-> this, super |-> super, fields |-> <<>>, methods |-> <<>>]
              /\ P!IsText(pool', this, "Class", ThisClass) /\ P!IsText(pool', super, "Class", Object)
<1>1. P!Good(pool)
  BY DEF GenerateHead, IInv, WithPool
<1>2. PICK c \in Pool!FindOrCreateUtf8(pool, "<clinit>") :
        \E this \in Pool!FindOrCreateClass(c.pool, ThisClass) :
        \E super \in Pool!FindOrCreateClass(this.pool, Object) :
          /\ pool' = super.pool
          /\ file' = [this |-> this.id, super |-> super.id, fields |-> <<>>, methods |-> <<>>]
  BY DEF GenerateHead
<1>3. Grown(pool, c.pool) /\ P!Good(c.pool)
  BY <1>1, KnownTexts, Utf8Request DEF Answers, Grown
<1>4. PICK this \in Pool!FindOrCreateClass(c.pool, ThisClass) :
        \E super \in Pool!FindOrCreateClass(this.pool, Object) :
          /\ pool' = super.pool
          /\ file' = [this |-> this.id, super |-> super.id, fields |-> <<>>, methods |-> <<>>]
  BY <1>2
<1>5. Grown(c.pool, this.pool) /\ P!Good(this.pool) /\ P!IsText(this.pool, this.id, "Class", ThisClass)
  BY <1>3, KnownTexts, TextRequest DEF Answers, Grown
<1>6. PICK super \in Pool!FindOrCreateClass(this.pool, Object) :
        /\ pool' = super.pool
        /\ file' = [this |-> this.id, super |-> super.id, fields |-> <<>>, methods |-> <<>>]
  BY <1>4
<1>7. Grown(this.pool, super.pool) /\ P!IsText(super.pool, super.id, "Class", Object)
  BY <1>5, KnownTexts, TextRequest DEF Answers
<1>8. Grown(c.pool, super.pool)
  BY <1>3, <1>5, <1>7, GrownTrans
<1>9. Grown(pool, super.pool)
  BY <1>1, <1>3, <1>8, GrownTrans
<1>10. P!IsText(super.pool, this.id, "Class", ThisClass)
  BY <1>5, <1>7, P!Kept DEF Grown
<1> QED BY <1>6, <1>7, <1>9, <1>10

LEMMA GenerateHeadStep == IInv /\ GenerateHead => IInv'
<1> SUFFICES ASSUME IInv, GenerateHead PROVE IInv'
  OBVIOUS
<1>1. /\ MapsKept /\ stage = "head" /\ next' = next
      /\ stage' = IF fields = <<>> THEN "constructor" ELSE "field infos"
  BY DEF GenerateHead, MapsKept, analysis
<1>2. next = 1 /\ methods # <<>> /\ P!Good(pool)
  BY <1>1, Once DEF IInv, AfterFields, WithPool
<1>3. P!Good(pool')
  BY GenerateHeadPool DEF Grown
<1> QED BY <1>1, <1>2, <1>3, StageDone DEF Stages

LEMMA GenerateFieldPool ==
  ASSUME IInv, GenerateField
  PROVE  /\ Grown(pool, pool')
         /\ \E info : /\ file' = [file EXCEPT !.fields = Append(@, info)]
                     /\ P!IsUtf8(pool', info.name, fields[next].id)
                     /\ P!IsUtf8(pool', info.descriptor, Descriptor(fields[next].type))
<1>1. FieldOK(fields[next]) /\ P!Good(pool)
  BY DEF GenerateField, IInv, FieldsOK, Iterated, WithPool
<1>2. PICK name \in Pool!FindOrCreateUtf8(pool, fields[next].id) :
        \E type \in Pool!FindOrCreateUtf8(name.pool, Descriptor(fields[next].type)) :
          /\ pool' = type.pool
          /\ file' = [file EXCEPT !.fields = Append(@, [name |-> name.id, descriptor |-> type.id])]
  BY DEF GenerateField
<1>3. Grown(pool, name.pool) /\ P!Good(name.pool) /\ P!IsUtf8(name.pool, name.id, fields[next].id)
  BY <1>1, Utf8Request, FieldFacts DEF Answers, Grown
<1>4. PICK type \in Pool!FindOrCreateUtf8(name.pool, Descriptor(fields[next].type)) :
        /\ pool' = type.pool
        /\ file' = [file EXCEPT !.fields = Append(@, [name |-> name.id, descriptor |-> type.id])]
  BY <1>2
<1>5. Grown(name.pool, type.pool) /\ P!IsUtf8(type.pool, type.id, Descriptor(fields[next].type))
  BY <1>3, KnownTexts, Utf8Request DEF Answers
<1>6. Grown(pool, type.pool) /\ P!IsUtf8(type.pool, name.id, fields[next].id)
  BY <1>1, <1>3, <1>5, GrownTrans, GrownKeeps
<1>7. PICK info : info = [name |-> name.id, descriptor |-> type.id]
  OBVIOUS
<1>8. info.name = name.id /\ info.descriptor = type.id
  BY <1>7
<1> QED BY <1>4, <1>5, <1>6, <1>7, <1>8

LEMMA GenerateFieldStep == IInv /\ GenerateField => IInv'
<1> SUFFICES ASSUME IInv, GenerateField PROVE IInv'
  OBVIOUS
<1>1. MapsKept /\ stage = "field infos" /\ Continue(fields, "constructor")
  BY DEF GenerateField, MapsKept, analysis
<1>2. IsSequence(fields) /\ Iterated = fields /\ next \in DOMAIN fields /\ FieldOK(fields[next]) /\ P!Good(pool) /\ methods # <<>>
  BY <1>1 DEF IInv, FieldsOK, Iterated, WithPool, AfterFields
<1>3. P!Good(pool')
  BY GenerateFieldPool DEF Grown
<1>4. CASE next < Len(fields)
  BY <1>1, <1>2, <1>3, <1>4, RoundDone DEF Continue
<1>5. CASE ~(next < Len(fields))
  <2>1. stage' = "constructor" /\ next' = 1
    BY <1>1, <1>5 DEF Continue
  <2> QED BY <1>1, <1>2, <1>3, <2>1, StageDone DEF Stages
<1> QED BY <1>4, <1>5

LEMMA GenerateConstructorPool ==
  ASSUME IInv, GenerateConstructor
  PROVE  /\ Grown(pool, pool')
         /\ \E code : /\ Ends(code) /\ AllLinked(pool', code, {}, {})
                     /\ AddsMethod(pool, file, "<init>", "()V", code, pool', file')
<1>1. P!Good(pool)
  BY DEF GenerateConstructor, IInv, WithPool
<1>2. PICK q, f, g : q = pool' /\ f = file /\ g = file'
  OBVIOUS
<1>3. PICK body \in {[pool |-> r.pool, code |-> <<<<"super init", r.id>>, <<"return", 0>>>>] :
                       r \in Pool!FindOrCreateMethodRef(pool, Object, "<init>", "()V")} :
        Generates(body.pool, f, "<init>", "()V", body.code, q, g)
  BY <1>2 DEF GenerateConstructor, GenerateMethodInfo, Generates, WithMethod, Info
<1>4. PICK r \in Pool!FindOrCreateMethodRef(pool, Object, "<init>", "()V") :
        body = [pool |-> r.pool, code |-> <<<<"super init", r.id>>, <<"return", 0>>>>]
  BY <1>3
<1>5. body.pool = r.pool /\ body.code = <<<<"super init", r.id>>, <<"return", 0>>>>
  BY <1>4
<1>6. Ends(body.code)
  BY <1>5, TwoInstructionsEnd
<1>7. Grown(pool, body.pool) /\ P!Good(body.pool)
  BY <1>1, <1>5, KnownTexts, MethodRefRequest DEF Answers, Grown
<1>8. AddsMethod(body.pool, f, "<init>", "()V", body.code, q, g)
  BY <1>3, <1>7, KnownTexts, MethodGenerated
<1>9. Grown(pool, q) /\ AddsMethod(pool, f, "<init>", "()V", body.code, q, g)
  BY <1>1, <1>7, <1>8, GrownTrans DEF AddsMethod
<1>10. AllLinked(q, body.code, {}, {})
  <2>1. P!IsRef(r.pool, r.id, "MethodRef", Object, "<init>", "()V")
    BY <1>1, KnownTexts, MethodRefRequest
  <2>2. Linked(body.pool, <<"super init", r.id>>, {}, {}) /\ Linked(body.pool, <<"return", 0>>, {}, {})
    BY <1>5, <2>1 DEF Linked
  <2>3. AllLinked(body.pool, body.code, {}, {})
    BY <1>5, <2>2, TwoLinked
  <2>4. Grown(body.pool, q)
    BY <1>8 DEF AddsMethod
  <2>5. PICK none, b, code : none = {} /\ b = body.pool /\ code = body.code
    OBVIOUS
  <2>6. P!Good(b) /\ Grown(b, q) /\ AllLinked(b, code, none, none)
    BY <1>7, <2>3, <2>4, <2>5
  <2>7. AllLinked(q, code, none, none)
    BY <2>6, AllLinkedGrows
  <2> QED BY <2>5, <2>7
<1> QED BY <1>2, <1>6, <1>9, <1>10

LEMMA GenerateConstructorStep == IInv /\ GenerateConstructor => IInv'
<1> SUFFICES ASSUME IInv, GenerateConstructor PROVE IInv'
  OBVIOUS
<1>1. /\ MapsKept /\ stage = "constructor" /\ next' = next
      /\ stage' = IF HasFieldsDeclaration THEN "initialisers" ELSE "bodies"
  BY DEF GenerateConstructor, MapsKept, analysis
<1>2. next = 1 /\ methods # <<>> /\ P!Good(pool)
  BY <1>1, Once DEF IInv, AfterFields, WithPool
<1>3. P!Good(pool')
  BY GenerateConstructorPool DEF Grown
<1>4. HasFieldsDeclaration => fields # <<>>
  BY DEF HasFieldsDeclaration, ToSet
<1> QED BY <1>1, <1>2, <1>3, <1>4, StageDone DEF Stages

LEMMA GenerateInitialiserPool ==
  ASSUME IInv, GenerateInitialiser
  PROVE  LET f == fields[next] IN
         \/ f.value = <<>> /\ pool' = pool /\ clinit' = clinit
         \/ /\ f.value # <<>> /\ Grown(pool, pool')
            /\ \E code : /\ Coded(code, pool', FieldsRead(f.value[1]), MethodsCalled(f.value[1]))
                        /\ clinit' = clinit \o code \o <<<<"putstatic", context[f.id]>>>>
<1> DEFINE f == fields[next]
<1>1. FieldOK(f) /\ P!Good(pool)
  BY DEF GenerateInitialiser, IInv, FieldsOK, Iterated, WithPool
<1>2. CASE f.value = <<>>
  BY <1>2 DEF GenerateInitialiser
<1>3. CASE f.value # <<>>
  <2>1. PICK r \in ExpressionCode(pool, f.value[1]) :
          /\ pool' = r.pool
          /\ clinit' = clinit \o r.code \o <<<<"putstatic", context[f.id]>>>>
    BY <1>3 DEF GenerateInitialiser
  <2>2. Grown(pool, r.pool) /\ Coded(r.code, r.pool, FieldsRead(f.value[1]), MethodsCalled(f.value[1]))
    BY <1>1, <1>3, ExpressionEmits, FieldFacts DEF Emits
  <2> HIDE DEF f
  <2> QED BY <1>3, <2>1, <2>2 DEF f
<1> QED BY <1>2, <1>3

LEMMA GenerateInitialiserStep == IInv /\ GenerateInitialiser => IInv'
<1> SUFFICES ASSUME IInv, GenerateInitialiser PROVE IInv'
  OBVIOUS
<1>1. MapsKept /\ stage = "initialisers" /\ Continue(fields, "clinit")
  BY DEF GenerateInitialiser, MapsKept, analysis
<1>2. IsSequence(fields) /\ Iterated = fields /\ next \in DOMAIN fields /\ FieldOK(fields[next]) /\ P!Good(pool) /\ methods # <<>>
  BY <1>1 DEF IInv, FieldsOK, Iterated, WithPool, AfterFields
<1>3. P!Good(pool')
  BY <1>2, GenerateInitialiserPool DEF Grown
<1>4. CASE next < Len(fields)
  BY <1>1, <1>2, <1>3, <1>4, RoundDone DEF Continue
<1>5. CASE ~(next < Len(fields))
  <2>1. stage' = "clinit" /\ next' = 1
    BY <1>1, <1>5 DEF Continue
  <2> QED BY <1>1, <1>2, <1>3, <2>1, StageDone DEF Stages
<1> QED BY <1>4, <1>5

LEMMA GenerateClinitPool ==
  ASSUME IInv, GenerateClinit
  PROVE  /\ Grown(pool, pool')
         /\ AddsMethod(pool, file, "<clinit>", "()V", Append(clinit, <<"return", 0>>), pool', file')
<1>1. P!Good(pool)
  BY DEF GenerateClinit, IInv, WithPool
<1>2. PICK q, f, g, code : q = pool' /\ f = file /\ g = file' /\ code = Append(clinit, <<"return", 0>>)
  OBVIOUS
<1>3. PICK body \in {[pool |-> pool, code |-> Append(clinit, <<"return", 0>>)]} :
        Generates(body.pool, f, "<clinit>", "()V", body.code, q, g)
  BY <1>2 DEF GenerateClinit, GenerateMethodInfo, Generates, WithMethod, Info
<1>4. body.pool = pool /\ body.code = code
  BY <1>2, <1>3
<1>5. AddsMethod(body.pool, f, "<clinit>", "()V", body.code, q, g)
  BY <1>1, <1>3, <1>4, KnownTexts, MethodGenerated
<1> QED BY <1>2, <1>4, <1>5 DEF AddsMethod

LEMMA GenerateClinitStep == IInv /\ GenerateClinit => IInv'
<1> SUFFICES ASSUME IInv, GenerateClinit PROVE IInv'
  OBVIOUS
<1>1. MapsKept /\ stage = "clinit" /\ next' = next /\ stage' = "bodies"
  BY DEF GenerateClinit, MapsKept, analysis
<1>2. next = 1 /\ methods # <<>> /\ P!Good(pool)
  BY <1>1, Once DEF IInv, AfterFields, WithPool
<1>3. P!Good(pool')
  BY GenerateClinitPool DEF Grown
<1> QED BY <1>1, <1>2, <1>3, StageDone DEF Stages

LEMMA GenerateMethodPool ==
  ASSUME IInv, GenerateMethod
  PROVE  /\ Grown(pool, pool')
         /\ methods[next].id # "<clinit>"
         /\ \E code :
              /\ Ends(code)
              /\ BodyTyped(methods[next]) =>
                   AllLinked(pool', code, FieldsRead(methods[next].value), MethodsCalled(methods[next].value))
              /\ AddsMethod(pool, file, methods[next].id, MethodDescriptor(methods[next]), code, pool', file')
<1>1. P!Good(pool)
  BY DEF GenerateMethod, IInv, WithPool
<1>2. PICK q, f, g, m : q = pool' /\ f = file /\ g = file' /\ m = methods[next]
  OBVIOUS
<1>3. m.id \in Strings /\ MethodDescriptor(m) \in Strings /\ m.id # "<clinit>" /\ m.value \in Seq(Operands)
  BY <1>2, KnownTexts, MethodFacts DEF IInv, GenerateMethod, MethodsOK, Iterated
<1>4. PICK body \in BodyCode(m, pool) :
        Generates(body.pool, f, m.id, MethodDescriptor(m), body.code, q, g)
  <2>1. GenerateMethodInfo(BodyCode(methods[next], pool), methods[next].id, MethodDescriptor(methods[next]))
    BY DEF GenerateMethod
  <2>2. PICK body \in BodyCode(methods[next], pool) :
          Generates(body.pool, file, methods[next].id, MethodDescriptor(methods[next]), body.code, pool', file')
    BY <2>1 DEF GenerateMethodInfo, Generates, WithMethod, Info
  <2> QED BY <1>2, <2>2
<1>5. /\ Grown(pool, body.pool) /\ P!Good(body.pool) /\ Ends(body.code)
      /\ BodyTyped(m) => AllLinked(body.pool, body.code, FieldsRead(m.value), MethodsCalled(m.value))
  BY <1>1, <1>3, BodyEmits DEF Grown
<1>6. AddsMethod(body.pool, f, m.id, MethodDescriptor(m), body.code, q, g)
  BY <1>3, <1>4, <1>5, MethodGenerated
<1>7. Grown(pool, q) /\ AddsMethod(pool, f, m.id, MethodDescriptor(m), body.code, q, g) /\ Grown(body.pool, q)
  BY <1>1, <1>5, <1>6, GrownTrans DEF AddsMethod
<1>8. BodyTyped(m) => AllLinked(q, body.code, FieldsRead(m.value), MethodsCalled(m.value))
  BY <1>5, <1>7, AllLinkedGrows
<1> QED BY <1>2, <1>3, <1>5, <1>7, <1>8

LEMMA GenerateMethodStep == IInv /\ GenerateMethod => IInv'
<1> SUFFICES ASSUME IInv, GenerateMethod PROVE IInv'
  OBVIOUS
<1>1. MapsKept /\ stage = "bodies" /\ Continue(methods, "write")
  BY DEF GenerateMethod, MapsKept, analysis
<1>2. IsSequence(methods) /\ Iterated = methods /\ next \in DOMAIN methods /\ MethodOK(methods[next]) /\ P!Good(pool) /\ methods # <<>>
  BY <1>1 DEF IInv, MethodsOK, Iterated, WithPool, AfterFields
<1>3. P!Good(pool')
  BY GenerateMethodPool DEF Grown
<1>4. CASE next < Len(methods)
  BY <1>1, <1>2, <1>3, <1>4, RoundDone DEF Continue
<1>5. CASE ~(next < Len(methods))
  <2>1. stage' = "write" /\ next' = 1
    BY <1>1, <1>5 DEF Continue
  <2> QED BY <1>1, <1>2, <1>3, <2>1, StageDone DEF Stages
<1> QED BY <1>4, <1>5

LEMMA WriteStep == IInv /\ WriteClassFile => IInv'
<1> SUFFICES ASSUME IInv, WriteClassFile PROVE IInv'
  OBVIOUS
<1>1. MapsKept /\ stage = "write" /\ next' = next /\ stage' = "written" /\ pool' = pool
  BY DEF WriteClassFile, MapsKept, analysis
<1>2. next = 1 /\ P!Good(pool)
  BY <1>1, Once DEF IInv, WithPool
<1> QED BY <1>1, <1>2, StageDone DEF Stages, AfterFields

LEMMA LoadStep == IInv /\ Load => IInv'
<1> SUFFICES ASSUME IInv, Load PROVE IInv'
  OBVIOUS
<1>1. MapsKept /\ stage = "written" /\ next' = next /\ stage' \in {"refused", "running"}
  BY DEF Load, MapsKept, analysis
<1>2. next = 1
  BY <1>1, Once
<1> QED BY <1>1, <1>2, StageDone DEF Stages, AfterFields, WithPool

LEMMA UnchangedStep ==
  ASSUME IInv, MapsKept, stage' = stage, next' = next, pool' = pool PROVE IInv'
<1>1. Iterated' = Iterated
  BY DEF Iterated, MapsKept
<1> QED BY <1>1 DEF IInv, MapsKept

LEMMA StepIInv == IInv /\ [Step]_vars => IInv'
<1> SUFFICES ASSUME IInv, [Step]_vars PROVE IInv'
  OBVIOUS
<1>1. CASE Compile
  BY <1>1, ScopeStep, AddMethodStep, AddFieldStep, AnalyzeFieldStep, AnalyzeMethodStep, FillHeadStep,
     FillFieldStep, FillMethodStep, GenerateHeadStep, GenerateFieldStep, GenerateConstructorStep,
     GenerateInitialiserStep, GenerateClinitStep, GenerateMethodStep, WriteStep DEF Compile
<1>2. CASE Load
  BY <1>2, LoadStep
<1>3. CASE JVM
  BY <1>3, UnchangedStep DEF JVM, MapsKept, analysis, output
<1>4. CASE UNCHANGED vars
  BY <1>4, UnchangedStep DEF vars, classVars, MapsKept, analysis, output
<1>5. Push \/ GetStatic \/ PutStatic \/ Add \/ Invoke \/ ReturnValue \/ Return => JVM
  BY DEF Push, GetStatic, PutStatic, Add, Invoke, ReturnValue, Return
<1> QED BY <1>1, <1>2, <1>3, <1>4, <1>5 DEF Step

LEMMA IInvHolds == Spec => []IInv
<1> QED BY StartIInv, StepIInv, PTL DEF Spec

-----------------------------------------------------------------------------
(* A good pool is what PoolSound asks for.                                 *)

LEMMA SameResolves == ASSUME NEW p, P!Resolves(p) PROVE Pool!Resolves(p)
BY DEF P!Resolves, Pool!Resolves, P!EntryResolves, Pool!EntryResolves, P!Points, Pool!Points

Parts(e) == <<e.type, e.fst, e.snd, e.lit>>

LEMMA GoodDiffer ==
  ASSUME NEW p, P!Good(p) PROVE Cardinality({Parts(p[i]) : i \in DOMAIN p}) = Len(p)
<1> DEFINE f == [i \in 1 .. Len(p) |-> Parts(p[i])]
           T == {Parts(p[i]) : i \in DOMAIN p}
<1>1. Len(p) \in Nat /\ DOMAIN p = 1 .. Len(p) /\ \A i \in DOMAIN p : p[i] \in P!Constants
  BY DEF P!Good
<1>2. ASSUME NEW i \in 1 .. Len(p), NEW j \in 1 .. Len(p), Parts(p[i]) = Parts(p[j]) PROVE i = j
  <2>1. /\ p[i].type = p[j].type /\ p[i].fst = p[j].fst
        /\ p[i].snd = p[j].snd /\ p[i].lit = p[j].lit
    BY <1>2 DEF Parts
  <2>2. p[i].type = "Float" => p[i].lit \in Numbers
    BY <1>1 DEF P!Good, P!Resolves, P!EntryResolves
  <2>3. P!Same(p[i], p[j])
    BY <2>1, <2>2 DEF P!Same
  <2> QED BY <2>3, <1>1 DEF P!Good, P!Unique
<1>3. f \in [1 .. Len(p) -> T] /\ \A t \in T : \E i \in 1 .. Len(p) : f[i] = t
  BY <1>1
<1>4. \A i, j \in 1 .. Len(p) : f[i] = f[j] => i = j
  BY <1>2
<1> HIDE DEF f, T
<1>5. f \in Bijection(1 .. Len(p), T)
  BY <1>3, <1>4, Fun_IsBij
<1>6. IsFiniteSet(1 .. Len(p)) /\ Cardinality(1 .. Len(p)) = Len(p)
  BY <1>1, FS_Interval
<1>7. Cardinality(T) = Len(p)
  BY <1>5, <1>6, FS_Bijection DEF ExistsBijection
<1> QED BY <1>7 DEF T

(* Whatever the package and the order in which the compiler visits its     *)
(* members: the pool of the class file that is written leads from every    *)
(* index to an earlier entry of the right kind and holds nothing twice,    *)
(* although fillConstantPool pushes three entries without a search.        *)
THEOREM PackagePoolSound == Spec => []PoolSound
<1>1. IInv => PoolSound
  <2> SUFFICES ASSUME IInv, stage = "written" PROVE Pool!Resolves(pool) /\ EntriesDiffer
    BY DEF PoolSound
  <2>1. P!Good(pool)
    BY DEF IInv, WithPool
  <2>2. Pool!Resolves(pool)
    BY <2>1, SameResolves DEF P!Good
  <2>3. EntriesDiffer
    BY <2>1, GoodDiffer DEF EntriesDiffer, Parts
  <2> QED BY <2>2, <2>3
<1> QED BY <1>1, IInvHolds, PTL
=============================================================================
