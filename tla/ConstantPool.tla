----------------------------- MODULE ConstantPool -----------------------------
(***************************************************************************)
(* The constant pool of a class file (src/codegen/constant.cpp).           *)
(*                                                                         *)
(* The generator asks the pool for the index of a constant and writes that *)
(* index into the code it emits; the pool either finds the constant or     *)
(* appends it.  A composite constant first obtains the indices of its      *)
(* parts.  C++ leaves the order in which the arguments of CreateNaT,       *)
(* CreateFieldRef and CreateMethodRef are evaluated to the compiler, so    *)
(* these operations have one outcome per order.                            *)
(***************************************************************************)
EXTENDS Integers, Sequences

CONSTANTS
  Strings,   (* the Utf8 contents the generator asks for                    *)
  Ints,      (* the 32-bit integer literals                                 *)
  Floats,    (* the bit patterns of the float literals                      *)
  FloatEq,   (* C++ == on float: pairs of bit patterns that compare equal   *)
  None,      (* the literal of an entry that has none                       *)
  MaxPool    (* bound of the model: no operation starts above this size     *)

(* == on float is symmetric and transitive; a NaN equals nothing.          *)
ASSUME FloatEqAssumption ==
  /\ FloatEq \subseteq Floats \X Floats
  /\ \A x, y \in Floats : <<x, y>> \in FloatEq => <<y, x>> \in FloatEq
  /\ \A x, y, z \in Floats :
       <<x, y>> \in FloatEq /\ <<y, z>> \in FloatEq => <<x, z>> \in FloatEq

VARIABLES
  pool,      (* ConstantPool::pool; the C++ indices are 1-based too         *)
  answer     (* the last request made, with the index returned for it       *)

vars == <<pool, answer>>

-----------------------------------------------------------------------------
(* Constant: the kind of the entry, its literal and its two indices.       *)

Literals == Strings \cup Ints \cup Floats \cup {None}

Kinds == {"Utf8", "Integer", "Float", "String", "Class", "NameAndType",
          "FieldRef", "MethodRef"}

Constants == [type : Kinds, lit : Literals, fst : Nat, snd : Nat]

Entry(tag, lit, fst, snd) == [type |-> tag, lit |-> lit, fst |-> fst, snd |-> snd]

Utf8(s)           == Entry("Utf8", s, 0, 0)
Integer(n)        == Entry("Integer", n, 0, 0)
Float(x)          == Entry("Float", x, 0, 0)
String(u)         == Entry("String", None, u, 0)
Class(u)          == Entry("Class", None, u, 0)
NameAndType(n, t) == Entry("NameAndType", None, n, t)

(* Mutant: the arguments of CreateFieldRef swapped.                        *)
FieldRefSwapped(nt, c) == Entry("FieldRef", None, c, nt)

FieldRef(nt, c)   == Entry("FieldRef", None, nt, c)
MethodRef(nt, c)  == Entry("MethodRef", None, nt, c)

(* operator==: same kind, then the literals (floats by ==) or the indices. *)
Same(c, d) ==
  /\ c.type = d.type
  /\ IF c.type = "Float" THEN <<c.lit, d.lit>> \in FloatEq ELSE c.lit = d.lit
  /\ c.fst = d.fst
  /\ c.snd = d.snd

(* Mutant: a search that begins at the second entry.                       *)
FoundAfterFirst(p, c) == {i \in DOMAIN p : i > 1 /\ Same(p[i], c)}

(* std::find over the pool, and the push_back when it finds nothing.       *)
Found(p, c) == {i \in DOMAIN p : Same(p[i], c)}

First(S) == CHOOSE i \in S : \A j \in S : i <= j

(* Mutant: no search before the push_back.                                 *)
InternedAlways(p, c) == [pool |-> Append(p, c), id |-> Len(p) + 1]

(* Mutant: the size before the push_back returned as the index.            *)
InternedOffByOne(p, c) ==
  IF Found(p, c) = {}
    THEN [pool |-> Append(p, c), id |-> Len(p)]
    ELSE [pool |-> p, id |-> First(Found(p, c))]

(* Mutant: the new entry inserted at the front of the pool.                *)
InternedAtFront(p, c) ==
  IF Found(p, c) = {}
    THEN [pool |-> <<c>> \o p, id |-> 1]
    ELSE [pool |-> p, id |-> First(Found(p, c))]

(* Mutant: the position of a hit counted from end() instead of begin().    *)
InternedFromEnd(p, c) ==
  IF Found(p, c) = {}
    THEN [pool |-> Append(p, c), id |-> Len(p) + 1]
    ELSE [pool |-> p, id |-> First(Found(p, c)) - Len(p) - 1]

Interned(p, c) ==
  IF Found(p, c) = {}
    THEN [pool |-> Append(p, c), id |-> Len(p) + 1]
    ELSE [pool |-> p, id |-> First(Found(p, c))]

-----------------------------------------------------------------------------
(* FindOrCreate*: the set of outcomes [pool, id], one per order in which   *)
(* the compiler may evaluate the two arguments of a Create*.               *)

FindOrCreateUtf8(p, s)  == {Interned(p, Utf8(s))}
FindOrCreateInt(p, n)   == {Interned(p, Integer(n))}
FindOrCreateFloat(p, x) == {Interned(p, Float(x))}

FindOrCreateString(p, s) ==
  {Interned(u.pool, String(u.id)) : u \in FindOrCreateUtf8(p, s)}

FindOrCreateClass(p, s) ==
  {Interned(u.pool, Class(u.id)) : u \in FindOrCreateUtf8(p, s)}

FindOrCreateNaT(p, name, type) ==
  (UNION {{Interned(t.pool, NameAndType(n.id, t.id)) :
             t \in FindOrCreateUtf8(n.pool, type)} : n \in FindOrCreateUtf8(p, name)})
  \cup
  (UNION {{Interned(n.pool, NameAndType(n.id, t.id)) :
             n \in FindOrCreateUtf8(t.pool, name)} : t \in FindOrCreateUtf8(p, type)})

(* The name-and-type and the class of a reference, in either order.        *)
NaTAndClass(p, class, name, type) ==
  (UNION {{[pool |-> c.pool, nat |-> nt.id, class |-> c.id] :
             c \in FindOrCreateClass(nt.pool, class)} :
          nt \in FindOrCreateNaT(p, name, type)})
  \cup
  (UNION {{[pool |-> nt.pool, nat |-> nt.id, class |-> c.id] :
             nt \in FindOrCreateNaT(c.pool, name, type)} :
          c \in FindOrCreateClass(p, class)})

FindOrCreateFieldRef(p, class, name, type) ==
  {Interned(a.pool, FieldRef(a.nat, a.class)) : a \in NaTAndClass(p, class, name, type)}

FindOrCreateMethodRef(p, class, name, type) ==
  {Interned(a.pool, MethodRef(a.nat, a.class)) : a \in NaTAndClass(p, class, name, type)}

-----------------------------------------------------------------------------
(* What a request asks for, and what an entry of the pool stands for once  *)
(* its indices are followed.                                               *)

Meaning(kind, a, b, c) == [kind |-> kind, a |-> a, b |-> b, c |-> c]

Meanings == [kind : Kinds, a : Literals, b : Literals, c : Literals]

Denoted(p, i) ==
  LET e == p[i]
      Lit(j) == p[j].lit
  IN  CASE e.type \in {"Utf8", "Integer", "Float"} -> Meaning(e.type, e.lit, None, None)
        [] e.type \in {"String", "Class"} -> Meaning(e.type, Lit(e.fst), None, None)
        [] e.type = "NameAndType" -> Meaning(e.type, Lit(e.fst), Lit(e.snd), None)
        [] OTHER -> Meaning(e.type, Lit(p[e.snd].fst),
                            Lit(p[e.fst].fst), Lit(p[e.fst].snd))

Likeness ==
  {m \in Meanings \X Meanings :
     /\ m[1].kind = m[2].kind
     /\ IF m[1].kind = "Float" THEN <<m[1].a, m[2].a>> \in FloatEq ELSE m[1].a = m[2].a
     /\ m[1].b = m[2].b
     /\ m[1].c = m[2].c}

-----------------------------------------------------------------------------
(* The pool under arbitrary requests: one action per FindOrCreate*.        *)

NoRequest == [req |-> Meaning("none", None, None, None), id |-> 0]

Init == pool = <<>> /\ answer = NoRequest

Answer(outcomes, request) ==
  /\ Len(pool) < MaxPool
  /\ \E o \in outcomes :
       /\ pool' = o.pool
       /\ answer' = [req |-> request, id |-> o.id]

AskUtf8(s)   == Answer(FindOrCreateUtf8(pool, s), Meaning("Utf8", s, None, None))
AskInt(n)    == Answer(FindOrCreateInt(pool, n), Meaning("Integer", n, None, None))
AskFloat(x)  == Answer(FindOrCreateFloat(pool, x), Meaning("Float", x, None, None))
AskString(s) == Answer(FindOrCreateString(pool, s), Meaning("String", s, None, None))
AskClass(s)  == Answer(FindOrCreateClass(pool, s), Meaning("Class", s, None, None))
AskNaT(n, t) == Answer(FindOrCreateNaT(pool, n, t), Meaning("NameAndType", n, t, None))
AskFieldRef(c, n, t) ==
  Answer(FindOrCreateFieldRef(pool, c, n, t), Meaning("FieldRef", c, n, t))
AskMethodRef(c, n, t) ==
  Answer(FindOrCreateMethodRef(pool, c, n, t), Meaning("MethodRef", c, n, t))

Next ==
  \/ \E s \in Strings : AskUtf8(s) \/ AskString(s) \/ AskClass(s)
  \/ \E n \in Ints : AskInt(n)
  \/ \E x \in Floats : AskFloat(x)
  \/ \E n, t \in Strings : AskNaT(n, t)
  \/ \E c, n, t \in Strings : AskFieldRef(c, n, t) \/ AskMethodRef(c, n, t)

Spec == Init /\ [][Next]_vars

-----------------------------------------------------------------------------
(* The type invariant.                                                     *)
TypeOK ==
  /\ pool \in Seq(Constants)
  /\ answer \in [req : Meanings \cup {NoRequest.req}, id : Nat]

(* Every index stored in an entry leads to an EARLIER entry of the kind    *)
(* the format prescribes there, whatever the order in which the parts were *)
(* created: the pool can be resolved from front to back.                   *)
Points(p, i, j, kind) == j \in 1..(i - 1) /\ p[j].type = kind

EntryResolves(p, i) ==
  LET e == p[i] IN
  /\ e.type = "Utf8" => e.lit \in Strings
  /\ e.type = "Integer" => e.lit \in Ints
  /\ e.type = "Float" => e.lit \in Floats
  /\ e.type \in {"Utf8", "Integer", "Float"} => e.fst = 0 /\ e.snd = 0
  /\ e.type \in {"String", "Class"} =>
       e.lit = None /\ Points(p, i, e.fst, "Utf8") /\ e.snd = 0
  /\ e.type = "NameAndType" =>
       e.lit = None /\ Points(p, i, e.fst, "Utf8") /\ Points(p, i, e.snd, "Utf8")
  /\ e.type \in {"FieldRef", "MethodRef"} =>
       e.lit = None /\ Points(p, i, e.fst, "NameAndType") /\ Points(p, i, e.snd, "Class")

Resolves(p) == \A i \in DOMAIN p : EntryResolves(p, i)

PoolResolves == Resolves(pool)

(* No two entries compare equal, although every FindOrCreate* searches     *)
(* only for its own constant and creates its parts on the way.             *)
Unique(p) == \A i, j \in DOMAIN p : i # j => ~Same(p[i], p[j])

PoolUnique == Unique(pool)

(* The index a request was answered with leads, through the indices of the *)
(* entries, to exactly what was asked for (floats up to ==).               *)
AnswerDenotes ==
  answer # NoRequest =>
    /\ answer.id \in DOMAIN pool
    /\ \/ Denoted(pool, answer.id) = answer.req
       \/ <<Denoted(pool, answer.id), answer.req>> \in Likeness

(* An index that was handed out keeps its meaning for the rest of the run: *)
(* no later request moves, removes or rewrites an entry.                   *)
IndicesStable ==
  [][\A i \in DOMAIN pool : i \in DOMAIN pool' /\ pool'[i] = pool[i]]_vars

(* The pool implements the interner: requests of equal meaning get one     *)
(* index, requests of different meaning different ones.                    *)
Interning ==
  INSTANCE Interner WITH
    Meanings  <- Meanings,
    Alike     <- Likeness,
    NoRequest <- NoRequest,
    table     <- [i \in 1..Len(pool) |-> Denoted(pool, i)]

ImplementsInterner == Interning!Spec
=============================================================================
