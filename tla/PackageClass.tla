----------------------------- MODULE PackageClass -----------------------------
(***************************************************************************)
(* From the declarations of a package to its class file: the package level *)
(* of the semantic analysis (src/semantic/semantic.cpp, the first half of  *)
(* types_visitor.cpp) and of the code generator (src/codegen/codegen.cpp). *)
(*                                                                         *)
(* Fields and methods are kept in two std::unordered_map, iterated four    *)
(* times: to analyse, to fill the pool, to write the members and to write  *)
(* the static initialiser.  Such a map is represented by the sequence of   *)
(* its entries in iteration order.  An action is a function of the code,   *)
(* or one round of a loop over a map.                                      *)
(***************************************************************************)
EXTENDS GoPackage

CONSTANTS
  Packages,  (* the packages to compile                                     *)
  Hashes,    (* the buckets names may hash to: functions from names         *)
  Strings, Numbers, None  (* what the constants of the pool hold            *)

VARIABLES
  package,   (* root->topDeclarations                                       *)
  hash,      (* the bucket of each name                                     *)
  stage,     (* what is done next                                           *)
  next,      (* the position in the map that is being iterated              *)
  errors,    (* the errors reported so far                                  *)
  fields,    (* ClassEntity::fields in iteration order                      *)
  methods,   (* ClassEntity::methods in iteration order                     *)
  consts,    (* idsConstants                                                *)
  scope,     (* TypesVisitor::scopesDeclarations, its package scope         *)
  pool,      (* Generator::constantPool                                     *)
  context,   (* Generator::context, its package scope                       *)
  clinit,    (* the code of the static initialiser so far                   *)
  file       (* the class file: classFileTail, then all of it               *)

analysis == <<errors, fields, methods, consts, scope>>
output == <<pool, context, clinit, file>>
classVars == <<package, hash, stage, next, analysis, output>>

Pool == INSTANCE ConstantPool WITH
  Ints <- Numbers, Floats <- Numbers, FloatEq <- {<<n, n>> : n \in Numbers},
  MaxPool <- 0, answer <- None

NoFile == [fields |-> <<>>, methods |-> <<>>]

Init ==
  /\ package \in Packages
  /\ hash \in Hashes
  /\ stage = "scope" /\ next = 1
  /\ errors = {} /\ fields = <<>> /\ methods = <<>> /\ consts = {} /\ scope = <<>>
  /\ pool = <<>> /\ context = <<>> /\ clinit = <<>> /\ file = NoFile

(* Context::add, which knows no blank name.                                *)
Bind(f, x, v) == IF x = "_" THEN f ELSE [y \in DOMAIN f \cup {x} |-> IF y = x THEN v ELSE f[y]]

(* The next round of the current loop, or the next stage after the last.   *)
Continue(map, then) ==
  IF next < Len(map) THEN stage' = stage /\ next' = next + 1
                     ELSE stage' = then /\ next' = 1

-----------------------------------------------------------------------------
(* Semantic::analyzePackageScope; main gets the parameter of a Java main.  *)

Method(f) == [id |-> f.identifiers[1], type |-> f.result, value |-> f.body]

MethodRequests(p) ==
  FlattenSeq([i \in DOMAIN p |-> IF p[i].kind = "function" THEN <<Method(p[i])>> ELSE <<>>])

MainErrors(p) ==
  LET mains == {m \in ToSet(MethodRequests(p)) : m.id = "main"}
  IN  (IF \E m \in mains : m.type # "Void" THEN {"main has a result"} ELSE {})
      \cup (IF mains = {} THEN {"no main"} ELSE {})

AnalyzePackageScope ==
  /\ stage = "scope"
  /\ errors' = MainErrors(package)
  /\ stage' = IF errors' = {} THEN "methods" ELSE "rejected"
  /\ UNCHANGED <<package, hash, next, fields, methods, consts, scope, output>>

(* std::unordered_map::try_emplace: a new name goes to the front of its    *)
(* bucket, a new bucket to the front of all; a known name changes nothing. *)
Holds(map, id) == \E i \in DOMAIN map : map[i].id = id

(* Mutant: a bucket that is taken counts as a name that is known.          *)
TryEmplaceColliding(map, entry) ==
  IF \E i \in DOMAIN map : hash[map[i].id] = hash[entry.id] THEN map ELSE <<entry>> \o map

TryEmplace(map, entry) ==
  LET bucket == {i \in DOMAIN map : hash[map[i].id] = hash[entry.id]}
      place == IF bucket = {} THEN 1 ELSE CHOOSE i \in bucket : \A j \in bucket : i <= j
  IN  IF Holds(map, entry.id) THEN map ELSE InsertAt(map, place, entry)

(* createPackageClass: the methods, in the order of the package, then the  *)
(* fields, from the last declaration to the first.  Blank variables get a  *)
(* unique name.  Functions enter the scope of the analysis before any      *)
(* variable does.                                                          *)
BlankNames == <<"$_0", "$_1", "$_2">>

DeclaredType(d, i) ==
  IF d.identifiers[i] = "_" THEN "Any" ELSE IF d.type = NoType THEN "Invalid" ELSE d.type

(* Mutant: the iterator over the values is not advanced.                   *)
FieldOfFirstValue(d, i) ==
  [id |-> d.identifiers[i], isConst |-> d.isConst, value |-> ValueAt(d, 1),
   type |-> DeclaredType(d, i)]

FieldOf(d, i) ==
  [id |-> d.identifiers[i], isConst |-> d.isConst, value |-> ValueAt(d, i),
   type |-> DeclaredType(d, i)]

FieldRequests(p) ==
  FlattenSeq([i \in DOMAIN p |->
                LET d == p[Len(p) + 1 - i]
                IN  IF d.kind = "function" THEN <<>>
                    ELSE [j \in DOMAIN d.identifiers |-> FieldOf(d, j)]])

(* Mutant: blank variables keep their name.                                *)
BlanksKept(requests) == requests

BlanksTo(requests, i) == Cardinality({j \in 1 .. i : requests[j].id = "_"})

BlankName(requests, i) == BlankNames[BlanksTo(requests, i)]

BlanksNamed(requests) ==
  [i \in DOMAIN requests |->
     IF requests[i].id = "_" THEN [requests[i] EXCEPT !.id = BlankName(requests, i)] ELSE requests[i]]

Redeclared(map, id) == IF Holds(map, id) THEN {"redeclared"} ELSE {}

AddMethod ==
  LET requests == MethodRequests(package)
      m == requests[next]
  IN
  /\ stage = "methods"
  /\ methods' = TryEmplace(methods, m)
  /\ errors' = errors \cup Redeclared(methods, m.id)
  /\ scope' = IF Holds(methods, m.id) THEN scope
              ELSE Bind(scope, m.id, [type |-> "Function", result |-> m.type, isConst |-> FALSE])
  /\ Continue(requests, IF BlanksNamed(FieldRequests(package)) = <<>> THEN "analyze methods" ELSE "fields")
  /\ UNCHANGED <<package, hash, fields, consts, output>>

AddField ==
  LET requests == BlanksNamed(FieldRequests(package))
      f == requests[next]
  IN
  /\ stage = "fields"
  /\ fields' = TryEmplace(fields, f)
  /\ errors' = errors \cup Redeclared(fields, f.id)
  /\ consts' = consts \cup IF f.isConst THEN {f.id} ELSE {}
  /\ Continue(requests, "analyze fields")
  /\ UNCHANGED <<package, hash, methods, scope, output>>

-----------------------------------------------------------------------------
(* TypesVisitor: types of expressions, over the names seen so far.         *)

Ints == {"Int", "UntypedInt"}
Reals == {"Float", "UntypedFloat"}

EqualTypes(l, r) ==
  \/ l = r \/ "Any" \in {l, r}
  \/ l \in Ints /\ r \in Ints
  \/ l \in Reals /\ r \in Reals
  \/ "UntypedInt" \in {l, r} /\ {l, r} \subseteq Reals \cup {"UntypedInt"}

DeterminePriorityType(l, r) ==
  IF ~EqualTypes(l, r) THEN "Invalid"
  ELSE IF {l, r} \subseteq Ints THEN (IF "Int" \in {l, r} THEN "Int" ELSE l)
  ELSE IF "Float" \in {l, r} THEN "Float"
  ELSE IF "UntypedFloat" \in {l, r} THEN "UntypedFloat"
  ELSE l

(* Mutant: a variable that was not analysed yet is taken for an int.       *)
OperandTypeAnyOrder(s, o) ==
  IF o.kind = "literal" THEN o.type
  ELSE IF o.id \notin DOMAIN s THEN (IF Holds(fields, o.id) THEN "Int" ELSE "Invalid")
  ELSE IF o.kind = "read" THEN s[o.id].type
  ELSE s[o.id].result

OperandType(s, o) ==
  IF o.kind = "literal" THEN o.type
  ELSE IF o.id \notin DOMAIN s THEN "Invalid"
  ELSE IF o.kind = "read" THEN s[o.id].type
  ELSE IF s[o.id].type = "Function" THEN s[o.id].result
  ELSE "Invalid"

SumType(l, r) ==
  IF "Invalid" \in {l, r} THEN "Invalid"
  ELSE IF l = "String" /\ r = "String" THEN "String"
  ELSE IF {l, r} \subseteq Ints \cup Reals THEN DeterminePriorityType(l, r)
  ELSE "Invalid"

ExpressionType(s, e) ==
  LET type[i \in DOMAIN e] == IF i = 1 THEN OperandType(s, e[1])
                                       ELSE SumType(type[i - 1], OperandType(s, e[i]))
  IN  type[Len(e)]

ExpressionErrors(s, e) ==
  IF ExpressionType(s, e) = "Invalid" THEN {"type or name"} ELSE {}

(* Mutant: a call does not spoil a constant expression.                    *)
IsConstExpressionWithCalls(s, e) ==
  \A o \in ToSet(e) : o.kind = "read" /\ o.id \in DOMAIN s => s[o.id].isConst

IsConstExpression(s, e) ==
  \A o \in ToSet(e) : /\ o.kind # "apply"
                      /\ o.kind = "read" /\ o.id \in DOMAIN s => s[o.id].isConst

(* What a name stands for that is initialised with an expression of a      *)
(* type: a function, if it is the name of one, or a value.                 *)
ScopeEntry(s, e, type, isConst) ==
  [type |-> type, result |-> IF type = "Function" THEN s[e[1].id].result ELSE "Invalid", isConst |-> isConst]

(* analyzePackageClass, one field: a field without a value is skipped, and *)
(* an analysed one is visible to the fields that come after it.            *)
AnalyzeField ==
  LET f == fields[next]
      e == f.value[1]
      type == ExpressionType(scope, e)
      mismatch == f.type \notin {"Any", "Invalid"} /\ ~EqualTypes(type, f.type)
      notConst == f.id \in consts /\ ~IsConstExpression(scope, e)
  IN
  /\ stage = "analyze fields"
  /\ IF f.value = <<>> THEN UNCHANGED <<errors, scope, fields>>
     ELSE IF mismatch \/ notConst
       THEN /\ errors' = errors \cup ExpressionErrors(scope, e) \cup {"initialiser"}
            /\ UNCHANGED <<scope, fields>>
       ELSE /\ errors' = errors \cup ExpressionErrors(scope, e)
            /\ scope' = Bind(scope, f.id, ScopeEntry(scope, e, type, f.id \in consts))
            /\ fields' = [fields EXCEPT ![next].type = type]
  /\ Continue(fields, "analyze methods")
  /\ UNCHANGED <<package, hash, methods, consts, output>>

(* One method: its expression is returned, or printed if it has no result. *)
Printable == Ints \cup Reals \cup {"Boolean", "String", "Array"}

MethodErrors(s, m) ==
  IF m.value = <<>> THEN {}
  ELSE ExpressionErrors(s, m.value)
       \cup LET type == ExpressionType(s, m.value)
            IN  IF m.type = "Void" /\ type \in Printable THEN {}
                ELSE IF m.type # "Void" /\ EqualTypes(m.type, type) THEN {}
                ELSE {"type of result"}

AnalyzeMethod ==
  /\ stage = "analyze methods"
  /\ errors' = errors \cup MethodErrors(scope, methods[next])
  /\ Continue(methods, IF errors' = {} THEN "pool" ELSE "rejected")
  /\ UNCHANGED <<package, hash, fields, methods, consts, scope, output>>

-----------------------------------------------------------------------------
(* TypeEntity::toByteCode, and the names every class file refers to.       *)

Descriptor(type) ==
  CASE type \in Ints -> "I"
    [] type \in Reals -> "F"
    [] type = "String" -> "Ljava/lang/String;"
    [] type = "Void" -> "V"
    [] type = "Any" -> "Ljava/lang/Object;"
    [] OTHER -> "Invalid"

MethodDescriptor(m) ==
  (IF m.id = "main" THEN "([Ljava/lang/String;)" ELSE "()") \o Descriptor(m.type)

PrintDescriptor(type) ==
  "(" \o (IF type = "String" THEN "Ljava/lang/Object;" ELSE Descriptor(type)) \o ")V"

ThisClass == "$main"
Object == "java/lang/Object"

(* Strings has every text that the compiler asks the pool for by itself.   *)
Descriptors == {"I", "F", "Ljava/lang/String;", "V", "Ljava/lang/Object;", "Invalid"}

ASSUME StringsAssumption ==
  /\ {"Code", ThisClass, Object, "<init>", "<clinit>", "()V", "$Base", "print", "java/lang/String",
      "concat", "(Ljava/lang/String;)Ljava/lang/String;"} \cup ToSet(BlankNames) \subseteq Strings
  /\ \A d \in Descriptors :
       {d, "()" \o d, "([Ljava/lang/String;)" \o d, "(" \o d \o ")V"} \subseteq Strings

(* What the parser makes of a package, as far as it is modelled: names of  *)
(* Go, which have no angle brackets and no dollar sign, literals of three  *)
(* kinds, a value or a type for each declaration, a value for a constant.  *)
Identifiers == Strings \ ({"<init>", "<clinit>"} \cup ToSet(BlankNames))
NamedTypes == {"Int", "Float", "String"}

Operands ==
  {o \in [kind : {"literal", "read", "apply"}, type : {"UntypedInt", "UntypedFloat", "String", NoType},
          value : Numbers \cup {0}, id : Strings \cup {""}] :
     /\ o.kind # "literal" => o.id \in Identifiers
     /\ o.kind = "literal" => IF o.type = "String" THEN o.id \in Strings
                                                   ELSE o.type # NoType /\ o.value \in Numbers}

TopDeclarations ==
  {d \in [kind : {"variable", "function"}, identifiers : Seq(Identifiers), type : NamedTypes \cup {NoType},
          values : Seq(Seq(Operands) \ {<<>>}), isConst : BOOLEAN,
          result : NamedTypes \cup {"Void", NoType}, body : Seq(Operands)] :
     IF d.kind = "function" THEN Len(d.identifiers) = 1 /\ d.result # NoType
                            ELSE d.values = <<>> => d.type # NoType /\ ~d.isConst}

(* BlankNames is long enough.                                              *)
ASSUME PackagesAssumption ==
  \A p \in Packages :
    LET requests == FieldRequests(p)
    IN  /\ p \in Seq(TopDeclarations)
        /\ \A i \in DOMAIN requests : requests[i].id = "_" => BlanksTo(requests, i) \in DOMAIN BlankNames

(* fillConstantPool: three constants pushed without a search, the          *)
(* reference to the constructor of Object, then one reference per member.  *)
FillHead ==
  /\ stage = "pool"
  /\ \E this \in Pool!FindOrCreateUtf8(<<Pool!Utf8("Code")>>, ThisClass) :
     \E super \in Pool!FindOrCreateUtf8(Append(this.pool, Pool!Class(this.id)), Object) :
     \E init \in Pool!FindOrCreateMethodRef(Append(super.pool, Pool!Class(super.id)),
                                           Object, "<init>", "()V") :
       pool' = init.pool
  /\ stage' = IF fields = <<>> THEN "method refs" ELSE "field refs"
  /\ UNCHANGED <<package, hash, next, analysis, context, clinit, file>>

FillField ==
  LET f == fields[next] IN
  /\ stage = "field refs"
  /\ \E r \in Pool!FindOrCreateFieldRef(pool, ThisClass, f.id, Descriptor(f.type)) :
       pool' = r.pool /\ context' = Bind(context, f.id, r.id)
  /\ Continue(fields, "method refs")
  /\ UNCHANGED <<package, hash, analysis, clinit, file>>

FillMethod ==
  LET m == methods[next] IN
  /\ stage = "method refs"
  /\ \E r \in Pool!FindOrCreateMethodRef(pool, ThisClass, m.id, MethodDescriptor(m)) :
       pool' = r.pool /\ context' = Bind(context, m.id, r.id)
  /\ Continue(methods, "head")
  /\ UNCHANGED <<package, hash, analysis, clinit, file>>

(* The end of fillConstantPool and the beginning of generate.              *)
GenerateHead ==
  /\ stage = "head"
  /\ \E c \in Pool!FindOrCreateUtf8(pool, "<clinit>") :
     \E this \in Pool!FindOrCreateClass(c.pool, ThisClass) :
     \E super \in Pool!FindOrCreateClass(this.pool, Object) :
       /\ pool' = super.pool
       /\ file' = [this |-> this.id, super |-> super.id, fields |-> <<>>, methods |-> <<>>]
  /\ stage' = IF fields = <<>> THEN "constructor" ELSE "field infos"
  /\ UNCHANGED <<package, hash, next, analysis, context, clinit>>

GenerateField ==
  LET f == fields[next] IN
  /\ stage = "field infos"
  /\ \E name \in Pool!FindOrCreateUtf8(pool, f.id) :
     \E type \in Pool!FindOrCreateUtf8(name.pool, Descriptor(f.type)) :
       /\ pool' = type.pool
       /\ file' = [file EXCEPT !.fields = Append(@, [name |-> name.id, descriptor |-> type.id])]
  /\ Continue(fields, "constructor")
  /\ UNCHANGED <<package, hash, analysis, context, clinit>>

-----------------------------------------------------------------------------
(* Code: instructions with an index into the pool, or a small number.      *)

IntToPool(p, n) ==
  IF n \in -1 .. 5 THEN {[pool |-> p, code |-> <<<<"iconst", n>>>>]}
  ELSE {[pool |-> r.pool, code |-> <<<<"ldc", r.id>>>>] : r \in Pool!FindOrCreateInt(p, n)}

(* Mutant: an integer literal is an int whatever it is added to.           *)
LiteralCodeUntyped(p, o, type) ==
  IF o.type = "UntypedInt" THEN IntToPool(p, o.value)
  ELSE {[pool |-> r.pool, code |-> <<<<"ldc", r.id>>>>] :
          r \in IF o.type = "String" THEN Pool!FindOrCreateString(p, o.id)
                ELSE Pool!FindOrCreateFloat(p, o.value)}

LiteralCode(p, o, type) ==
  IF o.type = "UntypedInt" /\ type \notin Reals THEN IntToPool(p, o.value)
  ELSE {[pool |-> r.pool, code |-> <<<<"ldc", r.id>>>>] :
          r \in IF o.type = "String" THEN Pool!FindOrCreateString(p, o.id)
                ELSE Pool!FindOrCreateFloat(p, o.value)}

OperandCode(p, o, type) ==
  CASE o.kind = "literal" -> LiteralCode(p, o, type)
    [] o.kind = "read" -> {[pool |-> p, code |-> <<<<"getstatic", context[o.id]>>>>]}
    [] OTHER -> {[pool |-> p, code |-> <<<<"invokestatic", context[o.id]>>>>]}

Followed(outcomes, Then(_)) ==
  UNION {{[pool |-> t.pool, code |-> r.code \o t.code] : t \in Then(r.pool)} : r \in outcomes}

AddCode(p, type) ==
  IF type = "String"
    THEN {[pool |-> r.pool, code |-> <<<<"concat", r.id>>>>] :
            r \in Pool!FindOrCreateMethodRef(p, "java/lang/String", "concat",
                                             "(Ljava/lang/String;)Ljava/lang/String;")}
    ELSE {[pool |-> p, code |-> <<<<IF type \in Ints THEN "iadd" ELSE "fadd", 0>>>>]}

(* The operands are generated from left to right, each followed by its     *)
(* addition to what precedes it.  BinaryExpression gives its type to both  *)
(* of its operands, but not to what these consist of: an operand has the   *)
(* type of its own sum, and a sum that of the sum it is an operand of.     *)
TypeUpTo(e, i) == ExpressionType(scope, SubSeq(e, 1, IF i = 1 /\ Len(e) > 1 THEN 2 ELSE i))

SumTypeAt(e, i) == TypeUpTo(e, IF i < Len(e) THEN i + 1 ELSE i)

WithOperand(outcomes, e, i) ==
  Followed(Followed(outcomes, LAMBDA q : OperandCode(q, e[i], TypeUpTo(e, i))),
           LAMBDA q : AddCode(q, SumTypeAt(e, i)))

ExpressionCode(p, e) ==
  LET code[i \in DOMAIN e] == IF i = 1 THEN OperandCode(p, e[1], TypeUpTo(e, 1))
                                       ELSE WithOperand(code[i - 1], e, i)
  IN  code[Len(e)]

PrintCode(p, type) ==
  {[pool |-> r.pool, code |-> <<<<"print", r.id>>, <<"return", 0>>>>] :
     r \in Pool!FindOrCreateMethodRef(p, "$Base", "print", PrintDescriptor(type))}

ValueReturn(type) == IF type \in Ints THEN "ireturn" ELSE IF type \in Reals THEN "freturn" ELSE "areturn"

BodyCode(m, p) ==
  LET type == ExpressionType(scope, m.value)
  IN  IF m.value = <<>> THEN {[pool |-> p, code |-> <<<<"return", 0>>>>]}
      ELSE IF m.type = "Void" THEN Followed(ExpressionCode(p, m.value), LAMBDA q : PrintCode(q, type))
      ELSE {[pool |-> r.pool, code |-> Append(r.code, <<ValueReturn(m.type), 0>>)] : r \in ExpressionCode(p, m.value)}

(* generateMethod: the code exists before the names are asked for.         *)
GenerateMethodInfo(bodies, name, descriptor) ==
  \E body \in bodies :
  \E n \in Pool!FindOrCreateUtf8(body.pool, name) :
  \E d \in Pool!FindOrCreateUtf8(n.pool, descriptor) :
  \E c \in Pool!FindOrCreateUtf8(d.pool, "Code") :
    /\ pool' = c.pool
    /\ file' = [file EXCEPT !.methods =
                  Append(@, [name |-> n.id, descriptor |-> d.id, attribute |-> c.id,
                             code |-> body.code])]

HasFieldsDeclaration == \E f \in ToSet(fields) : f.value # <<>>

GenerateConstructor ==
  /\ stage = "constructor"
  /\ GenerateMethodInfo({[pool |-> r.pool, code |-> <<<<"super init", r.id>>, <<"return", 0>>>>] :
                           r \in Pool!FindOrCreateMethodRef(pool, Object, "<init>", "()V")},
                        "<init>", "()V")
  /\ stage' = IF HasFieldsDeclaration THEN "initialisers" ELSE "bodies"
  /\ UNCHANGED <<package, hash, next, analysis, context, clinit>>

(* generateStaticConstuctorCode, one field; then the method made of it.    *)
GenerateInitialiser ==
  LET f == fields[next] IN
  /\ stage = "initialisers"
  /\ IF f.value = <<>> THEN UNCHANGED <<pool, clinit>>
     ELSE \E r \in ExpressionCode(pool, f.value[1]) :
            /\ pool' = r.pool
            /\ clinit' = clinit \o r.code \o <<<<"putstatic", context[f.id]>>>>
  /\ Continue(fields, "clinit")
  /\ UNCHANGED <<package, hash, analysis, context, file>>

GenerateClinit ==
  /\ stage = "clinit"
  /\ GenerateMethodInfo({[pool |-> pool, code |-> Append(clinit, <<"return", 0>>)]},
                        "<clinit>", "()V")
  /\ stage' = "bodies"
  /\ UNCHANGED <<package, hash, next, analysis, context, clinit>>

GenerateMethod ==
  LET m == methods[next] IN
  /\ stage = "bodies"
  /\ GenerateMethodInfo(BodyCode(m, pool), m.id, MethodDescriptor(m))
  /\ Continue(methods, "write")
  /\ UNCHANGED <<package, hash, analysis, context, clinit>>

-----------------------------------------------------------------------------
(* Constant::toBytes: the kind, then the literal or the indices in the     *)
(* order of the format.  The pool is written last and precedes the rest.   *)

(* Mutant: the indices of a reference in the order of the constructor.     *)
ToBytesSwapped(c) ==
  [type |-> c.type, lit |-> c.lit,
   ids |-> IF c.type \in {"Class", "String"} THEN <<c.fst>> ELSE <<c.fst, c.snd>>]

ToBytes(c) ==
  [type |-> c.type, lit |-> c.lit,
   ids |-> CASE c.type \in {"FieldRef", "MethodRef"} -> <<c.snd, c.fst>>
             [] c.type = "NameAndType" -> <<c.fst, c.snd>>
             [] c.type \in {"Class", "String"} -> <<c.fst>>
             [] OTHER -> <<>>]

WriteClassFile ==
  /\ stage = "write"
  /\ file' = [count |-> Len(pool) + 1, constants |-> [i \in DOMAIN pool |-> ToBytes(pool[i])],
              this |-> file.this, super |-> file.super, fields |-> file.fields, methods |-> file.methods]
  /\ stage' = "written"
  /\ UNCHANGED <<package, hash, next, analysis, pool, context, clinit>>

Compile ==
  \/ AnalyzePackageScope \/ AddMethod \/ AddField \/ AnalyzeField \/ AnalyzeMethod
  \/ FillHead \/ FillField \/ FillMethod \/ GenerateHead \/ GenerateField
  \/ GenerateConstructor \/ GenerateInitialiser \/ GenerateClinit \/ GenerateMethod
  \/ WriteClassFile
=============================================================================
