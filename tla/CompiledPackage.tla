---------------------------- MODULE CompiledPackage ----------------------------
(***************************************************************************)
(* The class file of a package, loaded and initialised by a JVM, and what  *)
(* the compilation of the package promises.                                *)
(***************************************************************************)
EXTENDS PackageClass

VARIABLES
  statics,   (* the value of each static field                              *)
  frames,    (* the activations of <clinit> and of the functions it calls   *)
  written    (* the fields <clinit> has written, in order                   *)

machine == <<statics, frames, written>>
vars == <<classVars, machine>>

-----------------------------------------------------------------------------
(* What the indices of a class file lead to.                               *)

Tagged(i, type) == i \in DOMAIN file.constants /\ file.constants[i].type = type

IsText(i) == Tagged(i, "Utf8")
Utf8At(i)   == file.constants[i].lit

IsClass(i) == Tagged(i, "Class") /\ IsText(file.constants[i].ids[1])
ClassName(i) == Utf8At(file.constants[i].ids[1])

IsNameAndType(i) ==
  Tagged(i, "NameAndType") /\ \A k \in 1..2 : IsText(file.constants[i].ids[k])

IsRef(i, type) ==
  /\ Tagged(i, type)
  /\ IsClass(file.constants[i].ids[1]) /\ IsNameAndType(file.constants[i].ids[2])

Member(i) ==
  LET nat == file.constants[file.constants[i].ids[2]]
  IN  <<ClassName(file.constants[i].ids[1]), Utf8At(nat.ids[1]), Utf8At(nat.ids[2])>>

MembersOf(infos) == {<<ThisClass, Utf8At(m.name), Utf8At(m.descriptor)>> : m \in ToSet(infos)}

LibraryMembers ==
  {<<Object, "<init>", "()V">>,
   <<"java/lang/String", "concat", "(Ljava/lang/String;)Ljava/lang/String;">>}
  \cup {<<"$Base", "print", PrintDescriptor(t)>> : t \in {"Int", "Float", "String"}}

(* Loading and linking: every index leads to what is expected there, every *)
(* member is declared once, and every reference finds its member.          *)
Instructs(i) ==
  CASE i[1] \in {"getstatic", "putstatic"} ->
         IsRef(i[2], "FieldRef") /\ Member(i[2]) \in MembersOf(file.fields)
    [] i[1] = "invokestatic" ->
         IsRef(i[2], "MethodRef") /\ Member(i[2]) \in MembersOf(file.methods)
    [] i[1] \in {"print", "concat", "super init"} ->
         IsRef(i[2], "MethodRef") /\ Member(i[2]) \in LibraryMembers
    [] i[1] = "ldc" ->
         \/ Tagged(i[2], "Integer") \/ Tagged(i[2], "Float")
         \/ Tagged(i[2], "String") /\ IsText(file.constants[i[2]].ids[1])
    [] OTHER -> TRUE

DeclaresOnce(infos) ==
  \A i, j \in DOMAIN infos :
    i # j => <<Utf8At(infos[i].name), Utf8At(infos[i].descriptor)>>
             # <<Utf8At(infos[j].name), Utf8At(infos[j].descriptor)>>

Resolvable ==
  /\ file.count = Len(file.constants) + 1
  /\ IsClass(file.this) /\ ClassName(file.this) = ThisClass
  /\ IsClass(file.super) /\ ClassName(file.super) = Object
  /\ \A m \in ToSet(file.fields) \cup ToSet(file.methods) : IsText(m.name) /\ IsText(m.descriptor)
  /\ \A f \in ToSet(file.fields) : Utf8At(f.descriptor) \notin {"V", "Invalid"}
  /\ \A m \in ToSet(file.methods) :
       /\ IsText(m.attribute) /\ Utf8At(m.attribute) = "Code"
       /\ \A k \in DOMAIN m.code : Instructs(m.code[k])
  /\ DeclaresOnce(file.fields) /\ DeclaresOnce(file.methods)

(* Verification by type inference: the stacks of types, written as their   *)
(* descriptors, that an instruction may leave on top of one of them; none, *)
(* if it does not find there what it takes.                                *)
StringType == "Ljava/lang/String;"
ObjectType == "Ljava/lang/Object;"

Assignable(t, u) == t = u \/ (t = StringType /\ u = ObjectType)

Exchanged(stack, takes, gives) ==
  LET rest == Len(stack) - Len(takes)
  IN  IF rest >= 0 /\ \A k \in DOMAIN takes : Assignable(stack[rest + k], takes[k])
        THEN {SubSeq(stack, 1, rest) \o gives} ELSE {}

ConstantType(i) ==
  CASE Tagged(i, "Integer") -> "I" [] Tagged(i, "Float") -> "F" [] OTHER -> StringType

MemberType(i) == Member(i)[3]

Returned == [ireturn |-> {"I"}, freturn |-> {"F"}, areturn |-> {StringType, ObjectType}]

StacksAfter(i, results, stack) ==
  CASE i[1] = "iconst" -> Exchanged(stack, <<>>, <<"I">>)
    [] i[1] = "ldc" -> Exchanged(stack, <<>>, <<ConstantType(i[2])>>)
    [] i[1] = "getstatic" -> Exchanged(stack, <<>>, <<MemberType(i[2])>>)
    [] i[1] = "putstatic" -> Exchanged(stack, <<MemberType(i[2])>>, <<>>)
    [] i[1] = "invokestatic" ->
         UNION {Exchanged(stack, <<>>, IF t = "V" THEN <<>> ELSE <<t>>) :
                t \in {u \in Descriptors : MemberType(i[2]) = "()" \o u}}
    [] i[1] = "print" ->
         UNION {Exchanged(stack, <<t>>, <<>>) :
                t \in {u \in Descriptors : MemberType(i[2]) = "(" \o u \o ")V"}}
    [] i[1] = "iadd" -> Exchanged(stack, <<"I", "I">>, <<"I">>)
    [] i[1] = "fadd" -> Exchanged(stack, <<"F", "F">>, <<"F">>)
    [] i[1] = "concat" -> Exchanged(stack, <<StringType, StringType>>, <<StringType>>)
    [] i[1] = "super init" -> {stack}
    [] i[1] = "return" -> IF "V" \in results THEN {stack} ELSE {}
    [] i[1] \in DOMAIN Returned ->
         UNION {Exchanged(stack, <<t>>, <<>>) : t \in results \cap Returned[i[1]]}

ResultTypes(m) ==
  {t \in Descriptors : Utf8At(m.descriptor) \in {"()" \o t, "([Ljava/lang/String;)" \o t}}

(* Code has no branches here: it is verified from its first instruction to *)
(* its last, which is the one that returns.                                *)
Verifies(m) ==
  LET stacks[k \in 0 .. Len(m.code)] ==
        IF k = 0 THEN {<<>>}
        ELSE UNION {StacksAfter(m.code[k], ResultTypes(m), stack) : stack \in stacks[k - 1]}
  IN  /\ stacks[Len(m.code)] # {}
      /\ m.code # <<>> /\ Last(m.code)[1] \in {"return"} \cup DOMAIN Returned

Loadable == Resolvable /\ \A m \in ToSet(file.methods) : Verifies(m)

-----------------------------------------------------------------------------
(* The JVM: load the class, set the statics to zero or null, run <clinit>.  *)

CodeOf(name) == (CHOOSE m \in ToSet(file.methods) : Utf8At(m.name) = name).code
Activation(name) == [code |-> CodeOf(name), pc |-> 1, stack |-> <<>>]

Load ==
  /\ stage = "written"
  /\ IF ~Loadable
       THEN stage' = "refused" /\ UNCHANGED machine
       ELSE /\ stage' = "running"
            /\ statics' = [x \in {Utf8At(f.name) : f \in ToSet(file.fields)} |->
                            IF \E f \in ToSet(file.fields) :
                                 Utf8At(f.name) = x /\ Utf8At(f.descriptor) \in {"I", "F"}
                              THEN 0 ELSE "null"]
            /\ frames' = IF \E m \in ToSet(file.methods) : Utf8At(m.name) = "<clinit>"
                           THEN <<Activation("<clinit>")>> ELSE <<>>
            /\ UNCHANGED written
  /\ UNCHANGED <<package, hash, next, analysis, output>>

Top == frames[Len(frames)]
Instruction == Top.code[Top.pc]
Operation(ops) == stage = "running" /\ frames # <<>> /\ Instruction[1] \in ops
NameAt(i) == Member(i)[2]

(* An activation goes on with another stack, and the top one does.         *)
Advanced(f, stack) == [f EXCEPT !.pc = @ + 1, !.stack = stack]
Proceeds(stack) == frames' = [frames EXCEPT ![Len(frames)] = Advanced(@, stack)]

JVM == UNCHANGED <<package, hash, stage, next, analysis, output>>

Pushed(i) ==
  IF i[1] = "iconst" THEN i[2]
  ELSE LET c == file.constants[i[2]]
       IN  IF c.type = "String" THEN Utf8At(c.ids[1]) ELSE c.lit

Push ==
  /\ Operation({"iconst", "ldc"})
  /\ Proceeds(Append(Top.stack, Pushed(Instruction)))
  /\ UNCHANGED <<statics, written>> /\ JVM

GetStatic ==
  /\ Operation({"getstatic"})
  /\ Proceeds(Append(Top.stack, statics[NameAt(Instruction[2])]))
  /\ UNCHANGED <<statics, written>> /\ JVM

PutStatic ==
  /\ Operation({"putstatic"})
  /\ statics' = [statics EXCEPT ![NameAt(Instruction[2])] = Last(Top.stack)]
  /\ written' = Append(written, NameAt(Instruction[2]))
  /\ Proceeds(Front(Top.stack))
  /\ JVM

Add ==
  LET n == Len(Top.stack)
      x == Top.stack[n - 1]
      y == Top.stack[n]
  IN
  /\ Operation({"iadd", "fadd", "concat"})
  /\ Proceeds(Append(SubSeq(Top.stack, 1, n - 2), IF Instruction[1] = "concat" THEN x \o y ELSE x + y))
  /\ UNCHANGED <<statics, written>> /\ JVM

Invoke ==
  /\ Operation({"invokestatic"})
  /\ frames' = Append(frames, Activation(NameAt(Instruction[2])))
  /\ UNCHANGED <<statics, written>> /\ JVM

ReturnValue ==
  LET caller == frames[Len(frames) - 1] IN
  /\ Operation(DOMAIN Returned)
  /\ frames' = Append(SubSeq(frames, 1, Len(frames) - 2),
                      Advanced(caller, Append(caller.stack, Last(Top.stack))))
  /\ UNCHANGED <<statics, written>> /\ JVM

Return ==
  /\ Operation({"return"})
  /\ frames' = Front(frames)
  /\ UNCHANGED <<statics, written>> /\ JVM

Start == /\ Init /\ statics = <<>> /\ frames = <<>> /\ written = <<>>

Step ==
  \/ Compile /\ UNCHANGED machine
  \/ Load \/ Push \/ GetStatic \/ PutStatic \/ Add \/ Invoke \/ ReturnValue \/ Return

Spec == Start /\ [][Step]_vars

Initialised == stage = "running" /\ frames = <<>>

-----------------------------------------------------------------------------
(* The type invariant.                                                     *)
Stages == {"scope", "methods", "fields", "analyze fields", "analyze methods", "pool", "field refs", "method refs", "head",
           "field infos", "constructor", "initialisers", "clinit", "bodies", "write",
           "written", "rejected", "refused", "running"}

Iterated ==
  CASE stage = "methods" -> MethodRequests(package)
    [] stage = "fields" -> BlanksNamed(FieldRequests(package))
    [] stage \in {"analyze fields", "field refs", "field infos", "initialisers"} -> fields
    [] stage \in {"analyze methods", "method refs", "bodies"} -> methods
    [] OTHER -> <<"once">>

TypeOK ==
  /\ stage \in Stages
  /\ next \in DOMAIN Iterated
  /\ errors \subseteq {"no main", "main has a result", "redeclared", "type or name",
                       "initialiser", "type of result"}
  /\ consts \subseteq {f.id : f \in ToSet(fields)}
  /\ \A x \in DOMAIN context : context[x] \in DOMAIN pool
  /\ ToSet(written) \subseteq DOMAIN statics

(* The three constants that fillConstantPool pushes without a search keep  *)
(* the pool resolvable and free of duplicates, and so do all requests.     *)
(* Entries are never removed, so the pool as it is written shows it.       *)
EntriesDiffer ==
  Cardinality({<<pool[i].type, pool[i].fst, pool[i].snd, pool[i].lit>> : i \in DOMAIN pool}) = Len(pool)

PoolSound == stage = "written" => Pool!Resolves(pool) /\ EntriesDiffer

CalledByInitialisers == UNION {Calls(Initialiser(v)) : v \in Variables(package)}

(* What the compiler accepts is legal Go at the package level, up to four  *)
(* rules it does not check: a declaration has as many values as names, a   *)
(* variable does not share its name with a function, a variable does not   *)
(* depend on itself through a function, and is not initialised with a call *)
(* that has no result.  It takes functions for values too.                 *)
AcceptsOnlyLegal ==
  stage = "written" =>
    \/ Legal(package)
    \/ \E d \in ToSet(package) : ~CountsAgree(d)
    \/ FunctionIds(package) \cap VariableIds(package) # {}
    \/ ~Acyclic(package) /\ CalledByInitialisers # {}
    \/ \E v \in Variables(package) : ~ResultsUsed(package, Initialiser(v))
    \/ \E e \in Expressions(package) : Reads(e) \cap FunctionIds(package) # {}

(* Whatever the order of the map, a legal package is accepted if no        *)
(* initialiser reads a variable, only initialised variables are read, and  *)
(* there are no two functions without a name, which count as one name.     *)
AcceptsIndependent ==
  stage = "rejected" /\ Legal(package) /\ WellTyped(package) =>
    \/ \E v \in Variables(package) : Reads(Initialiser(v)) # {}
    \/ \E e \in Expressions(package), v \in Named(package) : v.id \in Reads(e) /\ v.values = <<>>
    \/ \E i, j \in DOMAIN package : i # j /\ package[i].identifiers = <<"_">> /\ package[j].identifiers = <<"_">>
                                  /\ package[i].kind = "function" /\ package[j].kind = "function"

(* The class file of a legal package links: indices handed out while the   *)
(* tail was generated fit the pool that is written in front of it, and     *)
(* every reference, by name and descriptor, finds the member it asks for.  *)
ReferencesResolve == stage \in {"written", "refused"} /\ Legal(package) => Resolvable

(* That of a well typed one passes verification as well: every instruction *)
(* finds operands of its types, over all functions and initialisers.       *)
(* Number types are the exception: a constant, an expression or a sum of   *)
(* integers only that Go converts to a float stays an int of the JVM.      *)
NeverRefused == stage = "refused" => ~Legal(package) \/ ~TypedWithoutConversion(package)

(* "both floating-point types use JVM `float`" (README.md:78).             *)
FloatFields ==
  stage = "written" =>
    \A v \in Named(package), f \in ToSet(file.fields) :
      v.type = "Float" /\ Utf8At(f.name) = v.id => Utf8At(f.descriptor) = "F"

(* Whatever the order of the map, and even for a package that Go refuses,  *)
(* <clinit> itself reads a variable only after writing it: the order of    *)
(* the analysis, which refuses other reads, is that of the code.           *)
WrittenBeforeRead ==
  Operation({"getstatic"}) /\ Len(frames) = 1 => NameAt(Instruction[2]) \in ToSet(written)

(* When the functions that initialisers call read no variables, every      *)
(* initialised variable ends with the value it has in Go.                  *)
ValuesAsInGo ==
  /\ Initialised
  /\ \A f \in CalledByInitialisers : ReadBy(package)[f] = {}
  /\ Legal(package)
  =>
    \A v \in Named(package) : v.values # <<>> => statics[v.id] = ValueOf(package)[v.id]

(* "Variables are initialized in order of declarations"                    *)
(* (src/semantic/types_visitor.cpp:16).                                    *)
DeclarationOrder ==
  SelectSeq(FlattenSeq([i \in DOMAIN package |->
              IF package[i].kind = "variable" THEN package[i].identifiers ELSE <<>>]),
            LAMBDA x : x \in ToSet(written))

InitialisedInOrder == Initialised => written = DeclarationOrder
=============================================================================
