------------------------------- MODULE Context -------------------------------
(***************************************************************************)
(* Context<T> (src/context.h): a stack of scopes, each a map from names to *)
(* elements.  The analysis of types keeps the declared variables in one,   *)
(* the code generator the constants and slots that names stand for.        *)
(***************************************************************************)
EXTENDS Naturals, Sequences

Blank == "_"

NoNames == [id \in {} |-> {}]

(* The scopes of a context, outermost first.                               *)
pushScope(scopes) == Append(scopes, NoNames)
popScope(scopes)  == SubSeq(scopes, 1, Len(scopes) - 1)

LastScope(scopes) == scopes[Len(scopes)]

(* The names of ids are added one after the other: a name replaces what    *)
(* the last scope has (insert_or_assign), the blank identifier is never    *)
(* added.                                                                  *)
Added(ids) == {i \in DOMAIN ids : ids[i] # Blank}

AddedLast(ids, id) ==
  CHOOSE i \in Added(ids) : ids[i] = id /\ \A j \in Added(ids) : ids[j] = id => j <= i

addAll(scopes, ids, elements) ==
  LET added == {ids[i] : i \in Added(ids)}
      last == LastScope(scopes)
  IN  [scopes EXCEPT ![Len(scopes)] =
        [x \in DOMAIN last \cup added |->
          IF x \in added THEN elements[AddedLast(ids, x)] ELSE last[x]]]

add(scopes, id, element) == addAll(scopes, <<id>>, <<element>>)

Declares(scopes, id) == \E d \in DOMAIN scopes : id \in DOMAIN scopes[d]

(* Mutant: the search runs from the outermost scope. *)
Outermost(scopes, id) ==
  CHOOSE d \in DOMAIN scopes :
    id \in DOMAIN scopes[d] /\ \A c \in 1 .. (d - 1) : id \notin DOMAIN scopes[c]

(* The innermost scope that has the name. *)
Innermost(scopes, id) ==
  CHOOSE d \in DOMAIN scopes :
    id \in DOMAIN scopes[d] /\ \A c \in (d + 1) .. Len(scopes) : id \notin DOMAIN scopes[c]

find(scopes, id) == scopes[Innermost(scopes, id)][id]
=============================================================================
