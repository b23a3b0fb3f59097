------------------------------- MODULE Interner -------------------------------
(***************************************************************************)
(* What a constant pool promises to the code generator, without saying how *)
(* entries are represented: a table that only grows, in which no two       *)
(* entries mean the same, and an answer to every request that is the place *)
(* of the requested meaning.                                               *)
(***************************************************************************)
EXTENDS Naturals, Sequences

CONSTANTS
  Meanings,   (* what an entry can stand for                                *)
  Alike,      (* pairs of meanings that count as the same                   *)
  NoRequest   (* the answer before the first request                        *)

VARIABLES
  table,      (* the meanings, in the order of their indices                *)
  answer      (* the last request with the index returned for it            *)

vars == <<table, answer>>

(* No two places of the table mean the same.                               *)
Distinct(t) == \A i, j \in DOMAIN t : i # j => <<t[i], t[j]>> \notin Alike

Extends(new, old) ==
  /\ Len(old) <= Len(new)
  /\ \A i \in DOMAIN old : new[i] = old[i]

Init == table = <<>> /\ answer = NoRequest

(* A request that the table already holds gets its place and adds nothing. *)
Hit(r, i) ==
  /\ i \in DOMAIN table
  /\ <<table[i], r>> \in Alike
  /\ UNCHANGED table

(* Any other request becomes the last entry, after those of its parts that *)
(* are new.                                                                *)
Miss(r, i) ==
  /\ \A j \in DOMAIN table : <<table[j], r>> \notin Alike
  /\ Extends(table', table)
  /\ Distinct(table')
  /\ i = Len(table') /\ i > Len(table)
  /\ table'[i] = r

Next ==
  /\ answer' \in [req : Meanings, id : Nat]
  /\ table' \in Seq(Meanings)
  /\ \/ Hit(answer'.req, answer'.id)
     \/ Miss(answer'.req, answer'.id)

Spec == Init /\ [][Next]_vars
=============================================================================
