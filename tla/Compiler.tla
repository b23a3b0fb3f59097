------------------------------- MODULE Compiler -------------------------------
(***************************************************************************)
(* The compiler, from the tree of a function to its code or its errors     *)
(* (src/main.cpp): the statements are lowered and checked                  *)
(* (StatementsVisitor); only if that reports nothing, code is generated    *)
(* from the lowered tree (CodeGenerator).                                  *)
(***************************************************************************)
EXTENDS StatementsVisitor, CodeGenerator

Compilation(function) ==
  LET lowered == Lowered(function)
  IN  [errors |-> lowered.errors,
       code   |-> IF lowered.errors = {} THEN generateMethodBodyCode(lowered.function)
                  ELSE <<>>]
===============================================================================
