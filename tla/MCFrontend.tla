------------------------------ MODULE MCFrontend ------------------------------
(***************************************************************************)
(* The front end for TLC.                                                  *)
(***************************************************************************)
EXTENDS Frontend

===============================================================================
