--------------------------- MODULE MCConstantPool ---------------------------
(***************************************************************************)
(* A small instance of ConstantPool.  Two strings are enough for every     *)
(* coincidence of class, name and descriptor; the floats are the ones on   *)
(* which == differs from equality of bits: the two zeros and a NaN.        *)
(***************************************************************************)
EXTENDS ConstantPool

CONSTANTS s1, s2, i1, posZero, negZero, nan

MCStrings == {s1, s2}
MCInts == {i1}
MCFloats == {posZero, negZero, nan}
MCFloatEq == {posZero, negZero} \X {posZero, negZero}

=============================================================================
