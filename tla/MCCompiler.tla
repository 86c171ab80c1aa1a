----------------------------- MODULE MCCompiler -----------------------------
(* Small instances of Compiler; Torn, Corrupt and None are model values.   *)
EXTENDS Compiler, TLC

CONSTANTS c1, c2, v1
=============================================================================
