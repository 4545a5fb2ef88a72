---------------------------- MODULE MCGenerator ----------------------------
(***************************************************************************)
(* Instances of Generator for TLC.  The names of variables are             *)
(* interchangeable; the types, operators and shapes of each run are in its *)
(* configuration.                                                          *)
(***************************************************************************)
EXTENDS Generator, TLC

Interchangeable == Permutations(Names)
=============================================================================
