------------------------------- MODULE MCCoff -------------------------------
(***************************************************************************)
(* Instances of CoffWriter for TLC: values that a configuration cannot     *)
(* write.                                                                  *)
(***************************************************************************)
EXTENDS CoffWriter

BothOrders == {<< ".data", ".code" >>, << ".code", ".data" >>}

ShortAndLongNames == {<< "a", 7 >>, << "a", 8 >>, << "b", 11 >>}
=============================================================================
