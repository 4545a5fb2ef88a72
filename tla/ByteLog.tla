------------------------------- MODULE ByteLog -------------------------------
(***************************************************************************)
(* What a byte buffer promises: a growing sequence of bytes in which bytes *)
(* already written can be overwritten, and nothing else ever changes.      *)
(***************************************************************************)
EXTENDS Naturals, Sequences

CONSTANT Bytes   \* the values of a byte

VARIABLE log

LogInit == log = << >>

AppendBytes ==
  /\ log' \in Seq(Bytes)
  /\ Len(log) <= Len(log')
  /\ SubSeq(log', 1, Len(log)) = log

(* The byte at index i, counted from 0, is replaced.                       *)
Overwrite ==
  \E i \in 0 .. (Len(log) - 1), b \in Bytes : log' = [log EXCEPT ![i + 1] = b]

LogNext == AppendBytes \/ Overwrite

LogSpec == LogInit /\ [][LogNext]_log
=============================================================================
