---- MODULE Sums ----
(***************************************************************************)
(* Sums of the values of a function, which the properties about money and  *)
(* counters are stated with.  What they need of sums is in SumsProofs.     *)
(***************************************************************************)
EXTENDS Integers, FiniteSetsExt

(* The values of f at the elements of a finite set S, added up. *)
SumOf(f, S) == MapThenSumSet(LAMBDA x : f[x], S)
====
