-------------------------------- MODULE Sums --------------------------------
(***************************************************************************)
(* Sums over sequences of numbers, which the properties about counters     *)
(* and timers compare with the counter or the clock they were read from.   *)
(***************************************************************************)
EXTENDS Naturals, SequencesExt

Total(s) == FoldLeft(LAMBDA acc, x : acc + x, 0, s)

=============================================================================
