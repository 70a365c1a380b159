------------------------ MODULE MCIPv6GuardLifecycle ------------------------
(***************************************************************************)
(* Instance for TLC: two workers, because a release runs beside one other   *)
(* transaction.                                                             *)
(***************************************************************************)
EXTENDS IPv6GuardLifecycle, TLC

CONSTANTS w1, w2

MCWorkers == {w1, w2}
MCSymmetry == Permutations(MCWorkers)
=============================================================================
