------------------------- MODULE MCProtectedSession -------------------------
(***************************************************************************)
(* Instance for TLC: one interface, two servers, and enough UUIDs for the   *)
(* profile, the setting, the record and a job to name different ones.       *)
(***************************************************************************)
EXTENDS ProtectedSession, TLC

CONSTANTS w1, w2, eth, ams, zrh, u1, u2, u3, u4

MCWorkers == {w1, w2}
MCInterfaces == {eth}
MCEndpoints == {ams, zrh}
MCUuids == {u1, u2, u3, u4}
MCSymmetry ==
  Permutations(MCWorkers) \cup Permutations(MCEndpoints) \cup Permutations(MCUuids)
=============================================================================
