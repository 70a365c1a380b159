----------------------- MODULE MCProtectedSessionLive -----------------------
(***************************************************************************)
(* Instance for TLC's liveness check: one worker, two servers and one      *)
(* UUID, so that a switch fails at its import and is rolled back.           *)
(***************************************************************************)
EXTENDS ProtectedSession

CONSTANTS w1, eth, ams, zrh, u1

MCWorkers == {w1}
MCInterfaces == {eth}
MCEndpoints == {ams, zrh}
MCUuids == {u1}
=============================================================================
