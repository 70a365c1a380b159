--------------------------- MODULE MCHelperSession ---------------------------
(* One client for the model checker. The broker processes are               *)
(* interchangeable, which a run without a liveness property may use.         *)
EXTENDS HelperSession, TLC

CONSTANTS t1, t2, b1, b2

MCThreads == {t1, t2}
MCCallers == {{t1}, {t1, t2}}
MCBrokers == {b1, b2}
MCSymmetry == Permutations(MCBrokers)
=============================================================================
