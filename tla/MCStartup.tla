------------------------------- MODULE MCStartup -------------------------------
(* Two processes, started one after the other or together.                  *)
EXTENDS Startup

CONSTANTS p1, p2

MCProcs == {p1, p2}
=============================================================================
