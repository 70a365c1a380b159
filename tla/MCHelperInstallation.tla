------------------------- MODULE MCHelperInstallation -------------------------
(* Two releases and a file of each kind; two scripts at once, or a script    *)
(* and a launcher.                                                           *)
EXTENDS HelperInstallation, TLC

CONSTANTS v1, v2, helper, session, cli, i1, i2, p1

MCVersions == {v1, v2}
MCFiles == {helper, session, cli}
MCModules == {cli}
MCOrder == <<helper, session, cli>>
MCInstallers == {i1, i2}
MCLaunches == {p1}
MCWindows == {v2}
MCCasts == {{i1, i2}, {i1, p1}}
=============================================================================
