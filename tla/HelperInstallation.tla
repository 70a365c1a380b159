-------------------------- MODULE HelperInstallation --------------------------
(***************************************************************************)
(* The root-owned helper on disk, and everybody who writes or reads it: the *)
(* installer script run as root, the window's gate that runs it through     *)
(* pkexec (PackagedHelperManager, _ensure_packaged_kill_switch_helper), and *)
(* the two installed launchers, which verify the installation before they   *)
(* import it.  Files are replaced one by one and the manifest last, so a    *)
(* script that dies leaves a mixture on disk, and a launcher may read while *)
(* a script writes.                                                         *)
(*                                                                         *)
(* A file is the version it came from: two files have one checksum if they  *)
(* are of one version.  The window's audit reads all files in one step, and *)
(* a launcher imports all modules in one.                                   *)
(***************************************************************************)
EXTENDS Naturals, Sequences

CONSTANTS
  Versions,          \* releases of the program
  Files,             \* the installed files but the manifest
  Modules,           \* those in the package directory; the others are the launchers
  Order,             \* SOURCE_FILES: the launchers, then the modules
  Installers,        \* processes of the installer script
  Session,           \* the launcher of the session broker
  Launches,          \* processes of the launchers
  Windows,           \* the bundles a window may come with, None for a source tree
  Casts,             \* the sets of processes that may meet, to bound a run
  None

Launchers == Files \ Modules

ASSUME InstallationAssumption ==
  /\ Modules \subseteq Files /\ Modules # {} /\ Session \in Launchers
  /\ Order \in Seq(Files) /\ \A f \in Files : \E k \in DOMAIN Order : Order[k] = f
  /\ Windows \subseteq Versions \cup {None}
  /\ Casts \subseteq SUBSET (Installers \cup Launches)
  /\ None \notin Versions \cup Installers
  /\ None \notin [Files -> Versions \cup {None}]

VARIABLES
  cast,       \* the processes of this behaviour
  disk,       \* the version of every installed file
  manifest,   \* the checksums of kill-switch-helper-manifest.json
  litter,     \* the temporary file of a killed script lies among the modules
  unsafe,     \* an installed file has a foreign owner, mode, link or type
  flock,      \* the script that holds the installer's lock
  script,     \* the processes of the script
  gate,       \* the window's gate and its installation job
  launch      \* the processes of the launchers

vars == <<cast, disk, manifest, litter, unsafe, flock, script, gate, launch>>
Installed == <<disk, manifest, litter>>
Fixed == <<cast, unsafe>>

Complete(v) == [f \in Files |-> v]
Absent == Complete(None)

\* n: the next file; code: the exit status the window waits for
Script == [pc : {"idle", "lock", "check", "stage", "move", "manifest", "verify", "remove"},
           v : Versions \cup {None}, n : 1 .. Len(Order) + 1, code : {"none", "ok", "failed"}]
MutNoScript == [pc |-> "idle", v |-> None, n |-> 0, code |-> "none"]
NoScript == [pc |-> "idle", v |-> None, n |-> 1, code |-> "none"]
Writing == {"check", "stage", "move", "manifest", "verify", "remove"}

\* v: the version of this window's bundle, None when it runs from a source tree;
\* own: the script its job waits for; late: the job's time is over; ready: a ghost,
\* its last answer was on_ready and nothing was written since
Gate == [pc : {"rest", "asking", "job", "auth", "root", "audit"}, v : Windows,
         busy : BOOLEAN, own : Installers \cup {None},
         late : BOOLEAN, ready : BOOLEAN]
NewGate(v) == [pc |-> "rest", v |-> v, busy |-> FALSE, own |-> None, late |-> FALSE,
               ready |-> FALSE]

\* of: the launcher that runs; seen: the manifest it read; again: installed_entry
\* verifies a second time. Ghosts: the code of the launcher and the modules it loaded,
\* forgotten when something is written
Launch == [pc : {"idle", "manifest", "entries", "files", "import", "run"}, of : Launchers,
           seen : [Files -> Versions \cup {None}] \cup {None}, n : 1 .. Len(Order) + 1, again : BOOLEAN,
           code : Versions \cup {None}, loaded : [Modules -> Versions \cup {None}]]
Unloaded == [f \in Modules |-> None]
NoLaunch == [pc |-> "idle", of |-> Session, seen |-> None, n |-> 1, again |-> FALSE,
             code |-> None, loaded |-> Unloaded]

TypeOK ==
  /\ cast \in Casts
  /\ disk \in [Files -> Versions \cup {None}]
  /\ manifest \in [Files -> Versions \cup {None}] \cup {None}
  /\ litter \in BOOLEAN /\ unsafe \in BOOLEAN
  /\ flock \in Installers \cup {None}
  /\ script \in [Installers -> Script]
  /\ gate \in Gate
  /\ launch \in [Launches -> Launch]

Init ==
  /\ cast \in Casts
  /\ \/ disk = Absent /\ manifest = None /\ unsafe = FALSE
     \/ \E v \in Versions : disk = Complete(v) /\ manifest = Complete(v) /\ unsafe \in BOOLEAN
  /\ litter = FALSE /\ flock = None
  /\ script = [i \in Installers |-> NoScript]
  /\ \E v \in Windows : gate = NewGate(v)
  /\ launch = [s \in Launches |-> NoLaunch]

(***************************************************************************)
(* tools/pia-bazzite-stage2-helper-installer.sh                             *)
(***************************************************************************)
At(i, pc) == script[i].pc = pc
Goto(i, pc) == script' = [script EXCEPT ![i].pc = pc]
File(i) == Order[script[i].n]
Last(i) == script[i].n = Len(Order)

\* something is written: a launcher that reads may see the old and the new state
Disturb ==
  /\ launch' = [s \in Launches |-> [launch[s] EXCEPT !.code = None, !.loaded = Unloaded]]
  /\ gate' = [gate EXCEPT !.ready = FALSE]

\* the exit status is kept for a window that waits; the kernel drops the lock
Exit(i, code) ==
  /\ script' = [script EXCEPT ![i] = [NoScript EXCEPT !.code = IF gate.own = i THEN code ELSE "none"]]
  /\ flock' = IF flock = i THEN None ELSE flock

Free(i) == At(i, "idle") /\ gate.own # i
Begin(i, v) ==
  script' = [script EXCEPT ![i] = [pc |-> "lock", v |-> v, n |-> 1, code |-> "none"]]

\* an administrator installs from a source tree, or uninstalls
RunByHand(i) ==
  /\ Free(i)
  /\ \E v \in Versions \cup {None} : Begin(i, v)
  /\ UNCHANGED <<Installed, Fixed, flock, gate, launch>>

\* flock -n fails at once
MutTakeLock(i) ==
  /\ At(i, "lock")
  /\ flock' = i /\ Goto(i, "check")
  /\ UNCHANGED <<Installed, Fixed, gate, launch>>

TakeLock(i) ==
  /\ At(i, "lock")
  /\ \/ flock = None /\ flock' = i /\ Goto(i, "check")
     \/ flock # None /\ Exit(i, "failed")
  /\ UNCHANGED <<Installed, Fixed, gate, launch>>

\* the source, its manifest and the targets are checked before anything is written
CheckSource(i) ==
  /\ At(i, "check") /\ ~unsafe
  /\ Goto(i, IF script[i].v = None THEN "remove" ELSE "stage")
  /\ UNCHANGED <<Installed, Fixed, flock, gate, launch>>

\* install writes a temporary file beside the target, mv renames it
Stage(i) ==
  /\ At(i, "stage") /\ Goto(i, "move") /\ Disturb
  /\ UNCHANGED <<Installed, Fixed, flock>>

\* without set -e a failed command is passed over
MutMove(i) ==
  /\ At(i, "move")
  /\ disk' = [disk EXCEPT ![File(i)] = script[i].v] \/ disk' = disk
  /\ script' = [script EXCEPT ![i].n = @ + 1, ![i].pc = IF Last(i) THEN "manifest" ELSE "stage"]
  /\ Disturb
  /\ UNCHANGED <<manifest, litter, Fixed, flock>>

Move(i) ==
  /\ At(i, "move")
  /\ disk' = [disk EXCEPT ![File(i)] = script[i].v]
  /\ script' = [script EXCEPT ![i].n = @ + 1, ![i].pc = IF Last(i) THEN "manifest" ELSE "stage"]
  /\ Disturb
  /\ UNCHANGED <<manifest, litter, Fixed, flock>>

\* the checksums of what lies on disk by now
WriteManifest(i) ==
  /\ At(i, "manifest")
  /\ manifest' = disk /\ Goto(i, "verify") /\ Disturb
  /\ UNCHANGED <<disk, litter, Fixed, flock>>

\* only the launchers are compared with their source
VerifyInstalled(i) ==
  /\ At(i, "verify")
  /\ Exit(i, IF \A f \in Launchers : disk[f] = script[i].v THEN "ok" ELSE "failed")
  /\ UNCHANGED <<Installed, Fixed, gate, launch>>

\* uninstall removes the launchers, the manifest, the modules
RemoveFile(i) ==
  /\ At(i, "remove") /\ (File(i) \in Launchers \/ manifest = None)
  /\ disk' = [disk EXCEPT ![File(i)] = None]
  /\ IF Last(i) THEN Exit(i, "ok") ELSE script' = [script EXCEPT ![i].n = @ + 1] /\ UNCHANGED flock
  /\ Disturb
  /\ UNCHANGED <<manifest, litter, Fixed>>

RemoveManifest(i) ==
  /\ At(i, "remove") /\ File(i) \in Modules /\ manifest # None
  /\ manifest' = None /\ Disturb
  /\ UNCHANGED <<disk, litter, Fixed, flock, script>>

\* set -e: any command may fail, the EXIT trap removes the temporary file
Fails(i) ==
  /\ script[i].pc \in Writing /\ Exit(i, "failed")
  /\ UNCHANGED <<Installed, Fixed, gate, launch>>

\* a script that is killed runs no trap
Killed(i) ==
  /\ script[i].pc \in Writing /\ Exit(i, "failed")
  /\ litter' = (litter \/ (At(i, "move") /\ File(i) \in Modules))
  /\ UNCHANGED <<disk, manifest, Fixed, gate, launch>>

ScriptStep(i) ==
  \/ TakeLock(i) \/ CheckSource(i) \/ Stage(i) \/ Move(i) \/ WriteManifest(i) \/ VerifyInstalled(i)
  \/ RemoveFile(i) \/ RemoveManifest(i) \/ Fails(i)

(***************************************************************************)
(* PackagedHelperManager, and the gate of the window.                       *)
(***************************************************************************)
\* audit() of an intact bundle; the mutant does not read the manifest
MutAudit ==
  CASE gate.v = None -> "unmanaged-source"
    [] gate.v # None /\ unsafe -> "unsafe"
    [] gate.v # None /\ ~unsafe /\ disk = Complete(gate.v) -> "current"
    [] OTHER -> "outdated"

Audit ==
  CASE gate.v = None -> "unmanaged-source"
    [] gate.v # None /\ unsafe -> "unsafe"
    [] gate.v # None /\ ~unsafe /\ disk = Absent /\ manifest = None /\ ~litter -> "missing"
    [] gate.v # None /\ ~unsafe /\ disk = Complete(gate.v) /\ manifest = disk -> "current"
    [] OTHER -> "outdated"
Current == Audit \in {"unmanaged-source", "current"}
Installable == Audit \in {"missing", "outdated"}

GateAt(pc) == gate.pc = pc
GateGoto(pc) == gate' = [gate EXCEPT !.pc = pc]

\* on_ready or on_cancel; the busy flag is cleared by the callbacks of the job
Answer(ready) == gate' = [gate EXCEPT !.pc = "rest", !.busy = FALSE, !.own = None, !.late = FALSE, !.ready = ready]

\* an exit status nobody waits for is gone
Reap == script' = [i \in Installers |-> [script[i] EXCEPT !.code = "none"]]

\* a bundle that cannot be proven intact, or staged, is refused at every audit
BundleRefused == gate.v # None /\ Answer(FALSE)

Ask ==
  /\ GateAt("rest")
  /\ \/ Current /\ Answer(TRUE)
     \/ Installable /\ gate' = [gate EXCEPT !.pc = "asking", !.ready = FALSE]
     \/ BundleRefused
  /\ UNCHANGED <<Installed, Fixed, flock, script, launch>>

\* the question is modal
Decide ==
  /\ GateAt("asking")
  /\ \/ Answer(FALSE)
     \/ gate' = [gate EXCEPT !.pc = "job", !.busy = TRUE]
  /\ UNCHANGED <<Installed, Fixed, flock, script, launch>>

\* install_or_upgrade: what is current by now is left alone; staging may fail
JobAudit ==
  /\ GateAt("job")
  /\ \/ Current /\ Answer(TRUE)
     \/ Installable /\ GateGoto("auth")
     \/ BundleRefused
  /\ UNCHANGED <<Installed, Fixed, flock, script, launch>>

\* the prompt is answered, and the bootstrap run as root accepts the staged bundle
Authorised(i) ==
  /\ GateAt("auth") /\ Free(i)
  /\ Begin(i, gate.v)
  /\ gate' = [gate EXCEPT !.pc = "root", !.own = i]
  /\ UNCHANGED <<Installed, Fixed, flock, launch>>

\* denied, refused by the bootstrap, or killed at the time limit
MutNotAuthorised == FALSE /\ UNCHANGED vars
NotAuthorised ==
  /\ GateAt("auth") /\ Answer(FALSE)
  /\ UNCHANGED <<Installed, Fixed, flock, script, launch>>

\* a process of root cannot be killed by the window: the call waits, then raises
TimeOver ==
  /\ GateAt("root") /\ ~gate.late
  /\ gate' = [gate EXCEPT !.late = TRUE]
  /\ UNCHANGED <<Installed, Fixed, flock, script, launch>>

ScriptEnded ==
  /\ GateAt("root") /\ script[gate.own].code # "none"
  /\ IF script[gate.own].code = "ok" /\ ~gate.late
     THEN gate' = [gate EXCEPT !.pc = "audit", !.own = None]
     ELSE Answer(FALSE)
  /\ Reap
  /\ UNCHANGED <<Installed, Fixed, flock, launch>>

\* exit status 0 is not believed
AuditAfter ==
  /\ GateAt("audit")
  /\ (Audit = "current" /\ Answer(TRUE)) \/ Answer(FALSE)
  /\ UNCHANGED <<Installed, Fixed, flock, script, launch>>

\* the program ends or dies and is started again, of any version: the script goes on
Restart ==
  /\ \E v \in Windows : gate' = NewGate(v)
  /\ Reap
  /\ UNCHANGED <<Installed, Fixed, flock, launch>>

JobStep == JobAudit \/ NotAuthorised \/ ScriptEnded \/ AuditAfter

(***************************************************************************)
(* The installed launchers, started by pkexec at any time.                  *)
(***************************************************************************)
LaunchAt(s, pc) == launch[s].pc = pc
Step(s, l) == launch' = [launch EXCEPT ![s] = l] /\ UNCHANGED <<Installed, Fixed, flock, script, gate>>
Refuse(s) == Step(s, NoLaunch)

Exec(s) ==
  /\ LaunchAt(s, "idle")
  /\ \E f \in Launchers :
       /\ disk[f] # None
       /\ Step(s, [NoLaunch EXCEPT !.pc = "manifest", !.of = f, !.code = disk[f]])

\* the owner and mode checks, then the manifest
ReadManifest(s) ==
  /\ LaunchAt(s, "manifest") /\ ~launch[s].again
  /\ IF unsafe \/ manifest = None
     THEN Refuse(s)
     ELSE Step(s, [launch[s] EXCEPT !.seen = manifest, !.pc = "entries"])

\* installed_entry verifies again, but does not look for other files
VerifyAgain(s) ==
  /\ LaunchAt(s, "manifest") /\ launch[s].again
  /\ IF unsafe \/ manifest = None
     THEN Refuse(s)
     ELSE Step(s, [launch[s] EXCEPT !.seen = manifest, !.pc = "files"])

\* a temporary file of a script that runs or was killed
Temporary == litter \/ \E i \in Installers : At(i, "move") /\ File(i) \in Modules

CheckEntries(s) ==
  /\ LaunchAt(s, "entries")
  /\ IF Temporary \/ (\E f \in Modules : disk[f] = None)
     THEN Refuse(s)
     ELSE Step(s, [launch[s] EXCEPT !.pc = "files"])

Verified(s) == IF launch[s].again THEN "run" ELSE "import"

\* the mutant trusts the launchers' own files
MutCheckFile(s) ==
  LET f == Order[launch[s].n] IN
  /\ LaunchAt(s, "files")
  /\ IF f \in Modules /\ disk[f] # launch[s].seen[f]
     THEN Refuse(s)
     ELSE Step(s, [launch[s] EXCEPT !.n = @ + 1, !.pc = IF launch[s].n = Len(Order) THEN Verified(s) ELSE @])

CheckFile(s) ==
  LET f == Order[launch[s].n] IN
  /\ LaunchAt(s, "files")
  /\ IF disk[f] # launch[s].seen[f]
     THEN Refuse(s)
     ELSE Step(s, [launch[s] EXCEPT !.n = @ + 1, !.pc = IF launch[s].n = Len(Order) THEN Verified(s) ELSE @])

\* the package is imported after the verification; session_entry does not verify again
Import(s) ==
  /\ LaunchAt(s, "import")
  /\ IF \E f \in Modules : disk[f] = None
     THEN Refuse(s)
     ELSE Step(s, [launch[s] EXCEPT !.again = TRUE, !.n = 1, !.seen = None,
                     !.loaded = IF launch[s].code = None THEN Unloaded ELSE [f \in Modules |-> disk[f]],
                     !.pc = IF launch[s].of = Session THEN "run" ELSE "manifest"])

Finish(s) == LaunchAt(s, "run") /\ Refuse(s)

Next ==
  \/ \E i \in Installers \cap cast : RunByHand(i) \/ ScriptStep(i) \/ Killed(i) \/ Authorised(i)
  \/ Ask \/ Decide \/ JobStep \/ TimeOver \/ Restart
  \/ \E s \in Launches \cap cast :
       \/ Exec(s) \/ ReadManifest(s) \/ CheckEntries(s) \/ CheckFile(s) \/ Import(s)
       \/ VerifyAgain(s) \/ Finish(s)

Spec == Init /\ [][Next]_vars

\* a script goes on unless it is killed, and a job whose prompt nobody answers is
\* ended by its time limit; nobody has to answer a question
FairSpec ==
  /\ Spec
  /\ WF_vars(JobStep)
  /\ \A i \in Installers : WF_vars(ScriptStep(i))

(***************************************************************************)
(* Properties.                                                              *)
(***************************************************************************)
\* The manifest never vouches for a mixture, whichever scripts run at once, fail or
\* are killed: a half-replaced helper is never one the launchers would run.
ManifestIsOneVersion == manifest # None => \E v \in Versions : manifest = Complete(v)

\* Exit status 0 of an installation means that all files and the manifest are of its
\* version at that moment, though it compares only the launchers itself.
OkIsInstalled ==
  [][\A i \in Installers : (At(i, "verify") /\ script'[i].code = "ok")
       => disk' = Complete(script[i].v) /\ manifest' = disk']_vars

\* What runs as root is of one release, code of the launcher and imported modules
\* alike, if nothing was written since the launcher began; and of the window's
\* release if its gate has said so.
Ready == gate.ready /\ gate.v # None
RunsOneVersion ==
  \A s \in Launches : LaunchAt(s, "run") /\ launch[s].code # None =>
    \E v \in Versions : /\ launch[s].code = v /\ launch[s].loaded = [f \in Modules |-> v]
                        /\ Ready => v = gate.v

\* A helper the gate has called ready is not refused by its launcher: the window's
\* audit is at least as strict as the launchers' verification. One thing only the
\* launchers look at: other files in the package directory.
Refused(s) == launch[s].pc \notin {"idle", "run"} /\ launch'[s].pc = "idle"
ReadyStarts ==
  [][\A s \in Launches : Refused(s) => ~(Ready /\ launch[s].code # None /\ flock = None /\ ~litter)]_vars

\* The busy flag a gate has taken is given back: neither an unanswered prompt nor a
\* script that fails or outlives the time limit blocks the window for ever.
GateEnds == gate.busy ~> ~gate.busy
=============================================================================
