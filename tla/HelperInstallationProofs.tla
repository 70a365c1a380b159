------------------------ MODULE HelperInstallationProofs ------------------------
(***************************************************************************)
(* Proofs about HelperInstallation, for every set of releases, files,       *)
(* scripts and launchers.  The inductive invariant follows the script that  *)
(* holds the lock file by file, and a launcher for as long as nothing is    *)
(* written.                                                                 *)
(***************************************************************************)
EXTENDS HelperInstallation, TLAPS

\* A script is past its lock exactly while it holds it.
LockDiscipline == \A i \in Installers : script[i].pc \in Writing <=> flock = i

\* What an installation has replaced is of its version, until it ends.
WrittenAt(i) ==
  /\ script[i].pc \in {"stage", "move"} =>
       /\ script[i].v \in Versions /\ script[i].n <= Len(Order)
       /\ \A k \in 1 .. Len(Order) : k < script[i].n => disk[Order[k]] = script[i].v
  /\ script[i].pc \in {"manifest", "verify"} =>
       script[i].v \in Versions /\ disk = Complete(script[i].v)
  /\ script[i].pc = "verify" => manifest = disk
  /\ script[i].pc \in {"lock", "check"} => script[i].n = 1
  /\ script[i].pc = "remove" => script[i].n <= Len(Order)
WrittenSoFar == \A i \in Installers : WrittenAt(i)

\* Where a launcher is in its list of files.
LaunchProgress ==
  \A s \in Launches :
    /\ launch[s].pc \in {"manifest", "entries"} => launch[s].n = 1
    /\ launch[s].pc = "files" => launch[s].n <= Len(Order)
    /\ launch[s].pc \in {"entries", "files"} => launch[s].seen # None

\* What a launcher has verified, while nothing is written.
UndisturbedAt(s) ==
  /\ disk[launch[s].of] = launch[s].code
  /\ launch[s].pc \in {"entries", "files"} => launch[s].seen = manifest
  /\ launch[s].pc = "files" =>
       \A k \in 1 .. Len(Order) : k < launch[s].n => disk[Order[k]] = launch[s].seen[Order[k]]
  /\ launch[s].pc \in {"import", "run"} \/ launch[s].again => manifest # None /\ disk = manifest
  /\ launch[s].pc = "run" \/ launch[s].again => launch[s].loaded = [f \in Modules |-> disk[f]]
Undisturbed == \A s \in Launches : launch[s].code # None => UndisturbedAt(s)

\* What the gate has called ready is there, while nothing is written.
ReadyIsCurrent == Ready => disk = Complete(gate.v) /\ manifest = disk /\ ~unsafe

IInv ==
  /\ TypeOK
  /\ LockDiscipline
  /\ WrittenSoFar
  /\ LaunchProgress
  /\ ManifestIsOneVersion
  /\ Undisturbed
  /\ ReadyIsCurrent

-----------------------------------------------------------------------------
USE DEF Writing, Installed, Fixed

\* The list of files is not empty, and lists every file.
LEMMA OrderFacts ==
  /\ Len(Order) \in Nat /\ Len(Order) >= 1
  /\ \A k \in 1 .. Len(Order) : Order[k] \in Files
  /\ \A f \in Files : \E k \in 1 .. Len(Order) : Order[k] = f
<1>1. DOMAIN Order = 1 .. Len(Order) /\ Len(Order) \in Nat /\ \A k \in 1 .. Len(Order) : Order[k] \in Files
  BY InstallationAssumption
<1>2. \E k \in 1 .. Len(Order) : Order[k] = Session
  BY <1>1, InstallationAssumption DEF Launchers
<1> QED BY <1>1, <1>2, InstallationAssumption

\* The processes at rest have the shape of their kind.
LEMMA RestingTypes == NoScript \in Script /\ NoLaunch \in Launch /\ \A v \in Windows : NewGate(v) \in Gate
  BY OrderFacts, InstallationAssumption DEF NoScript, Script, NoLaunch, Launch, Unloaded, Launchers, NewGate, Gate

\* A state in which nothing was installed, or one release, has the right shape.
LEMMA InitType == Init => TypeOK
  BY RestingTypes DEF Init, TypeOK, Absent, Complete

\* Writing forgets the ghosts, and keeps the shape of launchers and gate.
LEMMA DisturbType ==
  ASSUME TypeOK, Disturb
  PROVE  /\ launch' \in [Launches -> Launch] /\ gate' \in Gate
         /\ \A s \in Launches : /\ launch'[s].pc = launch[s].pc /\ launch'[s].n = launch[s].n
                               /\ launch'[s].seen = launch[s].seen /\ launch'[s].code = None
         /\ gate'.ready = FALSE /\ gate'.v = gate.v
<1>1. gate' \in Gate /\ gate'.ready = FALSE /\ gate'.v = gate.v
  BY DEF TypeOK, Disturb, Gate
<1>2. \A l \in Launch : [l EXCEPT !.code = None, !.loaded = Unloaded] \in Launch
  BY DEF Launch, Unloaded
<1>3. \A l \in Launch : LET d == [l EXCEPT !.code = None, !.loaded = Unloaded]
                        IN  d.pc = l.pc /\ d.n = l.n /\ d.seen = l.seen /\ d.code = None
  BY DEF Launch
<1> QED BY <1>1, <1>2, <1>3, Zenon DEF TypeOK, Disturb

\* The end of a script keeps the shape of the scripts.
LEMMA ExitType ==
  ASSUME TypeOK, NEW i \in Installers, NEW code \in {"ok", "failed"}, Exit(i, code)
  PROVE  /\ script' \in [Installers -> Script] /\ flock' \in Installers \cup {None}
         /\ script'[i].pc = "idle" /\ \A j \in Installers \ {i} : script'[j] = script[j]
         /\ flock' = IF flock = i THEN None ELSE flock
  BY RestingTypes DEF TypeOK, Exit, NoScript, Script

(***************************************************************************)
(* What a step that leaves something alone preserves.                       *)
(***************************************************************************)
\* Scripts that stay where they are, over the same files, keep their part.
LEMMA ScriptsKept ==
  ASSUME IInv, UNCHANGED <<disk, manifest, flock>>,
         \A i \in Installers : /\ script'[i].pc = script[i].pc
                               /\ script'[i].v = script[i].v /\ script'[i].n = script[i].n
  PROVE  LockDiscipline' /\ WrittenSoFar' /\ ManifestIsOneVersion'
  BY DEF IInv, LockDiscipline, WrittenSoFar, WrittenAt, ManifestIsOneVersion, Complete

\* Launchers that stay where they are, over the same files, keep theirs.
LEMMA LaunchesKept ==
  ASSUME IInv, UNCHANGED <<disk, manifest, launch>>
  PROVE  LaunchProgress' /\ Undisturbed'
  BY DEF IInv, LaunchProgress, Undisturbed, UndisturbedAt

\* A written file leaves nothing to say about what was verified or called ready.
LEMMA Disturbed ==
  ASSUME IInv, Disturb
  PROVE  LaunchProgress' /\ Undisturbed' /\ ReadyIsCurrent'
<1>1. TypeOK
  BY DEF IInv
<1> QED BY <1>1, DisturbType DEF IInv, LaunchProgress, Undisturbed, ReadyIsCurrent, Ready

\* A gate that does not change its mind still speaks the truth.
LEMMA ReadyKept ==
  ASSUME IInv, UNCHANGED <<disk, manifest, unsafe>>, gate'.ready => gate.ready, gate'.v = gate.v
  PROVE  ReadyIsCurrent'
  BY DEF IInv, ReadyIsCurrent, Ready, Complete

\* A script that ends leaves the others where they are.
LEMMA ExitKeeps ==
  ASSUME IInv, NEW i \in Installers, NEW code \in {"ok", "failed"}, Exit(i, code), UNCHANGED <<disk, manifest>>
  PROVE  LockDiscipline' /\ WrittenSoFar' /\ ManifestIsOneVersion'
<1>1. /\ script'[i].pc = "idle" /\ flock' = IF flock = i THEN None ELSE flock
      /\ \A j \in Installers \ {i} : script'[j] = script[j]
  BY ExitType DEF IInv
<1>2. LockDiscipline'
  BY <1>1, InstallationAssumption DEF IInv, LockDiscipline
<1>3. WrittenSoFar'
  BY <1>1 DEF IInv, WrittenSoFar, WrittenAt, Complete
<1> QED BY <1>2, <1>3 DEF IInv, ManifestIsOneVersion, Complete

(***************************************************************************)
(* The steps of a script.                                                   *)
(***************************************************************************)
\* Another label leaves the scripts of their kind, and the others where they are.
LEMMA GotoType ==
  ASSUME TypeOK, NEW i \in Installers, NEW l \in Script, script' = [script EXCEPT ![i] = l]
  PROVE  /\ script' \in [Installers -> Script] /\ script'[i] = l
         /\ \A j \in Installers \ {i} : script'[j] = script[j]
  BY DEF TypeOK

\* A script that begins holds nothing.
LEMMA BeginKeeps ==
  ASSUME IInv, NEW i \in Installers, NEW v \in Versions \cup {None}, Free(i), Begin(i, v),
         UNCHANGED <<disk, manifest, flock>>
  PROVE  /\ script' \in [Installers -> Script]
         /\ LockDiscipline' /\ WrittenSoFar' /\ ManifestIsOneVersion'
<1> DEFINE l == [pc |-> "lock", v |-> v, n |-> 1, code |-> "none"]
<1>1. l \in Script /\ l.pc = "lock" /\ l.n = 1
  BY OrderFacts DEF Script
<1>0. TypeOK /\ script' = [script EXCEPT ![i] = l]
  BY DEF IInv, Begin
<1> HIDE DEF l
<1>2. script' \in [Installers -> Script] /\ script'[i] = l /\ \A j \in Installers \ {i} : script'[j] = script[j]
  BY <1>0, <1>1, GotoType
<1>3. script[i].pc = "idle"
  BY DEF Free, At
<1>4. LockDiscipline'
  BY <1>1, <1>2, <1>3 DEF IInv, LockDiscipline
<1>5. WrittenSoFar'
  BY <1>1, <1>2 DEF IInv, WrittenSoFar, WrittenAt, Complete
<1> QED BY <1>2, <1>4, <1>5 DEF IInv, ManifestIsOneVersion, Complete

\* A script run by hand takes the lock like any other.
LEMMA RunByHandKeeps == ASSUME IInv, NEW i \in Installers, RunByHand(i) PROVE IInv'
<1>1. PICK v \in Versions \cup {None} : Begin(i, v)
  BY DEF RunByHand
<1>2. script' \in [Installers -> Script] /\ LockDiscipline' /\ WrittenSoFar' /\ ManifestIsOneVersion'
  BY <1>1, BeginKeeps DEF RunByHand
<1>3. LaunchProgress' /\ Undisturbed' /\ ReadyIsCurrent'
  BY LaunchesKept, ReadyKept DEF RunByHand
<1> QED BY <1>2, <1>3 DEF RunByHand, IInv, TypeOK

\* Who takes the free lock is the first to write; who fails ends.
LEMMA TakeLockKeeps == ASSUME IInv, NEW i \in Installers, TakeLock(i) PROVE IInv'
<1>1. LaunchProgress' /\ Undisturbed' /\ ReadyIsCurrent'
  BY LaunchesKept, ReadyKept DEF TakeLock
<1>2. CASE flock # None
  <2>1. Exit(i, "failed")
    BY <1>2 DEF TakeLock
  <2> QED BY <2>1, <1>1, ExitKeeps, ExitType DEF TakeLock, IInv, TypeOK
<1>3. CASE flock = None
  <2> DEFINE l == [script[i] EXCEPT !.pc = "check"]
  <2>1. flock' = i /\ script' = [script EXCEPT ![i] = l] /\ At(i, "lock")
    BY <1>3, InstallationAssumption DEF TakeLock, Goto, Exit
  <2>2. l \in Script /\ l.pc = "check" /\ l.n = script[i].n
    BY DEF IInv, TypeOK, Script
  <2>3. script' \in [Installers -> Script] /\ script'[i] = l /\ \A j \in Installers \ {i} : script'[j] = script[j]
    BY <2>1, <2>2, GotoType DEF IInv
  <2>4. LockDiscipline'
    BY <1>3, <2>1, <2>2, <2>3, InstallationAssumption DEF IInv, LockDiscipline
  <2>5. WrittenSoFar'
    BY <2>1, <2>2, <2>3 DEF IInv, WrittenSoFar, WrittenAt, At, TakeLock, Complete
  <2> QED BY <1>1, <2>1, <2>3, <2>4, <2>5 DEF TakeLock, IInv, TypeOK, ManifestIsOneVersion, Complete
<1> QED BY <1>2, <1>3

\* The script that writes is alone: the others are at rest or before the lock.
LEMMA WriterMoves ==
  ASSUME IInv, NEW i \in Installers, script[i].pc \in Writing, NEW l \in Script, l.pc \in Writing,
         script' = [script EXCEPT ![i] = l], UNCHANGED flock
  PROVE  /\ script' \in [Installers -> Script] /\ script'[i] = l
         /\ LockDiscipline'
         /\ \A j \in Installers \ {i} : WrittenAt(j)'
<1>1. script' \in [Installers -> Script] /\ script'[i] = l /\ \A j \in Installers \ {i} : script'[j] = script[j]
  BY GotoType DEF IInv
<1>2. LockDiscipline'
  BY <1>1 DEF IInv, LockDiscipline
<1>3. ASSUME NEW j \in Installers \ {i} PROVE WrittenAt(j)'
  <2>1. script[j].pc \notin Writing
    BY DEF IInv, LockDiscipline
  <2> QED BY <1>1, <2>1 DEF IInv, WrittenSoFar, WrittenAt
<1> QED BY <1>1, <1>2, <1>3

\* So it may end whatever it has written.
LEMMA WriterExits ==
  ASSUME IInv, NEW i \in Installers, script[i].pc \in Writing, NEW code \in {"ok", "failed"}, Exit(i, code)
  PROVE  LockDiscipline' /\ WrittenSoFar' /\ script' \in [Installers -> Script] /\ flock' \in Installers \cup {None}
<1>1. /\ script' \in [Installers -> Script] /\ flock' \in Installers \cup {None}
      /\ script'[i].pc = "idle" /\ flock' = IF flock = i THEN None ELSE flock
      /\ \A j \in Installers \ {i} : script'[j] = script[j]
  BY ExitType DEF IInv
<1>2. LockDiscipline'
  BY <1>1, InstallationAssumption DEF IInv, LockDiscipline
<1>3. ASSUME NEW j \in Installers PROVE WrittenAt(j)'
  <2>1. CASE j = i
    BY <1>1, <2>1 DEF WrittenAt
  <2>2. CASE j # i
    <3>1. script[j].pc \notin Writing
      BY <2>2 DEF IInv, LockDiscipline
    <3> QED BY <1>1, <2>2, <3>1 DEF IInv, WrittenSoFar, WrittenAt
  <2> QED BY <2>1, <2>2
<1> QED BY <1>1, <1>2, <1>3 DEF WrittenSoFar

\* After the checks nothing is written yet.
LEMMA CheckSourceKeeps == ASSUME IInv, NEW i \in Installers, CheckSource(i) PROVE IInv'
<1> DEFINE l == [script[i] EXCEPT !.pc = IF script[i].v = None THEN "remove" ELSE "stage"]
<1>1. l \in Script /\ l.pc \in {"remove", "stage"} /\ l.n = 1 /\ l.v = script[i].v
  BY DEF IInv, TypeOK, Script, WrittenSoFar, WrittenAt, CheckSource, At
<1>2. l.pc = "stage" => l.v \in Versions
  BY DEF IInv, TypeOK, Script
<1>3. script' = [script EXCEPT ![i] = l] /\ script[i].pc = "check"
  BY DEF CheckSource, Goto, At
<1> HIDE DEF l
<1>4. /\ script' \in [Installers -> Script] /\ script'[i] = l
      /\ LockDiscipline' /\ \A j \in Installers \ {i} : WrittenAt(j)'
  BY <1>1, <1>3, WriterMoves DEF CheckSource
<1>5. WrittenAt(i)'
  BY <1>1, <1>2, <1>4, OrderFacts DEF WrittenAt
<1>6. LaunchProgress' /\ Undisturbed' /\ ReadyIsCurrent'
  BY LaunchesKept, ReadyKept DEF CheckSource
<1> QED BY <1>4, <1>5, <1>6 DEF CheckSource, IInv, TypeOK, WrittenSoFar, ManifestIsOneVersion, Complete

\* Staging replaces no installed file.
LEMMA StageKeeps == ASSUME IInv, NEW i \in Installers, Stage(i) PROVE IInv'
<1> DEFINE l == [script[i] EXCEPT !.pc = "move"]
<1>1. l \in Script /\ l.pc = "move" /\ l.n = script[i].n /\ l.v = script[i].v
  BY DEF IInv, TypeOK, Script
<1>2. script' = [script EXCEPT ![i] = l] /\ script[i].pc = "stage"
  BY DEF Stage, Goto, At
<1> HIDE DEF l
<1>3. /\ script' \in [Installers -> Script] /\ script'[i] = l
      /\ LockDiscipline' /\ \A j \in Installers \ {i} : WrittenAt(j)'
  BY <1>1, <1>2, WriterMoves DEF Stage
<1>4. WrittenAt(i)'
  BY <1>1, <1>2, <1>3 DEF Stage, IInv, WrittenSoFar, WrittenAt
<1>5. LaunchProgress' /\ Undisturbed' /\ ReadyIsCurrent' /\ launch' \in [Launches -> Launch] /\ gate' \in Gate
  BY Disturbed, DisturbType DEF Stage, IInv
<1> QED BY <1>3, <1>4, <1>5 DEF Stage, IInv, TypeOK, WrittenSoFar, ManifestIsOneVersion, Complete

\* A move installs the next file; with the last one all are of one version.
LEMMA MoveKeeps == ASSUME IInv, NEW i \in Installers, Move(i) PROVE IInv'
<1> DEFINE l == [script[i] EXCEPT !.n = @ + 1, !.pc = IF Last(i) THEN "manifest" ELSE "stage"]
           n == script[i].n
           v == script[i].v
<1>0. /\ script[i].pc = "move" /\ v \in Versions /\ n \in 1 .. Len(Order)
      /\ \A k \in 1 .. Len(Order) : k < n => disk[Order[k]] = v
  BY OrderFacts DEF Move, At, IInv, TypeOK, Script, WrittenSoFar, WrittenAt
<1>1. l \in Script /\ l.pc = (IF n = Len(Order) THEN "manifest" ELSE "stage") /\ l.n = n + 1 /\ l.v = v
  <2>1. script[i] \in Script /\ n + 1 \in 1 .. Len(Order) + 1
    BY <1>0, OrderFacts DEF IInv, TypeOK
  <2> HIDE DEF n, v
  <2>2. Last(i) <=> n = Len(Order)
    BY DEF Last, n
  <2>3. l = [script[i] EXCEPT !.n = n + 1, !.pc = IF n = Len(Order) THEN "manifest" ELSE "stage"]
    BY <2>2 DEF n
  <2> HIDE DEF l
  <2>4. l.n = n + 1 /\ l.v = script[i].v /\ l.code = script[i].code /\ l.pc = (IF n = Len(Order) THEN "manifest" ELSE "stage")
    BY <2>1, <2>3 DEF Script
  <2>5. l \in Script
    BY <2>1, <2>3 DEF Script
  <2> QED BY <2>4, <2>5 DEF v
<1>2. script' = [script EXCEPT ![i] = l] /\ disk' = [disk EXCEPT ![Order[n]] = v] /\ Order[n] \in Files
  BY <1>0, OrderFacts DEF Move, File
<1> HIDE DEF l
<1>3. /\ script' \in [Installers -> Script] /\ script'[i] = l
      /\ LockDiscipline' /\ \A j \in Installers \ {i} : WrittenAt(j)'
  BY <1>0, <1>1, <1>2, WriterMoves DEF Move
<1>4. disk' \in [Files -> Versions \cup {None}]
  BY <1>0, <1>2 DEF IInv, TypeOK
<1>5. \A k \in 1 .. Len(Order) : k < n + 1 => disk'[Order[k]] = v
  BY <1>0, <1>2, <1>4, OrderFacts DEF IInv, TypeOK
<1>6. WrittenAt(i)'
  <2>1. CASE n = Len(Order)
    <3>1. \A f \in Files : disk'[f] = v
      BY <1>5, <2>1, OrderFacts
    <3>2. disk' = Complete(v)
      BY <1>4, <3>1 DEF Complete
    <3> QED BY <1>0, <1>1, <1>3, <2>1, <3>2 DEF WrittenAt, Complete
  <2>2. CASE n # Len(Order)
    BY <1>0, <1>1, <1>3, <1>5, <2>2, OrderFacts DEF WrittenAt
  <2> QED BY <2>1, <2>2
<1>7. LaunchProgress' /\ Undisturbed' /\ ReadyIsCurrent' /\ launch' \in [Launches -> Launch] /\ gate' \in Gate
  BY Disturbed, DisturbType DEF Move, IInv
<1> QED BY <1>3, <1>4, <1>6, <1>7 DEF Move, IInv, TypeOK, WrittenSoFar, ManifestIsOneVersion, Complete

\* The manifest is written when all files are of one version.
LEMMA WriteManifestKeeps == ASSUME IInv, NEW i \in Installers, WriteManifest(i) PROVE IInv'
<1> DEFINE l == [script[i] EXCEPT !.pc = "verify"]
<1>1. l \in Script /\ l.pc = "verify" /\ l.v = script[i].v
  BY DEF IInv, TypeOK, Script
<1>2. script' = [script EXCEPT ![i] = l] /\ script[i].pc = "manifest"
  BY DEF WriteManifest, Goto, At
<1>3. disk = Complete(script[i].v) /\ script[i].v \in Versions
  BY <1>2 DEF IInv, WrittenSoFar, WrittenAt
<1> HIDE DEF l
<1>4. /\ script' \in [Installers -> Script] /\ script'[i] = l
      /\ LockDiscipline' /\ \A j \in Installers \ {i} : WrittenAt(j)'
  BY <1>1, <1>2, WriterMoves DEF WriteManifest
<1>5. WrittenAt(i)' /\ ManifestIsOneVersion'
  BY <1>1, <1>3, <1>4 DEF WriteManifest, WrittenAt, ManifestIsOneVersion, Complete
<1>6. LaunchProgress' /\ Undisturbed' /\ ReadyIsCurrent' /\ launch' \in [Launches -> Launch] /\ gate' \in Gate
  BY Disturbed, DisturbType DEF WriteManifest, IInv
<1> QED BY <1>4, <1>5, <1>6 DEF WriteManifest, IInv, TypeOK, WrittenSoFar

\* The release takes no file back: others are past their installation.
LEMMA RemoveFileKeeps == ASSUME IInv, NEW i \in Installers, RemoveFile(i) PROVE IInv'
<1>0. script[i].pc = "remove" /\ script[i].n \in 1 .. Len(Order)
  BY OrderFacts DEF RemoveFile, At, IInv, TypeOK, Script, WrittenSoFar, WrittenAt
<1>1. disk' \in [Files -> Versions \cup {None}]
  BY DEF RemoveFile, IInv, TypeOK
<1>2. LaunchProgress' /\ Undisturbed' /\ ReadyIsCurrent' /\ launch' \in [Launches -> Launch] /\ gate' \in Gate
  BY Disturbed, DisturbType DEF RemoveFile, IInv
<1>3. LockDiscipline' /\ WrittenSoFar' /\ script' \in [Installers -> Script] /\ flock' \in Installers \cup {None}
  <2>1. CASE Last(i)
    BY <1>0, <2>1, WriterExits DEF RemoveFile
  <2>2. CASE ~Last(i)
    <3> DEFINE n == script[i].n
               l == [script[i] EXCEPT !.n = n + 1]
    <3>1. n + 1 \in 1 .. Len(Order) /\ n + 1 \in 1 .. Len(Order) + 1
      BY <1>0, <2>2, OrderFacts DEF Last
    <3>2. script' = [script EXCEPT ![i] = l] /\ UNCHANGED flock
      BY <2>2 DEF RemoveFile
    <3> HIDE DEF n
    <3>3. l \in Script /\ l.pc = "remove" /\ l.n = n + 1
      BY <1>0, <3>1 DEF IInv, TypeOK, Script
    <3> HIDE DEF l
    <3>4. /\ script' \in [Installers -> Script] /\ script'[i] = l
          /\ LockDiscipline' /\ \A j \in Installers \ {i} : WrittenAt(j)'
      BY <1>0, <3>2, <3>3, WriterMoves
    <3>5. WrittenAt(i)'
      BY <3>1, <3>3, <3>4 DEF WrittenAt
    <3> QED BY <3>2, <3>4, <3>5 DEF IInv, TypeOK, WrittenSoFar
  <2> QED BY <2>1, <2>2
<1> QED BY <1>1, <1>2, <1>3 DEF RemoveFile, IInv, TypeOK, ManifestIsOneVersion, Complete

\* Without a manifest nothing is vouched for.
LEMMA RemoveManifestKeeps == ASSUME IInv, NEW i \in Installers, RemoveManifest(i) PROVE IInv'
<1>1. LaunchProgress' /\ Undisturbed' /\ ReadyIsCurrent' /\ launch' \in [Launches -> Launch] /\ gate' \in Gate
  BY Disturbed, DisturbType DEF RemoveManifest, IInv
<1>2. ASSUME NEW j \in Installers PROVE WrittenAt(j)'
  <2>1. script[j].pc # "verify"
    BY DEF RemoveManifest, At, IInv, LockDiscipline
  <2> QED BY <2>1 DEF RemoveManifest, IInv, WrittenSoFar, WrittenAt, Complete
<1> QED BY <1>1, <1>2 DEF RemoveManifest, IInv, TypeOK, WrittenSoFar, LockDiscipline, ManifestIsOneVersion

\* A script that fails, is killed or has verified leaves the files as they are.
LEMMA EndKeeps ==
  ASSUME IInv, NEW i \in Installers, VerifyInstalled(i) \/ Fails(i) \/ Killed(i)
  PROVE  IInv'
<1>1. /\ UNCHANGED <<disk, manifest, Fixed, gate, launch>> /\ litter' \in BOOLEAN
      /\ \E code \in {"ok", "failed"} : Exit(i, code)
  BY DEF VerifyInstalled, Fails, Killed, IInv, TypeOK
<1>2. /\ LockDiscipline' /\ WrittenSoFar' /\ ManifestIsOneVersion'
      /\ script' \in [Installers -> Script] /\ flock' \in Installers \cup {None}
  BY <1>1, ExitKeeps, ExitType DEF IInv
<1>3. LaunchProgress' /\ Undisturbed' /\ ReadyIsCurrent'
  BY <1>1, LaunchesKept, ReadyKept
<1> QED BY <1>1, <1>2, <1>3 DEF IInv, TypeOK

\* So every step of a script preserves the invariant.
LEMMA ScriptStepKeeps == ASSUME IInv, NEW i \in Installers, ScriptStep(i) PROVE IInv'
  BY TakeLockKeeps, CheckSourceKeeps, StageKeeps, MoveKeeps, WriteManifestKeeps, RemoveFileKeeps,
     RemoveManifestKeeps, EndKeeps DEF ScriptStep

(***************************************************************************)
(* The steps of the window.                                                 *)
(***************************************************************************)
\* An answer keeps the window of its version.
LEMMA AnswerFacts ==
  ASSUME TypeOK, NEW r \in BOOLEAN, Answer(r)
  PROVE  gate' \in Gate /\ gate'.v = gate.v /\ gate'.ready = r
  BY DEF TypeOK, Answer, Gate

\* An audit that finds the helper current is right about the files.
LEMMA AuditIsRight ==
  ASSUME Audit = "current"
  PROVE  disk = Complete(gate.v) /\ manifest = disk /\ ~unsafe
  BY DEF Audit

\* An answer that calls the helper ready follows an audit that found it current.
LEMMA AnswerKeeps ==
  ASSUME IInv, NEW r \in BOOLEAN, Answer(r), r => Audit \in {"unmanaged-source", "current"},
         UNCHANGED <<disk, manifest, unsafe>>
  PROVE  gate' \in Gate /\ ReadyIsCurrent'
<1>1. gate' \in Gate /\ gate'.v = gate.v /\ gate'.ready = r
  BY AnswerFacts DEF IInv
<1>2. CASE Audit = "current"
  BY <1>1, <1>2, AuditIsRight DEF ReadyIsCurrent, Ready, Complete
<1>3. CASE Audit = "unmanaged-source"
  <2>1. gate.v = None
    BY <1>3 DEF Audit
  <2> QED BY <1>1, <2>1 DEF ReadyIsCurrent, Ready
<1>4. CASE ~r
  BY <1>1, <1>4 DEF ReadyIsCurrent, Ready
<1> QED BY <1>1, <1>2, <1>3, <1>4

\* A step of the gate that answers nothing.
LEMMA GateWaits ==
  ASSUME IInv, UNCHANGED <<disk, manifest, unsafe>>, gate' \in Gate, gate'.v = gate.v,
         gate'.ready => gate.ready
  PROVE  gate' \in Gate /\ ReadyIsCurrent'
  BY ReadyKept

\* Hence the steps of the gate that start or end no script preserve the invariant.
LEMMA GateKeeps ==
  ASSUME IInv, Ask \/ Decide \/ JobAudit \/ NotAuthorised \/ TimeOver \/ AuditAfter
  PROVE  IInv'
<1>1. UNCHANGED <<Installed, Fixed, flock, script, launch>>
  BY DEF Ask, Decide, JobAudit, NotAuthorised, TimeOver, AuditAfter
<1>2. gate' \in Gate /\ ReadyIsCurrent'
  <2>1. CASE Ask
    <3>1. ASSUME Current, Answer(TRUE) PROVE gate' \in Gate /\ ReadyIsCurrent'
      BY <1>1, <3>1, AnswerKeeps DEF Current
    <3>2. ASSUME gate' = [gate EXCEPT !.pc = "asking", !.ready = FALSE]
          PROVE  gate' \in Gate /\ ReadyIsCurrent'
      BY <1>1, <3>2, GateWaits DEF IInv, TypeOK, Gate
    <3>3. ASSUME Answer(FALSE) PROVE gate' \in Gate /\ ReadyIsCurrent'
      BY <1>1, <3>3, AnswerKeeps
    <3> QED BY <2>1, <3>1, <3>2, <3>3 DEF Ask, BundleRefused
  <2>2. CASE Decide
    <3>1. ASSUME gate' = [gate EXCEPT !.pc = "job", !.busy = TRUE]
          PROVE  gate' \in Gate /\ ReadyIsCurrent'
      BY <1>1, <3>1, GateWaits DEF IInv, TypeOK, Gate
    <3>2. ASSUME Answer(FALSE) PROVE gate' \in Gate /\ ReadyIsCurrent'
      BY <1>1, <3>2, AnswerKeeps
    <3> QED BY <2>2, <3>1, <3>2 DEF Decide
  <2>3. CASE JobAudit
    <3>1. ASSUME Current, Answer(TRUE) PROVE gate' \in Gate /\ ReadyIsCurrent'
      BY <1>1, <3>1, AnswerKeeps DEF Current
    <3>2. ASSUME GateGoto("auth") PROVE gate' \in Gate /\ ReadyIsCurrent'
      BY <1>1, <3>2, GateWaits DEF GateGoto, IInv, TypeOK, Gate
    <3>3. ASSUME Answer(FALSE) PROVE gate' \in Gate /\ ReadyIsCurrent'
      BY <1>1, <3>3, AnswerKeeps
    <3> QED BY <2>3, <3>1, <3>2, <3>3 DEF JobAudit, BundleRefused
  <2>4. CASE NotAuthorised
    BY <1>1, <2>4, AnswerKeeps DEF NotAuthorised
  <2>5. CASE TimeOver
    BY <1>1, <2>5, GateWaits DEF TimeOver, IInv, TypeOK, Gate
  <2>6. CASE AuditAfter
    <3>1. ASSUME Audit = "current", Answer(TRUE) PROVE gate' \in Gate /\ ReadyIsCurrent'
      BY <1>1, <3>1, AnswerKeeps
    <3>2. ASSUME Answer(FALSE) PROVE gate' \in Gate /\ ReadyIsCurrent'
      BY <1>1, <3>2, AnswerKeeps
    <3> QED BY <2>6, <3>1, <3>2 DEF AuditAfter
  <2> QED BY <2>1, <2>2, <2>3, <2>4, <2>5, <2>6
<1>3. LockDiscipline' /\ WrittenSoFar' /\ ManifestIsOneVersion'
  BY <1>1, ScriptsKept
<1>4. LaunchProgress' /\ Undisturbed'
  BY <1>1, LaunchesKept
<1> QED BY <1>1, <1>2, <1>3, <1>4 DEF IInv, TypeOK

\* The window starts a script, which then has to take the lock.
LEMMA AuthorisedKeeps == ASSUME IInv, NEW i \in Installers, Authorised(i) PROVE IInv'
<1>1. gate.v \in Versions \cup {None} /\ gate' \in Gate /\ gate'.v = gate.v /\ gate'.ready = gate.ready
  BY InstallationAssumption DEF IInv, TypeOK, Gate, Authorised
<1>2. script' \in [Installers -> Script] /\ LockDiscipline' /\ WrittenSoFar' /\ ManifestIsOneVersion'
  BY <1>1, BeginKeeps DEF Authorised
<1>3. LaunchProgress' /\ Undisturbed' /\ ReadyIsCurrent'
  BY <1>1, LaunchesKept, ReadyKept DEF Authorised
<1> QED BY <1>1, <1>2, <1>3 DEF Authorised, IInv, TypeOK

\* Only the exit statuses are forgotten.
LEMMA ReapKeeps ==
  ASSUME IInv, Reap, UNCHANGED <<disk, manifest, flock>>
  PROVE  script' \in [Installers -> Script] /\ LockDiscipline' /\ WrittenSoFar' /\ ManifestIsOneVersion'
<1>1. \A l \in Script : LET d == [l EXCEPT !.code = "none"]
                        IN  d \in Script /\ d.pc = l.pc /\ d.v = l.v /\ d.n = l.n
  BY DEF Script
<1>2. script \in [Installers -> Script]
  BY DEF IInv, TypeOK
<1>3. /\ script' \in [Installers -> Script]
      /\ \A i \in Installers : /\ script'[i].pc = script[i].pc
                               /\ script'[i].v = script[i].v /\ script'[i].n = script[i].n
  BY <1>1, <1>2, Zenon DEF Reap
<1> QED BY <1>3, ScriptsKept

\* The exit status is only the reason for another audit.
LEMMA ScriptEndedKeeps == ASSUME IInv, ScriptEnded PROVE IInv'
<1>1. gate' \in Gate /\ ReadyIsCurrent'
  <2>1. ASSUME gate' = [gate EXCEPT !.pc = "audit", !.own = None] PROVE gate' \in Gate /\ ReadyIsCurrent'
    BY <2>1, GateWaits DEF ScriptEnded, IInv, TypeOK, Gate
  <2>2. ASSUME Answer(FALSE) PROVE gate' \in Gate /\ ReadyIsCurrent'
    BY <2>2, AnswerKeeps DEF ScriptEnded
  <2> QED BY <2>1, <2>2 DEF ScriptEnded
<1>2. script' \in [Installers -> Script] /\ LockDiscipline' /\ WrittenSoFar' /\ ManifestIsOneVersion'
  BY ReapKeeps DEF ScriptEnded
<1>3. LaunchProgress' /\ Undisturbed'
  BY LaunchesKept DEF ScriptEnded
<1> QED BY <1>1, <1>2, <1>3 DEF ScriptEnded, IInv, TypeOK

\* A new window has called nothing ready; the script goes on.
LEMMA RestartKeeps == ASSUME IInv, Restart PROVE IInv'
<1>1. gate' \in Gate /\ ~gate'.ready
  BY RestingTypes DEF Restart, NewGate
<1>2. script' \in [Installers -> Script] /\ LockDiscipline' /\ WrittenSoFar' /\ ManifestIsOneVersion'
  BY ReapKeeps DEF Restart
<1>3. LaunchProgress' /\ Undisturbed' /\ ReadyIsCurrent'
  BY <1>1, LaunchesKept DEF Restart, ReadyIsCurrent, Ready
<1> QED BY <1>1, <1>2, <1>3 DEF Restart, IInv, TypeOK

(***************************************************************************)
(* The steps of a launcher.                                                 *)
(***************************************************************************)
\* What the invariant says of one launcher.
ProgressAt(s) ==
  /\ launch[s].pc \in {"manifest", "entries"} => launch[s].n = 1
  /\ launch[s].pc = "files" => launch[s].n <= Len(Order)
  /\ launch[s].pc \in {"entries", "files"} => launch[s].seen # None

\* A launcher that moves only has to keep its own part.
LEMMA StepKeeps ==
  ASSUME IInv, NEW s \in Launches, NEW l \in Launch, Step(s, l),
         ProgressAt(s)', launch'[s].code # None => UndisturbedAt(s)'
  PROVE  IInv'
<1>1. /\ launch' \in [Launches -> Launch] /\ \A t \in Launches \ {s} : launch'[t] = launch[t]
      /\ UNCHANGED <<cast, disk, manifest, litter, unsafe, flock, script, gate>>
  BY DEF Step, IInv, TypeOK
<1>2. LockDiscipline' /\ WrittenSoFar' /\ ManifestIsOneVersion'
  BY <1>1, ScriptsKept
<1>3. ReadyIsCurrent'
  BY <1>1, ReadyKept
<1>4. LaunchProgress'
  BY <1>1 DEF IInv, LaunchProgress, ProgressAt
<1>5. ASSUME NEW t \in Launches, launch'[t].code # None PROVE UndisturbedAt(t)'
  <2>1. CASE t = s
    BY <1>5, <2>1
  <2>2. CASE t # s
    BY <1>1, <1>5, <2>2 DEF IInv, Undisturbed, UndisturbedAt
  <2> QED BY <2>1, <2>2
<1>6. Undisturbed'
  BY <1>5 DEF Undisturbed
<1> QED BY <1>1, <1>2, <1>3, <1>4, <1>6 DEF IInv, TypeOK

\* A launcher that refuses is as if never started.
LEMMA RefuseKeeps ==
  ASSUME IInv, NEW s \in Launches, Refuse(s)
  PROVE  IInv'
<1>1. NoLaunch \in Launch /\ Step(s, NoLaunch)
  BY RestingTypes DEF Refuse
<1>2. launch'[s] = NoLaunch
  BY <1>1 DEF Step, IInv, TypeOK
<1>3. ProgressAt(s)' /\ launch'[s].code = None
  BY <1>2 DEF NoLaunch, ProgressAt
<1> QED BY <1>1, <1>3, StepKeeps

\* What a step makes of its own launcher.
LEMMA StepFacts ==
  ASSUME TypeOK, NEW s \in Launches, NEW l, Step(s, l)
  PROVE  launch'[s] = l /\ UNCHANGED <<disk, manifest>> /\ launch[s] \in Launch
  BY DEF Step, TypeOK

\* The code of a launcher is what lies on disk when it is started.
LEMMA ExecKeeps == ASSUME IInv, NEW s \in Launches, Exec(s) PROVE IInv'
<1>1. PICK f \in Launchers : disk[f] # None /\ Step(s, [NoLaunch EXCEPT !.pc = "manifest", !.of = f, !.code = disk[f]])
  BY DEF Exec
<1> DEFINE l == [NoLaunch EXCEPT !.pc = "manifest", !.of = f, !.code = disk[f]]
<1>2. /\ l \in Launch /\ l.pc = "manifest" /\ l.n = 1 /\ ~l.again /\ l.of = f /\ l.code = disk[f]
  BY RestingTypes DEF IInv, TypeOK, NoLaunch, Launch, Launchers
<1>3. Step(s, l)
  BY <1>1
<1> HIDE DEF l
<1>4. launch'[s] = l /\ UNCHANGED <<disk, manifest>>
  BY <1>3, StepFacts DEF IInv
<1>5. ProgressAt(s)' /\ UndisturbedAt(s)'
  BY <1>2, <1>4 DEF ProgressAt, UndisturbedAt
<1> QED BY <1>2, <1>3, <1>5, StepKeeps

\* The manifest a launcher reads is that of the disk.
LEMMA ReadManifestKeeps == ASSUME IInv, NEW s \in Launches, ReadManifest(s) PROVE IInv'
<1> DEFINE l == [launch[s] EXCEPT !.seen = manifest, !.pc = "entries"]
<1>1. CASE ~(unsafe \/ manifest = None)
  <2>1. /\ l \in Launch /\ l.pc = "entries" /\ l.n = launch[s].n /\ l.again = launch[s].again /\ l.of = launch[s].of
        /\ l.code = launch[s].code /\ l.seen = manifest
    BY DEF IInv, TypeOK, Launch
  <2>2. Step(s, l)
    BY <1>1 DEF ReadManifest
  <2> HIDE DEF l
  <2>3. launch'[s] = l /\ UNCHANGED <<disk, manifest>>
    BY <2>2, StepFacts DEF IInv
  <2>4. ProgressAt(s)'
    BY <1>1, <2>1, <2>3 DEF ReadManifest, LaunchAt, IInv, LaunchProgress, ProgressAt
  <2>5. l.code # None => UndisturbedAt(s)'
    BY <2>1, <2>3 DEF ReadManifest, IInv, Undisturbed, UndisturbedAt
  <2> QED BY <2>1, <2>2, <2>3, <2>4, <2>5, StepKeeps
<1>2. CASE unsafe \/ manifest = None
  BY <1>2, RefuseKeeps DEF ReadManifest
<1> QED BY <1>1, <1>2

\* So is the one it reads the second time.
LEMMA VerifyAgainKeeps == ASSUME IInv, NEW s \in Launches, VerifyAgain(s) PROVE IInv'
<1> DEFINE l == [launch[s] EXCEPT !.seen = manifest, !.pc = "files"]
<1>1. CASE ~(unsafe \/ manifest = None)
  <2>1. /\ l \in Launch /\ l.pc = "files" /\ l.n = launch[s].n /\ l.again = launch[s].again /\ l.of = launch[s].of
        /\ l.code = launch[s].code /\ l.seen = manifest /\ l.loaded = launch[s].loaded
    BY DEF IInv, TypeOK, Launch
  <2>2. Step(s, l) /\ launch[s].pc = "manifest" /\ launch[s].again
    BY <1>1 DEF VerifyAgain, LaunchAt
  <2> HIDE DEF l
  <2>3. launch'[s] = l /\ UNCHANGED <<disk, manifest>>
    BY <2>2, StepFacts DEF IInv
  <2>4. l.n = 1
    BY <2>1, <2>2 DEF IInv, LaunchProgress
  <2>5. ProgressAt(s)'
    BY <1>1, <2>1, <2>3, <2>4, OrderFacts DEF ProgressAt
  <2>6. l.code # None => UndisturbedAt(s)'
    BY <2>1, <2>2, <2>3, <2>4 DEF IInv, Undisturbed, UndisturbedAt
  <2> QED BY <2>1, <2>2, <2>3, <2>5, <2>6, StepKeeps
<1>2. CASE unsafe \/ manifest = None
  BY <1>2, RefuseKeeps DEF VerifyAgain
<1> QED BY <1>1, <1>2

\* Looking for other files reads no checksum.
LEMMA CheckEntriesKeeps == ASSUME IInv, NEW s \in Launches, CheckEntries(s) PROVE IInv'
<1> DEFINE l == [launch[s] EXCEPT !.pc = "files"]
<1>1. CASE ~(Temporary \/ \E f \in Modules : disk[f] = None)
  <2>1. /\ l \in Launch /\ l.pc = "files" /\ l.n = launch[s].n /\ l.again = launch[s].again /\ l.of = launch[s].of
        /\ l.code = launch[s].code /\ l.seen = launch[s].seen /\ l.loaded = launch[s].loaded
    BY DEF IInv, TypeOK, Launch
  <2>2. Step(s, l) /\ launch[s].pc = "entries"
    BY <1>1 DEF CheckEntries, LaunchAt
  <2> HIDE DEF l
  <2>3. launch'[s] = l /\ UNCHANGED <<disk, manifest>>
    BY <2>2, StepFacts DEF IInv
  <2>4. l.n = 1 /\ l.seen # None
    BY <2>1, <2>2 DEF IInv, LaunchProgress
  <2>5. ProgressAt(s)'
    BY <2>1, <2>3, <2>4, OrderFacts DEF ProgressAt
  <2>6. l.code # None => UndisturbedAt(s)'
    BY <2>1, <2>2, <2>3, <2>4 DEF IInv, Undisturbed, UndisturbedAt
  <2> QED BY <2>1, <2>2, <2>3, <2>5, <2>6, StepKeeps
<1>2. CASE Temporary \/ \E f \in Modules : disk[f] = None
  BY <1>2, RefuseKeeps DEF CheckEntries
<1> QED BY <1>1, <1>2

\* A file that matches is on disk as the manifest says; after the last one all are.
LEMMA CheckFileKeeps == ASSUME IInv, NEW s \in Launches, CheckFile(s) PROVE IInv'
<1> DEFINE n == launch[s].n
           end == n = Len(Order)
           l == [launch[s] EXCEPT !.n = n + 1, !.pc = IF end THEN Verified(s) ELSE "files"]
<1>0. launch[s].pc = "files" /\ n \in 1 .. Len(Order) /\ launch[s] \in Launch /\ launch[s].seen # None
  BY OrderFacts DEF CheckFile, LaunchAt, IInv, TypeOK, Launch, LaunchProgress
<1>1. CASE disk[Order[n]] = launch[s].seen[Order[n]]
  <2>1. Step(s, l)
    BY <1>0, <1>1 DEF CheckFile
  <2>2. n + 1 \in 1 .. Len(Order) + 1 /\ (~end => n + 1 <= Len(Order))
    BY <1>0, OrderFacts
  <2>3. Verified(s) = IF launch[s].again THEN "run" ELSE "import"
    BY DEF Verified
  <2>4. /\ l.n = n + 1 /\ l.again = launch[s].again /\ l.of = launch[s].of
        /\ l.code = launch[s].code /\ l.seen = launch[s].seen /\ l.loaded = launch[s].loaded
        /\ l.pc = (IF end THEN Verified(s) ELSE "files")
    BY <1>0 DEF Launch
  <2> HIDE DEF n, end
  <2>5. l \in Launch
    BY <1>0, <2>2, <2>3 DEF Launch
  <2> HIDE DEF l
  <2>6. launch'[s] = l /\ UNCHANGED <<disk, manifest>>
    BY <2>1, StepFacts DEF IInv
  <2>7. ProgressAt(s)'
    BY <1>0, <2>2, <2>3, <2>4, <2>6 DEF ProgressAt
  <2>8. l.code # None => UndisturbedAt(s)'
    <3> SUFFICES ASSUME l.code # None PROVE UndisturbedAt(s)'
      OBVIOUS
    <3>1. UndisturbedAt(s)
      BY <2>4 DEF IInv, Undisturbed
    <3>2. \A k \in 1 .. Len(Order) : k < n + 1 => disk[Order[k]] = l.seen[Order[k]]
      BY <1>0, <1>1, <2>4, <3>1, OrderFacts DEF UndisturbedAt, n
    <3>3. CASE ~end
      BY <1>0, <2>3, <2>4, <2>6, <3>1, <3>2, <3>3 DEF UndisturbedAt
    <3>4. CASE end
      <4>1. l.seen = manifest /\ manifest # None
        BY <1>0, <2>4, <3>1 DEF UndisturbedAt
      <4>2. manifest \in [Files -> Versions \cup {None}] /\ disk \in [Files -> Versions \cup {None}]
        BY <4>1 DEF IInv, TypeOK
      <4>3. \A f \in Files : disk[f] = manifest[f]
        BY <3>2, <3>4, <4>1, OrderFacts DEF end
      <4>4. disk = manifest
        BY <4>2, <4>3
      <4> QED BY <1>0, <2>3, <2>4, <2>6, <3>1, <3>4, <4>1, <4>4 DEF UndisturbedAt
    <3> QED BY <3>3, <3>4
  <2> QED BY <2>1, <2>5, <2>6, <2>7, <2>8, StepKeeps
<1>2. CASE disk[Order[n]] # launch[s].seen[Order[n]]
  BY <1>2, RefuseKeeps DEF CheckFile
<1> QED BY <1>1, <1>2

\* What is imported is on disk, and was verified.
LEMMA ImportKeeps == ASSUME IInv, NEW s \in Launches, Import(s) PROVE IInv'
<1> DEFINE new == IF launch[s].code = None THEN Unloaded ELSE [f \in Modules |-> disk[f]]
           to == IF launch[s].of = Session THEN "run" ELSE "manifest"
           l == [launch[s] EXCEPT !.again = TRUE, !.n = 1, !.seen = None, !.loaded = new, !.pc = to]
<1>1. CASE ~\E f \in Modules : disk[f] = None
  <2>1. Step(s, l) /\ launch[s].pc = "import"
    BY <1>1 DEF Import, LaunchAt
  <2>2. new \in [Modules -> Versions \cup {None}] /\ to \in {"run", "manifest"}
    BY InstallationAssumption DEF IInv, TypeOK, Unloaded
  <2>3. launch[s].code # None => new = [f \in Modules |-> disk[f]]
    OBVIOUS
  <2> HIDE DEF new, to
  <2>0. launch[s] \in Launch /\ 1 \in 1 .. Len(Order) + 1
    BY OrderFacts DEF IInv, TypeOK
  <2>4. /\ l \in Launch /\ l.again /\ l.n = 1 /\ l.seen = None /\ l.loaded = new /\ l.pc = to
        /\ l.code = launch[s].code /\ l.of = launch[s].of
    <3>1. l \in Launch
      BY <2>2, <2>0 DEF Launch
    <3>2. l.again /\ l.n = 1 /\ l.seen = None
      BY <2>0 DEF Launch
    <3>3. l.loaded = new /\ l.pc = to /\ l.code = launch[s].code /\ l.of = launch[s].of
      BY <2>0 DEF Launch
    <3> QED BY <3>1, <3>2, <3>3
  <2> HIDE DEF l
  <2>5. launch'[s] = l /\ UNCHANGED <<disk, manifest>>
    BY <2>1, StepFacts DEF IInv
  <2>6. ProgressAt(s)'
    BY <2>2, <2>4, <2>5 DEF ProgressAt
  <2>7. l.code # None => UndisturbedAt(s)'
    BY <2>1, <2>2, <2>3, <2>4, <2>5 DEF IInv, Undisturbed, UndisturbedAt
  <2> QED BY <2>1, <2>4, <2>5, <2>6, <2>7, StepKeeps
<1>2. CASE \E f \in Modules : disk[f] = None
  BY <1>2, RefuseKeeps DEF Import
<1> QED BY <1>1, <1>2

\* A process that ends is as if never started.
LEMMA FinishKeeps == ASSUME IInv, NEW s \in Launches, Finish(s) PROVE IInv'
  BY RefuseKeeps DEF Finish

-----------------------------------------------------------------------------
(***************************************************************************)
(* The theorems.                                                            *)
(***************************************************************************)
\* The invariant holds at first,
LEMMA InitInv == Init => IInv
<1> SUFFICES ASSUME Init PROVE IInv
  OBVIOUS
<1>1. TypeOK
  BY InitType
<1>2. LockDiscipline /\ WrittenSoFar
  BY OrderFacts, InstallationAssumption DEF Init, LockDiscipline, WrittenSoFar, WrittenAt, At, NoScript
<1>3. LaunchProgress /\ Undisturbed
  BY DEF Init, LaunchProgress, Undisturbed, NoLaunch
<1>4. ManifestIsOneVersion
  BY DEF Init, ManifestIsOneVersion
<1>5. ReadyIsCurrent
  BY DEF Init, ReadyIsCurrent, Ready, NewGate
<1> QED BY <1>1, <1>2, <1>3, <1>4, <1>5 DEF IInv

\* every step preserves it,
LEMMA NextKeeps == ASSUME IInv, [Next]_vars PROVE IInv'
<1>1. ASSUME NEW i \in Installers, RunByHand(i) \/ ScriptStep(i) \/ Killed(i) \/ Authorised(i) PROVE IInv'
  BY <1>1, RunByHandKeeps, ScriptStepKeeps, EndKeeps, AuthorisedKeeps
<1>2. ASSUME Ask \/ Decide \/ JobStep \/ TimeOver \/ Restart PROVE IInv'
  BY <1>2, GateKeeps, ScriptEndedKeeps, RestartKeeps DEF JobStep
<1>3. ASSUME NEW s \in Launches, \/ Exec(s) \/ ReadManifest(s) \/ CheckEntries(s) \/ CheckFile(s) \/ Import(s)
                                 \/ VerifyAgain(s) \/ Finish(s)
      PROVE  IInv'
  BY <1>3, ExecKeeps, ReadManifestKeeps, CheckEntriesKeeps, CheckFileKeeps, ImportKeeps, VerifyAgainKeeps, FinishKeeps
<1>4. ASSUME UNCHANGED vars PROVE IInv'
  BY <1>4 DEF vars, IInv, TypeOK, LockDiscipline, WrittenSoFar, WrittenAt, LaunchProgress, ManifestIsOneVersion,
              Undisturbed, UndisturbedAt, ReadyIsCurrent, Ready, Complete
<1> QED BY <1>1, <1>2, <1>3, <1>4 DEF Next

\* so it always holds.
LEMMA Inductive == Spec => []IInv
  BY InitInv, NextKeeps, PTL DEF Spec

\* For all scripts, launchers and windows the state keeps its shape.
THEOREM TypeCorrect == Spec => []TypeOK
<1>1. IInv => TypeOK
  BY DEF IInv
<1> QED BY <1>1, Inductive, PTL

\* For any number of concurrent, failing and killed scripts the manifest only ever
\* vouches for one release: the launchers run no half-replaced helper.
THEOREM ManifestOfOneVersion == Spec => []ManifestIsOneVersion
<1>1. IInv => ManifestIsOneVersion
  BY DEF IInv
<1> QED BY <1>1, Inductive, PTL

\* What an undisturbed launcher runs is what the manifest vouches for.
LEMMA RunsOne == IInv => RunsOneVersion
<1> SUFFICES ASSUME IInv, NEW s \in Launches, LaunchAt(s, "run"), launch[s].code # None
             PROVE  \E v \in Versions : /\ launch[s].code = v /\ launch[s].loaded = [f \in Modules |-> v]
                                        /\ Ready => v = gate.v
  BY DEF RunsOneVersion
<1>1. /\ disk[launch[s].of] = launch[s].code /\ manifest # None /\ disk = manifest
      /\ launch[s].loaded = [f \in Modules |-> disk[f]]
  BY DEF IInv, Undisturbed, UndisturbedAt, LaunchAt
<1>2. PICK v \in Versions : manifest = Complete(v)
  BY <1>1 DEF IInv, ManifestIsOneVersion
<1>3. launch[s].of \in Files /\ Modules \subseteq Files
  BY InstallationAssumption DEF IInv, TypeOK, Launch, Launchers
<1>4. launch[s].code = v /\ launch[s].loaded = [f \in Modules |-> v]
  BY <1>1, <1>2, <1>3 DEF Complete
<1>5. Ready => v = gate.v
  BY <1>1, <1>2, <1>3 DEF IInv, ReadyIsCurrent, Complete
<1> QED BY <1>4, <1>5

\* The code of a launcher and the modules it imports are of one release, and of the
\* window's if its gate has said so, unless something was written meanwhile.
THEOREM RunsOneRelease == Spec => []RunsOneVersion
  BY RunsOne, Inductive, PTL

\* Before its last step an installation has written every file and the manifest.
LEMMA OkStep == ASSUME IInv, [Next]_vars, NEW i \in Installers, At(i, "verify"), script'[i].code = "ok"
                PROVE  disk' = Complete(script[i].v) /\ manifest' = disk'
<1>1. disk = Complete(script[i].v) /\ manifest = disk
  BY DEF At, IInv, WrittenSoFar, WrittenAt
<1>2. \A j \in Installers \ {i} : script[j].pc \notin Writing
  BY DEF At, IInv, LockDiscipline
<1>3. ASSUME NEW j \in Installers, ScriptStep(j) PROVE UNCHANGED <<disk, manifest>>
  BY <1>2, <1>3 DEF ScriptStep, At, TakeLock, CheckSource, Stage, Move, WriteManifest, VerifyInstalled,
                   RemoveFile, RemoveManifest, Fails
<1>4. UNCHANGED <<disk, manifest>>
  BY <1>3 DEF Next, vars, RunByHand, Killed, Authorised, Ask, Decide, JobStep, JobAudit, NotAuthorised, ScriptEnded,
              AuditAfter, TimeOver, Restart, Exec, ReadManifest, CheckEntries, CheckFile, Import, VerifyAgain, Finish,
              Step, Refuse
<1> QED BY <1>1, <1>4

\* A script that ends an installation with exit status 0 leaves all files and the
\* manifest at its version, though it compared only the launchers with their source.
THEOREM OkMeansInstalled == Spec => OkIsInstalled
<1>1. IInv /\ [Next]_vars =>
        [\A i \in Installers : (At(i, "verify") /\ script'[i].code = "ok")
           => disk' = Complete(script[i].v) /\ manifest' = disk']_vars
  BY OkStep
<1> QED BY <1>1, Inductive, PTL DEF Spec, OkIsInstalled

\* No step of the system makes such a launcher refuse.
LEMMA ReadyStep ==
  ASSUME IInv, [Next]_vars, NEW s \in Launches, Ready, launch[s].code # None, flock = None, ~litter,
         launch[s].pc \notin {"idle", "run"}
  PROVE  launch'[s].pc # "idle"
<1>1. /\ disk = Complete(gate.v) /\ manifest = disk /\ ~unsafe /\ gate.v # None
      /\ manifest # None /\ \A f \in Files : disk[f] # None
  <2>1. disk = Complete(gate.v) /\ manifest = disk /\ ~unsafe /\ gate.v # None
    BY DEF IInv, ReadyIsCurrent, Ready
  <2>2. disk \in [Files -> Versions \cup {None}]
    BY DEF IInv, TypeOK
  <2> QED BY <2>1, <2>2, InstallationAssumption DEF Complete
<1>2. ~Temporary /\ \A f \in Modules : disk[f] # None
  <2>1. \A i \in Installers : script[i].pc \notin Writing
    BY InstallationAssumption DEF IInv, LockDiscipline
  <2> QED BY <1>1, <2>1, InstallationAssumption DEF Temporary, At
<1>3. UndisturbedAt(s) /\ launch[s] \in Launch /\ launch \in [Launches -> Launch]
  BY DEF IInv, Undisturbed, TypeOK
<1>4. ASSUME NEW t \in Launches \ {s}, NEW l, Step(t, l) PROVE launch'[s] = launch[s]
  BY <1>3, <1>4 DEF Step
<1>5. ASSUME NEW l, Step(s, l) PROVE launch'[s] = l
  BY <1>3, <1>5 DEF Step
<1>6. ASSUME NEW t \in Launches,
             \/ Exec(t) \/ ReadManifest(t) \/ CheckEntries(t) \/ CheckFile(t) \/ Import(t)
             \/ VerifyAgain(t) \/ Finish(t)
      PROVE  launch'[s].pc # "idle"
  <2>1. CASE t # s
    <3>1. launch'[s] = launch[s]
      BY <1>4, <1>6, <2>1 DEF Exec, ReadManifest, CheckEntries, CheckFile, Import, VerifyAgain, Finish, Refuse
    <3> QED BY <3>1
  <2>2. CASE t = s
    <3>1. CASE ReadManifest(s)
      <4>1. Step(s, [launch[s] EXCEPT !.seen = manifest, !.pc = "entries"])
        BY <1>1, <3>1 DEF ReadManifest
      <4> QED BY <1>3, <1>5, <4>1 DEF Launch
    <3>2. CASE VerifyAgain(s)
      <4>1. Step(s, [launch[s] EXCEPT !.seen = manifest, !.pc = "files"])
        BY <1>1, <3>2 DEF VerifyAgain
      <4> QED BY <1>3, <1>5, <4>1 DEF Launch
    <3>3. CASE CheckEntries(s)
      <4>1. Step(s, [launch[s] EXCEPT !.pc = "files"])
        BY <1>2, <3>3 DEF CheckEntries
      <4> QED BY <1>3, <1>5, <4>1 DEF Launch
    <3>4. CASE CheckFile(s)
      <4> DEFINE to == IF launch[s].n = Len(Order) THEN Verified(s) ELSE launch[s].pc
      <4>1. launch[s].seen = manifest /\ launch[s].pc = "files"
        BY <1>3, <3>4 DEF CheckFile, LaunchAt, UndisturbedAt
      <4>2. Step(s, [launch[s] EXCEPT !.n = @ + 1, !.pc = to])
        BY <1>1, <3>4, <4>1 DEF CheckFile
      <4>3. to # "idle"
        BY <4>1 DEF Verified
      <4> HIDE DEF to
      <4> QED BY <1>3, <1>5, <4>2, <4>3 DEF Launch
    <3>5. CASE Import(s)
      <4> DEFINE new == IF launch[s].code = None THEN Unloaded ELSE [f \in Modules |-> disk[f]]
                 to == IF launch[s].of = Session THEN "run" ELSE "manifest"
      <4>1. Step(s, [launch[s] EXCEPT !.again = TRUE, !.n = 1, !.seen = None, !.loaded = new, !.pc = to])
        BY <1>2, <3>5 DEF Import
      <4>2. to # "idle"
        OBVIOUS
      <4> HIDE DEF to, new
      <4> QED BY <1>3, <1>5, <4>1, <4>2 DEF Launch
    <3> QED BY <1>6, <2>2, <3>1, <3>2, <3>3, <3>4, <3>5 DEF Exec, Finish, LaunchAt
  <2> QED BY <2>1, <2>2
<1>7. ASSUME Disturb PROVE launch'[s].pc = launch[s].pc
  BY <1>7, DisturbType DEF IInv
<1>8. ASSUME NEW i \in Installers, RunByHand(i) \/ ScriptStep(i) \/ Killed(i) \/ Authorised(i)
      PROVE  launch'[s].pc = launch[s].pc
  BY <1>7, <1>8 DEF RunByHand, ScriptStep, Killed, Authorised, TakeLock, CheckSource, Stage, Move, WriteManifest,
                   VerifyInstalled, RemoveFile, RemoveManifest, Fails
<1>9. ASSUME Ask \/ Decide \/ JobStep \/ TimeOver \/ Restart \/ UNCHANGED vars
      PROVE  launch'[s] = launch[s]
  BY <1>9 DEF Ask, Decide, JobStep, JobAudit, NotAuthorised, ScriptEnded, AuditAfter, TimeOver, Restart, vars
<1> QED BY <1>6, <1>8, <1>9 DEF Next

\* A launcher of a helper the gate has called ready is not refused, unless a script
\* writes or has left a file behind.
THEOREM ReadyLaunches == Spec => ReadyStarts
<1>1. IInv /\ [Next]_vars =>
        [\A s \in Launches : Refused(s) => ~(Ready /\ launch[s].code # None /\ flock = None /\ ~litter)]_vars
  BY ReadyStep DEF Refused
<1> QED BY <1>1, Inductive, PTL DEF Spec, ReadyStarts
=============================================================================
