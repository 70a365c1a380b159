--------------------------- MODULE ProtectedSession ---------------------------
(***************************************************************************)
(* One GUI process in kill switch mode: the handlers of gui.py, the jobs    *)
(* they hand to worker threads (the orchestrators of                        *)
(* kill_switch_connection.py and kill_switch_recovery.py, the verified      *)
(* emergency reset, the startup reconciliation), the crash-recovery record, *)
(* and the host they act on: the firewall table and NetworkManager's one    *)
(* PIA profile.  The process may be killed at any moment and started again. *)
(*                                                                         *)
(* A job is a sequence of calls, one step each; every call may raise, with  *)
(* or without its effect.  A handler of the GUI thread is one step and ends *)
(* with the update_connection_status(force=True) the code ends it with.     *)
(* The helper is the one of module FirewallHelper: its calls are atomic and *)
(* its answers describe their own effect.                                   *)
(***************************************************************************)
EXTENDS Naturals, Sequences, FiniteSets

CONSTANTS
  Workers,          \* the threads of the worker pool
  Interfaces,       \* physical interfaces
  Endpoints,        \* WireGuard endpoints, one for each region
  Uuids,            \* NetworkManager profile UUIDs
  None,
  JobsInDialogs     \* may a timer start a job while a modal dialog is open

VARIABLES
  fw,     \* the route the firewall table allows, or None when it is absent
  nm,     \* NetworkManager's PIA profile
  disk,   \* settings and crash-recovery record: they survive a crash
  gui,    \* the fields of the main window
  job     \* the job of every worker

vars == <<fw, nm, disk, gui, job>>

Route == [ifs : SUBSET Interfaces, eps : SUBSET Endpoints]
RouteTo(i, e) == [ifs |-> {i}, eps |-> {e}]
Record == [uuid : Uuids, route : Route]
RecordOf(u, r) == [uuid |-> u, route |-> r]
OrNone(S) == S \cup {None}

ASSUME SessionAssumption ==
  /\ None \notin Uuids \cup Endpoints \cup Interfaces \cup Route \cup Record
  /\ JobsInDialogs \in BOOLEAN

Profile == [uuid : OrNone(Uuids), ep : OrNone(Endpoints), up : BOOLEAN]
NoProfile == [uuid |-> None, ep |-> None, up |-> FALSE]

Disk == [record : OrNone(Record), marker : BOOLEAN,
         saved : OrNone(Uuids), enabled : BOOLEAN]

\* st, err: the cached helper status and whether an error overrides it
Gui == [st : {"none", "absent", "active"}, err : BOOLEAN, baseline : BOOLEAN,
        plan : OrNone(Route), last : BOOLEAN, scheduled : BOOLEAN,
        dialog : {"none", "reset", "switch", "recovery", "quit"}, busy : BOOLEAN, started : BOOLEAN]

NewGui == [st |-> "none", err |-> FALSE, baseline |-> FALSE, plan |-> None,
           last |-> FALSE, scheduled |-> FALSE, dialog |-> "none",
           busy |-> FALSE, started |-> FALSE]

Dispositions ==
  {"no-recovery", "clear-stale-record", "adopt-connected", "adopt-blocking",
   "refuse-unowned-lock", "refuse-route-mismatch", "refuse-profile-mismatch",
   "refuse-inconsistent-host"}

Kinds == {"connect", "reconnect", "switch", "disconnect", "disable", "enable",
          "reset", "recheck", "reconcile"}
Pcs == {"prepare", "enable", "lock", "path", "stop", "probe", "retarget", "vpn",
        "post", "rollback", "save", "look", "release", "discard", "collect", "done"}

Update == [field : {"ifs"}, to : SUBSET Interfaces] \cup [field : {"eps"}, to : SUBSET Endpoints]

\* route: the route the outcome carries back; target: where a switch goes;
\* gone: would an error now say that the old VPN is disconnected; quit: the
\* window was told to quit when this is done
Job == [kind : Kinds \cup {"none"}, pc : Pcs, uuid : OrNone(Uuids),
        route : OrNone(Route), target : OrNone(Route), base : BOOLEAN,
        gone : BOOLEAN, todo : Seq(Update), st : {"none", "absent", "active"}, err : BOOLEAN,
        ok : BOOLEAN, quit : BOOLEAN, out : OrNone(Dispositions)]

NoJob == [kind |-> "none", pc |-> "done", uuid |-> None, route |-> None,
          target |-> None, base |-> FALSE, gone |-> FALSE, todo |-> <<>>,
          st |-> "none", err |-> FALSE, ok |-> FALSE, quit |-> FALSE, out |-> None]

TypeOK ==
  /\ fw \in OrNone(Route)
  /\ nm \in Profile
  /\ disk \in Disk
  /\ gui \in Gui
  /\ job \in [Workers -> Job]

Init ==
  /\ fw = None /\ nm = NoProfile
  /\ disk \in {[record |-> None, marker |-> FALSE, saved |-> None, enabled |-> e] :
                 e \in BOOLEAN}
  /\ gui = NewGui
  /\ job = [w \in Workers |-> NoJob]

MutStatus(f) == IF f = None THEN "disabled" ELSE "active"
Status(f) == IF f = None THEN "absent" ELSE "active"
Down(n) == [n EXCEPT !.up = FALSE]
Mentioned(u) == \/ u \in {nm.uuid, disk.saved}
                \/ disk.record # None /\ disk.record.uuid = u
                \/ \E w \in Workers : job[w].uuid = u

(***************************************************************************)
(* CrashRecoveryVerifier.evaluate for a structurally verified table.        *)
(***************************************************************************)
Evaluate(rec, f, n) ==
  CASE f = None /\ n.up -> "refuse-inconsistent-host"
    [] f = None /\ ~n.up /\ rec = None -> "no-recovery"
    [] f = None /\ ~n.up /\ rec # None -> "clear-stale-record"
    [] f # None /\ rec = None -> "refuse-unowned-lock"
    [] f # None /\ rec # None /\ rec.route # f -> "refuse-route-mismatch"
    [] f # None /\ rec # None /\ rec.route = f /\ n.up /\ n.uuid # rec.uuid
         -> "refuse-profile-mismatch"
    [] OTHER -> IF n.up THEN "adopt-connected" ELSE "adopt-blocking"

Adopted(out) == out \in {"adopt-connected", "adopt-blocking"}
Clean(out) == out \in {"no-recovery", "clear-stale-record"}

(***************************************************************************)
(* Steps of a job.                                                          *)
(***************************************************************************)
At(w, pc) == job[w].kind # "none" /\ job[w].pc = pc
Is(w, kinds) == job[w].kind \in kinds
Put(w, j) == job' = [job EXCEPT ![w] = j]
Goto(w, pc) == Put(w, [job[w] EXCEPT !.pc = pc])

\* where a raised exception leads: the reset, the recheck collect no status
Raise(w) ==
  IF Is(w, {"reset", "recheck"})
  THEN Put(w, [job[w] EXCEPT !.pc = "done", !.ok = FALSE])
  ELSE Goto(w, "collect")
Return(w, j) == Put(w, [j EXCEPT !.pc = "done", !.ok = TRUE])

\* baseline, configuration, physical interface, connection plan
PrepareConnect(w) ==
  /\ At(w, "prepare") /\ Is(w, {"connect"})
  /\ \/ \E i \in Interfaces, e \in Endpoints :
          Put(w, [job[w] EXCEPT !.pc = "enable", !.base = TRUE, !.route = RouteTo(i, e)])
     \/ \E b \in BOOLEAN : Put(w, [job[w] EXCEPT !.pc = "collect", !.base = b])
  /\ UNCHANGED <<fw, nm, disk, gui>>

\* the candidate is prepared while the old VPN still works
PrepareSwitch(w) ==
  /\ At(w, "prepare") /\ Is(w, {"switch"})
  /\ \/ \E e \in Endpoints \ job[w].route.eps :
          Put(w, [job[w] EXCEPT !.pc = "lock", !.target = [ifs |-> {}, eps |-> {e}]])
     \/ Raise(w)
  /\ UNCHANGED <<fw, nm, disk, gui>>

EnableFirewall(w) ==
  /\ At(w, "enable")
  /\ \/ fw' = job[w].route /\ Goto(w, "vpn")
     \/ fw' \in {fw, job[w].route} /\ Raise(w)
  /\ UNCHANGED <<nm, disk, gui>>

VerifyLock(w) ==
  /\ At(w, "lock")
  /\ \/ fw # None /\ Goto(w, IF Is(w, {"reconnect", "switch"}) THEN "path" ELSE "stop")
     \/ Raise(w)
  /\ UNCHANGED <<fw, nm, disk, gui>>

Set(field, to) == [field |-> field, to |-> to]

\* the preflight of a reconnect: VPN down and the ordinary path blocked
ReconnectPath(w) ==
  /\ At(w, "path") /\ Is(w, {"reconnect"})
  /\ \/ /\ ~nm.up
        /\ Put(w, [job[w] EXCEPT !.pc = "retarget",
                     !.todo = <<Set("ifs", job[w].route.ifs), Set("eps", job[w].route.eps)>>])
     \/ Raise(w)
  /\ UNCHANGED <<fw, nm, disk, gui>>

SwitchPath(w) ==
  /\ At(w, "path") /\ Is(w, {"switch"})
  /\ \/ nm.up /\ Goto(w, "stop")
     \/ Raise(w)
  /\ UNCHANGED <<fw, nm, disk, gui>>

AfterStop(w) ==
  [job[w] EXCEPT !.pc = IF Is(w, {"reset"}) THEN "release" ELSE "probe",
                 !.gone = Is(w, {"switch"})]

\* stop the VPN and verify that NetworkManager reports it down
StopVpn(w) ==
  /\ At(w, "stop")
  /\ \/ nm' = Down(nm) /\ Put(w, AfterStop(w))
     \/ nm' \in {nm, Down(nm)} /\ Raise(w)
  /\ UNCHANGED <<fw, disk, gui>>

\* the ordinary path is proven blocked; a switch then resolves its new route
ProbeBlocked(w) ==
  /\ At(w, "probe")
  /\ \/ Is(w, {"disconnect", "disable"}) /\ Goto(w, "release")
     \/ Is(w, {"switch"}) /\ \E i \in job[w].route.ifs :
          LET new == [job[w].target EXCEPT !.ifs = {i}] old == job[w].route
          IN  Put(w, [job[w] EXCEPT !.pc = "retarget", !.target = new, !.todo =
                << Set("ifs", old.ifs \cup new.ifs), Set("eps", old.eps \cup new.eps),
                   Set("eps", new.eps), Set("ifs", new.ifs) >>])
     \/ Raise(w)
  /\ UNCHANGED <<fw, nm, disk, gui>>

\* one set_interfaces or set_endpoints call of _retarget_firewall, whose
\* status has to be active; after the last one the status is read once more
Retarget(w) ==
  /\ At(w, "retarget") /\ job[w].todo # <<>>
  /\ LET u == Head(job[w].todo)
         new == IF fw = None THEN None ELSE [fw EXCEPT ![u.field] = u.to]
     IN  \/ fw # None /\ fw' = new /\ Put(w, [job[w] EXCEPT !.todo = Tail(@)])
         \/ fw' \in {fw, new} /\ Raise(w)
  /\ UNCHANGED <<nm, disk, gui>>

Retargeted(w) ==
  /\ At(w, "retarget") /\ job[w].todo = <<>>
  /\ \/ fw # None /\ Goto(w, "vpn")
     \/ Raise(w)
  /\ UNCHANGED <<fw, nm, disk, gui>>

\* network_manager.connect: down and delete the old profile, import, modify,
\* up, verify; it may raise between any two of these
TheEndpoint(r) == CHOOSE e \in Endpoints : e \in r.eps

StartVpn(w) ==
  /\ At(w, "vpn") /\ Is(w, {"connect", "switch"})
  /\ LET failed == Goto(w, IF Is(w, {"switch"}) THEN "rollback" ELSE "collect")
         to == IF Is(w, {"switch"}) THEN job[w].target ELSE job[w].route
     IN
       \/ nm' \in {nm, Down(nm), NoProfile} /\ failed
       \/ \E u \in {v \in Uuids : ~Mentioned(v)} :
            LET new == [uuid |-> u, ep |-> TheEndpoint(to), up |-> TRUE] IN
            \/ nm' = new /\ Put(w, [job[w] EXCEPT !.pc = "post", !.uuid = u])
            \/ nm' \in {Down(new), new} /\ failed
  /\ UNCHANGED <<fw, disk, gui>>

\* network_manager.reconnect: up the profile asked for, when it still exists
ReconnectVpn(w) ==
  /\ At(w, "vpn") /\ Is(w, {"reconnect"})
  /\ \/ /\ ~nm.up /\ nm.uuid = job[w].uuid
        /\ \/ nm' = [nm EXCEPT !.up = TRUE] /\ Goto(w, "post")
           \/ nm' = [nm EXCEPT !.up = TRUE] /\ Goto(w, "rollback")
     \/ nm' = nm /\ Goto(w, "rollback")
  /\ UNCHANGED <<fw, disk, gui>>

PostCheck(w) ==
  /\ At(w, "post")
  /\ \/ /\ nm.up /\ fw # None
        /\ Put(w, [job[w] EXCEPT !.pc = "save", !.gone = FALSE,
                     !.route = IF Is(w, {"switch"}) THEN job[w].target ELSE @])
     \/ Goto(w, "rollback")
  /\ UNCHANGED <<fw, nm, disk, gui>>

MutRollbackReleases(w) ==
  /\ At(w, "rollback")
  /\ nm' \in {nm, Down(nm)}
  /\ fw' = None
  /\ Goto(w, "collect")
  /\ UNCHANGED <<disk, gui>>

\* the unverified VPN is stopped where possible, the firewall stays
Rollback(w) ==
  /\ At(w, "rollback")
  /\ nm' \in {nm, Down(nm)}
  /\ Goto(w, "collect")
  /\ UNCHANGED <<fw, disk, gui>>

\* CrashRecoveryStore.save: os.replace, then a directory fsync that may raise
MutSaveBlind(w) ==
  /\ At(w, "save")
  /\ disk' = [disk EXCEPT !.record =
       IF @ = None THEN RecordOf(job[w].uuid, job[w].route) ELSE @]
  /\ Return(w, [job[w] EXCEPT !.st = "active"])
  /\ UNCHANGED <<fw, nm, gui>>

SaveRecord(w) ==
  /\ At(w, "save")
  /\ LET saved == [disk EXCEPT !.record = RecordOf(job[w].uuid, job[w].route)]
     IN  \/ disk' = saved /\ Return(w, [job[w] EXCEPT !.st = "active"])
         \/ disk' \in {disk, saved} /\ Raise(w)
  /\ UNCHANGED <<fw, nm, gui>>

\* session.disable or client.emergency_reset, verified disabled
ReleaseFirewall(w) ==
  /\ At(w, "release")
  /\ \/ /\ fw' = None
        /\ IF Is(w, {"reset"}) THEN Goto(w, "discard")
           ELSE Return(w, [job[w] EXCEPT !.st = "absent"])
     \/ fw' \in {fw, None} /\ Raise(w)
  /\ UNCHANGED <<nm, disk, gui>>

\* discard_untrusted_after_verified_release, in the worker of the reset
DiscardRecord(w) ==
  /\ At(w, "discard")
  /\ LET gone == [disk EXCEPT !.record = None]
     IN  \/ disk' = gone /\ Return(w, [job[w] EXCEPT !.st = "absent"])
         \/ disk' \in {disk, gone} /\ Raise(w)
  /\ UNCHANGED <<fw, nm, gui>>

\* the disable job looks whether there is anything to release
LookBeforeDisable(w) ==
  /\ At(w, "look") /\ Is(w, {"disable"})
  /\ \/ fw = None /\ Return(w, [job[w] EXCEPT !.st = "absent"])
     \/ fw # None /\ job[w].base /\ Goto(w, "lock")
     \/ Raise(w)
  /\ UNCHANGED <<fw, nm, disk, gui>>

LookBeforeEnable(w) ==
  /\ At(w, "look") /\ Is(w, {"enable"})
  /\ \/ fw = None /\ ~nm.up /\ Return(w, [job[w] EXCEPT !.st = "absent"])
     \/ Raise(w)
  /\ UNCHANGED <<fw, nm, disk, gui>>

Recheck(w) ==
  /\ At(w, "look") /\ Is(w, {"recheck"})
  /\ \/ Return(w, [job[w] EXCEPT !.st = Status(fw)])
     \/ Raise(w)
  /\ UNCHANGED <<fw, nm, disk, gui>>

\* Both states are read twice and have to agree, so they held together.
Reconcile(w) ==
  /\ At(w, "look") /\ Is(w, {"reconcile"})
  /\ \/ Return(w, [job[w] EXCEPT !.st = Status(fw), !.route = fw,
                     !.out = Evaluate(disk.record, fw, nm),
                     !.uuid = IF disk.record = None THEN None ELSE disk.record.uuid])
     \/ Raise(w)
  /\ UNCHANGED <<fw, nm, disk, gui>>

\* a failed job reads the status, and most of them whether the VPN is up
MutCollectKeepsRoute(w) ==
  /\ At(w, "collect")
  /\ \E e \in BOOLEAN :
       /\ Is(w, {"reconnect", "switch"}) /\ nm.up => e
       /\ Put(w, [job[w] EXCEPT !.pc = "done", !.ok = FALSE, !.st = Status(fw), !.err = e])
  /\ UNCHANGED <<fw, nm, disk, gui>>

Collect(w) ==
  /\ At(w, "collect")
  /\ \E st \in {"none", Status(fw)}, e \in BOOLEAN :
       /\ Is(w, {"reconnect", "switch"}) /\ nm.up => e
       /\ Is(w, {"connect"}) /\ nm.up /\ st = "active" => e
       /\ Is(w, {"disconnect", "disable", "enable", "reconcile"}) /\ st # "none" => ~e
       /\ Put(w, [job[w] EXCEPT !.pc = "done", !.ok = FALSE, !.st = st, !.err = e,
                    !.route = IF job[w].gone THEN None ELSE @])
  /\ UNCHANGED <<fw, nm, disk, gui>>

JobStep(w) ==
  \/ PrepareConnect(w) \/ PrepareSwitch(w) \/ EnableFirewall(w) \/ VerifyLock(w)
  \/ ReconnectPath(w) \/ SwitchPath(w) \/ StopVpn(w) \/ ProbeBlocked(w)
  \/ Retarget(w) \/ Retargeted(w) \/ StartVpn(w) \/ ReconnectVpn(w)
  \/ PostCheck(w) \/ Rollback(w) \/ SaveRecord(w) \/ ReleaseFirewall(w)
  \/ DiscardRecord(w) \/ LookBeforeDisable(w) \/ LookBeforeEnable(w)
  \/ Recheck(w) \/ Reconcile(w) \/ Collect(w)

(***************************************************************************)
(* The GUI thread.                                                          *)
(***************************************************************************)
\* _disconnected_kill_switch_may_block, asked while the VPN is down
MayBlock(g, d) ==
  /\ d.enabled
  /\ \/ g.err \/ g.st = "active"
     \/ g.st = "none" /\ (d.marker \/ d.record # None)

HasContext(g, d) == d.saved # None /\ g.baseline /\ g.plan # None

\* update_connection_status on window g and files d.  A loss seen on the way
\* schedules one protected reconnect and saves a record for the blocking phase.
LossSeen(g, d) == /\ g.last /\ ~nm.up /\ ~g.busy /\ ~g.scheduled
                  /\ MayBlock(g, d)

BlockingRecords(g, d) ==
  IF d.saved = None \/ g.plan = None THEN {d}
  ELSE {d, [d EXCEPT !.record = RecordOf(d.saved, g.plan)]}

Refresh(g, d) ==
  \/ gui' = g /\ disk' = d
  \/ ~LossSeen(g, d) /\ gui' = [g EXCEPT !.last = nm.up] /\ disk' = d
  \/ /\ LossSeen(g, d)
     /\ gui' = [g EXCEPT !.last = nm.up, !.scheduled = TRUE]
     /\ disk' \in BlockingRecords(g, d)

\* _clear_crash_recovery_record_after_safe_release on files d
ClearedRecords(d) ==
  {d, [d EXCEPT !.record = None], [d EXCEPT !.record = None, !.marker = FALSE]}

(***************************************************************************)
(* What the window shows: derive_kill_switch_view_state on the snapshot of  *)
(* the preference, the VPN as last read and the cached helper status.       *)
(***************************************************************************)
Mode(enabled, vpn, present, error) ==
  CASE error                -> "error"
    [] ~error /\ ~enabled   -> IF present THEN "error" ELSE IF vpn THEN "vpn_only" ELSE "ready"
    [] ~error /\ enabled /\ present  -> IF vpn THEN "active" ELSE "blocking"
    [] ~error /\ enabled /\ ~present -> IF vpn THEN "error" ELSE "armed"

Guaranteed(mode) == mode \in {"active", "blocking"}

\* with the feature off the status is not asked for at all
Snapshot(g, d) ==
  Mode(d.enabled, g.last, d.enabled /\ g.st = "active", d.enabled /\ (g.err \/ g.st = "none"))

MutViewMode(g, d) ==
  IF d.enabled /\ ~g.last /\ g.st = "none" /\ ~g.err
  THEN Mode(TRUE, FALSE, FALSE, FALSE)
  ELSE Snapshot(g, d)

\* a window that never asked, without a hint of a crash, is not in error
ViewMode(g, d) ==
  IF d.enabled /\ ~g.last /\ g.st = "none" /\ ~g.err /\ ~d.marker /\ d.record = None
  THEN Mode(TRUE, FALSE, FALSE, FALSE)
  ELSE Snapshot(g, d)

TimersRun == gui.dialog = "none" \/ JobsInDialogs  \* the timers that start jobs
UserActs == gui.dialog = "none"

Start(kind, pc, base, route) ==
  \E w \in Workers :
    /\ job[w].kind = "none"
    /\ Put(w, [NoJob EXCEPT !.kind = kind, !.pc = pc, !.base = base, !.route = route,
                            !.uuid = IF kind = "reconnect" THEN disk.saved ELSE None])

\* the 3 s poll, which rests while an intentional disconnect runs; it ticks behind
\* dialogs, where the mutant misses it
MutPoll ==
  /\ UserActs /\ \A w \in Workers : job[w].kind # "disconnect"
  /\ Refresh(gui, disk)
  /\ UNCHANGED <<fw, nm, job>>

Poll ==
  /\ \A w \in Workers : job[w].kind # "disconnect"
  /\ Refresh(gui, disk)
  /\ UNCHANGED <<fw, nm, job>>

MutReconnectStarts(g) ==
  /\ ~nm.up /\ HasContext(g, disk)
  /\ gui' = [g EXCEPT !.busy = TRUE]
  /\ Start("reconnect", "lock", g.baseline, g.plan)
  /\ UNCHANGED disk

\* _start_protected_reconnect on window g, once it is known not to be busy
ReconnectStarts(g) ==
  /\ ~g.busy /\ ~nm.up /\ HasContext(g, disk)
  /\ gui' = [g EXCEPT !.busy = TRUE]
  /\ Start("reconnect", "lock", g.baseline, g.plan)
  /\ UNCHANGED disk

\* the 600 ms timer: everything was decided before, so all is checked again
ReconnectTimer ==
  LET g == [gui EXCEPT !.scheduled = FALSE] IN
  /\ gui.scheduled /\ TimersRun
  /\ \/ disk.enabled /\ ReconnectStarts(g)
     \/ ~g.busy /\ disk.enabled /\ nm.up /\ Refresh([g EXCEPT !.last = TRUE], disk)
                                          /\ UNCHANGED job
     \/ gui' = g /\ UNCHANGED <<disk, job>>   \* busy, unknown or without context
  /\ UNCHANGED <<fw, nm>>

\* the window is gone: by a kill, or in good order
Exit(d) ==
  /\ gui' = NewGui /\ disk' = d
  /\ job' = [w \in Workers |-> NoJob]
  /\ UNCHANGED <<fw, nm>>

StartQuitting(kind, pc, base, route) ==
  \E w \in Workers :
    /\ job[w].kind = "none"
    /\ Put(w, [NoJob EXCEPT !.kind = kind, !.pc = pc, !.base = base, !.route = route, !.quit = TRUE])

\* request_quit: without a tunnel the window goes at once, or asks the helper first
\* whether a lock may be left; the mutant takes a status nobody asked for as absent
MutQuitsAtOnce == ~nm.up /\ ~(disk.enabled /\ (gui.err \/ gui.st = "active"))
QuitsAtOnce == ~nm.up /\ ~MayBlock(gui, disk)

ClickQuit ==
  /\ UserActs /\ ~gui.busy
  /\ \/ QuitsAtOnce /\ Exit(disk)
     \/ /\ ~nm.up /\ MayBlock(gui, disk)
        /\ gui' = [gui EXCEPT !.busy = TRUE] /\ StartQuitting("recheck", "look", FALSE, None)
        /\ UNCHANGED <<fw, nm, disk>>
     \/ /\ nm.up /\ disk.enabled
        /\ gui' = [gui EXCEPT !.dialog = "quit"] /\ UNCHANGED <<fw, nm, disk, job>>

\* with the preference on the tunnel cannot be left behind, only disconnected first
ConfirmQuit ==
  LET g == [gui EXCEPT !.dialog = "none"] IN
  /\ gui.dialog = "quit"
  /\ \/ /\ ~gui.busy /\ gui.baseline
        /\ gui' = [g EXCEPT !.busy = TRUE]
        /\ StartQuitting("disconnect", "lock", TRUE, gui.plan)
     \/ gui' = g /\ UNCHANGED job   \* cancelled or refused
  /\ UNCHANGED <<fw, nm, disk>>

\* the main button or the tray while the lock may block: reconnect or recheck
ClickReconnect ==
  /\ UserActs /\ ~gui.busy /\ ~nm.up /\ MayBlock(gui, disk)
  /\ ReconnectStarts(gui)
  /\ UNCHANGED <<fw, nm>>

ClickRecheck ==
  /\ UserActs /\ ~gui.busy /\ ~nm.up /\ MayBlock(gui, disk)
  /\ Start("recheck", "look", FALSE, None)
  /\ gui' = [gui EXCEPT !.busy = TRUE]
  /\ UNCHANGED <<fw, nm, disk>>

MutClickConnect ==
  /\ UserActs /\ ~gui.busy /\ ~nm.up /\ disk.enabled /\ ~MayBlock(gui, disk)
  /\ gui' = [gui EXCEPT !.busy = TRUE]
  /\ Start("connect", "prepare", FALSE, None)
  /\ UNCHANGED <<fw, nm, disk>>

ClickConnect ==
  /\ UserActs /\ ~gui.busy /\ ~nm.up /\ disk.enabled /\ ~MayBlock(gui, disk)
  /\ gui' = [gui EXCEPT !.busy = TRUE]
  /\ disk' = [disk EXCEPT !.marker = TRUE]
  /\ Start("connect", "prepare", FALSE, None)
  /\ UNCHANGED <<fw, nm>>

\* choosing another region while connected asks for confirmation first;
\* _switch_protected_region does not look at the busy flag again
ClickSwitch ==
  /\ UserActs /\ ~gui.busy /\ nm.up /\ disk.enabled
  /\ gui' = [gui EXCEPT !.dialog = "switch"]
  /\ UNCHANGED <<fw, nm, disk, job>>

ConfirmSwitch ==
  /\ gui.dialog = "switch"
  /\ LET g == [gui EXCEPT !.dialog = "none"] IN
     \/ /\ HasContext(g, disk)
        /\ gui' = [g EXCEPT !.busy = TRUE]
        /\ Start("switch", "prepare", TRUE, g.plan)
     \/ gui' = g /\ UNCHANGED job
  /\ UNCHANGED <<fw, nm, disk>>

ClickDisconnect ==
  /\ UserActs /\ ~gui.busy /\ nm.up /\ disk.enabled /\ gui.baseline
  /\ gui' = [gui EXCEPT !.busy = TRUE]
  /\ Start("disconnect", "lock", TRUE, gui.plan)
  /\ UNCHANGED <<fw, nm, disk>>

ClickPreference ==
  /\ UserActs /\ ~gui.busy /\ ~nm.up
  /\ gui' = [gui EXCEPT !.busy = TRUE]
  /\ IF disk.enabled THEN Start("disable", "look", gui.baseline, gui.plan)
                     ELSE Start("enable", "look", FALSE, None)
  /\ UNCHANGED <<fw, nm, disk>>

\* the busy flag is read before the confirmation and set after it
ClickReset ==
  /\ UserActs /\ ~gui.busy /\ ~nm.up /\ gui.st = "active"
  /\ gui' = [gui EXCEPT !.dialog = "reset"]
  /\ UNCHANGED <<fw, nm, disk, job>>

ConfirmReset ==
  /\ gui.dialog = "reset"
  /\ LET g == [gui EXCEPT !.dialog = "none"] IN
     \/ gui' = [g EXCEPT !.busy = TRUE] /\ Start("reset", "stop", FALSE, None)
     \/ gui' = g /\ UNCHANGED job
  /\ UNCHANGED <<fw, nm, disk>>

AnswerRecoveryFailure ==
  /\ gui.dialog = "recovery"
  /\ gui' \in { [gui EXCEPT !.dialog = "none"],
                 [gui EXCEPT !.dialog = "none", !.started = FALSE],
                 [gui EXCEPT !.dialog = IF gui.busy THEN "none" ELSE "reset"] }
  /\ UNCHANGED <<fw, nm, disk, job>>

\* the start-up timer fires once, and is not repeated when it finds a job
ReconcileAtStartup ==
  /\ ~gui.started /\ TimersRun
  /\ IF ~gui.busy /\ (disk.marker \/ disk.record # None)
     THEN /\ gui' = [gui EXCEPT !.started = TRUE, !.busy = TRUE]
          /\ Start("reconcile", "look", FALSE, None)
     ELSE gui' = [gui EXCEPT !.started = TRUE] /\ UNCHANGED job
  /\ UNCHANGED <<fw, nm, disk>>

(***************************************************************************)
(* The success and failure slots of a finished job.                         *)
(***************************************************************************)
Finished(w, kind, ok) == At(w, "done") /\ job[w].kind = kind /\ job[w].ok = ok
Taken(w) == Put(w, NoJob) /\ UNCHANGED <<fw, nm>>
MutIdle(w) == [gui EXCEPT !.busy = job[w].kind = "recheck"]
Idle(w) == [gui EXCEPT !.busy = FALSE]

\* what the slots show of the status the job brought back
Shown(w) == [Idle(w) EXCEPT !.st = job[w].st, !.err = job[w].err]
Protected(w) == [Shown(w) EXCEPT !.baseline = TRUE, !.plan = job[w].route, !.last = TRUE]
Released(w) == [Shown(w) EXCEPT !.baseline = FALSE, !.plan = None, !.last = FALSE]

\* _show_startup_recovery_failure offers to try again or to reset
RecoveryFailure(w) == [Shown(w) EXCEPT !.err = TRUE, !.dialog = "recovery"]

Connected(w) ==
  /\ \E kind \in {"connect", "reconnect", "switch"} : Finished(w, kind, TRUE)
  /\ Refresh(Protected(w), [disk EXCEPT !.saved = job[w].uuid])
  /\ Taken(w)

ConnectFailed(w) ==
  /\ Finished(w, "connect", FALSE)
  /\ Refresh([Shown(w) EXCEPT !.baseline = job[w].base, !.plan = job[w].route], disk)
  /\ Taken(w)

ReconnectFailed(w) ==
  /\ Finished(w, "reconnect", FALSE)
  /\ Refresh([Shown(w) EXCEPT !.plan = job[w].route, !.last = FALSE], disk)
  /\ Taken(w)

\* a VPN verified down invalidates the remembered profile
SwitchFailed(w) ==
  LET g == [Shown(w) EXCEPT !.plan = job[w].route] IN
  /\ Finished(w, "switch", FALSE)
  /\ \/ nm.up /\ Refresh([g EXCEPT !.last = TRUE], disk)
     \/ ~nm.up /\ Refresh([g EXCEPT !.last = FALSE], [disk EXCEPT !.saved = None])
     \/ Refresh(g, disk)
  /\ Taken(w)

\* the lock is verified absent: what remembers it is cleared, and a quit goes on
Unlocked(w) ==
  \E d \in ClearedRecords([disk EXCEPT !.saved = None]) :
    \/ job[w].quit /\ Exit(d)
    \/ ~job[w].quit /\ Refresh(Released(w), d) /\ Taken(w)

Disconnected(w) ==
  /\ Finished(w, "disconnect", TRUE)
  /\ Unlocked(w)

DisconnectFailed(w) ==
  /\ Finished(w, "disconnect", FALSE)
  /\ \/ ~nm.up /\ Refresh(Shown(w), [disk EXCEPT !.saved = None])
     \/ Refresh(Shown(w), disk)
  /\ Taken(w)

\* the remembered profile stays in the settings
PreferenceDisabled(w) ==
  /\ Finished(w, "disable", TRUE)
  /\ \E d \in ClearedRecords([disk EXCEPT !.enabled = FALSE]) :
       Refresh([Released(w) EXCEPT !.last = gui.last], d)
  /\ Taken(w)

PreferenceDisableFailed(w) ==
  /\ Finished(w, "disable", FALSE)
  /\ Refresh(Shown(w), [disk EXCEPT !.enabled = TRUE])
  /\ Taken(w)

PreferenceEnabled(w) ==
  /\ Finished(w, "enable", TRUE)
  /\ Refresh(Shown(w), [disk EXCEPT !.enabled = TRUE, !.marker = FALSE])
  /\ Taken(w)

PreferenceEnableFailed(w) ==
  /\ Finished(w, "enable", FALSE)
  /\ IF job[w].st = "active"
     THEN Refresh(Shown(w), [disk EXCEPT !.enabled = TRUE])
     ELSE Refresh([Idle(w) EXCEPT !.st = "none", !.err = FALSE],
                  [disk EXCEPT !.enabled = FALSE])
  /\ Taken(w)

ResetDone(w) ==
  /\ Finished(w, "reset", TRUE)
  /\ Refresh(Released(w), [disk EXCEPT !.marker = FALSE, !.saved = None])
  /\ Taken(w)

StatusUnknown(w) ==
  /\ Finished(w, "reset", FALSE) \/ Finished(w, "recheck", FALSE)
  /\ Refresh([Idle(w) EXCEPT !.err = TRUE], disk)
  /\ Taken(w)

Rechecked(w) ==
  /\ Finished(w, "recheck", TRUE)
  /\ \/ job[w].st = "active" /\ Refresh(Shown(w), disk) /\ Taken(w)
     \/ job[w].st = "absent" /\ Unlocked(w)

\* The session is retained and asked once more; only an unchanged status lets
\* the record be cleared or rotated.
Reconciled(w) ==
  LET out == job[w].out
      rec == IF Adopted(out) THEN RecordOf(job[w].uuid, job[w].route)
             ELSE IF out = "clear-stale-record" THEN None ELSE disk.record
      d == [disk EXCEPT !.record = rec]
  IN
  /\ Finished(w, "reconcile", TRUE)
  /\ fw = job[w].route
  /\ \/ Clean(out) /\ Refresh(Released(w), [d EXCEPT !.marker = FALSE, !.saved = None])
     \/ Adopted(out) /\ Refresh([Protected(w) EXCEPT !.last = out = "adopt-connected"],
                          [d EXCEPT !.marker = TRUE, !.enabled = TRUE, !.saved = job[w].uuid])
     \/ ~Clean(out) /\ ~Adopted(out)
          /\ Refresh(RecoveryFailure(w),
                     [d EXCEPT !.enabled = @ \/ job[w].st = "active"])
  /\ Taken(w)

\* the session ended, the status changed, or the record could not be written
HandoffFailed(w) ==
  LET out == job[w].out
      rec == IF Adopted(out) THEN RecordOf(job[w].uuid, job[w].route)
             ELSE IF out = "clear-stale-record" THEN None ELSE disk.record
  IN
  /\ Finished(w, "reconcile", TRUE)
  /\ \E d \in {disk, [disk EXCEPT !.record = rec]} :
       Refresh(RecoveryFailure(w), d)
  /\ Taken(w)

ReconcileFailed(w) ==
  /\ Finished(w, "reconcile", FALSE)
  /\ Refresh(RecoveryFailure(w), disk)
  /\ Taken(w)

Slot(w) ==
  \/ Connected(w) \/ ConnectFailed(w) \/ ReconnectFailed(w) \/ SwitchFailed(w)
  \/ Disconnected(w) \/ DisconnectFailed(w) \/ PreferenceDisabled(w)
  \/ PreferenceDisableFailed(w) \/ PreferenceEnabled(w) \/ PreferenceEnableFailed(w)
  \/ ResetDone(w) \/ StatusUnknown(w) \/ Rechecked(w) \/ Reconciled(w)
  \/ HandoffFailed(w) \/ ReconcileFailed(w)

(***************************************************************************)
(* The environment.                                                         *)
(***************************************************************************)
TunnelLost == nm.up /\ nm' = Down(nm) /\ UNCHANGED <<fw, disk, gui, job>>

\* the process is killed at any moment: the next start finds the disk
Crash == Exit(disk)

User ==
  \/ ClickReconnect \/ ClickRecheck \/ ClickConnect \/ ClickSwitch \/ ConfirmSwitch
  \/ ClickDisconnect \/ ClickPreference \/ ClickReset \/ ConfirmReset
  \/ AnswerRecoveryFailure \/ ClickQuit \/ ConfirmQuit

Step ==
  \/ \E w \in Workers : JobStep(w) \/ Slot(w)
  \/ Poll \/ ReconnectTimer \/ ReconcileAtStartup \/ User \/ TunnelLost

Next == Step \/ Crash

Spec == Init /\ [][Next]_vars

\* worker threads run to their end, queued slots are delivered, and the poll gets an
\* answer of NetworkManager now and then; nobody has to click
Fairness == WF_vars(Poll) /\ \A w \in Workers : WF_vars(JobStep(w)) /\ WF_vars(Slot(w))

\* a crash would end the wait of the window, so this process is never killed
UninterruptedSpec == Init /\ [][Step]_vars /\ Fairness

(***************************************************************************)
(* Properties.                                                              *)
(***************************************************************************)
\* The busy flag of the window is a mutex: it is set exactly while one worker
\* holds a job, and never do two jobs act on the host together.
OneJobAtATime ==
  /\ \A v, w \in Workers : job[v].kind # "none" /\ job[w].kind # "none" => v = w
  /\ gui.busy <=> \E w \in Workers : job[w].kind # "none"

\* Whenever the firewall table is installed, the disk says so: a crash at any
\* moment leaves a marker or a record that makes the next start look.
ArmedIsRemembered == fw # None => disk.marker \/ disk.record # None

\* Between jobs, a status the window shows without an error is the state of
\* the table, on every success and every failure path; and the route it keeps for
\* a later reconnect or switch is the one the table holds: a job that failed half
\* way either kept it or gave it up.
StatusIsExact ==
  ~gui.busy /\ ~gui.err =>
    /\ gui.st = "active" => fw # None
    /\ gui.st = "absent" => fw = None
    /\ gui.st = "active" /\ gui.plan # None => fw = gui.plan

\* What the window shows between jobs is true of the host: it guarantees
\* protection only over an installed table, and it never shows a state without
\* a firewall, because the preference is off or nothing was asked yet, while a
\* table blocks the host.
ViewIsHonest ==
  ~gui.busy =>
    LET mode == ViewMode(gui, disk) IN
      /\ Guaranteed(mode) => fw # None
      /\ mode \in {"ready", "armed", "vpn_only"} => fw = None

\* Once a connection is reported, a crash is survivable: record, table and
\* active profile agree, so the next start would adopt the connection. And a start
\* adopts only what it verified: the plan it takes over is the table's, and an
\* active VPN is the recorded profile.
ConnectedIsAdoptable ==
  \A w \in Workers :
    Connected(w) /\ nm.up => Evaluate(disk.record, fw, nm) = "adopt-connected"
AdoptsExactly ==
  \A w \in Workers : Reconciled(w) /\ Adopted(job[w].out) =>
    /\ gui'.plan = fw /\ disk'.marker
    /\ nm.up => nm.uuid = disk'.saved
RecoveryIsExact == [][ConnectedIsAdoptable /\ AdoptsExactly]_vars

\* A window that quits in good order, at once or after a check or a disconnect it was
\* told to quit after, leaves a host without lock and tunnel: nobody would be there
\* to lift the one or to watch the other.
QuitsAfter(w) == job[w].quit /\ (Disconnected(w) \/ Rechecked(w)) /\ gui' = NewGui
Quits == \/ UserActs /\ ~gui.busy /\ QuitsAtOnce /\ Exit(disk)
         \/ \E w \in Workers : QuitsAfter(w)
QuitLeavesNothing == [][Quits => fw = None /\ ~nm.up]_vars

\* The table is locked before a tunnel comes up, no failure path unlocks it,
\* and it is released only on request and with the tunnel down.
FC == INSTANCE FailClosed WITH
  lock <- fw # None, tunnel <- nm.up,
  asked <- \E w \in Workers : job[w].kind \in {"disconnect", "disable", "reset"}
StaysClosed == FC!Spec

\* Every job the window waits for is answered: it never stays busy for ever.
BusyEnds == gui.busy ~> ~gui.busy

\* A lost tunnel does not stay shown as an active connection, wherever the window was
\* when it broke: in a job that then reports success, behind a dialog, or before a
\* reconnect that is already announced.
ShownActive == ViewMode(gui, disk) = "active"
LossIsShown == ShownActive /\ ~nm.up ~> ~ShownActive \/ nm.up

\* What the docstring of run_verified_emergency_reset says: the reset never
\* removes the firewall while NetworkManager reports the VPN as active.
ResetReleases ==
  \A w \in Workers : ReleaseFirewall(w) /\ job[w].kind = "reset" => ~nm.up
ResetOnlyVpnDown == [][ResetReleases]_vars

\* What the connection design says: the endpoint of the running tunnel is in
\* the allowlist of the table whenever protection is shown as active.
TunnelReachesServer ==
  ~gui.busy /\ ~gui.err /\ gui.st = "active" /\ nm.up => nm.ep \in fw.eps
=============================================================================
