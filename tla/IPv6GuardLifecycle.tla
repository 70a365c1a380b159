------------------------- MODULE IPv6GuardLifecycle -------------------------
(***************************************************************************)
(* The ordinary VPN, with the kill switch off: IPv6GuardLifecycle's four    *)
(* transactions (connect, disconnect, release after a loss, start-up check) *)
(* as the worker jobs gui.py hands them to, and the handlers that start     *)
(* them and take their outcome.  The guard is a table of its own that       *)
(* blocks native IPv6; the helper's calls on it are atomic.                 *)
(*                                                                         *)
(* A transaction is a sequence of calls, each of which may raise with or    *)
(* without its effect; the kill switch table stays absent throughout.       *)
(***************************************************************************)
EXTENDS Naturals

CONSTANTS
  Workers,               \* the threads of the worker pool
  ConnectDuringRelease   \* may the user connect while a release job is running

ASSUME GuardAssumption == ConnectDuringRelease \in BOOLEAN

VARIABLES
  guard,      \* is the guard table installed
  vpn,        \* does NetworkManager report the PIA VPN as active
  expected,   \* the setting connection/ipv6_guard_expected: survives a crash
  gui,        \* the fields of the main window
  job         \* the job of every worker

vars == <<guard, vpn, expected, gui, job>>

Status == {"none", "active", "absent"}
Kinds == {"connect", "disconnect", "release", "reconcile"}
Pcs == {"open", "look", "enable", "armed", "start", "up", "check", "verify", "askVpn",
        "askGuard", "cleanup", "stop", "disable", "done"}

\* st, err: the cached guard status and whether an error overrides it
Gui == [busy : BOOLEAN, releasing : BOOLEAN, last : BOOLEAN,
        st : Status, err : BOOLEAN, started : BOOLEAN]
NewGui == [busy |-> FALSE, releasing |-> FALSE, last |-> FALSE,
           st |-> "none", err |-> FALSE, started |-> FALSE]

\* known: the guard status the job holds; seen: the VPN state it last read;
\* retained: what its failure says of the guard; before: expected at its start
Job == [kind : Kinds \cup {"none"}, pc : Pcs, before : BOOLEAN, known : Status,
        seen : {"unknown", "up", "down"}, retained : BOOLEAN, err : BOOLEAN, ok : BOOLEAN]
NoJob == [kind |-> "none", pc |-> "done", before |-> FALSE, known |-> "none",
          seen |-> "unknown", retained |-> FALSE, err |-> FALSE, ok |-> FALSE]

TypeOK ==
  /\ guard \in BOOLEAN /\ vpn \in BOOLEAN /\ expected \in BOOLEAN
  /\ gui \in Gui
  /\ job \in [Workers -> Job]

\* the PIA VPN may already be up, unguarded, before the program first starts
Init ==
  /\ guard = FALSE /\ expected = FALSE
  /\ vpn \in BOOLEAN
  /\ gui = NewGui
  /\ job = [w \in Workers |-> NoJob]

MutGuardStatus == IF guard THEN "active" ELSE "disabled"
GuardStatus == IF guard THEN "active" ELSE "absent"
VpnState == IF vpn THEN "up" ELSE "down"

(***************************************************************************)
(* Steps of a transaction.                                                  *)
(***************************************************************************)
At(w, kind, pc) == job[w].kind = kind /\ job[w].pc = pc
Put(w, j) == job' = [job EXCEPT ![w] = j]
Goto(w, pc) == Put(w, [job[w] EXCEPT !.pc = pc])
Host == <<guard, vpn>>
Window == <<expected, gui>>

\* the job ends with an error carrying these facts
Fail(w, known, retained, seen, err) ==
  Put(w, [job[w] EXCEPT !.pc = "done", !.ok = FALSE, !.known = known,
            !.retained = retained, !.seen = seen, !.err = err])
Return(w, known) == Put(w, [job[w] EXCEPT !.pc = "done", !.ok = TRUE, !.known = known])

\* the generic handler of the job: the status is read where a session is open
FailGeneric(w) ==
  \/ Fail(w, GuardStatus, job[w].kind = "connect" => guard, "unknown", FALSE)
  \/ Fail(w, "none", TRUE, "unknown", TRUE)
  \/ Fail(w, "none", job[w].kind = "connect" => job[w].before, "unknown", FALSE)

\* the configuration is fetched, the session opened, the kill switch absent
Open(w) ==
  /\ \E kind \in Kinds : At(w, kind, "open")
  /\ \/ Goto(w, IF job[w].kind = "release" THEN "check" ELSE "look")
     \/ FailGeneric(w)
  /\ UNCHANGED <<Host, Window>>

\* _ensure_guard_active looks first, then enables, then looks again
MutConnectLook(w) ==
  /\ At(w, "connect", "look")
  /\ Goto(w, "start")
  /\ UNCHANGED <<Host, Window>>

ConnectLook(w) ==
  /\ At(w, "connect", "look")
  /\ \/ Put(w, [job[w] EXCEPT !.pc = IF guard THEN "start" ELSE "enable",
                               !.known = IF guard THEN "active" ELSE "none"])
     \/ Goto(w, "askVpn")
  /\ UNCHANGED <<Host, Window>>

ConnectEnable(w) ==
  /\ At(w, "connect", "enable")
  /\ \/ guard' = TRUE /\ Goto(w, "armed")
     \/ guard' \in {guard, TRUE} /\ Goto(w, "askVpn")
  /\ UNCHANGED <<vpn, Window>>

ConnectArmed(w) ==
  /\ At(w, "connect", "armed")
  /\ \/ guard /\ Put(w, [job[w] EXCEPT !.pc = "start", !.known = "active"])
     \/ Goto(w, "askVpn")
  /\ UNCHANGED <<Host, Window>>

\* network_manager.connect takes an old VPN down before it starts the new one
ConnectStart(w) ==
  /\ At(w, "connect", "start")
  /\ \/ vpn' = FALSE /\ Goto(w, "up")
     \/ vpn' \in {vpn, FALSE} /\ Goto(w, "askVpn")
  /\ UNCHANGED <<guard, Window>>

ConnectUp(w) ==
  /\ At(w, "connect", "up")
  /\ \/ vpn' = TRUE /\ Goto(w, "check")
     \/ vpn' \in BOOLEAN /\ Goto(w, "askVpn")
  /\ UNCHANGED <<guard, Window>>

ConnectCheck(w) ==
  /\ At(w, "connect", "check")
  /\ \/ vpn /\ Goto(w, "verify")
     \/ Goto(w, "askVpn")
  /\ UNCHANGED <<Host, Window>>

\* the guard is asked once more
ConnectVerify(w) ==
  /\ At(w, "connect", "verify")
  /\ \/ guard /\ Return(w, "active")
     \/ ~guard /\ Put(w, [job[w] EXCEPT !.pc = "askVpn", !.known = "absent"])
     \/ Goto(w, "askVpn")
  /\ UNCHANGED <<Host, Window>>

ConnectFailedAskVpn(w) ==
  /\ At(w, "connect", "askVpn")
  /\ \E seen \in {VpnState, "unknown"} :
       Put(w, [job[w] EXCEPT !.pc = "askGuard", !.seen = seen])
  /\ UNCHANGED <<Host, Window>>

\* the guard is released only if the VPN was read down; an unreadable guard
\* status falls back to the one the transaction holds
MutConnectFailedAskGuard(w) ==
  /\ At(w, "connect", "askGuard")
  /\ \E known \in {GuardStatus, job[w].known} :
       IF known = "active"
       THEN Put(w, [job[w] EXCEPT !.pc = "cleanup", !.known = known])
       ELSE Fail(w, known, known # "absent", job[w].seen, FALSE)
  /\ UNCHANGED <<Host, Window>>

ConnectFailedAskGuard(w) ==
  /\ At(w, "connect", "askGuard")
  /\ \E known \in {GuardStatus, job[w].known} :
       IF job[w].seen = "down" /\ known = "active"
       THEN Put(w, [job[w] EXCEPT !.pc = "cleanup", !.known = known])
       ELSE Fail(w, known, job[w].seen # "down" \/ known # "absent", job[w].seen, FALSE)
  /\ UNCHANGED <<Host, Window>>

ConnectCleanup(w) ==
  /\ At(w, "connect", "cleanup")
  /\ \/ guard' = FALSE /\ Fail(w, "absent", FALSE, job[w].seen, FALSE)
     \/ guard' \in {guard, FALSE} /\ Fail(w, "active", TRUE, job[w].seen, TRUE)
  /\ UNCHANGED <<vpn, Window>>

DisconnectLook(w) ==
  /\ At(w, "disconnect", "look")
  /\ \/ Put(w, [job[w] EXCEPT !.pc = "stop", !.known = GuardStatus])
     \/ FailGeneric(w)
  /\ UNCHANGED <<Host, Window>>

\* the VPN is stopped and read down; otherwise it is reported as still up
DisconnectStop(w) ==
  /\ At(w, "disconnect", "stop")
  /\ \/ vpn' = FALSE /\ Goto(w, "disable")
     \/ /\ vpn' \in {vpn, FALSE}
        /\ \E known \in {GuardStatus, job[w].known} :
             Fail(w, known, known = "active", "up", FALSE)
  /\ UNCHANGED <<guard, Window>>

DisconnectDisable(w) ==
  /\ At(w, "disconnect", "disable")
  /\ \/ guard' = FALSE /\ Return(w, "absent")
     \/ /\ guard' \in {guard, FALSE}
        /\ \E known \in {IF guard' THEN "active" ELSE "absent", job[w].known} :
             Fail(w, known, TRUE, "down", FALSE)
  /\ UNCHANGED <<vpn, Window>>

\* release_after_verified_vpn_loss: the VPN is read once, then the guard goes
ReleaseCheck(w) ==
  /\ At(w, "release", "check")
  /\ \/ ~vpn /\ Goto(w, "disable")
     \/ FailGeneric(w)
  /\ UNCHANGED <<Host, Window>>

ReleaseDisable(w) ==
  /\ At(w, "release", "disable")
  /\ \/ guard' = FALSE /\ Return(w, "absent")
     \/ /\ guard' \in {guard, FALSE}
        /\ \E known \in {IF guard' THEN "active" ELSE "absent", "none"} :
             Fail(w, known, TRUE, "down", known = "none")
  /\ UNCHANGED <<vpn, Window>>

\* reconcile_startup reads the guard, then the VPN
ReconcileLook(w) ==
  /\ At(w, "reconcile", "look")
  /\ \/ Put(w, [job[w] EXCEPT !.pc = "check", !.known = GuardStatus])
     \/ FailGeneric(w)
  /\ UNCHANGED <<Host, Window>>

ReconcileCheck(w) ==
  /\ At(w, "reconcile", "check")
  /\ \/ LET j == [job[w] EXCEPT !.seen = VpnState] IN
        Put(w, IF vpn = (j.known = "active") THEN [j EXCEPT !.pc = "done", !.ok = TRUE]
               ELSE [j EXCEPT !.pc = IF vpn THEN "stop" ELSE "disable"])
     \/ FailGeneric(w)
  /\ UNCHANGED <<Host, Window>>

ReconcileDisable(w) ==
  /\ At(w, "reconcile", "disable")
  /\ \/ guard' = FALSE /\ Return(w, "absent")
     \/ guard' \in {guard, FALSE} /\ Fail(w, "none", TRUE, "unknown", TRUE)
     \/ guard' \in {guard, FALSE} /\
          Fail(w, IF guard' THEN "active" ELSE "absent", TRUE, "unknown", FALSE)
  /\ UNCHANGED <<vpn, Window>>

\* an active VPN without its guard is stopped
ReconcileStop(w) ==
  /\ At(w, "reconcile", "stop")
  /\ \/ vpn' = FALSE /\ Put(w, [job[w] EXCEPT !.pc = "done", !.ok = TRUE, !.seen = "down"])
     \/ vpn' \in {vpn, FALSE} /\
          \E e \in BOOLEAN : Fail(w, IF e THEN "none" ELSE GuardStatus, TRUE, "up", e)
  /\ UNCHANGED <<guard, Window>>

JobStep(w) ==
  \/ Open(w) \/ ConnectLook(w) \/ ConnectEnable(w) \/ ConnectArmed(w) \/ ConnectStart(w)
  \/ ConnectUp(w) \/ ConnectCheck(w) \/ ConnectVerify(w) \/ ConnectFailedAskVpn(w) \/ ConnectFailedAskGuard(w)
  \/ ConnectCleanup(w) \/ DisconnectLook(w) \/ DisconnectStop(w)
  \/ DisconnectDisable(w) \/ ReleaseCheck(w) \/ ReleaseDisable(w)
  \/ ReconcileLook(w) \/ ReconcileCheck(w) \/ ReconcileDisable(w) \/ ReconcileStop(w)

(***************************************************************************)
(* The GUI thread.                                                          *)
(***************************************************************************)
Start(w, kind, jobs) ==
  /\ jobs[w].kind = "none"
  /\ job' = [jobs EXCEPT ![w] = [NoJob EXCEPT !.kind = kind, !.pc = "open", !.before = expected]]

\* _release_ipv6_guard_after_unexpected_vpn_loss, known to be wanted and not
\* busy: it takes no busy flag, only one of its own
StartRelease(g, jobs) ==
  \/ g.releasing /\ gui' = g /\ job' = jobs
  \/ ~g.releasing /\ gui' = [g EXCEPT !.err = TRUE] /\ job' = jobs   \* helper not current
  \/ /\ ~g.releasing /\ gui' = [g EXCEPT !.releasing = TRUE]
     /\ \E w \in Workers : Start(w, "release", jobs)

\* update_connection_status on window g, setting e, jobs, and the VPN state up:
\* unreadable, without a loss, or with the loss of an ordinary VPN
Refresh(g, e, jobs, up) ==
  LET lost == g.last /\ ~up /\ ~g.busy /\ e IN
  /\ expected' = e
  /\ \/ gui' = g /\ job' = jobs
     \/ ~lost /\ gui' = [g EXCEPT !.last = up] /\ job' = jobs
     \/ lost /\ StartRelease([g EXCEPT !.last = FALSE], jobs)

\* the 3 s poll rests while an intentional disconnect runs
Poll ==
  /\ \A w \in Workers : job[w].kind # "disconnect"
  /\ Refresh(gui, expected, job, vpn)
  /\ UNCHANGED Host

\* also the switch to another region while connected: the intent is saved
\* before the guard is armed
MutClickConnect ==
  /\ ~gui.busy /\ (gui.releasing => ConnectDuringRelease)
  /\ gui' = [gui EXCEPT !.busy = TRUE]
  /\ \E w \in Workers : Start(w, "connect", job)
  /\ UNCHANGED <<Host, expected>>

ClickConnect ==
  /\ ~gui.busy /\ (gui.releasing => ConnectDuringRelease)
  /\ gui' = [gui EXCEPT !.busy = TRUE]
  /\ expected' = TRUE
  /\ \E w \in Workers : Start(w, "connect", job)
  /\ UNCHANGED Host

ClickDisconnect ==
  /\ ~gui.busy /\ vpn
  /\ gui' = [gui EXCEPT !.busy = TRUE]
  /\ \E w \in Workers : Start(w, "disconnect", job)
  /\ UNCHANGED <<Host, expected>>

\* a quit while disconnected releases what is left of the guard first
ClickQuit ==
  /\ ~gui.busy /\ ~vpn /\ expected
  /\ StartRelease(gui, job)
  /\ UNCHANGED <<Host, expected>>

\* network_manager.disconnect from the GUI thread, then the forced refresh
StopInWindow(g, e, jobs) ==
  \/ vpn /\ vpn' = FALSE /\ Refresh([g EXCEPT !.last = FALSE], e, jobs, FALSE)
  \/ vpn' \in {vpn, FALSE} /\ Refresh(g, e, jobs, vpn')

\* the start-up timer waits for a running job
ReconcileAtStartup ==
  LET g == [gui EXCEPT !.started = TRUE] IN
  /\ ~gui.started /\ ~gui.busy
  /\ \/ ~expected /\ gui' = g /\ UNCHANGED <<expected, job>>   \* VPN down or unreadable
     \/ /\ expected \/ vpn
        /\ gui' = [g EXCEPT !.busy = TRUE] /\ UNCHANGED expected
        /\ \E w \in Workers : Start(w, "reconcile", job)
  /\ UNCHANGED Host

\* the packaged helper could not be verified at the start
StartupGateCancelled ==
  /\ ~gui.started /\ ~gui.busy /\ (expected \/ vpn)
  /\ StopInWindow([gui EXCEPT !.started = TRUE, !.st = "none", !.err = TRUE], expected, job)
  /\ UNCHANGED guard

(***************************************************************************)
(* The success and failure slots of a finished job.                         *)
(***************************************************************************)
Finished(w, kind, ok) == At(w, kind, "done") /\ job[w].ok = ok
Rest(w) == [job EXCEPT ![w] = NoJob]
Shown(w) == [gui EXCEPT !.busy = FALSE, !.st = job[w].known, !.err = job[w].err]
Seen(w) == IF job[w].seen = "unknown" THEN gui.last ELSE job[w].seen = "up"

Connected(w) ==
  /\ Finished(w, "connect", TRUE)
  /\ Refresh([Shown(w) EXCEPT !.last = TRUE], TRUE, Rest(w), vpn)
  /\ UNCHANGED Host

Disconnected(w) ==
  /\ Finished(w, "disconnect", TRUE)
  /\ Refresh([Shown(w) EXCEPT !.last = FALSE], FALSE, Rest(w), vpn)
  /\ UNCHANGED Host

\* a connect or a disconnect failed: the setting follows what was retained
TransactionFailed(w) ==
  /\ Finished(w, "connect", FALSE) \/ Finished(w, "disconnect", FALSE)
  /\ Refresh([Shown(w) EXCEPT !.last = Seen(w)], job[w].retained, Rest(w), vpn)
  /\ UNCHANGED Host

Unscheduled(w) == [gui EXCEPT !.releasing = FALSE, !.st = job[w].known]

Released(w) ==
  /\ Finished(w, "release", TRUE)
  /\ Refresh([Unscheduled(w) EXCEPT !.err = FALSE], FALSE, Rest(w), vpn)
  /\ UNCHANGED Host

MutReleaseFailed(w) ==
  /\ Finished(w, "release", FALSE)
  /\ Refresh([gui EXCEPT !.st = job[w].known, !.err = TRUE], TRUE, Rest(w), vpn)
  /\ UNCHANGED Host

ReleaseFailed(w) ==
  /\ Finished(w, "release", FALSE)
  /\ Refresh([Unscheduled(w) EXCEPT !.err = TRUE], TRUE, Rest(w), vpn)
  /\ UNCHANGED Host

\* a guard found with its VPN is adopted; anything else leaves both down
Reconciled(w) ==
  LET adopted == job[w].known = "active" IN
  /\ Finished(w, "reconcile", TRUE)
  /\ Refresh([Shown(w) EXCEPT !.last = adopted], adopted, Rest(w), vpn)
  /\ UNCHANGED Host

\* a VPN whose guard cannot be verified is stopped from the GUI thread
ReconcileFailed(w) ==
  /\ Finished(w, "reconcile", FALSE)
  /\ StopInWindow([Shown(w) EXCEPT !.err = TRUE, !.last = Seen(w)], TRUE, Rest(w))
  /\ UNCHANGED guard

Slot(w) ==
  \/ Connected(w) \/ Disconnected(w) \/ TransactionFailed(w) \/ Released(w)
  \/ ReleaseFailed(w) \/ Reconciled(w) \/ ReconcileFailed(w)

VpnLost == vpn /\ vpn' = FALSE /\ UNCHANGED <<guard, expected, gui, job>>

\* the process is killed, or quits and leaves the VPN running
Crash ==
  /\ gui' = NewGui /\ job' = [w \in Workers |-> NoJob]
  /\ UNCHANGED <<guard, vpn, expected>>

Step ==
  \/ \E w \in Workers : JobStep(w) \/ Slot(w)
  \/ Poll \/ ClickConnect \/ ClickDisconnect \/ ClickQuit
  \/ ReconcileAtStartup \/ StartupGateCancelled \/ VpnLost

Next == Step \/ Crash

Spec == Init /\ [][Next]_vars

\* worker threads run to their end and queued slots are delivered
FairSpec == Spec /\ \A w \in Workers : WF_vars(JobStep(w)) /\ WF_vars(Slot(w))

(***************************************************************************)
(* Properties.                                                              *)
(***************************************************************************)
\* Once the program was first started without a VPN, native IPv6 is blocked for
\* as long as an ordinary VPN runs, through every switch, failed step, lost VPN,
\* quit, crash and later start of the program.
TunnelIsGuarded == vpn => guard
GuardedFromStart == ~vpn => []TunnelIsGuarded

\* Whenever the guard is installed the setting says so: a crash at any moment
\* leaves the next start a reason to look for it.
GuardIsRemembered == guard => expected

\* When the window shows IPv6 as blocked under a running VPN, the table is there,
\* also if the VPN was already running when the program started.
ShownBlockedIsBlocked == vpn /\ gui.st = "active" /\ ~gui.err => guard

\* A transaction of one kind runs at most once at a time, and release, which
\* takes no busy flag, shares the host with at most one other transaction.
OneOfAKind ==
  /\ \A v, w \in Workers : job[v].kind = job[w].kind /\ job[v].kind # "none" => v = w
  /\ gui.busy <=> \E w \in Workers : job[w].kind \notin {"none", "release"}
  /\ gui.releasing <=> \E w \in Workers : job[w].kind = "release"

\* Every transaction the window waits for is answered, the release as well.
TransactionsEnd ==
  /\ gui.busy ~> ~gui.busy
  /\ gui.releasing ~> ~gui.releasing

\* What the docstring of IPv6GuardLifecycle says: the guard stays in place until
\* NetworkManager has been verified down.
RemovedOnlyDown == [][guard /\ ~guard' => ~vpn]_vars
=============================================================================
