-------------------------------- MODULE Startup --------------------------------
(***************************************************************************)
(* Starting the program: processes that claim to be the only instance, and  *)
(* the window of the one that succeeds, with its three start-up timers, the *)
(* two protection checks behind them, the first refresh of the server list  *)
(* and the one automatic connection that waits for all of these.            *)
(*                                                                         *)
(* A handler runs to its end, but a dialog runs the event loop: timers,     *)
(* slots and further dialogs come inside it, and dialogs end in the reverse *)
(* order.  A job takes effect with its slot; the steps inside the jobs are  *)
(* those of ProtectedSession, IPv6GuardLifecycle and HelperInstallation.    *)
(***************************************************************************)
EXTENDS Naturals, Sequences, FiniteSets

CONSTANTS
  Procs,     \* processes, each started once
  Older,     \* a release from before the lock, which only listens
  Clicks,    \* bound: what the user begins in one behaviour
  None

ASSUME StartupAssumption == Clicks \in Nat /\ Older \notin Procs /\ None \notin Procs \cup {Older}

VARIABLES
  pc,        \* where every process is in SingleInstance.claim, or that it has a window
  lock,      \* the process recorded in the lock file
  socket,    \* who listens on the local socket; a dead process leaves it behind
  win,       \* the window of every process
  host,      \* the host and the settings file
  clicks

vars == <<pc, lock, socket, win, host, clicks>>

Checks == {"ks", "v6"}
Askers == Checks \cup {"user", "auto"}
Jobs == Askers \cup {"reset", "disconnect", "reconnect"}

\* table: the kill switch is armed; required: the marker or a recovery record is on
\* disk; expected: the IPv6 guard is; helper: the installed helper is current
Host == [tunnel : BOOLEAN, table : BOOLEAN, required : BOOLEAN, feature : BOOLEAN,
         expected : BOOLEAN, helper : BOOLEAN]

\* due: timers; dialogs: open ones, the inmost last; installs: helper installations, by
\* who asked; the rest are the fields of MainWindow. Ghosts: crossed, a dialog was
\* opened inside another one; begun: automatic connections; recovery: the check
\* found a lock without tunnel; tried: the check of the guard came through
Window == [due : SUBSET {"first", "ks", "v6", "refresh"}, dialogs : Seq({"credentials"} \cup Askers),
           busy : BOOLEAN, jobs : SUBSET Jobs, installs : SUBSET Askers,
           regions : {"rest", "refresh", "ping"}, status : {"none", "absent", "present", "error"},
           flow : BOOLEAN, credentials : BOOLEAN, pending : BOOLEAN, started : BOOLEAN,
           refreshed : {"no", "ok", "failed"}, settled : SUBSET Checks, attempted : BOOLEAN,
           crossed : BOOLEAN, begun : 0 .. 2, recovery : BOOLEAN, tried : BOOLEAN]

NoWindow == [due |-> {}, dialogs |-> << >>, busy |-> FALSE, jobs |-> {}, installs |-> {},
             regions |-> "rest", status |-> "none", flow |-> FALSE, credentials |-> FALSE,
             pending |-> FALSE, started |-> FALSE, refreshed |-> "no", settled |-> {},
             attempted |-> FALSE, crossed |-> FALSE, begun |-> 0, recovery |-> FALSE, tried |-> FALSE]
MutNewWindow == [NoWindow EXCEPT !.due = {"first", "ks", "v6"}, !.status = "unknown"]
NewWindow == [NoWindow EXCEPT !.due = {"first", "ks", "v6"}]

TypeOK ==
  /\ pc \in [Procs -> {"off", "claim", "probe", "clean", "listen", "window", "gone"}]
  /\ lock \in Procs \cup {None} /\ socket \in Procs \cup {Older, None}
  /\ win \in [Procs -> Window] /\ host \in Host /\ clicks \in 0 .. Clicks

\* an armed table is always remembered; bound: an older release has nothing to recover
Init ==
  /\ pc = [p \in Procs |-> "off"] /\ lock = None /\ socket \in {None, Older}
  /\ win = [p \in Procs |-> NoWindow] /\ clicks = 0
  /\ host \in Host /\ (host.table => host.required) /\ (socket = Older => ~host.required /\ ~host.expected /\ ~host.tunnel)

(***************************************************************************)
(* SingleInstance.claim.                                                    *)
(***************************************************************************)
Alive(p) == pc[p] \notin {"off", "gone"}
At(p, at) == pc[p] = at
Goto(p, to) == pc' = [pc EXCEPT ![p] = to]

Launch(p) == At(p, "off") /\ Goto(p, "claim") /\ UNCHANGED <<lock, socket, win, host, clicks>>

\* a lock whose process is dead is taken over
MutTryLock(p) == At(p, "claim") /\ lock' = p /\ Goto(p, "probe") /\ UNCHANGED <<socket, win, host, clicks>>
TryLock(p) ==
  /\ At(p, "claim")
  /\ IF lock \in Procs /\ Alive(lock)
     THEN Goto(p, "gone") /\ UNCHANGED lock
     ELSE Goto(p, "probe") /\ lock' = p
  /\ UNCHANGED <<socket, win, host, clicks>>

Listening == socket = Older \/ (socket \in Procs /\ At(socket, "window"))
Unlock(p) == lock' = IF lock = p THEN None ELSE lock

Probe(p) ==
  /\ At(p, "probe")
  /\ IF Listening
     THEN Goto(p, "gone") /\ Unlock(p)
     ELSE Goto(p, "clean") /\ UNCHANGED lock
  /\ UNCHANGED <<socket, win, host, clicks>>

RemoveServer(p) ==
  /\ At(p, "clean") /\ Goto(p, "listen")
  /\ socket' = None
  /\ UNCHANGED <<lock, win, host, clicks>>

\* the window is made once the socket listens
Listen(p) ==
  /\ At(p, "listen") /\ Goto(p, "window")
  /\ socket' = p /\ win' = [win EXCEPT ![p] = NewWindow]
  /\ UNCHANGED <<lock, host, clicks>>

ListenFails(p) ==
  /\ At(p, "listen") /\ Goto(p, "gone") /\ Unlock(p)
  /\ UNCHANGED <<socket, win, host, clicks>>

Quit(p) ==
  /\ At(p, "window") /\ ~win[p].busy /\ win[p].dialogs = << >> /\ Goto(p, "gone") /\ Unlock(p)
  /\ socket' = IF socket = p THEN None ELSE socket
  /\ win' = [win EXCEPT ![p] = NoWindow]
  /\ UNCHANGED <<host, clicks>>

\* neither the lock file nor the socket is removed
Crash(p) ==
  /\ Alive(p) /\ Goto(p, "gone") /\ win' = [win EXCEPT ![p] = NoWindow]
  /\ UNCHANGED <<lock, socket, host, clicks>>

OlderEnds == socket = Older /\ socket' = None /\ UNCHANGED <<pc, lock, win, host, clicks>>

(***************************************************************************)
(* The handlers of the window, as functions from a situation - its window   *)
(* w and the host h - to those in which they may return.                    *)
(***************************************************************************)
Now(p) == [w |-> win[p], h |-> host]
Becomes(p, situations) ==
  /\ At(p, "window")
  /\ \E s \in situations : win' = [win EXCEPT ![p] = s.w] /\ host' = s.h
  /\ UNCHANGED <<pc, lock, socket>>

Open(s, dialog) == [s EXCEPT !.w.dialogs = Append(@, dialog), !.w.crossed = @ \/ s.w.dialogs # << >>]

\* _disconnected_kill_switch_may_block(connected=False)
MayBlock(s) ==
  /\ s.h.feature
  /\ s.w.status \in {"error", "present"} \/ (s.w.status = "none" /\ s.h.required)

\* connect_region past its gate
ConnectReady(s, who) ==
  IF s.w.busy \/ s.h.tunnel \/ MayBlock(s)
  THEN {s}
  ELSE {[s EXCEPT !.w.busy = TRUE, !.w.jobs = @ \cup {who}, !.w.begun = @ + (IF who = "auto" THEN 1 ELSE 0),
           !.h.required = @ \/ s.h.feature, !.h.expected = @ \/ ~s.h.feature], s}

\* connect_region: an installed helper that is not current is asked about, or refused
ConnectRegion(s, who) == IF s.h.helper THEN ConnectReady(s, who) ELSE {Open(s, who), s}

Attempted(s) == [s EXCEPT !.w.attempted = TRUE]

\* _maybe_startup_auto_connect, where the option may be off; the mutant forgets the gates
MutMaybeAutoConnect(s) ==
  LET w == s.w IN
  CASE w.attempted \/ w.refreshed = "no" \/ ~w.flow -> {s}
    [] OTHER -> IF s.h.tunnel THEN {Attempted(s)}
                ELSE ConnectRegion(Attempted(s), "auto")

MaybeAutoConnect(s) ==
  LET w == s.w
      waits == ~w.flow \/ (w.credentials /\ (w.refreshed = "no" \/ (w.refreshed = "ok" /\ w.settled # Checks)))
      skips == ~w.credentials \/ w.refreshed = "failed" \/ w.busy \/ s.h.tunnel \/ MayBlock(s)
  IN  CASE w.attempted -> {s}
        [] ~w.attempted /\ waits -> {s, Attempted(s)}
        [] ~w.attempted /\ ~waits /\ skips -> {Attempted(s)}
        [] OTHER -> {Attempted(s)} \cup ConnectRegion(Attempted(s), "auto")

Refresh(s) == [s EXCEPT !.w.started = TRUE, !.w.pending = FALSE, !.w.due = @ \cup {"refresh"}]

\* _request_initial_region_refresh
RequestRefresh(s) == IF s.h.required THEN [s EXCEPT !.w.pending = TRUE] ELSE Refresh(s)

\* _release_initial_region_refresh_if_safe; the tunnel's state may be unknown
ReleaseRefresh(s) ==
  IF s.w.pending /\ (s.h.tunnel \/ ~MayBlock(s)) THEN {Refresh(s), s} ELSE {s}

\* _first_start after its dialog
Flow(s, ready) == MaybeAutoConnect(RequestRefresh([s EXCEPT !.w.flow = TRUE, !.w.credentials = ready]))

Settle(s, check) == MaybeAutoConnect([s EXCEPT !.w.settled = @ \cup {check}])
Start(s, job) == {[s EXCEPT !.w.busy = TRUE, !.w.jobs = @ \cup {job}]}

\* _reconcile_kill_switch_startup: a busy window is left alone, for good
MutReconcileKillSwitch(s, checked) ==
  IF s.h.required THEN Start(s, "ks") ELSE Settle(s, "ks")
ReconcileKillSwitch(s, checked) ==
  CASE s.w.busy -> {s}
    [] ~s.w.busy /\ ~s.h.required -> Settle(s, "ks")
    [] ~s.w.busy /\ s.h.required /\ (checked \/ s.h.helper) -> Start(s, "ks")
    [] OTHER -> {Open(s, "ks"), [s EXCEPT !.w.status = "error"]}

\* the tunnel of a guard that cannot be verified is stopped, if it can be
StopTunnel(s) == {s, [s EXCEPT !.h.tunnel = FALSE]}

\* _reconcile_ipv6_guard_startup past its look at the busy flag
Tried(s) == [s EXCEPT !.w.tried = TRUE]
CheckIPv6Guard(s, checked) ==
  CASE s.h.feature \/ (~s.h.expected /\ ~s.h.tunnel) -> Settle(s, "v6")
    [] ~s.h.feature /\ (s.h.expected \/ s.h.tunnel) /\ (checked \/ s.h.helper) -> Start(s, "v6")
    [] OTHER -> {Open(s, "v6")} \cup StopTunnel(s)

\* a busy window is tried again
MutReconcileIPv6Guard(s, checked) ==
  IF ~s.h.feature /\ s.w.busy THEN {s} ELSE CheckIPv6Guard(Tried(s), checked)
ReconcileIPv6Guard(s, checked) ==
  IF ~s.h.feature /\ s.w.busy
  THEN {[s EXCEPT !.w.due = @ \cup {"v6"}]}
  ELSE CheckIPv6Guard(Tried(s), checked)

\* on_ready and on_cancel of _ensure_packaged_kill_switch_helper
Ready(s, who) ==
  CASE who = "ks" -> ReconcileKillSwitch(s, TRUE)
    [] who = "v6" -> ReconcileIPv6Guard(s, TRUE)
    [] OTHER -> ConnectReady(s, who)

Cancelled(s, who) ==
  CASE who = "ks" -> {[s EXCEPT !.w.status = "error"]}
    [] who = "v6" -> StopTunnel(s)
    [] OTHER -> {s}

(***************************************************************************)
(* Timers and dialogs.                                                      *)
(***************************************************************************)
Fire(p, timer) == [Now(p) EXCEPT !.w.due = @ \ {timer}]
Due(p, timer) == timer \in win[p].due

\* the key ring answers, or the user is asked
FirstStart(p) ==
  /\ Due(p, "first")
  /\ Becomes(p, Flow(Fire(p, "first"), TRUE) \cup {Open(Fire(p, "first"), "credentials")})
  /\ UNCHANGED clicks

\* 75 ms and 225 ms: timers fire in the order of their times
KillSwitchTimer(p) ==
  /\ Due(p, "ks") /\ ~Due(p, "first")
  /\ Becomes(p, ReconcileKillSwitch(Fire(p, "ks"), FALSE))
  /\ UNCHANGED clicks

IPv6GuardTimer(p) ==
  /\ Due(p, "v6") /\ ~Due(p, "ks")
  /\ Becomes(p, ReconcileIPv6Guard(Fire(p, "v6"), FALSE))
  /\ UNCHANGED clicks

\* refresh_regions
LoadRegions(s) == IF s.w.regions = "rest" THEN [s EXCEPT !.w.regions = "refresh"] ELSE s
RefreshTimer(p) ==
  /\ Due(p, "refresh")
  /\ Becomes(p, {LoadRegions(Fire(p, "refresh"))})
  /\ UNCHANGED clicks

\* the inmost dialog returns: an accepted question takes the busy flag, whoever has it
Closed(p) == [Now(p) EXCEPT !.w.dialogs = SubSeq(@, 1, Len(@) - 1)]
AnswerDialog(p) ==
  /\ win[p].dialogs # << >>
  /\ LET who == win[p].dialogs[Len(win[p].dialogs)]
         s == Closed(p)
     IN  Becomes(p, IF who = "credentials"
                    THEN Flow(s, TRUE) \cup Flow(s, FALSE)
                    ELSE Cancelled(s, who) \cup {[s EXCEPT !.w.busy = TRUE, !.w.installs = @ \cup {who}]})
  /\ UNCHANGED clicks

(***************************************************************************)
(* The slots of the jobs.                                                   *)
(***************************************************************************)
Installed(p, who) ==
  LET s == [Now(p) EXCEPT !.w.busy = FALSE, !.w.installs = @ \ {who}] IN
  /\ who \in win[p].installs
  /\ Becomes(p, Ready([s EXCEPT !.h.helper = TRUE], who) \cup Cancelled(s, who))
  /\ UNCHANGED clicks

Ended(p, job) == [Now(p) EXCEPT !.w.busy = FALSE, !.w.jobs = @ \ {job}]
ReleasedThenAuto(s) == UNION {MaybeAutoConnect(t) : t \in ReleaseRefresh(s)}

\* the decisions of CrashRecoveryVerifier.evaluate, as far as they can be committed
MutDecided(s) ==
  {[s EXCEPT !.w.status = IF s.h.table THEN "present" ELSE "absent", !.w.settled = @ \cup {"ks"}]}
Decided(s) ==
  CASE ~s.h.table /\ ~s.h.tunnel ->
         {[s EXCEPT !.w.status = "absent", !.h.required = FALSE, !.w.settled = @ \cup {"ks"}]}
    [] s.h.table ->
         {[s EXCEPT !.w.status = "present", !.h.required = TRUE, !.h.feature = TRUE, !.w.settled = @ \cup {"ks"},
                    !.w.recovery = ~s.h.tunnel],
          [s EXCEPT !.w.status = "error", !.h.feature = TRUE]}
    [] OTHER -> {[s EXCEPT !.w.status = "error"]}

\* a check that fails, or whose decision cannot be committed, settles nothing
KillSwitchChecked(p) ==
  /\ "ks" \in win[p].jobs
  /\ LET s == Ended(p, "ks") IN
     Becomes(p, (UNION {ReleasedThenAuto(t) : t \in Decided(s)}) \cup {[s EXCEPT !.w.status = "error"]})
  /\ UNCHANGED clicks

IPv6GuardChecked(p) ==
  /\ "v6" \in win[p].jobs
  /\ LET s == Ended(p, "v6")
         down == [s EXCEPT !.h.tunnel = FALSE, !.h.expected = FALSE]
         up == IF s.h.tunnel THEN {[s EXCEPT !.h.expected = TRUE]} ELSE {}
     IN  Becomes(p, (UNION {Settle(t, "v6") : t \in up \cup {down}})
                    \cup StopTunnel([s EXCEPT !.h.expected = TRUE]))
  /\ UNCHANGED clicks

\* connect_region, of the user or at start-up
Connected(p, who) ==
  LET s == Ended(p, who)
      up == [s EXCEPT !.h.tunnel = TRUE]
      locked == [s EXCEPT !.h.table = TRUE, !.h.required = TRUE]
  IN
  /\ who \in win[p].jobs
  /\ Becomes(p, IF s.h.feature
                THEN {[locked EXCEPT !.h.tunnel = TRUE, !.w.status = "present"],
                      [locked EXCEPT !.w.status = "present"], [locked EXCEPT !.w.status = "error"]}
                     \cup {[s EXCEPT !.w.status = seen[1], !.h.required = seen[2]] :
                             seen \in (IF s.h.table THEN {"error"} ELSE {"absent", "error"}) \X {s.h.table, TRUE}}
                ELSE {up, s, [s EXCEPT !.h.expected = FALSE]})
  /\ UNCHANGED clicks

Released(s) == [s EXCEPT !.h.tunnel = FALSE, !.h.table = FALSE, !.h.required = FALSE, !.w.status = "absent"]
Unsure(s) == {[t EXCEPT !.w.status = "error"] : t \in StopTunnel(s) \cup {[s EXCEPT !.h.tunnel = FALSE, !.h.table = FALSE]}}

WasReset(p) ==
  /\ "reset" \in win[p].jobs
  /\ LET s == Ended(p, "reset")
     IN  Becomes(p, ReleaseRefresh(Released(s)) \cup Unsure(s))
  /\ UNCHANGED clicks

Disconnected(p) ==
  /\ "disconnect" \in win[p].jobs
  /\ LET s == Ended(p, "disconnect")
     IN  Becomes(p, IF s.h.feature
                    THEN {Released(s)} \cup Unsure(s)
                    ELSE {[s EXCEPT !.h.tunnel = FALSE, !.h.expected = FALSE]} \cup StopTunnel(s))
  /\ UNCHANGED clicks

\* _start_protected_reconnect
Reconnected(p) ==
  /\ "reconnect" \in win[p].jobs
  /\ LET s == Ended(p, "reconnect")
     IN  Becomes(p, ReleaseRefresh([s EXCEPT !.h.tunnel = TRUE]) \cup {s, [s EXCEPT !.w.status = "error"]})
  /\ UNCHANGED clicks

\* only refresh_regions ends the initial refresh, whoever began it
RegionsSlot(p) ==
  LET s == [Now(p) EXCEPT !.w.regions = "rest"]
      first == win[p].regions = "refresh" /\ win[p].started /\ win[p].refreshed = "no"
  IN
  /\ win[p].regions # "rest"
  /\ Becomes(p, IF first
                THEN UNION {MaybeAutoConnect([s EXCEPT !.w.refreshed = r]) : r \in {"ok", "failed"}}
                ELSE {s})
  /\ UNCHANGED clicks

Slot(p) ==
  \/ \E who \in Askers : Installed(p, who)
  \/ KillSwitchChecked(p) \/ IPv6GuardChecked(p) \/ WasReset(p) \/ Disconnected(p) \/ Reconnected(p)
  \/ \E who \in {"user", "auto"} : Connected(p, who)
  \/ RegionsSlot(p)

(***************************************************************************)
(* The user, and the host.                                                  *)
(***************************************************************************)
\* the window takes no input under a dialog
Click(p, situations) ==
  /\ At(p, "window") /\ win[p].dialogs = << >> /\ ~win[p].busy
  /\ clicks < Clicks /\ clicks' = clicks + 1
  /\ Becomes(p, situations)

ClickConnect(p) == ~host.tunnel /\ ~MayBlock(Now(p)) /\ Click(p, ConnectRegion(Now(p), "user"))
ClickReconnect(p) == ~host.tunnel /\ host.feature /\ win[p].status = "present" /\ Click(p, Start(Now(p), "reconnect"))
ClickDisconnect(p) == host.tunnel /\ Click(p, Start(Now(p), "disconnect"))
ClickReset(p) == Click(p, Start(Now(p), "reset"))
ClickRefresh(p) == win[p].regions = "rest" /\ Click(p, {LoadRegions(Now(p))})
ClickPing(p) == win[p].regions = "rest" /\ Click(p, {[Now(p) EXCEPT !.w.regions = "ping"]})

TunnelLost ==
  /\ host.tunnel /\ host' = [host EXCEPT !.tunnel = FALSE]
  /\ UNCHANGED <<pc, lock, socket, win, clicks>>

Next ==
  \/ OlderEnds \/ TunnelLost
  \/ \E p \in Procs :
       \/ Launch(p) \/ TryLock(p) \/ Probe(p) \/ RemoveServer(p) \/ Listen(p) \/ ListenFails(p)
       \/ Quit(p) \/ Crash(p)
       \/ FirstStart(p) \/ KillSwitchTimer(p) \/ IPv6GuardTimer(p) \/ RefreshTimer(p)
       \/ AnswerDialog(p) \/ Slot(p)
       \/ ClickConnect(p) \/ ClickReconnect(p) \/ ClickDisconnect(p) \/ ClickReset(p)
       \/ ClickRefresh(p) \/ ClickPing(p)

Spec == Init /\ [][Next]_vars

\* the event loop runs, inside dialogs too, and every job ends
FairSpec ==
  /\ Spec
  /\ WF_vars(\E p \in Procs : FirstStart(p) \/ KillSwitchTimer(p) \/ IPv6GuardTimer(p) \/ RefreshTimer(p))
  /\ WF_vars(\E p \in Procs : Slot(p))

(***************************************************************************)
(* Properties.                                                              *)
(***************************************************************************)
\* Two processes never control the VPN and the firewall at once, however their starts
\* and deaths interleave.
OneWindow == \A p, q \in Procs : At(p, "window") /\ At(q, "window") => p = q

\* Two jobs on the connection never run together; the one way they can is a helper
\* question opened inside another dialog, whose answer takes the flag without a look.
Running(w) == Cardinality(w.jobs) + Cardinality(w.installs)
OneJob == \A p \in Procs : Running(win[p]) <= 1 \/ win[p].crossed

\* A lock that blocks is never overlooked once the check at start-up has settled.
LockNoticed ==
  \A p \in Procs : "ks" \in win[p].settled /\ host.table /\ ~host.tunnel =>
                     MayBlock(Now(p))

\* An automatic connection begins once, after both checks, on a host without tunnel or
\* lock, and beside no other job.
Begins(p) == win'[p].begun > win[p].begun
AutoStartsSafely ==
  [][\A p \in Procs : Begins(p) =>
       /\ win[p].begun = 0 /\ ~host'.tunnel /\ ~host'.table
       /\ win'[p].settled = Checks
       /\ (Running(win'[p]) = 1 \/ win'[p].crossed)]_vars

\* The check of the IPv6 guard, unlike that of the kill switch, is not lost to a busy
\* window: while the window lives it comes through.
GuardCheckComes == \A p \in Procs : At(p, "window") ~> win[p].tried \/ ~At(p, "window")

\* What src/pia_bazzite/gui.py:3158-3161 says: a start that found a fail-closed lock skips
\* its automatic connection, "rather than turning a later reset into a surprise delayed
\* connection".
NoSurprise == [][\A p \in Procs : Begins(p) => ~win[p].recovery]_vars
=============================================================================
