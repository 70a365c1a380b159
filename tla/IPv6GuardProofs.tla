--------------------------- MODULE IPv6GuardProofs ---------------------------
(***************************************************************************)
(* Proofs about IPv6GuardLifecycle, for every pool of workers.  Two layers: *)
(* Coord ties the two flags of the window to the jobs that run, whatever    *)
(* the user does; on top of it Safe says what a job may rely on between two *)
(* of its calls, given that no connect is started during a release.  That a *)
(* VPN never runs unguarded follows step by step from Safe, for a program   *)
(* that was first started without one.                                      *)
(***************************************************************************)
EXTENDS IPv6GuardLifecycle, TLAPS

Busy(j) == j.kind \notin {"none", "release"}

\* The flags b and r of the window and the jobs f of the workers.
Coord(b, r, f) ==
  /\ \A v, w \in Workers : f[v].kind = f[w].kind /\ f[v].kind # "none" => v = w
  /\ \A v, w \in Workers : Busy(f[v]) /\ Busy(f[w]) => v = w
  /\ b <=> \E w \in Workers : Busy(f[w])
  /\ r <=> \E w \in Workers : f[w].kind = "release"

\* The job is past the point where it made sure of the VPN being down, and
\* may remove the guard.
Removing(j) ==
  \/ j.kind = "release"
  \/ j.kind = "connect" /\ j.pc = "cleanup"
  \/ j.kind = "connect" /\ j.pc = "askGuard" /\ j.seen = "down"
  \/ j.kind \in {"disconnect", "reconcile"} /\ j.pc = "disable"

\* The job is past the point where it made sure of the guard, and may bring
\* the VPN up.
Raising(j) == j.kind = "connect" /\ j.pc \in {"start", "up"}

Safe(gd, vp, f) ==
  /\ \A w \in Workers : Raising(f[w]) => gd
  /\ \A w \in Workers : Removing(f[w]) => ~vp
  /\ \A v, w \in Workers : ~(f[v].kind = "connect" /\ f[w].kind = "release")

CoordInv == TypeOK /\ Coord(gui.busy, gui.releasing, job)
SafeInv == CoordInv /\ Safe(guard, vpn, job)

-----------------------------------------------------------------------------
(***************************************************************************)
(* How a job that steps, ends or starts changes Coord.                      *)
(***************************************************************************)
\* A job that goes on keeps its kind.
LEMMA StepCoord ==
  ASSUME NEW b \in BOOLEAN, NEW r \in BOOLEAN, NEW f \in [Workers -> Job],
         NEW w \in Workers, NEW j \in Job, j.kind = f[w].kind, Coord(b, r, f)
  PROVE  Coord(b, r, [f EXCEPT ![w] = j])
  BY DEF Coord, Busy, Job

\* The only busy job ends, and the busy flag is given back.
LEMMA RestBusyCoord ==
  ASSUME NEW b \in BOOLEAN, NEW r \in BOOLEAN, NEW f \in [Workers -> Job],
         NEW w \in Workers, Busy(f[w]), Coord(b, r, f)
  PROVE  Coord(FALSE, r, [f EXCEPT ![w] = NoJob])
  BY DEF Coord, Busy, Job, NoJob

\* The only release ends, and its flag is given back.
LEMMA RestReleaseCoord ==
  ASSUME NEW b \in BOOLEAN, NEW r \in BOOLEAN, NEW f \in [Workers -> Job],
         NEW w \in Workers, f[w].kind = "release", Coord(b, r, f)
  PROVE  Coord(b, FALSE, [f EXCEPT ![w] = NoJob])
  BY DEF Coord, Busy, Job, NoJob

\* A busy job starts while the busy flag is clear.
LEMMA StartBusyCoord ==
  ASSUME NEW r \in BOOLEAN, NEW f \in [Workers -> Job],
         NEW w \in Workers, f[w].kind = "none", NEW j \in Job, Busy(j), Coord(FALSE, r, f)
  PROVE  Coord(TRUE, r, [f EXCEPT ![w] = j])
  BY DEF Coord, Busy, Job

\* A release starts while none is scheduled.
LEMMA StartReleaseCoord ==
  ASSUME NEW b \in BOOLEAN, NEW f \in [Workers -> Job],
         NEW w \in Workers, f[w].kind = "none", NEW j \in Job, j.kind = "release",
         Coord(b, FALSE, f)
  PROVE  Coord(b, TRUE, [f EXCEPT ![w] = j])
  BY DEF Coord, Busy, Job

\* A started job is a job of its kind.
LEMMA StartFacts ==
  ASSUME TypeOK, NEW w \in Workers, NEW kind \in Kinds, NEW f \in [Workers -> Job],
         Start(w, kind, f)
  PROVE  \E j \in Job : /\ j.kind = kind /\ j.pc = "open" /\ f[w].kind = "none"
                        /\ job' = [f EXCEPT ![w] = j]
<1> DEFINE j == [NoJob EXCEPT !.kind = kind, !.pc = "open", !.before = expected]
<1>1. j \in Job /\ j.kind = kind /\ j.pc = "open"
  BY DEF TypeOK, NoJob, Job, Kinds, Pcs, Status
<1>2. f[w].kind = "none" /\ job' = [f EXCEPT ![w] = j]
  BY DEF Start
<1> QED BY <1>1, <1>2

-----------------------------------------------------------------------------
(***************************************************************************)
(* The handlers that may start a release.                                   *)
(***************************************************************************)
\* What StartRelease does to the window and the workers.
LEMMA StartReleaseFacts ==
  ASSUME TypeOK, NEW g \in Gui, NEW f \in [Workers -> Job], StartRelease(g, f)
  PROVE  /\ gui' \in Gui /\ gui'.busy = g.busy
         /\ \/ job' = f /\ gui'.releasing = g.releasing
            \/ /\ ~g.releasing /\ gui'.releasing
               /\ \E w \in Workers, j \in Job :
                    /\ f[w].kind = "none" /\ j.kind = "release" /\ j.pc = "open"
                    /\ job' = [f EXCEPT ![w] = j]
<1>1. CASE g.releasing /\ gui' = g /\ job' = f
  BY <1>1
<1>2. CASE ~g.releasing /\ gui' = [g EXCEPT !.err = TRUE] /\ job' = f
  BY <1>2 DEF Gui
<1>3. CASE /\ ~g.releasing /\ gui' = [g EXCEPT !.releasing = TRUE]
           /\ \E w \in Workers : Start(w, "release", f)
  <2>1. gui' \in Gui /\ gui'.busy = g.busy /\ gui'.releasing
    BY <1>3 DEF Gui
  <2>2. PICK w \in Workers : Start(w, "release", f)
    BY <1>3
  <2>3. "release" \in Kinds
    BY DEF Kinds
  <2>4. \E j \in Job : /\ j.kind = "release" /\ j.pc = "open" /\ f[w].kind = "none"
                       /\ job' = [f EXCEPT ![w] = j]
    BY <2>2, <2>3, StartFacts
  <2> QED BY <1>3, <2>1, <2>4
<1> QED BY <1>1, <1>2, <1>3 DEF StartRelease

\* What Refresh does: nothing to the workers, or a release started because the
\* VPN is down and no busy job runs.
LEMMA RefreshFacts ==
  ASSUME TypeOK, NEW g \in Gui, NEW e \in BOOLEAN, NEW f \in [Workers -> Job],
         NEW up \in BOOLEAN, Refresh(g, e, f, up)
  PROVE  /\ expected' = e /\ gui' \in Gui /\ gui'.busy = g.busy
         /\ \/ job' = f /\ gui'.releasing = g.releasing
            \/ /\ ~g.releasing /\ gui'.releasing /\ ~up /\ ~g.busy
               /\ \E w \in Workers, j \in Job :
                    /\ f[w].kind = "none" /\ j.kind = "release" /\ j.pc = "open"
                    /\ job' = [f EXCEPT ![w] = j]
<1> DEFINE lost == g.last /\ ~up /\ ~g.busy /\ e
<1> DEFINE h == [g EXCEPT !.last = FALSE]
<1>1. expected' = e
  BY DEF Refresh
<1>2. CASE gui' = g /\ job' = f
  BY <1>1, <1>2
<1>3. CASE ~lost /\ gui' = [g EXCEPT !.last = up] /\ job' = f
  BY <1>1, <1>3 DEF Gui
<1>4. CASE lost /\ StartRelease(h, f)
  <2>1. h \in Gui /\ h.busy = g.busy /\ h.releasing = g.releasing
    BY DEF Gui
  <2> HIDE DEF h
  <2> QED BY <1>1, <1>4, <2>1, StartReleaseFacts
<1> QED BY <1>2, <1>3, <1>4 DEF Refresh

\* Both keep the types and Coord.
LEMMA RefreshCoord ==
  ASSUME TypeOK, NEW g \in Gui, NEW e \in BOOLEAN, NEW f \in [Workers -> Job],
         NEW up \in BOOLEAN, Refresh(g, e, f, up), Coord(g.busy, g.releasing, f)
  PROVE  /\ expected' \in BOOLEAN /\ gui' \in Gui /\ job' \in [Workers -> Job]
         /\ Coord(gui'.busy, gui'.releasing, job')
<1>1. CASE job' = f /\ gui'.releasing = g.releasing
  BY <1>1, RefreshFacts
<1>2. CASE /\ ~g.releasing /\ gui'.releasing
           /\ \E w \in Workers, j \in Job :
                /\ f[w].kind = "none" /\ j.kind = "release"
                /\ job' = [f EXCEPT ![w] = j]
  <2>1. PICK w \in Workers, j \in Job : /\ f[w].kind = "none" /\ j.kind = "release"
                                        /\ job' = [f EXCEPT ![w] = j]
    BY <1>2
  <2>2. gui' \in Gui /\ gui'.busy = g.busy
    BY RefreshFacts
  <2>3. g.busy \in BOOLEAN /\ g.releasing \in BOOLEAN /\ gui'.releasing \in BOOLEAN
    BY <2>2 DEF Gui
  <2>4. Coord(g.busy, FALSE, f)
    BY <1>2, <2>3
  <2>5. Coord(g.busy, TRUE, [f EXCEPT ![w] = j])
    BY <2>1, <2>3, <2>4, StartReleaseCoord
  <2>6. gui'.releasing = TRUE
    BY <1>2, <2>3
  <2> QED BY <2>1, <2>2, <2>5, <2>6, RefreshFacts
<1> QED BY <1>1, <1>2, RefreshFacts

-----------------------------------------------------------------------------
(***************************************************************************)
(* The steps of a job.                                                      *)
(***************************************************************************)
Seens == {"unknown", "up", "down"}
Moves(w, j) == j \in Job /\ j.kind = job[w].kind /\ job' = [job EXCEPT ![w] = j]

\* What one step may do to the host, and to what its job may do next: only a
\* job past its check removes the guard or raises the VPN.
Effect(w, j) ==
  /\ guard /\ ~guard' => Removing(job[w])
  /\ vpn' /\ ~vpn => Raising(job[w])
  /\ Raising(j) => guard' \/ Raising(job[w])
  /\ Removing(j) => ~vpn' \/ Removing(job[w])

\* Constants of the types, for the steps that only need membership.
LEMMA PcTypes == /\ {"open", "look", "enable", "armed", "start", "up", "check", "verify"} \subseteq Pcs
                 /\ {"askVpn", "askGuard", "cleanup", "stop", "disable", "done"} \subseteq Pcs
                 /\ {"none", "active", "absent"} \subseteq Status
                 /\ GuardStatus \in Status
  BY DEF Pcs, Status, GuardStatus

\* A job that moves on only changes its place.
LEMMA GotoMoves ==
  ASSUME TypeOK, NEW w \in Workers, NEW pc \in Pcs, Goto(w, pc)
  PROVE  \E j \in Job : Moves(w, j) /\ j.pc = pc /\ j.seen = job[w].seen
<1> DEFINE j == [job[w] EXCEPT !.pc = pc]
<1>1. job[w] \in Job
  BY DEF TypeOK
<1>2. j \in Job /\ j.kind = job[w].kind /\ j.pc = pc /\ j.seen = job[w].seen
  BY <1>1 DEF Job
<1>3. job' = [job EXCEPT ![w] = j]
  BY DEF Goto, Put
<1> HIDE DEF j
<1> QED BY <1>2, <1>3 DEF Moves

\* A job that fails is done.
LEMMA FailMoves ==
  ASSUME TypeOK, NEW w \in Workers, NEW known \in Status, NEW retained \in BOOLEAN,
         NEW seen \in Seens, NEW err \in BOOLEAN, Fail(w, known, retained, seen, err)
  PROVE  \E j \in Job : Moves(w, j) /\ j.pc = "done"
<1> DEFINE j == [job[w] EXCEPT !.pc = "done", !.ok = FALSE, !.known = known,
                   !.retained = retained, !.seen = seen, !.err = err]
<1>1. job[w] \in Job
  BY DEF TypeOK
<1>2. j \in Job /\ j.kind = job[w].kind /\ j.pc = "done"
  BY <1>1, PcTypes DEF Job, Seens
<1>3. job' = [job EXCEPT ![w] = j]
  BY DEF Fail, Put
<1> HIDE DEF j
<1> QED BY <1>2, <1>3 DEF Moves

\* A job that returns is done.
LEMMA ReturnMoves ==
  ASSUME TypeOK, NEW w \in Workers, NEW known \in Status, Return(w, known)
  PROVE  \E j \in Job : Moves(w, j) /\ j.pc = "done"
<1> DEFINE j == [job[w] EXCEPT !.pc = "done", !.ok = TRUE, !.known = known]
<1>1. job[w] \in Job
  BY DEF TypeOK
<1>2. j \in Job /\ j.kind = job[w].kind /\ j.pc = "done"
  BY <1>1, PcTypes DEF Job
<1>3. job' = [job EXCEPT ![w] = j]
  BY DEF Return, Put
<1> HIDE DEF j
<1> QED BY <1>2, <1>3 DEF Moves

\* The generic handler leaves the job done.
LEMMA FailGenericMoves ==
  ASSUME TypeOK, NEW w \in Workers, FailGeneric(w)
  PROVE  \E j \in Job : Moves(w, j) /\ j.pc = "done"
<1>1. job[w].before \in BOOLEAN /\ guard \in BOOLEAN
  BY DEF TypeOK, Job
<1>2. (job[w].kind = "connect" => guard) \in BOOLEAN
      /\ (job[w].kind = "connect" => job[w].before) \in BOOLEAN
  BY <1>1
<1>3. "unknown" \in Seens /\ "none" \in Status /\ GuardStatus \in Status
  BY PcTypes DEF Seens
<1>4. CASE Fail(w, GuardStatus, job[w].kind = "connect" => guard, "unknown", FALSE)
  BY <1>2, <1>3, <1>4, FailMoves
<1>5. CASE Fail(w, "none", TRUE, "unknown", TRUE)
  BY <1>3, <1>5, FailMoves
<1>6. CASE Fail(w, "none", job[w].kind = "connect" => job[w].before, "unknown", FALSE)
  BY <1>2, <1>3, <1>6, FailMoves
<1> QED BY <1>4, <1>5, <1>6 DEF FailGeneric

\* The end of a job adds no effect to what its last step did to the host.
LEMMA DoneEffect ==
  ASSUME NEW w \in Workers, NEW j, Moves(w, j), j.pc = "done",
         guard /\ ~guard' => Removing(job[w]), vpn' => vpn
  PROVE  Effect(w, j)
  BY DEF Effect, Removing, Raising, Moves

\* A step that leaves the host alone and goes on to a place that promises nothing.
LEMMA QuietEffect ==
  ASSUME NEW w \in Workers, NEW j, Moves(w, j), guard' = guard, vpn' = vpn,
         j.kind = "connect" => j.pc \notin {"start", "up", "cleanup", "askGuard"},
         j.kind \in {"disconnect", "reconcile"} => j.pc # "disable"
  PROVE  Effect(w, j)
  BY DEF Effect, Removing, Raising, Moves

\* What a step of a job does to the rest of the state.
Stepped(w) ==
  /\ gui' = gui /\ expected' = expected
  /\ guard' \in BOOLEAN /\ vpn' \in BOOLEAN
  /\ \E j \in Job : Moves(w, j) /\ Effect(w, j)

\* The host part of the type invariant.
LEMMA HostTypes == TypeOK => guard \in BOOLEAN /\ vpn \in BOOLEAN
  BY DEF TypeOK

\* Open moves to the first call, or fails.
LEMMA OpenStepped == ASSUME TypeOK, NEW w \in Workers, Open(w) PROVE Stepped(w)
<1>0. gui' = gui /\ expected' = expected /\ guard' = guard /\ vpn' = vpn
  BY DEF Open, Host, Window
<1>1. CASE Goto(w, IF job[w].kind = "release" THEN "check" ELSE "look")
  <2>1. CASE job[w].kind = "release"
    BY <1>1, <2>1, <1>0, PcTypes, HostTypes, GotoMoves, QuietEffect DEF Stepped, Moves
  <2>2. CASE job[w].kind # "release"
    BY <1>1, <2>2, <1>0, PcTypes, HostTypes, GotoMoves, QuietEffect DEF Stepped, Moves
  <2> QED BY <2>1, <2>2
<1>2. CASE FailGeneric(w)
  BY <1>2, <1>0, HostTypes, FailGenericMoves, DoneEffect DEF Stepped
<1> QED BY <1>1, <1>2 DEF Open

\* A connect that finds the guard may go on to the VPN.
LEMMA ConnectLookStepped == ASSUME TypeOK, NEW w \in Workers, ConnectLook(w) PROVE Stepped(w)
<1>0. gui' = gui /\ expected' = expected /\ guard' = guard /\ vpn' = vpn
  BY DEF ConnectLook, Host, Window
<1>1. job[w] \in Job /\ At(w, "connect", "look")
  BY DEF TypeOK, ConnectLook
<1>2. CASE Put(w, [job[w] EXCEPT !.pc = IF guard THEN "start" ELSE "enable",
                                 !.known = IF guard THEN "active" ELSE "none"])
  <2> DEFINE j == [job[w] EXCEPT !.pc = IF guard THEN "start" ELSE "enable",
                                 !.known = IF guard THEN "active" ELSE "none"]
  <2>1. j \in Job /\ j.kind = job[w].kind /\ j.pc = IF guard THEN "start" ELSE "enable"
    BY <1>1, PcTypes DEF Job
  <2>2. job' = [job EXCEPT ![w] = j]
    BY <1>2 DEF Put
  <2> HIDE DEF j
  <2>3. Effect(w, j)
    BY <1>0, <1>1, <2>1 DEF Effect, Removing, Raising, At
  <2> QED BY <1>0, <2>1, <2>2, <2>3, HostTypes DEF Stepped, Moves
<1>3. CASE Goto(w, "askVpn")
  BY <1>3, <1>0, PcTypes, HostTypes, GotoMoves, QuietEffect DEF Stepped, Moves
<1> QED BY <1>2, <1>3 DEF ConnectLook

\* A connect arms the guard, or an answer to it is lost.
LEMMA ConnectEnableStepped == ASSUME TypeOK, NEW w \in Workers, ConnectEnable(w) PROVE Stepped(w)
<1>0. gui' = gui /\ expected' = expected /\ vpn' = vpn
  BY DEF ConnectEnable, Host, Window
<1>a. At(w, "connect", "enable")
  BY DEF ConnectEnable
<1>1. CASE guard' = TRUE /\ Goto(w, "armed")
  <2>1. PICK j \in Job : Moves(w, j) /\ j.pc = "armed" /\ j.seen = job[w].seen
    BY <1>1, PcTypes, GotoMoves
  <2>2. Effect(w, j)
    BY <1>0, <1>a, <1>1, <2>1, HostTypes DEF Effect, Removing, Raising, Moves, At
  <2> QED BY <1>0, <1>1, <2>1, <2>2, HostTypes DEF Stepped
<1>2. CASE guard' \in {guard, TRUE} /\ Goto(w, "askVpn")
  <2>1. PICK j \in Job : Moves(w, j) /\ j.pc = "askVpn" /\ j.seen = job[w].seen
    BY <1>2, PcTypes, GotoMoves
  <2>2. guard => guard'
    BY <1>2
  <2>3. Effect(w, j)
    BY <1>0, <1>a, <2>1, <2>2 DEF Effect, Removing, Raising, Moves, At
  <2> QED BY <1>0, <1>2, <2>1, <2>3, HostTypes DEF Stepped
<1> QED BY <1>1, <1>2 DEF ConnectEnable

\* A connect sees the guard it armed.
LEMMA ConnectArmedStepped == ASSUME TypeOK, NEW w \in Workers, ConnectArmed(w) PROVE Stepped(w)
<1>0. gui' = gui /\ expected' = expected /\ guard' = guard /\ vpn' = vpn
  BY DEF ConnectArmed, Host, Window
<1>a. At(w, "connect", "armed")
  BY DEF ConnectArmed
<1>1. CASE guard /\ Put(w, [job[w] EXCEPT !.pc = "start", !.known = "active"])
  <2> DEFINE j == [job[w] EXCEPT !.pc = "start", !.known = "active"]
  <2>1. job[w] \in Job
    BY DEF TypeOK
  <2>2. j \in Job /\ j.kind = job[w].kind /\ j.pc = "start"
    BY <1>1, <2>1, PcTypes DEF Job, VpnState
  <2>3. job' = [job EXCEPT ![w] = j]
    BY <1>1 DEF Put
  <2> HIDE DEF j
  <2>4. Effect(w, j)
    BY <1>0, <1>a, <1>1, <2>2 DEF Effect, Removing, Raising, At
  <2> QED BY <1>0, <2>2, <2>3, <2>4, HostTypes DEF Stepped, Moves
<1>2. CASE Goto(w, "askVpn")
  BY <1>2, <1>0, <1>a, PcTypes, HostTypes, GotoMoves, QuietEffect DEF Stepped, Moves, At
<1> QED BY <1>1, <1>2 DEF ConnectArmed

\* A connect takes the old VPN down first.
LEMMA ConnectStartStepped == ASSUME TypeOK, NEW w \in Workers, ConnectStart(w) PROVE Stepped(w)
<1>0. gui' = gui /\ expected' = expected /\ guard' = guard
  BY DEF ConnectStart, Host, Window
<1>a. At(w, "connect", "start")
  BY DEF ConnectStart
<1>1. CASE vpn' = FALSE /\ Goto(w, "up")
  <2>1. PICK j \in Job : Moves(w, j) /\ j.pc = "up" /\ j.seen = job[w].seen
    BY <1>1, PcTypes, GotoMoves
  <2>2. Effect(w, j)
    BY <1>0, <1>a, <1>1, <2>1, HostTypes DEF Effect, Removing, Raising, Moves, At
  <2> QED BY <1>0, <1>1, <2>1, <2>2, HostTypes DEF Stepped
<1>2. CASE vpn' \in {vpn, FALSE} /\ Goto(w, "askVpn")
  <2>1. PICK j \in Job : Moves(w, j) /\ j.pc = "askVpn" /\ j.seen = job[w].seen
    BY <1>2, PcTypes, GotoMoves
  <2>2. Effect(w, j)
    BY <1>0, <1>a, <1>2, <2>1, HostTypes DEF Effect, Removing, Raising, Moves, At
  <2> QED BY <1>0, <1>2, <2>1, <2>2, HostTypes DEF Stepped
<1> QED BY <1>1, <1>2 DEF ConnectStart

\* The VPN comes up, or its answer is lost.
LEMMA ConnectUpStepped == ASSUME TypeOK, NEW w \in Workers, ConnectUp(w) PROVE Stepped(w)
<1>0. gui' = gui /\ expected' = expected /\ guard' = guard
  BY DEF ConnectUp, Host, Window
<1>a. At(w, "connect", "up")
  BY DEF ConnectUp
<1>1. CASE vpn' = TRUE /\ Goto(w, "check")
  <2>1. PICK j \in Job : Moves(w, j) /\ j.pc = "check" /\ j.seen = job[w].seen
    BY <1>1, PcTypes, GotoMoves
  <2>2. Effect(w, j)
    BY <1>0, <1>a, <1>1, <2>1, HostTypes DEF Effect, Removing, Raising, Moves, At
  <2> QED BY <1>0, <1>1, <2>1, <2>2, HostTypes DEF Stepped
<1>2. CASE vpn' \in BOOLEAN /\ Goto(w, "askVpn")
  <2>1. PICK j \in Job : Moves(w, j) /\ j.pc = "askVpn" /\ j.seen = job[w].seen
    BY <1>2, PcTypes, GotoMoves
  <2>2. Effect(w, j)
    BY <1>0, <1>a, <1>2, <2>1, HostTypes DEF Effect, Removing, Raising, Moves, At
  <2> QED BY <1>0, <1>2, <2>1, <2>2, HostTypes DEF Stepped
<1> QED BY <1>1, <1>2 DEF ConnectUp

\* A connect asks for the VPN.
LEMMA ConnectCheckStepped == ASSUME TypeOK, NEW w \in Workers, ConnectCheck(w) PROVE Stepped(w)
<1>0. gui' = gui /\ expected' = expected /\ guard' = guard /\ vpn' = vpn
  BY DEF ConnectCheck, Host, Window
<1>a. At(w, "connect", "check")
  BY DEF ConnectCheck
<1>1. CASE Goto(w, "verify")
  BY <1>1, <1>0, <1>a, PcTypes, HostTypes, GotoMoves, QuietEffect DEF Stepped, Moves, At
<1>2. CASE Goto(w, "askVpn")
  BY <1>2, <1>0, <1>a, PcTypes, HostTypes, GotoMoves, QuietEffect DEF Stepped, Moves, At
<1> QED BY <1>1, <1>2 DEF ConnectCheck

\* A connect asks for the guard once more.
LEMMA ConnectVerifyStepped == ASSUME TypeOK, NEW w \in Workers, ConnectVerify(w) PROVE Stepped(w)
<1>0. gui' = gui /\ expected' = expected /\ guard' = guard /\ vpn' = vpn
  BY DEF ConnectVerify, Host, Window
<1>a. At(w, "connect", "verify")
  BY DEF ConnectVerify
<1>1. CASE Return(w, "active")
  <2>1. PICK j \in Job : Moves(w, j) /\ j.pc = "done"
    BY <1>1, PcTypes, ReturnMoves
  <2>2. Effect(w, j)
    BY <1>0, <1>a, <1>1, <2>1, DoneEffect DEF Removing, At
  <2> QED BY <1>0, <1>1, <2>1, <2>2, HostTypes DEF Stepped
<1>2. CASE Put(w, [job[w] EXCEPT !.pc = "askVpn", !.known = "absent"])
  <2> DEFINE j == [job[w] EXCEPT !.pc = "askVpn", !.known = "absent"]
  <2>1. job[w] \in Job
    BY DEF TypeOK
  <2>2. j \in Job /\ j.kind = job[w].kind /\ j.pc = "askVpn"
    BY <1>2, <2>1, PcTypes DEF Job, VpnState
  <2>3. job' = [job EXCEPT ![w] = j]
    BY <1>2 DEF Put
  <2> HIDE DEF j
  <2>4. Effect(w, j)
    BY <1>0, <1>a, <1>2, <2>2 DEF Effect, Removing, Raising, At
  <2> QED BY <1>0, <2>2, <2>3, <2>4, HostTypes DEF Stepped, Moves
<1>3. CASE Goto(w, "askVpn")
  BY <1>3, <1>0, <1>a, PcTypes, HostTypes, GotoMoves, QuietEffect DEF Stepped, Moves, At
<1> QED BY <1>1, <1>2, <1>3 DEF ConnectVerify

\* A failed connect reads the VPN: down is what allows the removal.
LEMMA ConnectFailedAskVpnStepped == ASSUME TypeOK, NEW w \in Workers, ConnectFailedAskVpn(w) PROVE Stepped(w)
<1>0. gui' = gui /\ expected' = expected /\ guard' = guard /\ vpn' = vpn
  BY DEF ConnectFailedAskVpn, Host, Window
<1>a. At(w, "connect", "askVpn")
  BY DEF ConnectFailedAskVpn
<1>1. PICK seen \in {VpnState, "unknown"} :
              Put(w, [job[w] EXCEPT !.pc = "askGuard", !.seen = seen])
  BY DEF ConnectFailedAskVpn
  <1> DEFINE j == [job[w] EXCEPT !.pc = "askGuard", !.seen = seen]
<1>3. job[w] \in Job
  BY DEF TypeOK
<1>4. j \in Job /\ j.kind = job[w].kind /\ j.pc = "askGuard" /\ j.seen = seen
  BY <1>3, PcTypes DEF Job, VpnState
<1>5. job' = [job EXCEPT ![w] = j]
  BY <1>1 DEF Put
<1> HIDE DEF j
<1>6. Effect(w, j)
  BY <1>0, <1>a, <1>1, <1>4 DEF Effect, Removing, Raising, At, VpnState
<1> QED BY <1>0, <1>4, <1>5, <1>6, HostTypes DEF Stepped, Moves

\* A failed connect removes the guard only after it read the VPN down.
LEMMA ConnectFailedAskGuardStepped == ASSUME TypeOK, NEW w \in Workers, ConnectFailedAskGuard(w) PROVE Stepped(w)
<1>0. gui' = gui /\ expected' = expected /\ guard' = guard /\ vpn' = vpn
  BY DEF ConnectFailedAskGuard, Host, Window
<1>a. At(w, "connect", "askGuard")
  BY DEF ConnectFailedAskGuard
<1>b. job[w] \in Job
  BY DEF TypeOK
<1>1. PICK known \in {GuardStatus, job[w].known} :
        IF job[w].seen = "down" /\ known = "active"
        THEN Put(w, [job[w] EXCEPT !.pc = "cleanup", !.known = known])
        ELSE Fail(w, known, job[w].seen # "down" \/ known # "absent", job[w].seen, FALSE)
  BY DEF ConnectFailedAskGuard
<1>c. known \in Status
  BY <1>b, <1>1, PcTypes DEF Job
<1>2. CASE job[w].seen = "down" /\ known = "active"
  <2> DEFINE j == [job[w] EXCEPT !.pc = "cleanup", !.known = known]
  <2>1. j \in Job /\ j.kind = job[w].kind /\ j.pc = "cleanup"
    BY <1>b, <1>c, PcTypes DEF Job
  <2>2. job' = [job EXCEPT ![w] = j]
    BY <1>1, <1>2 DEF Put
  <2> HIDE DEF j
  <2>3. Effect(w, j)
    BY <1>0, <1>a, <1>2, <2>1 DEF Effect, Removing, Raising, At
  <2> QED BY <1>0, <2>1, <2>2, <2>3, HostTypes DEF Stepped, Moves
<1>3. CASE ~(job[w].seen = "down" /\ known = "active")
  <2>1. job[w].seen \in Seens
    BY <1>b DEF Job, Seens
  <2>2. (job[w].seen # "down" \/ known # "absent") \in BOOLEAN
    OBVIOUS
  <2>3. Fail(w, known, job[w].seen # "down" \/ known # "absent", job[w].seen, FALSE)
    BY <1>1, <1>3
  <2>4. PICK j \in Job : Moves(w, j) /\ j.pc = "done"
    BY <1>c, <2>1, <2>2, <2>3, FailMoves
  <2>5. Effect(w, j)
    BY <1>0, <2>4, DoneEffect
  <2> QED BY <1>0, <2>4, <2>5, HostTypes DEF Stepped
<1> QED BY <1>2, <1>3

\* The removal a failed connect ends with.
LEMMA ConnectCleanupStepped == ASSUME TypeOK, NEW w \in Workers, ConnectCleanup(w) PROVE Stepped(w)
<1>0. gui' = gui /\ expected' = expected /\ vpn' = vpn
  BY DEF ConnectCleanup, Host, Window
<1>a. At(w, "connect", "cleanup")
  BY DEF ConnectCleanup
<1>b. job[w] \in Job /\ job[w].known \in Status /\ job[w].seen \in Seens
  BY DEF TypeOK, Job, Seens
<1>1. CASE guard' = FALSE /\ Fail(w, "absent", FALSE, job[w].seen, FALSE)
  <2>1. PICK j \in Job : Moves(w, j) /\ j.pc = "done"
    BY <1>b, <1>1, PcTypes, HostTypes, FailMoves DEF Seens
  <2>2. (guard /\ ~guard' => Removing(job[w])) /\ (vpn' => vpn)
    BY <1>0, <1>a, <1>1, HostTypes DEF Removing, At
  <2>3. Effect(w, j)
    BY <2>1, <2>2, DoneEffect
  <2> QED BY <1>0, <1>1, <2>1, <2>3, HostTypes DEF Stepped
<1>2. CASE guard' \in {guard, FALSE} /\ Fail(w, "active", TRUE, job[w].seen, TRUE)
  <2>1. PICK j \in Job : Moves(w, j) /\ j.pc = "done"
    BY <1>b, <1>2, PcTypes, HostTypes, FailMoves DEF Seens
  <2>2. (guard /\ ~guard' => Removing(job[w])) /\ (vpn' => vpn)
    BY <1>0, <1>a, <1>2, HostTypes DEF Removing, At
  <2>3. Effect(w, j)
    BY <2>1, <2>2, DoneEffect
  <2> QED BY <1>0, <1>2, <2>1, <2>3, HostTypes DEF Stepped
<1> QED BY <1>1, <1>2 DEF ConnectCleanup

\* A disconnect notes the guard it finds.
LEMMA DisconnectLookStepped == ASSUME TypeOK, NEW w \in Workers, DisconnectLook(w) PROVE Stepped(w)
<1>0. gui' = gui /\ expected' = expected /\ guard' = guard /\ vpn' = vpn
  BY DEF DisconnectLook, Host, Window
<1>a. At(w, "disconnect", "look")
  BY DEF DisconnectLook
<1>1. CASE Put(w, [job[w] EXCEPT !.pc = "stop", !.known = GuardStatus])
  <2> DEFINE j == [job[w] EXCEPT !.pc = "stop", !.known = GuardStatus]
  <2>1. job[w] \in Job
    BY DEF TypeOK
  <2>2. j \in Job /\ j.kind = job[w].kind /\ j.pc = "stop"
    BY <1>1, <2>1, PcTypes DEF Job, VpnState
  <2>3. job' = [job EXCEPT ![w] = j]
    BY <1>1 DEF Put
  <2> HIDE DEF j
  <2>4. Effect(w, j)
    BY <1>0, <1>a, <1>1, <2>2 DEF Effect, Removing, Raising, At
  <2> QED BY <1>0, <2>2, <2>3, <2>4, HostTypes DEF Stepped, Moves
<1>2. CASE FailGeneric(w)
  BY <1>2, <1>0, HostTypes, FailGenericMoves, DoneEffect DEF Stepped
<1> QED BY <1>1, <1>2 DEF DisconnectLook

\* A disconnect stops the VPN, or reports it as still up.
LEMMA DisconnectStopStepped == ASSUME TypeOK, NEW w \in Workers, DisconnectStop(w) PROVE Stepped(w)
<1>0. gui' = gui /\ expected' = expected /\ guard' = guard
  BY DEF DisconnectStop, Host, Window
<1>a. At(w, "disconnect", "stop")
  BY DEF DisconnectStop
<1>b. job[w] \in Job /\ job[w].known \in Status /\ job[w].seen \in Seens
  BY DEF TypeOK, Job, Seens
<1>1. CASE vpn' = FALSE /\ Goto(w, "disable")
  <2>1. PICK j \in Job : Moves(w, j) /\ j.pc = "disable" /\ j.seen = job[w].seen
    BY <1>1, PcTypes, GotoMoves
  <2>2. Effect(w, j)
    BY <1>0, <1>a, <1>1, <2>1 DEF Effect, Removing, Raising, Moves, At
  <2> QED BY <1>0, <1>1, <2>1, <2>2, HostTypes DEF Stepped
<1>2. CASE /\ vpn' \in {vpn, FALSE}
           /\ \E known \in {GuardStatus, job[w].known} : Fail(w, known, known = "active", "up", FALSE)
  <2>1. PICK known \in {GuardStatus, job[w].known} : Fail(w, known, known = "active", "up", FALSE)
    BY <1>2
  <2>2. PICK j \in Job : Moves(w, j) /\ j.pc = "done"
    BY <1>b, <1>2, <2>1, PcTypes, HostTypes, FailMoves DEF Seens
  <2>3. (guard /\ ~guard' => Removing(job[w])) /\ (vpn' => vpn)
    BY <1>0, <1>a, <1>2, HostTypes DEF Removing, At
  <2>4. Effect(w, j)
    BY <2>2, <2>3, DoneEffect
  <2> QED BY <1>0, <1>2, <2>2, <2>4, HostTypes DEF Stepped
<1> QED BY <1>1, <1>2 DEF DisconnectStop

\* A disconnect removes the guard after it stopped the VPN.
LEMMA DisconnectDisableStepped == ASSUME TypeOK, NEW w \in Workers, DisconnectDisable(w) PROVE Stepped(w)
<1>0. gui' = gui /\ expected' = expected /\ vpn' = vpn
  BY DEF DisconnectDisable, Host, Window
<1>a. At(w, "disconnect", "disable")
  BY DEF DisconnectDisable
<1>b. job[w] \in Job /\ job[w].known \in Status /\ job[w].seen \in Seens
  BY DEF TypeOK, Job, Seens
<1>1. CASE guard' = FALSE /\ Return(w, "absent")
  <2>1. PICK j \in Job : Moves(w, j) /\ j.pc = "done"
    BY <1>1, PcTypes, ReturnMoves
  <2>2. Effect(w, j)
    BY <1>0, <1>a, <1>1, <2>1, DoneEffect DEF Removing, At
  <2> QED BY <1>0, <1>1, <2>1, <2>2, HostTypes DEF Stepped
<1>2. CASE /\ guard' \in {guard, FALSE}
           /\ \E known \in {IF guard' THEN "active" ELSE "absent", job[w].known} :
                Fail(w, known, TRUE, "down", FALSE)
  <2>1. PICK known \in {IF guard' THEN "active" ELSE "absent", job[w].known} : Fail(w, known, TRUE, "down", FALSE)
    BY <1>2
  <2>2. PICK j \in Job : Moves(w, j) /\ j.pc = "done"
    BY <1>b, <1>2, <2>1, PcTypes, HostTypes, FailMoves DEF Seens
  <2>3. (guard /\ ~guard' => Removing(job[w])) /\ (vpn' => vpn)
    BY <1>0, <1>a, <1>2, HostTypes DEF Removing, At
  <2>4. Effect(w, j)
    BY <2>2, <2>3, DoneEffect
  <2> QED BY <1>0, <1>2, <2>2, <2>4, HostTypes DEF Stepped
<1> QED BY <1>1, <1>2 DEF DisconnectDisable

\* A release reads the VPN once.
LEMMA ReleaseCheckStepped == ASSUME TypeOK, NEW w \in Workers, ReleaseCheck(w) PROVE Stepped(w)
<1>0. gui' = gui /\ expected' = expected /\ guard' = guard /\ vpn' = vpn
  BY DEF ReleaseCheck, Host, Window
<1>a. At(w, "release", "check")
  BY DEF ReleaseCheck
<1>1. CASE Goto(w, "disable")
  <2>1. PICK j \in Job : Moves(w, j) /\ j.pc = "disable" /\ j.seen = job[w].seen
    BY <1>1, PcTypes, GotoMoves
  <2>2. Effect(w, j)
    BY <1>0, <1>a, <1>1, <2>1 DEF Effect, Removing, Raising, Moves, At
  <2> QED BY <1>0, <1>1, <2>1, <2>2, HostTypes DEF Stepped
<1>2. CASE FailGeneric(w)
  BY <1>2, <1>0, HostTypes, FailGenericMoves, DoneEffect DEF Stepped
<1> QED BY <1>1, <1>2 DEF ReleaseCheck

\* A release removes the guard.
LEMMA ReleaseDisableStepped == ASSUME TypeOK, NEW w \in Workers, ReleaseDisable(w) PROVE Stepped(w)
<1>0. gui' = gui /\ expected' = expected /\ vpn' = vpn
  BY DEF ReleaseDisable, Host, Window
<1>a. At(w, "release", "disable")
  BY DEF ReleaseDisable
<1>b. job[w] \in Job /\ job[w].known \in Status /\ job[w].seen \in Seens
  BY DEF TypeOK, Job, Seens
<1>1. CASE guard' = FALSE /\ Return(w, "absent")
  <2>1. PICK j \in Job : Moves(w, j) /\ j.pc = "done"
    BY <1>1, PcTypes, ReturnMoves
  <2>2. Effect(w, j)
    BY <1>0, <1>a, <1>1, <2>1, DoneEffect DEF Removing, At
  <2> QED BY <1>0, <1>1, <2>1, <2>2, HostTypes DEF Stepped
<1>2. CASE /\ guard' \in {guard, FALSE}
           /\ \E known \in {IF guard' THEN "active" ELSE "absent", "none"} :
                Fail(w, known, TRUE, "down", known = "none")
  <2>1. PICK known \in {IF guard' THEN "active" ELSE "absent", "none"} : Fail(w, known, TRUE, "down", known = "none")
    BY <1>2
  <2>2. PICK j \in Job : Moves(w, j) /\ j.pc = "done"
    BY <1>b, <1>2, <2>1, PcTypes, HostTypes, FailMoves DEF Seens
  <2>3. (guard /\ ~guard' => Removing(job[w])) /\ (vpn' => vpn)
    BY <1>0, <1>a, <1>2, HostTypes DEF Removing, At
  <2>4. Effect(w, j)
    BY <2>2, <2>3, DoneEffect
  <2> QED BY <1>0, <1>2, <2>2, <2>4, HostTypes DEF Stepped
<1> QED BY <1>1, <1>2 DEF ReleaseDisable

\* The start-up check notes the guard it finds.
LEMMA ReconcileLookStepped == ASSUME TypeOK, NEW w \in Workers, ReconcileLook(w) PROVE Stepped(w)
<1>0. gui' = gui /\ expected' = expected /\ guard' = guard /\ vpn' = vpn
  BY DEF ReconcileLook, Host, Window
<1>a. At(w, "reconcile", "look")
  BY DEF ReconcileLook
<1>1. CASE Put(w, [job[w] EXCEPT !.pc = "check", !.known = GuardStatus])
  <2> DEFINE j == [job[w] EXCEPT !.pc = "check", !.known = GuardStatus]
  <2>1. job[w] \in Job
    BY DEF TypeOK
  <2>2. j \in Job /\ j.kind = job[w].kind /\ j.pc = "check"
    BY <1>1, <2>1, PcTypes DEF Job, VpnState
  <2>3. job' = [job EXCEPT ![w] = j]
    BY <1>1 DEF Put
  <2> HIDE DEF j
  <2>4. Effect(w, j)
    BY <1>0, <1>a, <1>1, <2>2 DEF Effect, Removing, Raising, At
  <2> QED BY <1>0, <2>2, <2>3, <2>4, HostTypes DEF Stepped, Moves
<1>2. CASE FailGeneric(w)
  BY <1>2, <1>0, HostTypes, FailGenericMoves, DoneEffect DEF Stepped
<1> QED BY <1>1, <1>2 DEF ReconcileLook

\* The start-up check goes to a removal only if it read the VPN down.
LEMMA ReconcileCheckStepped == ASSUME TypeOK, NEW w \in Workers, ReconcileCheck(w) PROVE Stepped(w)
<1>0. gui' = gui /\ expected' = expected /\ guard' = guard /\ vpn' = vpn
  BY DEF ReconcileCheck, Host, Window
<1>a. At(w, "reconcile", "check")
  BY DEF ReconcileCheck
<1>1. CASE LET j == [job[w] EXCEPT !.seen = VpnState] IN
           Put(w, IF vpn = (j.known = "active") THEN [j EXCEPT !.pc = "done", !.ok = TRUE]
                  ELSE [j EXCEPT !.pc = IF vpn THEN "stop" ELSE "disable"])
  <2> DEFINE i == [job[w] EXCEPT !.seen = VpnState]
             j == IF vpn = (i.known = "active") THEN [i EXCEPT !.pc = "done", !.ok = TRUE]
                  ELSE [i EXCEPT !.pc = IF vpn THEN "stop" ELSE "disable"]
  <2>1. job[w] \in Job /\ VpnState \in {"unknown", "up", "down"}
    BY DEF TypeOK, VpnState
  <2>2. i \in Job /\ i.kind = job[w].kind
    BY <2>1 DEF Job
  <2>3. job' = [job EXCEPT ![w] = j]
    BY <1>1 DEF Put
  <2> HIDE DEF i
  <2>4. j \in Job /\ j.kind = job[w].kind
    BY <2>2, PcTypes DEF Job
  <2>5. j.pc \in {"done", "stop"} \/ (j.pc = "disable" /\ ~vpn)
    BY <2>2 DEF Job
  <2> HIDE DEF j
  <2>6. Effect(w, j)
    BY <1>0, <1>a, <2>4, <2>5 DEF Effect, Removing, Raising, At
  <2> QED BY <1>0, <2>3, <2>4, <2>6, HostTypes DEF Stepped, Moves
<1>2. CASE FailGeneric(w)
  BY <1>2, <1>0, HostTypes, FailGenericMoves, DoneEffect DEF Stepped
<1> QED BY <1>1, <1>2 DEF ReconcileCheck

\* The start-up check removes a guard without its VPN.
LEMMA ReconcileDisableStepped == ASSUME TypeOK, NEW w \in Workers, ReconcileDisable(w) PROVE Stepped(w)
<1>0. gui' = gui /\ expected' = expected /\ vpn' = vpn
  BY DEF ReconcileDisable, Host, Window
<1>a. At(w, "reconcile", "disable")
  BY DEF ReconcileDisable
<1>b. job[w] \in Job /\ job[w].known \in Status /\ job[w].seen \in Seens
  BY DEF TypeOK, Job, Seens
<1>1. CASE guard' = FALSE /\ Return(w, "absent")
  <2>1. PICK j \in Job : Moves(w, j) /\ j.pc = "done"
    BY <1>1, PcTypes, ReturnMoves
  <2>2. Effect(w, j)
    BY <1>0, <1>a, <1>1, <2>1, DoneEffect DEF Removing, At
  <2> QED BY <1>0, <1>1, <2>1, <2>2, HostTypes DEF Stepped
<1>2. CASE guard' \in {guard, FALSE} /\ Fail(w, "none", TRUE, "unknown", TRUE)
  <2>1. PICK j \in Job : Moves(w, j) /\ j.pc = "done"
    BY <1>2, PcTypes, HostTypes, FailMoves DEF Seens
  <2>2. (guard /\ ~guard' => Removing(job[w])) /\ (vpn' => vpn)
    BY <1>0, <1>a, <1>2, HostTypes DEF Removing, At
  <2>3. Effect(w, j)
    BY <2>1, <2>2, DoneEffect
  <2> QED BY <1>0, <1>2, <2>1, <2>3, HostTypes DEF Stepped
<1>3. CASE /\ guard' \in {guard, FALSE}
           /\ Fail(w, IF guard' THEN "active" ELSE "absent", TRUE, "unknown", FALSE)
  <2>1. PICK known \in Status : Fail(w, known, TRUE, "unknown", FALSE)
    BY <1>3, PcTypes
  <2>2. PICK j \in Job : Moves(w, j) /\ j.pc = "done"
    BY <1>b, <1>3, <2>1, PcTypes, HostTypes, FailMoves DEF Seens
  <2>3. (guard /\ ~guard' => Removing(job[w])) /\ (vpn' => vpn)
    BY <1>0, <1>a, <1>3, HostTypes DEF Removing, At
  <2>4. Effect(w, j)
    BY <2>2, <2>3, DoneEffect
  <2> QED BY <1>0, <1>3, <2>2, <2>4, HostTypes DEF Stepped
<1> QED BY <1>1, <1>2, <1>3 DEF ReconcileDisable

\* The start-up check stops a VPN without its guard.
LEMMA ReconcileStopStepped == ASSUME TypeOK, NEW w \in Workers, ReconcileStop(w) PROVE Stepped(w)
<1>0. gui' = gui /\ expected' = expected /\ guard' = guard
  BY DEF ReconcileStop, Host, Window
<1>a. At(w, "reconcile", "stop")
  BY DEF ReconcileStop
<1>1. CASE /\ vpn' = FALSE
           /\ Put(w, [job[w] EXCEPT !.pc = "done", !.ok = TRUE, !.seen = "down"])
  <2> DEFINE j == [job[w] EXCEPT !.pc = "done", !.ok = TRUE, !.seen = "down"]
  <2>1. job[w] \in Job
    BY DEF TypeOK
  <2>2. j \in Job /\ j.kind = job[w].kind /\ j.pc = "done"
    BY <1>1, <2>1, PcTypes DEF Job, VpnState
  <2>3. job' = [job EXCEPT ![w] = j]
    BY <1>1 DEF Put
  <2> HIDE DEF j
  <2>4. Effect(w, j)
    BY <1>0, <1>a, <1>1, <2>2 DEF Effect, Removing, Raising, At
  <2> QED BY <1>0, <1>1, <2>2, <2>3, <2>4, HostTypes DEF Stepped, Moves
<1>2. CASE /\ vpn' \in {vpn, FALSE}
           /\ \E e \in BOOLEAN : Fail(w, IF e THEN "none" ELSE GuardStatus, TRUE, "up", e)
  <2>0. vpn' \in {vpn, FALSE}
    BY <1>2
  <2>1. PICK known \in Status, e \in BOOLEAN : Fail(w, known, TRUE, "up", e)
    BY <1>2, PcTypes
  <2>2. PICK j \in Job : Moves(w, j) /\ j.pc = "done"
    BY <1>2, <2>1, PcTypes, HostTypes, FailMoves DEF Seens
  <2>3. vpn' => vpn
    BY <2>0
  <2>4. Effect(w, j)
    BY <1>0, <2>2, <2>3, DoneEffect
  <2> QED BY <1>0, <2>0, <2>2, <2>4, HostTypes DEF Stepped
<1> QED BY <1>1, <1>2 DEF ReconcileStop

\* Every step of a job.
LEMMA JobStepped == ASSUME TypeOK, NEW w \in Workers, JobStep(w) PROVE Stepped(w)
  BY OpenStepped, ConnectLookStepped, ConnectEnableStepped, ConnectArmedStepped,
     ConnectStartStepped, ConnectUpStepped, ConnectCheckStepped,
     ConnectVerifyStepped, ConnectFailedAskVpnStepped,
     ConnectFailedAskGuardStepped, ConnectCleanupStepped, DisconnectLookStepped,
     DisconnectStopStepped, DisconnectDisableStepped, ReleaseCheckStepped,
     ReleaseDisableStepped, ReconcileLookStepped, ReconcileCheckStepped,
     ReconcileDisableStepped, ReconcileStopStepped DEF JobStep

-----------------------------------------------------------------------------
(***************************************************************************)
(* Every step keeps both layers.                                            *)
(***************************************************************************)
\* What is shown of every action: Coord survives it; if the user does not connect
\* during a release Safe does too, and no guarded tunnel loses its guard.
Kept ==
  /\ CoordInv'
  /\ ~ConnectDuringRelease /\ Safe(guard, vpn, job) =>
       Safe(guard', vpn', job') /\ (TunnelIsGuarded => TunnelIsGuarded')

\* A step of a job: the host changes only where no other job relies on it.
LEMMA JobStepKept == ASSUME CoordInv, NEW w \in Workers, JobStep(w) PROVE Kept
<1>1. PICK j \in Job : Moves(w, j) /\ Effect(w, j)
  BY JobStepped DEF Stepped, CoordInv
<1>2. gui' = gui /\ expected' = expected /\ guard' \in BOOLEAN /\ vpn' \in BOOLEAN
  BY JobStepped DEF Stepped, CoordInv
<1>3. job \in [Workers -> Job] /\ gui \in Gui /\ gui.busy \in BOOLEAN /\ gui.releasing \in BOOLEAN
  BY DEF CoordInv, TypeOK, Gui
<1>4. job' = [job EXCEPT ![w] = j] /\ j.kind = job[w].kind
  BY <1>1 DEF Moves
<1>5. TypeOK'
  BY <1>2, <1>3, <1>4 DEF CoordInv, TypeOK
<1>6. Coord(gui.busy, gui.releasing, job')
  BY <1>3, <1>4, StepCoord DEF CoordInv
<1>7. ASSUME Safe(guard, vpn, job)
      PROVE  Safe(guard', vpn', job') /\ (TunnelIsGuarded => TunnelIsGuarded')
  <2> DEFINE K(v) == job[v].kind
  <2>1. \A v \in Workers : v # w => job'[v] = job[v]
    BY <1>3, <1>4
  <2>2. job'[w] = j
    BY <1>3, <1>4
  <2>3. \A v \in Workers : K(v) # "none" /\ K(v) # "release" /\ K(w) # "none" /\ K(w) # "release"
                           => v = w
    BY DEF CoordInv, Coord, Busy
  <2>4. guard \in BOOLEAN /\ vpn \in BOOLEAN
    BY HostTypes DEF CoordInv
  <2>5. \A v \in Workers : Raising(job[v]) /\ Removing(job[w]) => FALSE
    BY <1>7, <2>3 DEF Safe, Raising, Removing
  <2>6. \A v \in Workers : Removing(job[v]) /\ Raising(job[w]) => FALSE
    BY <1>7, <2>3 DEF Safe, Raising, Removing
  <2>7. TunnelIsGuarded => TunnelIsGuarded'
    BY <1>1, <1>7, <2>4, <2>5 DEF Safe, Effect, TunnelIsGuarded
  <2>8. \A v \in Workers : Raising(job'[v]) => guard'
    BY <1>1, <1>7, <2>1, <2>2, <2>4, <2>5 DEF Safe, Effect
  <2>9. \A v \in Workers : Removing(job'[v]) => ~vpn'
    BY <1>1, <1>7, <2>1, <2>2, <2>4, <2>6 DEF Safe, Effect
  <2>10. \A u, v \in Workers : ~(job'[u].kind = "connect" /\ job'[v].kind = "release")
    BY <1>4, <1>7, <2>1, <2>2 DEF Safe
  <2> QED BY <2>7, <2>8, <2>9, <2>10 DEF Safe
<1> QED BY <1>2, <1>5, <1>6, <1>7 DEF Kept, CoordInv

\* A release that starts finds the VPN down and no busy job.
LEMMA StartReleaseSafe ==
  ASSUME NEW gd \in BOOLEAN, NEW r, NEW f \in [Workers -> Job], NEW w \in Workers,
         NEW j \in Job, j.kind = "release", Coord(FALSE, r, f), Safe(gd, FALSE, f)
  PROVE  Safe(gd, FALSE, [f EXCEPT ![w] = j])
<1>1. \A v \in Workers : f[v].kind # "connect"
  BY DEF Coord, Busy
<1>2. \A v \in Workers : [f EXCEPT ![w] = j][v].kind # "connect"
  BY <1>1
<1> QED BY <1>2 DEF Safe, Raising

\* Jobs that end, and a VPN that goes down, only weaken what must hold.
LEMMA WeakerSafe ==
  ASSUME NEW gd \in BOOLEAN, NEW vp \in BOOLEAN, NEW up \in BOOLEAN, up => vp,
         NEW f \in [Workers -> Job], NEW h \in [Workers -> Job],
         \A v \in Workers : h[v] = f[v] \/ h[v] = NoJob, Safe(gd, vp, f)
  PROVE  Safe(gd, up, h)
<1>a. NoJob.kind = "none"
  BY DEF NoJob
<1>b. ~Raising(NoJob) /\ ~Removing(NoJob)
  BY <1>a DEF Raising, Removing
<1>1. \A v \in Workers : /\ Raising(h[v]) => Raising(f[v])
                         /\ Removing(h[v]) => Removing(f[v])
                         /\ h[v].kind \in {"connect", "release"} => h[v] = f[v]
  BY <1>a, <1>b
<1> QED BY <1>1 DEF Safe

\* A handler that refreshes the window, where every job goes on or rests, the
\* VPN does not come up, and the flags it sets agree with the jobs left.
LEMMA WindowKept ==
  ASSUME CoordInv, NEW g \in Gui, NEW e \in BOOLEAN, NEW up \in BOOLEAN, NEW f \in [Workers -> Job],
         \A v \in Workers : f[v] = job[v] \/ f[v] = NoJob,
         guard' = guard, vpn' = up, up => vpn,
         Refresh(g, e, f, up), Coord(g.busy, g.releasing, f)
  PROVE  Kept
<1>1. TypeOK /\ guard \in BOOLEAN /\ vpn \in BOOLEAN /\ job \in [Workers -> Job]
  BY DEF CoordInv, TypeOK
<1>2. /\ expected' \in BOOLEAN /\ gui' \in Gui /\ job' \in [Workers -> Job]
      /\ Coord(gui'.busy, gui'.releasing, job')
  BY <1>1, RefreshCoord
<1>3. CoordInv'
  BY <1>1, <1>2 DEF CoordInv, TypeOK
<1>4. ASSUME Safe(guard, vpn, job) PROVE Safe(guard', vpn', job')
  <2>1. Safe(guard, up, f)
    BY <1>1, <1>4, WeakerSafe
  <2>2. CASE job' = f
    BY <2>1, <2>2
  <2>3. CASE /\ ~up /\ ~g.busy
             /\ \E w \in Workers, j \in Job : j.kind = "release" /\ job' = [f EXCEPT ![w] = j]
    <3>1. PICK w \in Workers, j \in Job : j.kind = "release" /\ job' = [f EXCEPT ![w] = j]
      BY <2>3
    <3>2. up = FALSE /\ g.busy = FALSE
      BY <2>3 DEF Gui
    <3>3. Safe(guard, FALSE, job')
      BY <1>1, <2>1, <3>1, <3>2, StartReleaseSafe
    <3> QED BY <3>2, <3>3
  <2> QED BY <1>1, <2>2, <2>3, RefreshFacts
<1>5. TunnelIsGuarded => TunnelIsGuarded'
  BY DEF TunnelIsGuarded
<1> QED BY <1>3, <1>4, <1>5 DEF Kept

\* The same for a handler that stops the VPN itself.
LEMMA StopKept ==
  ASSUME CoordInv, NEW g \in Gui, NEW e \in BOOLEAN, NEW f \in [Workers -> Job],
         \A v \in Workers : f[v] = job[v] \/ f[v] = NoJob,
         guard' = guard, StopInWindow(g, e, f), Coord(g.busy, g.releasing, f)
  PROVE  Kept
<1>1. vpn \in BOOLEAN
  BY DEF CoordInv, TypeOK
<1>2. CASE vpn /\ vpn' = FALSE /\ Refresh([g EXCEPT !.last = FALSE], e, f, FALSE)
  <2> DEFINE h == [g EXCEPT !.last = FALSE]
  <2>1. h \in Gui /\ h.busy = g.busy /\ h.releasing = g.releasing
    BY DEF Gui
  <2>2. Refresh(h, e, f, FALSE) /\ vpn' = FALSE
    BY <1>2
  <2> HIDE DEF h
  <2> QED BY <2>1, <2>2, WindowKept
<1>3. CASE vpn' \in {vpn, FALSE} /\ Refresh(g, e, f, vpn')
  <2>1. vpn' \in {vpn, FALSE} /\ Refresh(g, e, f, vpn')
    BY <1>3
  <2>2. vpn' \in BOOLEAN
    BY <1>1, <2>1
  <2>3. vpn' => vpn
    BY <1>1, <2>1, <2>2
  <2> QED BY <2>1, <2>2, <2>3, WindowKept
<1> QED BY <1>2, <1>3 DEF StopInWindow

-----------------------------------------------------------------------------
(***************************************************************************)
(* The slots of finished jobs.                                              *)
(***************************************************************************)
\* The jobs left when one ends.
LEMMA RestFacts ==
  ASSUME TypeOK, NEW w \in Workers
  PROVE  /\ Rest(w) \in [Workers -> Job]
         /\ \A v \in Workers : Rest(w)[v] = job[v] \/ Rest(w)[v] = NoJob
<1>1. NoJob \in Job
  BY PcTypes DEF NoJob, Job
<1> QED BY <1>1 DEF TypeOK, Rest

\* The window a busy job hands back, and the one a release hands back.
LEMMA ShownFacts ==
  ASSUME TypeOK, NEW w \in Workers
  PROVE  /\ Shown(w) \in Gui /\ Shown(w).busy = FALSE /\ Shown(w).releasing = gui.releasing
         /\ Unscheduled(w) \in Gui /\ Unscheduled(w).releasing = FALSE
         /\ Unscheduled(w).busy = gui.busy
         /\ Seen(w) \in BOOLEAN /\ job[w].retained \in BOOLEAN
<1>1. job[w] \in Job /\ job[w].known \in Status /\ job[w].err \in BOOLEAN /\ gui \in Gui
      /\ job[w].retained \in BOOLEAN /\ gui.last \in BOOLEAN
  BY DEF TypeOK, Job, Gui
<1> QED BY <1>1 DEF Shown, Unscheduled, Seen, Gui

\* The slot of a busy job, which shows the outcome and the VPN state it read.
LEMMA BusySlotKept ==
  ASSUME CoordInv, NEW w \in Workers, Busy(job[w]), NEW l \in BOOLEAN, NEW e \in BOOLEAN,
         Refresh([Shown(w) EXCEPT !.last = l], e, Rest(w), vpn), UNCHANGED Host
  PROVE  Kept
<1> DEFINE g == [Shown(w) EXCEPT !.last = l]
<1>1. TypeOK /\ vpn \in BOOLEAN
  BY DEF CoordInv, TypeOK
<1>2. g \in Gui /\ g.busy = FALSE /\ g.releasing = gui.releasing
  BY <1>1, ShownFacts DEF Gui
<1>3. Refresh(g, e, Rest(w), vpn)
  OBVIOUS
<1> HIDE DEF g
<1>4. gui.busy \in BOOLEAN /\ gui.releasing \in BOOLEAN /\ job \in [Workers -> Job]
  BY <1>1 DEF TypeOK, Gui
<1>5. Coord(FALSE, gui.releasing, Rest(w))
  BY <1>4, RestBusyCoord DEF CoordInv, Rest
<1>6. guard' = guard /\ vpn' = vpn
  BY DEF Host
<1> QED BY <1>1, <1>2, <1>3, <1>5, <1>6, RestFacts, WindowKept

\* The slot of a release.
LEMMA ReleaseSlotKept ==
  ASSUME CoordInv, NEW w \in Workers, job[w].kind = "release", NEW x \in BOOLEAN, NEW e \in BOOLEAN,
         Refresh([Unscheduled(w) EXCEPT !.err = x], e, Rest(w), vpn), UNCHANGED Host
  PROVE  Kept
<1> DEFINE g == [Unscheduled(w) EXCEPT !.err = x]
<1>1. TypeOK /\ vpn \in BOOLEAN
  BY DEF CoordInv, TypeOK
<1>2. g \in Gui /\ g.busy = gui.busy /\ g.releasing = FALSE
  BY <1>1, ShownFacts DEF Gui
<1>3. Refresh(g, e, Rest(w), vpn)
  OBVIOUS
<1> HIDE DEF g
<1>4. gui.busy \in BOOLEAN /\ gui.releasing \in BOOLEAN /\ job \in [Workers -> Job]
  BY <1>1 DEF TypeOK, Gui
<1>5. Coord(gui.busy, FALSE, Rest(w))
  BY <1>4, RestReleaseCoord DEF CoordInv, Rest
<1>6. guard' = guard /\ vpn' = vpn
  BY DEF Host
<1> QED BY <1>1, <1>2, <1>3, <1>5, <1>6, RestFacts, WindowKept

\* The slot of a failed start-up check, which may stop the VPN.
LEMMA ReconcileFailedKept ==
  ASSUME CoordInv, NEW w \in Workers, ReconcileFailed(w)
  PROVE  Kept
<1> DEFINE g == [Shown(w) EXCEPT !.err = TRUE, !.last = Seen(w)]
<1>1. TypeOK
  BY DEF CoordInv
<1>2. g \in Gui /\ g.busy = FALSE /\ g.releasing = gui.releasing
  BY <1>1, ShownFacts DEF Gui
<1>3. StopInWindow(g, TRUE, Rest(w)) /\ guard' = guard
  BY DEF ReconcileFailed
<1> HIDE DEF g
<1>4. gui.busy \in BOOLEAN /\ gui.releasing \in BOOLEAN /\ job \in [Workers -> Job]
  BY <1>1 DEF TypeOK, Gui
<1>5. Busy(job[w])
  BY DEF ReconcileFailed, Finished, At, Busy
<1>6. Coord(FALSE, gui.releasing, Rest(w))
  BY <1>4, <1>5, RestBusyCoord DEF CoordInv, Rest
<1> QED BY <1>1, <1>2, <1>3, <1>6, RestFacts, StopKept

\* Every slot keeps both layers.
LEMMA SlotKept == ASSUME CoordInv, NEW w \in Workers, Slot(w) PROVE Kept
<1>1. TypeOK
  BY DEF CoordInv
<1>2. Seen(w) \in BOOLEAN /\ job[w].retained \in BOOLEAN
  BY <1>1, ShownFacts
<1>3. CASE Connected(w)
  BY <1>3, BusySlotKept DEF Connected, Finished, At, Busy
<1>4. CASE Disconnected(w)
  BY <1>4, BusySlotKept DEF Disconnected, Finished, At, Busy
<1>5. CASE TransactionFailed(w)
  BY <1>2, <1>5, BusySlotKept DEF TransactionFailed, Finished, At, Busy
<1>6. CASE Released(w)
  BY <1>6, ReleaseSlotKept DEF Released, Finished, At
<1>7. CASE ReleaseFailed(w)
  BY <1>7, ReleaseSlotKept DEF ReleaseFailed, Finished, At
<1>8. CASE Reconciled(w)
  <2>1. (job[w].known = "active") \in BOOLEAN
    OBVIOUS
  <2> QED BY <1>8, <2>1, BusySlotKept DEF Reconciled, Finished, At, Busy
<1>9. CASE ReconcileFailed(w)
  BY <1>9, ReconcileFailedKept
<1> QED BY <1>3, <1>4, <1>5, <1>6, <1>7, <1>8, <1>9 DEF Slot

-----------------------------------------------------------------------------
(***************************************************************************)
(* The handlers of the user and of the timers, a lost VPN and a crash.      *)
(***************************************************************************)
\* What CoordInv says of every variable.
LEMMA StateTypes ==
  ASSUME CoordInv
  PROVE  /\ TypeOK /\ guard \in BOOLEAN /\ vpn \in BOOLEAN /\ expected \in BOOLEAN
         /\ gui \in Gui /\ gui.busy \in BOOLEAN /\ gui.releasing \in BOOLEAN
         /\ job \in [Workers -> Job] /\ Coord(gui.busy, gui.releasing, job)
  BY DEF CoordInv, TypeOK, Gui

\* The poll may only start a release.
LEMMA PollKept == ASSUME CoordInv, Poll PROVE Kept
  BY StateTypes, WindowKept DEF Poll, Host

\* A job other than a release that starts while the window is not busy.
LEMMA StartKept ==
  ASSUME CoordInv, NEW w \in Workers, NEW kind \in Kinds \ {"release"}, Start(w, kind, job),
         gui.busy = FALSE, gui' \in Gui, gui'.busy = TRUE, gui'.releasing = gui.releasing,
         expected' \in BOOLEAN, guard' = guard, vpn' = vpn,
         kind = "connect" => (gui.releasing => ConnectDuringRelease)
  PROVE  Kept
<1>1. PICK j \in Job : /\ j.kind = kind /\ j.pc = "open" /\ job[w].kind = "none"
                       /\ job' = [job EXCEPT ![w] = j]
  BY StateTypes, StartFacts
<1>2. Busy(j)
  BY <1>1 DEF Busy, Kinds
<1>3. Coord(TRUE, gui.releasing, job')
  BY <1>1, <1>2, StateTypes, StartBusyCoord
<1>4. CoordInv'
  BY <1>1, <1>3, StateTypes DEF CoordInv, TypeOK
<1>5. ASSUME ~ConnectDuringRelease, Safe(guard, vpn, job) PROVE Safe(guard', vpn', job')
  <2>1. \A v \in Workers : v # w => job'[v] = job[v]
    BY <1>1, StateTypes
  <2>2. job'[w] = j
    BY <1>1, StateTypes
  <2>3. ~Raising(j) /\ ~Removing(j)
    BY <1>1 DEF Raising, Removing
  <2>4. \A v \in Workers : j.kind = "connect" => job[v].kind # "release"
    BY <1>1, <1>5, StateTypes DEF Coord
  <2>5. \A v \in Workers : /\ Raising(job'[v]) => Raising(job[v])
                           /\ Removing(job'[v]) => Removing(job[v])
    BY <2>1, <2>2, <2>3
  <2>6. \A u, v \in Workers : ~(job'[u].kind = "connect" /\ job'[v].kind = "release")
    BY <1>1, <1>5, <2>1, <2>2, <2>4 DEF Safe
  <2> QED BY <1>5, <2>5, <2>6 DEF Safe
<1>6. TunnelIsGuarded => TunnelIsGuarded'
  BY DEF TunnelIsGuarded
<1> QED BY <1>4, <1>5, <1>6 DEF Kept

\* A connect starts while no busy job runs.
LEMMA ClickConnectKept == ASSUME CoordInv, ClickConnect PROVE Kept
<1>1. PICK w \in Workers : Start(w, "connect", job)
  BY DEF ClickConnect
<1>2. gui' \in Gui /\ gui'.busy = TRUE /\ gui'.releasing = gui.releasing
  BY StateTypes DEF ClickConnect, Gui
<1>3. gui.busy = FALSE
  BY StateTypes DEF ClickConnect
<1>4. /\ expected' \in BOOLEAN /\ guard' = guard /\ vpn' = vpn
      /\ gui.releasing => ConnectDuringRelease
  BY DEF ClickConnect, Host
<1>5. "connect" \in Kinds \ {"release"}
  BY DEF Kinds
<1> QED BY <1>1, <1>2, <1>3, <1>4, <1>5, StartKept

\* So does a disconnect.
LEMMA ClickDisconnectKept == ASSUME CoordInv, ClickDisconnect PROVE Kept
<1>1. PICK w \in Workers : Start(w, "disconnect", job)
  BY DEF ClickDisconnect
<1>2. gui' \in Gui /\ gui'.busy = TRUE /\ gui'.releasing = gui.releasing
  BY StateTypes DEF ClickDisconnect, Gui
<1>3. gui.busy = FALSE
  BY StateTypes DEF ClickDisconnect
<1>4. expected' \in BOOLEAN /\ guard' = guard /\ vpn' = vpn
  BY StateTypes DEF ClickDisconnect, Host
<1>5. "disconnect" \in Kinds \ {"release"} /\ "disconnect" # "connect"
  BY DEF Kinds
<1> QED BY <1>1, <1>2, <1>3, <1>4, <1>5, StartKept

\* A quit starts a release, with the VPN down and no busy job.
LEMMA ClickQuitKept == ASSUME CoordInv, ClickQuit PROVE Kept
<1>1. gui.busy = FALSE /\ vpn = FALSE /\ StartRelease(gui, job)
      /\ guard' = guard /\ vpn' = vpn /\ expected' = expected
  BY StateTypes DEF ClickQuit, Host
<1>2. gui' \in Gui /\ gui'.busy = gui.busy /\ gui'.releasing \in BOOLEAN
  BY <1>1, StateTypes, StartReleaseFacts DEF Gui
<1>3. CASE job' = job /\ gui'.releasing = gui.releasing
  BY <1>1, <1>2, <1>3, StateTypes DEF Kept, CoordInv, TypeOK, TunnelIsGuarded
<1>4. CASE /\ ~gui.releasing /\ gui'.releasing
           /\ \E w \in Workers, j \in Job :
                /\ job[w].kind = "none" /\ j.kind = "release" /\ j.pc = "open"
                /\ job' = [job EXCEPT ![w] = j]
  <2>1. PICK w \in Workers, j \in Job : /\ job[w].kind = "none" /\ j.kind = "release"
                                        /\ job' = [job EXCEPT ![w] = j]
    BY <1>4
  <2>2. gui.releasing = FALSE /\ gui'.releasing = TRUE
    BY <1>2, <1>4, StateTypes
  <2>3. Coord(FALSE, FALSE, job)
    BY <1>1, <2>2, StateTypes
  <2>4. Coord(FALSE, TRUE, job')
    BY <2>1, <2>3, StateTypes, StartReleaseCoord
  <2>5. Safe(guard, vpn, job) => Safe(guard', vpn', job')
    BY <1>1, <2>1, <2>3, StateTypes, StartReleaseSafe
  <2>6. job' \in [Workers -> Job]
    BY <2>1, StateTypes
  <2>7. CoordInv'
    BY <1>1, <1>2, <2>2, <2>4, <2>6, StateTypes DEF CoordInv, TypeOK
  <2>8. TunnelIsGuarded => TunnelIsGuarded'
    BY <1>1 DEF TunnelIsGuarded
  <2> QED BY <2>5, <2>7, <2>8 DEF Kept
<1> QED BY <1>1, <1>3, <1>4, StateTypes, StartReleaseFacts

\* The start-up timer starts its check while no busy job runs.
LEMMA ReconcileAtStartupKept == ASSUME CoordInv, ReconcileAtStartup PROVE Kept
<1> DEFINE g == [gui EXCEPT !.started = TRUE]
<1>1. g \in Gui /\ g.busy = gui.busy /\ g.releasing = gui.releasing
  BY StateTypes DEF Gui
<1>2. gui.busy = FALSE /\ guard' = guard /\ vpn' = vpn
  BY StateTypes DEF ReconcileAtStartup, Host
<1>3. CASE gui' = g /\ expected' = expected /\ job' = job
  <2> HIDE DEF g
  <2> QED BY <1>1, <1>2, <1>3, StateTypes DEF Kept, CoordInv, TypeOK, TunnelIsGuarded
<1>4. CASE /\ gui' = [g EXCEPT !.busy = TRUE] /\ expected' = expected
           /\ \E w \in Workers : Start(w, "reconcile", job)
  <2>1. PICK w \in Workers : Start(w, "reconcile", job)
    BY <1>4
  <2>2. gui' \in Gui /\ gui'.busy = TRUE /\ gui'.releasing = gui.releasing
    BY <1>1, <1>4 DEF Gui
  <2>3. expected' \in BOOLEAN
    BY <1>4, StateTypes
  <2>4. "reconcile" \in Kinds \ {"release"} /\ "reconcile" # "connect"
    BY DEF Kinds
  <2> QED BY <1>2, <2>1, <2>2, <2>3, <2>4, StartKept
<1> QED BY <1>3, <1>4 DEF ReconcileAtStartup

\* A failed helper check stops the VPN from the window.
LEMMA StartupGateCancelledKept == ASSUME CoordInv, StartupGateCancelled PROVE Kept
<1> DEFINE g == [gui EXCEPT !.started = TRUE, !.st = "none", !.err = TRUE]
<1>1. g \in Gui /\ g.busy = gui.busy /\ g.releasing = gui.releasing
  BY StateTypes, PcTypes DEF Gui
<1>2. StopInWindow(g, expected, job) /\ guard' = guard
  BY DEF StartupGateCancelled
<1> HIDE DEF g
<1> QED BY <1>1, <1>2, StateTypes, StopKept

\* A lost VPN only weakens what must hold.
LEMMA VpnLostKept == ASSUME CoordInv, VpnLost PROVE Kept
<1>1. CoordInv'
  BY StateTypes DEF VpnLost, CoordInv, TypeOK
<1>2. Safe(guard, vpn, job) => Safe(guard', vpn', job')
  BY StateTypes, WeakerSafe DEF VpnLost
<1>3. TunnelIsGuarded => TunnelIsGuarded'
  BY DEF VpnLost, TunnelIsGuarded
<1> QED BY <1>1, <1>2, <1>3 DEF Kept

\* A crash ends all jobs and clears all flags.
LEMMA CrashKept == ASSUME CoordInv, Crash PROVE Kept
<1>1. NoJob \in Job /\ NewGui \in Gui /\ ~NewGui.busy /\ ~NewGui.releasing /\ NoJob.kind = "none"
  BY PcTypes DEF NoJob, Job, NewGui, Gui
<1>2. job' \in [Workers -> Job] /\ (\A v \in Workers : job'[v] = NoJob) /\ gui' = NewGui
      /\ guard' = guard /\ vpn' = vpn /\ expected' = expected
  BY <1>1 DEF Crash
<1>3. Coord(gui'.busy, gui'.releasing, job')
  BY <1>1, <1>2 DEF Coord, Busy
<1>4. CoordInv'
  BY <1>1, <1>2, <1>3, StateTypes DEF CoordInv, TypeOK
<1>5. Safe(guard, vpn, job) => Safe(guard', vpn', job')
  BY <1>2, StateTypes, WeakerSafe
<1>6. TunnelIsGuarded => TunnelIsGuarded'
  BY <1>2 DEF TunnelIsGuarded
<1> QED BY <1>4, <1>5, <1>6 DEF Kept

\* A step that changes nothing.
LEMMA StutterKept == ASSUME CoordInv, UNCHANGED vars PROVE Kept
  BY DEF vars, Kept, CoordInv, TypeOK, Coord, Safe, TunnelIsGuarded

\* Every step keeps both layers.
LEMMA NextKept == ASSUME CoordInv, [Next]_vars PROVE Kept
<1>1. ASSUME NEW w \in Workers, JobStep(w) PROVE Kept
  BY <1>1, JobStepKept
<1>2. ASSUME NEW w \in Workers, Slot(w) PROVE Kept
  BY <1>2, SlotKept
<1> QED BY <1>1, <1>2, PollKept, ClickConnectKept, ClickDisconnectKept, ClickQuitKept,
           ReconcileAtStartupKept, StartupGateCancelledKept, VpnLostKept, CrashKept,
           StutterKept DEF Next, Step

\* A fresh start has no job and no flag.
LEMMA InitCoord == Init => CoordInv
<1>1. NoJob \in Job /\ NewGui \in Gui /\ ~NewGui.busy /\ ~NewGui.releasing /\ NoJob.kind = "none"
  BY PcTypes DEF NoJob, Job, NewGui, Gui
<1> SUFFICES ASSUME Init PROVE CoordInv
  OBVIOUS
<1>2. vpn \in BOOLEAN
  BY DEF Init
<1>3. job \in [Workers -> Job] /\ \A v \in Workers : job[v] = NoJob
  BY <1>1 DEF Init
<1>4. Coord(gui.busy, gui.releasing, job)
  BY <1>1, <1>3 DEF Init, Coord, Busy
<1> QED BY <1>1, <1>2, <1>3, <1>4 DEF Init, CoordInv, TypeOK

\* With no job running both layers hold.
LEMMA InitSafe == Init => SafeInv
<1>1. ~Raising(NoJob) /\ ~Removing(NoJob) /\ NoJob.kind = "none"
  BY DEF NoJob, Raising, Removing
<1>2. Init => Safe(guard, vpn, job)
  BY <1>1 DEF Init, Safe
<1> QED BY <1>2, InitCoord DEF SafeInv

-----------------------------------------------------------------------------
\* For any pool of workers, whatever the user does and whenever the program
\* dies: two transactions of a kind never run together, and the busy flag and
\* the release flag of the window are set exactly while their jobs run.
THEOREM JobsAreCoordinated == Spec => []OneOfAKind
<1>1. CoordInv /\ [Next]_vars => CoordInv'
  BY NextKept DEF Kept
<1>2. CoordInv => OneOfAKind
  BY DEF CoordInv, Coord, OneOfAKind, Busy
<1> QED BY <1>1, <1>2, InitCoord, PTL DEF Spec

\* If the VPN is down when the program first starts and the user does not
\* connect while a release runs, an ordinary VPN never runs unguarded: no job,
\* lost answer, lost VPN or crash, in any order, leaves IPv6 open under it.
THEOREM TunnelStaysGuarded ==
  ASSUME ~ConnectDuringRelease PROVE Spec => GuardedFromStart
<1>1. Init => SafeInv
  BY InitSafe
<1>2. SafeInv /\ [Next]_vars => SafeInv'
  BY NextKept DEF Kept, SafeInv
<1>3. SafeInv /\ TunnelIsGuarded /\ [Next]_vars => TunnelIsGuarded'
  BY NextKept DEF Kept, SafeInv
<1>4. ~vpn => TunnelIsGuarded
  BY DEF TunnelIsGuarded
<1> QED BY <1>1, <1>2, <1>3, <1>4, PTL DEF Spec, GuardedFromStart

\* The handlers of the window never touch the guard.
LEMMA WindowLeavesGuard ==
  ASSUME CoordInv, [Next]_vars, \A w \in Workers : ~JobStep(w)
  PROVE  guard' = guard
<1>1. ASSUME NEW w \in Workers, Slot(w) PROVE guard' = guard
  BY <1>1 DEF Slot, Connected, Disconnected, TransactionFailed, Released, ReleaseFailed,
              Reconciled, ReconcileFailed, Host
<1> QED BY <1>1 DEF Next, Step, Poll, ClickConnect, ClickDisconnect, ClickQuit,
             ReconcileAtStartup, StartupGateCancelled, VpnLost, Crash, Host, vars

\* Under the same condition the guard goes only while NetworkManager
\* has the VPN down, as the docstring of IPv6GuardLifecycle promises.
THEOREM GuardLeavesAfterVpn ==
  ASSUME ~ConnectDuringRelease PROVE Spec => RemovedOnlyDown
<1>1. Init => SafeInv
  BY InitSafe
<1>2. SafeInv /\ [Next]_vars => SafeInv'
  BY NextKept DEF Kept, SafeInv
<1>3. SafeInv /\ [Next]_vars => [guard /\ ~guard' => ~vpn]_vars
  <2> SUFFICES ASSUME SafeInv, [Next]_vars, guard, ~guard' PROVE ~vpn
    OBVIOUS
  <2>1. CoordInv /\ TypeOK /\ \A w \in Workers : Removing(job[w]) => ~vpn
    BY DEF SafeInv, CoordInv, Safe
  <2>2. PICK w \in Workers : JobStep(w)
    BY <2>1, WindowLeavesGuard
  <2>3. Removing(job[w])
    BY <2>1, <2>2, JobStepped DEF Stepped, Effect
  <2> QED BY <2>1, <2>3
<1> QED BY <1>1, <1>2, <1>3, PTL DEF Spec, RemovedOnlyDown
=============================================================================
