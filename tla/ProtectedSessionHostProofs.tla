--------------------- MODULE ProtectedSessionHostProofs ---------------------
EXTENDS ProtectedSessionProofs

(***************************************************************************)
(* The upper two layers of the proofs about ProtectedSession (see           *)
(* ProtectedSessionProofs): HeldInv, what the running job knows of the      *)
(* firewall table, the tunnel and the record at each of its steps, and      *)
(* HostInv, what the disk and the window know of them.  HostInv gives every *)
(* safety property of the runs, and that the session implements FailClosed. *)
(***************************************************************************)

(***************************************************************************)
(* What a job holds of the host: the route f of the table, the profile n    *)
(* and the disk d, while the job is j.                                      *)
(***************************************************************************)
\* A connect started over an absent table, remembered on disk.
ConnectHeld(f, n, d, j) ==
  j.kind = "connect" =>
    /\ d.marker /\ d.enabled
    /\ j.pc \in {"prepare", "enable"} => f = None /\ ~n.up

\* The route a connection brings back is the table's, unless the job gave it up.
RouteHeld(f, j) ==
  j.kind \in ConnectionKinds =>
    /\ ~j.gone /\ j.route # None /\ f # None => f = j.route
    /\ j.pc \in {"vpn", "save"} \/ Won(j) => f # None

\* How far the retarget has come: a reconnect writes what is there, a switch moves
\* the table from the old route to the target.
Rewriting(j) ==
  j.todo \in { <<Set("ifs", j.route.ifs), Set("eps", j.route.eps)>>,
               <<Set("eps", j.route.eps)>>, <<>> }

\* A switch widens the table to both routes, then narrows it to the target.
Moving(f, j) ==
  LET s1 == Set("ifs", j.route.ifs \cup j.target.ifs)
      s2 == Set("eps", j.route.eps \cup j.target.eps)
      s3 == Set("eps", j.target.eps)
      s4 == Set("ifs", j.target.ifs)
  IN  \/ j.todo \in { <<s1, s2, s3, s4>>, <<s2, s3, s4>>, <<s3, s4>> }
      \/ j.todo = <<s4>> /\ f.eps = j.target.eps
      \/ j.todo = <<>> /\ f = j.target

\* The calls still to make, and the table at that point.
RetargetHeld(f, j) ==
  /\ j.kind = "reconnect" /\ j.pc = "retarget" => Rewriting(j)
  /\ j.gone /\ f # None /\ j.pc = "probe" => f = j.route
  /\ j.gone /\ f # None /\ j.pc = "retarget" => Moving(f, j)
  /\ j.gone /\ f # None /\ j.pc \in {"vpn", "post"} => f = j.target

\* The tunnel is the one the job brought up, and the record names it.
ProfileHeld(n, d, j) ==
  j.kind \in ConnectionKinds =>
    /\ j.pc \in {"post", "save"} \/ Won(j) => n.uuid = j.uuid
    /\ Won(j) => d.record = RecordOf(j.uuid, j.route)

\* The VPN is down before anything is released.
DownHeld(f, n, j) ==
  /\ j.kind # "none" /\ j.pc \in {"probe", "release", "discard"} => ~n.up
  /\ j.kind = "recheck" => ~n.up
  /\ j.kind = "disconnect" /\ Won(j) => ~n.up
  /\ j.kind = "reset" /\ j.pc = "discard" => f = None

\* The status a finished job brings back is the table's.
StatusHeld(f, j) ==
  j.kind # "none" => j.st = "none" \/ (j.pc = "done" /\ j.st = Status(f))

\* A reconciliation that ended saw what is still so.
ReconcileHeld(f, n, j) ==
  j.kind = "reconcile" /\ Won(j) =>
    /\ j.route = f
    /\ Clean(j.out) => f = None
    /\ Adopted(j.out) => f # None /\ (n.up => n.uuid = j.uuid)

\* The preference is enabled only where it was off.
EnableHeld(d, j) == j.kind = "enable" => ~d.enabled

\* All that a job holds.
Held(f, n, d, j) ==
  /\ ConnectHeld(f, n, d, j) /\ RouteHeld(f, j) /\ RetargetHeld(f, j) /\ ProfileHeld(n, d, j)
  /\ DownHeld(f, n, j) /\ StatusHeld(f, j) /\ ReconcileHeld(f, n, j) /\ EnableHeld(d, j)

\* What a step of a job may do to the host.
Tame(w) ==
  /\ fw' = fw \/ nm' = nm
  /\ nm'.up /\ ~nm.up => fw # None
  /\ fw # None /\ fw' = None => job[w].kind \in {"disconnect", "disable", "reset"} /\ ~nm.up
  /\ fw = None /\ fw' # None => job[w].kind = "connect" /\ ~nm.up
  /\ fw # None /\ fw' # None /\ fw' # fw => job[w].kind = "switch"
  /\ disk'.marker = disk.marker /\ disk'.enabled = disk.enabled
  /\ disk.record # None /\ fw' # None => disk'.record # None

\* The invariant of this layer.
HeldInv == CoordInv /\ \A w \in Workers : Held(fw, nm, disk, job[w])

\* Facts of the job a proof looks at.
LEMMA JobHeld ==
  ASSUME HeldInv, NEW w \in Workers
  PROVE  /\ job \in [Workers -> Job] /\ job[w] \in Job /\ Shaped(job[w])
         /\ Held(fw, nm, disk, job[w])
         /\ fw \in OrNone(Route) /\ nm \in Profile /\ disk \in Disk
  BY JobShape DEF HeldInv, CoordInv, ShapeInv, TypeOK

\* The job k is the job j at another place.
Goes(j, k, pc) ==
  /\ k.kind = j.kind /\ k.pc = pc /\ k.uuid = j.uuid /\ k.route = j.route
  /\ k.target = j.target /\ k.gone = j.gone /\ k.todo = j.todo /\ k.st = j.st
  /\ k.ok = j.ok /\ k.out = j.out

\* A job sent to another place.
LEMMA GotoGoes ==
  ASSUME HeldInv, NEW w \in Workers, NEW pc, Goto(w, pc)
  PROVE  Goes(job[w], job'[w], pc)
<1>1. job \in [Workers -> Job]
  BY JobHeld
<1> QED BY <1>1 DEF Goto, Put, Job, Goes

\* A raised exception leaves a failed job that holds what it brings back.
LEMMA RaisedHeld ==
  ASSUME HeldInv, NEW w \in Workers, Raise(w), job[w].kind # "none", job[w].pc # "done",
         NEW f, NEW n, NEW d, d.marker = disk.marker, d.enabled = disk.enabled,
         n = nm \/ ~Is(w, {"recheck"}),
         job[w].kind \in ConnectionKinds /\ ~job[w].gone /\ job[w].route # None /\ f # None
           => f = job[w].route
  PROVE  Held(f, n, d, job'[w])
<1>1. /\ job \in [Workers -> Job] /\ job[w] \in Job /\ Shaped(job[w])
      /\ Held(fw, nm, disk, job[w])
  BY JobHeld
<1>2. CASE Is(w, {"reset", "recheck"})
  <2> DEFINE j == [job[w] EXCEPT !.pc = "done", !.ok = FALSE]
  <2>1. job'[w] = j
    BY <1>1, <1>2 DEF Raise, Put
  <2>2. /\ j.kind = job[w].kind /\ j.pc = "done" /\ j.ok = FALSE
        /\ j.st = job[w].st /\ j.gone = job[w].gone
    BY <1>1 DEF Job
  <2>3. job[w].kind \in {"reset", "recheck"}
    BY <1>2 DEF Is
  <2> HIDE DEF j
  <2> QED BY <1>1, <1>2, <2>1, <2>2, <2>3
     DEF Is, Gone, Shaped, ConnectHeld, RouteHeld, RetargetHeld, ProfileHeld,
           DownHeld, StatusHeld, ReconcileHeld, EnableHeld, Held, Won, ConnectionKinds
<1>3. CASE ~Is(w, {"reset", "recheck"})
  <2>1. Goes(job[w], job'[w], "collect")
    BY <1>3, GotoGoes DEF Raise
  <2>2. job[w].kind # "recheck"
    BY <1>3 DEF Is
  <2> QED BY <1>1, <2>1, <2>2 DEF Goes, ConnectHeld, RouteHeld, RetargetHeld, ProfileHeld,
           DownHeld, StatusHeld, ReconcileHeld, EnableHeld, Held, Won, ConnectionKinds
<1> QED BY <1>2, <1>3

\* Most exceptions are raised with nothing done.
LEMMA RaiseHeld ==
  ASSUME HeldInv, NEW w \in Workers, Raise(w), job[w].kind # "none", job[w].pc # "done",
         UNCHANGED <<fw, nm, disk>>
  PROVE  Held(fw', nm', disk', job'[w]) /\ Tame(w)
<1>1. Held(fw, nm, disk, job[w])
  BY JobHeld
<1> QED BY <1>1, RaisedHeld DEF Held, RouteHeld, Tame

\* A connect prepares over an absent table.
LEMMA PrepareConnectHeld ==
  ASSUME HeldInv, NEW w \in Workers, PrepareConnect(w)
  PROVE  Held(fw', nm', disk', job'[w]) /\ Tame(w)
<1>1. /\ job \in [Workers -> Job] /\ job[w] \in Job /\ Shaped(job[w])
      /\ Held(fw, nm, disk, job[w])
  BY JobHeld
<1>2. /\ job'[w].kind = job[w].kind /\ job'[w].pc \in {"enable", "collect"}
      /\ job'[w].st = job[w].st /\ job'[w].gone = job[w].gone
  <2>1. ASSUME NEW r, Put(w, [job[w] EXCEPT !.pc = "enable", !.base = TRUE, !.route = r])
        PROVE  /\ job'[w].kind = job[w].kind /\ job'[w].pc \in {"enable", "collect"}
               /\ job'[w].st = job[w].st /\ job'[w].gone = job[w].gone
    BY <1>1, <2>1 DEF Put, Job
  <2>2. ASSUME NEW b \in BOOLEAN, Put(w, [job[w] EXCEPT !.pc = "collect", !.base = b])
        PROVE  /\ job'[w].kind = job[w].kind /\ job'[w].pc \in {"enable", "collect"}
               /\ job'[w].st = job[w].st /\ job'[w].gone = job[w].gone
    BY <1>1, <2>2 DEF Put, Job
  <2> QED BY <2>1, <2>2 DEF PrepareConnect
<1>3. /\ job[w].kind = "connect" /\ job[w].pc = "prepare" /\ ~job[w].gone
      /\ UNCHANGED <<fw, nm, disk>>
  BY <1>1 DEF PrepareConnect, At, Is, Shaped, Gone
<1>4. fw = None /\ disk.marker /\ disk.enabled /\ job[w].st = "none" /\ ~nm.up
  BY <1>1, <1>3 DEF Held, ConnectHeld, StatusHeld
<1> QED BY <1>1, <1>2, <1>3, <1>4
        DEF Tame,
           ConnectHeld, RouteHeld, RetargetHeld, ProfileHeld,
           DownHeld, StatusHeld, ReconcileHeld, EnableHeld, Held, Won, ConnectionKinds

\* A switch prepares its candidate.
LEMMA PrepareSwitchHeld ==
  ASSUME HeldInv, NEW w \in Workers, PrepareSwitch(w)
  PROVE  Held(fw', nm', disk', job'[w]) /\ Tame(w)
<1>1. /\ job \in [Workers -> Job] /\ job[w] \in Job /\ Shaped(job[w])
      /\ Held(fw, nm, disk, job[w])
  BY JobHeld
<1>2. CASE Raise(w)
  BY <1>2, RaiseHeld DEF PrepareSwitch, At
<1>3. ASSUME NEW e \in Endpoints,
             Put(w, [job[w] EXCEPT !.pc = "lock", !.target = [ifs |-> {}, eps |-> {e}]])
      PROVE  Held(fw', nm', disk', job'[w]) /\ Tame(w)
  <2>1. /\ job'[w].kind = job[w].kind /\ job'[w].pc = "lock" /\ job'[w].route = job[w].route
        /\ job'[w].st = job[w].st /\ job'[w].gone = job[w].gone
    BY <1>1, <1>3 DEF Put, Job
  <2> QED BY <1>1, <2>1
          DEF PrepareSwitch, At, Is, Tame, Shaped, Gone,
           ConnectHeld, RouteHeld, RetargetHeld, ProfileHeld,
           DownHeld, StatusHeld, ReconcileHeld, EnableHeld, Held, Won, ConnectionKinds
<1> QED BY <1>2, <1>3 DEF PrepareSwitch

\* Only a connect arms, with the tunnel down: it writes its own route.
LEMMA EnableFirewallHeld ==
  ASSUME HeldInv, NEW w \in Workers, EnableFirewall(w)
  PROVE  Held(fw', nm', disk', job'[w]) /\ Tame(w)
<1>1. /\ job \in [Workers -> Job] /\ job[w] \in Job /\ Shaped(job[w])
      /\ Held(fw, nm, disk, job[w])
  BY JobHeld
<1>2. /\ job[w].kind = "connect" /\ fw = None /\ ~nm.up /\ job[w].route # None /\ ~job[w].gone
      /\ disk.marker /\ disk.enabled
  BY <1>1 DEF EnableFirewall, At, Shaped, Placed, Carries, Gone, Job, Kinds, Held, ConnectHeld
<1>3. Tame(w)
  BY <1>2 DEF EnableFirewall, Tame
<1>4. CASE fw' \in {fw, job[w].route} /\ Raise(w)
  BY <1>2, <1>3, <1>4, RaisedHeld DEF EnableFirewall, At
<1>5. CASE fw' = job[w].route /\ Goto(w, "vpn")
  <2>1. Goes(job[w], job'[w], "vpn")
    BY <1>5, GotoGoes
  <2>2. UNCHANGED <<nm, disk>> /\ job[w].st = "none"
    BY <1>1 DEF EnableFirewall, At, Held, StatusHeld
  <2> QED BY <1>2, <1>3, <1>5, <2>1, <2>2
          DEF Goes,
           ConnectHeld, RouteHeld, RetargetHeld, ProfileHeld,
           DownHeld, StatusHeld, ReconcileHeld, EnableHeld, Held, Won, ConnectionKinds
<1> QED BY <1>4, <1>5 DEF EnableFirewall

\* A verified lock, and a path that is as the job needs it, change nothing.
LEMMA VerifyLockHeld ==
  ASSUME HeldInv, NEW w \in Workers, VerifyLock(w) \/ SwitchPath(w)
  PROVE  Held(fw', nm', disk', job'[w]) /\ Tame(w)
<1>1. Held(fw, nm, disk, job[w]) /\ Shaped(job[w])
  BY JobHeld
<1>2. CASE Raise(w)
  BY <1>2, RaiseHeld DEF VerifyLock, SwitchPath, At
<1>3. CASE Goto(w, "path") \/ Goto(w, "stop")
  <2>1. Goes(job[w], job'[w], "path") \/ Goes(job[w], job'[w], "stop")
    BY <1>3, GotoGoes
  <2> QED BY <1>1, <2>1
          DEF VerifyLock, SwitchPath, At, Tame, Goes, Shaped, Gone,
           ConnectHeld, RouteHeld, RetargetHeld, ProfileHeld,
           DownHeld, StatusHeld, ReconcileHeld, EnableHeld, Held, Won, ConnectionKinds
<1> QED BY <1>2, <1>3 DEF VerifyLock, SwitchPath

\* A reconnect is going to write what the table holds.
LEMMA ReconnectPathHeld ==
  ASSUME HeldInv, NEW w \in Workers, ReconnectPath(w)
  PROVE  Held(fw', nm', disk', job'[w]) /\ Tame(w)
<1>1. /\ job \in [Workers -> Job] /\ job[w] \in Job /\ Shaped(job[w])
      /\ Held(fw, nm, disk, job[w])
  BY JobHeld
<1>2. CASE Raise(w)
  BY <1>2, RaiseHeld DEF ReconnectPath, At
<1>3. CASE Put(w, [job[w] EXCEPT !.pc = "retarget",
                 !.todo = <<Set("ifs", job[w].route.ifs), Set("eps", job[w].route.eps)>>])
  <2>1. /\ job'[w].kind = job[w].kind /\ job'[w].pc = "retarget" /\ job'[w].st = job[w].st
        /\ job'[w].route = job[w].route /\ job'[w].gone = job[w].gone
        /\ job'[w].todo = <<Set("ifs", job[w].route.ifs), Set("eps", job[w].route.eps)>>
    BY <1>1, <1>3 DEF Put, Job
  <2>2. Rewriting(job'[w])
    BY <2>1 DEF Rewriting
  <2> QED BY <1>1, <2>1, <2>2
          DEF ReconnectPath, At, Is, Tame, Shaped, Gone,
           ConnectHeld, RouteHeld, RetargetHeld, ProfileHeld,
           DownHeld, StatusHeld, ReconcileHeld, EnableHeld, Held, Won, ConnectionKinds
<1> QED BY <1>2, <1>3 DEF ReconnectPath

\* The VPN is down after it was stopped.
LEMMA StopVpnHeld ==
  ASSUME HeldInv, NEW w \in Workers, StopVpn(w)
  PROVE  Held(fw', nm', disk', job'[w]) /\ Tame(w)
<1>1. /\ job \in [Workers -> Job] /\ Held(fw, nm, disk, job[w]) /\ job[w] \in Job
      /\ Shaped(job[w]) /\ nm \in Profile
  BY JobHeld
<1>2. /\ job[w].kind \in {"switch", "disconnect", "disable", "reset"} /\ job[w].pc = "stop"
      /\ ~job[w].gone
  BY <1>1 DEF StopVpn, At, Shaped, Placed, Gone, Job, Kinds
<1>3. Down(nm).up = FALSE /\ Tame(w)
  BY <1>1 DEF StopVpn, Down, Profile, Tame
<1>4. CASE Raise(w)
  BY <1>1, <1>2, <1>3, <1>4, RaisedHeld DEF StopVpn, Is, Held, RouteHeld
<1>5. CASE nm' = Down(nm) /\ Put(w, AfterStop(w))
  <2>1. /\ job'[w].kind = job[w].kind /\ job'[w].pc \in {"probe", "release"}
        /\ job'[w].route = job[w].route /\ job'[w].st = job[w].st
        /\ (job'[w].pc = "probe" /\ job'[w].gone) => job[w].kind = "switch"
    BY <1>1, <1>5 DEF AfterStop, Is, Put, Job
  <2>2. fw' = fw /\ nm'.up = FALSE
    BY <1>3, <1>5 DEF StopVpn
  <2> QED BY <1>1, <1>2, <1>3, <2>1, <2>2
          DEF Shaped, Carries,
           ConnectHeld, RouteHeld, RetargetHeld, ProfileHeld,
           DownHeld, StatusHeld, ReconcileHeld, EnableHeld, Held, Won, ConnectionKinds
<1> QED BY <1>4, <1>5 DEF StopVpn

\* A disconnect goes on to release, a switch knows the steps of its retarget.
LEMMA ProbeBlockedHeld ==
  ASSUME HeldInv, NEW w \in Workers, ProbeBlocked(w)
  PROVE  Held(fw', nm', disk', job'[w]) /\ Tame(w)
<1>1. /\ job \in [Workers -> Job] /\ job[w] \in Job /\ Shaped(job[w])
      /\ Held(fw, nm, disk, job[w])
  BY JobHeld
<1>2. CASE Raise(w)
  BY <1>2, RaiseHeld DEF ProbeBlocked, At
<1>3. CASE Is(w, {"disconnect", "disable"}) /\ Goto(w, "release")
  <2>1. Goes(job[w], job'[w], "release")
    BY <1>3, GotoGoes
  <2> QED BY <1>1, <1>3, <2>1
          DEF ProbeBlocked, At, Is, Tame, Goes, Shaped, Gone,
           ConnectHeld, RouteHeld, RetargetHeld, ProfileHeld,
           DownHeld, StatusHeld, ReconcileHeld, EnableHeld, Held, Won, ConnectionKinds
<1>4. ASSUME Is(w, {"switch"}),
             NEW new, NEW old, old = job[w].route,
             Put(w, [job[w] EXCEPT !.pc = "retarget", !.target = new, !.todo =
                << Set("ifs", old.ifs \cup new.ifs), Set("eps", old.eps \cup new.eps),
                   Set("eps", new.eps), Set("ifs", new.ifs) >>])
      PROVE  Held(fw', nm', disk', job'[w]) /\ Tame(w)
  <2>1. /\ job'[w].kind = "switch" /\ job'[w].pc = "retarget" /\ job'[w].st = job[w].st
        /\ job'[w].route = old /\ job'[w].gone = job[w].gone /\ job'[w].target = new
        /\ job'[w].todo = << Set("ifs", old.ifs \cup new.ifs), Set("eps", old.eps \cup new.eps),
                             Set("eps", new.eps), Set("ifs", new.ifs) >>
    BY <1>1, <1>4 DEF Put, Job, Is
  <2>2. Moving(fw, job'[w])
    BY <2>1 DEF Moving
  <2>3. job[w].gone
    BY <1>1, <1>4 DEF ProbeBlocked, At, Is, Shaped, Gone
  <2> QED BY <1>1, <2>1, <2>2, <2>3
          DEF ProbeBlocked, At, Tame,
           ConnectHeld, RouteHeld, RetargetHeld, ProfileHeld,
           DownHeld, StatusHeld, ReconcileHeld, EnableHeld, Held, Won, ConnectionKinds
<1> QED BY <1>2, <1>3, <1>4 DEF ProbeBlocked

\* What one call of the retarget makes of a route.
LEMMA SetIfsEffect ==
  ASSUME NEW f \in Route, NEW u, NEW x, u = Set("ifs", x)
  PROVE  [f EXCEPT ![u.field] = u.to].ifs = x /\ [f EXCEPT ![u.field] = u.to].eps = f.eps
<1>1. u.field = "ifs" /\ u.to = x
  BY DEF Set
<1> QED BY <1>1 DEF Route

\* the same for the endpoints.
LEMMA SetEpsEffect ==
  ASSUME NEW f \in Route, NEW u, NEW x, u = Set("eps", x)
  PROVE  [f EXCEPT ![u.field] = u.to].ifs = f.ifs /\ [f EXCEPT ![u.field] = u.to].eps = x
<1>1. u.field = "eps" /\ u.to = x
  BY DEF Set
<1> QED BY <1>1 DEF Route

\* A route is what it allows.
LEMMA SameRoute ==
  ASSUME NEW f \in Route, NEW g \in Route, f.ifs = g.ifs, f.eps = g.eps
  PROVE  f = g
  BY DEF Route

\* Calls are taken from the front.
LEMMA FourCalls ==
  ASSUME NEW a, NEW b, NEW c, NEW d
  PROVE  Head(<<a, b, c, d>>) = a /\ Tail(<<a, b, c, d>>) = <<b, c, d>>
  OBVIOUS

\* three left,
LEMMA ThreeCalls ==
  ASSUME NEW b, NEW c, NEW d
  PROVE  Head(<<b, c, d>>) = b /\ Tail(<<b, c, d>>) = <<c, d>>
  OBVIOUS

\* two left,
LEMMA TwoCalls ==
  ASSUME NEW c, NEW d
  PROVE  Head(<<c, d>>) = c /\ Tail(<<c, d>>) = <<d>>
  OBVIOUS

\* the last one.
LEMMA OneCall ==
  ASSUME NEW d
  PROVE  Head(<<d>>) = d /\ Tail(<<d>>) = <<>>
  OBVIOUS

\* A reconnect rewrites the table with what it holds.
LEMMA ReconnectRetargetHeld ==
  ASSUME HeldInv, NEW w \in Workers, Retarget(w), Is(w, {"reconnect"})
  PROVE  Held(fw', nm', disk', job'[w]) /\ Tame(w)
<1>1. /\ job \in [Workers -> Job] /\ Held(fw, nm, disk, job[w]) /\ job[w] \in Job
      /\ Shaped(job[w]) /\ fw \in OrNone(Route)
  BY JobHeld
<1> DEFINE u == Head(job[w].todo)
           new == IF fw = None THEN None ELSE [fw EXCEPT ![u.field] = u.to]
           s1 == Set("ifs", job[w].route.ifs)
           s2 == Set("eps", job[w].route.eps)
<1>2. /\ job[w].kind = "reconnect" /\ job[w].pc = "retarget" /\ job[w].todo # <<>>
      /\ UNCHANGED <<nm, disk>> /\ ~job[w].gone /\ job[w].st = "none"
  BY <1>1 DEF Retarget, At, Is, Shaped, Gone, Held, StatusHeld
<1>3. job[w].todo = <<s1, s2>> \/ job[w].todo = <<s2>>
  BY <1>1, <1>2 DEF Held, RetargetHeld, Rewriting
<1>4. fw # None => fw = job[w].route /\ fw \in Route
  BY <1>1, <1>2 DEF Held, RouteHeld, ConnectionKinds, Shaped, Carries, OrNone
<1>5. \/ u = s1 /\ Tail(job[w].todo) = <<s2>>
      \/ u = s2 /\ Tail(job[w].todo) = <<>>
  <2> HIDE DEF s1, s2
  <2> QED BY <1>3, TwoCalls, OneCall
<1>6. fw # None => [fw EXCEPT ![u.field] = u.to] = fw
  <2> SUFFICES ASSUME fw # None PROVE [fw EXCEPT ![u.field] = u.to] = fw
    OBVIOUS
  <2>1. u \in Update
    BY <1>1, <1>2 DEF Job
  <2>2. [fw EXCEPT ![u.field] = u.to] \in Route
    BY <1>4, <2>1, UpdateType
  <2>3. CASE u = s1
    <3>1. /\ [fw EXCEPT ![u.field] = u.to].ifs = job[w].route.ifs
          /\ [fw EXCEPT ![u.field] = u.to].eps = fw.eps
      <4> HIDE DEF u
      <4> QED BY <1>4, <2>3, SetIfsEffect
    <3> HIDE DEF u
    <3> QED BY <1>4, <2>2, <3>1, SameRoute
  <2>4. CASE u = s2
    <3>1. /\ [fw EXCEPT ![u.field] = u.to].ifs = fw.ifs
          /\ [fw EXCEPT ![u.field] = u.to].eps = job[w].route.eps
      <4> HIDE DEF u
      <4> QED BY <1>4, <2>4, SetEpsEffect
    <3> HIDE DEF u
    <3> QED BY <1>4, <2>2, <3>1, SameRoute
  <2> QED BY <1>5, <2>3, <2>4
<1>7. new = fw
  BY <1>6
<1>8. fw' = fw
  BY <1>7 DEF Retarget
<1>9. CASE Raise(w)
  BY <1>2, <1>8, <1>9, RaiseHeld
<1>10. CASE fw # None /\ Put(w, [job[w] EXCEPT !.todo = Tail(@)])
  <2>1. /\ job'[w].kind = "reconnect" /\ job'[w].pc = "retarget" /\ job'[w].st = "none"
        /\ job'[w].route = job[w].route /\ job'[w].gone = job[w].gone
        /\ job'[w].todo = Tail(job[w].todo)
    BY <1>1, <1>2, <1>10 DEF Put, Job
  <2>2. job'[w].todo = <<s2>> \/ job'[w].todo = <<>>
    <3> HIDE DEF s1, s2
    <3> QED BY <1>5, <2>1
  <2>3. Rewriting(job'[w])
    BY <2>1, <2>2 DEF Rewriting
  <2> HIDE DEF u, new, s1, s2
  <2> QED BY <1>2, <1>4, <1>8, <2>1, <2>3
          DEF Tame,
           ConnectHeld, RouteHeld, RetargetHeld, ProfileHeld,
           DownHeld, StatusHeld, ReconcileHeld, EnableHeld, Held, Won, ConnectionKinds
<1> QED BY <1>9, <1>10 DEF Retarget

\* How a switch gets on: the call u that comes next makes the table g of f.
LEMMA MovingGoesOn ==
  ASSUME NEW f \in Route, NEW g \in Route, NEW j, NEW k, Moving(f, j), j.todo # <<>>,
         j.target \in Route, k.route = j.route, k.target = j.target, k.todo = Tail(j.todo),
         NEW u, u = Head(j.todo), g = [f EXCEPT ![u.field] = u.to]
  PROVE  Moving(g, k)
<1> DEFINE a == j.route
           b == j.target
           s1 == Set("ifs", a.ifs \cup b.ifs)
           s2 == Set("eps", a.eps \cup b.eps)
           s3 == Set("eps", b.eps)
           s4 == Set("ifs", b.ifs)
<1>1. \/ j.todo = <<s1, s2, s3, s4>> \/ j.todo = <<s2, s3, s4>> \/ j.todo = <<s3, s4>>
      \/ j.todo = <<s4>> /\ f.eps = b.eps
  BY DEF Moving
<1>2. CASE j.todo = <<s1, s2, s3, s4>>
  <2>1. k.todo = <<s2, s3, s4>>
    <3> HIDE DEF s1, s2, s3, s4
    <3> QED BY <1>2, FourCalls
  <2> QED BY <2>1 DEF Moving
<1>5. CASE j.todo = <<s2, s3, s4>>
  <2>1. k.todo = <<s3, s4>>
    <3> HIDE DEF s2, s3, s4
    <3> QED BY <1>5, ThreeCalls
  <2> QED BY <2>1 DEF Moving
<1>3. CASE j.todo = <<s3, s4>>
  <2>1. u = s3 /\ k.todo = <<s4>>
    <3> HIDE DEF s3, s4
    <3> QED BY <1>3, TwoCalls
  <2>2. g.eps = b.eps
    BY <2>1, SetEpsEffect
  <2> QED BY <2>1, <2>2 DEF Moving
<1>4. CASE j.todo = <<s4>> /\ f.eps = b.eps
  <2>1. u = s4 /\ k.todo = <<>>
    <3> HIDE DEF s4
    <3> QED BY <1>4, OneCall
  <2>2. g.ifs = b.ifs /\ g.eps = b.eps
    BY <1>4, <2>1, SetIfsEffect
  <2>3. g = b
    BY <2>2, SameRoute
  <2> QED BY <2>1, <2>3 DEF Moving
<1> QED BY <1>1, <1>2, <1>3, <1>4, <1>5

\* A switch moves the table one call further to its target.
LEMMA SwitchRetargetHeld ==
  ASSUME HeldInv, NEW w \in Workers, Retarget(w), Is(w, {"switch"})
  PROVE  Held(fw', nm', disk', job'[w]) /\ Tame(w)
<1>1. /\ job \in [Workers -> Job] /\ Held(fw, nm, disk, job[w]) /\ job[w] \in Job
      /\ Shaped(job[w]) /\ fw \in OrNone(Route)
  BY JobHeld
<1> DEFINE u == Head(job[w].todo)
           new == [fw EXCEPT ![u.field] = u.to]
<1>2. /\ job[w].kind = "switch" /\ job[w].pc = "retarget" /\ job[w].todo # <<>>
      /\ UNCHANGED <<nm, disk>> /\ job[w].gone /\ job[w].st = "none" /\ job[w].target \in Route
  BY <1>1 DEF Retarget, At, Is, Shaped, Gone, Carries, Job, OrNone, Held, StatusHeld
<1>3. fw # None => fw \in Route /\ new \in Route /\ new # None
  <2>1. u \in Update
    BY <1>1, <1>2 DEF Job
  <2> QED BY <1>1, <2>1, UpdateType, SessionAssumption DEF OrNone
<1>4. Tame(w)
  BY <1>2, <1>3 DEF Retarget, Tame
<1>5. CASE Raise(w)
  BY <1>2, <1>4, <1>5, RaisedHeld DEF Is
<1>6. CASE fw # None /\ fw' = new /\ Put(w, [job[w] EXCEPT !.todo = Tail(@)])
  <2>1. /\ job'[w].kind = "switch" /\ job'[w].pc = "retarget" /\ job'[w].st = "none"
        /\ job'[w].route = job[w].route /\ job'[w].gone /\ job'[w].target = job[w].target
        /\ job'[w].todo = Tail(job[w].todo)
    BY <1>1, <1>2, <1>6 DEF Put, Job
  <2>2. Moving(fw, job[w])
    BY <1>1, <1>2, <1>6 DEF Held, RetargetHeld
  <2>3. Moving(fw', job'[w])
    BY <1>2, <1>3, <1>6, <2>1, <2>2, MovingGoesOn
  <2> HIDE DEF u, new
  <2> QED BY <1>2, <1>4, <2>1, <2>3
          DEF ConnectHeld, RouteHeld, RetargetHeld, ProfileHeld,
           DownHeld, StatusHeld, ReconcileHeld, EnableHeld, Held, Won, ConnectionKinds
<1> QED BY <1>5, <1>6 DEF Retarget

\* After the last call the table is the one the job wanted.
LEMMA RetargetedHeld ==
  ASSUME HeldInv, NEW w \in Workers, Retargeted(w)
  PROVE  Held(fw', nm', disk', job'[w]) /\ Tame(w)
<1>1. /\ job \in [Workers -> Job] /\ Held(fw, nm, disk, job[w]) /\ job[w] \in Job
      /\ Shaped(job[w])
  BY JobHeld
<1>2. CASE Raise(w)
  BY <1>2, RaiseHeld DEF Retargeted, At
<1>3. CASE fw # None /\ Goto(w, "vpn")
  <2>1. Goes(job[w], job'[w], "vpn")
    BY <1>3, GotoGoes
  <2>2. /\ job[w].kind \in {"reconnect", "switch"} /\ job[w].pc = "retarget"
        /\ job[w].todo = <<>> /\ UNCHANGED <<fw, nm, disk>> /\ (job[w].kind = "switch" => job[w].gone)
    BY <1>1 DEF Retargeted, At, Shaped, Placed, Gone, Job, Kinds
  <2>3. job[w].gone => fw = job[w].target
    BY <1>1, <1>3, <2>2 DEF Held, RetargetHeld, Moving
  <2>4. job[w].st = "none"
    BY <1>1, <2>2 DEF Held, StatusHeld
  <2> QED BY <1>1, <1>3, <2>1, <2>2, <2>3, <2>4
          DEF Tame, Goes,
           ConnectHeld, RouteHeld, RetargetHeld, ProfileHeld,
           DownHeld, StatusHeld, ReconcileHeld, EnableHeld, Held, Won, ConnectionKinds
<1> QED BY <1>2, <1>3 DEF Retargeted

\* A connection that is given up keeps what it knows of the table.
LEMMA GivenUpHeld ==
  ASSUME HeldInv, NEW w \in Workers, job[w].kind \in ConnectionKinds, job[w].pc # "done",
         NEW pc \in {"collect", "rollback"}, Goto(w, pc), NEW n
  PROVE  Held(fw, n, disk, job'[w])
<1>1. Held(fw, nm, disk, job[w])
  BY JobHeld
<1>2. Goes(job[w], job'[w], pc)
  BY GotoGoes
<1> QED BY <1>1, <1>2
        DEF Goes,
           ConnectHeld, RouteHeld, RetargetHeld, ProfileHeld,
           DownHeld, StatusHeld, ReconcileHeld, EnableHeld, Held, Won, ConnectionKinds

\* A new tunnel comes up behind the lock, with the profile the job names.
LEMMA StartVpnHeld ==
  ASSUME HeldInv, NEW w \in Workers, StartVpn(w)
  PROVE  Held(fw', nm', disk', job'[w]) /\ Tame(w)
<1>1. /\ job \in [Workers -> Job] /\ Held(fw, nm, disk, job[w]) /\ job[w] \in Job
      /\ Shaped(job[w])
  BY JobHeld
<1>2. /\ job[w].kind \in {"connect", "switch"} /\ job[w].pc = "vpn" /\ UNCHANGED <<fw, disk>>
      /\ job[w].st = "none"
  BY <1>1 DEF StartVpn, At, Is, Held, StatusHeld
<1>3. fw # None
  BY <1>1, <1>2 DEF Held, RouteHeld, ConnectionKinds
<1>4. Tame(w)
  BY <1>2, <1>3 DEF Tame
<1>5. CASE Goto(w, "rollback") \/ Goto(w, "collect")
  BY <1>2, <1>4, <1>5, GivenUpHeld DEF ConnectionKinds
<1>6. ASSUME NEW u, NEW to, nm' = [uuid |-> u, ep |-> TheEndpoint(to), up |-> TRUE],
             Put(w, [job[w] EXCEPT !.pc = "post", !.uuid = u])
      PROVE  Held(fw', nm', disk', job'[w])
  <2>1. /\ job'[w].kind = job[w].kind /\ job'[w].pc = "post" /\ job'[w].uuid = u
        /\ job'[w].route = job[w].route /\ job'[w].target = job[w].target
        /\ job'[w].gone = job[w].gone /\ job'[w].st = job[w].st
    BY <1>1, <1>6 DEF Put, Job
  <2>2. nm'.uuid = u
    BY <1>6
  <2> QED BY <1>1, <1>2, <1>3, <2>1, <2>2
          DEF ConnectHeld, RouteHeld, RetargetHeld, ProfileHeld,
           DownHeld, StatusHeld, ReconcileHeld, EnableHeld, Held, Won, ConnectionKinds
<1> QED BY <1>4, <1>5, <1>6 DEF StartVpn

\* A reconnect brings up the profile it was asked for.
LEMMA ReconnectVpnHeld ==
  ASSUME HeldInv, NEW w \in Workers, ReconnectVpn(w)
  PROVE  Held(fw', nm', disk', job'[w]) /\ Tame(w)
<1>1. /\ job \in [Workers -> Job] /\ Held(fw, nm, disk, job[w]) /\ job[w] \in Job
      /\ Shaped(job[w]) /\ nm \in Profile
  BY JobHeld
<1>2. /\ job[w].kind = "reconnect" /\ job[w].pc = "vpn" /\ UNCHANGED <<fw, disk>>
      /\ job[w].st = "none" /\ ~job[w].gone
  BY <1>1 DEF ReconnectVpn, At, Is, Held, StatusHeld, Shaped, Gone
<1>3. fw # None
  BY <1>1, <1>2 DEF Held, RouteHeld, ConnectionKinds
<1>4. Tame(w)
  BY <1>2, <1>3 DEF Tame
<1>5. CASE Goto(w, "rollback")
  BY <1>2, <1>4, <1>5, GivenUpHeld DEF ConnectionKinds
<1>6. CASE nm.uuid = job[w].uuid /\ nm' = [nm EXCEPT !.up = TRUE] /\ Goto(w, "post")
  <2>1. Goes(job[w], job'[w], "post")
    BY <1>6, GotoGoes
  <2>2. nm'.uuid = job[w].uuid
    BY <1>1, <1>6 DEF Profile
  <2> QED BY <1>1, <1>2, <1>3, <1>4, <2>1, <2>2
          DEF Goes,
           ConnectHeld, RouteHeld, RetargetHeld, ProfileHeld,
           DownHeld, StatusHeld, ReconcileHeld, EnableHeld, Held, Won, ConnectionKinds
<1> QED BY <1>5, <1>6 DEF ReconnectVpn

\* From the check on, the route of a connection is that of the table.
LEMMA PostCheckHeld ==
  ASSUME HeldInv, NEW w \in Workers, PostCheck(w)
  PROVE  Held(fw', nm', disk', job'[w]) /\ Tame(w)
<1>1. /\ job \in [Workers -> Job] /\ Held(fw, nm, disk, job[w]) /\ job[w] \in Job
      /\ Shaped(job[w])
  BY JobHeld
<1>2. /\ job[w].kind \in ConnectionKinds /\ job[w].pc = "post" /\ UNCHANGED <<fw, nm, disk>>
      /\ job[w].st = "none" /\ (job[w].kind = "switch" => job[w].gone)
      /\ (job[w].kind # "switch" => ~job[w].gone)
  BY <1>1
     DEF PostCheck, At, Held, StatusHeld, Shaped, Placed, Gone, Job, Kinds,
         ConnectionKinds
<1>3. Tame(w)
  BY <1>2 DEF Tame
<1>4. CASE Goto(w, "rollback")
  BY <1>2, <1>3, <1>4, GivenUpHeld
<1>5. ASSUME NEW r, r = IF Is(w, {"switch"}) THEN job[w].target ELSE job[w].route, fw # None,
             Put(w, [job[w] EXCEPT !.pc = "save", !.gone = FALSE, !.route = r])
      PROVE  Held(fw', nm', disk', job'[w])
  <2>1. /\ job'[w].kind = job[w].kind /\ job'[w].pc = "save" /\ job'[w].uuid = job[w].uuid
        /\ job'[w].route = r /\ job'[w].gone = FALSE /\ job'[w].st = job[w].st
    BY <1>1, <1>5 DEF Put, Job
  <2>2. job[w].route # None
    BY <1>1, <1>2 DEF Shaped, Carries, ConnectionKinds
  <2>3. fw = r
    BY <1>1, <1>2, <1>5, <2>2 DEF Is, Held, RouteHeld, RetargetHeld
  <2> QED BY <1>1, <1>2, <1>5, <2>1, <2>3
          DEF ConnectHeld, RouteHeld, RetargetHeld, ProfileHeld,
           DownHeld, StatusHeld, ReconcileHeld, EnableHeld, Held, Won, ConnectionKinds
<1> QED BY <1>3, <1>4, <1>5 DEF PostCheck

\* The rollback leaves the table alone.
LEMMA RollbackHeld ==
  ASSUME HeldInv, NEW w \in Workers, Rollback(w)
  PROVE  Held(fw', nm', disk', job'[w]) /\ Tame(w)
<1>1. Shaped(job[w]) /\ job[w] \in Job /\ nm \in Profile
  BY JobHeld
<1>2. job[w].kind \in ConnectionKinds /\ job[w].pc = "rollback" /\ UNCHANGED <<fw, disk>>
  BY <1>1 DEF Rollback, At, Shaped, Placed, Job, Kinds, ConnectionKinds
<1>3. nm'.up => nm.up
  BY <1>1 DEF Rollback, Down, Profile
<1>4. Tame(w)
  BY <1>2, <1>3 DEF Tame
<1> QED BY <1>2, <1>4, GivenUpHeld DEF Rollback

\* A job that returns is done, and otherwise as it was.
LEMMA ReturnGoes ==
  ASSUME HeldInv, NEW w \in Workers, NEW st, Return(w, [job[w] EXCEPT !.st = st])
  PROVE  /\ job'[w].kind = job[w].kind /\ job'[w].pc = "done" /\ job'[w].uuid = job[w].uuid
         /\ job'[w].route = job[w].route /\ job'[w].target = job[w].target
         /\ job'[w].gone = job[w].gone /\ job'[w].st = st /\ job'[w].ok = TRUE
         /\ job'[w].out = job[w].out
<1>1. job \in [Workers -> Job]
  BY JobHeld
<1> DEFINE j == [job[w] EXCEPT !.st = st]
<1>2. /\ j.kind = job[w].kind /\ j.uuid = job[w].uuid /\ j.route = job[w].route
      /\ j.target = job[w].target /\ j.gone = job[w].gone /\ j.st = st /\ j.out = job[w].out
      /\ DOMAIN j = DOMAIN job[w]
  BY <1>1 DEF Job
<1>3. job'[w] = [j EXCEPT !.pc = "done", !.ok = TRUE]
  BY <1>1 DEF Return, Put
<1>4. {"kind", "pc", "uuid", "route", "target", "gone", "st", "ok", "out"} \subseteq DOMAIN j
  BY <1>1, <1>2 DEF Job
<1> HIDE DEF j
<1> QED BY <1>2, <1>3, <1>4

\* A connection that ends well is recorded as it is.
LEMMA SaveRecordHeld ==
  ASSUME HeldInv, NEW w \in Workers, SaveRecord(w)
  PROVE  Held(fw', nm', disk', job'[w]) /\ Tame(w)
<1>1. /\ job \in [Workers -> Job] /\ Held(fw, nm, disk, job[w]) /\ job[w] \in Job
      /\ Shaped(job[w]) /\ disk \in Disk
  BY JobHeld
<1> DEFINE r == RecordOf(job[w].uuid, job[w].route)
           saved == [disk EXCEPT !.record = r]
<1>2. /\ job[w].kind \in ConnectionKinds /\ job[w].pc = "save" /\ UNCHANGED <<fw, nm>>
      /\ job[w].st = "none" /\ ~job[w].gone
  BY <1>1
     DEF SaveRecord, At, Held, StatusHeld, Shaped, Placed, Gone, Job, Kinds,
         ConnectionKinds
<1>3. /\ saved.record = r /\ saved.marker = disk.marker /\ saved.enabled = disk.enabled
  BY <1>1 DEF Disk
<1>4. r # None
  BY <1>1, <1>2, SessionAssumption
     DEF Shaped, Carries, ConnectionKinds, Job, OrNone, RecordOf, Record
<1>5. fw # None /\ fw = job[w].route /\ nm.uuid = job[w].uuid
  BY <1>1, <1>2 DEF Held, RouteHeld, ProfileHeld, Shaped, Carries, ConnectionKinds
<1>6. disk' = disk \/ disk' = saved
  BY DEF SaveRecord
<1>7. Tame(w)
  <2> HIDE DEF saved, r
  <2> QED BY <1>2, <1>3, <1>4, <1>6 DEF Tame
<1>8. CASE Raise(w)
  <2>1. disk'.marker = disk.marker /\ disk'.enabled = disk.enabled
    BY <1>7 DEF Tame
  <2> QED BY <1>1, <1>2, <1>5, <1>7, <1>8, <2>1, RaisedHeld DEF ConnectionKinds
<1>9. CASE disk' = saved /\ Return(w, [job[w] EXCEPT !.st = "active"])
  <2>1. /\ job'[w].kind = job[w].kind /\ job'[w].pc = "done" /\ job'[w].uuid = job[w].uuid
        /\ job'[w].route = job[w].route /\ job'[w].st = "active" /\ job'[w].gone = job[w].gone
    BY <1>9, ReturnGoes
  <2>2. disk'.record = RecordOf(job'[w].uuid, job'[w].route)
    BY <1>3, <1>9, <2>1
  <2>3. disk'.marker = disk.marker /\ disk'.enabled = disk.enabled
    BY <1>7 DEF Tame
  <2>4. Status(fw) = "active"
    BY <1>5 DEF Status
  <2> HIDE DEF saved, r
  <2> QED BY <1>1, <1>2, <1>5, <1>7, <2>1, <2>2, <2>3, <2>4
          DEF ConnectHeld, RouteHeld, RetargetHeld, ProfileHeld,
           DownHeld, StatusHeld, ReconcileHeld, EnableHeld, Held, Won, ConnectionKinds
<1> QED BY <1>8, <1>9 DEF SaveRecord

\* The table goes on request only, with the tunnel down.
LEMMA ReleaseFirewallHeld ==
  ASSUME HeldInv, NEW w \in Workers, ReleaseFirewall(w)
  PROVE  Held(fw', nm', disk', job'[w]) /\ Tame(w)
<1>1. Held(fw, nm, disk, job[w]) /\ job[w] \in Job /\ Shaped(job[w])
  BY JobHeld
<1>2. /\ job[w].kind \in {"disconnect", "disable", "reset"} /\ job[w].pc = "release"
      /\ UNCHANGED <<nm, disk>> /\ ~nm.up /\ job[w].st = "none" /\ ~job[w].gone
  BY <1>1
     DEF ReleaseFirewall, At, Held, DownHeld, StatusHeld, Shaped, Placed, Gone, Job, Kinds
<1>3. Tame(w)
  BY <1>2 DEF ReleaseFirewall, Tame
<1>4. CASE Raise(w)
  BY <1>2, <1>3, <1>4, RaisedHeld DEF Is, ConnectionKinds
<1>5. CASE fw' = None /\ Goto(w, "discard")
  <2>1. Goes(job[w], job'[w], "discard")
    BY <1>5, GotoGoes
  <2> QED BY <1>2, <1>3, <1>5, <2>1
          DEF Goes,
           ConnectHeld, RouteHeld, RetargetHeld, ProfileHeld,
           DownHeld, StatusHeld, ReconcileHeld, EnableHeld, Held, Won, ConnectionKinds
<1>6. CASE fw' = None /\ Return(w, [job[w] EXCEPT !.st = "absent"])
  <2>1. /\ job'[w].kind = job[w].kind /\ job'[w].pc = "done" /\ job'[w].st = "absent"
        /\ job'[w].gone = job[w].gone
    BY <1>6, ReturnGoes
  <2>2. Status(fw') = "absent"
    BY <1>6 DEF Status
  <2> QED BY <1>2, <1>3, <2>1, <2>2
          DEF ConnectHeld, RouteHeld, RetargetHeld, ProfileHeld,
           DownHeld, StatusHeld, ReconcileHeld, EnableHeld, Held, Won, ConnectionKinds
<1> QED BY <1>4, <1>5, <1>6 DEF ReleaseFirewall

\* The record is discarded when the table is gone.
LEMMA DiscardRecordHeld ==
  ASSUME HeldInv, NEW w \in Workers, DiscardRecord(w)
  PROVE  Held(fw', nm', disk', job'[w]) /\ Tame(w)
<1>1. Held(fw, nm, disk, job[w]) /\ job[w] \in Job /\ Shaped(job[w]) /\ disk \in Disk
  BY JobHeld
<1>2. /\ job[w].kind = "reset" /\ job[w].pc = "discard" /\ fw = None
      /\ UNCHANGED <<fw, nm>> /\ ~nm.up /\ job[w].st = "none" /\ ~job[w].gone
  BY <1>1 DEF DiscardRecord, At, Held, DownHeld, StatusHeld, Shaped, Placed, Gone, Job, Kinds
<1>3. disk'.marker = disk.marker /\ disk'.enabled = disk.enabled
  BY <1>1 DEF DiscardRecord, Disk
<1>4. Tame(w)
  BY <1>2, <1>3 DEF Tame
<1>5. CASE Raise(w)
  BY <1>2, <1>3, <1>4, <1>5, RaisedHeld DEF Is, ConnectionKinds
<1>6. CASE Return(w, [job[w] EXCEPT !.st = "absent"])
  <2>1. /\ job'[w].kind = job[w].kind /\ job'[w].pc = "done" /\ job'[w].st = "absent"
        /\ job'[w].gone = job[w].gone
    BY <1>6, ReturnGoes
  <2>2. Status(fw') = "absent"
    BY <1>2 DEF Status
  <2> QED BY <1>2, <1>4, <2>1, <2>2
          DEF ConnectHeld, RouteHeld, RetargetHeld, ProfileHeld,
           DownHeld, StatusHeld, ReconcileHeld, EnableHeld, Held, Won, ConnectionKinds
<1> QED BY <1>5, <1>6 DEF DiscardRecord

\* Looking at the table says what it is.
LEMMA LookHeld ==
  ASSUME HeldInv, NEW w \in Workers,
         LookBeforeDisable(w) \/ LookBeforeEnable(w) \/ Recheck(w)
  PROVE  Held(fw', nm', disk', job'[w]) /\ Tame(w)
<1>1. Held(fw, nm, disk, job[w]) /\ job[w] \in Job /\ Shaped(job[w])
  BY JobHeld
<1>2. /\ job[w].kind \in {"disable", "enable", "recheck"} /\ job[w].pc = "look"
      /\ UNCHANGED <<fw, nm, disk>> /\ job[w].st = "none" /\ ~job[w].gone
      /\ (job[w].kind = "recheck" => ~nm.up) /\ (job[w].kind = "enable" => ~disk.enabled)
  BY <1>1
     DEF LookBeforeDisable, LookBeforeEnable, Recheck, At, Is, Held, DownHeld, EnableHeld,
              StatusHeld, Shaped, Gone
<1>3. Tame(w)
  BY <1>2 DEF Tame
<1>4. CASE Raise(w)
  BY <1>2, <1>4, RaiseHeld
<1>5. CASE job[w].kind = "disable" /\ Goto(w, "lock")
  <2>1. Goes(job[w], job'[w], "lock")
    BY <1>5, GotoGoes
  <2> QED BY <1>2, <1>3, <1>5, <2>1
          DEF Goes,
           ConnectHeld, RouteHeld, RetargetHeld, ProfileHeld,
           DownHeld, StatusHeld, ReconcileHeld, EnableHeld, Held, Won, ConnectionKinds
<1>6. ASSUME NEW st, st = Status(fw), Return(w, [job[w] EXCEPT !.st = st])
      PROVE  Held(fw', nm', disk', job'[w])
  <2>1. /\ job'[w].kind = job[w].kind /\ job'[w].pc = "done" /\ job'[w].st = Status(fw)
        /\ job'[w].gone = job[w].gone
    BY <1>6, ReturnGoes
  <2> QED BY <1>2, <2>1
          DEF ConnectHeld, RouteHeld, RetargetHeld, ProfileHeld,
           DownHeld, StatusHeld, ReconcileHeld, EnableHeld, Held, Won, ConnectionKinds
<1>7. fw = None => "absent" = Status(fw)
  BY DEF Status
<1> QED BY <1>3, <1>4, <1>5, <1>6, <1>7 DEF LookBeforeDisable, LookBeforeEnable, Recheck, Is

\* What a reconciliation concludes is so.
LEMMA ReconcileEndHeld ==
  ASSUME HeldInv, NEW w \in Workers, Reconcile(w)
  PROVE  Held(fw', nm', disk', job'[w]) /\ Tame(w)
<1>1. /\ job \in [Workers -> Job] /\ Held(fw, nm, disk, job[w]) /\ job[w] \in Job
      /\ Shaped(job[w]) /\ nm \in Profile
  BY JobHeld
<1>2. /\ job[w].kind = "reconcile" /\ job[w].pc = "look" /\ UNCHANGED <<fw, nm, disk>>
      /\ ~job[w].gone
  BY <1>1 DEF Reconcile, At, Is, Shaped, Gone
<1>3. Tame(w)
  BY <1>2 DEF Tame
<1>4. CASE Raise(w)
  BY <1>2, <1>4, RaiseHeld
<1>5. ASSUME NEW st, NEW out, NEW u, st = Status(fw), out = Evaluate(disk.record, fw, nm),
             u = IF disk.record = None THEN None ELSE disk.record.uuid,
             Put(w, [[job[w] EXCEPT !.st = st, !.route = fw, !.out = out, !.uuid = u]
                      EXCEPT !.pc = "done", !.ok = TRUE])
      PROVE  Held(fw', nm', disk', job'[w])
  <2> DEFINE j == [job[w] EXCEPT !.st = st, !.route = fw, !.out = out, !.uuid = u]
             k == [j EXCEPT !.pc = "done", !.ok = TRUE]
  <2>1. /\ j.kind = job[w].kind /\ j.uuid = u /\ j.route = fw /\ j.gone = job[w].gone
        /\ j.st = st /\ j.out = out /\ DOMAIN j = DOMAIN job[w]
    BY <1>1 DEF Job
  <2>2. {"kind", "pc", "uuid", "route", "gone", "st", "ok", "out"} \subseteq DOMAIN j
    BY <1>1, <2>1 DEF Job
  <2>3. /\ k.kind = job[w].kind /\ k.pc = "done" /\ k.uuid = u /\ k.route = fw
        /\ k.gone = job[w].gone /\ k.st = st /\ k.out = out
    <3> HIDE DEF j
    <3> QED BY <2>1, <2>2
  <2>4. job'[w] = k
    BY <1>1, <1>5 DEF Put
  <2>5. /\ Clean(out) => fw = None
        /\ Adopted(out) => fw # None /\ (nm.up => nm.uuid = u)
    <3>1. nm.up \in BOOLEAN
      BY <1>1 DEF Profile
    <3> QED BY <1>5, <3>1, Evaluated
  <2> HIDE DEF j, k
  <2> QED BY <1>2, <1>5, <2>3, <2>4, <2>5
          DEF ConnectHeld, RouteHeld, RetargetHeld, ProfileHeld,
           DownHeld, StatusHeld, ReconcileHeld, EnableHeld, Held, Won, ConnectionKinds
<1> QED BY <1>3, <1>4, <1>5 DEF Reconcile, Return

\* A failed job reports the status, or none.
LEMMA CollectHeld ==
  ASSUME HeldInv, NEW w \in Workers, Collect(w)
  PROVE  Held(fw', nm', disk', job'[w]) /\ Tame(w)
<1>1. /\ job \in [Workers -> Job] /\ Held(fw, nm, disk, job[w]) /\ job[w] \in Job
      /\ Shaped(job[w])
  BY JobHeld
<1>2. job[w].kind # "recheck" /\ job[w].pc = "collect" /\ UNCHANGED <<fw, nm, disk>>
  BY <1>1 DEF Collect, At, Shaped, Placed
<1>3. Tame(w)
  BY <1>2 DEF Tame
<1>4. ASSUME NEW st \in {"none", Status(fw)}, NEW e \in BOOLEAN,
             NEW r, r = IF job[w].gone THEN None ELSE job[w].route,
             Put(w, [job[w] EXCEPT !.pc = "done", !.ok = FALSE, !.st = st, !.err = e,
                                   !.route = r])
      PROVE  Held(fw', nm', disk', job'[w])
  <2>1. /\ job'[w].kind = job[w].kind /\ job'[w].pc = "done" /\ job'[w].ok = FALSE
        /\ job'[w].st = st /\ job'[w].route = r /\ job'[w].gone = job[w].gone
    BY <1>1, <1>4 DEF Put, Job
  <2> QED BY <1>1, <1>2, <1>4, <2>1
          DEF ConnectHeld, RouteHeld, RetargetHeld, ProfileHeld,
           DownHeld, StatusHeld, ReconcileHeld, EnableHeld, Held, Won, ConnectionKinds
<1> QED BY <1>3, <1>4 DEF Collect

\* Every step of a job keeps what the job holds.
LEMMA JobStepHeld ==
  ASSUME HeldInv, NEW w \in Workers, JobStep(w)
  PROVE  Held(fw', nm', disk', job'[w]) /\ Tame(w)
<1>1. Retarget(w) => Is(w, {"reconnect"}) \/ Is(w, {"switch"})
  BY JobHeld DEF Retarget, At, Is, Shaped, Placed, Job, Kinds
<1> QED BY <1>1, PrepareConnectHeld, PrepareSwitchHeld, EnableFirewallHeld, VerifyLockHeld,
           ReconnectPathHeld, StopVpnHeld, ProbeBlockedHeld, ReconnectRetargetHeld,
           SwitchRetargetHeld, RetargetedHeld, StartVpnHeld, ReconnectVpnHeld, PostCheckHeld,
           RollbackHeld, SaveRecordHeld, ReleaseFirewallHeld, DiscardRecordHeld, LookHeld,
           ReconcileEndHeld, CollectHeld
        DEF JobStep

\* The idle jobs hold nothing.
LEMMA NoneHeld ==
  ASSUME NEW f, NEW n, NEW d, NEW j, j.kind = "none", Shaped(j)
  PROVE  Held(f, n, d, j)
  BY DEF ConnectHeld, RouteHeld, RetargetHeld, ProfileHeld,
           DownHeld, StatusHeld, ReconcileHeld, EnableHeld, Held, Won, ConnectionKinds, Shaped, Gone

-----------------------------------------------------------------------------
(***************************************************************************)
(* What the window and the disk know of the host.                           *)
(***************************************************************************)
\* Window g and files d are true of the table f, when no job is at it.
Fits(f, g, d) ==
  /\ f # None => d.enabled /\ (d.marker \/ d.record # None) /\ (g.plan # None => f = g.plan)
  /\ ~g.err => (g.st = "active" => f # None) /\ (g.st = "absent" => f = None)

\* With the preference off there is no table.
OffIsOpen == ~disk.enabled => fw = None

\* The plan the window remembers is the table's, unless a job is rewriting it.
PlanTrue ==
  (\A w \in Workers : job[w].kind \notin {"connect", "switch"}) =>
    (gui.plan # None /\ fw # None => fw = gui.plan)

\* The invariant all properties rest on.
HostInv == HeldInv /\ ArmedIsRemembered /\ OffIsOpen /\ PlanTrue /\ StatusIsExact

\* The other workers hold nothing while one has a job.
LEMMA OthersIdle ==
  ASSUME HeldInv, NEW w \in Workers, job[w].kind # "none"
  PROVE  \A v \in Workers : v # w => job[v].kind = "none"
  BY DEF HeldInv, CoordInv, Coord, OneJobAtATime

\* A step of a job keeps the invariant.
LEMMA JobStepHost ==
  ASSUME HostInv, NEW w \in Workers, JobStep(w)
  PROVE  HostInv'
<1>1. HeldInv /\ ShapeInv /\ CoordInv
  BY DEF HostInv, HeldInv, CoordInv
<1>2. /\ Moved(w) /\ gui' = gui /\ ShapeInv' /\ Coord'
      /\ Held(fw', nm', disk', job'[w]) /\ Tame(w)
  BY <1>1, JobStepMoves, JobStepWindow, JobStepShape, JobStepCoord, JobStepHeld
<1>3. \A v \in Workers : v # w => job[v].kind = "none"
  BY <1>1, <1>2, OthersIdle DEF Moved
<1>4. \A v \in Workers : v # w => job'[v] = job[v]
  BY <1>1, <1>2 DEF Moved, ShapeInv, TypeOK
<1>5. \A v \in Workers : Held(fw', nm', disk', job'[v])
  <2> SUFFICES ASSUME NEW v \in Workers, v # w PROVE Held(fw', nm', disk', job'[v])
    BY <1>2
  <2>1. job'[v] = job[v] /\ job[v].kind = "none" /\ Shaped(job[v])
    BY <1>1, <1>3, <1>4, JobShape
  <2> QED BY <2>1, NoneHeld
<1>6. HeldInv'
  BY <1>2, <1>5 DEF HeldInv, CoordInv
<1>7. Held(fw, nm, disk, job[w]) /\ job'[w].kind = job[w].kind
  BY <1>1, <1>2, JobHeld DEF Moved
<1>8. job[w].kind = "connect" => disk.marker /\ disk.enabled
  BY <1>7 DEF Held, ConnectHeld
<1>9. ArmedIsRemembered' /\ OffIsOpen'
  BY <1>2, <1>8 DEF HostInv, Tame, ArmedIsRemembered, OffIsOpen
<1>10. PlanTrue'
  <2> SUFFICES ASSUME \A v \in Workers : job'[v].kind \notin {"connect", "switch"},
                      gui.plan # None, fw' # None
               PROVE  fw' = gui.plan
    BY <1>2 DEF PlanTrue
  <2>1. \A v \in Workers : job[v].kind \notin {"connect", "switch"}
    BY <1>3, <1>7
  <2>2. fw' = fw
    BY <1>2, <2>1 DEF Tame
  <2> QED BY <2>1, <2>2 DEF HostInv, PlanTrue
<1>11. gui'.busy
  BY <1>2, <1>7 DEF Coord, OneJobAtATime, Moved
<1>12. StatusIsExact'
  BY <1>11 DEF StatusIsExact
<1> QED BY <1>6, <1>9, <1>10, <1>12 DEF HostInv

\* Where nothing runs, what fits is the invariant.
LEMMA FitsHost ==
  ASSUME ShapeInv', Coord', UNCHANGED fw,
         \A w \in Workers : job'[w].kind = "none", Fits(fw, gui', disk')
  PROVE  HostInv'
<1>1. \A w \in Workers : Shaped(job'[w])
  BY DEF ShapeInv, AllShaped
<1>2. \A w \in Workers : Held(fw', nm', disk', job'[w])
  BY <1>1, NoneHeld
<1> QED BY <1>2 DEF HostInv, HeldInv, CoordInv, Fits, ArmedIsRemembered, OffIsOpen, PlanTrue,
                    StatusIsExact

\* A refresh of what fits fits: it may add a record, and clears none.
LEMMA RefreshFits ==
  ASSUME NEW g \in Gui, NEW d \in Disk, Refresh(g, d), Fits(fw, g, d)
  PROVE  Fits(fw, gui', disk')
<1>1. /\ gui'.st = g.st /\ gui'.err = g.err /\ gui'.plan = g.plan
      /\ disk' = d \/ (~g.busy /\ d.saved # None /\ g.plan # None
                            /\ disk' = [d EXCEPT !.record = RecordOf(d.saved, g.plan)])
  BY RefreshKeeps
<1>2. CASE disk' = d
  BY <1>1, <1>2 DEF Fits
<1>3. CASE disk' # d
  <2>1. RecordOf(d.saved, g.plan) # None
    BY <1>1, <1>3, SessionAssumption DEF Disk, Gui, OrNone, RecordOf, Record
  <2>2. disk'.record # None /\ disk'.enabled = d.enabled
    BY <1>1, <1>3, <2>1 DEF Disk
  <2> QED BY <1>1, <2>2 DEF Fits
<1> QED BY <1>2, <1>3

\* A slot that shows what fits keeps the invariant.
LEMMA ShowsHost ==
  ASSUME HostInv, NEW w \in Workers, NEW g, NEW d, Shows(w, g, d), Fits(fw, g, d)
  PROVE  HostInv'
<1>1. HeldInv /\ ShapeInv /\ CoordInv
  BY DEF HostInv, HeldInv, CoordInv
<1>2. ShapeInv' /\ Ends(w) /\ UNCHANGED fw
  BY <1>1, ShowsShape DEF Shows, Taken
<1>3. Put(w, NoJob) /\ gui'.busy = FALSE /\ job[w].kind # "none"
  BY RefreshKeeps DEF Shows, Quiet, Taken, At
<1>4. Coord'
  BY <1>1, <1>3, EndCoord
<1>5. \A v \in Workers : job'[v].kind = "none"
  BY <1>1, <1>3, OthersIdle DEF Put, NoJob, ShapeInv, TypeOK
<1>6. Fits(fw, gui', disk')
  BY RefreshFits DEF Shows, Quiet
<1> QED BY <1>2, <1>4, <1>5, <1>6, FitsHost

\* A window that goes leaves what the table was.
LEMMA ExitHost ==
  ASSUME HostInv, NEW d \in Disk, Exit(d),
         fw # None => d.enabled /\ (d.marker \/ d.record # None)
  PROVE  HostInv'
<1>1. ShapeInv' /\ Coord'
  BY ExitShape, ExitCoord DEF HostInv, HeldInv, CoordInv
<1>2. UNCHANGED fw /\ gui'.plan = None /\ gui'.st = "none" /\ gui'.err = FALSE /\ disk' = d
      /\ \A w \in Workers : job'[w].kind = "none"
  BY DEF Exit, NewGui, NoJob
<1>3. Fits(fw, gui', disk')
  BY <1>2 DEF Fits
<1> QED BY <1>1, <1>2, <1>3, FitsHost

\* What a slot finds: the job's status and route, if any, are the table's, and so is
\* the plan, unless the job had to change it.
LEMMA SlotFinds ==
  ASSUME HostInv, NEW w \in Workers, At(w, "done")
  PROVE  /\ ShapeInv /\ job[w] \in Job /\ Shaped(job[w]) /\ gui \in Gui /\ disk \in Disk
         /\ job[w].st = "active" => fw # None
         /\ job[w].st = "absent" => fw = None
         /\ fw # None => disk.enabled /\ (disk.marker \/ disk.record # None)
         /\ job[w].kind \in ConnectionKinds /\ job[w].route # None /\ fw # None
              => fw = job[w].route
         /\ job[w].kind \notin {"connect", "switch"} /\ gui.plan # None /\ fw # None
              => fw = gui.plan
<1>1. HeldInv /\ ShapeInv /\ CoordInv
  BY DEF HostInv, HeldInv, CoordInv
<1>2. job[w] \in Job /\ Shaped(job[w]) /\ gui \in Gui /\ disk \in Disk
      /\ Held(fw, nm, disk, job[w])
  BY <1>1, JobHeld DEF ShapeInv, TypeOK
<1>3. job[w].st = "none" \/ job[w].st = Status(fw)
  BY <1>2 DEF Held, StatusHeld, At
<1>4. /\ job[w].st = "active" => fw # None
      /\ job[w].st = "absent" => fw = None
  BY <1>3 DEF Status
<1>5. job[w].kind \in ConnectionKinds /\ job[w].route # None /\ fw # None
         => fw = job[w].route
  BY <1>2 DEF Held, RouteHeld, Shaped, Gone, At
<1>6. job[w].kind \notin {"connect", "switch"} /\ gui.plan # None /\ fw # None
         => fw = gui.plan
  BY <1>1, OthersIdle DEF HostInv, PlanTrue, At
<1> QED BY <1>1, <1>2, <1>4, <1>5, <1>6 DEF HostInv, ArmedIsRemembered, OffIsOpen

\* What the slots show.
LEMMA ShownFields ==
  ASSUME ShapeInv, NEW w \in Workers
  PROVE  /\ Shown(w).st = job[w].st /\ Shown(w).err = job[w].err /\ Shown(w).plan = gui.plan
         /\ Protected(w).st = job[w].st /\ Protected(w).err = job[w].err
         /\ Protected(w).plan = job[w].route
         /\ Released(w).st = job[w].st /\ Released(w).err = job[w].err
         /\ Released(w).plan = None
         /\ RecoveryFailure(w).err = TRUE /\ RecoveryFailure(w).plan = gui.plan
         /\ Idle(w).plan = gui.plan
<1>1. gui \in Gui /\ Shown(w) \in Gui
  BY ShownType DEF ShapeInv, TypeOK, Quiet
<1>2. Idle(w).plan = gui.plan /\ Idle(w) \in Gui
  BY <1>1, ShownType DEF Idle, Gui, Quiet
<1>3. Shown(w).st = job[w].st /\ Shown(w).err = job[w].err /\ Shown(w).plan = gui.plan
  BY <1>2 DEF Shown, Gui
<1>4. /\ Protected(w).st = job[w].st /\ Protected(w).err = job[w].err
      /\ Protected(w).plan = job[w].route
  BY <1>1, <1>3 DEF Protected, Gui
<1>5. /\ Released(w).st = job[w].st /\ Released(w).err = job[w].err
      /\ Released(w).plan = None
  BY <1>1, <1>3 DEF Released, Gui
<1>6. RecoveryFailure(w).err = TRUE /\ RecoveryFailure(w).plan = gui.plan
  BY <1>1, <1>3 DEF RecoveryFailure, Gui
<1> QED BY <1>2, <1>3, <1>4, <1>5, <1>6

\* The slots of a connection take over the route the job brings back.
LEMMA ConnectionSlotHost ==
  ASSUME HostInv, NEW w \in Workers,
         Connected(w) \/ ConnectFailed(w) \/ ReconnectFailed(w) \/ SwitchFailed(w)
  PROVE  HostInv'
<1>1. At(w, "done") /\ job[w].kind \in ConnectionKinds
  BY DEF Connected, ConnectFailed, ReconnectFailed, SwitchFailed, Finished,
         ConnectionKinds, At
<1>2. /\ ShapeInv /\ job[w] \in Job /\ disk \in Disk
      /\ job[w].st = "active" => fw # None
      /\ job[w].st = "absent" => fw = None
      /\ fw # None => disk.enabled /\ (disk.marker \/ disk.record # None)
      /\ job[w].route # None /\ fw # None => fw = job[w].route
  BY <1>1, SlotFinds
<1>3. /\ job[w].uuid \in OrNone(Uuids) /\ job[w].route \in OrNone(Route)
      /\ job[w].base \in BOOLEAN /\ None \in OrNone(Uuids)
  BY <1>2 DEF Job, OrNone
<1>4. Shown(w) \in Quiet /\ Protected(w) \in Quiet
  BY <1>2, ShownType
<1>5. ASSUME NEW u \in OrNone(Uuids)
      PROVE  /\ [disk EXCEPT !.saved = u] \in Disk
             /\ [disk EXCEPT !.saved = u].marker = disk.marker
             /\ [disk EXCEPT !.saved = u].record = disk.record
             /\ [disk EXCEPT !.saved = u].enabled = disk.enabled
  BY <1>2 DEF Disk
<1>6. ASSUME NEW g, g.st = job[w].st, g.plan = job[w].route,
             NEW d \in Disk, d.marker = disk.marker, d.record = disk.record,
             d.enabled = disk.enabled
      PROVE  Fits(fw, g, d)
  BY <1>2, <1>6 DEF Fits
<1>7. CASE Connected(w)
  <2> DEFINE d == [disk EXCEPT !.saved = job[w].uuid]
  <2>1. Shows(w, Protected(w), d)
    BY <1>1, <1>3, <1>4, <1>5, <1>7 DEF Connected, Shows
  <2>2. Fits(fw, Protected(w), d)
    BY <1>2, <1>3, <1>5, <1>6, ShownFields
  <2> QED BY <2>1, <2>2, ShowsHost
<1>8. CASE ConnectFailed(w)
  <2> DEFINE g == [Shown(w) EXCEPT !.baseline = job[w].base, !.plan = job[w].route]
  <2>1. g \in Quiet /\ g.st = Shown(w).st /\ g.plan = job[w].route
    BY <1>3, <1>4 DEF Gui, Quiet
  <2> HIDE DEF g
  <2>2. Shows(w, g, disk)
    BY <1>1, <1>2, <1>8, <2>1 DEF ConnectFailed, Shows, g
  <2> QED BY <1>2, <1>6, <2>1, <2>2, ShownFields, ShowsHost
<1>9. CASE ReconnectFailed(w)
  <2> DEFINE g == [Shown(w) EXCEPT !.plan = job[w].route, !.last = FALSE]
  <2>1. g \in Quiet /\ g.st = Shown(w).st /\ g.plan = job[w].route
    BY <1>3, <1>4 DEF Gui, Quiet
  <2> HIDE DEF g
  <2>2. Shows(w, g, disk)
    BY <1>1, <1>2, <1>9, <2>1 DEF ReconnectFailed, Shows, g
  <2> QED BY <1>2, <1>6, <2>1, <2>2, ShownFields, ShowsHost
<1>10. CASE SwitchFailed(w)
  <2> DEFINE g == [Shown(w) EXCEPT !.plan = job[w].route]
  <2>1. g \in Quiet /\ g.st = Shown(w).st /\ g.plan = job[w].route
    BY <1>3, <1>4 DEF Gui, Quiet
  <2>2. PICK h \in {g, [g EXCEPT !.last = TRUE], [g EXCEPT !.last = FALSE]},
             d \in {disk, [disk EXCEPT !.saved = None]} : Refresh(h, d)
    BY <1>10 DEF SwitchFailed
  <2>3. h \in Quiet /\ h.st = g.st /\ h.plan = g.plan
    <3> HIDE DEF g
    <3> QED BY <2>1 DEF Gui, Quiet
  <2>4. /\ d \in Disk /\ d.marker = disk.marker /\ d.record = disk.record
        /\ d.enabled = disk.enabled
    BY <1>2, <1>3, <1>5
  <2>5. Shows(w, h, d)
    BY <1>1, <1>10, <2>2, <2>3, <2>4 DEF SwitchFailed, Shows
  <2>6. h.st = job[w].st /\ h.plan = job[w].route
    <3> HIDE DEF g
    <3> QED BY <1>2, <2>1, <2>3, ShownFields
  <2>7. Fits(fw, h, d)
    BY <1>6, <2>4, <2>6
  <2> HIDE DEF g
  <2> QED BY <2>5, <2>7, ShowsHost
<1> QED BY <1>7, <1>8, <1>9, <1>10

\* Without a table nothing is held against a window that shows none.
LEMMA OpenFits ==
  ASSUME NEW g, NEW d, fw = None, g.st = "absent" \/ g.st = "none"
  PROVE  Fits(fw, g, d)
  BY DEF Fits

\* An absent lock is released, in the window and on disk.
LEMMA UnlockedHost ==
  ASSUME HostInv, NEW w \in Workers, Unlocked(w), At(w, "done"), job[w].st = "absent"
  PROVE  HostInv'
<1>1. ShapeInv /\ disk \in Disk /\ fw = None /\ Released(w) \in Quiet /\ Released(w).st = "absent"
  BY SlotFinds, ShownType, ShownFields
<1>2. [disk EXCEPT !.saved = None] \in Disk
  BY <1>1 DEF Disk, OrNone
<1>3. PICK d \in ClearedRecords([disk EXCEPT !.saved = None]) :
        \/ job[w].quit /\ Exit(d)
        \/ ~job[w].quit /\ Refresh(Released(w), d) /\ Taken(w)
  BY DEF Unlocked
<1>4. d \in Disk
  BY <1>2, ClearedType
<1>5. CASE Exit(d)
  BY <1>1, <1>4, <1>5, ExitHost
<1>6. CASE Refresh(Released(w), d) /\ Taken(w)
  BY <1>1, <1>4, <1>6, OpenFits, ShowsHost DEF Shows
<1> QED BY <1>3, <1>5, <1>6

\* The slots that report a verified release.
LEMMA ReleasedSlotHost ==
  ASSUME HostInv, NEW w \in Workers,
         Disconnected(w) \/ PreferenceDisabled(w) \/ PreferenceEnabled(w) \/ ResetDone(w)
  PROVE  HostInv'
<1>1. /\ At(w, "done") /\ Won(job[w])
      /\ job[w].kind \in {"disconnect", "disable", "enable", "reset"}
  BY DEF Disconnected, PreferenceDisabled, PreferenceEnabled, ResetDone, Finished, At, Won
<1>2. ShapeInv /\ Shaped(job[w]) /\ gui \in Gui /\ disk \in Disk
  BY <1>1, SlotFinds
<1>3. job[w].st = "absent"
  BY <1>1, <1>2 DEF Shaped, Carries
<1>4. fw = None
  BY <1>1, <1>3, SlotFinds
<1>5. Shown(w) \in Quiet /\ Released(w) \in Quiet
      /\ Shown(w).st = "absent" /\ Released(w).st = "absent"
  BY <1>2, <1>3, ShownType, ShownFields
<1>6. CASE Disconnected(w)
  BY <1>1, <1>3, <1>6, UnlockedHost DEF Disconnected
<1>7. CASE PreferenceDisabled(w)
  <2>1. PICK d \in ClearedRecords([disk EXCEPT !.enabled = FALSE]) :
          Refresh([Released(w) EXCEPT !.last = gui.last], d)
    BY <1>7 DEF PreferenceDisabled
  <2>2. d \in Disk
    <3>1. [disk EXCEPT !.enabled = FALSE] \in Disk
      BY <1>2 DEF Disk
    <3> QED BY <3>1, ClearedType
  <2>3. /\ [Released(w) EXCEPT !.last = gui.last] \in Quiet
        /\ [Released(w) EXCEPT !.last = gui.last].st = "absent"
    BY <1>2, <1>5 DEF Gui, Quiet
  <2> QED BY <1>1, <1>4, <1>7, <2>1, <2>2, <2>3, OpenFits, ShowsHost
          DEF PreferenceDisabled, Shows
<1>8. CASE PreferenceEnabled(w)
  <2>1. [disk EXCEPT !.enabled = TRUE, !.marker = FALSE] \in Disk
    BY <1>2 DEF Disk
  <2> QED BY <1>1, <1>4, <1>5, <1>8, <2>1, OpenFits, ShowsHost DEF PreferenceEnabled, Shows
<1>9. CASE ResetDone(w)
  <2>1. [disk EXCEPT !.marker = FALSE, !.saved = None] \in Disk
    BY <1>2 DEF Disk, OrNone
  <2> QED BY <1>1, <1>4, <1>5, <1>9, <2>1, OpenFits, ShowsHost DEF ResetDone, Shows
<1> QED BY <1>6, <1>7, <1>8, <1>9

\* The slots of what failed, or found the lock in place, leave the plan alone.
LEMMA KeptSlotHost ==
  ASSUME HostInv, NEW w \in Workers,
         \/ DisconnectFailed(w) \/ PreferenceDisableFailed(w) \/ PreferenceEnableFailed(w)
         \/ StatusUnknown(w) \/ Rechecked(w) \/ ReconcileFailed(w)
  PROVE  HostInv'
<1>1. /\ At(w, "done")
      /\ job[w].kind \in {"disconnect", "disable", "enable", "reset", "recheck", "reconcile"}
  BY DEF DisconnectFailed, PreferenceDisableFailed, PreferenceEnableFailed, StatusUnknown,
         Rechecked, ReconcileFailed, Finished, At
<1>2. /\ ShapeInv /\ disk \in Disk
      /\ job[w].st = "active" => fw # None
      /\ job[w].st = "absent" => fw = None
      /\ fw # None => disk.enabled /\ (disk.marker \/ disk.record # None)
      /\ gui.plan # None /\ fw # None => fw = gui.plan
  BY <1>1, SlotFinds
<1>3. /\ Idle(w) \in Quiet /\ Shown(w) \in Quiet /\ RecoveryFailure(w) \in Quiet
      /\ Shown(w).st = job[w].st /\ Shown(w).plan = gui.plan
      /\ RecoveryFailure(w).err = TRUE /\ RecoveryFailure(w).plan = gui.plan
      /\ Idle(w).plan = gui.plan
  BY <1>2, ShownType, ShownFields
<1>4. ASSUME NEW g, g.st = job[w].st \/ g.err = TRUE, g.plan = gui.plan,
             NEW d, fw # None => d.enabled /\ (d.marker \/ d.record # None)
      PROVE  Fits(fw, g, d)
  BY <1>2, <1>4 DEF Fits
<1>5. /\ [disk EXCEPT !.saved = None] \in Disk
      /\ [disk EXCEPT !.saved = None].marker = disk.marker
      /\ [disk EXCEPT !.saved = None].record = disk.record
      /\ [disk EXCEPT !.saved = None].enabled = disk.enabled
  BY <1>2 DEF Disk, OrNone
<1>6. /\ [disk EXCEPT !.enabled = TRUE] \in Disk
      /\ [disk EXCEPT !.enabled = TRUE].marker = disk.marker
      /\ [disk EXCEPT !.enabled = TRUE].record = disk.record
      /\ [disk EXCEPT !.enabled = TRUE].enabled = TRUE
  BY <1>2 DEF Disk
<1>7. CASE DisconnectFailed(w)
  <2>1. PICK d \in {disk, [disk EXCEPT !.saved = None]} : Refresh(Shown(w), d)
    BY <1>7 DEF DisconnectFailed
  <2>2. d \in Disk /\ (fw # None => d.enabled /\ (d.marker \/ d.record # None))
    BY <1>2, <1>5
  <2>3. Shows(w, Shown(w), d)
    BY <1>1, <1>3, <1>7, <2>1, <2>2 DEF DisconnectFailed, Shows
  <2> QED BY <1>3, <1>4, <2>2, <2>3, ShowsHost
<1>8. CASE PreferenceDisableFailed(w)
  <2> DEFINE d == [disk EXCEPT !.enabled = TRUE]
  <2>1. Shows(w, Shown(w), d)
    BY <1>1, <1>3, <1>6, <1>8 DEF PreferenceDisableFailed, Shows
  <2>2. fw # None => d.enabled /\ (d.marker \/ d.record # None)
    BY <1>2, <1>6
  <2> HIDE DEF d
  <2> QED BY <1>3, <1>4, <2>1, <2>2, ShowsHost
<1>9. CASE PreferenceEnableFailed(w)
  <2>1. job[w].kind = "enable"
    BY <1>9 DEF PreferenceEnableFailed, Finished
  <2>2. CASE job[w].st = "active"
    <3> DEFINE d == [disk EXCEPT !.enabled = TRUE]
    <3>1. Shows(w, Shown(w), d)
      BY <1>1, <1>3, <1>6, <1>9, <2>2 DEF PreferenceEnableFailed, Shows
    <3>2. fw # None => d.enabled /\ (d.marker \/ d.record # None)
      BY <1>2, <1>6
    <3> HIDE DEF d
    <3> QED BY <1>3, <1>4, <3>1, <3>2, ShowsHost
  <2>3. CASE job[w].st # "active"
    <3>1. fw = None
      BY <2>1 DEF HostInv, HeldInv, Held, EnableHeld, OffIsOpen
    <3>2. /\ [Idle(w) EXCEPT !.st = "none", !.err = FALSE] \in Quiet
          /\ [Idle(w) EXCEPT !.st = "none", !.err = FALSE].st = "none"
      BY <1>3 DEF Gui, Quiet
    <3>3. [disk EXCEPT !.enabled = FALSE] \in Disk
      BY <1>2 DEF Disk
    <3> QED BY <1>1, <1>9, <2>3, <3>1, <3>2, <3>3, OpenFits, ShowsHost
            DEF PreferenceEnableFailed, Shows
  <2> QED BY <2>2, <2>3
<1>10. CASE StatusUnknown(w)
  <2> DEFINE g == [Idle(w) EXCEPT !.err = TRUE]
  <2>1. g \in Quiet /\ g.err = TRUE /\ g.plan = gui.plan
    BY <1>3 DEF Gui, Quiet
  <2>2. Shows(w, g, disk)
    BY <1>1, <1>2, <1>10, <2>1 DEF StatusUnknown, Shows
  <2> HIDE DEF g
  <2> QED BY <1>2, <1>4, <2>1, <2>2, ShowsHost
<1>11. CASE Rechecked(w)
  <2>1. CASE job[w].st = "active" /\ Refresh(Shown(w), disk) /\ Taken(w)
    <3>1. Shows(w, Shown(w), disk)
      BY <1>1, <1>2, <1>3, <2>1 DEF Shows
    <3> QED BY <1>2, <1>3, <1>4, <3>1, ShowsHost
  <2>2. CASE job[w].st = "absent" /\ Unlocked(w)
    BY <1>1, <2>2, UnlockedHost
  <2> QED BY <1>11, <2>1, <2>2 DEF Rechecked
<1>12. CASE ReconcileFailed(w)
  <2>1. Shows(w, RecoveryFailure(w), disk)
    BY <1>1, <1>2, <1>3, <1>12 DEF ReconcileFailed, Shows
  <2> QED BY <1>2, <1>3, <1>4, <2>1, ShowsHost
<1> QED BY <1>7, <1>8, <1>9, <1>10, <1>11, <1>12

\* The end of a reconciliation: a record is written or cleared as was concluded.
LEMMA ReconciledSlotHost ==
  ASSUME HostInv, NEW w \in Workers, Reconciled(w) \/ HandoffFailed(w)
  PROVE  HostInv'
<1>1. At(w, "done") /\ job[w].kind = "reconcile" /\ Won(job[w])
  BY DEF Reconciled, HandoffFailed, Finished, At, Won
<1>2. /\ ShapeInv /\ disk \in Disk /\ job[w] \in Job /\ Shaped(job[w])
      /\ job[w].st = "active" => fw # None
      /\ job[w].st = "absent" => fw = None
      /\ fw # None => disk.enabled /\ (disk.marker \/ disk.record # None)
      /\ gui.plan # None /\ fw # None => fw = gui.plan
  BY <1>1, SlotFinds
<1>3. /\ job[w].route = fw /\ (Clean(job[w].out) => fw = None)
      /\ (Adopted(job[w].out) => fw # None)
  BY <1>1 DEF HostInv, HeldInv, Held, ReconcileHeld
<1>4. /\ Released(w) \in Quiet /\ Protected(w) \in Quiet /\ RecoveryFailure(w) \in Quiet
      /\ Released(w).st = job[w].st /\ Protected(w).st = job[w].st
      /\ Protected(w).plan = job[w].route
      /\ RecoveryFailure(w).err = TRUE /\ RecoveryFailure(w).plan = gui.plan
  BY <1>2, ShownType, ShownFields
<1> DEFINE d == [disk EXCEPT !.record = NewRecord(w)]
<1>5. NewRecord(w) \in OrNone(Record) /\ (Adopted(job[w].out) => NewRecord(w) # None)
  <2>1. Adopted(job[w].out) => job[w].uuid \in Uuids /\ job[w].route \in Route
    BY <1>1, <1>2 DEF Shaped, Carries, Job, OrNone
  <2> QED BY <1>2, <2>1, SessionAssumption DEF NewRecord, RecordOf, Record, OrNone, Disk
<1>6. d \in Disk /\ d.marker = disk.marker /\ d.enabled = disk.enabled /\ d.record = NewRecord(w)
  BY <1>2, <1>5 DEF Disk
<1>7. fw # None => d.enabled /\ (d.marker \/ d.record # None)
  <2>1. fw # None /\ ~Adopted(job[w].out) => NewRecord(w) = disk.record
    BY <1>3 DEF NewRecord, Clean
  <2> HIDE DEF d
  <2> QED BY <1>2, <1>5, <1>6, <2>1
<1>8. ASSUME NEW c, fw # None => c.enabled /\ (c.marker \/ c.record # None)
      PROVE  Fits(fw, RecoveryFailure(w), c)
  BY <1>2, <1>4, <1>8 DEF Fits
<1>9. CASE HandoffFailed(w)
  <2>1. PICK c \in {disk, d} : Refresh(RecoveryFailure(w), c)
    BY <1>9 DEF HandoffFailed, NewRecord
  <2>2. c \in Disk /\ (fw # None => c.enabled /\ (c.marker \/ c.record # None))
    BY <1>2, <1>6, <1>7
  <2>3. Shows(w, RecoveryFailure(w), c)
    BY <1>1, <1>4, <1>9, <2>1, <2>2 DEF HandoffFailed, Shows
  <2> HIDE DEF d
  <2> QED BY <1>8, <2>2, <2>3, ShowsHost
<1>10. CASE Reconciled(w)
  <2>1. Taken(w)
    BY <1>10 DEF Reconciled
  <2>2. CASE /\ Clean(job[w].out)
             /\ Refresh(Released(w), [d EXCEPT !.marker = FALSE, !.saved = None])
    <3>1. [d EXCEPT !.marker = FALSE, !.saved = None] \in Disk
      <4> HIDE DEF d
      <4> QED BY <1>6 DEF Disk, OrNone
    <3>2. Shows(w, Released(w), [d EXCEPT !.marker = FALSE, !.saved = None])
      BY <1>1, <1>4, <2>1, <2>2, <3>1 DEF Shows
    <3>3. fw = None /\ (Released(w).st = "absent" \/ Released(w).st = "none")
      BY <1>2, <1>3, <1>4, <2>2 DEF Job
    <3> HIDE DEF d
    <3> QED BY <3>2, <3>3, OpenFits, ShowsHost
  <2>3. ASSUME Adopted(job[w].out), NEW l \in BOOLEAN,
               Refresh([Protected(w) EXCEPT !.last = l],
                       [d EXCEPT !.marker = TRUE, !.enabled = TRUE, !.saved = job[w].uuid])
        PROVE  HostInv'
    <3> DEFINE g == [Protected(w) EXCEPT !.last = l]
               c == [d EXCEPT !.marker = TRUE, !.enabled = TRUE, !.saved = job[w].uuid]
    <3>1. g \in Quiet /\ g.st = Protected(w).st /\ g.plan = Protected(w).plan
      BY <1>4 DEF Gui, Quiet
    <3>2. c \in Disk /\ c.marker = TRUE /\ c.enabled = TRUE
      <4>1. job[w].uuid \in OrNone(Uuids)
        BY <1>2 DEF Job
      <4> HIDE DEF d
      <4> QED BY <1>6, <4>1 DEF Disk
    <3> HIDE DEF g, c
    <3>3. Shows(w, g, c)
      BY <1>1, <2>1, <2>3, <3>1, <3>2 DEF Shows, g, c
    <3>4. Fits(fw, g, c)
      BY <1>2, <1>3, <1>4, <3>1, <3>2 DEF Fits
    <3> QED BY <3>3, <3>4, ShowsHost
  <2>4. ASSUME ~Clean(job[w].out), ~Adopted(job[w].out), NEW b \in BOOLEAN,
               b = (d.enabled \/ job[w].st = "active"),
               Refresh(RecoveryFailure(w), [d EXCEPT !.enabled = b])
        PROVE  HostInv'
    <3> DEFINE c == [d EXCEPT !.enabled = b]
    <3>1. /\ c \in Disk /\ c.marker = d.marker /\ c.record = d.record /\ c.enabled = b
      <4> HIDE DEF d
      <4> QED BY <1>6 DEF Disk
    <3>2. b \/ ~d.enabled
      BY <2>4
    <3> HIDE DEF c, d
    <3>3. Shows(w, RecoveryFailure(w), c)
      BY <1>1, <1>4, <2>1, <2>4, <3>1 DEF Shows, c
    <3>4. fw # None => c.enabled /\ (c.marker \/ c.record # None)
      BY <1>7, <3>1, <3>2
    <3> QED BY <1>8, <3>3, <3>4, ShowsHost
  <2>5. /\ (d.enabled \/ job[w].st = "active") \in BOOLEAN
        /\ (job[w].out = "adopt-connected") \in BOOLEAN
    OBVIOUS
  <2> QED BY <1>10, <2>2, <2>3, <2>4, <2>5 DEF Reconciled, NewRecord
<1> QED BY <1>9, <1>10

\* Every slot keeps the invariant.
LEMMA SlotHost ==
  ASSUME HostInv, NEW w \in Workers, Slot(w)
  PROVE  HostInv'
  BY ConnectionSlotHost, ReleasedSlotHost, KeptSlotHost, ReconciledSlotHost DEF Slot

\* A job that begins: the others stay as they are.
Begun(w, kind, pc, route) ==
  /\ \A v \in Workers : v # w => job'[v] = job[v]
  /\ job'[w].kind = kind /\ job'[w].pc = pc /\ job'[w].route = route
  /\ job'[w].gone = FALSE /\ job'[w].st = "none"

\* Every start begins one.
LEMMA StartBegun ==
  ASSUME job \in [Workers -> Job], NEW kind, NEW pc, NEW base, NEW route,
         Start(kind, pc, base, route) \/ StartQuitting(kind, pc, base, route)
  PROVE  \E w \in Workers : Begun(w, kind, pc, route)
<1>1. CASE Start(kind, pc, base, route)
  <2> DEFINE uuid == IF kind = "reconnect" THEN disk.saved ELSE None
             j == [NoJob EXCEPT !.kind = kind, !.pc = pc, !.base = base, !.route = route,
                                !.uuid = uuid]
  <2>1. j.kind = kind /\ j.pc = pc /\ j.route = route /\ j.gone = FALSE /\ j.st = "none"
    <3> HIDE DEF uuid
    <3> QED BY DEF NoJob
  <2>2. PICK w \in Workers : Put(w, j)
    BY <1>1 DEF Start
  <2> HIDE DEF j
  <2>3. job'[w] = j /\ \A v \in Workers : v # w => job'[v] = job[v]
    BY <2>2 DEF Put
  <2> QED BY <2>1, <2>3 DEF Begun
<1>2. CASE StartQuitting(kind, pc, base, route)
  <2> DEFINE j == [NoJob EXCEPT !.kind = kind, !.pc = pc, !.base = base, !.route = route,
                                !.quit = TRUE]
  <2>1. j.kind = kind /\ j.pc = pc /\ j.route = route /\ j.gone = FALSE /\ j.st = "none"
    BY DEF NoJob
  <2>2. PICK w \in Workers : Put(w, j)
    BY <1>2 DEF StartQuitting
  <2> HIDE DEF j
  <2>3. job'[w] = j /\ \A v \in Workers : v # w => job'[v] = job[v]
    BY <2>2 DEF Put
  <2> QED BY <2>1, <2>3 DEF Begun
<1> QED BY <1>1, <1>2

\* It holds what its handler saw.
LEMMA StartsHost ==
  ASSUME HostInv, ShapeInv', Coord', NEW kind, NEW pc, NEW base, NEW route, Opening(kind, pc),
         Start(kind, pc, base, route) \/ StartQuitting(kind, pc, base, route),
         ~gui.busy, gui'.busy, gui'.plan = gui.plan, UNCHANGED <<fw, nm>>,
         disk'.record = disk.record, disk'.enabled = disk.enabled, disk.marker => disk'.marker,
         kind = "connect" => fw = None /\ ~nm.up /\ disk'.marker /\ disk.enabled,
         kind \in {"reconnect", "switch"} => route = gui.plan,
         kind = "recheck" => ~nm.up, kind = "enable" => ~disk.enabled
  PROVE  HostInv'
<1>1. HeldInv /\ ShapeInv /\ Coord
  BY DEF HostInv, HeldInv, CoordInv
<1>2. job \in [Workers -> Job] /\ \A w \in Workers : job[w].kind = "none"
  BY <1>1 DEF ShapeInv, TypeOK, Coord, OneJobAtATime
<1>3. PICK w \in Workers : Begun(w, kind, pc, route)
  BY <1>2, StartBegun
<1>4. gui.plan # None /\ fw # None => fw = gui.plan
  BY <1>2 DEF HostInv, PlanTrue
<1>5. Held(fw', nm', disk', job'[w])
  BY <1>3, <1>4
     DEF Begun, Opening,
           ConnectHeld, RouteHeld, RetargetHeld, ProfileHeld,
           DownHeld, StatusHeld, ReconcileHeld, EnableHeld, Held, Won, ConnectionKinds
<1>6. \A v \in Workers : Held(fw', nm', disk', job'[v])
  <2> SUFFICES ASSUME NEW v \in Workers, v # w PROVE Held(fw', nm', disk', job'[v])
    BY <1>5
  <2>1. job'[v].kind = "none" /\ Shaped(job'[v])
    BY <1>1, <1>2, <1>3, JobShape DEF Begun
  <2> QED BY <2>1, NoneHeld
<1>7. ArmedIsRemembered' /\ OffIsOpen' /\ PlanTrue' /\ StatusIsExact'
  BY <1>4 DEF HostInv, ArmedIsRemembered, OffIsOpen, PlanTrue, StatusIsExact
<1> QED BY <1>6, <1>7 DEF HostInv, HeldInv, CoordInv

\* A step that changes neither the table nor what is known of it.
LEMMA SameHost ==
  ASSUME HostInv, ShapeInv', Coord', UNCHANGED <<fw, disk, job>>,
         nm'.up => nm.up, nm'.uuid = nm.uuid, gui'.busy = gui.busy, gui'.st = gui.st,
         gui'.err = gui.err, gui'.plan = gui.plan
  PROVE  HostInv'
<1>1. \A w \in Workers : Held(fw', nm', disk', job'[w])
  <2> SUFFICES ASSUME NEW w \in Workers PROVE Held(fw', nm', disk', job'[w])
    OBVIOUS
  <2>1. Held(fw, nm, disk, job[w]) /\ fw' = fw /\ disk' = disk /\ job'[w] = job[w]
    BY DEF HostInv, HeldInv
  <2> QED BY <2>1
          DEF ConnectHeld, RouteHeld, RetargetHeld, ProfileHeld,
           DownHeld, StatusHeld, ReconcileHeld, EnableHeld, Held, Won, ConnectionKinds
<1>2. ArmedIsRemembered' /\ OffIsOpen' /\ PlanTrue' /\ StatusIsExact'
  BY DEF HostInv, ArmedIsRemembered, OffIsOpen, PlanTrue, StatusIsExact
<1> QED BY <1>1, <1>2 DEF HostInv, HeldInv, CoordInv

\* A refresh of the window, with a job running or without.
LEMMA RefreshHost ==
  ASSUME HostInv, ShapeInv', Coord', UNCHANGED <<fw, nm, job>>, NEW g \in Gui,
         Refresh(g, disk), g.busy = gui.busy, g.st = gui.st, g.err = gui.err, g.plan = gui.plan
  PROVE  HostInv'
<1>1. /\ gui'.busy = gui.busy /\ gui'.st = gui.st /\ gui'.err = gui.err /\ gui'.plan = gui.plan
      /\ disk' = disk \/ ~gui.busy
  BY RefreshKeeps
<1>2. CASE disk' = disk
  BY <1>1, <1>2, SameHost
<1>3. CASE ~gui.busy
  <2>1. disk \in Disk /\ \A w \in Workers : job[w].kind = "none"
    BY <1>3 DEF HostInv, HeldInv, CoordInv, Coord, OneJobAtATime, ShapeInv, TypeOK
  <2>2. Fits(fw, g, disk)
    BY <1>3, <2>1 DEF HostInv, Fits, ArmedIsRemembered, OffIsOpen, PlanTrue, StatusIsExact
  <2>3. Fits(fw, gui', disk')
    BY <2>1, <2>2, RefreshFits
  <2> QED BY <2>1, <2>3, FitsHost
<1> QED BY <1>1, <1>2, <1>3

\* Where a connect may start there is no table.
LEMMA OpenWhereNothingBlocks ==
  ASSUME HostInv, ~gui.busy, ~MayBlock(gui, disk)
  PROVE  fw = None
<1>1. gui.st \in {"none", "absent", "active"} /\ gui.err \in BOOLEAN
  BY DEF HostInv, HeldInv, CoordInv, ShapeInv, TypeOK, Gui
<1> QED BY <1>1 DEF HostInv, MayBlock, OffIsOpen, StatusIsExact, ArmedIsRemembered

\* Where the handlers begin their jobs.
LEMMA Openings ==
  /\ Opening("connect", "prepare") /\ Opening("switch", "prepare")
  /\ Opening("reconnect", "lock") /\ Opening("disconnect", "lock")
  /\ Opening("disable", "look") /\ Opening("enable", "look")
  /\ Opening("recheck", "look") /\ Opening("reconcile", "look") /\ Opening("reset", "stop")
  BY DEF Opening

\* A reconnect takes the plan the window has.
LEMMA ReconnectStartsHost ==
  ASSUME HostInv, ShapeInv', Coord', NEW g \in Gui, g.busy = gui.busy, g.plan = gui.plan,
         ReconnectStarts(g), UNCHANGED <<fw, nm>>
  PROVE  HostInv'
<1>1. /\ ~gui.busy /\ disk' = disk /\ Start("reconnect", "lock", g.baseline, g.plan)
      /\ gui'.busy = TRUE /\ gui'.plan = gui.plan
  BY DEF ReconnectStarts, Gui
<1> QED BY <1>1, Openings, StartsHost

\* The handlers of the user that start a job.
LEMMA UserStartsHost ==
  ASSUME HostInv, ShapeInv', Coord',
         \/ ClickReconnect \/ ClickRecheck \/ ClickConnect \/ ClickDisconnect
         \/ ClickPreference
  PROVE  HostInv'
<1>1. gui \in Gui /\ disk \in Disk
  BY DEF HostInv, HeldInv, CoordInv, ShapeInv, TypeOK
<1>2. [gui EXCEPT !.busy = TRUE].busy = TRUE /\ [gui EXCEPT !.busy = TRUE].plan = gui.plan
  BY <1>1 DEF Gui
<1>3. CASE ClickReconnect
  BY <1>1, <1>3, ReconnectStartsHost DEF ClickReconnect
<1>4. CASE ClickRecheck
  BY <1>2, <1>4, StartsHost, Openings DEF ClickRecheck
<1>5. CASE ClickConnect
  <2>1. fw = None
    BY <1>5, OpenWhereNothingBlocks DEF ClickConnect
  <2>2. /\ disk'.marker = TRUE /\ disk'.record = disk.record /\ disk'.enabled = disk.enabled
    BY <1>1, <1>5 DEF ClickConnect, Disk
  <2> QED BY <1>2, <1>5, <2>1, <2>2, StartsHost, Openings DEF ClickConnect
<1>6. CASE ClickDisconnect
  BY <1>2, <1>6, StartsHost, Openings DEF ClickDisconnect
<1>7. CASE ClickPreference
  <2>1. CASE disk.enabled
    BY <1>2, <1>7, <2>1, StartsHost, Openings DEF ClickPreference
  <2>2. CASE ~disk.enabled
    BY <1>2, <1>7, <2>2, StartsHost, Openings DEF ClickPreference
  <2> QED BY <2>1, <2>2
<1> QED BY <1>3, <1>4, <1>5, <1>6, <1>7

\* The answers to the dialogs.
LEMMA ConfirmHost ==
  ASSUME HostInv, ShapeInv', Coord', ConfirmSwitch \/ ConfirmReset \/ ConfirmQuit
  PROVE  HostInv'
<1> DEFINE g == [gui EXCEPT !.dialog = "none"]
<1>1. /\ g.busy = gui.busy /\ g.plan = gui.plan /\ g.st = gui.st /\ g.err = gui.err
      /\ [g EXCEPT !.busy = TRUE].busy = TRUE /\ [g EXCEPT !.busy = TRUE].plan = gui.plan
  BY DEF HostInv, HeldInv, CoordInv, ShapeInv, TypeOK, Gui
<1>2. ~gui.busy /\ UNCHANGED <<fw, nm, disk>>
  BY DEF ConfirmSwitch, ConfirmReset, ConfirmQuit, HostInv, HeldInv, CoordInv, Coord,
         DialogsIdle
<1>3. CASE gui' = g /\ UNCHANGED job
  <2> HIDE DEF g
  <2> QED BY <1>1, <1>2, <1>3, SameHost
<1>4. CASE gui' = [g EXCEPT !.busy = TRUE] /\ Start("switch", "prepare", TRUE, g.plan)
  <2> HIDE DEF g
  <2> QED BY <1>1, <1>2, <1>4, StartsHost, Openings
<1>5. CASE gui' = [g EXCEPT !.busy = TRUE] /\ Start("reset", "stop", FALSE, None)
  <2> HIDE DEF g
  <2> QED BY <1>1, <1>2, <1>5, StartsHost, Openings
<1>6. CASE gui' = [g EXCEPT !.busy = TRUE] /\ StartQuitting("disconnect", "lock", TRUE, gui.plan)
  <2> HIDE DEF g
  <2> QED BY <1>1, <1>2, <1>6, StartsHost, Openings
<1> QED BY <1>3, <1>4, <1>5, <1>6 DEF ConfirmSwitch, ConfirmReset, ConfirmQuit

\* Every handler of the user keeps the invariant.
LEMMA UserHost ==
  ASSUME HostInv, User
  PROVE  HostInv'
<1>1. gui \in Gui /\ disk \in Disk /\ ShapeInv /\ CoordInv
  BY DEF HostInv, HeldInv, CoordInv, ShapeInv, TypeOK
<1>2. ShapeInv' /\ Coord'
  BY <1>1, UserShape, UserCoord
<1>3. CASE ClickReconnect \/ ClickRecheck \/ ClickConnect \/ ClickDisconnect \/ ClickPreference
  BY <1>2, <1>3, UserStartsHost
<1>4. CASE ConfirmSwitch \/ ConfirmReset \/ ConfirmQuit
  BY <1>2, <1>4, ConfirmHost
<1>5. CASE ClickSwitch \/ ClickReset \/ AnswerRecoveryFailure
  <2>1. UNCHANGED <<fw, nm, disk, job>>
    BY <1>5 DEF ClickSwitch, ClickReset, AnswerRecoveryFailure
  <2>2. /\ gui'.busy = gui.busy /\ gui'.plan = gui.plan /\ gui'.st = gui.st
        /\ gui'.err = gui.err
    BY <1>1, <1>5 DEF ClickSwitch, ClickReset, AnswerRecoveryFailure, Gui
  <2> QED BY <1>2, <2>1, <2>2, SameHost
<1>6. CASE ClickQuit
  <2>1. CASE Exit(disk)
    BY <1>1, <2>1, ExitHost DEF HostInv, ArmedIsRemembered, OffIsOpen
  <2>2. CASE /\ ~nm.up /\ gui' = [gui EXCEPT !.busy = TRUE]
             /\ StartQuitting("recheck", "look", FALSE, None) /\ UNCHANGED <<fw, nm, disk>>
    <3>1. gui'.busy = TRUE /\ gui'.plan = gui.plan
      BY <1>1, <2>2 DEF Gui
    <3> QED BY <1>2, <1>6, <2>2, <3>1, StartsHost, Openings DEF ClickQuit
  <2>3. CASE gui' = [gui EXCEPT !.dialog = "quit"] /\ UNCHANGED <<fw, nm, disk, job>>
    <3>1. /\ gui'.busy = gui.busy /\ gui'.plan = gui.plan /\ gui'.st = gui.st
          /\ gui'.err = gui.err
      BY <1>1, <2>3 DEF Gui
    <3> QED BY <1>2, <2>3, <3>1, SameHost
  <2> QED BY <1>6, <2>1, <2>2, <2>3 DEF ClickQuit
<1> QED BY <1>3, <1>4, <1>5, <1>6 DEF User

\* So do the timers, the poll and a lost tunnel.
LEMMA TimerHost ==
  ASSUME HostInv, DialogsIdle', Poll \/ ReconnectTimer \/ ReconcileAtStartup \/ TunnelLost
  PROVE  HostInv'
<1>1. gui \in Gui /\ disk \in Disk /\ nm \in Profile /\ ShapeInv /\ CoordInv
  BY DEF HostInv, HeldInv, CoordInv, ShapeInv, TypeOK
<1>2. ShapeInv' /\ Coord'
  BY <1>1, TimerShape, TimerCoord
<1>3. CASE Poll
  BY <1>1, <1>2, <1>3, RefreshHost DEF Poll
<1>4. CASE ReconnectTimer
  <2> DEFINE g == [gui EXCEPT !.scheduled = FALSE]
             h == [g EXCEPT !.last = TRUE]
  <2>1. /\ g \in Gui /\ g.busy = gui.busy /\ g.plan = gui.plan /\ g.st = gui.st
        /\ g.err = gui.err
    BY <1>1 DEF Gui
  <2>2. /\ h \in Gui /\ h.busy = gui.busy /\ h.plan = gui.plan /\ h.st = gui.st
        /\ h.err = gui.err
    <3> HIDE DEF g
    <3> QED BY <2>1 DEF Gui
  <2>3. \/ ReconnectStarts(g)
        \/ Refresh(h, disk) /\ UNCHANGED job
        \/ gui' = g /\ UNCHANGED <<disk, job>>
    BY <1>4 DEF ReconnectTimer
  <2>4. UNCHANGED <<fw, nm>>
    BY <1>4 DEF ReconnectTimer
  <2> HIDE DEF g, h
  <2>5. CASE ReconnectStarts(g)
    BY <1>2, <2>1, <2>4, <2>5, ReconnectStartsHost
  <2>6. CASE Refresh(h, disk) /\ UNCHANGED job
    BY <1>2, <2>2, <2>4, <2>6, RefreshHost
  <2>7. CASE gui' = g /\ UNCHANGED <<disk, job>>
    BY <1>2, <2>1, <2>4, <2>7, SameHost
  <2> QED BY <2>3, <2>5, <2>6, <2>7
<1>5. CASE ReconcileAtStartup
  <2>1. UNCHANGED <<fw, nm, disk>>
    BY <1>5 DEF ReconcileAtStartup
  <2>2. CASE /\ ~gui.busy /\ gui' = [gui EXCEPT !.started = TRUE, !.busy = TRUE]
             /\ Start("reconcile", "look", FALSE, None)
    <3>1. gui'.busy = TRUE /\ gui'.plan = gui.plan
      BY <1>1, <2>2 DEF Gui
    <3> QED BY <1>2, <2>1, <2>2, <3>1, StartsHost, Openings
  <2>3. CASE gui' = [gui EXCEPT !.started = TRUE] /\ UNCHANGED job
    <3>1. /\ gui'.busy = gui.busy /\ gui'.plan = gui.plan /\ gui'.st = gui.st
          /\ gui'.err = gui.err
      BY <1>1, <2>3 DEF Gui
    <3> QED BY <1>2, <2>1, <2>3, <3>1, SameHost
  <2> QED BY <1>5, <2>2, <2>3 DEF ReconcileAtStartup
<1>6. CASE TunnelLost
  <2>1. nm'.up = FALSE /\ nm'.uuid = nm.uuid /\ UNCHANGED <<fw, disk, gui, job>>
    BY <1>1, <1>6 DEF TunnelLost, Down, Profile
  <2> QED BY <1>2, <2>1, SameHost
<1> QED BY <1>3, <1>4, <1>5, <1>6

\* The invariant holds at first,
LEMMA InitHost ==
  ASSUME Init PROVE HostInv
<1>1. CoordInv
  BY InitCoord
<1>2. \A w \in Workers : job[w].kind = "none" /\ Shaped(job[w])
  BY <1>1, JobShape DEF Init, NoJob, CoordInv
<1>3. \A w \in Workers : Held(fw, nm, disk, job[w])
  BY <1>2, NoneHeld
<1> QED BY <1>1, <1>3
       
           DEF Init, NewGui, HostInv, HeldInv, ArmedIsRemembered, OffIsOpen, PlanTrue,
               StatusIsExact

\* and every step keeps it.
LEMMA NextHost ==
  ASSUME HostInv, DialogsIdle', [Next]_vars PROVE HostInv'
<1>1. disk \in Disk /\ ShapeInv /\ CoordInv /\ nm.uuid = nm.uuid
  BY DEF HostInv, HeldInv, CoordInv, ShapeInv, TypeOK
<1>2. CASE Crash
  BY <1>1, <1>2, ExitHost DEF Crash, HostInv, ArmedIsRemembered, OffIsOpen
<1>3. CASE UNCHANGED vars
  <2>1. ShapeInv' /\ Coord'
    BY <1>1, <1>3, NextCoord DEF CoordInv
  <2> QED BY <1>3, <2>1, SameHost DEF vars
<1>4. CASE Step
  BY <1>4, JobStepHost, SlotHost, TimerHost, UserHost DEF Step
<1> QED BY <1>2, <1>3, <1>4 DEF Next

-----------------------------------------------------------------------------
(***************************************************************************)
(* The properties of the runs, for every instance.                          *)
(***************************************************************************)
\* HostInv is what all of them rest on.
THEOREM HostIsKnown == Spec /\ []DialogsIdle => []HostInv
  BY InitHost, NextHost, PTL DEF Spec

\* Whenever the firewall table is installed, the disk has a marker or a record, so
\* that the next start of a killed process looks.
THEOREM ArmedIsAlwaysRemembered == Spec /\ []DialogsIdle => []ArmedIsRemembered
<1>1. HostInv => ArmedIsRemembered
  BY DEF HostInv
<1> QED BY <1>1, HostIsKnown, PTL

\* Between jobs a status shown without error, and the plan kept with it, are the
\* table's.
THEOREM StatusIsAlwaysExact == Spec /\ []DialogsIdle => []StatusIsExact
<1>1. HostInv => StatusIsExact
  BY DEF HostInv
<1> QED BY <1>1, HostIsKnown, PTL

\* What the window shows between jobs is true: protection only over a table, no
\* firewall only without one.
THEOREM ViewIsAlwaysHonest == Spec /\ []DialogsIdle => []ViewIsHonest
<1>1. ASSUME HostInv PROVE ViewIsHonest
  <2>1. gui \in Gui /\ disk \in Disk
    BY <1>1 DEF HostInv, HeldInv, CoordInv, ShapeInv, TypeOK
  <2>2. gui.st \in {"none", "absent", "active"} /\ gui.err \in BOOLEAN /\ gui.last \in BOOLEAN
        /\ disk.enabled \in BOOLEAN /\ disk.marker \in BOOLEAN
    BY <2>1 DEF Gui, Disk
  <2>3. ASSUME NEW mode, mode = ViewMode(gui, disk)
        PROVE  /\ Guaranteed(mode) => disk.enabled /\ gui.st = "active" /\ ~gui.err
               /\ mode \in {"ready", "armed", "vpn_only"} =>
                    \/ ~disk.enabled
                    \/ gui.st = "absent" /\ ~gui.err
                    \/ ~disk.marker /\ disk.record = None
    BY <2>2, <2>3 DEF ViewMode, Snapshot, Mode, Guaranteed
  <2> QED BY <1>1, <2>3 DEF ViewIsHonest, HostInv, StatusIsExact, OffIsOpen, ArmedIsRemembered
<1> QED BY <1>1, HostIsKnown, PTL

\* What a start would conclude from a record of the table and the active profile.
LEMMA ConnectedAdopts ==
  ASSUME HostInv, NEW w \in Workers, Connected(w), nm.up
  PROVE  Evaluate(disk.record, fw, nm) = "adopt-connected"
<1>1. /\ At(w, "done") /\ Won(job[w]) /\ job[w].kind \in ConnectionKinds
  BY DEF Connected, Finished, At, Won, ConnectionKinds
<1>2. Held(fw, nm, disk, job[w]) /\ Shaped(job[w]) /\ job[w] \in Job
  BY JobHeld DEF HostInv
<1>3. /\ fw # None /\ fw = job[w].route /\ nm.uuid = job[w].uuid
      /\ disk.record = RecordOf(job[w].uuid, job[w].route)
  BY <1>1, <1>2 DEF Held, RouteHeld, ProfileHeld, Shaped, Carries, Gone, Won, ConnectionKinds
<1>4. disk.record # None
  BY <1>1, <1>2, <1>3, SessionAssumption
     DEF Shaped, Carries, ConnectionKinds, Job, OrNone, RecordOf, Record
<1>5. disk.record.route = fw /\ disk.record.uuid = nm.uuid
  BY <1>3 DEF RecordOf
<1> QED BY <1>3, <1>4, <1>5 DEF Evaluate

\* What a start takes over.
LEMMA AdoptsTheTable ==
  ASSUME HostInv, NEW w \in Workers, Reconciled(w), Adopted(job[w].out)
  PROVE  gui'.plan = fw /\ disk'.marker /\ (nm.up => nm.uuid = disk'.saved)
<1>1. At(w, "done") /\ job[w].kind = "reconcile" /\ Won(job[w])
  BY DEF Reconciled, Finished, At, Won
<1>2. /\ ShapeInv /\ disk \in Disk /\ job[w] \in Job /\ Shaped(job[w])
  BY <1>1, SlotFinds
<1>3. job[w].route = fw /\ (nm.up => nm.uuid = job[w].uuid)
  BY <1>1 DEF HostInv, HeldInv, Held, ReconcileHeld
<1> DEFINE d == [disk EXCEPT !.record = NewRecord(w)]
           l == job[w].out = "adopt-connected"
           g == [Protected(w) EXCEPT !.last = l]
           c == [d EXCEPT !.marker = TRUE, !.enabled = TRUE, !.saved = job[w].uuid]
<1>4. Refresh(g, c)
  BY DEF Reconciled, NewRecord, Adopted, Clean
<1>5. c.marker = TRUE /\ c.saved = job[w].uuid
  BY <1>2 DEF Disk
<1>6. g \in Gui /\ g.plan = job[w].route
  <2>1. l \in BOOLEAN
    OBVIOUS
  <2>2. Protected(w) \in Gui /\ Protected(w).plan = job[w].route
    BY <1>2, ShownType, ShownFields DEF Quiet
  <2> HIDE DEF l
  <2> QED BY <2>1, <2>2 DEF Gui
<1>7. DOMAIN c = DOMAIN disk
  OBVIOUS
<1> HIDE DEF c, g
<1>8. gui'.plan = g.plan
  BY <1>4, <1>6, RefreshKeeps
<1>9. disk' = c \/ \E r : disk' = [c EXCEPT !.record = r]
  BY <1>4, <1>6, RefreshKeeps
<1>10. disk'.marker = c.marker /\ disk'.saved = c.saved
  BY <1>2, <1>7, <1>9 DEF Disk
<1> QED BY <1>3, <1>5, <1>6, <1>8, <1>10

\* Once a connection is reported, the next start of a killed process would adopt it; and
\* a start adopts only what it verified: the plan is the table's, an active VPN is the
\* recorded profile.
THEOREM RecoveryIsAlwaysExact == Spec /\ []DialogsIdle => RecoveryIsExact
<1>1. ASSUME HostInv, [Next]_vars PROVE [ConnectedIsAdoptable /\ AdoptsExactly]_vars
  BY <1>1, ConnectedAdopts, AdoptsTheTable DEF ConnectedIsAdoptable, AdoptsExactly
<1> QED BY <1>1, HostIsKnown, PTL DEF Spec, RecoveryIsExact

\* A window that goes after the slot of a job.
LEMMA QuitsAfterClean ==
  ASSUME HostInv, NEW w \in Workers, QuitsAfter(w)
  PROVE  fw = None /\ ~nm.up
<1>1. /\ At(w, "done") /\ Won(job[w]) /\ job[w].kind \in {"disconnect", "recheck"}
  BY DEF QuitsAfter, Disconnected, Rechecked, Finished, At, Won
<1>2. /\ ShapeInv /\ disk \in Disk /\ Shaped(job[w]) /\ (job[w].st = "absent" => fw = None)
  BY <1>1, SlotFinds
<1>3. ~nm.up
  BY <1>1 DEF HostInv, HeldInv, Held, DownHeld
<1>4. job[w].st = "absent"
  <2>1. CASE Disconnected(w)
    BY <1>1, <1>2, <2>1 DEF Disconnected, Finished, Shaped, Carries
  <2>2. CASE Rechecked(w) /\ job[w].st = "active"
    <3>1. Refresh(Shown(w), disk)
      BY <2>2 DEF Rechecked
    <3>2. Shown(w) \in Gui /\ Shown(w).st = "active"
      BY <1>2, <2>2, ShownType, ShownFields DEF Quiet
    <3>3. gui'.st = "active"
      BY <3>1, <3>2, RefreshKeeps
    <3>4. gui'.st = "none"
      BY DEF QuitsAfter, NewGui
    <3> QED BY <3>3, <3>4
  <2>3. CASE Rechecked(w) /\ job[w].st = "absent"
    BY <2>3
  <2> QED BY <2>1, <2>2, <2>3 DEF QuitsAfter, Rechecked
<1> QED BY <1>2, <1>3, <1>4

\* A window that quits in good order leaves neither lock nor tunnel.
THEOREM QuitAlwaysLeavesNothing == Spec /\ []DialogsIdle => QuitLeavesNothing
<1>1. ASSUME HostInv, Quits PROVE fw = None /\ ~nm.up
  BY <1>1, QuitsAfterClean, OpenWhereNothingBlocks DEF Quits, QuitsAtOnce
<1>2. ASSUME HostInv, [Next]_vars PROVE [Quits => fw = None /\ ~nm.up]_vars
  BY <1>1, <1>2
<1> QED BY <1>2, HostIsKnown, PTL DEF Spec, QuitLeavesNothing

-----------------------------------------------------------------------------
(***************************************************************************)
(* The session implements FailClosed.                                       *)
(***************************************************************************)
Asked == \E w \in Workers : job[w].kind \in {"disconnect", "disable", "reset"}

\* A step of a job arms, brings the tunnel up or down, or releases, each where the
\* abstract specification allows it.
LEMMA JobStepCloses ==
  ASSUME HostInv, NEW w \in Workers, JobStep(w)
  PROVE  [FC!Next]_FC!vars
<1>1. HeldInv /\ ShapeInv
  BY DEF HostInv, HeldInv, CoordInv
<1>2. Moved(w) /\ Tame(w)
  BY <1>1, JobStepMoves, JobStepHeld
<1>3. \A v \in Workers : job'[v].kind = job[v].kind
  BY <1>1, <1>2 DEF Moved, ShapeInv, TypeOK
<1>4. nm.up \in BOOLEAN /\ nm'.up \in BOOLEAN
  BY <1>1, JobStepShape DEF ShapeInv, TypeOK, Profile
<1>5. Asked' <=> Asked
  BY <1>3 DEF Asked
<1>6. fw # None /\ fw' = None => Asked
  BY <1>2 DEF Tame, Asked
<1>7. Asked \in BOOLEAN /\ Asked' \in BOOLEAN
  BY DEF Asked
<1> QED BY <1>2, <1>4, <1>5, <1>6
        DEF Tame, FC!Next, FC!vars, FC!Arm, FC!TunnelUp, FC!TunnelDown, FC!Release, Asked

\* What the other steps do to lock, tunnel and request.
LEMMA OtherStepCloses ==
  ASSUME HostInv, UNCHANGED fw,
         nm'.up = nm.up \/ (nm.up /\ nm'.up = FALSE /\ Asked' = Asked)
  PROVE  [FC!Next]_FC!vars
<1>1. nm.up \in BOOLEAN
  BY DEF HostInv, HeldInv, CoordInv, ShapeInv, TypeOK, Profile
<1>2. Asked \in BOOLEAN /\ Asked' \in BOOLEAN
  BY DEF Asked
<1>3. CASE nm.up /\ nm'.up = FALSE /\ Asked' = Asked
  BY <1>1, <1>2, <1>3 DEF FC!Next, FC!vars, FC!TunnelDown, Asked
<1>4. CASE nm'.up = nm.up
  BY <1>1, <1>2, <1>4 DEF FC!Next, FC!vars, FC!Ask, FC!Settle, Asked
<1> QED BY <1>3, <1>4

\* So every step does one of FailClosed's, or none.
LEMMA StepCloses ==
  ASSUME HostInv, [Next]_vars
  PROVE  [FC!Next]_FC!vars
<1>1. nm \in Profile /\ ShapeInv /\ gui \in Gui
  BY DEF HostInv, HeldInv, CoordInv, ShapeInv, TypeOK
<1>2. CASE TunnelLost
  <2>1. UNCHANGED <<fw, job>> /\ nm.up /\ nm'.up = FALSE
    BY <1>1, <1>2 DEF TunnelLost, Down, Profile
  <2>2. Asked' = Asked
    BY <2>1 DEF Asked
  <2> QED BY <1>2, <2>1, <2>2, OtherStepCloses
<1>3. ASSUME UNCHANGED <<fw, nm>> PROVE [FC!Next]_FC!vars
  BY <1>3, OtherStepCloses
<1>4. CASE \E w \in Workers : Slot(w)
  BY <1>1, <1>3, <1>4, SlotShape DEF Ends
<1>5. CASE User
  BY <1>3, <1>5
     DEF User, ClickReconnect, ClickRecheck, ClickConnect, ClickSwitch, ConfirmSwitch,
     ClickDisconnect, ClickPreference, ClickReset, ConfirmReset, AnswerRecoveryFailure,
     ClickQuit, ConfirmQuit, Exit
<1>6. CASE Poll \/ ReconnectTimer \/ ReconcileAtStartup \/ Crash \/ UNCHANGED vars
  BY <1>3, <1>6 DEF Poll, ReconnectTimer, ReconcileAtStartup, Crash, Exit, vars
<1> QED BY <1>2, <1>4, <1>5, <1>6, JobStepCloses DEF Next, Step

\* StaysClosed of the runs: the table is locked before a tunnel comes up, no failure
\* unlocks it, and it is released only on request and with the tunnel down.
THEOREM ImplementsFailClosed == Spec /\ []DialogsIdle => StaysClosed
<1>1. Init => FC!Init
  BY DEF Init, NoJob, NoProfile, FC!Init
<1>2. HostInv /\ [Next]_vars => [FC!Next]_FC!vars
  BY StepCloses
<1> QED BY <1>1, <1>2, HostIsKnown, PTL DEF Spec, StaysClosed, FC!Spec

==============================================================================
