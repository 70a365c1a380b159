------------------------ MODULE ProtectedSessionProofs ------------------------
EXTENDS ProtectedSession, TLAPS

(***************************************************************************)
(* Proofs about ProtectedSession, for every pool of workers, any profiles,  *)
(* endpoints, interfaces and any bound on the requests.  They are laid out  *)
(* in four layers, each an inductive invariant over the one below; this     *)
(* module has the first two.                                                *)
(*                                                                          *)
(*   ShapeInv   types, and every job well formed: where it can be and what  *)
(*              it carries there (window and jobs in every behaviour);      *)
(*   CoordInv   + one job at a time, and none behind a modal dialog;        *)
(*   HeldInv    + what the running job knows of table, tunnel and record    *)
(*              (ProtectedSessionHostProofs);                               *)
(*   HostInv    + what the window and the disk know of them between jobs.   *)
(*                                                                          *)
(* From CoordInv on, the layers need the dialogs to be idle: a timer that   *)
(* starts a job behind an open confirmation lets a second job start over it *)
(* (the run session_reset shows it), and what either job verified may then  *)
(* be undone by the other.                                                  *)
(***************************************************************************)

\* A job that ended well.
Won(j) == j.pc = "done" /\ j.ok

\* The jobs that bring a connection up.
ConnectionKinds == {"connect", "reconnect", "switch"}

\* Where each kind of job can be.
Placed(j) ==
  /\ j.kind = "connect" => j.pc \in
       {"prepare", "enable", "vpn", "post", "rollback", "save", "collect", "done"}
  /\ j.kind = "reconnect" => j.pc \in
       {"lock", "path", "retarget", "vpn", "post", "rollback", "save", "collect", "done"}
  /\ j.kind = "switch" => j.pc \in
       {"prepare", "lock", "path", "stop", "probe", "retarget", "vpn", "post", "rollback",
        "save", "collect", "done"}
  /\ j.kind \in {"disconnect", "disable"} => j.pc \in
       {"look", "lock", "stop", "probe", "release", "collect", "done"}
  /\ j.kind \in {"enable", "reconcile"} => j.pc \in {"look", "collect", "done"}
  /\ j.kind = "reset" => j.pc \in {"stop", "release", "discard", "done"}
  /\ j.kind = "recheck" => j.pc \in {"look", "done"}

\* What a job carries at each place: the route and endpoints it works with, the
\* profile it made, the status it brings back.
Carries(j) ==
  /\ j.kind = "connect" /\ (j.pc \in {"enable", "vpn", "post", "rollback", "save"} \/ Won(j))
       => j.route # None /\ j.route.eps # {}
  /\ j.kind \in {"reconnect", "switch"} /\ (j.pc # "done" \/ j.ok) => j.route # None
  /\ j.kind = "switch" /\ j.pc \notin {"prepare", "rollback", "save", "collect", "done"}
       => j.target # None /\ j.target.eps # {}
  /\ j.kind = "reconnect" => j.uuid # None
  /\ j.kind \in {"connect", "switch"} /\ (j.pc \in {"post", "save"} \/ Won(j)) => j.uuid # None
  /\ j.kind = "reconcile" /\ Won(j) /\ Adopted(j.out) => j.uuid # None /\ j.route # None
  /\ Won(j) /\ j.kind \in {"disconnect", "disable", "enable", "reset"} => j.st = "absent"
  /\ Won(j) /\ j.kind \in ConnectionKinds => j.st = "active"

\* Only a switch gives up the old route, once the VPN is stopped; if it fails then it
\* brings no route back.
Gone(j) ==
  /\ j.gone => j.kind = "switch" /\ j.pc \in
       {"probe", "retarget", "vpn", "post", "rollback", "collect", "done"}
  /\ j.kind = "switch" /\ j.pc \in {"probe", "retarget", "vpn", "post"} => j.gone
  /\ j.gone /\ j.pc = "done" => j.route = None /\ ~j.ok

\* A well-formed job.
Shaped(j) == Placed(j) /\ Carries(j) /\ Gone(j)

AllShaped == \A w \in Workers : Shaped(job[w])

\* The invariant of this layer: types, and well-formed jobs.
ShapeInv == TypeOK /\ AllShaped

\* A well-formed job may be put anywhere.
LEMMA PutShape ==
  ASSUME ShapeInv, NEW w \in Workers, NEW j \in Job, Shaped(j), Put(w, j)
  PROVE  job' \in [Workers -> Job] /\ AllShaped'
  BY DEF ShapeInv, TypeOK, AllShaped, Put

\* The job of w goes on: same kind, well formed, no other job disturbed.
Moved(w) ==
  /\ job[w] \in Job /\ job[w].kind # "none"
  /\ job' = [job EXCEPT ![w] = job'[w]]
  /\ job'[w] \in Job /\ job'[w].kind = job[w].kind
  /\ Shaped(job'[w])

\* What the invariant says of one job.
LEMMA JobShape ==
  ASSUME ShapeInv, NEW w \in Workers
  PROVE  job[w] \in Job /\ Shaped(job[w])
  BY DEF ShapeInv, TypeOK, AllShaped

\* Putting a well-formed job of the same kind moves it.
LEMMA PutMoves ==
  ASSUME ShapeInv, NEW w \in Workers, NEW j \in Job, Shaped(j), Put(w, j),
         j.kind = job[w].kind, job[w].kind # "none"
  PROVE  Moved(w)
  BY DEF ShapeInv, TypeOK, Moved, Put

\* A raised exception leaves a well-formed job.
LEMMA RaisedShape ==
  ASSUME ShapeInv, NEW w \in Workers, Raise(w), job[w].kind # "none", job[w].pc # "done",
         job[w].pc # "collect"
  PROVE  Moved(w)
<1>1. job[w] \in Job /\ Shaped(job[w])
  BY DEF ShapeInv, TypeOK, AllShaped
<1>2. CASE Is(w, {"reset", "recheck"})
  <2> DEFINE j == [job[w] EXCEPT !.pc = "done", !.ok = FALSE]
  <2>1. j \in Job /\ Shaped(j) /\ j.kind = job[w].kind
    BY <1>1, <1>2 DEF Is, Shaped, Placed, Carries, Gone, Won, Job, Pcs
  <2> QED BY <1>1, <1>2, <2>1, PutMoves DEF Raise
<1>3. CASE ~Is(w, {"reset", "recheck"})
  <2> DEFINE j == [job[w] EXCEPT !.pc = "collect"]
  <2>1. j \in Job /\ Shaped(j) /\ j.kind = job[w].kind
    BY <1>1, <1>3 DEF Is, Shaped, Placed, Carries, Gone, Won, Job, Pcs, Kinds
  <2> QED BY <1>1, <1>3, <2>1, PutMoves DEF Raise, Goto
<1> QED BY <1>2, <1>3

\* The two outcomes of the preparation of a connect.
LEMMA PrepareConnectShape ==
  ASSUME ShapeInv, NEW w \in Workers, PrepareConnect(w)
  PROVE  Moved(w)
<1>1. job[w] \in Job /\ Shaped(job[w])
  BY JobShape
<1>2. ASSUME NEW i \in Interfaces, NEW e \in Endpoints,
             Put(w, [job[w] EXCEPT !.pc = "enable", !.base = TRUE, !.route = RouteTo(i, e)])
      PROVE  Moved(w)
  <2> DEFINE j == [job[w] EXCEPT !.pc = "enable", !.base = TRUE, !.route = RouteTo(i, e)]
  <2>1. RouteTo(i, e) \in Route /\ RouteTo(i, e).eps # {} /\ RouteTo(i, e) # None
    BY <1>1, <1>2, SessionAssumption DEF Route, RouteTo
  <2>2. j \in Job /\ j.kind = job[w].kind
    BY <1>1, <2>1 DEF Job, Pcs, OrNone
  <2>3. Shaped(j)
    BY <1>1, <1>2, SessionAssumption, <2>1
       DEF PrepareConnect, At, Is, Shaped, Placed, Carries, Gone, Won, Job, Pcs
  <2> QED BY <1>2, <2>2, <2>3, PutMoves DEF PrepareConnect, At
<1>3. ASSUME NEW b \in BOOLEAN,
             Put(w, [job[w] EXCEPT !.pc = "collect", !.base = b])
      PROVE  Moved(w)
  <2> DEFINE j == [job[w] EXCEPT !.pc = "collect", !.base = b]
  <2>1. j \in Job /\ Shaped(j) /\ j.kind = job[w].kind
    BY <1>1, <1>3 DEF PrepareConnect, At, Is, Shaped, Placed, Carries, Gone, Won, Job, Pcs
  <2> QED BY <1>3, <2>1, PutMoves DEF PrepareConnect, At
<1> QED BY <1>2, <1>3 DEF PrepareConnect

\* The candidate of a switch has an endpoint.
LEMMA PrepareSwitchShape ==
  ASSUME ShapeInv, NEW w \in Workers, PrepareSwitch(w)
  PROVE  Moved(w)
<1>1. job[w] \in Job /\ Shaped(job[w])
  BY JobShape
<1>2. CASE Raise(w)
  BY <1>2, RaisedShape DEF PrepareSwitch, At
<1>3. ASSUME NEW e \in Endpoints,
             Put(w, [job[w] EXCEPT !.pc = "lock", !.target = [ifs |-> {}, eps |-> {e}]])
      PROVE  Moved(w)
  <2> DEFINE j == [job[w] EXCEPT !.pc = "lock", !.target = [ifs |-> {}, eps |-> {e}]]
  <2>1. /\ [ifs |-> {}, eps |-> {e}] \in Route
        /\ [ifs |-> {}, eps |-> {e}] # None
        /\ [ifs |-> {}, eps |-> {e}].eps # {}
    BY <1>1, <1>3, SessionAssumption DEF Route
  <2>2. j \in Job /\ j.kind = job[w].kind
    BY <1>1, <2>1 DEF Job, Pcs, OrNone
  <2>3. Shaped(j)
    BY <1>1, <1>3, SessionAssumption, <2>1
       DEF PrepareSwitch, At, Is, Shaped, Placed, Carries, Gone, Won, Job, Pcs
  <2> QED BY <1>3, <2>2, <2>3, PutMoves DEF PrepareSwitch, At
<1> QED BY <1>2, <1>3 DEF PrepareSwitch

\* A connect goes on with its route.
LEMMA EnableFirewallShape ==
  ASSUME ShapeInv, NEW w \in Workers, EnableFirewall(w)
  PROVE  Moved(w)
<1>1. job[w] \in Job /\ Shaped(job[w])
  BY JobShape
<1>2. CASE Raise(w)
  BY <1>2, RaisedShape DEF EnableFirewall, At
<1>3. CASE Put(w, [job[w] EXCEPT !.pc = "vpn"])
  <2> DEFINE j == [job[w] EXCEPT !.pc = "vpn"]
  <2>1. j \in Job /\ Shaped(j) /\ j.kind = job[w].kind
    BY <1>1 DEF EnableFirewall, At, Is, Shaped, Placed, Carries, Gone, Won, Job, Pcs
  <2> QED BY <1>3, <2>1, PutMoves DEF EnableFirewall, At, Goto, Return
<1> QED BY <1>2, <1>3 DEF EnableFirewall, Goto

\* Where a verified lock leads.
LEMMA VerifyLockShape ==
  ASSUME ShapeInv, NEW w \in Workers, VerifyLock(w)
  PROVE  Moved(w)
<1>1. job[w] \in Job /\ Shaped(job[w])
  BY JobShape
<1>2. CASE Raise(w)
  BY <1>2, RaisedShape DEF VerifyLock, At
<1>3. CASE Put(w, [job[w] EXCEPT !.pc = IF Is(w, {"reconnect", "switch"})
                                    THEN "path" ELSE "stop"])
  <2> DEFINE j == [job[w] EXCEPT !.pc = IF Is(w, {"reconnect", "switch"})
                                        THEN "path" ELSE "stop"]
  <2>1. j \in Job /\ Shaped(j) /\ j.kind = job[w].kind
    BY <1>1 DEF VerifyLock, At, Is, Shaped, Placed, Carries, Gone, Won, Job, Pcs
  <2> QED BY <1>3, <2>1, PutMoves DEF VerifyLock, At, Goto, Return
<1> QED BY <1>2, <1>3 DEF VerifyLock, Goto

\* A reconnect writes its own route again.
LEMMA ReconnectPathShape ==
  ASSUME ShapeInv, NEW w \in Workers, ReconnectPath(w)
  PROVE  Moved(w)
<1>1. job[w] \in Job /\ Shaped(job[w])
  BY JobShape
<1>2. CASE Raise(w)
  BY <1>2, RaisedShape DEF ReconnectPath, At
<1>3. ASSUME Is(w, {"reconnect"}),
             Put(w, [job[w] EXCEPT !.pc = "retarget",
                                   !.todo = <<Set("ifs", job[w].route.ifs),
                                              Set("eps", job[w].route.eps)>>])
      PROVE  Moved(w)
  <2> DEFINE j == [job[w] EXCEPT !.pc = "retarget",
                                 !.todo = <<Set("ifs", job[w].route.ifs),
                                            Set("eps", job[w].route.eps)>>]
  <2>1. /\ job[w].route \in Route
        /\ <<Set("ifs", job[w].route.ifs), Set("eps", job[w].route.eps)>> \in Seq(Update)
    BY <1>1, <1>3
       DEF ReconnectPath, At, Is, Shaped, Placed, Carries, Won, Job, OrNone, Route, Set,
           Update
  <2>2. j \in Job /\ j.kind = job[w].kind
    BY <1>1, <2>1 DEF Job, Pcs
  <2>3. Shaped(j)
    BY <1>1, <1>3, <2>1
       DEF ReconnectPath, At, Is, Shaped, Placed, Carries, Gone, Won, Job, Pcs
  <2> QED BY <1>3, <2>2, <2>3, PutMoves DEF ReconnectPath, At
<1> QED BY <1>2, <1>3 DEF ReconnectPath

\* A switch goes on to stop the old VPN.
LEMMA SwitchPathShape ==
  ASSUME ShapeInv, NEW w \in Workers, SwitchPath(w)
  PROVE  Moved(w)
<1>1. job[w] \in Job /\ Shaped(job[w])
  BY JobShape
<1>2. CASE Raise(w)
  BY <1>2, RaisedShape DEF SwitchPath, At
<1>3. CASE Put(w, [job[w] EXCEPT !.pc = "stop"])
  <2> DEFINE j == [job[w] EXCEPT !.pc = "stop"]
  <2>1. j \in Job /\ Shaped(j) /\ j.kind = job[w].kind
    BY <1>1 DEF SwitchPath, At, Is, Shaped, Placed, Carries, Gone, Won, Job, Pcs
  <2> QED BY <1>3, <2>1, PutMoves DEF SwitchPath, At, Goto, Return
<1> QED BY <1>2, <1>3 DEF SwitchPath, Goto

\* Past the stop an error of a switch gives its old route up.
LEMMA StopVpnShape ==
  ASSUME ShapeInv, NEW w \in Workers, StopVpn(w)
  PROVE  Moved(w)
<1>1. job[w] \in Job /\ Shaped(job[w])
  BY JobShape
<1>2. CASE Raise(w)
  BY <1>2, RaisedShape DEF StopVpn, At
<1>3. CASE Put(w, AfterStop(w))
  <2> DEFINE j == AfterStop(w)
  <2>1. Is(w, {"switch"}) \in BOOLEAN
    BY DEF Is
  <2>2. j \in Job /\ j.kind = job[w].kind
    BY <1>1, <2>1 DEF AfterStop, Job, Pcs
  <2>3. j.gone <=> job[w].kind = "switch"
    BY <1>1, <2>1 DEF AfterStop, Job, Is
  <2>4. Shaped(j)
    <3>1. /\ j.pc = IF job[w].kind = "reset" THEN "release" ELSE "probe"
          /\ j.route = job[w].route /\ j.target = job[w].target /\ j.uuid = job[w].uuid
      BY <1>1 DEF AfterStop, Job, Is
    <3> QED
      BY <1>1, <2>2, <2>3, <3>1 DEF StopVpn, At, Shaped, Placed, Carries, Gone, Won
  <2> QED BY <1>3, <2>2, <2>4, PutMoves DEF StopVpn, At
<1> QED BY <1>2, <1>3 DEF StopVpn

\* The route a switch goes to, on an interface of the old one.
LEMMA ProbeBlockedShape ==
  ASSUME ShapeInv, NEW w \in Workers, ProbeBlocked(w)
  PROVE  Moved(w)
<1>1. job[w] \in Job /\ Shaped(job[w])
  BY JobShape
<1>2. CASE Raise(w)
  BY <1>2, RaisedShape DEF ProbeBlocked, At
<1>3. ASSUME Is(w, {"disconnect", "disable"}),
             Put(w, [job[w] EXCEPT !.pc = "release"])
      PROVE  Moved(w)
  <2> DEFINE j == [job[w] EXCEPT !.pc = "release"]
  <2>1. j \in Job /\ Shaped(j) /\ j.kind = job[w].kind
    BY <1>1, <1>3 DEF ProbeBlocked, At, Is, Shaped, Placed, Carries, Gone, Won, Job, Pcs
  <2> QED BY <1>3, <2>1, PutMoves DEF ProbeBlocked, At, Goto, Return
<1>4. ASSUME Is(w, {"switch"}), NEW i \in job[w].route.ifs,
             NEW new, new = [job[w].target EXCEPT !.ifs = {i}],
             NEW old, old = job[w].route,
             Put(w, [job[w] EXCEPT !.pc = "retarget", !.target = new, !.todo =
                << Set("ifs", old.ifs \cup new.ifs), Set("eps", old.eps \cup new.eps),
                   Set("eps", new.eps), Set("ifs", new.ifs) >>])
      PROVE  Moved(w)
  <2> DEFINE todo == << Set("ifs", old.ifs \cup new.ifs), Set("eps", old.eps \cup new.eps),
                        Set("eps", new.eps), Set("ifs", new.ifs) >>
             j == [job[w] EXCEPT !.pc = "retarget", !.target = new, !.todo = todo]
  <2>1. old \in Route /\ job[w].target \in Route /\ job[w].target.eps # {}
    BY <1>1, <1>4 DEF ProbeBlocked, At, Is, Shaped, Carries, Job, OrNone
  <2>2. new \in Route /\ new.eps # {} /\ new # None
    BY <1>4, <2>1, SessionAssumption DEF Route
  <2>3. todo \in Seq(Update)
    BY <2>1, <2>2 DEF Set, Update, Route
  <2>4. j \in Job /\ j.kind = job[w].kind
    <3> HIDE DEF todo
    <3> QED BY <1>1, <2>2, <2>3 DEF Job, Pcs, OrNone
  <2>5. Shaped(j)
    <3> HIDE DEF todo
    <3> QED BY <1>1, <1>4, <2>2, <2>3
           DEF ProbeBlocked, At, Is, Shaped, Placed, Carries, Gone, Won, Job
  <2> QED BY <1>4, <2>4, <2>5, PutMoves DEF ProbeBlocked, At
<1> QED BY <1>2, <1>3, <1>4 DEF ProbeBlocked, Goto

\* One call of the retarget is made.
LEMMA RetargetShape ==
  ASSUME ShapeInv, NEW w \in Workers, Retarget(w)
  PROVE  Moved(w)
<1>1. job[w] \in Job /\ Shaped(job[w])
  BY JobShape
<1>2. CASE Raise(w)
  BY <1>2, RaisedShape DEF Retarget, At
<1>3. CASE Put(w, [job[w] EXCEPT !.todo = Tail(@)])
  <2> DEFINE rest == Tail(job[w].todo)
             j == [job[w] EXCEPT !.todo = rest]
  <2>0. rest \in Seq(Update)
    BY <1>1 DEF Retarget, Job
  <2>1. j \in Job /\ Shaped(j) /\ j.kind = job[w].kind
    <3> HIDE DEF rest
    <3>1. j \in Job /\ j.kind = job[w].kind /\ j.pc = job[w].pc
      BY <1>1, <2>0 DEF Job
    <3>2. Shaped(j)
      BY <1>1 DEF Shaped, Placed, Carries, Gone, Won, Job
    <3> QED BY <3>1, <3>2
  <2> QED BY <1>3, <2>1, PutMoves DEF Retarget, At
<1> QED BY <1>2, <1>3 DEF Retarget

\* After the retarget the VPN is started.
LEMMA RetargetedShape ==
  ASSUME ShapeInv, NEW w \in Workers, Retargeted(w)
  PROVE  Moved(w)
<1>1. job[w] \in Job /\ Shaped(job[w])
  BY JobShape
<1>2. CASE Raise(w)
  BY <1>2, RaisedShape DEF Retargeted, At
<1>3. CASE Put(w, [job[w] EXCEPT !.pc = "vpn"])
  <2> DEFINE j == [job[w] EXCEPT !.pc = "vpn"]
  <2>1. j \in Job /\ Shaped(j) /\ j.kind = job[w].kind
    BY <1>1 DEF Retargeted, At, Is, Shaped, Placed, Carries, Gone, Won, Job, Pcs
  <2> QED BY <1>3, <2>1, PutMoves DEF Retargeted, At, Goto, Return
<1> QED BY <1>2, <1>3 DEF Retargeted, Goto

\* The profile of a started VPN is remembered.
LEMMA StartVpnShape ==
  ASSUME ShapeInv, NEW w \in Workers, StartVpn(w)
  PROVE  Moved(w)
<1>1. job[w] \in Job /\ Shaped(job[w])
  BY JobShape
<1>2. CASE Put(w, [job[w] EXCEPT !.pc = IF Is(w, {"switch"}) THEN "rollback" ELSE "collect"])
  <2> DEFINE j == [job[w] EXCEPT !.pc = IF Is(w, {"switch"}) THEN "rollback" ELSE "collect"]
  <2>1. j \in Job /\ Shaped(j) /\ j.kind = job[w].kind
    BY <1>1 DEF StartVpn, At, Is, Shaped, Placed, Carries, Gone, Won, Job, Pcs
  <2> QED BY <1>2, <2>1, PutMoves DEF StartVpn, At, Goto, Return
<1>3. ASSUME NEW u \in Uuids,
             Put(w, [job[w] EXCEPT !.pc = "post", !.uuid = u])
      PROVE  Moved(w)
  <2> DEFINE j == [job[w] EXCEPT !.pc = "post", !.uuid = u]
  <2>1. j \in Job /\ Shaped(j) /\ j.kind = job[w].kind
    BY <1>1, <1>3, SessionAssumption
       DEF StartVpn, At, Is, Shaped, Placed, Carries, Gone, Won, Job, Pcs, OrNone
  <2> QED BY <1>3, <2>1, PutMoves DEF StartVpn, At, Goto, Return
<1> QED BY <1>2, <1>3 DEF StartVpn, Goto

\* A reconnect raises the profile it was given.
LEMMA ReconnectVpnShape ==
  ASSUME ShapeInv, NEW w \in Workers, ReconnectVpn(w)
  PROVE  Moved(w)
<1>1. job[w] \in Job /\ Shaped(job[w])
  BY JobShape
<1>2. CASE Put(w, [job[w] EXCEPT !.pc = "post"])
  <2> DEFINE j == [job[w] EXCEPT !.pc = "post"]
  <2>1. j \in Job /\ Shaped(j) /\ j.kind = job[w].kind
    BY <1>1 DEF ReconnectVpn, At, Is, Shaped, Placed, Carries, Gone, Won, Job, Pcs
  <2> QED BY <1>2, <2>1, PutMoves DEF ReconnectVpn, At, Goto, Return
<1>3. CASE Put(w, [job[w] EXCEPT !.pc = "rollback"])
  <2> DEFINE j == [job[w] EXCEPT !.pc = "rollback"]
  <2>1. j \in Job /\ Shaped(j) /\ j.kind = job[w].kind
    BY <1>1 DEF ReconnectVpn, At, Is, Shaped, Placed, Carries, Gone, Won, Job, Pcs
  <2> QED BY <1>3, <2>1, PutMoves DEF ReconnectVpn, At, Goto, Return
<1> QED BY <1>2, <1>3 DEF ReconnectVpn, Goto

\* A verified switch has the target as its route.
LEMMA PostCheckShape ==
  ASSUME ShapeInv, NEW w \in Workers, PostCheck(w)
  PROVE  Moved(w)
<1>1. job[w] \in Job /\ Shaped(job[w])
  BY JobShape
<1>2. ASSUME NEW r, r = IF Is(w, {"switch"}) THEN job[w].target ELSE job[w].route,
             Put(w, [job[w] EXCEPT !.pc = "save", !.gone = FALSE, !.route = r])
      PROVE  Moved(w)
  <2> DEFINE j == [job[w] EXCEPT !.pc = "save", !.gone = FALSE, !.route = r]
  <2>1. r \in OrNone(Route)
    BY <1>1, <1>2 DEF Job
  <2>2. j \in Job /\ j.kind = job[w].kind
    BY <1>1, <2>1 DEF Job, Pcs
  <2>3. j.pc = "save" /\ j.gone = FALSE /\ j.route = r /\ j.uuid = job[w].uuid
    BY <1>1 DEF Job
  <2> HIDE DEF j
  <2>4. Shaped(j)
    BY <1>1, <1>2, <2>2, <2>3
    DEF PostCheck, At, Is, Shaped, Placed, Carries, Gone, Won, ConnectionKinds, Job, Kinds
  <2> QED BY <1>2, <2>2, <2>4, PutMoves DEF PostCheck, At, j
<1>3. CASE Put(w, [job[w] EXCEPT !.pc = "rollback"])
  <2> DEFINE j == [job[w] EXCEPT !.pc = "rollback"]
  <2>1. j \in Job /\ Shaped(j) /\ j.kind = job[w].kind
    BY <1>1 DEF PostCheck, At, Is, Shaped, Placed, Carries, Gone, Won, Job, Pcs
  <2> QED BY <1>3, <2>1, PutMoves DEF PostCheck, At, Goto, Return
<1> QED BY <1>2, <1>3 DEF PostCheck, Goto

\* A rollback ends in the collecting of the status.
LEMMA RollbackShape ==
  ASSUME ShapeInv, NEW w \in Workers, Rollback(w)
  PROVE  Moved(w)
<1>1. job[w] \in Job /\ Shaped(job[w])
  BY JobShape
<1>2. CASE Put(w, [job[w] EXCEPT !.pc = "collect"])
  <2> DEFINE j == [job[w] EXCEPT !.pc = "collect"]
  <2>1. j \in Job /\ Shaped(j) /\ j.kind = job[w].kind
    BY <1>1 DEF Rollback, At, Is, Shaped, Placed, Carries, Gone, Won, Job, Pcs
  <2> QED BY <1>2, <2>1, PutMoves DEF Rollback, At, Goto, Return
<1> QED BY <1>2 DEF Rollback, Goto

\* A saved record ends a connection with success.
LEMMA SaveRecordShape ==
  ASSUME ShapeInv, NEW w \in Workers, SaveRecord(w)
  PROVE  Moved(w)
<1>1. job[w] \in Job /\ Shaped(job[w])
  BY JobShape
<1>2. CASE Raise(w)
  BY <1>2, RaisedShape DEF SaveRecord, At
<1>3. CASE Put(w, [[job[w] EXCEPT !.st = "active"] EXCEPT !.pc = "done", !.ok = TRUE])
  <2> DEFINE j == [[job[w] EXCEPT !.st = "active"] EXCEPT !.pc = "done", !.ok = TRUE]
  <2>1. j \in Job /\ j.kind = job[w].kind
    BY <1>1 DEF Job, Pcs
  <2>2. /\ j.pc = "done" /\ j.st = "active" /\ j.route = job[w].route /\ j.uuid = job[w].uuid
        /\ j.gone = job[w].gone
    BY <1>1 DEF Job
  <2> HIDE DEF j
  <2>3. Shaped(j)
    BY <1>1, <2>1, <2>2
    DEF SaveRecord, At, Shaped, Placed, Carries, Gone, Won, ConnectionKinds, Job, Kinds
  <2> QED BY <1>3, <2>1, <2>3, PutMoves DEF SaveRecord, At, j
<1> QED BY <1>2, <1>3 DEF SaveRecord, Return

\* A release ends the job, that of a reset goes on.
LEMMA ReleaseFirewallShape ==
  ASSUME ShapeInv, NEW w \in Workers, ReleaseFirewall(w)
  PROVE  Moved(w)
<1>1. job[w] \in Job /\ Shaped(job[w])
  BY JobShape
<1>2. CASE Raise(w)
  BY <1>2, RaisedShape DEF ReleaseFirewall, At
<1>3. ASSUME Is(w, {"reset"}),
             Put(w, [job[w] EXCEPT !.pc = "discard"])
      PROVE  Moved(w)
  <2> DEFINE j == [job[w] EXCEPT !.pc = "discard"]
  <2>1. j \in Job /\ Shaped(j) /\ j.kind = job[w].kind
    BY <1>1, <1>3 DEF ReleaseFirewall, At, Is, Shaped, Placed, Carries, Gone, Won, Job, Pcs
  <2> QED BY <1>3, <2>1, PutMoves DEF ReleaseFirewall, At, Goto, Return
<1>4. ASSUME ~Is(w, {"reset"}),
             Put(w, [[job[w] EXCEPT !.st = "absent"] EXCEPT !.pc = "done", !.ok = TRUE])
      PROVE  Moved(w)
  <2> DEFINE j == [[job[w] EXCEPT !.st = "absent"] EXCEPT !.pc = "done", !.ok = TRUE]
  <2>1. j \in Job /\ Shaped(j) /\ j.kind = job[w].kind
    BY <1>1, <1>4
       DEF ReleaseFirewall, At, Is, Shaped, Placed, Carries, Gone, Won, Job, Pcs,
           ConnectionKinds
  <2> QED BY <1>4, <2>1, PutMoves DEF ReleaseFirewall, At, Goto, Return
<1> QED BY <1>2, <1>3, <1>4 DEF ReleaseFirewall, Goto, Return

\* A discarded record ends a reset.
LEMMA DiscardRecordShape ==
  ASSUME ShapeInv, NEW w \in Workers, DiscardRecord(w)
  PROVE  Moved(w)
<1>1. job[w] \in Job /\ Shaped(job[w])
  BY JobShape
<1>2. CASE Raise(w)
  BY <1>2, RaisedShape DEF DiscardRecord, At
<1>3. CASE Put(w, [[job[w] EXCEPT !.st = "absent"] EXCEPT !.pc = "done", !.ok = TRUE])
  <2> DEFINE j == [[job[w] EXCEPT !.st = "absent"] EXCEPT !.pc = "done", !.ok = TRUE]
  <2>1. j \in Job /\ Shaped(j) /\ j.kind = job[w].kind
    BY <1>1
       DEF DiscardRecord, At, Is, Shaped, Placed, Carries, Gone, Won, Job, Pcs,
           ConnectionKinds
  <2> QED BY <1>3, <2>1, PutMoves DEF DiscardRecord, At, Goto, Return
<1> QED BY <1>2, <1>3 DEF DiscardRecord, Return

\* Nothing to release, or the lock is verified first.
LEMMA LookBeforeDisableShape ==
  ASSUME ShapeInv, NEW w \in Workers, LookBeforeDisable(w)
  PROVE  Moved(w)
<1>1. job[w] \in Job /\ Shaped(job[w])
  BY JobShape
<1>2. CASE Raise(w)
  BY <1>2, RaisedShape DEF LookBeforeDisable, At
<1>3. CASE Put(w, [job[w] EXCEPT !.pc = "lock"])
  <2> DEFINE j == [job[w] EXCEPT !.pc = "lock"]
  <2>1. j \in Job /\ Shaped(j) /\ j.kind = job[w].kind
    BY <1>1 DEF LookBeforeDisable, At, Is, Shaped, Placed, Carries, Gone, Won, Job, Pcs
  <2> QED BY <1>3, <2>1, PutMoves DEF LookBeforeDisable, At, Goto, Return
<1>4. CASE Put(w, [[job[w] EXCEPT !.st = "absent"] EXCEPT !.pc = "done", !.ok = TRUE])
  <2> DEFINE j == [[job[w] EXCEPT !.st = "absent"] EXCEPT !.pc = "done", !.ok = TRUE]
  <2>1. j \in Job /\ Shaped(j) /\ j.kind = job[w].kind
    BY <1>1
       DEF LookBeforeDisable, At, Is, Shaped, Placed, Carries, Gone, Won, Job, Pcs,
           ConnectionKinds
  <2> QED BY <1>4, <2>1, PutMoves DEF LookBeforeDisable, At, Goto, Return
<1> QED BY <1>2, <1>3, <1>4 DEF LookBeforeDisable, Goto, Return

\* The preference is enabled over an absent table.
LEMMA LookBeforeEnableShape ==
  ASSUME ShapeInv, NEW w \in Workers, LookBeforeEnable(w)
  PROVE  Moved(w)
<1>1. job[w] \in Job /\ Shaped(job[w])
  BY JobShape
<1>2. CASE Raise(w)
  BY <1>2, RaisedShape DEF LookBeforeEnable, At
<1>3. CASE Put(w, [[job[w] EXCEPT !.st = "absent"] EXCEPT !.pc = "done", !.ok = TRUE])
  <2> DEFINE j == [[job[w] EXCEPT !.st = "absent"] EXCEPT !.pc = "done", !.ok = TRUE]
  <2>1. j \in Job /\ Shaped(j) /\ j.kind = job[w].kind
    BY <1>1
       DEF LookBeforeEnable, At, Is, Shaped, Placed, Carries, Gone, Won, Job, Pcs,
           ConnectionKinds
  <2> QED BY <1>3, <2>1, PutMoves DEF LookBeforeEnable, At, Goto, Return
<1> QED BY <1>2, <1>3 DEF LookBeforeEnable, Return

\* A recheck ends with the status it read.
LEMMA RecheckShape ==
  ASSUME ShapeInv, NEW w \in Workers, Recheck(w)
  PROVE  Moved(w)
<1>1. job[w] \in Job /\ Shaped(job[w])
  BY JobShape
<1>2. CASE Raise(w)
  BY <1>2, RaisedShape DEF Recheck, At
<1>3. CASE Put(w, [[job[w] EXCEPT !.st = Status(fw)] EXCEPT !.pc = "done", !.ok = TRUE])
  <2> DEFINE j == [[job[w] EXCEPT !.st = Status(fw)] EXCEPT !.pc = "done", !.ok = TRUE]
  <2>1. j \in Job /\ Shaped(j) /\ j.kind = job[w].kind
    BY <1>1
       DEF Recheck, At, Is, Shaped, Placed, Carries, Gone, Won, Job, Pcs, ConnectionKinds,
           Status
  <2> QED BY <1>3, <2>1, PutMoves DEF Recheck, At, Goto, Return
<1> QED BY <1>2, <1>3 DEF Recheck, Return

\* What a start concludes: it adopts only the recorded route, with a tunnel
\* only of the recorded profile, and finds nothing to recover only without a table.
LEMMA Evaluated ==
  ASSUME NEW rec, NEW f, NEW n, n.up \in BOOLEAN
  PROVE  /\ Evaluate(rec, f, n) \in Dispositions
         /\ Adopted(Evaluate(rec, f, n)) =>
              rec # None /\ f # None /\ rec.route = f /\ (n.up => n.uuid = rec.uuid)
         /\ Clean(Evaluate(rec, f, n)) => f = None
  BY DEF Evaluate, Adopted, Clean, Dispositions

\* A reconciliation that adopts has a record to adopt.
LEMMA ReconcileShape ==
  ASSUME ShapeInv, NEW w \in Workers, Reconcile(w)
  PROVE  Moved(w)
<1>1. job[w] \in Job /\ Shaped(job[w])
  BY JobShape
<1>2. CASE Raise(w)
  BY <1>2, RaisedShape DEF Reconcile, At
<1>3. ASSUME NEW st, st = Status(fw), NEW out, out = Evaluate(disk.record, fw, nm),
             NEW u, u = IF disk.record = None THEN None ELSE disk.record.uuid,
             Put(w, [[job[w] EXCEPT !.st = st, !.route = fw, !.out = out, !.uuid = u]
                       EXCEPT !.pc = "done", !.ok = TRUE])
      PROVE  Moved(w)
  <2> DEFINE j == [[job[w] EXCEPT !.st = st, !.route = fw, !.out = out, !.uuid = u]
                     EXCEPT !.pc = "done", !.ok = TRUE]
  <2>1. /\ fw \in OrNone(Route) /\ st \in {"absent", "active"}
        /\ disk.record # None => disk.record.uuid \in Uuids
    BY <1>3 DEF ShapeInv, TypeOK, Disk, Record, OrNone, Status
  <2>2. /\ out \in OrNone(Dispositions)
        /\ Adopted(out) => disk.record # None /\ fw # None
    <3>1. nm.up \in BOOLEAN
      BY DEF ShapeInv, TypeOK, Profile
    <3> QED BY <1>3, <3>1, Evaluated DEF OrNone
  <2>3. u \in OrNone(Uuids) /\ (disk.record # None => u # None)
    BY <1>3, <2>1, SessionAssumption DEF OrNone
  <2>4. j \in Job /\ j.kind = job[w].kind
    BY <1>1, <2>1, <2>2, <2>3 DEF Job, Pcs
  <2>5. Shaped(j)
    BY <1>1, <2>2, <2>3
       DEF Reconcile, At, Is, Shaped, Placed, Carries, Gone, Won, Job, ConnectionKinds
  <2> QED BY <1>3, <2>4, <2>5, PutMoves DEF Reconcile, At
<1> QED BY <1>2, <1>3 DEF Reconcile, Return

\* A failed job reports a status, and a route only where it kept its own.
LEMMA CollectShape ==
  ASSUME ShapeInv, NEW w \in Workers, Collect(w)
  PROVE  Moved(w)
<1>1. job[w] \in Job /\ Shaped(job[w])
  BY JobShape
<1>2. ASSUME NEW st \in {"none", Status(fw)}, NEW e \in BOOLEAN,
             NEW r, r = IF job[w].gone THEN None ELSE job[w].route,
             Put(w, [job[w] EXCEPT !.pc = "done", !.ok = FALSE, !.st = st, !.err = e,
                                   !.route = r])
      PROVE  Moved(w)
  <2> DEFINE j == [job[w] EXCEPT !.pc = "done", !.ok = FALSE, !.st = st, !.err = e,
                                 !.route = r]
  <2>1. st \in {"none", "absent", "active"}
    BY <1>2 DEF Status
  <2>2. r \in OrNone(Route)
    BY <1>1, <1>2 DEF Job, OrNone
  <2>3. j \in Job /\ j.kind = job[w].kind
    <3> DEFINE k == [job[w] EXCEPT !.pc = "done", !.ok = FALSE, !.err = e]
    <3>1. k \in Job /\ k.kind = job[w].kind
      BY <1>1 DEF Job, Pcs
    <3>2. j = [k EXCEPT !.st = st, !.route = r]
      BY <1>1 DEF Job
    <3> HIDE DEF k, j
    <3> QED BY <2>1, <2>2, <3>1, <3>2 DEF Job
  <2>4. Shaped(j)
    <3>1. /\ At(w, "collect") /\ j.pc = "done" /\ j.ok = FALSE /\ j.kind = job[w].kind
          /\ j.gone = job[w].gone /\ j.route = r /\ j.uuid = job[w].uuid
      BY <1>1, <1>2 DEF Collect, Job
    <3> HIDE DEF j
    <3>2. Placed(j)
      BY <1>1, <3>1 DEF At, Shaped, Placed
    <3>3. Carries(j)
      BY <1>1, <1>2, <3>1 DEF At, Shaped, Placed, Carries, Gone, Won
    <3>4. Gone(j)
      BY <1>1, <1>2, <3>1 DEF At, Shaped, Gone
    <3> QED BY <3>2, <3>3, <3>4 DEF Shaped
  <2> QED BY <1>2, <2>3, <2>4, PutMoves DEF Collect, At
<1> QED BY <1>2 DEF Collect

\* A job that moved leaves all jobs well formed.
LEMMA MovedShape ==
  ASSUME ShapeInv, NEW w \in Workers, Moved(w)
  PROVE  job' \in [Workers -> Job] /\ AllShaped'
  BY DEF ShapeInv, TypeOK, AllShaped, Moved

\* Every step of a job moves it.
LEMMA JobStepMoves ==
  ASSUME ShapeInv, NEW w \in Workers, JobStep(w)
  PROVE  Moved(w)
  BY PrepareConnectShape, PrepareSwitchShape, EnableFirewallShape, VerifyLockShape,
     ReconnectPathShape, SwitchPathShape, StopVpnShape, ProbeBlockedShape, RetargetShape,
     RetargetedShape, StartVpnShape, ReconnectVpnShape, PostCheckShape, RollbackShape,
     SaveRecordShape, ReleaseFirewallShape, DiscardRecordShape, LookBeforeDisableShape,
     LookBeforeEnableShape, RecheckShape, ReconcileShape, CollectShape
  DEF JobStep

\* The types of what a job changes.
HostTyped == fw \in OrNone(Route) /\ nm \in Profile /\ disk \in Disk

\* One call of the retarget keeps the table a route.
LEMMA UpdateType ==
  ASSUME NEW f \in Route, NEW u \in Update
  PROVE  [f EXCEPT ![u.field] = u.to] \in Route
  BY DEF Route, Update

\* What a job does to the table.
LEMMA TableType ==
  ASSUME ShapeInv, NEW w \in Workers,
         EnableFirewall(w) \/ Retarget(w) \/ ReleaseFirewall(w)
  PROVE  HostTyped'
<1>1. fw \in OrNone(Route) /\ nm \in Profile /\ disk \in Disk /\ job[w] \in Job
  BY DEF ShapeInv, TypeOK
<1>2. CASE EnableFirewall(w)
  BY <1>1, <1>2 DEF EnableFirewall, HostTyped, Job, OrNone
<1>3. CASE Retarget(w)
  <2>1. Head(job[w].todo) \in Update
    BY <1>1, <1>3 DEF Retarget, Job
  <2>2. fw' \in OrNone(Route)
    BY <1>1, <1>3, <2>1, UpdateType DEF Retarget, OrNone
  <2> QED BY <1>1, <1>3, <2>2 DEF Retarget, HostTyped
<1>4. CASE ReleaseFirewall(w)
  BY <1>1, <1>4 DEF ReleaseFirewall, HostTyped, OrNone
<1> QED BY <1>2, <1>3, <1>4

\* What a job does to the profile: the endpoint of a started VPN is one of its route.
LEMMA ProfileType ==
  ASSUME ShapeInv, NEW w \in Workers,
         StopVpn(w) \/ StartVpn(w) \/ ReconnectVpn(w) \/ Rollback(w)
  PROVE  HostTyped'
<1>1. fw \in OrNone(Route) /\ nm \in Profile /\ disk \in Disk /\ job[w] \in Job
  BY DEF ShapeInv, TypeOK
<1>2. Down(nm) \in Profile /\ NoProfile \in Profile
  BY <1>1 DEF Down, NoProfile, Profile, OrNone
<1>3. CASE StopVpn(w) \/ Rollback(w)
  BY <1>1, <1>2, <1>3 DEF StopVpn, Rollback, HostTyped
<1>4. CASE ReconnectVpn(w)
  BY <1>1, <1>4 DEF ReconnectVpn, HostTyped, Profile
<1>5. CASE StartVpn(w)
  <2> DEFINE to == IF Is(w, {"switch"}) THEN job[w].target ELSE job[w].route
             new(u) == [uuid |-> u, ep |-> TheEndpoint(to), up |-> TRUE]
  <2>1. to \in Route /\ to.eps # {}
    BY <1>1, <1>5, JobShape DEF StartVpn, At, Is, Shaped, Carries, Job, OrNone
  <2>2. TheEndpoint(to) \in Endpoints
    BY <2>1 DEF TheEndpoint, Route
  <2>3. ASSUME NEW u \in Uuids PROVE new(u) \in Profile /\ Down(new(u)) \in Profile
    BY <2>2 DEF Profile, OrNone, Down
  <2>4. nm' \in Profile
    BY <1>1, <1>2, <1>5, <2>3 DEF StartVpn
  <2> QED BY <1>1, <1>5, <2>4 DEF StartVpn, HostTyped
<1> QED BY <1>3, <1>4, <1>5

\* What a job does to the disk.
LEMMA DiskType ==
  ASSUME ShapeInv, NEW w \in Workers, SaveRecord(w) \/ DiscardRecord(w)
  PROVE  HostTyped'
<1>1. fw \in OrNone(Route) /\ nm \in Profile /\ disk \in Disk /\ job[w] \in Job
  BY DEF ShapeInv, TypeOK
<1>2. CASE SaveRecord(w)
  <2>1. RecordOf(job[w].uuid, job[w].route) \in Record
    BY <1>1, <1>2, JobShape
       DEF SaveRecord, At, Shaped, Placed, Carries, Job, Kinds, OrNone, RecordOf, Record
  <2> QED BY <1>1, <1>2, <2>1 DEF SaveRecord, HostTyped, Disk, OrNone
<1>3. CASE DiscardRecord(w)
  BY <1>1, <1>3 DEF DiscardRecord, HostTyped, Disk, OrNone
<1> QED BY <1>2, <1>3

\* Every step of a job leaves everything well formed.
LEMMA JobStepShape ==
  ASSUME ShapeInv, NEW w \in Workers, JobStep(w)
  PROVE  ShapeInv'
<1>1. job' \in [Workers -> Job] /\ AllShaped'
  BY JobStepMoves, MovedShape
<1>2. HostTyped'
  <2>1. HostTyped
    BY DEF ShapeInv, TypeOK, HostTyped
  <2> QED
    BY <2>1, TableType, ProfileType, DiskType
    DEF JobStep, HostTyped, PrepareConnect, PrepareSwitch, VerifyLock, ReconnectPath,
        SwitchPath, ProbeBlocked, Retargeted, PostCheck, LookBeforeDisable,
        LookBeforeEnable, Recheck, Reconcile, Collect
<1>3. gui' = gui
  BY DEF JobStep, PrepareConnect, PrepareSwitch, EnableFirewall, VerifyLock, ReconnectPath,
     SwitchPath, StopVpn, ProbeBlocked, Retarget, Retargeted, StartVpn, ReconnectVpn,
     PostCheck, Rollback, SaveRecord, ReleaseFirewall, DiscardRecord, LookBeforeDisable,
     LookBeforeEnable, Recheck, Reconcile, Collect
<1> QED BY <1>1, <1>2, <1>3 DEF ShapeInv, TypeOK, HostTyped

(***************************************************************************)
(* Handlers of the window.                                                  *)
(***************************************************************************)
\* A refresh keeps window and disk well formed.
LEMMA RefreshType ==
  ASSUME ShapeInv, NEW g \in Gui, NEW d \in Disk, Refresh(g, d)
  PROVE  gui' \in Gui /\ disk' \in Disk
<1>1. nm.up \in BOOLEAN
  BY DEF ShapeInv, TypeOK, Profile
<1>2. gui' \in Gui
  BY <1>1 DEF Refresh, Gui
<1>3. ASSUME d.saved # None, g.plan # None
      PROVE  [d EXCEPT !.record = RecordOf(d.saved, g.plan)] \in Disk
  <2>1. RecordOf(d.saved, g.plan) \in Record
    BY <1>3 DEF Gui, Disk, OrNone, RecordOf, Record
  <2> QED BY <2>1 DEF Disk, OrNone
<1>4. disk' \in Disk
  BY <1>3 DEF Refresh, BlockingRecords
<1> QED BY <1>2, <1>4

\* Where a job of each kind begins.
Opening(kind, pc) ==
  \/ kind \in {"connect", "switch"} /\ pc = "prepare"
  \/ kind \in {"reconnect", "disconnect"} /\ pc = "lock"
  \/ kind \in {"disable", "enable", "recheck", "reconcile"} /\ pc = "look"
  \/ kind = "reset" /\ pc = "stop"

\* A job that starts, with a profile or told to quit, is well formed.
LEMMA FreshShape ==
  ASSUME NEW kind, NEW pc, NEW base \in BOOLEAN, NEW route \in OrNone(Route),
         NEW uuid \in OrNone(Uuids),
         Opening(kind, pc), kind \in {"reconnect", "switch"} => route # None,
         kind = "reconnect" => uuid # None,
         NEW j, \/ j = [NoJob EXCEPT !.kind = kind, !.pc = pc, !.base = base, !.route = route,
                                     !.uuid = uuid]
                \/ kind # "reconnect" /\ j = [NoJob EXCEPT !.kind = kind, !.pc = pc,
                                        !.base = base, !.route = route, !.quit = TRUE]
  PROVE  j \in Job /\ Shaped(j) /\ j.kind # "none"
<1>1. kind \in Kinds /\ pc \in Pcs /\ None \in OrNone(Route) /\ None \in OrNone(Dispositions)
        /\ None \in OrNone(Uuids)
  BY DEF Opening, Kinds, Pcs, OrNone
<1>2. <<>> \in Seq(Update)
  OBVIOUS
<1>3. j \in Job
  <2>1. [NoJob EXCEPT !.kind = kind, !.pc = pc, !.base = base, !.route = route,
                      !.uuid = uuid] \in Job
    BY <1>1, <1>2 DEF Job, NoJob
  <2>2. [NoJob EXCEPT !.kind = kind, !.pc = pc, !.base = base, !.route = route,
                      !.quit = TRUE] \in Job
    BY <1>1, <1>2 DEF Job, NoJob
  <2> QED BY <2>1, <2>2
<1>4. j.kind = kind /\ j.pc = pc /\ j.route = route /\ ~j.gone
        /\ (kind = "reconnect" => j.uuid = uuid)
  BY DEF NoJob
<1>5. Shaped(j)
  BY <1>4 DEF Opening, Shaped, Placed, Carries, Gone, Won, ConnectionKinds
<1> QED BY <1>3, <1>4, <1>5 DEF Opening

\* The idle worker is well formed.
LEMMA NoJobShape == NoJob \in Job /\ Shaped(NoJob)
<1>1. None \in OrNone(Route) /\ None \in OrNone(Dispositions) /\ None \in OrNone(Uuids)
  BY DEF OrNone
<1>2. NoJob \in Job
  BY <1>1 DEF NoJob, Job, Pcs
<1> QED BY <1>2 DEF NoJob, Shaped, Placed, Carries, Gone, Won, ConnectionKinds

\* Some idle worker takes a job that is well formed.
Begins ==
  \E w \in Workers, j \in Job :
    job[w].kind = "none" /\ Shaped(j) /\ j.kind # "none" /\ Put(w, j)

\* A job that begins leaves all well formed.
LEMMA BeginsShape ==
  ASSUME ShapeInv, Begins
  PROVE  job' \in [Workers -> Job] /\ AllShaped'
  BY PutShape DEF Begins

\* A started job is such a job,
LEMMA StartBegins ==
  ASSUME ShapeInv, NEW kind, NEW pc, NEW base \in BOOLEAN, NEW route \in OrNone(Route),
         Opening(kind, pc), kind \in {"reconnect", "switch"} => route # None,
         kind = "reconnect" => disk.saved # None, Start(kind, pc, base, route)
  PROVE  Begins
<1>1. PICK w \in Workers :
        job[w].kind = "none" /\
        Put(w, [NoJob EXCEPT !.kind = kind, !.pc = pc, !.base = base, !.route = route,
                             !.uuid = IF kind = "reconnect" THEN disk.saved ELSE None])
  BY DEF Start
<1> DEFINE uuid == IF kind = "reconnect" THEN disk.saved ELSE None
           j == [NoJob EXCEPT !.kind = kind, !.pc = pc, !.base = base, !.route = route,
                              !.uuid = uuid]
<1>2. uuid \in OrNone(Uuids) /\ (kind = "reconnect" => uuid # None)
  BY DEF ShapeInv, TypeOK, Disk, OrNone
<1>3. j \in Job /\ Shaped(j) /\ j.kind # "none"
  <2> HIDE DEF uuid
  <2> QED BY <1>2, FreshShape
<1> QED BY <1>1, <1>3 DEF Begins

\* also one that quits the window afterwards.
LEMMA StartQuittingBegins ==
  ASSUME ShapeInv, NEW kind, NEW pc, NEW base \in BOOLEAN, NEW route \in OrNone(Route),
         Opening(kind, pc), kind \in {"disconnect", "recheck"},
         StartQuitting(kind, pc, base, route)
  PROVE  Begins
<1>1. PICK w \in Workers :
        job[w].kind = "none" /\
        Put(w, [NoJob EXCEPT !.kind = kind, !.pc = pc, !.base = base, !.route = route,
                             !.quit = TRUE])
  BY DEF StartQuitting
<1> DEFINE j == [NoJob EXCEPT !.kind = kind, !.pc = pc, !.base = base, !.route = route,
                              !.quit = TRUE]
<1>2. None \in OrNone(Uuids)
  BY DEF OrNone
<1>3. j \in Job /\ Shaped(j) /\ j.kind # "none"
  BY <1>2, FreshShape
<1> QED BY <1>1, <1>3 DEF Begins

\* A handler that starts a reconnect.
LEMMA ReconnectStartsShape ==
  ASSUME ShapeInv, NEW g \in Gui, ReconnectStarts(g)
  PROVE  Begins /\ gui' \in Gui /\ disk' = disk
<1>1. g.baseline \in BOOLEAN /\ g.plan \in OrNone(Route)
  BY DEF Gui
<1>2. Opening("reconnect", "lock")
  BY DEF Opening
<1>3. Begins
  BY <1>1, <1>2, StartBegins DEF ReconnectStarts, HasContext
<1> QED BY <1>3 DEF ReconnectStarts, Gui

\* Handlers of the user that may start a job.
LEMMA UserStartsShape ==
  ASSUME ShapeInv,
         ClickReconnect \/ ClickRecheck \/ ClickConnect \/ ConfirmSwitch \/ ClickDisconnect
           \/ ClickPreference \/ ConfirmReset
  PROVE  (Begins \/ job' = job) /\ gui' \in Gui /\ disk' \in Disk
<1>1. gui \in Gui /\ disk \in Disk /\ gui.baseline \in BOOLEAN /\ gui.plan \in OrNone(Route)
        /\ None \in OrNone(Route)
  BY DEF ShapeInv, TypeOK, Gui, OrNone
<1>2. CASE ClickReconnect
  BY <1>1, <1>2, ReconnectStartsShape DEF ClickReconnect
<1>3. CASE ClickRecheck
  <2>1. Begins
    BY <1>1, <1>3, StartBegins DEF ClickRecheck, Opening
  <2> QED BY <1>1, <1>3, <2>1 DEF ClickRecheck, Gui
<1>4. CASE ClickConnect
  <2>1. Begins
    BY <1>1, <1>4, StartBegins DEF ClickConnect, Opening
  <2> QED BY <1>1, <1>4, <2>1 DEF ClickConnect, Gui, Disk
<1>5. CASE ConfirmSwitch
  <2> DEFINE g == [gui EXCEPT !.dialog = "none"]
  <2>1. g \in Gui /\ g.plan = gui.plan
    BY <1>1 DEF Gui
  <2>2. CASE HasContext(g, disk) /\ gui' = [g EXCEPT !.busy = TRUE]
               /\ Start("switch", "prepare", TRUE, g.plan)
    <3>1. Begins
      <4>1. g.plan \in OrNone(Route) /\ g.plan # None
        BY <1>1, <2>1, <2>2 DEF HasContext
      <4> HIDE DEF g
      <4> QED BY <2>2, <4>1, StartBegins DEF Opening
    <3> QED BY <1>1, <1>5, <2>1, <2>2, <3>1 DEF ConfirmSwitch, Gui
  <2>3. CASE gui' = g /\ UNCHANGED job
    BY <1>1, <1>5, <2>1, <2>3 DEF ConfirmSwitch
  <2> QED BY <1>5, <2>2, <2>3 DEF ConfirmSwitch
<1>6. CASE ClickDisconnect
  <2>1. Begins
    BY <1>1, <1>6, StartBegins DEF ClickDisconnect, Opening
  <2> QED BY <1>1, <1>6, <2>1 DEF ClickDisconnect, Gui
<1>7. CASE ClickPreference
  <2>1. Begins
    BY <1>1, <1>7, StartBegins DEF ClickPreference, Opening
  <2> QED BY <1>1, <1>7, <2>1 DEF ClickPreference, Gui
<1>8. CASE ConfirmReset
  <2>1. Start("reset", "stop", FALSE, None) => Begins
    BY <1>1, StartBegins DEF Opening
  <2> QED BY <1>1, <1>8, <2>1 DEF ConfirmReset, Gui
<1> QED BY <1>2, <1>3, <1>4, <1>5, <1>6, <1>7, <1>8

\* An exit leaves a window and jobs as new.
LEMMA ExitShape ==
  ASSUME ShapeInv, NEW d \in Disk, Exit(d)
  PROVE  ShapeInv'
<1>1. NewGui \in Gui
  BY DEF NewGui, Gui, OrNone
<1> QED BY <1>1, NoJobShape DEF ShapeInv, TypeOK, AllShaped, Exit

\* Asking to quit, and confirming it.
LEMMA QuitShape ==
  ASSUME ShapeInv, ClickQuit \/ ConfirmQuit
  PROVE  ShapeInv'
<1>1. gui \in Gui /\ disk \in Disk /\ gui.plan \in OrNone(Route) /\ None \in OrNone(Route)
        /\ fw \in OrNone(Route) /\ nm \in Profile /\ job \in [Workers -> Job]
  BY DEF ShapeInv, TypeOK, Gui, OrNone
<1>2. CASE ClickQuit
  <2>1. CASE Exit(disk)
    BY <1>1, <2>1, ExitShape
  <2>2. CASE ~Exit(disk)
    <3>1. StartQuitting("recheck", "look", FALSE, None) => Begins
      BY <1>1, StartQuittingBegins DEF Opening
    <3> QED BY <1>1, <1>2, <2>2, <3>1, BeginsShape
       DEF ClickQuit, ShapeInv, TypeOK, AllShaped, Gui
  <2> QED BY <2>1, <2>2
<1>3. CASE ConfirmQuit
  <2>1. StartQuitting("disconnect", "lock", TRUE, gui.plan) => Begins
    BY <1>1, StartQuittingBegins DEF Opening
  <2> QED BY <1>1, <1>3, <2>1, BeginsShape DEF ConfirmQuit, ShapeInv, TypeOK, AllShaped, Gui
<1> QED BY <1>2, <1>3

\* Every handler of the user leaves everything well formed.
LEMMA UserShape ==
  ASSUME ShapeInv, User
  PROVE  ShapeInv'
<1>1. gui \in Gui /\ disk \in Disk /\ fw \in OrNone(Route) /\ nm \in Profile
        /\ job \in [Workers -> Job]
  BY DEF ShapeInv, TypeOK
<1>2. CASE ClickQuit \/ ConfirmQuit
  BY <1>2, QuitShape
<1>3. CASE ClickSwitch \/ ClickReset \/ AnswerRecoveryFailure
  <2>1. UNCHANGED <<fw, nm, disk, job>>
    BY <1>3 DEF ClickSwitch, ClickReset, AnswerRecoveryFailure
  <2>2. gui' \in Gui
    BY <1>1, <1>3 DEF ClickSwitch, ClickReset, AnswerRecoveryFailure, Gui
  <2> QED BY <1>1, <2>1, <2>2 DEF ShapeInv, TypeOK, AllShaped
<1>4. CASE ClickReconnect \/ ClickRecheck \/ ClickConnect \/ ConfirmSwitch \/ ClickDisconnect
             \/ ClickPreference \/ ConfirmReset
  <2>1. UNCHANGED <<fw, nm>>
    BY <1>4 DEF ClickReconnect, ClickRecheck, ClickConnect, ConfirmSwitch, ClickDisconnect,
                ClickPreference, ConfirmReset
  <2>2. (Begins \/ job' = job) /\ gui' \in Gui /\ disk' \in Disk
    BY <1>4, UserStartsShape
  <2> QED BY <1>1, <2>1, <2>2, BeginsShape DEF ShapeInv, TypeOK, AllShaped
<1> QED BY <1>2, <1>3, <1>4 DEF User

\* The timers, the poll and a lost tunnel leave everything well formed.
LEMMA TimerShape ==
  ASSUME ShapeInv, Poll \/ ReconnectTimer \/ ReconcileAtStartup \/ TunnelLost
  PROVE  ShapeInv'
<1>1. gui \in Gui /\ disk \in Disk /\ fw \in OrNone(Route) /\ nm \in Profile
        /\ job \in [Workers -> Job] /\ None \in OrNone(Route)
  BY DEF ShapeInv, TypeOK, OrNone
<1>2. CASE Poll
  BY <1>1, <1>2, RefreshType DEF Poll, ShapeInv, TypeOK, AllShaped
<1>3. CASE ReconnectTimer
  <2> DEFINE g == [gui EXCEPT !.scheduled = FALSE]
  <2>1. g \in Gui /\ [g EXCEPT !.last = TRUE] \in Gui
    BY <1>1 DEF Gui
  <2>2. UNCHANGED <<fw, nm>>
    BY <1>3 DEF ReconnectTimer
  <2>3. (Begins \/ job' = job) /\ gui' \in Gui /\ disk' \in Disk
    <3>1. CASE ReconnectStarts(g)
      BY <1>1, <2>1, <3>1, ReconnectStartsShape
    <3>2. CASE Refresh([g EXCEPT !.last = TRUE], disk) /\ UNCHANGED job
      BY <1>1, <2>1, <3>2, RefreshType
    <3>3. CASE gui' = g /\ UNCHANGED <<disk, job>>
      BY <1>1, <2>1, <3>3
    <3> QED BY <1>3, <3>1, <3>2, <3>3 DEF ReconnectTimer
  <2> QED BY <1>1, <2>2, <2>3, BeginsShape DEF ShapeInv, TypeOK, AllShaped
<1>4. CASE ReconcileAtStartup
  <2>1. Start("reconcile", "look", FALSE, None) => Begins
    BY <1>1, StartBegins DEF Opening
  <2>2. /\ [gui EXCEPT !.started = TRUE] \in Gui
        /\ [gui EXCEPT !.started = TRUE, !.busy = TRUE] \in Gui
    BY <1>1 DEF Gui
  <2>3. UNCHANGED <<fw, nm, disk>> /\ (Begins \/ job' = job) /\ gui' \in Gui
    BY <1>4, <2>1, <2>2 DEF ReconcileAtStartup
  <2> QED BY <1>1, <2>3, BeginsShape DEF ShapeInv, TypeOK, AllShaped
<1>5. CASE TunnelLost
  BY <1>1, <1>5 DEF TunnelLost, Down, Profile, ShapeInv, TypeOK, AllShaped
<1> QED BY <1>2, <1>3, <1>4, <1>5

(***************************************************************************)
(* Slots of a finished job.                                                 *)
(***************************************************************************)
\* What a slot does: it takes the outcome of a finished job; the window shows g,
\* which is not busy, the disk is d, the worker is idle again.
Quiet == {g \in Gui : g.busy = FALSE}
Shows(w, g, d) == At(w, "done") /\ g \in Quiet /\ d \in Disk /\ Refresh(g, d) /\ Taken(w)

\* Or the window is gone.
Ends(w) ==
  /\ job[w].kind # "none" /\ job[w].pc = "done" /\ UNCHANGED <<fw, nm>>
  /\ \/ \E d : Exit(d)
     \/ Put(w, NoJob) /\ gui'.busy = FALSE

\* A refresh is about neither flag nor dialog.
LEMMA RefreshKeeps ==
  ASSUME NEW g \in Gui, NEW d, Refresh(g, d)
  PROVE  /\ gui'.busy = g.busy /\ gui'.dialog = g.dialog /\ gui'.st = g.st /\ gui'.err = g.err
         /\ gui'.plan = g.plan
         /\ disk' = d \/ (~g.busy /\ d.saved # None /\ g.plan # None
                            /\ disk' = [d EXCEPT !.record = RecordOf(d.saved, g.plan)])
  BY DEF Refresh, Gui, LossSeen, BlockingRecords

\* Such a slot keeps the invariant.
LEMMA ShowsShape ==
  ASSUME ShapeInv, NEW w \in Workers, NEW g, NEW d, Shows(w, g, d)
  PROVE  ShapeInv' /\ Ends(w)
<1>1. gui' \in Gui /\ disk' \in Disk
  BY RefreshType DEF Shows, Quiet
<1>2. job' \in [Workers -> Job] /\ AllShaped'
  BY NoJobShape, PutShape DEF Shows, Taken
<1>3. gui'.busy = FALSE
  BY RefreshKeeps DEF Shows, Quiet
<1> QED BY <1>1, <1>2, <1>3 DEF Shows, Ends, Taken, At, ShapeInv, TypeOK

\* What the slots show is a window.
LEMMA ShownType ==
  ASSUME ShapeInv, NEW w \in Workers
  PROVE  /\ Idle(w) \in Quiet /\ Shown(w) \in Quiet /\ Protected(w) \in Quiet
         /\ Released(w) \in Quiet /\ RecoveryFailure(w) \in Quiet
<1>1. gui \in Gui /\ job[w] \in Job
  BY DEF ShapeInv, TypeOK
<1>2. Idle(w) \in Quiet
  BY <1>1 DEF Idle, Gui, Quiet
<1>3. Shown(w) \in Quiet
  BY <1>1, <1>2 DEF Shown, Gui, Quiet, Job
<1>4. Protected(w) \in Quiet /\ RecoveryFailure(w) \in Quiet
  BY <1>1, <1>3 DEF Protected, RecoveryFailure, Gui, Quiet, Job
<1>5. Released(w) \in Quiet
  BY <1>3 DEF Released, Gui, Quiet, OrNone
<1> QED BY <1>2, <1>3, <1>4, <1>5

\* The slots of a connection.
LEMMA ConnectionSlotShape ==
  ASSUME ShapeInv, NEW w \in Workers,
         Connected(w) \/ ConnectFailed(w) \/ ReconnectFailed(w) \/ SwitchFailed(w)
  PROVE  ShapeInv' /\ Ends(w)
<1>1. /\ disk \in Disk /\ job[w].uuid \in OrNone(Uuids) /\ job[w].route \in OrNone(Route)
      /\ job[w].base \in BOOLEAN /\ None \in OrNone(Uuids)
  BY DEF ShapeInv, TypeOK, Job, OrNone
<1>2. Shown(w) \in Quiet /\ Protected(w) \in Quiet
  BY ShownType
<1>3. [disk EXCEPT !.saved = job[w].uuid] \in Disk /\ [disk EXCEPT !.saved = None] \in Disk
  BY <1>1 DEF Disk
<1>4. CASE Connected(w)
  BY <1>2, <1>3, <1>4, ShowsShape DEF Connected, Finished, Shows
<1>5. CASE ConnectFailed(w)
  <2>1. [Shown(w) EXCEPT !.baseline = job[w].base, !.plan = job[w].route] \in Quiet
    BY <1>1, <1>2 DEF Gui, Quiet
  <2> QED BY <1>1, <1>5, <2>1, ShowsShape DEF ConnectFailed, Finished, Shows
<1>6. CASE ReconnectFailed(w)
  <2>1. [Shown(w) EXCEPT !.plan = job[w].route, !.last = FALSE] \in Quiet
    BY <1>1, <1>2 DEF Gui, Quiet
  <2> QED BY <1>1, <1>6, <2>1, ShowsShape DEF ReconnectFailed, Finished, Shows
<1>7. CASE SwitchFailed(w)
  <2> DEFINE g == [Shown(w) EXCEPT !.plan = job[w].route]
  <2>1. g \in Quiet /\ [g EXCEPT !.last = TRUE] \in Quiet /\ [g EXCEPT !.last = FALSE] \in Quiet
    BY <1>1, <1>2 DEF Gui, Quiet
  <2> HIDE DEF g
  <2> QED BY <1>1, <1>3, <1>7, <2>1, ShowsShape DEF SwitchFailed, Finished, Shows, g
<1> QED BY <1>4, <1>5, <1>6, <1>7

\* What is cleared once the lock is gone leaves a disk.
LEMMA ClearedType ==
  ASSUME NEW d \in Disk, NEW c \in ClearedRecords(d)
  PROVE  c \in Disk
  BY DEF ClearedRecords, Disk, OrNone

\* The lock is absent: a quit goes on, or the window shows it.
LEMMA UnlockedShape ==
  ASSUME ShapeInv, NEW w \in Workers, Unlocked(w), At(w, "done")
  PROVE  ShapeInv' /\ Ends(w)
<1>1. [disk EXCEPT !.saved = None] \in Disk
  BY DEF ShapeInv, TypeOK, Disk, OrNone
<1>2. PICK d \in ClearedRecords([disk EXCEPT !.saved = None]) :
        \/ job[w].quit /\ Exit(d)
        \/ ~job[w].quit /\ Refresh(Released(w), d) /\ Taken(w)
  BY DEF Unlocked
<1>3. d \in Disk
  BY <1>1, ClearedType
<1> QED BY <1>2, <1>3, ExitShape, ShowsShape, ShownType DEF Shows, Ends, At, Exit

\* The slots of a disconnect, of the preference and of the reset.
LEMMA ReleaseSlotShape ==
  ASSUME ShapeInv, NEW w \in Workers,
         \/ Disconnected(w) \/ DisconnectFailed(w) \/ PreferenceDisabled(w)
         \/ PreferenceDisableFailed(w) \/ PreferenceEnabled(w) \/ PreferenceEnableFailed(w)
         \/ ResetDone(w)
  PROVE  ShapeInv' /\ Ends(w)
<1>1. gui \in Gui /\ disk \in Disk
  BY DEF ShapeInv, TypeOK
<1>2. Idle(w) \in Quiet /\ Shown(w) \in Quiet /\ Released(w) \in Quiet
  BY ShownType
<1>3. /\ [disk EXCEPT !.saved = None] \in Disk
      /\ [disk EXCEPT !.enabled = TRUE] \in Disk
      /\ [disk EXCEPT !.enabled = FALSE] \in Disk
      /\ [disk EXCEPT !.enabled = TRUE, !.marker = FALSE] \in Disk
      /\ [disk EXCEPT !.marker = FALSE, !.saved = None] \in Disk
  BY <1>1 DEF Disk, OrNone
<1>4. CASE Disconnected(w)
  BY <1>4, UnlockedShape DEF Disconnected, Finished
<1>5. CASE DisconnectFailed(w)
  BY <1>1, <1>2, <1>3, <1>5, ShowsShape DEF DisconnectFailed, Finished, Shows
<1>6. CASE PreferenceDisabled(w)
  <2>1. [Released(w) EXCEPT !.last = gui.last] \in Quiet
    BY <1>1, <1>2 DEF Gui, Quiet
  <2> QED BY <1>3, <1>6, <2>1, ClearedType, ShowsShape DEF PreferenceDisabled, Finished, Shows
<1>7. CASE PreferenceDisableFailed(w)
  BY <1>2, <1>3, <1>7, ShowsShape DEF PreferenceDisableFailed, Finished, Shows
<1>8. CASE PreferenceEnabled(w)
  BY <1>2, <1>3, <1>8, ShowsShape DEF PreferenceEnabled, Finished, Shows
<1>9. CASE PreferenceEnableFailed(w)
  <2>1. [Idle(w) EXCEPT !.st = "none", !.err = FALSE] \in Quiet
    BY <1>2 DEF Gui, Quiet
  <2> QED BY <1>2, <1>3, <1>9, <2>1, ShowsShape DEF PreferenceEnableFailed, Finished, Shows
<1>10. CASE ResetDone(w)
  BY <1>2, <1>3, <1>10, ShowsShape DEF ResetDone, Finished, Shows
<1> QED BY <1>4, <1>5, <1>6, <1>7, <1>8, <1>9, <1>10

\* The slots of a recheck and of a failed reset.
LEMMA RecheckSlotShape ==
  ASSUME ShapeInv, NEW w \in Workers, StatusUnknown(w) \/ Rechecked(w)
  PROVE  ShapeInv' /\ Ends(w)
<1>1. disk \in Disk /\ Idle(w) \in Quiet /\ Shown(w) \in Quiet
  BY ShownType DEF ShapeInv, TypeOK
<1>2. [Idle(w) EXCEPT !.err = TRUE] \in Quiet
  BY <1>1 DEF Gui, Quiet
<1>3. CASE StatusUnknown(w)
  BY <1>1, <1>2, <1>3, ShowsShape DEF StatusUnknown, Finished, Shows
<1>4. CASE Rechecked(w)
  BY <1>1, <1>4, UnlockedShape, ShowsShape DEF Rechecked, Finished, Shows
<1> QED BY <1>3, <1>4

\* The record the end of a reconciliation writes.
NewRecord(w) ==
  IF Adopted(job[w].out) THEN RecordOf(job[w].uuid, job[w].route)
  ELSE IF job[w].out = "clear-stale-record" THEN None ELSE disk.record

\* The slots of a reconciliation.
LEMMA ReconcileSlotShape ==
  ASSUME ShapeInv, NEW w \in Workers, Reconciled(w) \/ HandoffFailed(w) \/ ReconcileFailed(w)
  PROVE  ShapeInv' /\ Ends(w)
<1>1. /\ disk \in Disk /\ job[w] \in Job /\ Shaped(job[w])
      /\ Released(w) \in Quiet /\ Protected(w) \in Quiet /\ RecoveryFailure(w) \in Quiet
  BY JobShape, ShownType DEF ShapeInv, TypeOK
<1>2. CASE ReconcileFailed(w)
  BY <1>1, <1>2, ShowsShape DEF ReconcileFailed, Finished, Shows
<1>3. CASE Reconciled(w) \/ HandoffFailed(w)
  <2> DEFINE d == [disk EXCEPT !.record = NewRecord(w)]
  <2>1. NewRecord(w) \in OrNone(Record)
    <3>1. Adopted(job[w].out) => job[w].uuid \in Uuids /\ job[w].route \in Route
      BY <1>1, <1>3
         DEF Reconciled, HandoffFailed, Finished, At, Shaped, Carries, Won, Job, OrNone
    <3> QED BY <1>1, <3>1 DEF NewRecord, RecordOf, Record, OrNone, Disk
  <2>2. d \in Disk
    BY <1>1, <2>1 DEF Disk
  <2>3. CASE HandoffFailed(w)
    BY <1>1, <2>2, <2>3, ShowsShape DEF HandoffFailed, Finished, NewRecord, Shows
  <2>4. CASE Reconciled(w)
    <3>1. /\ [d EXCEPT !.marker = FALSE, !.saved = None] \in Disk
          /\ [d EXCEPT !.marker = TRUE, !.enabled = TRUE, !.saved = job[w].uuid] \in Disk
          /\ [d EXCEPT !.enabled = @ \/ job[w].st = "active"] \in Disk
          /\ [Protected(w) EXCEPT !.last = job[w].out = "adopt-connected"] \in Quiet
      <4> HIDE DEF d
      <4>1. job[w].uuid \in OrNone(Uuids) /\ None \in OrNone(Uuids)
        BY <1>1 DEF Job, OrNone
      <4>2. ASSUME NEW b \in BOOLEAN
            PROVE  [d EXCEPT !.enabled = b] \in Disk /\ [Protected(w) EXCEPT !.last = b] \in Quiet
        BY <1>1, <2>2 DEF Disk, Gui, Quiet
      <4>3. (d.enabled \/ job[w].st = "active") \in BOOLEAN
            /\ (job[w].out = "adopt-connected") \in BOOLEAN
        OBVIOUS
      <4>4. /\ [d EXCEPT !.enabled = @ \/ job[w].st = "active"] \in Disk
            /\ [Protected(w) EXCEPT !.last = job[w].out = "adopt-connected"] \in Quiet
        BY <4>2, <4>3
      <4> QED BY <2>2, <4>1, <4>4 DEF Disk
    <3> QED BY <1>1, <2>4, <3>1, ShowsShape DEF Reconciled, Finished, NewRecord, Shows
  <2> QED BY <1>3, <2>3, <2>4
<1> QED BY <1>2, <1>3

\* Every slot leaves everything well formed.
LEMMA SlotShape ==
  ASSUME ShapeInv, NEW w \in Workers, Slot(w)
  PROVE  ShapeInv' /\ Ends(w)
  BY ConnectionSlotShape, ReleaseSlotShape, RecheckSlotShape, ReconcileSlotShape DEF Slot

\* The invariant holds at first,
LEMMA InitShape ==
  ASSUME Init PROVE ShapeInv
<1>1. NewGui \in Gui /\ NoProfile \in Profile /\ None \in OrNone(Route)
  BY DEF NewGui, Gui, NoProfile, Profile, OrNone
<1>2. ASSUME NEW e \in BOOLEAN
      PROVE  [record |-> None, marker |-> FALSE, saved |-> None, enabled |-> e] \in Disk
  BY DEF Disk, OrNone
<1> QED BY <1>1, <1>2, NoJobShape DEF Init, ShapeInv, TypeOK, AllShaped

\* and every step keeps it.
LEMMA NextShape ==
  ASSUME ShapeInv, [Next]_vars PROVE ShapeInv'
<1>1. CASE Crash
  BY <1>1, ExitShape DEF Crash, ShapeInv, TypeOK
<1>2. CASE UNCHANGED vars
  BY <1>2 DEF vars, ShapeInv, TypeOK, AllShaped
<1>3. CASE Step
  BY <1>3, JobStepShape, SlotShape, TimerShape, UserShape DEF Step
<1> QED BY <1>1, <1>2, <1>3 DEF Next

\* Types hold, and every job is well formed, in every state, with timers in
\* dialogs or without.
THEOREM WellFormed == Spec => []ShapeInv
  BY InitShape, NextShape, PTL DEF Spec

\* TypeOK of the runs, for every pool of workers and any data.
THEOREM TypeCorrect == Spec => []TypeOK
  BY WellFormed, PTL DEF ShapeInv

-----------------------------------------------------------------------------
(***************************************************************************)
(* One job at a time.                                                       *)
(***************************************************************************)
\* No job runs behind a modal dialog.
DialogsIdle == gui.dialog # "none" => ~gui.busy

\* The jobs, the busy flag and the dialogs agree.
Coord == OneJobAtATime /\ DialogsIdle

\* The invariant of this layer.
CoordInv == ShapeInv /\ Coord

\* Some idle worker takes a job.
Takes == \E w \in Workers : \E j : job[w].kind = "none" /\ j.kind # "none" /\ Put(w, j)

\* A handler that starts a job does so while the window is not busy, sets the
\* flag, and has closed its dialog.
LEMMA TakesCoord ==
  ASSUME CoordInv, Takes, ~gui.busy, gui'.busy, gui'.dialog = "none"
  PROVE  Coord'
<1>0. PICK w \in Workers : \E j : job[w].kind = "none" /\ j.kind # "none" /\ Put(w, j)
  BY DEF Takes
<1>1. PICK j : job[w].kind = "none" /\ j.kind # "none" /\ Put(w, j)
  BY <1>0
<1>2. job' \in [Workers -> Job \cup {j}] /\ job'[w] = j
      /\ \A v \in Workers : v # w => job'[v] = job[v]
  BY <1>1 DEF CoordInv, ShapeInv, TypeOK, Put
<1> QED BY <1>1, <1>2 DEF CoordInv, Coord, OneJobAtATime, DialogsIdle

\* Starting a job is one.
LEMMA StartTakes ==
  ASSUME NEW kind, NEW pc, NEW base, NEW route, kind # "none",
         Start(kind, pc, base, route) \/ StartQuitting(kind, pc, base, route)
  PROVE  Takes
  BY DEF Start, StartQuitting, Takes, NoJob

\* The only job ends, and the flag is given back.
LEMMA EndCoord ==
  ASSUME CoordInv, NEW w \in Workers, job[w].kind # "none", Put(w, NoJob), gui'.busy = FALSE
  PROVE  Coord'
<1>1. job'[w].kind = "none" /\ \A v \in Workers : v # w => job'[v] = job[v]
  BY DEF CoordInv, ShapeInv, TypeOK, Put, NoJob
<1> QED BY <1>1 DEF CoordInv, Coord, OneJobAtATime, DialogsIdle

\* Nothing starts or ends.
LEMMA SameCoord ==
  ASSUME CoordInv, job' = job, gui'.busy = gui.busy, gui'.dialog # "none" => ~gui.busy
  PROVE  Coord'
  BY DEF CoordInv, Coord, OneJobAtATime, DialogsIdle

\* A step of a job leaves the others and the window alone.
LEMMA JobStepWindow ==
  ASSUME NEW w \in Workers, JobStep(w)
  PROVE  gui' = gui
  BY DEF JobStep, PrepareConnect, PrepareSwitch, EnableFirewall, VerifyLock, ReconnectPath,
     SwitchPath, StopVpn, ProbeBlocked, Retarget, Retargeted, StartVpn, ReconnectVpn,
     PostCheck, Rollback, SaveRecord, ReleaseFirewall, DiscardRecord, LookBeforeDisable,
     LookBeforeEnable, Recheck, Reconcile, Collect

\* So a step of a job keeps their number.
LEMMA JobStepCoord ==
  ASSUME CoordInv, NEW w \in Workers, JobStep(w)
  PROVE  Coord'
<1>1. Moved(w) /\ gui' = gui
  BY JobStepMoves, JobStepWindow DEF CoordInv
<1>2. \A v \in Workers : job'[v].kind = job[v].kind
  BY <1>1 DEF CoordInv, ShapeInv, TypeOK, Moved
<1> QED BY <1>1, <1>2 DEF CoordInv, Coord, OneJobAtATime, DialogsIdle

\* A window that is gone has none.
LEMMA ExitCoord ==
  ASSUME NEW d, Exit(d)
  PROVE  Coord'
<1>1. gui'.busy = FALSE /\ gui'.dialog = "none" /\ \A w \in Workers : job'[w].kind = "none"
  BY DEF Exit, NewGui, NoJob
<1> QED BY <1>1 DEF Coord, OneJobAtATime, DialogsIdle

\* The user starts a job from an idle window only, and behind no dialog.
LEMMA UserCoord ==
  ASSUME CoordInv, User
  PROVE  Coord'
<1>1. gui \in Gui /\ (gui.dialog # "none" => ~gui.busy)
  BY DEF CoordInv, ShapeInv, TypeOK, Coord, DialogsIdle
<1>2. CASE ClickReconnect \/ ClickRecheck \/ ClickConnect \/ ClickDisconnect \/ ClickPreference
  <2>1. Takes
    BY <1>2, StartTakes DEF ClickReconnect, ReconnectStarts, ClickRecheck, ClickConnect,
                            ClickDisconnect, ClickPreference
  <2>2. ~gui.busy /\ gui' = [gui EXCEPT !.busy = TRUE] /\ gui.dialog = "none"
    BY <1>2 DEF ClickReconnect, ReconnectStarts, ClickRecheck, ClickConnect,
                ClickDisconnect, ClickPreference, UserActs
  <2> QED BY <1>1, <2>1, <2>2, TakesCoord DEF Gui
<1>3. CASE ConfirmSwitch \/ ConfirmReset \/ ConfirmQuit
  <2> DEFINE g == [gui EXCEPT !.dialog = "none"]
  <2>1. ~gui.busy
    BY <1>1, <1>3 DEF ConfirmSwitch, ConfirmReset, ConfirmQuit
  <2>2. g.dialog = "none" /\ g.busy = gui.busy /\ [g EXCEPT !.busy = TRUE].busy = TRUE
        /\ [g EXCEPT !.busy = TRUE].dialog = "none"
    BY <1>1 DEF Gui
  <2>3. \/ Takes /\ gui' = [g EXCEPT !.busy = TRUE]
        \/ job' = job /\ gui' = g
    BY <1>3, StartTakes DEF ConfirmSwitch, ConfirmReset, ConfirmQuit
  <2> HIDE DEF g
  <2> QED BY <2>1, <2>2, <2>3, TakesCoord, SameCoord
<1>4. CASE ClickSwitch \/ ClickReset \/ AnswerRecoveryFailure
  <2>1. job' = job /\ ~gui.busy
    BY <1>1, <1>4 DEF ClickSwitch, ClickReset, AnswerRecoveryFailure
  <2>2. gui'.busy = gui.busy
    BY <1>1, <1>4 DEF ClickSwitch, ClickReset, AnswerRecoveryFailure, Gui
  <2> QED BY <2>1, <2>2, SameCoord
<1>5. CASE ClickQuit
  <2>1. CASE Exit(disk)
    BY <2>1, ExitCoord
  <2>2. CASE /\ gui' = [gui EXCEPT !.busy = TRUE]
             /\ StartQuitting("recheck", "look", FALSE, None)
    BY <1>1, <1>5, <2>2, StartTakes, TakesCoord DEF ClickQuit, UserActs, Gui
  <2>3. CASE gui' = [gui EXCEPT !.dialog = "quit"] /\ UNCHANGED job
    BY <1>1, <1>5, <2>3, SameCoord DEF ClickQuit, Gui
  <2> QED BY <1>5, <2>1, <2>2, <2>3 DEF ClickQuit
<1> QED BY <1>2, <1>3, <1>4, <1>5 DEF User

\* The timers keep it, where they start no job behind a dialog.
LEMMA TimerCoord ==
  ASSUME CoordInv, DialogsIdle', Poll \/ ReconnectTimer \/ ReconcileAtStartup \/ TunnelLost
  PROVE  Coord'
<1>1. gui \in Gui
  BY DEF CoordInv, ShapeInv, TypeOK
<1>2. CASE Takes /\ ~gui.busy /\ gui'.busy = TRUE
  BY <1>2, TakesCoord DEF DialogsIdle
<1>3. CASE job' = job /\ gui'.busy = gui.busy
  BY <1>3 DEF CoordInv, Coord, OneJobAtATime
<1>4. CASE Poll
  BY <1>1, <1>3, <1>4, RefreshKeeps DEF Poll
<1>5. CASE ReconnectTimer
  <2> DEFINE g == [gui EXCEPT !.scheduled = FALSE]
  <2>1. /\ g \in Gui /\ g.busy = gui.busy
        /\ [g EXCEPT !.last = TRUE] \in Gui /\ [g EXCEPT !.last = TRUE].busy = gui.busy
    BY <1>1 DEF Gui
  <2>2. \/ ReconnectStarts(g)
        \/ Refresh([g EXCEPT !.last = TRUE], disk) /\ UNCHANGED job
        \/ gui' = g /\ UNCHANGED job
    BY <1>5 DEF ReconnectTimer
  <2> HIDE DEF g
  <2>3. CASE ReconnectStarts(g)
    <3>1. gui'.busy = TRUE
      BY <2>1, <2>3 DEF ReconnectStarts, Gui
    <3> QED BY <1>2, <2>1, <2>3, <3>1, StartTakes DEF ReconnectStarts
  <2>4. CASE Refresh([g EXCEPT !.last = TRUE], disk) /\ UNCHANGED job
    BY <1>3, <2>1, <2>4, RefreshKeeps
  <2>5. CASE gui' = g /\ UNCHANGED job
    BY <1>3, <2>1, <2>5
  <2> QED BY <2>2, <2>3, <2>4, <2>5
<1>6. CASE ReconcileAtStartup
  <2>1. /\ [gui EXCEPT !.started = TRUE, !.busy = TRUE].busy = TRUE
        /\ [gui EXCEPT !.started = TRUE].busy = gui.busy
    BY <1>1 DEF Gui
  <2> QED BY <1>2, <1>3, <1>6, <2>1, StartTakes DEF ReconcileAtStartup
<1>7. CASE TunnelLost
  BY <1>3, <1>7 DEF TunnelLost
<1> QED BY <1>4, <1>5, <1>6, <1>7

\* Timers that rest while a dialog is open start none.
LEMMA TimerIdle ==
  ASSUME CoordInv, ~JobsInDialogs, Poll \/ ReconnectTimer \/ ReconcileAtStartup \/ TunnelLost
  PROVE  DialogsIdle'
<1>1. gui \in Gui /\ (gui.dialog # "none" => ~gui.busy)
  BY DEF CoordInv, ShapeInv, TypeOK, Coord, DialogsIdle
<1>2. CASE Poll
  BY <1>1, <1>2, RefreshKeeps DEF Poll, DialogsIdle
<1>3. CASE ReconnectTimer
  <2> DEFINE g == [gui EXCEPT !.scheduled = FALSE]
  <2>1. /\ g \in Gui /\ g.dialog = "none"
        /\ [g EXCEPT !.last = TRUE] \in Gui /\ [g EXCEPT !.last = TRUE].dialog = "none"
    BY <1>1, <1>3 DEF ReconnectTimer, TimersRun, Gui
  <2>2. \/ gui' = [g EXCEPT !.busy = TRUE]
        \/ Refresh([g EXCEPT !.last = TRUE], disk)
        \/ gui' = g
    BY <1>3 DEF ReconnectTimer, ReconnectStarts
  <2> HIDE DEF g
  <2>3. gui'.dialog = "none"
    BY <2>1, <2>2, RefreshKeeps DEF Gui
  <2> QED BY <2>3 DEF DialogsIdle
<1>4. CASE ReconcileAtStartup
  BY <1>1, <1>4 DEF ReconcileAtStartup, TimersRun, DialogsIdle, Gui
<1>5. CASE TunnelLost
  BY <1>1, <1>5 DEF TunnelLost, DialogsIdle
<1> QED BY <1>2, <1>3, <1>4, <1>5

\* At first the window is idle,
LEMMA InitCoord ==
  ASSUME Init PROVE CoordInv
<1>1. Coord
  BY DEF Init, NewGui, NoJob, Coord, OneJobAtATime, DialogsIdle
<1> QED BY <1>1, InitShape DEF CoordInv

\* and every step but those of the timers leaves one job at most, and none behind a
\* dialog,
LEMMA OtherCoord ==
  ASSUME CoordInv, [Next]_vars, ~(Poll \/ ReconnectTimer \/ ReconcileAtStartup \/ TunnelLost)
  PROVE  Coord'
<1>1. ASSUME NEW w \in Workers, Slot(w) PROVE Coord'
  <2>1. Ends(w)
    BY <1>1, SlotShape DEF CoordInv
  <2>2. \A d : Exit(d) => Coord'
    BY ExitCoord
  <2> QED BY <2>1, <2>2, EndCoord DEF Ends
<1>2. CASE Crash
  BY <1>2, ExitCoord DEF Crash
<1>3. CASE UNCHANGED vars
  BY <1>3 DEF vars, CoordInv, Coord, OneJobAtATime, DialogsIdle
<1> QED BY <1>1, <1>2, <1>3, JobStepCoord, UserCoord DEF Next, Step

\* whatever the timers do, as long as they start nothing behind a dialog.
LEMMA NextCoord ==
  ASSUME CoordInv, DialogsIdle', [Next]_vars PROVE CoordInv'
  BY OtherCoord, TimerCoord, NextShape DEF CoordInv

\* OneJobAtATime, in every behaviour in which no timer starts a job behind a dialog:
\* the flag alone keeps the jobs apart there.
THEOREM JobsAreExclusive == Spec /\ []DialogsIdle => []OneJobAtATime
<1>1. CoordInv => OneJobAtATime
  BY DEF CoordInv, Coord
<1> QED BY <1>1, InitCoord, NextCoord, PTL DEF Spec

\* Timers that rest while a dialog is open never do: there it holds in every behaviour.
THEOREM DialogsStayIdle ==
  ASSUME ~JobsInDialogs PROVE Spec => []DialogsIdle
<1>1. ASSUME CoordInv, [Next]_vars PROVE CoordInv'
  <2>1. DialogsIdle'
    BY <1>1, OtherCoord, TimerIdle DEF Coord
  <2> QED BY <1>1, <2>1, NextCoord
<1>2. CoordInv => DialogsIdle
  BY DEF CoordInv, Coord
<1> QED BY <1>1, <1>2, InitCoord, PTL DEF Spec
==============================================================================
