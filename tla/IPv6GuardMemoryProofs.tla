------------------------ MODULE IPv6GuardMemoryProofs ------------------------
(***************************************************************************)
(* What the setting and the window know of the guard, for every pool of     *)
(* workers.  On top of SafeInv of IPv6GuardProofs, MemoryInv says what a    *)
(* job that reads the guard, or fails, may still conclude from what it      *)
(* read: an absent guard stays absent until the next connect, so that the   *)
(* setting may be cleared.  SightInv adds that a guard once seen is there   *)
(* whenever the VPN runs.                                                   *)
(***************************************************************************)
EXTENDS IPv6GuardProofs

\* What a job j knows of the guard g and the setting e: a connect has the setting
\* on, an absence it read holds on, and a job that ends without keeping the guard
\* leaves none.
Knows(g, e, j) ==
  j.kind # "none" =>
    /\ j.kind = "connect" => e
    /\ j.known = "absent" => ~g
    /\ j.kind = "connect" /\ j.pc = "open" /\ ~j.before => ~g
    /\ j.kind = "connect" /\ j.pc \in {"open", "look", "enable", "armed", "start", "up",
                                       "check", "verify"} => j.known # "absent"
    /\ j.kind = "connect" /\ j.pc = "cleanup" => j.known = "active"
    /\ j.kind = "disconnect" /\ j.pc \in {"stop", "disable"} => j.known # "none"
    /\ j.kind = "reconcile" /\ (j.pc \in {"check", "stop", "disable"} \/ (j.pc = "done" /\ j.ok))
         => j.known # "none"
    /\ j.kind \in {"disconnect", "release"} /\ j.pc = "done" /\ j.ok => j.known = "absent"
    /\ j.kind \in {"connect", "disconnect"} /\ j.pc = "done" /\ ~j.ok /\ ~j.retained => ~g

MemoryInv ==
  SafeInv /\ GuardIsRemembered /\ \A w \in Workers : Knows(guard, expected, job[w])

\* A guard that a job or the window has seen is there under a running VPN.
Sight ==
  /\ gui.st = "active" => TunnelIsGuarded
  /\ \A w \in Workers : job[w].kind # "none" /\ job[w].known = "active" => TunnelIsGuarded

SightInv == MemoryInv /\ Sight

-----------------------------------------------------------------------------
(***************************************************************************)
(* The steps of a job.                                                      *)
(***************************************************************************)
\* A step keeps what the job knows, learns of a guard only where there is one, and
\* arms it only in a connect.
Recalls(w) ==
  /\ Knows(guard', expected', job'[w])
  /\ job'[w].known = "active" => guard' \/ job[w].known = "active"
  /\ guard' => guard \/ job[w].kind = "connect"

\* A job that moves on holds what it held.
LEMMA GotoHolds ==
  ASSUME TypeOK, NEW w \in Workers, NEW pc, Goto(w, pc)
  PROVE  /\ job'[w].kind = job[w].kind /\ job'[w].pc = pc /\ job'[w].known = job[w].known
         /\ job'[w].before = job[w].before /\ job'[w].ok = job[w].ok
         /\ job'[w].retained = job[w].retained
  BY DEF TypeOK, Job, Goto, Put

\* A job that fails holds what it reports.
LEMMA FailHolds ==
  ASSUME TypeOK, NEW w \in Workers, NEW known, NEW retained, NEW seen, NEW err,
         Fail(w, known, retained, seen, err)
  PROVE  /\ job'[w].kind = job[w].kind /\ job'[w].pc = "done" /\ job'[w].known = known
         /\ job'[w].ok = FALSE /\ job'[w].retained = retained
  BY DEF TypeOK, Job, Fail, Put

\* So does one that returns.
LEMMA ReturnHolds ==
  ASSUME TypeOK, NEW w \in Workers, NEW known, Return(w, known)
  PROVE  /\ job'[w].kind = job[w].kind /\ job'[w].pc = "done" /\ job'[w].known = known
         /\ job'[w].ok = TRUE
  BY DEF TypeOK, Job, Return, Put

\* A failure that keeps the guard, or leaves none, forgets nothing.
LEMMA FailRecalls ==
  ASSUME TypeOK, NEW w \in Workers, Knows(guard, expected, job[w]), job[w].kind # "none",
         NEW known, NEW retained, NEW seen, NEW err, Fail(w, known, retained, seen, err),
         expected' = expected, guard' => guard \/ job[w].kind = "connect",
         known = "absent" => ~guard', known = "active" => guard' \/ job[w].known = "active",
         job[w].kind \in {"connect", "disconnect"} /\ ~retained => ~guard'
  PROVE  Recalls(w)
<1>1. /\ job'[w].kind = job[w].kind /\ job'[w].pc = "done" /\ job'[w].known = known
      /\ job'[w].ok = FALSE /\ job'[w].retained = retained
  BY FailHolds, Zenon
<1> QED BY <1>1 DEF Recalls, Knows

\* The generic handler reports a guard only where it read it; a connect it ends
\* before the first look goes back to the setting it found.
LEMMA FailGenericRecalls ==
  ASSUME TypeOK, NEW w \in Workers, Knows(guard, expected, job[w]), job[w].kind # "none",
         job[w].kind = "connect" => job[w].pc = "open",
         FailGeneric(w), expected' = expected, guard' = guard
  PROVE  Recalls(w)
<1>1. CASE Fail(w, GuardStatus, job[w].kind = "connect" => guard, "unknown", FALSE)
  <2>1. (job[w].kind \in {"connect", "disconnect"} /\ ~(job[w].kind = "connect" => guard)) => ~guard'
    OBVIOUS
  <2>2. (GuardStatus = "absent" => ~guard') /\ (GuardStatus = "active" => guard')
    BY DEF GuardStatus
  <2> QED BY <1>1, <2>1, <2>2, FailRecalls
<1>2. CASE Fail(w, "none", TRUE, "unknown", TRUE)
  BY <1>2, FailRecalls
<1>3. CASE Fail(w, "none", job[w].kind = "connect" => job[w].before, "unknown", FALSE)
  <2>1. ~(job[w].kind = "connect" => job[w].before) => ~guard'
    BY DEF Knows
  <2> QED BY <1>3, <2>1, FailRecalls
<1> QED BY <1>1, <1>2, <1>3 DEF FailGeneric

\* A move to a place about which nothing more is known.
LEMMA GotoRecalls ==
  ASSUME TypeOK, NEW w \in Workers, Knows(guard, expected, job[w]), job[w].kind # "none",
         NEW pc, Goto(w, pc), pc # "done", pc # "open", pc # "cleanup",
         expected' = expected, guard' => guard \/ job[w].kind = "connect",
         guard' => job[w].known # "absent",
         job[w].kind = "connect" /\ pc \notin {"askVpn", "askGuard"} => job[w].known # "absent",
         job[w].kind \in {"disconnect", "reconcile"} /\ pc \in {"check", "stop", "disable"}
           => job[w].known # "none"
  PROVE  Recalls(w)
<1>1. /\ job'[w].kind = job[w].kind /\ job'[w].pc = pc /\ job'[w].known = job[w].known
  BY GotoHolds
<1> QED BY <1>1 DEF Recalls, Knows

\* Opening looks at nothing.
LEMMA OpenRecalls ==
  ASSUME TypeOK, NEW w \in Workers, Knows(guard, expected, job[w]), Open(w)
  PROVE  Recalls(w)
<1>1. /\ job[w].kind \in Kinds /\ job[w].kind # "none" /\ job[w].pc = "open"
      /\ expected' = expected /\ guard' = guard
  BY DEF Open, At, Host, Window, Kinds
<1>2. CASE Goto(w, "check") /\ job[w].kind = "release"
  BY <1>1, <1>2, GotoRecalls DEF Knows
<1>3. CASE Goto(w, "look")
  BY <1>1, <1>3, GotoRecalls DEF Knows
<1>4. CASE FailGeneric(w)
  BY <1>1, <1>4, FailGenericRecalls
<1> QED BY <1>2, <1>3, <1>4 DEF Open

\* The first look of a connect.
LEMMA ConnectLookRecalls ==
  ASSUME TypeOK, NEW w \in Workers, Knows(guard, expected, job[w]), ConnectLook(w)
  PROVE  Recalls(w)
<1>1. At(w, "connect", "look") /\ expected' = expected /\ guard' = guard
  BY DEF ConnectLook, Host, Window
<1>2. CASE Put(w, [job[w] EXCEPT !.pc = IF guard THEN "start" ELSE "enable",
                                 !.known = IF guard THEN "active" ELSE "none"])
  <2>1. /\ job'[w].kind = job[w].kind /\ job'[w].pc \in {"start", "enable"}
        /\ job'[w].known = IF guard THEN "active" ELSE "none"
    BY <1>2 DEF TypeOK, Job, Put
  <2> QED BY <1>1, <2>1 DEF Recalls, Knows, At
<1>3. CASE Goto(w, "askVpn")
  BY <1>1, <1>3, GotoRecalls DEF Knows, At
<1> QED BY <1>2, <1>3 DEF ConnectLook

\* The guard is armed where its absence was not noted.
LEMMA ConnectEnableRecalls ==
  ASSUME TypeOK, NEW w \in Workers, Knows(guard, expected, job[w]), ConnectEnable(w)
  PROVE  Recalls(w)
<1>1. At(w, "connect", "enable") /\ expected' = expected
  BY DEF ConnectEnable, Window
<1> QED BY <1>1, GotoRecalls DEF ConnectEnable, Knows, At

\* The second look.
LEMMA ConnectArmedRecalls ==
  ASSUME TypeOK, NEW w \in Workers, Knows(guard, expected, job[w]), ConnectArmed(w)
  PROVE  Recalls(w)
<1>1. At(w, "connect", "armed") /\ expected' = expected /\ guard' = guard
  BY DEF ConnectArmed, Host, Window
<1>2. CASE guard /\ Put(w, [job[w] EXCEPT !.pc = "start", !.known = "active"])
  <2>1. job'[w].kind = job[w].kind /\ job'[w].pc = "start" /\ job'[w].known = "active"
    BY <1>2 DEF TypeOK, Job, Put
  <2> QED BY <1>1, <1>2, <2>1 DEF Recalls, Knows, At
<1>3. CASE Goto(w, "askVpn")
  BY <1>1, <1>3, GotoRecalls DEF Knows, At
<1> QED BY <1>2, <1>3 DEF ConnectArmed

\* The calls to NetworkManager are not about the guard.
LEMMA ConnectVpnRecalls ==
  ASSUME TypeOK, NEW w \in Workers, Knows(guard, expected, job[w]),
         ConnectStart(w) \/ ConnectUp(w) \/ ConnectCheck(w)
  PROVE  Recalls(w)
<1>1. /\ job[w].kind = "connect" /\ job[w].pc \in {"start", "up", "check"}
      /\ expected' = expected /\ guard' = guard
  BY DEF ConnectStart, ConnectUp, ConnectCheck, At, Host, Window
<1>2. Goto(w, "up") \/ Goto(w, "check") \/ Goto(w, "verify") \/ Goto(w, "askVpn")
  BY DEF ConnectStart, ConnectUp, ConnectCheck
<1> QED BY <1>1, <1>2, GotoRecalls DEF Knows

\* The last look finds the guard, or notes that it is gone.
LEMMA ConnectVerifyRecalls ==
  ASSUME TypeOK, NEW w \in Workers, Knows(guard, expected, job[w]), ConnectVerify(w)
  PROVE  Recalls(w)
<1>1. At(w, "connect", "verify") /\ expected' = expected /\ guard' = guard
  BY DEF ConnectVerify, Host, Window
<1>2. CASE guard /\ Return(w, "active")
  <2>1. /\ job'[w].kind = job[w].kind /\ job'[w].pc = "done" /\ job'[w].known = "active"
        /\ job'[w].ok = TRUE
    BY <1>2, ReturnHolds
  <2> QED BY <1>1, <1>2, <2>1 DEF Recalls, Knows, At
<1>3. CASE ~guard /\ Put(w, [job[w] EXCEPT !.pc = "askVpn", !.known = "absent"])
  <2>1. job'[w].kind = job[w].kind /\ job'[w].pc = "askVpn" /\ job'[w].known = "absent"
    BY <1>3 DEF TypeOK, Job, Put
  <2> QED BY <1>1, <1>3, <2>1 DEF Recalls, Knows, At
<1>4. CASE Goto(w, "askVpn")
  BY <1>1, <1>4, GotoRecalls DEF Knows, At
<1> QED BY <1>2, <1>3, <1>4 DEF ConnectVerify

\* After a failure the VPN is asked first,
LEMMA ConnectFailedAskVpnRecalls ==
  ASSUME TypeOK, NEW w \in Workers, Knows(guard, expected, job[w]), ConnectFailedAskVpn(w)
  PROVE  Recalls(w)
<1>1. At(w, "connect", "askVpn") /\ expected' = expected /\ guard' = guard
  BY DEF ConnectFailedAskVpn, Host, Window
<1>2. PICK seen \in {VpnState, "unknown"} :
        Put(w, [job[w] EXCEPT !.pc = "askGuard", !.seen = seen])
  BY DEF ConnectFailedAskVpn
<1>3. /\ job'[w].kind = job[w].kind /\ job'[w].pc = "askGuard"
      /\ job'[w].known = job[w].known
  BY <1>2 DEF TypeOK, Job, Put
<1> QED BY <1>1, <1>3 DEF Recalls, Knows, At

\* then the guard: only one that is absent is not kept.
LEMMA ConnectFailedAskGuardRecalls ==
  ASSUME TypeOK, NEW w \in Workers, Knows(guard, expected, job[w]), ConnectFailedAskGuard(w)
  PROVE  Recalls(w)
<1>1. At(w, "connect", "askGuard") /\ expected' = expected /\ guard' = guard
  BY DEF ConnectFailedAskGuard, Host, Window
<1>2. PICK known \in {GuardStatus, job[w].known} :
        IF job[w].seen = "down" /\ known = "active"
        THEN Put(w, [job[w] EXCEPT !.pc = "cleanup", !.known = known])
        ELSE Fail(w, known, job[w].seen # "down" \/ known # "absent", job[w].seen, FALSE)
  BY DEF ConnectFailedAskGuard
<1>3. /\ known = "absent" => ~guard
      /\ known = "active" => guard \/ job[w].known = "active"
  BY <1>1, <1>2 DEF Knows, At, GuardStatus
<1>4. CASE known = "active" /\ Put(w, [job[w] EXCEPT !.pc = "cleanup", !.known = known])
  <2>1. job'[w].kind = job[w].kind /\ job'[w].pc = "cleanup" /\ job'[w].known = "active"
    BY <1>4 DEF TypeOK, Job, Put
  <2> QED BY <1>1, <1>3, <1>4, <2>1 DEF Recalls, Knows, At
<1>5. CASE Fail(w, known, job[w].seen # "down" \/ known # "absent", job[w].seen, FALSE)
  <2>1. ~(job[w].seen # "down" \/ known # "absent") => ~guard'
    BY <1>1, <1>3
  <2> QED BY <1>1, <1>3, <1>5, <2>1, FailRecalls DEF At
<1> QED BY <1>2, <1>4, <1>5

\* A clean-up that was not confirmed keeps the guard.
LEMMA ConnectCleanupRecalls ==
  ASSUME TypeOK, NEW w \in Workers, Knows(guard, expected, job[w]), ConnectCleanup(w)
  PROVE  Recalls(w)
<1>1. At(w, "connect", "cleanup") /\ expected' = expected /\ job[w].known = "active"
  BY DEF ConnectCleanup, Window, Knows, At
<1>2. CASE guard' = FALSE /\ Fail(w, "absent", FALSE, job[w].seen, FALSE)
  BY <1>1, <1>2, FailRecalls DEF At
<1>3. CASE guard' \in {guard, FALSE} /\ Fail(w, "active", TRUE, job[w].seen, TRUE)
  BY <1>1, <1>3, FailRecalls DEF At
<1> QED BY <1>2, <1>3 DEF ConnectCleanup

\* A disconnect notes what it finds.
LEMMA DisconnectLookRecalls ==
  ASSUME TypeOK, NEW w \in Workers, Knows(guard, expected, job[w]), DisconnectLook(w)
  PROVE  Recalls(w)
<1>1. At(w, "disconnect", "look") /\ expected' = expected /\ guard' = guard
  BY DEF DisconnectLook, Host, Window
<1>2. CASE Put(w, [job[w] EXCEPT !.pc = "stop", !.known = GuardStatus])
  <2>1. job'[w].kind = job[w].kind /\ job'[w].pc = "stop" /\ job'[w].known = GuardStatus
    BY <1>2 DEF TypeOK, Job, Put
  <2> QED BY <1>1, <2>1 DEF Recalls, Knows, At, GuardStatus
<1>3. CASE FailGeneric(w)
  BY <1>1, <1>3, FailGenericRecalls DEF At
<1> QED BY <1>2, <1>3 DEF DisconnectLook

\* A VPN that does not stop keeps the guard that was found.
LEMMA DisconnectStopRecalls ==
  ASSUME TypeOK, NEW w \in Workers, Knows(guard, expected, job[w]), DisconnectStop(w)
  PROVE  Recalls(w)
<1>1. At(w, "disconnect", "stop") /\ expected' = expected /\ guard' = guard
  BY DEF DisconnectStop, Window
<1>2. CASE Goto(w, "disable")
  BY <1>1, <1>2, GotoRecalls DEF Knows, At
<1>3. ASSUME NEW known \in {GuardStatus, job[w].known},
             Fail(w, known, known = "active", "up", FALSE)
      PROVE  Recalls(w)
  <2>1. /\ known = "absent" => ~guard
        /\ known = "active" => guard \/ job[w].known = "active"
    BY <1>1, <1>3 DEF Knows, At, GuardStatus
  <2>2. known = "active" \/ known = "absent"
    <3>1. job[w].known \in Status
      BY DEF TypeOK, Job
    <3>2. job[w].known # "none"
      BY <1>1 DEF Knows, At
    <3>3. CASE known = job[w].known
      BY <3>1, <3>2, <3>3 DEF Status
    <3>4. CASE known = GuardStatus
      BY <3>4 DEF GuardStatus
    <3> QED BY <1>3, <3>3, <3>4
  <2> QED BY <1>1, <1>3, <2>1, <2>2, FailRecalls DEF At
<1> QED BY <1>2, <1>3 DEF DisconnectStop

\* The guard goes; an unconfirmed removal keeps it.
LEMMA DisconnectDisableRecalls ==
  ASSUME TypeOK, NEW w \in Workers, Knows(guard, expected, job[w]), DisconnectDisable(w)
  PROVE  Recalls(w)
<1>1. At(w, "disconnect", "disable") /\ expected' = expected
  BY DEF DisconnectDisable, Window
<1>2. CASE guard' = FALSE /\ Return(w, "absent")
  <2>1. /\ job'[w].kind = job[w].kind /\ job'[w].pc = "done" /\ job'[w].known = "absent"
        /\ job'[w].ok = TRUE
    BY <1>2, ReturnHolds
  <2> QED BY <1>1, <1>2, <2>1 DEF Recalls, Knows, At
<1>3. ASSUME guard' \in {guard, FALSE},
             NEW known \in {IF guard' THEN "active" ELSE "absent", job[w].known},
             Fail(w, known, TRUE, "down", FALSE)
      PROVE  Recalls(w)
  <2>1. guard' => guard
    BY <1>3
  <2>2. job[w].known = "absent" => ~guard
    BY <1>1 DEF Knows, At
  <2>3. /\ known = "absent" => ~guard'
        /\ known = "active" => guard' \/ job[w].known = "active"
    BY <1>3, <2>1, <2>2
  <2> QED BY <1>1, <1>3, <2>1, <2>3, FailRecalls DEF At
<1> QED BY <1>2, <1>3 DEF DisconnectDisable

\* A release checks the VPN alone.
LEMMA ReleaseCheckRecalls ==
  ASSUME TypeOK, NEW w \in Workers, Knows(guard, expected, job[w]), ReleaseCheck(w)
  PROVE  Recalls(w)
<1>1. At(w, "release", "check") /\ expected' = expected /\ guard' = guard
  BY DEF ReleaseCheck, Host, Window
<1>2. CASE Goto(w, "disable")
  BY <1>1, <1>2, GotoRecalls DEF Knows, At
<1>3. CASE FailGeneric(w)
  BY <1>1, <1>3, FailGenericRecalls DEF At
<1> QED BY <1>2, <1>3 DEF ReleaseCheck

\* Its removal is one of the guard only if it is confirmed.
LEMMA ReleaseDisableRecalls ==
  ASSUME TypeOK, NEW w \in Workers, Knows(guard, expected, job[w]), ReleaseDisable(w)
  PROVE  Recalls(w)
<1>1. At(w, "release", "disable") /\ expected' = expected
  BY DEF ReleaseDisable, Window
<1>2. CASE guard' = FALSE /\ Return(w, "absent")
  <2>1. /\ job'[w].kind = job[w].kind /\ job'[w].pc = "done" /\ job'[w].known = "absent"
        /\ job'[w].ok = TRUE
    BY <1>2, ReturnHolds
  <2> QED BY <1>1, <1>2, <2>1 DEF Recalls, Knows, At
<1>3. ASSUME guard' \in {guard, FALSE},
             NEW known \in {IF guard' THEN "active" ELSE "absent", "none"},
             Fail(w, known, TRUE, "down", known = "none")
      PROVE  Recalls(w)
  <2>1. (known = "absent" => ~guard') /\ (known = "active" => guard')
    BY <1>3
  <2> QED BY <1>1, <1>3, <2>1, FailRecalls DEF At
<1> QED BY <1>2, <1>3 DEF ReleaseDisable

\* The start-up check notes what it finds,
LEMMA ReconcileLookRecalls ==
  ASSUME TypeOK, NEW w \in Workers, Knows(guard, expected, job[w]), ReconcileLook(w)
  PROVE  Recalls(w)
<1>1. At(w, "reconcile", "look") /\ expected' = expected /\ guard' = guard
  BY DEF ReconcileLook, Host, Window
<1>2. CASE Put(w, [job[w] EXCEPT !.pc = "check", !.known = GuardStatus])
  <2>1. job'[w].kind = job[w].kind /\ job'[w].pc = "check" /\ job'[w].known = GuardStatus
    BY <1>2 DEF TypeOK, Job, Put
  <2> QED BY <1>1, <2>1 DEF Recalls, Knows, At, GuardStatus
<1>3. CASE FailGeneric(w)
  BY <1>1, <1>3, FailGenericRecalls DEF At
<1> QED BY <1>2, <1>3 DEF ReconcileLook

\* compares it with the VPN,
LEMMA ReconcileCheckRecalls ==
  ASSUME TypeOK, NEW w \in Workers, Knows(guard, expected, job[w]), ReconcileCheck(w)
  PROVE  Recalls(w)
<1>1. At(w, "reconcile", "check") /\ expected' = expected /\ guard' = guard
  BY DEF ReconcileCheck, Host, Window
<1>2. CASE LET j == [job[w] EXCEPT !.seen = VpnState] IN
           Put(w, IF vpn = (j.known = "active") THEN [j EXCEPT !.pc = "done", !.ok = TRUE]
                  ELSE [j EXCEPT !.pc = IF vpn THEN "stop" ELSE "disable"])
  <2>1. /\ job'[w].kind = job[w].kind /\ job'[w].pc \in {"done", "stop", "disable"}
        /\ job'[w].known = job[w].known
    BY <1>2 DEF TypeOK, Job, Put
  <2> QED BY <1>1, <2>1 DEF Recalls, Knows, At
<1>3. CASE FailGeneric(w)
  BY <1>1, <1>3, FailGenericRecalls DEF At
<1> QED BY <1>2, <1>3 DEF ReconcileCheck

\* removes a guard without its VPN,
LEMMA ReconcileDisableRecalls ==
  ASSUME TypeOK, NEW w \in Workers, Knows(guard, expected, job[w]), ReconcileDisable(w)
  PROVE  Recalls(w)
<1>1. At(w, "reconcile", "disable") /\ expected' = expected
  BY DEF ReconcileDisable, Window
<1>2. CASE guard' = FALSE /\ Return(w, "absent")
  <2>1. /\ job'[w].kind = job[w].kind /\ job'[w].pc = "done" /\ job'[w].known = "absent"
        /\ job'[w].ok = TRUE
    BY <1>2, ReturnHolds
  <2> QED BY <1>1, <1>2, <2>1 DEF Recalls, Knows, At
<1>3. CASE guard' \in {guard, FALSE} /\ Fail(w, "none", TRUE, "unknown", TRUE)
  <2>1. guard' => guard
    BY <1>3
  <2> QED BY <1>1, <1>3, <2>1, FailRecalls DEF At
<1>4. CASE /\ guard' \in {guard, FALSE}
           /\ Fail(w, IF guard' THEN "active" ELSE "absent", TRUE, "unknown", FALSE)
  <2>1. PICK known : /\ known = IF guard' THEN "active" ELSE "absent"
                     /\ Fail(w, known, TRUE, "unknown", FALSE)
    BY <1>4
  <2>2. (known = "absent" => ~guard') /\ (known = "active" => guard')
    BY <2>1
  <2> QED BY <1>1, <1>4, <2>1, <2>2, FailRecalls DEF At
<1> QED BY <1>2, <1>3, <1>4 DEF ReconcileDisable

\* and stops a VPN without its guard.
LEMMA ReconcileStopRecalls ==
  ASSUME TypeOK, NEW w \in Workers, Knows(guard, expected, job[w]), ReconcileStop(w)
  PROVE  Recalls(w)
<1>1. At(w, "reconcile", "stop") /\ expected' = expected /\ guard' = guard
  BY DEF ReconcileStop, Window
<1>2. CASE Put(w, [job[w] EXCEPT !.pc = "done", !.ok = TRUE, !.seen = "down"])
  <2>1. /\ job'[w].kind = job[w].kind /\ job'[w].pc = "done" /\ job'[w].known = job[w].known
        /\ job'[w].ok = TRUE
    BY <1>2 DEF TypeOK, Job, Put
  <2> QED BY <1>1, <2>1 DEF Recalls, Knows, At
<1>3. ASSUME NEW e \in BOOLEAN, Fail(w, IF e THEN "none" ELSE GuardStatus, TRUE, "up", e)
      PROVE  Recalls(w)
  <2>1. PICK known : /\ known = IF e THEN "none" ELSE GuardStatus
                     /\ Fail(w, known, TRUE, "up", e)
    BY <1>3
  <2>2. (known = "absent" => ~guard) /\ (known = "active" => guard)
    BY <2>1 DEF GuardStatus
  <2> QED BY <1>1, <2>1, <2>2, FailRecalls DEF At
<1> QED BY <1>2, <1>3 DEF ReconcileStop

\* So does every step of a job.
LEMMA JobStepRecalls ==
  ASSUME TypeOK, NEW w \in Workers, Knows(guard, expected, job[w]), JobStep(w)
  PROVE  Recalls(w)
  BY OpenRecalls, ConnectLookRecalls, ConnectEnableRecalls, ConnectArmedRecalls,
     ConnectVpnRecalls, ConnectVerifyRecalls, ConnectFailedAskVpnRecalls,
     ConnectFailedAskGuardRecalls, ConnectCleanupRecalls, DisconnectLookRecalls,
     DisconnectStopRecalls, DisconnectDisableRecalls, ReleaseCheckRecalls,
     ReleaseDisableRecalls, ReconcileLookRecalls, ReconcileCheckRecalls,
     ReconcileDisableRecalls, ReconcileStopRecalls DEF JobStep

\* The other jobs: what they know goes with a guard that appears, but only a connect
\* arms one, and beside a connect no other job runs.
LEMMA OthersKnow ==
  ASSUME MemoryInv, NEW w \in Workers, job[w].kind # "none",
         guard' => guard \/ job[w].kind = "connect", expected' = expected,
         NEW v \in Workers, v # w
  PROVE  Knows(guard', expected', job[v])
<1>1. CASE job[w].kind = "connect"
  <2>1. job[v].kind # "release" /\ ~Busy(job[v])
    BY <1>1 DEF MemoryInv, SafeInv, CoordInv, Safe, Coord, Busy
  <2> QED BY <2>1 DEF Knows, Busy
<1>2. CASE job[w].kind # "connect"
  <2>1. Knows(guard, expected, job[v])
    BY DEF MemoryInv
  <2> QED BY <1>2, <2>1 DEF Knows
<1> QED BY <1>1, <1>2

\* A step of a job.
LEMMA JobStepRemembers ==
  ASSUME MemoryInv, NEW w \in Workers, JobStep(w)
  PROVE  /\ GuardIsRemembered' /\ \A v \in Workers : Knows(guard', expected', job'[v])
         /\ gui' = gui
         /\ \A v \in Workers : job'[v].kind # "none" /\ job'[v].known = "active" =>
              guard' \/ (job[v].kind # "none" /\ job[v].known = "active")
<1>1. TypeOK /\ Knows(guard, expected, job[w]) /\ GuardIsRemembered
  BY DEF MemoryInv, SafeInv, CoordInv
<1>2. Recalls(w) /\ Stepped(w)
  BY <1>1, JobStepRecalls, JobStepped
<1>3. /\ expected' = expected /\ gui' = gui /\ job'[w].kind = job[w].kind
      /\ \A v \in Workers : v # w => job'[v] = job[v]
  BY <1>1, <1>2 DEF Stepped, Moves, TypeOK
<1>4. job[w].kind # "none"
  BY DEF JobStep, Open, At, Kinds, ConnectLook, ConnectEnable, ConnectArmed, ConnectStart,
         ConnectUp, ConnectCheck, ConnectVerify, ConnectFailedAskVpn, ConnectFailedAskGuard,
         ConnectCleanup, DisconnectLook, DisconnectStop, DisconnectDisable, ReleaseCheck,
         ReleaseDisable, ReconcileLook, ReconcileCheck, ReconcileDisable, ReconcileStop
<1>5. guard' => guard \/ job[w].kind = "connect"
  BY <1>2 DEF Recalls
<1>6. GuardIsRemembered'
  BY <1>1, <1>3, <1>4, <1>5 DEF GuardIsRemembered, Knows
<1>7. \A v \in Workers : v # w => Knows(guard', expected', job'[v])
  BY <1>3, <1>4, <1>5, OthersKnow
<1>8. Knows(guard', expected', job'[w])
  BY <1>2 DEF Recalls
<1>9. ASSUME NEW v \in Workers, job'[v].kind # "none", job'[v].known = "active"
      PROVE  guard' \/ (job[v].kind # "none" /\ job[v].known = "active")
  <2>1. CASE v = w
    BY <1>2, <1>4, <1>9, <2>1 DEF Recalls
  <2>2. CASE v # w
    BY <1>3, <1>9, <2>2
  <2> QED BY <2>1, <2>2
<1> QED BY <1>3, <1>6, <1>7, <1>8, <1>9

-----------------------------------------------------------------------------
(***************************************************************************)
(* The window.                                                              *)
(***************************************************************************)
\* What the refreshed window remembers: the setting and the shown status are those of
\* the handler, the jobs its own, or with one release more.
LEMMA RefreshShows ==
  ASSUME NEW g \in Gui, NEW e, NEW f, NEW up, Refresh(g, e, f, up)
  PROVE  /\ expected' = e /\ gui'.st = g.st
         /\ job' = f \/ \E w \in Workers : Start(w, "release", f)
  BY DEF Refresh, StartRelease, Gui

\* A job that starts knows nothing yet.
LEMMA StartKnows ==
  ASSUME NEW f \in [Workers -> Job], NEW w \in Workers, NEW kind, Start(w, kind, f)
  PROVE  /\ \A v \in Workers : v # w => job'[v] = f[v]
         /\ job'[w].kind = kind /\ job'[w].pc = "open" /\ job'[w].known = "none"
         /\ job'[w].before = expected
  BY DEF Start, NoJob

\* A handler of the window that leaves the guard alone and keeps the setting wherever
\* there may be a guard.
Remembers(g) ==
  /\ GuardIsRemembered' /\ \A v \in Workers : Knows(guard', expected', job'[v])
  /\ gui'.st = g.st
  /\ \A v \in Workers : job'[v].kind # "none" /\ job'[v].known = "active" =>
       job[v].kind # "none" /\ job[v].known = "active"

\* A refresh does, if the setting is kept where it is needed.
LEMMA RefreshRemembers ==
  ASSUME MemoryInv, NEW g \in Gui, NEW e \in BOOLEAN, NEW f \in [Workers -> Job], NEW up,
         Refresh(g, e, f, up), guard' = guard, guard => e,
         \A v \in Workers : f[v] = job[v] \/ f[v] = NoJob,
         \A v \in Workers : f[v].kind = "connect" => e
  PROVE  Remembers(g)
<1>1. /\ expected' = e /\ gui'.st = g.st
      /\ job' = f \/ \E w \in Workers : Start(w, "release", f)
  BY RefreshShows
<1>2. ASSUME NEW v \in Workers PROVE Knows(guard', e, f[v])
  <2>1. Knows(guard, expected, job[v])
    BY DEF MemoryInv
  <2> QED BY <2>1 DEF Knows, NoJob
<1>3. \A v \in Workers : f[v].kind # "none" /\ f[v].known = "active" =>
        job[v].kind # "none" /\ job[v].known = "active"
  BY DEF NoJob
<1>4. GuardIsRemembered'
  BY <1>1 DEF GuardIsRemembered
<1>5. CASE job' = f
  BY <1>1, <1>2, <1>3, <1>4, <1>5 DEF Remembers
<1>6. ASSUME NEW w \in Workers, Start(w, "release", f) PROVE Remembers(g)
  <2>1. /\ \A v \in Workers : v # w => job'[v] = f[v]
        /\ job'[w].kind = "release" /\ job'[w].pc = "open" /\ job'[w].known = "none"
    BY <1>6, StartKnows
  <2>2. Knows(guard', e, job'[w])
    BY <2>1 DEF Knows
  <2>3. \A v \in Workers : Knows(guard', expected', job'[v])
    BY <1>1, <1>2, <2>1, <2>2
  <2>4. \A v \in Workers : job'[v].kind # "none" /\ job'[v].known = "active" =>
          job[v].kind # "none" /\ job[v].known = "active"
    BY <1>3, <2>1
  <2> QED BY <1>1, <1>4, <2>3, <2>4 DEF Remembers
<1> QED BY <1>1, <1>5, <1>6

\* A slot takes the outcome of a job that is no more: where its absence of the guard
\* clears the setting, no connect runs.
LEMMA RestRemembers ==
  ASSUME MemoryInv, NEW w \in Workers, NEW g \in Gui, NEW e \in BOOLEAN, NEW up,
         Refresh(g, e, Rest(w), up), guard' = guard, guard => e, job[w].kind # "none",
         job[w].kind = "release" => ~\E v \in Workers : job[v].kind = "connect" /\ ~e
  PROVE  Remembers(g)
<1>1. TypeOK /\ Coord(gui.busy, gui.releasing, job)
  BY DEF MemoryInv, SafeInv, CoordInv
<1>2. /\ Rest(w) \in [Workers -> Job]
      /\ \A v \in Workers : Rest(w)[v] = job[v] \/ Rest(w)[v] = NoJob
  BY <1>1, RestFacts
<1>3. ASSUME NEW v \in Workers, Rest(w)[v].kind = "connect" PROVE e
  <2>1. v # w /\ job[v].kind = "connect"
    BY <1>1, <1>3 DEF Rest, NoJob, TypeOK
  <2>2. Busy(job[v])
    BY <2>1 DEF Busy
  <2>3. job[w].kind = "release"
    BY <1>1, <2>1, <2>2 DEF Coord, Busy
  <2> QED BY <2>1, <2>3
<1> QED BY <1>2, <1>3, RefreshRemembers

\* Every slot remembers, and shows what its job knew.
LEMMA SlotRemembers ==
  ASSUME MemoryInv, NEW w \in Workers, Slot(w)
  PROVE  \E g : /\ Remembers(g) /\ job[w].kind # "none"
                /\ g.st = job[w].known
<1>1. /\ TypeOK /\ Knows(guard, expected, job[w]) /\ job[w].retained \in BOOLEAN
      /\ Seen(w) \in BOOLEAN /\ Shown(w) \in Gui /\ Unscheduled(w) \in Gui
  BY ShownFacts DEF MemoryInv, SafeInv, CoordInv
<1>2. /\ \A l \in BOOLEAN : /\ [Shown(w) EXCEPT !.last = l] \in Gui
                            /\ [Shown(w) EXCEPT !.last = l].st = job[w].known
      /\ \A x \in BOOLEAN : /\ [Unscheduled(w) EXCEPT !.err = x] \in Gui
                            /\ [Unscheduled(w) EXCEPT !.err = x].st = job[w].known
      /\ [Shown(w) EXCEPT !.err = TRUE, !.last = Seen(w)] \in Gui
      /\ [Shown(w) EXCEPT !.err = TRUE, !.last = Seen(w)].st = job[w].known
  <2>1. Shown(w).st = job[w].known /\ Unscheduled(w).st = job[w].known
    BY <1>1 DEF Shown, Unscheduled, TypeOK, Gui
  <2> QED BY <1>1, <2>1 DEF Gui
<1>3. CASE Connected(w)
  <2>1. /\ job[w].kind = "connect" /\ guard' = guard
        /\ Refresh([Shown(w) EXCEPT !.last = TRUE], TRUE, Rest(w), vpn)
    BY <1>3 DEF Connected, Finished, At, Host
  <2> QED BY <1>2, <2>1, RestRemembers
<1>4. CASE Disconnected(w)
  <2>1. /\ job[w].kind = "disconnect" /\ guard' = guard
        /\ Refresh([Shown(w) EXCEPT !.last = FALSE], FALSE, Rest(w), vpn)
    BY <1>4 DEF Disconnected, Finished, At, Host
  <2>2. ~guard
    BY <1>1, <1>4 DEF Disconnected, Finished, At, Knows
  <2> QED BY <1>2, <2>1, <2>2, RestRemembers
<1>5. CASE TransactionFailed(w)
  <2>1. /\ job[w].kind \in {"connect", "disconnect"} /\ guard' = guard
        /\ Refresh([Shown(w) EXCEPT !.last = Seen(w)], job[w].retained, Rest(w), vpn)
    BY <1>5 DEF TransactionFailed, Finished, At, Host
  <2>2. guard => job[w].retained
    BY <1>1, <1>5 DEF TransactionFailed, Finished, At, Knows
  <2> QED BY <1>1, <1>2, <2>1, <2>2, RestRemembers
<1>6. CASE Released(w)
  <2>1. /\ job[w].kind = "release" /\ guard' = guard
        /\ Refresh([Unscheduled(w) EXCEPT !.err = FALSE], FALSE, Rest(w), vpn)
    BY <1>6 DEF Released, Finished, At, Host
  <2>2. ~guard
    BY <1>1, <1>6 DEF Released, Finished, At, Knows
  <2>3. \A v \in Workers : job[v].kind # "connect"
    BY <2>1 DEF MemoryInv, SafeInv, Safe
  <2> QED BY <1>2, <2>1, <2>2, <2>3, RestRemembers
<1>7. CASE ReleaseFailed(w)
  <2>1. /\ job[w].kind = "release" /\ guard' = guard
        /\ Refresh([Unscheduled(w) EXCEPT !.err = TRUE], TRUE, Rest(w), vpn)
    BY <1>7 DEF ReleaseFailed, Finished, At, Host
  <2> QED BY <1>2, <2>1, RestRemembers
<1>8. CASE Reconciled(w)
  <2> DEFINE a == job[w].known = "active"
  <2>1. /\ job[w].kind = "reconcile" /\ guard' = guard
        /\ Refresh([Shown(w) EXCEPT !.last = a], a, Rest(w), vpn)
    BY <1>8 DEF Reconciled, Finished, At, Host
  <2>2. guard => a
    <3>1. job[w].known \in Status
      BY <1>1 DEF TypeOK, Job
    <3> QED BY <1>1, <1>8, <3>1 DEF Reconciled, Finished, At, Knows, Status
  <2>3. a \in BOOLEAN
    OBVIOUS
  <2>4. [Shown(w) EXCEPT !.last = a].st = job[w].known
    BY <1>2, <2>3
  <2>5. [Shown(w) EXCEPT !.last = a] \in Gui
    BY <1>2, <2>3
  <2> HIDE DEF a
  <2>6. Remembers([Shown(w) EXCEPT !.last = a])
    BY <2>1, <2>2, <2>3, <2>5, RestRemembers
  <2> QED BY <2>1, <2>4, <2>6
<1>9. CASE ReconcileFailed(w)
  <2> DEFINE g == [Shown(w) EXCEPT !.err = TRUE, !.last = Seen(w)]
             h == [g EXCEPT !.last = FALSE]
  <2>1. job[w].kind = "reconcile" /\ guard' = guard /\ StopInWindow(g, TRUE, Rest(w))
    BY <1>9 DEF ReconcileFailed, Finished, At
  <2>2. g \in Gui /\ g.st = job[w].known
    BY <1>2
  <2>3. h \in Gui /\ h.st = job[w].known
    <3> HIDE DEF g
    <3> QED BY <2>2 DEF Gui
  <2> HIDE DEF g, h
  <2>4. CASE Refresh(g, TRUE, Rest(w), vpn')
    BY <2>1, <2>2, <2>4, RestRemembers
  <2>5. CASE Refresh(h, TRUE, Rest(w), FALSE)
    BY <2>1, <2>3, <2>5, RestRemembers
  <2> QED BY <2>1, <2>4, <2>5 DEF StopInWindow, h
<1> QED BY <1>3, <1>4, <1>5, <1>6, <1>7, <1>8, <1>9 DEF Slot

\* A handler that starts a job keeps the setting, or turns it on.
LEMMA StartRemembers ==
  ASSUME MemoryInv, NEW w \in Workers, NEW kind, Start(w, kind, job), guard' = guard,
         expected => expected', kind = "connect" => expected', gui'.st = gui.st
  PROVE  Remembers(gui)
<1>1. /\ job \in [Workers -> Job] /\ (guard => expected)
      /\ \A v \in Workers : Knows(guard, expected, job[v])
  BY DEF MemoryInv, SafeInv, CoordInv, TypeOK, GuardIsRemembered
<1>2. /\ \A v \in Workers : v # w => job'[v] = job[v]
      /\ job'[w].kind = kind /\ job'[w].pc = "open" /\ job'[w].known = "none"
      /\ job'[w].before = expected
  BY <1>1, StartKnows
<1>3. \A v \in Workers : Knows(guard, expected', job[v])
  BY <1>1 DEF Knows
<1>4. Knows(guard, expected', job'[w])
  BY <1>1, <1>2 DEF Knows
<1>5. \A v \in Workers : Knows(guard', expected', job'[v])
  BY <1>2, <1>3, <1>4
<1> QED BY <1>1, <1>2, <1>5 DEF Remembers, GuardIsRemembered

\* A handler that starts none and leaves the setting.
LEMMA SameRemembers ==
  ASSUME MemoryInv, UNCHANGED <<guard, expected, job>>, NEW g, gui'.st = g.st
  PROVE  Remembers(g)
  BY DEF MemoryInv, Remembers, GuardIsRemembered

\* So every handler remembers and shows no status of its own but none,
LEMMA HandlerRemembers ==
  ASSUME MemoryInv,
         Poll \/ ClickConnect \/ ClickDisconnect \/ ClickQuit \/ ReconcileAtStartup
           \/ StartupGateCancelled \/ VpnLost
  PROVE  \E g : Remembers(g) /\ g.st \in {gui.st, "none"}
<1>1. /\ guard \in BOOLEAN /\ expected \in BOOLEAN /\ gui \in Gui /\ job \in [Workers -> Job]
      /\ (guard => expected) /\ \A v \in Workers : job[v].kind = "connect" => expected
  BY DEF MemoryInv, SafeInv, CoordInv, TypeOK, GuardIsRemembered, Knows
<1>2. CASE Poll
  <2>1. Refresh(gui, expected, job, vpn) /\ guard' = guard
    BY <1>2 DEF Poll, Host
  <2> QED BY <1>1, <2>1, RefreshRemembers
<1>3. CASE ClickConnect
  <2>1. PICK w \in Workers : Start(w, "connect", job)
    BY <1>3 DEF ClickConnect
  <2>2. guard' = guard /\ expected' /\ gui'.st = gui.st
    BY <1>1, <1>3 DEF ClickConnect, Host, Gui
  <2> QED BY <2>1, <2>2, StartRemembers
<1>4. CASE ClickDisconnect
  <2>1. PICK w \in Workers : Start(w, "disconnect", job)
    BY <1>4 DEF ClickDisconnect
  <2>2. guard' = guard /\ expected' = expected /\ gui'.st = gui.st
    BY <1>1, <1>4 DEF ClickDisconnect, Host, Gui
  <2> QED BY <2>1, <2>2, StartRemembers
<1>5. CASE ClickQuit
  <2>1. /\ guard' = guard /\ expected' = expected /\ gui'.st = gui.st
        /\ job' = job \/ \E w \in Workers : Start(w, "release", job)
    BY <1>1, <1>5 DEF ClickQuit, StartRelease, Host, Gui
  <2>2. CASE job' = job
    BY <2>1, <2>2, SameRemembers
  <2>3. CASE \E w \in Workers : Start(w, "release", job)
    BY <2>1, <2>3, StartRemembers
  <2> QED BY <2>1, <2>2, <2>3
<1>6. CASE ReconcileAtStartup
  <2>1. /\ guard' = guard /\ expected' = expected
        /\ job' = job \/ \E w \in Workers : Start(w, "reconcile", job)
    BY <1>6 DEF ReconcileAtStartup, Host
  <2>2. gui'.st = gui.st
    BY <1>1, <1>6 DEF ReconcileAtStartup, Gui
  <2>3. CASE job' = job
    BY <2>1, <2>2, <2>3, SameRemembers
  <2>4. CASE \E w \in Workers : Start(w, "reconcile", job)
    BY <2>1, <2>2, <2>4, StartRemembers
  <2> QED BY <2>1, <2>3, <2>4
<1>7. CASE StartupGateCancelled
  <2> DEFINE g == [gui EXCEPT !.started = TRUE, !.st = "none", !.err = TRUE]
             h == [g EXCEPT !.last = FALSE]
  <2>1. StopInWindow(g, expected, job) /\ guard' = guard
    BY <1>7 DEF StartupGateCancelled
  <2>2. g \in Gui /\ g.st = "none" /\ h \in Gui /\ h.st = "none"
    BY <1>1 DEF Gui, Status
  <2> HIDE DEF g, h
  <2>3. CASE Refresh(g, expected, job, vpn')
    BY <1>1, <2>1, <2>2, <2>3, RefreshRemembers
  <2>4. CASE Refresh(h, expected, job, FALSE)
    BY <1>1, <2>1, <2>2, <2>4, RefreshRemembers
  <2> QED BY <2>1, <2>3, <2>4 DEF StopInWindow, h
<1>8. CASE VpnLost
  BY <1>8, SameRemembers DEF VpnLost
<1> QED BY <1>2, <1>3, <1>4, <1>5, <1>6, <1>7, <1>8

-----------------------------------------------------------------------------
(***************************************************************************)
(* Every step.                                                              *)
(***************************************************************************)
\* With the lower layers kept, a status is only shown or known where it was before,
\* or where there is a guard; and a guarded tunnel stays guarded.
LEMMA SightStays ==
  ASSUME Sight, TunnelIsGuarded => TunnelIsGuarded',
         \/ gui'.st # "active" \/ gui.st = "active"
         \/ \E w \in Workers : job[w].kind # "none" /\ job[w].known = "active",
         \A v \in Workers : job'[v].kind # "none" /\ job'[v].known = "active" =>
           guard' \/ (job[v].kind # "none" /\ job[v].known = "active")
  PROVE  Sight'
  BY DEF Sight, TunnelIsGuarded

\* Without a connect during a release the invariant is inductive.
LEMMA NextRemembers ==
  ASSUME ~ConnectDuringRelease, SightInv, [Next]_vars
  PROVE  SightInv'
<1>1. MemoryInv /\ SafeInv /\ CoordInv /\ Sight /\ gui \in Gui
  BY DEF SightInv, MemoryInv, SafeInv, CoordInv, TypeOK
<1>2. SafeInv' /\ (TunnelIsGuarded => TunnelIsGuarded')
  BY <1>1, NextKept DEF Kept, SafeInv
<1>3. ASSUME NEW w \in Workers, JobStep(w) PROVE SightInv'
  <2>1. /\ GuardIsRemembered' /\ \A v \in Workers : Knows(guard', expected', job'[v])
        /\ gui' = gui
        /\ \A v \in Workers : job'[v].kind # "none" /\ job'[v].known = "active" =>
             guard' \/ (job[v].kind # "none" /\ job[v].known = "active")
    BY <1>1, <1>3, JobStepRemembers
  <2>2. Sight'
    BY <1>1, <1>2, <2>1, SightStays
  <2> QED BY <1>2, <2>1, <2>2 DEF SightInv, MemoryInv
<1>4. ASSUME NEW g, Remembers(g),
             \/ g.st \in {gui.st, "none"}
             \/ \E w \in Workers : job[w].kind # "none" /\ g.st = job[w].known
      PROVE  SightInv'
  <2>1. Sight'
    BY <1>1, <1>2, <1>4, SightStays DEF Remembers
  <2> QED BY <1>2, <1>4, <2>1 DEF SightInv, MemoryInv, Remembers
<1>5. ASSUME NEW w \in Workers, Slot(w) PROVE SightInv'
  BY <1>1, <1>4, <1>5, SlotRemembers
<1>6. CASE Poll \/ ClickConnect \/ ClickDisconnect \/ ClickQuit \/ ReconcileAtStartup
             \/ StartupGateCancelled \/ VpnLost
  BY <1>1, <1>4, <1>6, HandlerRemembers
<1>7. CASE Crash
  <2>1. /\ \A v \in Workers : job'[v].kind = "none"
        /\ gui'.st = "none" /\ guard' = guard /\ expected' = expected
    BY <1>7 DEF Crash, NoJob, NewGui
  <2>2. GuardIsRemembered' /\ \A v \in Workers : Knows(guard', expected', job'[v])
    BY <1>1, <2>1 DEF MemoryInv, GuardIsRemembered, Knows
  <2>3. Sight'
    BY <1>1, <1>2, <2>1, SightStays
  <2> QED BY <1>2, <2>2, <2>3 DEF SightInv, MemoryInv
<1>8. CASE UNCHANGED vars
  <2>1. Remembers(gui)
    BY <1>1, <1>8, SameRemembers DEF vars
  <2> QED BY <1>4, <2>1
<1> QED BY <1>3, <1>5, <1>6, <1>7, <1>8 DEF Next, Step

\* It holds when the program first starts.
LEMMA InitRemembers == Init => SightInv
<1> SUFFICES ASSUME Init PROVE SightInv
  OBVIOUS
<1>1. (\A w \in Workers : job[w].kind = "none") /\ ~guard /\ gui.st = "none"
  BY DEF Init, NoJob, NewGui
<1> QED BY <1>1, InitSafe DEF SightInv, MemoryInv, GuardIsRemembered, Knows, Sight

-----------------------------------------------------------------------------
\* The state keeps its shape, whatever the user does.
THEOREM GuardTypes == Spec => []TypeOK
<1>1. CoordInv /\ [Next]_vars => CoordInv'
  BY NextKept DEF Kept
<1>2. CoordInv => TypeOK
  BY DEF CoordInv
<1> QED BY <1>1, <1>2, InitCoord, PTL DEF Spec

\* If the user does not connect while a release runs, a crash at any moment, also in
\* the middle of a transaction or between its end and its slot, leaves no guard the
\* next start does not look for.
THEOREM GuardIsAlwaysRemembered ==
  ASSUME ~ConnectDuringRelease PROVE Spec => []GuardIsRemembered
<1>1. SightInv /\ [Next]_vars => SightInv'
  BY NextRemembers
<1>2. SightInv => GuardIsRemembered
  BY DEF SightInv, MemoryInv
<1> QED BY <1>1, <1>2, InitRemembers, PTL DEF Spec

\* Under the same condition a window that shows IPv6 as blocked under a running VPN
\* is right, also where the VPN ran before the program.
THEOREM BlockedIsTrue ==
  ASSUME ~ConnectDuringRelease PROVE Spec => []ShownBlockedIsBlocked
<1>1. SightInv /\ [Next]_vars => SightInv'
  BY NextRemembers
<1>2. SightInv => ShownBlockedIsBlocked
  BY DEF SightInv, Sight, ShownBlockedIsBlocked, TunnelIsGuarded
<1> QED BY <1>1, <1>2, InitRemembers, PTL DEF Spec
=============================================================================
