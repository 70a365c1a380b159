---------------------------- MODULE StartupProofs ----------------------------
(***************************************************************************)
(* One window, one job and one automatic connection, for every number of    *)
(* processes and of clicks.                                                 *)
(*                                                                         *)
(* The handlers of Startup are functions from a situation to the situations *)
(* they may return in, and a handler calls others; so the proof follows the *)
(* call graph.  Sound says what holds of a situation between two handlers,  *)
(* Follows what a handler that began in a sound one leaves.  The lemmas go  *)
(* from the single updates over the helper functions to the timers, dialogs *)
(* and slots, of which each is Handled.  StartInv puts the situations of    *)
(* all processes together: only the holder of the lock has a window, so a   *)
(* handler's effect on the host changes no other window's situation.        *)
(***************************************************************************)
EXTENDS Startup, SequenceTheorems, FiniteSetTheorems, TLAPS

Situation == [w : Window, h : Host]

\* The dialogs that nest, and how often a dialog is open.
Dialogs == {"credentials"} \cup Askers
Has(q, x) == \E i \in 1 .. Len(q) : q[i] = x
Once(q, x) == \A i, j \in 1 .. Len(q) : q[i] = x /\ q[j] = x => i = j

\* What the window knows of a lock on the host.
HostKnown(s) ==
  /\ s.h.table => s.h.required
  /\ s.w.status = "absent" => ~s.h.table
  /\ "ks" \in s.w.settled /\ s.h.table => s.h.feature

\* The automatic connection is attempted once and lives in one place at a time: in a
\* question, in an installation, or in a job that has begun.
AutoOnce(w) ==
  /\ ~w.attempted => w.begun = 0 /\ "auto" \notin w.installs /\ ~Has(w.dialogs, "auto")
  /\ w.begun \in {0, 1} /\ Once(w.dialogs, "auto")
  /\ w.begun = 1 => "auto" \notin w.installs
  /\ w.begun = 1 \/ "auto" \in w.installs => ~Has(w.dialogs, "auto")
  /\ w.begun = 1 \/ "auto" \in w.installs \/ Has(w.dialogs, "auto") => w.settled = Checks

\* What runs: nothing, or one job or installation.
Idle(w) == w.jobs = {} /\ w.installs = {}
One(w) ==
  \/ w.installs = {} /\ \E job \in Jobs : w.jobs = {job}
  \/ w.jobs = {} /\ \E who \in Askers : w.installs = {who}

\* As long as no dialog was opened inside another one, the busy flag is the one job,
\* and a question about the helper stands alone.
Single(s) ==
  ~s.w.crossed =>
    /\ IF s.w.busy THEN One(s.w) ELSE Idle(s.w)
    /\ Len(s.w.dialogs) <= 1
    /\ \A who \in Askers : Has(s.w.dialogs, who) => ~s.w.busy /\ ~s.h.helper

\* What holds of a situation between two handlers.
Sound(s) == s \in Situation /\ HostKnown(s) /\ AutoOnce(s.w) /\ Single(s)

\* A situation a handler may return in, from one where b automatic connections had begun.
Follows(b, t) ==
  /\ Sound(t)
  /\ t.w.begun > b => /\ b = 0 /\ ~t.h.tunnel /\ ~t.h.table /\ t.w.settled = Checks
                      /\ One(t.w) \/ t.w.crossed

\* The automatic connection has been decided on and is nowhere yet.
Fresh(s) ==
  /\ s.w.attempted /\ s.w.begun = 0 /\ s.w.settled = Checks
  /\ "auto" \notin s.w.installs /\ ~Has(s.w.dialogs, "auto")

-----------------------------------------------------------------------------
(***************************************************************************)
(* Dialogs as a sequence, jobs as a set.                                    *)
(***************************************************************************)
\* A further dialog is opened inside those that are open.
LEMMA AppendHas ==
  ASSUME NEW q \in Seq(Dialogs), NEW d \in Dialogs
  PROVE  /\ Append(q, d) \in Seq(Dialogs) /\ Len(Append(q, d)) = Len(q) + 1
         /\ \A x : Has(Append(q, d), x) <=> Has(q, x) \/ x = d
         /\ \A x : Once(q, x) /\ (x = d => ~Has(q, x)) => Once(Append(q, d), x)
<1>1. Append(q, d) \in Seq(Dialogs) /\ Len(Append(q, d)) = Len(q) + 1 /\ Len(q) \in Nat
  OBVIOUS
<1>2. Append(q, d)[Len(q) + 1] = d /\ \A i \in 1 .. Len(q) : Append(q, d)[i] = q[i]
  OBVIOUS
<1>3. \A i \in 1 .. Len(Append(q, d)) : i \in 1 .. Len(q) \/ i = Len(q) + 1
  BY <1>1
<1>4. 1 .. Len(q) \subseteq 1 .. Len(Append(q, d)) /\ Len(q) + 1 \in 1 .. Len(Append(q, d))
  BY <1>1
<1>5. ASSUME NEW x PROVE Has(Append(q, d), x) <=> Has(q, x) \/ x = d
  BY <1>2, <1>3, <1>4 DEF Has
<1>6. ASSUME NEW x, Once(q, x), x = d => ~Has(q, x) PROVE Once(Append(q, d), x)
  BY <1>6, <1>2, <1>3 DEF Once, Has
<1> QED BY <1>1, <1>5, <1>6

\* The inmost dialog ends.
LEMMA FrontHas ==
  ASSUME NEW q \in Seq(Dialogs), q # << >>
  PROVE  LET r == SubSeq(q, 1, Len(q) - 1)
             d == q[Len(q)]
         IN  /\ r \in Seq(Dialogs) /\ Len(r) = Len(q) - 1 /\ d \in Dialogs /\ Has(q, d)
             /\ \A x : Has(r, x) => Has(q, x)
             /\ \A x : Once(q, x) => Once(r, x)
             /\ Once(q, d) => ~Has(r, d)
<1> DEFINE r == SubSeq(q, 1, Len(q) - 1)
           d == q[Len(q)]
<1>1. Len(q) \in Nat /\ Len(q) # 0
  OBVIOUS
<1>2. r \in Seq(Dialogs) /\ Len(r) = Len(q) - 1 /\ \A i \in 1 .. Len(r) : r[i] = q[i]
  <2>1. \A i \in 1 .. Len(q) : q[i] \in Dialogs
    OBVIOUS
  <2>2. \A i \in 1 .. Len(q) - 1 : q[i] \in Dialogs
    BY <1>1, <2>1
  <2>3. /\ r \in Seq(Dialogs)
        /\ Len(r) = IF 1 <= Len(q) - 1 THEN Len(q) - 1 - 1 + 1 ELSE 0
        /\ \A i \in 1 .. Len(q) - 1 - 1 + 1 : r[i] = q[1 + i - 1]
    BY <1>1, <2>2, SubSeqProperties
  <2> HIDE DEF r
  <2>4. Len(r) = Len(q) - 1
    <3>1. \A n \in Nat : n # 0 => (IF 1 <= n - 1 THEN n - 1 - 1 + 1 ELSE 0) = n - 1
      OBVIOUS
    <3> QED BY <1>1, <2>3, <3>1
  <2>5. \A i \in 1 .. Len(q) - 1 : i \in 1 .. Len(q) - 1 - 1 + 1 /\ 1 + i - 1 = i
    BY <1>1
  <2>6. \A i \in 1 .. Len(q) - 1 : r[i] = q[i]
    BY <2>3, <2>5
  <2> QED BY <2>3, <2>4, <2>6
<1>3. Len(q) \in 1 .. Len(q) /\ \A i \in 1 .. Len(r) : i \in 1 .. Len(q) /\ i # Len(q)
  BY <1>1, <1>2
<1>4. d \in Dialogs /\ Has(q, d)
  <2>1. \A i \in 1 .. Len(q) : q[i] \in Dialogs
    OBVIOUS
  <2> QED BY <1>3, <2>1 DEF Has
<1> HIDE DEF r
<1>5. ASSUME NEW x PROVE Has(r, x) => Has(q, x)
  BY <1>2, <1>3 DEF Has
<1>6. ASSUME NEW x PROVE Once(q, x) => Once(r, x)
  BY <1>2, <1>3 DEF Once
<1>7. Once(q, d) => ~Has(r, d)
  BY <1>2, <1>3 DEF Once, Has
<1>8. r = SubSeq(q, 1, Len(q) - 1)
  BY DEF r
<1> QED BY <1>2, <1>4, <1>5, <1>6, <1>7, <1>8

\* One job or one installation runs.
LEMMA OneRuns ==
  ASSUME NEW w, One(w)
  PROVE  Running(w) = 1
<1>1. Cardinality({}) = 0 /\ \A x : Cardinality({x}) = 1
  BY FS_EmptySet, FS_Singleton
<1>2. CASE w.installs = {} /\ \E job \in Jobs : w.jobs = {job}
  <2>1. Cardinality(w.installs) = 0 /\ Cardinality(w.jobs) = 1
    BY <1>1, <1>2
  <2> QED BY <2>1 DEF Running
<1>3. CASE w.jobs = {} /\ \E who \in Askers : w.installs = {who}
  <2>1. Cardinality(w.jobs) = 0 /\ Cardinality(w.installs) = 1
    BY <1>1, <1>3
  <2> QED BY <2>1 DEF Running
<1> QED BY <1>2, <1>3 DEF One

\* Nothing runs.
LEMMA IdleRuns ==
  ASSUME NEW w, Idle(w)
  PROVE  Running(w) = 0
BY FS_EmptySet DEF Idle, Running

-----------------------------------------------------------------------------
(***************************************************************************)
(* Single updates.                                                          *)
(***************************************************************************)
\* A part of the window that jobs, dialogs and the automatic connection do not touch.
Quiet(s, t) ==
  /\ t \in Situation
  /\ t.w.dialogs = s.w.dialogs /\ t.w.installs = s.w.installs /\ t.w.jobs = s.w.jobs
  /\ t.w.busy = s.w.busy /\ t.w.crossed = s.w.crossed /\ t.w.begun = s.w.begun
  /\ s.w.attempted => t.w.attempted
  /\ s.w.settled \subseteq t.w.settled /\ t.h.helper = s.h.helper

\* Such an update leaves a sound situation sound.
LEMMA QuietSound ==
  ASSUME NEW s, NEW t, Sound(s), Quiet(s, t), HostKnown(t)
  PROVE  Sound(t) /\ t.w.begun = s.w.begun /\ Follows(s.w.begun, t)
<1>1. s.w.settled = Checks => t.w.settled = Checks
  BY DEF Quiet, Situation, Window
<1>2. AutoOnce(t.w)
  BY <1>1 DEF Sound, AutoOnce, Quiet
<1>3. Single(t)
  BY DEF Sound, Single, Quiet, One, Idle
<1>4. Sound(t) /\ t.w.begun = s.w.begun
  BY <1>2, <1>3 DEF Sound, Quiet
<1>5. ~(t.w.begun > s.w.begun)
  BY <1>4 DEF Sound, AutoOnce
<1> QED BY <1>4, <1>5 DEF Follows

\* A handler that begins no automatic connection has to leave a sound situation.
LEMMA SoundFollows ==
  ASSUME NEW b, NEW t, Sound(t), t.w.begun = b
  PROVE  Follows(b, t)
<1>1. ~(t.w.begun > b)
  BY DEF Sound, AutoOnce
<1> QED BY <1>1 DEF Follows

\* A question is opened.
LEMMA OpenSound ==
  ASSUME NEW s, Sound(s), NEW d \in Dialogs, d = "auto" => Fresh(s),
         d \in Askers => ~s.w.busy /\ ~s.h.helper
  PROVE  Follows(s.w.begun, Open(s, d))
<1> DEFINE t == Open(s, d)
           v == [s.w EXCEPT !.dialogs = Append(@, d), !.crossed = @ \/ s.w.dialogs # << >>]
<1>0. s.w \in Window /\ s.h \in Host /\ s = [w |-> s.w, h |-> s.h]
  BY DEF Sound, Situation
<1>1. t.w = v /\ t.h = s.h /\ t = [w |-> t.w, h |-> t.h]
  <2>1. t = [s EXCEPT !.w.dialogs = Append(@, d), !.w.crossed = @ \/ s.w.dialogs # << >>]
    BY DEF Open
  <2> HIDE DEF t
  <2>2. t.h = s.h /\ t = [w |-> t.w, h |-> t.h]
    BY <1>0, <2>1
  <2>3. t.w = v
    BY <1>0, <2>1 DEF Window
  <2> QED BY <2>2, <2>3
<1>2. s.w.dialogs \in Seq(Dialogs) /\ s.w.crossed \in BOOLEAN
  BY <1>0 DEF Window, Dialogs
<1>3. Append(s.w.dialogs, d) \in Seq(Dialogs) /\ (s.w.crossed \/ s.w.dialogs # << >>) \in BOOLEAN
  BY <1>2, AppendHas
<1>4. v \in Window
  BY <1>0, <1>3 DEF Window, Dialogs
<1>5. t \in Situation
  BY <1>0, <1>1, <1>4 DEF Situation
<1>6. /\ v.dialogs = Append(s.w.dialogs, d) /\ v.crossed = (s.w.crossed \/ s.w.dialogs # << >>)
      /\ v.installs = s.w.installs /\ v.jobs = s.w.jobs /\ v.busy = s.w.busy /\ v.begun = s.w.begun
      /\ v.attempted = s.w.attempted /\ v.settled = s.w.settled /\ v.status = s.w.status
  BY <1>0, <1>2 DEF Window
<1> HIDE DEF t, v
<1>7. HostKnown(t)
  BY <1>1, <1>6 DEF Sound, HostKnown
<1>8. /\ \A x : Has(v.dialogs, x) <=> Has(s.w.dialogs, x) \/ x = d
      /\ \A x : Once(s.w.dialogs, x) /\ (x = d => ~Has(s.w.dialogs, x)) => Once(v.dialogs, x)
      /\ Len(v.dialogs) = Len(s.w.dialogs) + 1
  BY <1>2, <1>6, AppendHas
<1>9. AutoOnce(t.w)
  BY <1>1, <1>6, <1>8 DEF Sound, AutoOnce, Fresh
<1>10. Single(t)
  <2>1. CASE s.w.dialogs = << >>
    <3>1. Len(v.dialogs) = 1 /\ \A x : ~Has(s.w.dialogs, x)
      BY <1>8, <2>1 DEF Has
    <3>2. ~t.w.crossed => IF t.w.busy THEN One(t.w) ELSE Idle(t.w)
      BY <1>1, <1>6 DEF Sound, Single, One, Idle
    <3>3. \A who \in Askers : Has(t.w.dialogs, who) => ~t.w.busy /\ ~t.h.helper
      BY <1>1, <1>6, <1>8, <3>1
    <3> QED BY <1>1, <3>1, <3>2, <3>3 DEF Single
  <2>2. CASE s.w.dialogs # << >>
    BY <1>1, <1>6, <2>2 DEF Single
  <2> QED BY <2>1, <2>2
<1>11. Sound(t) /\ t.w.begun = s.w.begun
  BY <1>1, <1>5, <1>6, <1>7, <1>9, <1>10 DEF Sound
<1> QED BY <1>11, SoundFollows DEF t

\* A connection begins, if it may.
LEMMA ConnectReadySound ==
  ASSUME NEW s, Sound(s), NEW who \in {"user", "auto"}, s.h.helper, who = "auto" => Fresh(s),
         NEW t \in ConnectReady(s, who)
  PROVE  Follows(s.w.begun, t)
<1>1. CASE t = s
  BY <1>1, SoundFollows
<1>2. CASE /\ ~s.w.busy /\ ~s.h.tunnel /\ ~MayBlock(s)
           /\ t = [s EXCEPT !.w.busy = TRUE, !.w.jobs = @ \cup {who},
                      !.w.begun = @ + (IF who = "auto" THEN 1 ELSE 0),
                      !.h.required = @ \/ s.h.feature, !.h.expected = @ \/ ~s.h.feature]
  <2> DEFINE b == s.w.begun + (IF who = "auto" THEN 1 ELSE 0)
             v == [s.w EXCEPT !.busy = TRUE, !.jobs = @ \cup {who}, !.begun = b]
             g == [s.h EXCEPT !.required = @ \/ s.h.feature, !.expected = @ \/ ~s.h.feature]
  <2>0. s.w \in Window /\ s.h \in Host /\ s.w.begun \in {0, 1}
    BY DEF Sound, Situation, AutoOnce
  <2>1. t.w = v /\ t.h = g /\ t = [w |-> t.w, h |-> t.h]
    BY <1>2, <2>0 DEF Sound, Situation, Window, Host
  <2>2. b \in 0 .. 2 /\ s.w.jobs \cup {who} \in SUBSET Jobs
    BY <2>0 DEF Window, Jobs, Askers
  <2>3. (s.h.required \/ s.h.feature) \in BOOLEAN /\ (s.h.expected \/ ~s.h.feature) \in BOOLEAN
    OBVIOUS
  <2> HIDE DEF b
  <2>4. v \in Window
    BY <2>0, <2>2 DEF Window
  <2>5. g \in Host
    BY <2>0, <2>3 DEF Host
  <2>6. t \in Situation
    BY <2>1, <2>4, <2>5 DEF Situation
  <2>7. /\ v.busy = TRUE /\ v.jobs = s.w.jobs \cup {who} /\ v.begun = b
        /\ v.installs = s.w.installs /\ v.dialogs = s.w.dialogs /\ v.crossed = s.w.crossed
        /\ v.attempted = s.w.attempted /\ v.settled = s.w.settled /\ v.status = s.w.status
    BY <2>0 DEF Window
  <2>8. /\ g.required = (s.h.required \/ s.h.feature) /\ g.table = s.h.table
        /\ g.tunnel = s.h.tunnel /\ g.feature = s.h.feature /\ g.helper = s.h.helper
    BY <2>0 DEF Host
  <2> HIDE DEF v, g
  <2>9. HostKnown(t)
    BY <2>1, <2>7, <2>8 DEF Sound, HostKnown
  <2>10. IF who = "auto" THEN b = 1 /\ s.w.begun = 0 ELSE b = s.w.begun
    BY <2>0 DEF b, Fresh
  <2>11. AutoOnce(t.w)
    BY <2>1, <2>7, <2>10 DEF Sound, AutoOnce, Fresh
  <2>12. ~t.w.crossed => One(t.w)
    <3>1. ~t.w.crossed => s.w.jobs = {} /\ s.w.installs = {}
      BY <1>2, <2>1, <2>7 DEF Sound, Single, Idle
    <3>2. who \in Jobs
      BY DEF Jobs, Askers
    <3> QED BY <2>1, <2>7, <3>1, <3>2 DEF One
  <2>13. Single(t)
    BY <2>1, <2>7, <2>8, <2>12 DEF Sound, Single
  <2>14. Sound(t)
    BY <2>6, <2>9, <2>11, <2>13 DEF Sound
  <2>15. CASE who = "auto"
    <3>1. s.w.settled = Checks /\ "ks" \in s.w.settled
      BY <2>15 DEF Fresh, Checks
    <3>2. s.w.status \in {"none", "absent", "present", "error"}
      BY <2>0 DEF Window
    <3>3. ~s.h.table
      BY <1>2, <3>1, <3>2 DEF Sound, HostKnown, MayBlock
    <3> QED BY <1>2, <2>1, <2>7, <2>8, <2>10, <2>12, <2>14, <2>15, <3>1, <3>3 DEF Follows
  <2>16. CASE who # "auto"
    BY <2>1, <2>7, <2>10, <2>14, <2>16, SoundFollows
  <2> QED BY <2>15, <2>16
<1> QED BY <1>1, <1>2 DEF ConnectReady

\* An update of other fields, given what it puts in their place.
LEMMA QuietIs ==
  ASSUME NEW s, Sound(s), NEW v \in Window, NEW g \in Host, NEW t, t = [w |-> v, h |-> g],
         v.dialogs = s.w.dialogs, v.installs = s.w.installs, v.jobs = s.w.jobs,
         v.busy = s.w.busy, v.crossed = s.w.crossed, v.begun = s.w.begun,
         v.attempted = s.w.attempted, s.w.settled \subseteq v.settled, g.helper = s.h.helper
  PROVE  Quiet(s, t) /\ t.w = v /\ t.h = g
BY DEF Quiet, Situation

\* What every proof about a sound situation begins with.
LEMMA Parts ==
  ASSUME NEW s, Sound(s)
  PROVE  /\ s.w \in Window /\ s.h \in Host /\ s = [w |-> s.w, h |-> s.h]
         /\ HostKnown(s) /\ s.w.begun \in {0, 1}
BY DEF Sound, Situation, AutoOnce

\* The decision about the automatic connection is noted.
LEMMA AttemptedSound ==
  ASSUME NEW s, Sound(s), NEW t, t = Attempted(s)
  PROVE  /\ Sound(t) /\ t.w.begun = s.w.begun /\ t.h = s.h
         /\ t.w.attempted = TRUE /\ t.w.settled = s.w.settled /\ t.w.busy = s.w.busy
         /\ t.w.installs = s.w.installs /\ t.w.dialogs = s.w.dialogs
<1>0. s.w \in Window /\ s.h \in Host /\ s = [w |-> s.w, h |-> s.h] /\ HostKnown(s)
  BY Parts
<1>1. t.w = [s.w EXCEPT !.attempted = TRUE] /\ t.h = s.h /\ t \in Situation
  BY <1>0 DEF Attempted, Situation, Window
<1>2. /\ Quiet(s, t) /\ t.w.attempted = TRUE /\ t.w.status = s.w.status
      /\ t.w.settled = s.w.settled
  BY <1>1, <1>0 DEF Quiet, Window
<1>3. HostKnown(t)
  BY <1>1, <1>2, <1>0 DEF HostKnown
<1> QED BY <1>1, <1>2, <1>3, QuietSound DEF Quiet

\* A status that does not call the table absent.
LEMMA StatusSound ==
  ASSUME NEW s, Sound(s), NEW status \in {"error", "present"}, NEW t,
         t = [s EXCEPT !.w.status = status]
  PROVE  Sound(t) /\ t.w.begun = s.w.begun /\ t.h = s.h
<1>0. s.w \in Window /\ s.h \in Host /\ s = [w |-> s.w, h |-> s.h] /\ HostKnown(s)
  BY Parts
<1>1. t.w = [s.w EXCEPT !.status = status] /\ t.h = s.h /\ t \in Situation
  BY <1>0 DEF Situation, Window
<1>2. Quiet(s, t) /\ t.w.status = status /\ t.w.settled = s.w.settled
  BY <1>1, <1>0 DEF Quiet, Window
<1>3. HostKnown(t)
  BY <1>1, <1>2, <1>0 DEF HostKnown
<1>4. Sound(t) /\ t.w.begun = s.w.begun
  BY <1>2, <1>3, QuietSound
<1> QED BY <1>1, <1>4

\* The server list is requested, at once, later, or when a lock is gone.
LEMMA RefreshSound ==
  ASSUME NEW s, Sound(s), NEW t, t = Refresh(s)
  PROVE  Sound(t) /\ t.w.begun = s.w.begun
<1>0. s.w \in Window /\ s.h \in Host /\ s = [w |-> s.w, h |-> s.h] /\ HostKnown(s)
  BY Parts
<1> DEFINE due == s.w.due \cup {"refresh"}
           v == [s.w EXCEPT !.started = TRUE, !.pending = FALSE, !.due = due]
<1>1. t.w = v /\ t.h = s.h /\ t = [w |-> t.w, h |-> t.h]
  BY <1>0 DEF Refresh, Window
<1>2. due \in SUBSET {"first", "ks", "v6", "refresh"}
  BY <1>0 DEF Window
<1> HIDE DEF due
<1>3. v \in Window
  BY <1>2, <1>0 DEF Window
<1>4. Quiet(s, t) /\ t.w.status = s.w.status /\ t.w.settled = s.w.settled
  <2>1. t \in Situation
    BY <1>1, <1>3, <1>0 DEF Situation
  <2>2. /\ t.w.dialogs = s.w.dialogs /\ t.w.installs = s.w.installs /\ t.w.jobs = s.w.jobs
        /\ t.w.busy = s.w.busy /\ t.w.crossed = s.w.crossed /\ t.w.begun = s.w.begun
        /\ t.w.attempted = s.w.attempted /\ t.w.settled = s.w.settled
        /\ t.w.status = s.w.status /\ t.h.helper = s.h.helper
    BY <1>1, <1>3, <1>0 DEF Window
  <2> QED BY <2>1, <2>2 DEF Quiet
<1>5. HostKnown(t)
  BY <1>1, <1>4, <1>0 DEF HostKnown
<1> QED BY <1>4, <1>5, QuietSound

\* It waits for the check of a lock that may be there.
LEMMA RequestRefreshSound ==
  ASSUME NEW s, Sound(s), NEW t, t = RequestRefresh(s)
  PROVE  Sound(t) /\ t.w.begun = s.w.begun
<1>0. s.w \in Window /\ s.h \in Host /\ s = [w |-> s.w, h |-> s.h] /\ HostKnown(s)
  BY Parts
<1>1. CASE t = [s EXCEPT !.w.pending = TRUE]
  <2>1. t.w = [s.w EXCEPT !.pending = TRUE] /\ t.h = s.h /\ t \in Situation
    <3>1. t.w = [s.w EXCEPT !.pending = TRUE] /\ t.h = s.h /\ t = [w |-> t.w, h |-> t.h]
      BY <1>1, <1>0 DEF Window
    <3>2. [s.w EXCEPT !.pending = TRUE] \in Window
      BY <1>0 DEF Window
    <3> QED BY <1>0, <3>1, <3>2 DEF Situation
  <2>2. Quiet(s, t) /\ t.w.status = s.w.status /\ t.w.settled = s.w.settled
    <3>1. t \in Situation
      BY <2>1, <1>0 DEF Situation
    <3>2. /\ t.w.dialogs = s.w.dialogs /\ t.w.installs = s.w.installs /\ t.w.jobs = s.w.jobs
          /\ t.w.busy = s.w.busy /\ t.w.crossed = s.w.crossed /\ t.w.begun = s.w.begun
          /\ t.w.attempted = s.w.attempted /\ t.w.settled = s.w.settled
          /\ t.w.status = s.w.status /\ t.h.helper = s.h.helper
      BY <2>1, <1>0 DEF Window
    <3> QED BY <3>1, <3>2 DEF Quiet
  <2>3. HostKnown(t)
    BY <2>1, <2>2, <1>0 DEF HostKnown
  <2> QED BY <2>2, <2>3, QuietSound
<1>2. CASE t = Refresh(s)
  BY <1>2, RefreshSound
<1> QED BY <1>1, <1>2 DEF RequestRefresh

\* It waits no longer.
LEMMA ReleaseRefreshSound ==
  ASSUME NEW s, Sound(s), NEW t \in ReleaseRefresh(s)
  PROVE  Sound(t) /\ t.w.begun = s.w.begun
BY RefreshSound DEF ReleaseRefresh

\* A tunnel without its guard is stopped.
LEMMA StopTunnelSound ==
  ASSUME NEW s, Sound(s), NEW t \in StopTunnel(s)
  PROVE  Sound(t) /\ t.w.begun = s.w.begun
<1>0. s.w \in Window /\ s.h \in Host /\ s = [w |-> s.w, h |-> s.h] /\ HostKnown(s)
  BY Parts
<1>1. CASE t = s
  BY <1>1
<1>2. CASE t = [s EXCEPT !.h.tunnel = FALSE]
  <2>1. t.h = [s.h EXCEPT !.tunnel = FALSE] /\ t.w = s.w /\ t \in Situation
    BY <1>2, <1>0 DEF Situation, Host
  <2>2. /\ t.h.helper = s.h.helper /\ t.h.table = s.h.table /\ t.h.required = s.h.required
        /\ t.h.feature = s.h.feature
    BY <2>1, <1>0 DEF Host
  <2>3. Quiet(s, t)
    BY <2>1, <2>2 DEF Quiet
  <2>4. HostKnown(t)
    BY <2>1, <2>2, <1>0 DEF HostKnown
  <2> QED BY <2>3, <2>4, QuietSound
<1> QED BY <1>1, <1>2 DEF StopTunnel

\* The check of the guard came through.
LEMMA TriedSound ==
  ASSUME NEW s, Sound(s), NEW t, t = Tried(s)
  PROVE  Sound(t) /\ t.w.begun = s.w.begun /\ t.h = s.h /\ t.w.busy = s.w.busy
<1>0. s.w \in Window /\ s.h \in Host /\ s = [w |-> s.w, h |-> s.h] /\ HostKnown(s)
  BY Parts
<1>1. t.w = [s.w EXCEPT !.tried = TRUE] /\ t.h = s.h /\ t \in Situation
  BY <1>0 DEF Tried, Situation, Window
<1>2. Quiet(s, t) /\ t.w.status = s.w.status /\ t.w.settled = s.w.settled
  <2>1. t \in Situation
    BY <1>1, <1>0 DEF Situation
  <2>2. /\ t.w.dialogs = s.w.dialogs /\ t.w.installs = s.w.installs /\ t.w.jobs = s.w.jobs
        /\ t.w.busy = s.w.busy /\ t.w.crossed = s.w.crossed /\ t.w.begun = s.w.begun
        /\ t.w.attempted = s.w.attempted /\ t.w.settled = s.w.settled
        /\ t.w.status = s.w.status /\ t.h.helper = s.h.helper
    BY <1>1, <1>0 DEF Window
  <2> QED BY <2>1, <2>2 DEF Quiet
<1>3. HostKnown(t)
  BY <1>1, <1>2, <1>0 DEF HostKnown
<1> QED BY <1>1, <1>2, <1>3, QuietSound DEF Quiet

-----------------------------------------------------------------------------
(***************************************************************************)
(* The functions that handlers share.                                       *)
(***************************************************************************)
\* A connection begins, asks about the helper, or neither.
LEMMA ConnectRegionSound ==
  ASSUME NEW s, Sound(s), NEW who \in {"user", "auto"}, who = "auto" => Fresh(s),
         ~s.h.helper => ~s.w.busy, NEW t \in ConnectRegion(s, who)
  PROVE  Follows(s.w.begun, t)
<1>1. CASE s.h.helper
  BY <1>1, ConnectReadySound DEF ConnectRegion
<1>2. CASE ~s.h.helper /\ t = Open(s, who)
  <2>1. who \in Dialogs
    BY DEF Dialogs, Askers
  <2> QED BY <1>2, <2>1, OpenSound
<1>3. CASE t = s
  BY <1>3, SoundFollows
<1> QED BY <1>1, <1>2, <1>3 DEF ConnectRegion

\* The automatic connection is decided on, waits or is skipped.
LEMMA MaybeAutoConnectSound ==
  ASSUME NEW s, Sound(s), NEW t \in MaybeAutoConnect(s)
  PROVE  Follows(s.w.begun, t)
<1>0. s.w \in Window /\ s.h \in Host /\ s = [w |-> s.w, h |-> s.h] /\ HostKnown(s)
  BY Parts
<1>1. CASE t = s \/ t = Attempted(s)
  BY <1>1, AttemptedSound, SoundFollows
<1>2. CASE /\ ~s.w.attempted /\ s.w.credentials
           /\ s.w.refreshed # "no" /\ (s.w.refreshed = "ok" => s.w.settled = Checks)
           /\ s.w.refreshed # "failed" /\ ~s.w.busy
           /\ t \in ConnectRegion(Attempted(s), "auto")
  <2> DEFINE u == Attempted(s)
  <2>1. /\ Sound(u) /\ u.w.begun = s.w.begun /\ u.h = s.h
        /\ u.w.attempted = TRUE /\ u.w.settled = s.w.settled /\ u.w.busy = s.w.busy
        /\ u.w.installs = s.w.installs /\ u.w.dialogs = s.w.dialogs
    BY AttemptedSound
  <2>2. s.w.settled = Checks
    BY <1>2, <1>0 DEF Window
  <2>3. Fresh(u)
    BY <1>2, <2>1, <2>2 DEF Sound, AutoOnce, Fresh
  <2> HIDE DEF u
  <2>4. t \in ConnectRegion(u, "auto")
    BY <1>2 DEF u
  <2>5. Follows(u.w.begun, t)
    BY <1>2, <2>1, <2>3, <2>4, ConnectRegionSound
  <2> QED BY <2>1, <2>5
<1> QED BY <1>1, <1>2 DEF MaybeAutoConnect

\* The first start goes on after its dialog.
LEMMA FlowSound ==
  ASSUME NEW s, Sound(s), NEW ready \in BOOLEAN, NEW t \in Flow(s, ready)
  PROVE  Follows(s.w.begun, t)
<1>0. s.w \in Window /\ s.h \in Host /\ s = [w |-> s.w, h |-> s.h] /\ HostKnown(s)
  BY Parts
<1> DEFINE u == [s EXCEPT !.w.flow = TRUE, !.w.credentials = ready]
           v == [s.w EXCEPT !.flow = TRUE, !.credentials = ready]
<1>1. u.w = v /\ u.h = s.h /\ u = [w |-> u.w, h |-> u.h]
  <2>1. u = [s EXCEPT !.w.flow = TRUE, !.w.credentials = ready]
    OBVIOUS
  <2> HIDE DEF u
  <2>2. u.w = v
    BY <1>0, <2>1 DEF Window
  <2>3. u.h = s.h /\ u = [w |-> u.w, h |-> u.h]
    BY <1>0, <2>1
  <2> QED BY <2>2, <2>3
<1>2. v \in Window
  BY <1>0 DEF Window
<1> HIDE DEF u
<1>3. Quiet(s, u) /\ u.w.status = s.w.status /\ u.w.settled = s.w.settled
  <2>1. u \in Situation
    BY <1>1, <1>2, <1>0 DEF Situation
  <2>2. /\ u.w.dialogs = s.w.dialogs /\ u.w.installs = s.w.installs /\ u.w.jobs = s.w.jobs
        /\ u.w.busy = s.w.busy /\ u.w.crossed = s.w.crossed /\ u.w.begun = s.w.begun
        /\ u.w.attempted = s.w.attempted /\ u.w.settled = s.w.settled
        /\ u.w.status = s.w.status /\ u.h.helper = s.h.helper
    BY <1>1, <1>2, <1>0 DEF Window
  <2> QED BY <2>1, <2>2 DEF Quiet
<1>4. HostKnown(u)
  BY <1>1, <1>3, <1>0 DEF HostKnown
<1>5. Sound(u) /\ u.w.begun = s.w.begun
  BY <1>3, <1>4, QuietSound
<1>6. Sound(RequestRefresh(u)) /\ RequestRefresh(u).w.begun = s.w.begun
  BY <1>5, RequestRefreshSound
<1>7. t \in MaybeAutoConnect(RequestRefresh(u))
  BY DEF Flow, u
<1> QED BY <1>6, <1>7, MaybeAutoConnectSound

\* A check is settled: the one of the kill switch only when the feature is on for a lock.
LEMMA SettleSound ==
  ASSUME NEW s, Sound(s), NEW check \in Checks, check = "ks" /\ s.h.table => s.h.feature,
         NEW t \in Settle(s, check)
  PROVE  Follows(s.w.begun, t)
<1>0. s.w \in Window /\ s.h \in Host /\ s = [w |-> s.w, h |-> s.h] /\ HostKnown(s)
  BY Parts
<1> DEFINE settled == s.w.settled \cup {check}
           u == [s EXCEPT !.w.settled = @ \cup {check}]
           v == [s.w EXCEPT !.settled = settled]
<1>1. u.w = v /\ u.h = s.h /\ u = [w |-> u.w, h |-> u.h]
  <2>1. u = [s EXCEPT !.w.settled = @ \cup {check}]
    OBVIOUS
  <2> HIDE DEF u
  <2>2. u.w = v
    BY <1>0, <2>1 DEF Window
  <2>3. u.h = s.h /\ u = [w |-> u.w, h |-> u.h]
    BY <1>0, <2>1
  <2> QED BY <2>2, <2>3
<1>2. settled \in SUBSET Checks /\ s.w.settled \subseteq settled
  BY <1>0 DEF Window
<1> HIDE DEF u
<1>3. u.w.settled = settled
  BY <1>1, <1>0 DEF Window
<1>4. v \in Window
  <2> HIDE DEF settled
  <2> QED BY <1>2, <1>0 DEF Window
<1>5. Quiet(s, u) /\ u.w.status = s.w.status
  <2> HIDE DEF settled
  <2>1. u \in Situation
    BY <1>0, <1>1, <1>4 DEF Situation
  <2>2. /\ u.w.dialogs = s.w.dialogs /\ u.w.installs = s.w.installs /\ u.w.jobs = s.w.jobs
        /\ u.w.busy = s.w.busy /\ u.w.crossed = s.w.crossed /\ u.w.begun = s.w.begun
        /\ u.w.attempted = s.w.attempted /\ u.w.status = s.w.status /\ u.h.helper = s.h.helper
    BY <1>0, <1>1 DEF Window
  <2> QED BY <1>2, <1>3, <2>1, <2>2 DEF Quiet
<1>6. HostKnown(u)
  BY <1>1, <1>3, <1>5, <1>0 DEF HostKnown
<1>7. Sound(u) /\ u.w.begun = s.w.begun
  BY <1>5, <1>6, QuietSound
<1>8. t \in MaybeAutoConnect(u)
  BY DEF Settle, u
<1> QED BY <1>7, <1>8, MaybeAutoConnectSound

\* A job begins on an idle window.
LEMMA StartSound ==
  ASSUME NEW s, Sound(s), NEW job \in Jobs, ~s.w.busy,
         s.h.helper \/ s.w.dialogs = << >>, NEW t \in Start(s, job)
  PROVE  Follows(s.w.begun, t)
<1>0. s.w \in Window /\ s.h \in Host /\ s = [w |-> s.w, h |-> s.h] /\ HostKnown(s)
  BY Parts
<1> DEFINE jobs == s.w.jobs \cup {job}
           v == [s.w EXCEPT !.busy = TRUE, !.jobs = jobs]
<1>1. t.w = v /\ t.h = s.h /\ t = [w |-> t.w, h |-> t.h]
  BY <1>0 DEF Start, Window
<1>2. jobs \in SUBSET Jobs
  BY <1>0 DEF Window
<1>3. v.jobs = s.w.jobs \cup {job}
  BY <1>0 DEF Window
<1> HIDE DEF jobs
<1>4. v \in Window
  BY <1>2, <1>0 DEF Window
<1>5. /\ v.busy = TRUE /\ v.begun = s.w.begun /\ v.installs = s.w.installs
      /\ v.dialogs = s.w.dialogs /\ v.crossed = s.w.crossed /\ v.attempted = s.w.attempted
      /\ v.settled = s.w.settled /\ v.status = s.w.status
  BY <1>0 DEF Window
<1> HIDE DEF v
<1>6. t \in Situation
  BY <1>1, <1>4, <1>0 DEF Situation
<1>7. HostKnown(t)
  BY <1>1, <1>5, <1>0 DEF HostKnown
<1>8. AutoOnce(t.w)
  BY <1>1, <1>5 DEF Sound, AutoOnce
<1>9. ~t.w.crossed => One(t.w)
  <2>1. ~t.w.crossed => s.w.jobs = {} /\ s.w.installs = {}
    BY <1>1, <1>5 DEF Sound, Single, Idle
  <2> QED BY <1>1, <1>3, <1>5, <2>1 DEF One
<1>10. ~t.w.crossed => \A who \in Askers : ~Has(t.w.dialogs, who)
  <2>1. CASE s.h.helper
    BY <1>1, <1>5, <2>1 DEF Sound, Single
  <2>2. CASE s.w.dialogs = << >>
    BY <1>1, <1>5, <2>2 DEF Has
  <2> QED BY <2>1, <2>2
<1>11. Single(t)
  BY <1>1, <1>5, <1>9, <1>10 DEF Sound, Single
<1>12. Sound(t)
  BY <1>6, <1>7, <1>8, <1>11 DEF Sound
<1> QED BY <1>1, <1>5, <1>12, SoundFollows

\* The check of the kill switch begins, asks, or has nothing to check.
LEMMA ReconcileKillSwitchSound ==
  ASSUME NEW s, Sound(s), NEW checked \in BOOLEAN, checked => s.h.helper,
         NEW t \in ReconcileKillSwitch(s, checked)
  PROVE  Follows(s.w.begun, t)
<1>0. s.w \in Window /\ s.h \in Host /\ s = [w |-> s.w, h |-> s.h] /\ HostKnown(s)
  BY Parts
<1>1. CASE t = s
  BY <1>1, SoundFollows
<1>2. CASE ~s.h.required /\ t \in Settle(s, "ks")
  <2>1. ~s.h.table
    BY <1>2, <1>0 DEF HostKnown
  <2> QED BY <1>2, <2>1, SettleSound DEF Checks
<1>3. CASE ~s.w.busy /\ s.h.helper /\ t \in Start(s, "ks")
  BY <1>3, StartSound DEF Jobs, Askers, Checks
<1>4. CASE ~s.w.busy /\ ~s.h.helper /\ t = Open(s, "ks")
  BY <1>4, OpenSound DEF Dialogs, Askers, Checks
<1>5. CASE t = [s EXCEPT !.w.status = "error"]
  BY <1>5, StatusSound, SoundFollows
<1>6. /\ s.w.busy \in BOOLEAN /\ s.h.helper \in BOOLEAN /\ s.h.required \in BOOLEAN
  BY <1>0 DEF Window, Host
<1> QED BY <1>1, <1>2, <1>3, <1>4, <1>5, <1>6 DEF ReconcileKillSwitch

\* So does the check of the guard,
LEMMA CheckIPv6GuardSound ==
  ASSUME NEW s, Sound(s), NEW checked \in BOOLEAN, checked => s.h.helper,
         ~s.h.feature => ~s.w.busy, NEW t \in CheckIPv6Guard(s, checked)
  PROVE  Follows(s.w.begun, t)
<1>1. CASE t \in Settle(s, "v6")
  BY <1>1, SettleSound DEF Checks
<1>2. CASE ~s.w.busy /\ s.h.helper /\ t \in Start(s, "v6")
  BY <1>2, StartSound DEF Jobs, Askers, Checks
<1>3. CASE ~s.w.busy /\ ~s.h.helper /\ t = Open(s, "v6")
  BY <1>3, OpenSound DEF Dialogs, Askers, Checks
<1>4. CASE t \in StopTunnel(s)
  BY <1>4, StopTunnelSound, SoundFollows
<1> QED BY <1>1, <1>2, <1>3, <1>4 DEF CheckIPv6Guard

\* which comes again later on a busy window.
LEMMA ReconcileIPv6GuardSound ==
  ASSUME NEW s, Sound(s), NEW checked \in BOOLEAN, checked => s.h.helper,
         NEW t \in ReconcileIPv6Guard(s, checked)
  PROVE  Follows(s.w.begun, t)
<1>0. s.w \in Window /\ s.h \in Host /\ s = [w |-> s.w, h |-> s.h] /\ HostKnown(s)
  BY Parts
<1>1. CASE t = [s EXCEPT !.w.due = @ \cup {"v6"}]
  <2> DEFINE due == s.w.due \cup {"v6"}
             v == [s.w EXCEPT !.due = due]
  <2>1. t.w = v /\ t.h = s.h /\ t = [w |-> t.w, h |-> t.h]
    BY <1>1, <1>0 DEF Window
  <2>2. due \in SUBSET {"first", "ks", "v6", "refresh"}
    BY <1>0 DEF Window
  <2> HIDE DEF due
  <2>3. v \in Window
    BY <2>2, <1>0 DEF Window
  <2>4. Quiet(s, t) /\ t.w.status = s.w.status /\ t.w.settled = s.w.settled
    <3>1. t \in Situation
      BY <2>1, <2>3, <1>0 DEF Situation
    <3>2. /\ t.w.dialogs = s.w.dialogs /\ t.w.installs = s.w.installs /\ t.w.jobs = s.w.jobs
          /\ t.w.busy = s.w.busy /\ t.w.crossed = s.w.crossed /\ t.w.begun = s.w.begun
          /\ t.w.attempted = s.w.attempted /\ t.w.settled = s.w.settled
          /\ t.w.status = s.w.status /\ t.h.helper = s.h.helper
      BY <2>1, <2>3, <1>0 DEF Window
    <3> QED BY <3>1, <3>2 DEF Quiet
  <2>5. HostKnown(t)
    BY <2>1, <2>4, <1>0 DEF HostKnown
  <2> QED BY <2>4, <2>5, QuietSound
<1>2. CASE (~s.h.feature => ~s.w.busy) /\ t \in CheckIPv6Guard(Tried(s), checked)
  <2>1. /\ Sound(Tried(s)) /\ Tried(s).w.begun = s.w.begun /\ Tried(s).h = s.h
        /\ Tried(s).w.busy = s.w.busy
    BY TriedSound
  <2> QED BY <1>2, <2>1, CheckIPv6GuardSound
<1> QED BY <1>1, <1>2 DEF ReconcileIPv6Guard

\* What waited for the helper goes on, on an idle window,
LEMMA ReadySound ==
  ASSUME NEW s, Sound(s), NEW who \in Askers, s.h.helper, who = "auto" => Fresh(s),
         NEW t \in Ready(s, who)
  PROVE  Follows(s.w.begun, t)
<1>1. CASE who = "ks"
  BY <1>1, ReconcileKillSwitchSound DEF Ready
<1>2. CASE who = "v6"
  BY <1>2, ReconcileIPv6GuardSound DEF Ready
<1>3. CASE who \in {"user", "auto"}
  BY <1>3, ConnectReadySound DEF Ready
<1> QED BY <1>1, <1>2, <1>3 DEF Askers, Checks

\* or is given up.
LEMMA CancelledSound ==
  ASSUME NEW s, Sound(s), NEW who \in Askers, NEW t \in Cancelled(s, who)
  PROVE  Follows(s.w.begun, t)
BY StatusSound, StopTunnelSound, SoundFollows DEF Cancelled

-----------------------------------------------------------------------------
(***************************************************************************)
(* The invariant of the processes.                                          *)
(***************************************************************************)
\* Where a process has the lock file.
Holding == {"probe", "clean", "listen", "window"}

\* The lock admits one process at a time.
Claims ==
  /\ pc \in [Procs -> {"off", "claim", "probe", "clean", "listen", "window", "gone"}]
  /\ lock \in Procs \cup {None} /\ socket \in Procs \cup {Older, None} /\ clicks \in 0 .. Clicks
  /\ \A p \in Procs : pc[p] \in Holding => lock = p

\* The inductive invariant.
StartInv ==
  /\ Claims
  /\ win \in [Procs -> Window] /\ host \in Host
  /\ \A p \in Procs : Sound(Now(p)) /\ (At(p, "window") \/ win[p] = NoWindow)

\* What a handler of the window does.
Handled(p) ==
  /\ At(p, "window") /\ UNCHANGED <<pc, lock, socket>> /\ clicks' \in 0 .. Clicks
  /\ \E t : Follows(win[p].begun, t) /\ win' = [win EXCEPT ![p] = t.w] /\ host' = t.h

\* To show that a step is a handler's, show where its function may return.
LEMMA BecomesHandled ==
  ASSUME NEW p \in Procs, NEW S, Becomes(p, S), \A t \in S : Follows(win[p].begun, t),
         clicks' \in 0 .. Clicks
  PROVE  Handled(p)
BY DEF Becomes, Handled

\* The situation a handler begins in.
LEMMA SoundNow ==
  ASSUME StartInv, NEW p \in Procs
  PROVE  /\ Sound(Now(p)) /\ Now(p).w = win[p] /\ Now(p).h = host
         /\ win[p] \in Window /\ host \in Host /\ clicks \in 0 .. Clicks
BY DEF StartInv, Claims, Now

\* No window, or a new one, knows nothing.
LEMMA EmptySound ==
  ASSUME NEW h \in Host, h.table => h.required, NEW v \in {NoWindow, NewWindow}
  PROVE  Sound([w |-> v, h |-> h]) /\ v \in Window
<1> DEFINE s == [w |-> v, h |-> h]
<1>1. NoWindow \in Window /\ NewWindow \in Window
  <2>1. << >> \in Seq({"credentials"} \cup Askers) /\ 0 \in 0 .. 2
    OBVIOUS
  <2>2. NoWindow \in Window
    BY <2>1 DEF NoWindow, Window
  <2>3. NewWindow = [NoWindow EXCEPT !.due = {"first", "ks", "v6"}]
    BY DEF NewWindow
  <2> QED BY <2>2, <2>3 DEF Window
<1>2. /\ v.status = "none" /\ v.settled = {} /\ v.begun = 0 /\ v.installs = {} /\ v.jobs = {}
      /\ v.dialogs = << >> /\ v.busy = FALSE
  BY DEF NoWindow, NewWindow
<1>3. s.w = v /\ s.h = h /\ s \in Situation
  BY <1>1 DEF Situation
<1> HIDE DEF s
<1>4. \A x : ~Has(v.dialogs, x)
  BY <1>2 DEF Has
<1>5. Once(v.dialogs, "auto") /\ Len(v.dialogs) <= 1
  BY <1>2 DEF Once
<1>6. HostKnown(s)
  BY <1>2, <1>3 DEF HostKnown
<1>7. AutoOnce(s.w)
  BY <1>2, <1>3, <1>4, <1>5 DEF AutoOnce
<1>8. Single(s)
  BY <1>2, <1>3, <1>4, <1>5 DEF Single, Idle
<1> QED BY <1>1, <1>3, <1>6, <1>7, <1>8 DEF Sound, s

-----------------------------------------------------------------------------
(***************************************************************************)
(* Timers and dialogs.                                                      *)
(***************************************************************************)
\* A timer is taken off the queue.
LEMMA FireSound ==
  ASSUME StartInv, NEW p \in Procs, NEW timer, NEW s, s = Fire(p, timer)
  PROVE  Sound(s) /\ s.w.begun = win[p].begun
<1> DEFINE n == Now(p)
           due == win[p].due \ {timer}
           v == [win[p] EXCEPT !.due = due]
<1>0. Sound(n) /\ n.w = win[p] /\ n.h = host /\ n = [w |-> n.w, h |-> n.h]
      /\ win[p] \in Window /\ host \in Host /\ HostKnown(n)
  BY SoundNow, Parts DEF Now
<1>1. s = [n EXCEPT !.w.due = @ \ {timer}]
  BY DEF Fire
<1> HIDE DEF n
<1>2. s.w = v /\ s.h = host /\ s = [w |-> s.w, h |-> s.h]
  BY <1>0, <1>1 DEF Window
<1>3. due \in SUBSET {"first", "ks", "v6", "refresh"}
  BY <1>0 DEF Window
<1> HIDE DEF due
<1>4. v \in Window
  BY <1>0, <1>3 DEF Window
<1>5. Quiet(n, s) /\ s.w.status = n.w.status /\ s.w.settled = n.w.settled
  <2>1. s \in Situation
    BY <1>0, <1>2, <1>4 DEF Situation
  <2>2. /\ s.w.dialogs = n.w.dialogs /\ s.w.installs = n.w.installs /\ s.w.jobs = n.w.jobs
        /\ s.w.busy = n.w.busy /\ s.w.crossed = n.w.crossed /\ s.w.begun = n.w.begun
        /\ s.w.attempted = n.w.attempted /\ s.w.settled = n.w.settled
        /\ s.w.status = n.w.status /\ s.h.helper = n.h.helper
    BY <1>0, <1>2, <1>4 DEF Window
  <2> QED BY <2>1, <2>2 DEF Quiet
<1>6. HostKnown(s)
  BY <1>0, <1>2, <1>5 DEF HostKnown
<1> QED BY <1>0, <1>5, <1>6, QuietSound

\* _first_start, with its dialog or without.
LEMMA FirstStartHandled ==
  ASSUME StartInv, NEW p \in Procs, FirstStart(p)
  PROVE  Handled(p)
<1> DEFINE s == Fire(p, "first")
<1>1. Sound(s) /\ s.w.begun = win[p].begun
  BY FireSound
<1>2. Becomes(p, Flow(s, TRUE) \cup {Open(s, "credentials")}) /\ clicks' \in 0 .. Clicks
  BY SoundNow DEF FirstStart
<1> HIDE DEF s
<1>3. ASSUME NEW t \in Flow(s, TRUE) PROVE Follows(win[p].begun, t)
  BY <1>1, FlowSound
<1>4. Follows(win[p].begun, Open(s, "credentials"))
  BY <1>1, OpenSound DEF Dialogs, Askers, Checks
<1> QED BY <1>2, <1>3, <1>4, BecomesHandled

\* _reconcile_kill_switch_startup.
LEMMA KillSwitchTimerHandled ==
  ASSUME StartInv, NEW p \in Procs, KillSwitchTimer(p)
  PROVE  Handled(p)
<1> DEFINE s == Fire(p, "ks")
<1>1. Sound(s) /\ s.w.begun = win[p].begun
  BY FireSound
<1>2. Becomes(p, ReconcileKillSwitch(s, FALSE)) /\ clicks' \in 0 .. Clicks
  BY SoundNow DEF KillSwitchTimer
<1> HIDE DEF s
<1>3. ASSUME NEW t \in ReconcileKillSwitch(s, FALSE) PROVE Follows(win[p].begun, t)
  BY <1>1, ReconcileKillSwitchSound
<1> QED BY <1>2, <1>3, BecomesHandled

\* _reconcile_ipv6_guard_startup.
LEMMA IPv6GuardTimerHandled ==
  ASSUME StartInv, NEW p \in Procs, IPv6GuardTimer(p)
  PROVE  Handled(p)
<1> DEFINE s == Fire(p, "v6")
<1>1. Sound(s) /\ s.w.begun = win[p].begun
  BY FireSound
<1>2. Becomes(p, ReconcileIPv6Guard(s, FALSE)) /\ clicks' \in 0 .. Clicks
  BY SoundNow DEF IPv6GuardTimer
<1> HIDE DEF s
<1>3. ASSUME NEW t \in ReconcileIPv6Guard(s, FALSE) PROVE Follows(win[p].begun, t)
  BY <1>1, ReconcileIPv6GuardSound
<1> QED BY <1>2, <1>3, BecomesHandled

\* What loads the server list touches nothing else.
LEMMA LoadRegionsSound ==
  ASSUME NEW s, Sound(s), NEW regions \in {"rest", "refresh", "ping"}, NEW t,
         t = [s EXCEPT !.w.regions = regions]
  PROVE  Sound(t) /\ t.w.begun = s.w.begun
<1>0. s.w \in Window /\ s.h \in Host /\ s = [w |-> s.w, h |-> s.h] /\ HostKnown(s)
  BY Parts
<1>1. t.w = [s.w EXCEPT !.regions = regions] /\ t.h = s.h /\ t = [w |-> t.w, h |-> t.h]
  BY <1>0 DEF Window
<1>2. t.w \in Window
  BY <1>0, <1>1 DEF Window
<1>3. Quiet(s, t) /\ t.w.status = s.w.status /\ t.w.settled = s.w.settled
  <2>1. t \in Situation
    BY <1>0, <1>1, <1>2 DEF Situation
  <2>2. /\ t.w.dialogs = s.w.dialogs /\ t.w.installs = s.w.installs /\ t.w.jobs = s.w.jobs
        /\ t.w.busy = s.w.busy /\ t.w.crossed = s.w.crossed /\ t.w.begun = s.w.begun
        /\ t.w.attempted = s.w.attempted /\ t.w.settled = s.w.settled
        /\ t.w.status = s.w.status /\ t.h.helper = s.h.helper
    BY <1>0, <1>1, <1>2 DEF Window
  <2> QED BY <2>1, <2>2 DEF Quiet
<1>4. HostKnown(t)
  BY <1>0, <1>1, <1>3 DEF HostKnown
<1> QED BY <1>3, <1>4, QuietSound

\* refresh_regions.
LEMMA RefreshTimerHandled ==
  ASSUME StartInv, NEW p \in Procs, RefreshTimer(p)
  PROVE  Handled(p)
<1> DEFINE s == Fire(p, "refresh")
<1>1. Sound(s) /\ s.w.begun = win[p].begun
  BY FireSound
<1>2. Becomes(p, {LoadRegions(s)}) /\ clicks' \in 0 .. Clicks
  BY SoundNow DEF RefreshTimer
<1> HIDE DEF s
<1>3. Sound(LoadRegions(s)) /\ LoadRegions(s).w.begun = s.w.begun
  BY <1>1, LoadRegionsSound DEF LoadRegions
<1>4. Follows(win[p].begun, LoadRegions(s))
  BY <1>1, <1>3, SoundFollows
<1> QED BY <1>2, <1>4, BecomesHandled

\* The inmost dialog is gone; a question of the automatic connection was its only one,
\* and a question about the helper stood alone unless dialogs were nested.
LEMMA ClosedSound ==
  ASSUME StartInv, NEW p \in Procs, win[p].dialogs # << >>, NEW s, s = Closed(p),
         NEW who, who = win[p].dialogs[Len(win[p].dialogs)]
  PROVE  /\ Sound(s) /\ s.w.begun = win[p].begun /\ who \in Dialogs
         /\ who = "auto" => Fresh(s)
         /\ who \in Askers /\ ~s.w.crossed => s.w.busy = FALSE /\ \A x : ~Has(s.w.dialogs, x)
<1> DEFINE n == Now(p)
           q == win[p].dialogs
           r == SubSeq(q, 1, Len(q) - 1)
           v == [win[p] EXCEPT !.dialogs = r]
<1>0. /\ Sound(n) /\ n.w = win[p] /\ n.h = host /\ n = [w |-> n.w, h |-> n.h]
      /\ win[p] \in Window /\ host \in Host /\ HostKnown(n)
  BY SoundNow, Parts DEF Now
<1>1. s = [n EXCEPT !.w.dialogs = SubSeq(@, 1, Len(@) - 1)]
  BY DEF Closed
<1> HIDE DEF n
<1>2. q \in Seq(Dialogs)
  BY <1>0 DEF Window, Dialogs
<1>3. /\ r \in Seq(Dialogs) /\ Len(r) = Len(q) - 1 /\ who \in Dialogs /\ Has(q, who)
      /\ \A x : Has(r, x) => Has(q, x)
      /\ \A x : Once(q, x) => Once(r, x)
      /\ Once(q, who) => ~Has(r, who)
  BY <1>2, FrontHas
<1>4. s.w = v /\ s.h = host /\ s = [w |-> s.w, h |-> s.h]
  BY <1>0, <1>1 DEF Window
<1> HIDE DEF r
<1>5. v \in Window
  BY <1>0, <1>3 DEF Window, Dialogs
<1>6. /\ v.dialogs = r /\ v.busy = win[p].busy /\ v.begun = win[p].begun
      /\ v.installs = win[p].installs /\ v.jobs = win[p].jobs /\ v.crossed = win[p].crossed
      /\ v.attempted = win[p].attempted /\ v.settled = win[p].settled /\ v.status = win[p].status
  BY <1>0 DEF Window
<1> HIDE DEF v
<1>7. AutoOnce(win[p]) /\ Single(n) /\ HostKnown(n)
  BY <1>0 DEF Sound
<1>8. HostKnown(s)
  BY <1>0, <1>4, <1>6, <1>7 DEF HostKnown
<1>9. AutoOnce(s.w)
  BY <1>3, <1>4, <1>6, <1>7 DEF AutoOnce
<1>10. ~s.w.crossed => Len(q) <= 1
  BY <1>0, <1>4, <1>6, <1>7 DEF Single
<1>11. ~s.w.crossed => Len(r) = 0 /\ \A x : ~Has(r, x)
  <2>1. Len(q) \in Nat /\ Len(q) # 0
    BY <1>2
  <2>2. \A i \in Nat : i <= 1 /\ i # 0 => i - 1 = 0
    OBVIOUS
  <2>3. ~s.w.crossed => Len(r) = 0
    BY <1>3, <1>10, <2>1, <2>2
  <2> QED BY <2>3 DEF Has
<1>12. Single(s)
  BY <1>0, <1>4, <1>6, <1>7, <1>11 DEF Single, One, Idle
<1>13. Sound(s)
  BY <1>0, <1>4, <1>5, <1>8, <1>9, <1>12 DEF Sound, Situation
<1>14. who = "auto" => Fresh(s)
  BY <1>3, <1>4, <1>6, <1>7 DEF AutoOnce, Fresh
<1>15. who \in Askers /\ ~s.w.crossed => s.w.busy = FALSE
  <2>1. who \in Askers /\ ~s.w.crossed => ~win[p].busy
    BY <1>0, <1>3, <1>4, <1>6, <1>7 DEF Single
  <2>2. win[p].busy \in BOOLEAN
    BY <1>0 DEF Window
  <2> QED BY <1>4, <1>6, <2>1, <2>2
<1> QED BY <1>3, <1>4, <1>6, <1>11, <1>13, <1>14, <1>15

\* A question accepted about the helper begins an installation.
LEMMA AcceptedSound ==
  ASSUME NEW s, Sound(s), NEW who \in Askers, who = "auto" => Fresh(s),
         ~s.w.crossed => s.w.busy = FALSE /\ \A x : ~Has(s.w.dialogs, x),
         NEW t, t = [s EXCEPT !.w.busy = TRUE, !.w.installs = @ \cup {who}]
  PROVE  Follows(s.w.begun, t)
<1> DEFINE installs == s.w.installs \cup {who}
           v == [s.w EXCEPT !.busy = TRUE, !.installs = installs]
<1>0. s.w \in Window /\ s.h \in Host /\ s = [w |-> s.w, h |-> s.h] /\ HostKnown(s)
  BY Parts
<1>1. t.w = v /\ t.h = s.h /\ t = [w |-> t.w, h |-> t.h]
  BY <1>0 DEF Window
<1>2. installs \in SUBSET Askers
  BY <1>0 DEF Window
<1>3. v.installs = s.w.installs \cup {who}
  BY <1>0 DEF Window
<1> HIDE DEF installs
<1>4. v \in Window
  BY <1>0, <1>2 DEF Window
<1>5. /\ v.busy = TRUE /\ v.begun = s.w.begun /\ v.jobs = s.w.jobs
      /\ v.dialogs = s.w.dialogs /\ v.crossed = s.w.crossed /\ v.attempted = s.w.attempted
      /\ v.settled = s.w.settled /\ v.status = s.w.status
  BY <1>0 DEF Window
<1> HIDE DEF v
<1>6. t \in Situation
  BY <1>0, <1>1, <1>4 DEF Situation
<1>7. HostKnown(t)
  BY <1>0, <1>1, <1>5 DEF HostKnown
<1>8. AutoOnce(t.w)
  BY <1>1, <1>3, <1>5 DEF Sound, AutoOnce, Fresh
<1>9. ~t.w.crossed => One(t.w)
  <2>1. ~t.w.crossed => s.w.jobs = {} /\ s.w.installs = {}
    BY <1>1, <1>5 DEF Sound, Single, Idle
  <2> QED BY <1>1, <1>3, <1>5, <2>1 DEF One
<1>10. Single(t)
  BY <1>1, <1>5, <1>9 DEF Sound, Single
<1>11. Sound(t)
  BY <1>6, <1>7, <1>8, <1>10 DEF Sound
<1> QED BY <1>1, <1>5, <1>11, SoundFollows

\* The inmost dialog is answered.
LEMMA AnswerDialogHandled ==
  ASSUME StartInv, NEW p \in Procs, AnswerDialog(p)
  PROVE  Handled(p)
<1> DEFINE s == Closed(p)
           who == win[p].dialogs[Len(win[p].dialogs)]
           accepted == [s EXCEPT !.w.busy = TRUE, !.w.installs = @ \cup {who}]
           S == IF who = "credentials" THEN Flow(s, TRUE) \cup Flow(s, FALSE)
                ELSE Cancelled(s, who) \cup {accepted}
<1>1. win[p].dialogs # << >> /\ Becomes(p, S) /\ clicks' \in 0 .. Clicks
  BY SoundNow DEF AnswerDialog
<1>2. /\ Sound(s) /\ s.w.begun = win[p].begun /\ who \in Dialogs
      /\ who = "auto" => Fresh(s)
      /\ who \in Askers /\ ~s.w.crossed => s.w.busy = FALSE /\ \A x : ~Has(s.w.dialogs, x)
  BY <1>1, ClosedSound
<1> HIDE DEF s, who
<1>3. ASSUME NEW t \in S, who = "credentials" PROVE Follows(win[p].begun, t)
  <2>1. t \in Flow(s, TRUE) \/ t \in Flow(s, FALSE)
    BY <1>3
  <2> QED BY <1>2, <2>1, FlowSound
<1>4. ASSUME NEW t \in S, who # "credentials" PROVE Follows(win[p].begun, t)
  <2>1. who \in Askers
    BY <1>2, <1>4 DEF Dialogs
  <2>2. t \in Cancelled(s, who) \/ t = accepted
    BY <1>4
  <2>3. CASE t \in Cancelled(s, who)
    BY <1>2, <2>1, <2>3, CancelledSound
  <2>4. CASE t = accepted
    BY <1>2, <2>1, <2>4, AcceptedSound
  <2> QED BY <2>2, <2>3, <2>4
<1> HIDE DEF S
<1> QED BY <1>1, <1>3, <1>4, BecomesHandled
-----------------------------------------------------------------------------
(***************************************************************************)
(* The slots of the jobs.                                                   *)
(***************************************************************************)
\* The window v becomes w, which shows a status.
Shows(v, w, status) == w = [v EXCEPT !.status = status]

\* An effect on the host, with the status the window then shows.
LEMMA HostStatusSound ==
  ASSUME NEW s, Sound(s), NEW t \in Situation,
         NEW status \in {"none", "absent", "present", "error"}, Shows(s.w, t.w, status),
         t.h.helper = s.h.helper, t.h.table => t.h.required, status = "absent" => ~t.h.table,
         "ks" \in s.w.settled /\ t.h.table => t.h.feature
  PROVE  Sound(t) /\ t.w.begun = s.w.begun
<1>0. s.w \in Window
  BY Parts
<1>1. /\ t.w.status = status /\ t.w.settled = s.w.settled
      /\ t.w.dialogs = s.w.dialogs /\ t.w.installs = s.w.installs /\ t.w.jobs = s.w.jobs
      /\ t.w.busy = s.w.busy /\ t.w.crossed = s.w.crossed /\ t.w.begun = s.w.begun
      /\ t.w.attempted = s.w.attempted
  BY <1>0 DEF Window, Shows
<1>2. Quiet(s, t)
  BY <1>1 DEF Quiet
<1>3. HostKnown(t)
  BY <1>1 DEF HostKnown
<1> QED BY <1>1, <1>2, <1>3, QuietSound

\* The job or the installation that has ended was the only one, or dialogs were nested.
LEMMA EndedSound ==
  ASSUME StartInv, NEW p \in Procs, NEW job \in win[p].jobs, NEW s, s = Ended(p, job)
  PROVE  Sound(s) /\ s.w.begun = win[p].begun /\ s.h = host
<1> DEFINE n == Now(p)
           jobs == win[p].jobs \ {job}
           v == [win[p] EXCEPT !.busy = FALSE, !.jobs = jobs]
<1>0. /\ Sound(n) /\ n.w = win[p] /\ n.h = host /\ n = [w |-> n.w, h |-> n.h]
      /\ win[p] \in Window /\ host \in Host /\ HostKnown(n) /\ AutoOnce(win[p]) /\ Single(n)
  BY SoundNow, Parts DEF Now, Sound
<1>1. s = [n EXCEPT !.w.busy = FALSE, !.w.jobs = @ \ {job}]
  BY DEF Ended
<1> HIDE DEF n
<1>2. s.w = v /\ s.h = host /\ s = [w |-> s.w, h |-> s.h]
  BY <1>0, <1>1 DEF Window
<1>3. jobs \in SUBSET Jobs /\ v.jobs = win[p].jobs \ {job}
  BY <1>0 DEF Window
<1> HIDE DEF jobs
<1>4. v \in Window
  BY <1>0, <1>3 DEF Window
<1>5. /\ v.busy = FALSE /\ v.begun = win[p].begun /\ v.installs = win[p].installs
      /\ v.dialogs = win[p].dialogs /\ v.crossed = win[p].crossed
      /\ v.attempted = win[p].attempted /\ v.settled = win[p].settled /\ v.status = win[p].status
  BY <1>0 DEF Window
<1> HIDE DEF v
<1>6. HostKnown(s)
  BY <1>0, <1>2, <1>5 DEF HostKnown
<1>7. AutoOnce(s.w)
  BY <1>0, <1>2, <1>5 DEF AutoOnce
<1>8. ~s.w.crossed => win[p].busy /\ One(win[p])
  BY <1>0, <1>2, <1>5 DEF Single, Idle
<1>9. ~s.w.crossed => Idle(s.w)
  BY <1>2, <1>3, <1>5, <1>8 DEF One, Idle
<1>10. ~s.w.crossed => Len(s.w.dialogs) <= 1 /\ \A who \in Askers : ~Has(s.w.dialogs, who)
  BY <1>0, <1>2, <1>5, <1>8 DEF Single
<1>11. Single(s)
  BY <1>2, <1>5, <1>9, <1>10 DEF Single
<1>12. Sound(s)
  BY <1>0, <1>2, <1>4, <1>6, <1>7, <1>11 DEF Sound, Situation
<1> QED BY <1>2, <1>5, <1>12

\* The situation after an installation, without and with the helper.
InstallationEnded(p, who) == [Now(p) EXCEPT !.w.busy = FALSE, !.w.installs = @ \ {who}]
WithHelper(s) == [s EXCEPT !.h.helper = TRUE]

\* An installation has ended, and the helper may be current.
LEMMA InstallationEndedSound ==
  ASSUME StartInv, NEW p \in Procs, NEW who \in win[p].installs
  PROVE  LET s == InstallationEnded(p, who)
             u == WithHelper(s)
         IN  /\ Sound(s) /\ s.w.begun = win[p].begun
             /\ Sound(u) /\ u.w.begun = win[p].begun /\ u.h.helper = TRUE
             /\ who = "auto" => Fresh(u)
<1> DEFINE s == InstallationEnded(p, who)
           u == WithHelper(s)
           n == Now(p)
           installs == win[p].installs \ {who}
           v == [win[p] EXCEPT !.busy = FALSE, !.installs = installs]
           g == [host EXCEPT !.helper = TRUE]
<1>0. /\ Sound(n) /\ n.w = win[p] /\ n.h = host /\ n = [w |-> n.w, h |-> n.h]
      /\ win[p] \in Window /\ host \in Host /\ HostKnown(n) /\ AutoOnce(win[p]) /\ Single(n)
  BY SoundNow, Parts DEF Now, Sound
<1>1. /\ s = [n EXCEPT !.w.busy = FALSE, !.w.installs = @ \ {who}]
      /\ u = [s EXCEPT !.h.helper = TRUE]
  BY DEF InstallationEnded, WithHelper
<1> HIDE DEF n, s, u
<1>2. s.w = v /\ s.h = host /\ s = [w |-> s.w, h |-> s.h]
  BY <1>0, <1>1 DEF Window
<1>3. /\ installs \in SUBSET Askers /\ v.installs = win[p].installs \ {who} /\ who \in Askers
  BY <1>0 DEF Window
<1> HIDE DEF installs
<1>4. v \in Window
  BY <1>0, <1>3 DEF Window
<1>5. /\ v.busy = FALSE /\ v.begun = win[p].begun /\ v.jobs = win[p].jobs
      /\ v.dialogs = win[p].dialogs /\ v.crossed = win[p].crossed
      /\ v.attempted = win[p].attempted /\ v.settled = win[p].settled /\ v.status = win[p].status
  BY <1>0 DEF Window
<1> HIDE DEF v
<1>6. u.w = v /\ u.h = g /\ u = [w |-> u.w, h |-> u.h]
  BY <1>1, <1>2
<1>7. /\ g \in Host /\ g.helper = TRUE /\ g.table = host.table /\ g.required = host.required
      /\ g.feature = host.feature
  BY <1>0 DEF Host
<1> HIDE DEF g
<1>8. HostKnown(s) /\ HostKnown(u)
  <2>1. HostKnown(s)
    BY <1>0, <1>2, <1>5 DEF HostKnown
  <2>2. HostKnown(u)
    BY <1>0, <1>5, <1>6, <1>7 DEF HostKnown
  <2> QED BY <2>1, <2>2
<1>9. AutoOnce(v)
  BY <1>0, <1>3, <1>5 DEF AutoOnce
<1>10. ~v.crossed => win[p].busy /\ One(win[p])
  BY <1>0, <1>5 DEF Single, Idle
<1>11. ~v.crossed => Idle(v)
  BY <1>3, <1>5, <1>10 DEF One, Idle
<1>12. ~v.crossed => Len(v.dialogs) <= 1 /\ \A a \in Askers : ~Has(v.dialogs, a)
  BY <1>0, <1>5, <1>10 DEF Single
<1>13. Single(s) /\ Single(u)
  BY <1>2, <1>5, <1>6, <1>11, <1>12 DEF Single
<1>14. Sound(s) /\ Sound(u)
  BY <1>0, <1>2, <1>4, <1>6, <1>7, <1>8, <1>9, <1>13 DEF Sound, Situation
<1>15. who = "auto" => Fresh(u)
  BY <1>0, <1>3, <1>5, <1>6 DEF AutoOnce, Fresh
<1> QED BY <1>2, <1>5, <1>6, <1>7, <1>14, <1>15 DEF s, u

\* The slot of the installation calls on_ready or on_cancel.
LEMMA InstalledHandled ==
  ASSUME StartInv, NEW p \in Procs, NEW who \in Askers, Installed(p, who)
  PROVE  Handled(p)
<1> DEFINE s == InstallationEnded(p, who)
           u == WithHelper(s)
<1>1. /\ who \in win[p].installs /\ clicks' \in 0 .. Clicks
      /\ Becomes(p, Ready(u, who) \cup Cancelled(s, who))
  BY SoundNow DEF Installed, InstallationEnded, WithHelper
<1>2. /\ Sound(s) /\ s.w.begun = win[p].begun
      /\ Sound(u) /\ u.w.begun = win[p].begun /\ u.h.helper = TRUE
      /\ (who = "auto" => Fresh(u))
  BY <1>1, InstallationEndedSound
<1> HIDE DEF s, u
<1>3. ASSUME NEW t \in Ready(u, who) PROVE Follows(win[p].begun, t)
  BY <1>2, ReadySound
<1>4. ASSUME NEW t \in Cancelled(s, who) PROVE Follows(win[p].begun, t)
  BY <1>2, CancelledSound
<1> QED BY <1>1, <1>3, <1>4, BecomesHandled

\* The check takes what it finds of a lock into the window.
LEMMA DecidedSound ==
  ASSUME NEW s, Sound(s), NEW t \in Decided(s)
  PROVE  Sound(t) /\ t.w.begun = s.w.begun
<1>0. s.w \in Window /\ s.h \in Host /\ s = [w |-> s.w, h |-> s.h] /\ HostKnown(s)
  BY Parts
<1> DEFINE settled == s.w.settled \cup {"ks"}
<1>1. settled \in SUBSET Checks
  BY <1>0 DEF Window, Checks
<1>2. ASSUME NEW status \in {"absent", "present"}, NEW g \in Host, NEW recovery \in BOOLEAN,
             g.helper = s.h.helper, g.table => g.required /\ g.feature,
             status = "absent" => ~g.table, t.h = g, t = [w |-> t.w, h |-> t.h],
             t.w = [s.w EXCEPT !.status = status, !.settled = settled, !.recovery = recovery]
      PROVE  Sound(t) /\ t.w.begun = s.w.begun
  <2> HIDE DEF settled
  <2>1. /\ t.w \in Window
        /\ t.w.status = status /\ t.w.settled = settled
        /\ t.w.dialogs = s.w.dialogs /\ t.w.installs = s.w.installs /\ t.w.jobs = s.w.jobs
        /\ t.w.busy = s.w.busy /\ t.w.crossed = s.w.crossed /\ t.w.begun = s.w.begun
        /\ t.w.attempted = s.w.attempted
    <3>1. t.w = [s.w EXCEPT !.status = status, !.settled = settled, !.recovery = recovery]
      BY <1>2
    <3>2. t.w \in Window
      <4>1. [s.w EXCEPT !.settled = settled] \in Window
        BY <1>0, <1>1 DEF Window
      <4>2. [s.w EXCEPT !.status = status, !.settled = settled] \in Window
        BY <1>0, <4>1 DEF Window
      <4>3. \A x \in Window : [x EXCEPT !.recovery = recovery] \in Window
        BY DEF Window
      <4>4. [[s.w EXCEPT !.status = status, !.settled = settled] EXCEPT !.recovery = recovery]
              \in Window
        BY <4>2, <4>3
      <4> QED BY <1>0, <3>1, <4>4 DEF Window
    <3> QED BY <1>0, <3>1, <3>2 DEF Window
  <2>2. s.w.settled \subseteq t.w.settled
    BY <2>1 DEF settled
  <2>3. Quiet(s, t)
    BY <1>2, <2>1, <2>2, QuietIs
  <2>4. HostKnown(t)
    BY <1>2, <2>1 DEF HostKnown
  <2> QED BY <2>3, <2>4, QuietSound
<1>3. CASE /\ ~s.h.table
           /\ t = [s EXCEPT !.w.status = "absent", !.h.required = FALSE,
                            !.w.settled = @ \cup {"ks"}]
  <2> DEFINE g == [s.h EXCEPT !.required = FALSE]
  <2>1. t.h = g /\ t = [w |-> t.w, h |-> t.h]
    BY <1>0, <1>3
  <2>2. t.w = [s.w EXCEPT !.status = "absent", !.settled = settled, !.recovery = s.w.recovery]
    BY <1>0, <1>3 DEF Window
  <2>3. g \in Host /\ g.helper = s.h.helper /\ ~g.table
    BY <1>0, <1>3 DEF Host
  <2>4. s.w.recovery \in BOOLEAN
    BY <1>0 DEF Window
  <2> HIDE DEF settled, g
  <2> QED BY <1>2, <2>1, <2>2, <2>3, <2>4
<1>4. CASE t = [s EXCEPT !.w.status = "present", !.h.required = TRUE, !.h.feature = TRUE,
                   !.w.settled = @ \cup {"ks"}, !.w.recovery = ~s.h.tunnel]
  <2> DEFINE g == [s.h EXCEPT !.required = TRUE, !.feature = TRUE]
  <2>1. t.h = g /\ t = [w |-> t.w, h |-> t.h]
    BY <1>0, <1>4 DEF Host
  <2>2. t.w = [s.w EXCEPT !.status = "present", !.settled = settled, !.recovery = ~s.h.tunnel]
    BY <1>0, <1>4 DEF Window
  <2>3. g \in Host /\ g.helper = s.h.helper /\ (g.table => g.required /\ g.feature)
    BY <1>0 DEF Host
  <2>4. (~s.h.tunnel) \in BOOLEAN
    OBVIOUS
  <2> HIDE DEF settled, g
  <2> QED BY <1>2, <2>1, <2>2, <2>3, <2>4
<1>5. CASE t = [s EXCEPT !.w.status = "error", !.h.feature = TRUE]
  <2> DEFINE g == [s.h EXCEPT !.feature = TRUE]
  <2>1. t.h = g /\ t.w = [s.w EXCEPT !.status = "error"] /\ t = [w |-> t.w, h |-> t.h]
    BY <1>0, <1>5
  <2>2. /\ g \in Host /\ g.helper = s.h.helper /\ g.table = s.h.table
        /\ g.required = s.h.required /\ g.feature = TRUE
    BY <1>0 DEF Host
  <2> HIDE DEF g
  <2>3. g.table => g.required
    BY <1>0, <2>2 DEF HostKnown
  <2>4. t \in Situation
    BY <1>0, <2>1, <2>2 DEF Situation, Window
  <2>5. Shows(s.w, t.w, "error")
    BY <2>1 DEF Shows
  <2> QED BY <2>1, <2>2, <2>3, <2>4, <2>5, HostStatusSound
<1>6. CASE t = [s EXCEPT !.w.status = "error"]
  BY <1>6, StatusSound
<1> QED BY <1>3, <1>4, <1>5, <1>6 DEF Decided

\* The slot of the check of the kill switch.
LEMMA KillSwitchCheckedHandled ==
  ASSUME StartInv, NEW p \in Procs, KillSwitchChecked(p)
  PROVE  Handled(p)
<1> DEFINE s == Ended(p, "ks")
           e == [s EXCEPT !.w.status = "error"]
           S == (UNION {ReleasedThenAuto(t) : t \in Decided(s)}) \cup {e}
<1>1. "ks" \in win[p].jobs /\ Becomes(p, S) /\ clicks' \in 0 .. Clicks
  BY SoundNow DEF KillSwitchChecked
<1>2. Sound(s) /\ s.w.begun = win[p].begun
  BY <1>1, EndedSound
<1> HIDE DEF s
<1>3. ASSUME NEW t \in Decided(s), NEW v \in ReleasedThenAuto(t) PROVE Follows(win[p].begun, v)
  <2>1. PICK r \in ReleaseRefresh(t) : v \in MaybeAutoConnect(r)
    BY <1>3 DEF ReleasedThenAuto
  <2>2. Sound(t) /\ t.w.begun = win[p].begun
    BY <1>2, <1>3, DecidedSound
  <2>3. Sound(r) /\ r.w.begun = win[p].begun
    BY <2>1, <2>2, ReleaseRefreshSound
  <2> QED BY <2>1, <2>3, MaybeAutoConnectSound
<1>4. Follows(win[p].begun, e)
  BY <1>2, StatusSound, SoundFollows
<1> HIDE DEF e
<1>5. ASSUME NEW v \in S PROVE Follows(win[p].begun, v)
  <2>1. CASE \E t \in Decided(s) : v \in ReleasedThenAuto(t)
    BY <1>3, <2>1
  <2>2. CASE v = e
    BY <1>4, <2>2
  <2> QED BY <2>1, <2>2
<1> HIDE DEF S
<1> QED BY <1>1, <1>5, BecomesHandled

\* A tunnel that comes up or goes, and the note of the guard, concern nothing else.
LEMMA TunnelSound ==
  ASSUME NEW s, Sound(s), NEW t,
         \/ t = [s EXCEPT !.h.tunnel = TRUE]
         \/ t = [s EXCEPT !.h.tunnel = FALSE, !.h.expected = FALSE]
         \/ t = [s EXCEPT !.h.expected = TRUE] \/ t = [s EXCEPT !.h.expected = FALSE]
  PROVE  Sound(t) /\ t.w.begun = s.w.begun
<1>0. s.w \in Window /\ s.h \in Host /\ s = [w |-> s.w, h |-> s.h] /\ HostKnown(s)
  BY Parts
<1>1. t.w = s.w /\ t = [w |-> t.w, h |-> t.h]
  BY <1>0
<1>2. \/ t.h = [s.h EXCEPT !.tunnel = TRUE]
      \/ t.h = [s.h EXCEPT !.tunnel = FALSE, !.expected = FALSE]
      \/ t.h = [s.h EXCEPT !.expected = TRUE] \/ t.h = [s.h EXCEPT !.expected = FALSE]
  BY <1>0
<1>3. /\ t.h \in Host /\ t.h.helper = s.h.helper /\ t.h.table = s.h.table
      /\ t.h.required = s.h.required /\ t.h.feature = s.h.feature
  BY <1>0, <1>2 DEF Host
<1>4. Quiet(s, t)
  BY <1>0, <1>1, <1>3 DEF Quiet, Situation
<1>5. HostKnown(t)
  BY <1>0, <1>1, <1>3 DEF HostKnown
<1> QED BY <1>4, <1>5, QuietSound

\* The slot of the check of the guard.
LEMMA IPv6GuardCheckedHandled ==
  ASSUME StartInv, NEW p \in Procs, IPv6GuardChecked(p)
  PROVE  Handled(p)
<1> DEFINE s == Ended(p, "v6")
           down == [s EXCEPT !.h.tunnel = FALSE, !.h.expected = FALSE]
           expected == [s EXCEPT !.h.expected = TRUE]
           up == IF s.h.tunnel THEN {[s EXCEPT !.h.expected = TRUE]} ELSE {}
           S == (UNION {Settle(t, "v6") : t \in up \cup {down}})
                  \cup StopTunnel([s EXCEPT !.h.expected = TRUE])
<1>1. "v6" \in win[p].jobs /\ Becomes(p, S) /\ clicks' \in 0 .. Clicks
  BY SoundNow DEF IPv6GuardChecked
<1>2. Sound(s) /\ s.w.begun = win[p].begun
  BY <1>1, EndedSound
<1> HIDE DEF s
<1>3. /\ Sound(down) /\ down.w.begun = win[p].begun
      /\ Sound(expected) /\ expected.w.begun = win[p].begun
  BY <1>2, TunnelSound
<1>4. S = (UNION {Settle(t, "v6") : t \in up \cup {down}}) \cup StopTunnel(expected)
      /\ up \subseteq {expected}
  OBVIOUS
<1> HIDE DEF down, expected, S, up
<1>5. ASSUME NEW v \in S PROVE Follows(win[p].begun, v)
  <2>1. CASE v \in StopTunnel(expected)
    BY <1>3, <2>1, StopTunnelSound, SoundFollows
  <2>2. CASE \E t \in up \cup {down} : v \in Settle(t, "v6")
    <3>1. PICK t \in {expected, down} : v \in Settle(t, "v6")
      BY <1>4, <2>2
    <3>2. Sound(t) /\ t.w.begun = win[p].begun
      BY <1>3
    <3> QED BY <3>1, <3>2, SettleSound DEF Checks
  <2> QED BY <1>4, <2>1, <2>2
<1> QED BY <1>1, <1>5, BecomesHandled

\* A protected connection came up, stayed locked or failed.
Locked(s) == [s EXCEPT !.h.table = TRUE, !.h.required = TRUE]

Failed(s) ==
  {[s EXCEPT !.w.status = seen[1], !.h.required = seen[2]] :
     seen \in (IF s.h.table THEN {"error"} ELSE {"absent", "error"}) \X {s.h.table, TRUE}}

LockedOutcomes(s) ==
  {[Locked(s) EXCEPT !.h.tunnel = TRUE, !.w.status = "present"],
   [Locked(s) EXCEPT !.w.status = "present"], [Locked(s) EXCEPT !.w.status = "error"]}

\* A protected connection armed the table, whatever else it did.
LEMMA LockedSound ==
  ASSUME NEW s, Sound(s), s.h.feature, NEW t \in LockedOutcomes(s)
  PROVE  Sound(t) /\ t.w.begun = s.w.begun
<1>1. s.w \in Window /\ s.h \in Host /\ s = [w |-> s.w, h |-> s.h]
  BY Parts
<1> DEFINE l == Locked(s)
           g == [s.h EXCEPT !.table = TRUE, !.required = TRUE]
<1>2. l.w = s.w /\ l.h = g /\ l = [w |-> l.w, h |-> l.h]
  <2>1. l = [s EXCEPT !.h.table = TRUE, !.h.required = TRUE]
    BY DEF Locked
  <2> HIDE DEF l
  <2>2. l.w = s.w /\ l = [w |-> l.w, h |-> l.h]
    BY <1>1, <2>1
  <2>3. l.h = g
    BY <1>1, <2>1 DEF Host
  <2> QED BY <2>2, <2>3
<1>3. /\ g \in Host /\ g.helper = s.h.helper /\ g.required = TRUE
      /\ g.feature = s.h.feature
  BY <1>1 DEF Host
<1> HIDE DEF l, g
<1>4. \/ t = [l EXCEPT !.h.tunnel = TRUE, !.w.status = "present"]
      \/ t = [l EXCEPT !.w.status = "present"] \/ t = [l EXCEPT !.w.status = "error"]
  BY DEF LockedOutcomes, l
<1>5. \E status \in {"present", "error"} : Shows(s.w, t.w, status)
  BY <1>2, <1>4 DEF Shows
<1>6. t = [w |-> t.w, h |-> t.h] /\ (t.h = g \/ t.h = [g EXCEPT !.tunnel = TRUE])
  BY <1>2, <1>4
<1>7. /\ t.h \in Host /\ t.h.helper = s.h.helper /\ t.h.required = TRUE
      /\ t.h.feature = s.h.feature
  BY <1>3, <1>6 DEF Host
<1>8. t \in Situation
  <2>1. \A status \in {"present", "error"} : [s.w EXCEPT !.status = status] \in Window
    BY <1>1 DEF Window
  <2>2. t.w \in Window
    BY <1>5, <2>1 DEF Shows
  <2> QED BY <1>6, <1>7, <2>2 DEF Situation
<1> QED BY <1>5, <1>7, <1>8, HostStatusSound

\* A protected connection failed before that, and says so.
LEMMA FailedSound ==
  ASSUME NEW s, Sound(s), s.h.feature, NEW t \in Failed(s)
  PROVE  Sound(t) /\ t.w.begun = s.w.begun
<1>1. s.w \in Window /\ s.h \in Host /\ s = [w |-> s.w, h |-> s.h]
  BY Parts
<1>2. /\ \E status \in {"absent", "error"} :
           Shows(s.w, t.w, status) /\ (status = "absent" => ~s.h.table)
      /\ \E r \in BOOLEAN : t.h = [s.h EXCEPT !.required = r] /\ (s.h.table => r)
      /\ t = [w |-> t.w, h |-> t.h]
  <2>1. PICK status \in IF s.h.table THEN {"error"} ELSE {"absent", "error"} :
           \E r \in {s.h.table, TRUE} : t = [s EXCEPT !.w.status = status, !.h.required = r]
    BY DEF Failed
  <2>2. PICK r \in {s.h.table, TRUE} : t = [s EXCEPT !.w.status = status, !.h.required = r]
    BY <2>1
  <2>3. t.w = [s.w EXCEPT !.status = status] /\ t = [w |-> t.w, h |-> t.h]
    BY <1>1, <2>2
  <2>4. t.h = [s.h EXCEPT !.required = r]
    BY <1>1, <2>2
  <2>5. r \in BOOLEAN /\ (s.h.table => r)
    BY <1>1 DEF Host
  <2>6. /\ Shows(s.w, t.w, status) /\ status \in {"absent", "error"}
        /\ (status = "absent" => ~s.h.table)
    BY <2>3 DEF Shows
  <2> HIDE DEF Shows
  <2> QED BY <2>3, <2>4, <2>5, <2>6
<1>3. /\ t.h \in Host /\ t.h.helper = s.h.helper /\ t.h.feature = s.h.feature
      /\ t.h.table = s.h.table /\ (t.h.table => t.h.required)
  BY <1>1, <1>2 DEF Host
<1>4. PICK status \in {"absent", "error"} :
        Shows(s.w, t.w, status) /\ (status = "absent" => ~s.h.table)
  BY <1>2
<1>5. t \in Situation
  <2>1. t.w \in Window
    BY <1>1, <1>4 DEF Shows, Window
  <2> QED BY <1>2, <1>3, <2>1 DEF Situation
<1> QED BY <1>3, <1>4, <1>5, HostStatusSound

\* The slot of a connection.
LEMMA ConnectedHandled ==
  ASSUME StartInv, NEW p \in Procs, NEW who \in {"user", "auto"}, Connected(p, who)
  PROVE  Handled(p)
<1> DEFINE s == Ended(p, who)
           L == LockedOutcomes(s)
           O == {[s EXCEPT !.h.tunnel = TRUE], s, [s EXCEPT !.h.expected = FALSE]}
           S == IF s.h.feature THEN L \cup Failed(s) ELSE O
<1>1. who \in win[p].jobs /\ clicks' \in 0 .. Clicks
  <2>1. who \in win[p].jobs /\ clicks' = clicks
    BY DEF Connected
  <2> QED BY <2>1, SoundNow
<1>2. Becomes(p, S)
  BY DEF Connected, Locked, LockedOutcomes, Failed
<1>3. Sound(s) /\ s.w.begun = win[p].begun
  BY <1>1, EndedSound
<1> HIDE DEF s
<1>4. ASSUME s.h.feature, NEW t \in L PROVE Follows(win[p].begun, t)
  BY <1>3, <1>4, LockedSound, SoundFollows
<1>5. ASSUME s.h.feature, NEW t \in Failed(s) PROVE Follows(win[p].begun, t)
  BY <1>3, <1>5, FailedSound, SoundFollows
<1>6. ASSUME NEW t \in O PROVE Follows(win[p].begun, t)
  BY <1>3, TunnelSound, SoundFollows
<1> HIDE DEF L, O
<1>7. ASSUME NEW t \in S PROVE Follows(win[p].begun, t)
  BY <1>4, <1>5, <1>6
<1> HIDE DEF S
<1> QED BY <1>1, <1>2, <1>7, BecomesHandled

\* The lock is gone, or nobody knows.
LEMMA ReleasedSound ==
  ASSUME NEW s, Sound(s), NEW t, t = Released(s)
  PROVE  Sound(t) /\ t.w.begun = s.w.begun
<1>0. s.w \in Window /\ s.h \in Host /\ s = [w |-> s.w, h |-> s.h]
  BY Parts
<1> DEFINE g == [s.h EXCEPT !.tunnel = FALSE, !.table = FALSE, !.required = FALSE]
<1>1. t.h = g /\ t.w = [s.w EXCEPT !.status = "absent"] /\ t = [w |-> t.w, h |-> t.h]
  BY <1>0 DEF Released, Host
<1>2. g \in Host /\ g.helper = s.h.helper /\ g.table = FALSE
  BY <1>0 DEF Host
<1>3. [s.w EXCEPT !.status = "absent"] \in Window
  BY <1>0 DEF Window
<1> HIDE DEF g
<1>4. t \in Situation
  BY <1>1, <1>2, <1>3 DEF Situation
<1>5. Shows(s.w, t.w, "absent")
  BY <1>1 DEF Shows
<1> QED BY <1>1, <1>2, <1>4, <1>5, HostStatusSound

\* A release that failed leaves a status that calls nothing absent.
LEMMA UnsureSound ==
  ASSUME NEW s, Sound(s), NEW t \in Unsure(s)
  PROVE  Sound(t) /\ t.w.begun = s.w.begun
<1>0. s.w \in Window /\ s.h \in Host /\ s = [w |-> s.w, h |-> s.h] /\ HostKnown(s)
  BY Parts
<1> DEFINE open == [s EXCEPT !.h.tunnel = FALSE, !.h.table = FALSE]
<1>1. ASSUME NEW u, Sound(u), u.w.begun = s.w.begun, t = [u EXCEPT !.w.status = "error"]
      PROVE  Sound(t) /\ t.w.begun = s.w.begun
  BY <1>1, StatusSound
<1>2. PICK u \in StopTunnel(s) \cup {open} : t = [u EXCEPT !.w.status = "error"]
  BY DEF Unsure
<1>3. CASE u = open
  <2> DEFINE g == [s.h EXCEPT !.tunnel = FALSE, !.table = FALSE]
  <2>1. u.h = g /\ u.w = s.w /\ u = [w |-> u.w, h |-> u.h]
    BY <1>0, <1>3 DEF Host
  <2>2. g \in Host /\ g.helper = s.h.helper /\ g.table = FALSE
    BY <1>0 DEF Host
  <2> HIDE DEF g
  <2>3. Shows(s.w, u.w, s.w.status) /\ s.w.status \in {"none", "absent", "present", "error"}
    BY <1>0, <2>1 DEF Window, Shows
  <2>4. u \in Situation
    BY <1>0, <2>1, <2>2 DEF Situation
  <2>5. Sound(u) /\ u.w.begun = s.w.begun
    BY <2>1, <2>2, <2>3, <2>4, HostStatusSound
  <2> QED BY <1>2, <1>1, <2>5
<1>4. CASE u \in StopTunnel(s)
  <2>1. Sound(u) /\ u.w.begun = s.w.begun
    BY <1>4, StopTunnelSound
  <2> QED BY <1>2, <1>1, <2>1
<1> HIDE DEF open
<1> QED BY <1>2, <1>3, <1>4

\* The slot of the reset.
LEMMA WasResetHandled ==
  ASSUME StartInv, NEW p \in Procs, WasReset(p)
  PROVE  Handled(p)
<1> DEFINE s == Ended(p, "reset")
           S == ReleaseRefresh(Released(s)) \cup Unsure(s)
<1>1. "reset" \in win[p].jobs /\ Becomes(p, S) /\ clicks' \in 0 .. Clicks
  BY SoundNow DEF WasReset
<1>2. Sound(s) /\ s.w.begun = win[p].begun
  BY <1>1, EndedSound
<1> HIDE DEF s
<1>3. Sound(Released(s)) /\ Released(s).w.begun = win[p].begun
  BY <1>2, ReleasedSound
<1>4. ASSUME NEW t \in S PROVE Follows(win[p].begun, t)
  BY <1>2, <1>3, ReleaseRefreshSound, UnsureSound, SoundFollows
<1> HIDE DEF S
<1> QED BY <1>1, <1>4, BecomesHandled

\* The slot of the disconnect.
LEMMA DisconnectedHandled ==
  ASSUME StartInv, NEW p \in Procs, Disconnected(p)
  PROVE  Handled(p)
<1> DEFINE s == Ended(p, "disconnect")
           down == [s EXCEPT !.h.tunnel = FALSE, !.h.expected = FALSE]
           S == IF s.h.feature THEN {Released(s)} \cup Unsure(s) ELSE {down} \cup StopTunnel(s)
<1>1. "disconnect" \in win[p].jobs /\ Becomes(p, S) /\ clicks' \in 0 .. Clicks
  BY SoundNow DEF Disconnected
<1>2. Sound(s) /\ s.w.begun = win[p].begun
  BY <1>1, EndedSound
<1> HIDE DEF s
<1>3. Sound(down) /\ down.w.begun = win[p].begun
  BY <1>2, TunnelSound
<1> HIDE DEF down
<1>4. ASSUME NEW t \in S PROVE Follows(win[p].begun, t)
  <2>1. CASE t = Released(s)
    BY <1>2, <2>1, ReleasedSound, SoundFollows
  <2>2. CASE t \in Unsure(s)
    BY <1>2, <2>2, UnsureSound, SoundFollows
  <2>3. CASE t = down
    BY <1>3, <2>3, SoundFollows
  <2>4. CASE t \in StopTunnel(s)
    BY <1>2, <2>4, StopTunnelSound, SoundFollows
  <2> QED BY <2>1, <2>2, <2>3, <2>4
<1> HIDE DEF S
<1> QED BY <1>1, <1>4, BecomesHandled

\* The slot of the protected reconnect.
LEMMA ReconnectedHandled ==
  ASSUME StartInv, NEW p \in Procs, Reconnected(p)
  PROVE  Handled(p)
<1> DEFINE s == Ended(p, "reconnect")
           up == [s EXCEPT !.h.tunnel = TRUE]
           e == [s EXCEPT !.w.status = "error"]
           S == ReleaseRefresh(up) \cup {s, e}
<1>1. "reconnect" \in win[p].jobs /\ Becomes(p, S) /\ clicks' \in 0 .. Clicks
  BY SoundNow DEF Reconnected
<1>2. Sound(s) /\ s.w.begun = win[p].begun
  BY <1>1, EndedSound
<1> HIDE DEF s
<1>3. Sound(up) /\ up.w.begun = win[p].begun
  BY <1>2, TunnelSound
<1>4. Sound(e) /\ e.w.begun = win[p].begun
  BY <1>2, StatusSound
<1> HIDE DEF up, e
<1>5. ASSUME NEW t \in S PROVE Follows(win[p].begun, t)
  BY <1>2, <1>3, <1>4, ReleaseRefreshSound, SoundFollows
<1> HIDE DEF S
<1> QED BY <1>1, <1>5, BecomesHandled

\* The slot of the server list, or of a ping.
LEMMA RegionsSlotHandled ==
  ASSUME StartInv, NEW p \in Procs, RegionsSlot(p)
  PROVE  Handled(p)
<1> DEFINE n == Now(p)
           s == [n EXCEPT !.w.regions = "rest"]
           first == win[p].regions = "refresh" /\ win[p].started /\ win[p].refreshed = "no"
           A(r) == [s EXCEPT !.w.refreshed = r]
           S == IF first THEN UNION {MaybeAutoConnect(A(r)) : r \in {"ok", "failed"}} ELSE {s}
<1>1. Becomes(p, S) /\ clicks' \in 0 .. Clicks
  BY SoundNow DEF RegionsSlot
<1>2. Sound(n) /\ n.w.begun = win[p].begun
  BY SoundNow
<1> HIDE DEF n
<1>3. Sound(s) /\ s.w.begun = win[p].begun
  BY <1>2, LoadRegionsSound
<1> HIDE DEF s
<1>4. ASSUME NEW r \in {"ok", "failed"} PROVE Sound(A(r)) /\ A(r).w.begun = win[p].begun
  <2> DEFINE t == A(r)
  <2>0. s.w \in Window /\ s.h \in Host /\ s = [w |-> s.w, h |-> s.h] /\ HostKnown(s)
    BY <1>3, Parts
  <2>1. t = [s EXCEPT !.w.refreshed = r]
    OBVIOUS
  <2> HIDE DEF t
  <2>2. t.w = [s.w EXCEPT !.refreshed = r] /\ t.h = s.h /\ t = [w |-> t.w, h |-> t.h]
    BY <2>0, <2>1 DEF Window
  <2>3. t.w \in Window
    BY <2>0, <2>2 DEF Window
  <2>4. Quiet(s, t) /\ t.w.status = s.w.status /\ t.w.settled = s.w.settled
    <3>1. t \in Situation
      BY <2>0, <2>2, <2>3 DEF Situation
    <3>2. /\ t.w.dialogs = s.w.dialogs /\ t.w.installs = s.w.installs /\ t.w.jobs = s.w.jobs
          /\ t.w.busy = s.w.busy /\ t.w.crossed = s.w.crossed /\ t.w.begun = s.w.begun
          /\ t.w.attempted = s.w.attempted /\ t.w.settled = s.w.settled
          /\ t.w.status = s.w.status /\ t.h.helper = s.h.helper
      BY <2>0, <2>2, <2>3 DEF Window
    <3> QED BY <3>1, <3>2 DEF Quiet
  <2>5. HostKnown(t)
    BY <2>0, <2>2, <2>4 DEF HostKnown
  <2>6. Sound(t) /\ t.w.begun = win[p].begun
    BY <1>3, <2>4, <2>5, QuietSound
  <2> QED BY <2>6 DEF t
<1> HIDE DEF A
<1>5. ASSUME NEW t \in S PROVE Follows(win[p].begun, t)
  <2>1. CASE t = s
    BY <1>3, <2>1, SoundFollows
  <2>2. ASSUME NEW r \in {"ok", "failed"}, t \in MaybeAutoConnect(A(r))
        PROVE  Follows(win[p].begun, t)
    <3>1. Sound(A(r)) /\ A(r).w.begun = win[p].begun
      BY <1>4
    <3> QED BY <2>2, <3>1, MaybeAutoConnectSound
  <2> QED BY <2>1, <2>2
<1> HIDE DEF S
<1> QED BY <1>1, <1>5, BecomesHandled

\* Every slot is a handler.
LEMMA SlotHandled ==
  ASSUME StartInv, NEW p \in Procs, Slot(p)
  PROVE  Handled(p)
BY InstalledHandled, KillSwitchCheckedHandled, IPv6GuardCheckedHandled, WasResetHandled,
   DisconnectedHandled, ReconnectedHandled, ConnectedHandled, RegionsSlotHandled DEF Slot

-----------------------------------------------------------------------------
(***************************************************************************)
(* The user.                                                                *)
(***************************************************************************)
\* To show that a click is handled, show where its function may return.
LEMMA ClickHandled ==
  ASSUME StartInv, NEW p \in Procs, NEW S, Click(p, S), \A t \in S : Follows(win[p].begun, t)
  PROVE  Handled(p)
<1>1. clicks' \in 0 .. Clicks
  BY StartupAssumption DEF StartInv, Claims, Click
<1> QED BY <1>1, BecomesHandled DEF Click

\* A click finds an idle window.
LEMMA ClicksHandled ==
  ASSUME StartInv, NEW p \in Procs,
         \/ ClickConnect(p) \/ ClickReconnect(p) \/ ClickDisconnect(p) \/ ClickReset(p)
         \/ ClickRefresh(p) \/ ClickPing(p)
  PROVE  Handled(p)
<1> DEFINE s == Now(p)
<1>1. Sound(s) /\ s.w = win[p]
  BY SoundNow
<1>2. win[p].dialogs = << >> /\ ~win[p].busy
  BY DEF ClickConnect, ClickReconnect, ClickDisconnect, ClickReset, ClickRefresh, ClickPing, Click
<1>3. CASE ClickConnect(p)
  <2>1. Click(p, ConnectRegion(s, "user"))
    BY <1>3 DEF ClickConnect
  <2> HIDE DEF s
  <2>2. ASSUME NEW t \in ConnectRegion(s, "user") PROVE Follows(win[p].begun, t)
    BY <1>1, <1>2, ConnectRegionSound
  <2> QED BY <2>1, <2>2, ClickHandled
<1>4. CASE ClickReconnect(p) \/ ClickDisconnect(p) \/ ClickReset(p)
  <2>1. PICK job \in {"reconnect", "disconnect", "reset"} : Click(p, Start(s, job))
    BY <1>4 DEF ClickReconnect, ClickDisconnect, ClickReset
  <2> HIDE DEF s
  <2>2. job \in Jobs
    BY DEF Jobs
  <2>3. ASSUME NEW t \in Start(s, job) PROVE Follows(win[p].begun, t)
    BY <1>1, <1>2, <2>2, StartSound
  <2> QED BY <2>1, <2>3, ClickHandled
<1>5. CASE ClickRefresh(p)
  <2>1. Click(p, {LoadRegions(s)})
    BY <1>5 DEF ClickRefresh
  <2> HIDE DEF s
  <2>2. Follows(win[p].begun, LoadRegions(s))
    BY <1>1, LoadRegionsSound, SoundFollows DEF LoadRegions
  <2> QED BY <2>1, <2>2, ClickHandled
<1>6. CASE ClickPing(p)
  <2> DEFINE t == [s EXCEPT !.w.regions = "ping"]
  <2>1. Click(p, {t})
    BY <1>6 DEF ClickPing
  <2> HIDE DEF s
  <2>2. Follows(win[p].begun, t)
    BY <1>1, LoadRegionsSound, SoundFollows
  <2> HIDE DEF t
  <2> QED BY <2>1, <2>2, ClickHandled
<1> HIDE DEF s
<1> QED BY <1>3, <1>4, <1>5, <1>6

-----------------------------------------------------------------------------
(***************************************************************************)
(* The processes.                                                           *)
(***************************************************************************)
\* No process has a window.
LEMMA InitStarts ==
  ASSUME Init
  PROVE  StartInv
<1>1. Claims
  BY StartupAssumption DEF Init, Claims, Holding
<1>2. win \in [Procs -> Window] /\ host \in Host
  BY EmptySound DEF Init
<1>3. ASSUME NEW p \in Procs PROVE Sound(Now(p)) /\ win[p] = NoWindow
  <2>1. win[p] = NoWindow /\ host \in Host /\ (host.table => host.required)
    BY DEF Init
  <2> QED BY <2>1, EmptySound DEF Now
<1> QED BY <1>1, <1>2, <1>3 DEF StartInv

\* A handler leaves the claims alone, and only the holder of the lock has a window.
LEMMA HandledStarts ==
  ASSUME StartInv, NEW p \in Procs, Handled(p)
  PROVE  StartInv'
<1>1. PICK t : Follows(win[p].begun, t) /\ win' = [win EXCEPT ![p] = t.w] /\ host' = t.h
  BY DEF Handled
<1>2. Sound(t) /\ t.w \in Window /\ t.h \in Host /\ t = [w |-> t.w, h |-> t.h] /\ HostKnown(t)
  BY <1>1, Parts DEF Follows
<1>3. Claims'
  BY DEF StartInv, Claims, Handled
<1>4. win' \in [Procs -> Window] /\ host' \in Host
  BY <1>1, <1>2 DEF StartInv
<1>5. ASSUME NEW q \in Procs PROVE Sound(Now(q))' /\ (At(q, "window") \/ win[q] = NoWindow)'
  <2>1. CASE q = p
    <3>1. win'[q] = t.w
      BY <1>1, <2>1 DEF StartInv
    <3>2. Now(q)' = t
      BY <1>1, <1>2, <3>1 DEF Now
    <3>3. At(q, "window")'
      BY <2>1 DEF Handled, At
    <3> QED BY <1>2, <3>2, <3>3
  <2>2. CASE q # p
    <3>1. lock = p /\ ~At(q, "window")
      BY <2>2 DEF StartInv, Claims, Handled, At, Holding
    <3>2. win'[q] = NoWindow
      BY <1>1, <2>2, <3>1 DEF StartInv
    <3>3. Now(q)' = [w |-> NoWindow, h |-> t.h]
      BY <1>1, <3>2 DEF Now
    <3>4. t.h.table => t.h.required
      BY <1>2 DEF HostKnown
    <3> QED BY <1>2, <3>2, <3>3, <3>4, EmptySound
  <2> QED BY <2>1, <2>2
<1> QED BY <1>3, <1>4, <1>5 DEF StartInv

\* The steps of the claim, and the ends of a process.
Claiming(p) ==
  Launch(p) \/ TryLock(p) \/ Probe(p) \/ RemoveServer(p) \/ Listen(p) \/ ListenFails(p)
    \/ Quit(p) \/ Crash(p)

\* A process moves, the others do not.
LEMMA GotoHolds ==
  ASSUME Claims, NEW p \in Procs, NEW to, Goto(p, to),
         to \in {"off", "claim", "probe", "clean", "listen", "window", "gone"}
  PROVE  /\ pc'[p] = to /\ \A q \in Procs \ {p} : pc'[q] = pc[q]
         /\ pc' \in [Procs -> {"off", "claim", "probe", "clean", "listen", "window", "gone"}]
BY DEF Claims, Goto

\* A process that takes the lock finds no other in it, and one that gives it up goes.
LEMMA ClaimingClaims ==
  ASSUME Claims, NEW p \in Procs, Claiming(p)
  PROVE  Claims'
<1>0. None \notin Procs /\ clicks' = clicks
  BY StartupAssumption DEF Claiming, Launch, TryLock, Probe, RemoveServer, Listen, ListenFails,
        Quit, Crash
<1>1. socket' \in Procs \cup {Older, None}
  BY DEF Claims, Claiming, Launch, TryLock, Probe, RemoveServer, Listen, ListenFails, Quit, Crash
<1>2. CASE /\ lock' = lock
           /\ \/ Goto(p, "claim") \/ Goto(p, "gone")
              \/ pc[p] \in Holding /\ (Goto(p, "clean") \/ Goto(p, "listen") \/ Goto(p, "window"))
  <2>1. PICK to \in {"claim", "gone", "clean", "listen", "window"} :
          Goto(p, to) /\ (to \in Holding => pc[p] \in Holding)
    BY <1>2 DEF Holding
  <2>2. /\ pc'[p] = to /\ \A q \in Procs \ {p} : pc'[q] = pc[q]
        /\ pc' \in [Procs -> {"off", "claim", "probe", "clean", "listen", "window", "gone"}]
    BY <2>1, GotoHolds
  <2>3. \A q \in Procs : pc'[q] \in Holding => pc[q] \in Holding
    BY <2>1, <2>2
  <2> QED BY <1>0, <1>1, <1>2, <2>2, <2>3 DEF Claims
<1>3. CASE Goto(p, "gone") /\ Unlock(p)
  <2>1. /\ pc'[p] = "gone" /\ \A q \in Procs \ {p} : pc'[q] = pc[q]
        /\ pc' \in [Procs -> {"off", "claim", "probe", "clean", "listen", "window", "gone"}]
    BY <1>3, GotoHolds
  <2>2. \A q \in Procs : pc'[q] \in Holding => q # p /\ lock = q
    BY <2>1 DEF Claims, Holding
  <2>3. lock' = IF lock = p THEN None ELSE lock
    BY <1>3 DEF Unlock
  <2> QED BY <1>0, <1>1, <2>1, <2>2, <2>3 DEF Claims
<1>4. CASE TryLock(p) /\ ~(lock \in Procs /\ Alive(lock))
  <2>1. Goto(p, "probe") /\ lock' = p
    BY <1>4 DEF TryLock
  <2>2. /\ pc'[p] = "probe" /\ \A q \in Procs \ {p} : pc'[q] = pc[q]
        /\ pc' \in [Procs -> {"off", "claim", "probe", "clean", "listen", "window", "gone"}]
    BY <2>1, GotoHolds
  <2>3. \A q \in Procs : pc[q] \notin Holding
    BY <1>4 DEF Claims, Alive, Holding
  <2>4. \A q \in Procs : pc'[q] \in Holding => q = p
    BY <2>2, <2>3
  <2> QED BY <1>0, <1>1, <2>1, <2>2, <2>4 DEF Claims
<1>5. CASE TryLock(p) /\ lock \in Procs /\ Alive(lock)
  BY <1>2, <1>5 DEF TryLock
<1>6. CASE Launch(p) \/ RemoveServer(p) \/ Listen(p) \/ Crash(p)
  BY <1>2, <1>6 DEF Launch, RemoveServer, Listen, Crash, At, Holding
<1>7. CASE Probe(p)
  BY <1>2, <1>3, <1>7 DEF Probe, At, Holding
<1>8. CASE ListenFails(p) \/ Quit(p)
  BY <1>3, <1>8 DEF ListenFails, Quit
<1> QED BY <1>4, <1>5, <1>6, <1>7, <1>8 DEF Claiming

\* Those steps make or drop a window and leave the host alone.
LEMMA ClaimingStarts ==
  ASSUME StartInv, NEW p \in Procs, Claiming(p)
  PROVE  StartInv'
<1>1. Claims' /\ host' = host
  <2>1. host' = host
    BY DEF Claiming, Launch, TryLock, Probe, RemoveServer, Listen, ListenFails, Quit, Crash
  <2> QED BY <2>1, ClaimingClaims DEF StartInv
<1>2. /\ win \in [Procs -> Window] /\ host \in Host /\ (host.table => host.required)
  <2>1. HostKnown(Now(p)) /\ Now(p).h = host
    BY SoundNow, Parts
  <2> QED BY <2>1 DEF StartInv, HostKnown
<1>3. \A v \in {NoWindow, NewWindow} : v \in Window /\ Sound([w |-> v, h |-> host])
  BY <1>2, EmptySound
<1>4. \A q \in Procs \ {p} : pc'[q] = pc[q] /\ win'[q] = win[q]
  BY <1>2 DEF StartInv, Claims, Claiming, Launch, TryLock, Probe, RemoveServer, Listen,
        ListenFails, Quit, Crash, Goto
<1>5. win' = win \/ win' = [win EXCEPT ![p] = NoWindow] \/ win' = [win EXCEPT ![p] = NewWindow]
  BY DEF Claiming, Launch, TryLock, Probe, RemoveServer, Listen, ListenFails, Quit, Crash
<1>6. win' \in [Procs -> Window]
  BY <1>2, <1>3, <1>5
<1>7. \/ At(p, "window")' /\ win'[p] = NewWindow
      \/ win'[p] = NoWindow
  <2>1. CASE Listen(p)
    BY <1>2, <2>1 DEF Listen, StartInv, Claims, At, Goto
  <2>2. CASE Quit(p) \/ Crash(p)
    BY <1>2, <2>2 DEF Quit, Crash
  <2>3. CASE Launch(p) \/ TryLock(p) \/ Probe(p) \/ RemoveServer(p) \/ ListenFails(p)
    <3>1. ~At(p, "window") /\ win' = win
      BY <2>3 DEF Launch, TryLock, Probe, RemoveServer, ListenFails, At
    <3> QED BY <3>1 DEF StartInv
  <2> QED BY <2>1, <2>2, <2>3 DEF Claiming
<1>8. ASSUME NEW q \in Procs PROVE Sound(Now(q))' /\ (At(q, "window") \/ win[q] = NoWindow)'
  <2>1. CASE q = p
    <3>1. Now(q)' = [w |-> win'[q], h |-> host]
      BY <1>1 DEF Now
    <3> QED BY <1>3, <1>7, <2>1, <3>1
  <2>2. CASE q # p
    <3>1. Now(q)' = Now(q) /\ pc'[q] = pc[q] /\ win'[q] = win[q]
      BY <1>1, <1>4, <2>2 DEF Now
    <3>2. Sound(Now(q)) /\ (At(q, "window") \/ win[q] = NoWindow)
      BY DEF StartInv
    <3> QED BY <3>1, <3>2 DEF At
  <2> QED BY <2>1, <2>2
<1> QED BY <1>1, <1>2, <1>6, <1>8 DEF StartInv

\* An older release and the network know no window.
LEMMA OthersStart ==
  ASSUME StartInv, OlderEnds \/ TunnelLost
  PROVE  StartInv'
<1>1. CASE OlderEnds
  BY <1>1 DEF OlderEnds, StartInv, Claims, Now, At
<1>2. CASE TunnelLost
  <2>1. Claims' /\ win' = win /\ pc' = pc
    BY <1>2 DEF TunnelLost, StartInv, Claims
  <2>2. host' \in Host
    BY <1>2 DEF TunnelLost, StartInv, Host
  <2>3. ASSUME NEW q \in Procs PROVE Sound(Now(q))'
    <3>1. Sound(Now(q)) /\ Now(q).w = win[q] /\ Now(q).h = host /\ host \in Host
      BY SoundNow
    <3>2. /\ host'.helper = host.helper /\ host'.table = host.table
          /\ host'.required = host.required /\ host'.feature = host.feature
      BY <1>2, <3>1 DEF TunnelLost, Host
    <3>3. Now(q)' = [w |-> win[q], h |-> host']
      BY <2>1 DEF Now
    <3> DEFINE n == Now(q)
               t == [w |-> win[q], h |-> host']
    <3>4. t.w = win[q] /\ t.h = host' /\ t \in Situation
      BY <2>2, <3>1, SoundNow DEF Situation
    <3>5. HostKnown(n)
      BY <3>1 DEF Sound
    <3> HIDE DEF n, t
    <3>6. n.w = win[q] /\ n.h = host /\ Sound(n)
      BY <3>1 DEF n
    <3>7. Quiet(n, t)
      BY <3>2, <3>4, <3>6 DEF Quiet
    <3>8. HostKnown(t)
      BY <3>2, <3>4, <3>5, <3>6 DEF HostKnown
    <3>9. Sound(t)
      BY <3>6, <3>7, <3>8, QuietSound
    <3> QED BY <3>3, <3>9 DEF t
  <2> QED BY <2>1, <2>2, <2>3 DEF StartInv, At
<1> QED BY <1>1, <1>2

\* Every other step of a process is a handler.
LEMMA NextCases ==
  ASSUME StartInv, Next
  PROVE  (OlderEnds \/ TunnelLost) \/ \E p \in Procs : Claiming(p) \/ Handled(p)
<1>1. ASSUME NEW p \in Procs,
             \/ FirstStart(p) \/ KillSwitchTimer(p) \/ IPv6GuardTimer(p) \/ RefreshTimer(p)
             \/ AnswerDialog(p) \/ Slot(p)
             \/ ClickConnect(p) \/ ClickReconnect(p) \/ ClickDisconnect(p) \/ ClickReset(p)
             \/ ClickRefresh(p) \/ ClickPing(p)
      PROVE  Handled(p)
  BY <1>1, FirstStartHandled, KillSwitchTimerHandled, IPv6GuardTimerHandled, RefreshTimerHandled,
     AnswerDialogHandled, SlotHandled, ClicksHandled
<1> QED BY <1>1 DEF Next, Claiming

\* The invariant is inductive.
LEMMA NextStarts ==
  ASSUME StartInv, [Next]_vars
  PROVE  StartInv'
<1>1. CASE Next
  BY <1>1, NextCases, OthersStart, ClaimingStarts, HandledStarts
<1>2. CASE UNCHANGED vars
  BY <1>2 DEF vars, StartInv, Claims, Now, At
<1> QED BY <1>1, <1>2

-----------------------------------------------------------------------------
(***************************************************************************)
(* The theorems.                                                            *)
(***************************************************************************)
\* The invariant holds in every behaviour.
THEOREM Starts == Spec => []StartInv
BY InitStarts, NextStarts, PTL DEF Spec

\* The model keeps its types.
THEOREM StartupTypes == Spec => []TypeOK
<1>1. ASSUME StartInv PROVE TypeOK
  BY <1>1 DEF StartInv, Claims, TypeOK
<1> QED BY <1>1, Starts, PTL

\* Two processes never control the VPN and the firewall at once (single_instance.py:60):
\* the window belongs to the process in the lock file, which is not taken over while
\* that process lives.
THEOREM OneWindowEver == Spec => []OneWindow
<1>1. ASSUME StartInv PROVE OneWindow
  BY <1>1 DEF StartInv, Claims, Holding, OneWindow, At
<1> QED BY <1>1, Starts, PTL

\* The busy flag admits one job on the connection, unless dialogs were nested.
THEOREM OneJobAtOnce == Spec => []OneJob
<1>1. ASSUME StartInv PROVE OneJob
  <2>1. ASSUME NEW p \in Procs, ~win[p].crossed PROVE Running(win[p]) <= 1
    <3>1. One(win[p]) \/ Idle(win[p])
      BY <1>1, <2>1, SoundNow DEF Sound, Single
    <3> QED BY <3>1, OneRuns, IdleRuns
  <2> QED BY <2>1 DEF OneJob
<1> QED BY <1>1, Starts, PTL

\* A lock that the check at start-up has seen or ruled out is never overlooked: without
\* tunnel it keeps automatic and ordinary connections away, nested dialogs or not.
THEOREM LocksAreNoticed == Spec => []LockNoticed
<1>1. ASSUME StartInv PROVE LockNoticed
  <2>1. ASSUME NEW p \in Procs, "ks" \in win[p].settled, host.table, ~host.tunnel
        PROVE  MayBlock(Now(p))
    <3>1. HostKnown(Now(p)) /\ Now(p).w = win[p] /\ Now(p).h = host /\ win[p] \in Window
      BY <1>1, SoundNow DEF Sound
    <3>2. win[p].status \in {"none", "absent", "present", "error"}
      BY <3>1 DEF Window
    <3> QED BY <2>1, <3>1, <3>2 DEF HostKnown, MayBlock
  <2> QED BY <2>1 DEF LockNoticed
<1> QED BY <1>1, Starts, PTL

\* The automatic connection begins once, after both checks, on a host without tunnel or
\* lock, and beside no other job unless dialogs were nested.
THEOREM AutoConnectsSafely == Spec => AutoStartsSafely
<1> DEFINE Safe(p) ==
      Begins(p) => /\ win[p].begun = 0 /\ ~host'.tunnel /\ ~host'.table
                   /\ win'[p].settled = Checks
                   /\ Running(win'[p]) = 1 \/ win'[p].crossed
<1>1. ASSUME StartInv, StartInv', [Next]_vars, NEW q \in Procs PROVE Safe(q)
  <2>1. ASSUME NEW p \in Procs, Handled(p) PROVE Safe(q)
    <3>1. PICK t : Follows(win[p].begun, t) /\ win' = [win EXCEPT ![p] = t.w] /\ host' = t.h
      BY <2>1 DEF Handled
    <3>2. CASE q = p
      <4>1. win'[q] = t.w
        BY <1>1, <3>1, <3>2 DEF StartInv
      <4>2. One(t.w) => Running(t.w) = 1
        BY OneRuns
      <4> QED BY <3>1, <3>2, <4>1, <4>2 DEF Follows, Begins
    <3>3. CASE q # p
      <4>1. win'[q] = win[q]
        BY <1>1, <3>1, <3>3 DEF StartInv
      <4>2. win[q].begun \in {0, 1}
        BY <1>1, SoundNow DEF Sound, AutoOnce
      <4> QED BY <4>1, <4>2 DEF Begins
    <3> QED BY <3>2, <3>3
  <2>2. ASSUME \A p \in Procs : ~Handled(p) PROVE Safe(q)
    <3>1. win'[q] = win[q] \/ win'[q] = NoWindow \/ win'[q] = NewWindow
      <4>1. \/ UNCHANGED vars \/ OlderEnds \/ TunnelLost \/ \E p \in Procs : Claiming(p)
        BY <1>1, <2>2, NextCases
      <4>2. CASE UNCHANGED vars \/ OlderEnds \/ TunnelLost
        BY <4>2 DEF vars, OlderEnds, TunnelLost
      <4>3. CASE \E p \in Procs : Claiming(p)
        <5>1. PICK p \in Procs : Claiming(p)
          BY <4>3
        <5>2. \/ win' = win \/ win' = [win EXCEPT ![p] = NoWindow]
              \/ win' = [win EXCEPT ![p] = NewWindow]
          BY <5>1 DEF Claiming, Launch, TryLock, Probe, RemoveServer, Listen, ListenFails,
                Quit, Crash
        <5> QED BY <1>1, <5>2 DEF StartInv
      <4> QED BY <4>1, <4>2, <4>3
    <3>2. win[q].begun \in {0, 1} /\ NoWindow.begun = 0 /\ NewWindow.begun = 0
      BY <1>1, SoundNow DEF Sound, AutoOnce, NoWindow, NewWindow
    <3>3. ~(win'[q].begun > win[q].begun)
      BY <3>1, <3>2
    <3> QED BY <3>3 DEF Begins
  <2> QED BY <2>1, <2>2
<1>2. ASSUME StartInv, StartInv', [Next]_vars PROVE \A p \in Procs : Safe(p)
  BY <1>1, <1>2
<1>3. ASSUME StartInv, StartInv', [Next]_vars
      PROVE  [\A p \in Procs : Begins(p) =>
                /\ win[p].begun = 0 /\ ~host'.tunnel /\ ~host'.table
                /\ win'[p].settled = Checks
                /\ (Running(win'[p]) = 1 \/ win'[p].crossed)]_vars
  BY <1>2, <1>3
<1> QED BY <1>3, Starts, PTL DEF Spec, AutoStartsSafely
=============================================================================
