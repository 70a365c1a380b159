------------------------ MODULE FirewallHelperProofs ------------------------
(***************************************************************************)
(* Proofs about FirewallHelper, for every set of processes, interfaces,     *)
(* endpoints and requests.  The inductive invariant says what a process     *)
(* that holds the flock may rely on: only it changes the tables, except     *)
(* that a flush from outside may remove them.  On it rest two more: what a  *)
(* table and an answer can look like, and with it that the client takes     *)
(* every answer as what it says (HelperClient).                             *)
(***************************************************************************)
EXTENDS HelperClient, TLAPS

\* A process is between the acquisition and the release of the lock exactly
\* while it is the holder.
LockDiscipline == \A p \in Procs : pc[p] \in Critical <=> lock = p

\* Only mutations wait for the lock, and only they run under it.
MutationsLocked ==
  \A p \in Procs :
    /\ pc[p] \in Critical \cup {"lock"} => req[p].action \in Mutations
    /\ pc[p] \in {"read-exists", "read-list"} => req[p].action \notin Mutations

\* What the exclusion check established still holds when the script runs.
ExclusionHeld ==
  \A p \in Procs : pc[p] \in {"check", "apply"} =>
    /\ req[p].action = "enable" => ~guard
    /\ req[p].action = "ipv6-guard-enable" => ~ks.present

\* What the transaction did is still there when its status is read, unless
\* the table is gone.
EffectOnTable(r, k) ==
  /\ r.action = "enable" => k.ifaces = r.ifaces /\ k.eps = r.eps
  /\ r.action = "set-interfaces" => k.ifaces = r.ifaces
  /\ r.action = "set-endpoints" => k.eps = r.eps
  /\ r.action = "add-endpoint" => r.eps \subseteq k.eps
  /\ r.action = "remove-endpoint" => r.eps \cap k.eps = {}

EffectHeld ==
  \A p \in Procs : pc[p] \in {"exists", "list"} =>
    /\ ks.present => EffectOnTable(req[p], ks)
    /\ req[p].action \in {"disable", "emergency-reset"} => ~ks.present
    /\ req[p].action = "ipv6-guard-disable" => ~guard

IInv ==
  /\ TypeOK
  /\ LockDiscipline
  /\ MutationsLocked
  /\ ExclusionHeld
  /\ EffectHeld
  /\ TablesExclusive
  /\ ReplyIsOwnEffect

-----------------------------------------------------------------------------
USE DEF Critical, Unlocked

\* The transaction of any request maps a table to a table.
LEMMA KillSwitchAfterType ==
  ASSUME NEW r \in Request, NEW k \in Table
  PROVE  KillSwitchAfter(r, k) \in Table
  BY DEF KillSwitchAfter, Request, Table, NoTable

\* The status document of a table is a well-formed reply.
LEMMA ActiveReplyType ==
  ASSUME TypeOK, NEW r \in Request
  PROVE  ActiveReply(r) \in Reply
  BY DEF ActiveReply, TypeOK, Reply, Codes, Table

\* The request of an idle process is a request.
LEMMA NoRequestType == NoRequest \in Request
  BY DEF NoRequest, Request, Actions

\* Answers that carry no route are well-formed replies.
LEMMA FailureType ==
  /\ \A c \in Codes : Failure(c) \in Reply
  /\ DisabledReply \in Reply
  /\ NoReply \in Reply
  BY DEF Failure, NoReply, DisabledReply, Reply, Codes

\* Every step preserves the shape of the state.
LEMMA TypePreserved == TypeOK /\ [Next]_vars => TypeOK'
<1> SUFFICES ASSUME TypeOK, [Next]_vars PROVE TypeOK'
  OBVIOUS
<1> USE HelperAssumption, FailureType
<1>1. ASSUME NEW p \in Procs, NEW r \in Requests[p], Submit(p, r) PROVE TypeOK'
  <2>1. r \in Request
    BY DEF Request
  <2> QED BY <1>1, <2>1 DEF Submit, Answer, Goto, TypeOK, Codes
<1>2. ASSUME NEW p \in Procs, AcquireLock(p) PROVE TypeOK'
  BY <1>2 DEF AcquireLock, Goto, TypeOK
<1>3. ASSUME NEW p \in Procs, Exclude(p) PROVE TypeOK'
  BY <1>3 DEF Exclude, Answer, Goto, TypeOK, Codes
<1>4. ASSUME NEW p \in Procs, CheckScript(p) PROVE TypeOK'
  BY <1>4 DEF CheckScript, Answer, Goto, TypeOK, Codes
<1>5. ASSUME NEW p \in Procs, ApplyScript(p) PROVE TypeOK'
  <2>1. KillSwitchAfter(req[p], ks) \in Table
    BY KillSwitchAfterType DEF TypeOK
  <2>2. GuardAfter(req[p], guard) \in BOOLEAN
    BY DEF GuardAfter
  <2> QED BY <1>5, <2>1, <2>2 DEF ApplyScript, Answer, Goto, TypeOK, Codes
<1>6. ASSUME NEW p \in Procs, TableExists(p) PROVE TypeOK'
  BY <1>6 DEF TableExists, Answer, Goto, TypeOK
<1>7. ASSUME NEW p \in Procs, ListTable(p) PROVE TypeOK'
  <2>1. ActiveReply(req[p]) \in Reply
    BY ActiveReplyType DEF TypeOK
  <2> QED BY <1>7, <2>1 DEF ListTable, Answer, TypeOK, Codes
<1>8. ASSUME NEW p \in Procs, NftFails(p) PROVE TypeOK'
  BY <1>8 DEF NftFails, Answer, TypeOK, Codes
<1>9. ASSUME NEW p \in Procs, Finish(p) \/ Killed(p) PROVE TypeOK'
  BY <1>9, NoRequestType DEF Finish, Killed, TypeOK
<1>10. CASE RulesetFlushed
  BY <1>10 DEF RulesetFlushed, TypeOK, Table, NoTable
<1>11. CASE UNCHANGED vars
  BY <1>11 DEF vars, TypeOK
<1> QED BY <1>1, <1>2, <1>3, <1>4, <1>5, <1>6, <1>7, <1>8, <1>9, <1>10, <1>11 DEF Next, Work

\* The initial state has the right shape.
LEMMA InitType == Init => TypeOK
<1>1. NoTable \in Table
  BY DEF Table, NoTable
<1> QED BY <1>1, NoRequestType, FailureType DEF Init, TypeOK

\* Type correctness: the tables, the lock and the processes of the helper
\* keep their shape whatever requests arrive.
THEOREM TypeCorrect == Spec => []TypeOK
  BY InitType, TypePreserved, PTL DEF Spec

-----------------------------------------------------------------------------
\* The flock makes the critical section exclusive.
LEMMA LockExclusive ==
  ASSUME TypeOK, LockDiscipline, NEW p \in Procs, NEW q \in Procs,
         pc[p] \in Critical, pc[q] \in Critical
  PROVE  p = q
  BY DEF LockDiscipline

\* The lock is held exactly between its acquisition and the answer.
LEMMA LockDisciplinePreserved ==
  TypeOK /\ LockDiscipline /\ [Next]_vars => LockDiscipline'
<1> SUFFICES ASSUME TypeOK, LockDiscipline, [Next]_vars PROVE LockDiscipline'
  OBVIOUS
<1> USE HelperAssumption DEF LockDiscipline, TypeOK
<1>1. ASSUME NEW p \in Procs, NEW r \in Requests[p], Submit(p, r) PROVE LockDiscipline'
  BY <1>1 DEF Submit, Answer, Goto
<1>2. ASSUME NEW p \in Procs, AcquireLock(p) PROVE LockDiscipline'
  BY <1>2 DEF AcquireLock, Goto
<1>3. ASSUME NEW p \in Procs, Exclude(p) \/ CheckScript(p) PROVE LockDiscipline'
  BY <1>3 DEF Exclude, CheckScript, Answer, Goto
<1>4. ASSUME NEW p \in Procs, ApplyScript(p) PROVE LockDiscipline'
  BY <1>4 DEF ApplyScript, Answer, Goto
<1>5. ASSUME NEW p \in Procs, TableExists(p) PROVE LockDiscipline'
  BY <1>5 DEF TableExists, Answer, Goto
<1>6. ASSUME NEW p \in Procs, ListTable(p) \/ NftFails(p) PROVE LockDiscipline'
  BY <1>6 DEF ListTable, NftFails, Answer
<1>7. ASSUME NEW p \in Procs, Finish(p) \/ Killed(p) PROVE LockDiscipline'
  BY <1>7 DEF Finish, Killed
<1>8. CASE RulesetFlushed \/ UNCHANGED vars
  BY <1>8 DEF RulesetFlushed, vars
<1> QED BY <1>1, <1>2, <1>3, <1>4, <1>5, <1>6, <1>7, <1>8 DEF Next, Work

\* Requests are sorted into locked and unlocked ones when they arrive.
LEMMA MutationsLockedPreserved ==
  TypeOK /\ MutationsLocked /\ [Next]_vars => MutationsLocked'
<1> SUFFICES ASSUME TypeOK, MutationsLocked, [Next]_vars PROVE MutationsLocked'
  OBVIOUS
<1> USE DEF MutationsLocked, TypeOK
<1>1. ASSUME NEW p \in Procs, NEW r \in Requests[p], Submit(p, r) PROVE MutationsLocked'
  BY <1>1, HelperAssumption DEF Submit, Answer, Goto
<1>2. ASSUME NEW p \in Procs, Work(p) PROVE MutationsLocked'
  BY <1>2 DEF Work, AcquireLock, Exclude, CheckScript, ApplyScript, TableExists,
              ListTable, NftFails, Answer, Goto
<1>3. ASSUME NEW p \in Procs, Finish(p) \/ Killed(p) PROVE MutationsLocked'
  BY <1>3 DEF Finish, Killed
<1>4. CASE RulesetFlushed \/ UNCHANGED vars
  BY <1>4 DEF RulesetFlushed, vars
<1> QED BY <1>1, <1>2, <1>3, <1>4 DEF Next

\* A transaction that ran has the effect its request asked for.
LEMMA TransactionEffect ==
  ASSUME TypeOK, NEW r \in Request, r.action \in Mutations,
         ScriptAccepted(r, ks),
         ks' = KillSwitchAfter(r, ks), guard' = GuardAfter(r, guard)
  PROVE  /\ ks'.present => EffectOnTable(r, ks')
         /\ r.action \in {"disable", "emergency-reset"} => ~ks'.present
         /\ r.action = "ipv6-guard-disable" => ~guard'
<1>1. ks \in Table /\ ks' \in Table
  BY KillSwitchAfterType DEF TypeOK
<1>2. CASE r.action \in {"disable", "emergency-reset"}
  BY <1>2 DEF KillSwitchAfter, NoTable
<1>3. CASE r.action \in GuardMutations
  BY <1>3 DEF EffectOnTable, GuardAfter, GuardMutations
<1>4. CASE r.action = "enable"
  BY <1>4 DEF EffectOnTable, KillSwitchAfter
<1>5. CASE r.action \in {"set-interfaces", "set-endpoints"}
  BY <1>1, <1>5 DEF EffectOnTable, KillSwitchAfter, Table
<1>6. CASE r.action \in {"add-endpoint", "remove-endpoint"}
  BY <1>1, <1>6 DEF EffectOnTable, KillSwitchAfter, Table
<1> QED BY <1>2, <1>3, <1>4, <1>5, <1>6 DEF Mutations, KillSwitchMutations, GuardMutations

\* Nobody disturbs what the holder of the lock established.
LEMMA EffectHeldPreserved ==
  IInv /\ [Next]_vars => EffectHeld'
<1> SUFFICES ASSUME IInv, [Next]_vars PROVE EffectHeld'
  OBVIOUS
<1> USE DEF IInv
<1>1. ASSUME NEW p \in Procs, NEW r \in Requests[p], Submit(p, r) PROVE EffectHeld'
  BY <1>1 DEF Submit, Answer, Goto, EffectHeld, EffectOnTable, TypeOK
<1>2. ASSUME NEW p \in Procs, AcquireLock(p) \/ Exclude(p) \/ CheckScript(p)
      PROVE  EffectHeld'
  BY <1>2 DEF AcquireLock, Exclude, CheckScript, Answer, Goto, EffectHeld,
              EffectOnTable, TypeOK
<1>3. ASSUME NEW p \in Procs, ApplyScript(p) PROVE EffectHeld'
  <2> SUFFICES ASSUME NEW q \in Procs, pc'[q] \in {"exists", "list"}
               PROVE  /\ ks'.present => EffectOnTable(req'[q], ks')
                      /\ req'[q].action \in {"disable", "emergency-reset"} => ~ks'.present
                      /\ req'[q].action = "ipv6-guard-disable" => ~guard'
    BY DEF EffectHeld, EffectOnTable
  <2>1. pc[p] = "apply" /\ req' = req
    BY <1>3 DEF ApplyScript
  <2>2. CASE q # p
    <3>1. pc[q] \in {"exists", "list"}
      BY <1>3, <2>2 DEF ApplyScript, Answer, Goto, TypeOK
    <3> QED BY <2>1, <2>2, <3>1, LockExclusive
  <2>3. CASE q = p
    <3>1. /\ ScriptAccepted(req[p], ks)
          /\ ks' = KillSwitchAfter(req[p], ks)
          /\ guard' = GuardAfter(req[p], guard)
      BY <1>3, <2>3 DEF ApplyScript, Answer, Goto, TypeOK
    <3>2. req[p] \in Request /\ req[p].action \in Mutations
      BY <2>1 DEF MutationsLocked, TypeOK
    <3> QED BY <2>1, <2>3, <3>1, <3>2, TransactionEffect DEF EffectOnTable
  <2> QED BY <2>2, <2>3
<1>4. ASSUME NEW p \in Procs, TableExists(p) \/ ListTable(p) \/ NftFails(p)
      PROVE  EffectHeld'
  BY <1>4 DEF TableExists, ListTable, NftFails, Answer, Goto, EffectHeld,
              EffectOnTable, TypeOK
<1>5. ASSUME NEW p \in Procs, Finish(p) \/ Killed(p) PROVE EffectHeld'
  BY <1>5 DEF Finish, Killed, EffectHeld, EffectOnTable, TypeOK
<1>6. CASE RulesetFlushed
  BY <1>6 DEF RulesetFlushed, EffectHeld, EffectOnTable, NoTable, TypeOK
<1>7. CASE UNCHANGED vars
  BY <1>7 DEF vars, EffectHeld, EffectOnTable
<1> QED BY <1>1, <1>2, <1>3, <1>4, <1>5, <1>6, <1>7 DEF Next, Work

\* The exclusion check stays true until the script has run, because arming
\* the other table needs the same lock.
LEMMA ExclusionPreserved ==
  IInv /\ [Next]_vars => ExclusionHeld' /\ TablesExclusive'
<1> SUFFICES ASSUME IInv, [Next]_vars PROVE ExclusionHeld' /\ TablesExclusive'
  OBVIOUS
<1> USE DEF IInv, ExclusionHeld, TablesExclusive
<1>1. ASSUME NEW p \in Procs, NEW r \in Requests[p], Submit(p, r)
      PROVE  ExclusionHeld' /\ TablesExclusive'
  BY <1>1 DEF Submit, Answer, Goto, TypeOK
<1>2. ASSUME NEW p \in Procs, AcquireLock(p)
      PROVE  ExclusionHeld' /\ TablesExclusive'
  BY <1>2 DEF AcquireLock, Goto, TypeOK
<1>3. ASSUME NEW p \in Procs, Exclude(p)
      PROVE  ExclusionHeld' /\ TablesExclusive'
  BY <1>3 DEF Exclude, OtherTablePresent, Answer, Goto, TypeOK
<1>4. ASSUME NEW p \in Procs, CheckScript(p)
      PROVE  ExclusionHeld' /\ TablesExclusive'
  BY <1>4 DEF CheckScript, Answer, Goto, TypeOK
<1>5. ASSUME NEW p \in Procs, ApplyScript(p)
      PROVE  ExclusionHeld' /\ TablesExclusive'
  <2>1. pc[p] = "apply" /\ req' = req
    BY <1>5 DEF ApplyScript
  <2>2. req[p] \in Request /\ req[p].action \in Mutations
    BY <2>1 DEF MutationsLocked, TypeOK
  <2>3. ASSUME NEW q \in Procs PROVE pc'[q] \notin {"check", "apply"}
    <3>1. CASE q = p
      BY <1>5, <3>1 DEF ApplyScript, Answer, Goto, TypeOK
    <3>2. CASE q # p
      <4>1. pc'[q] = pc[q]
        BY <1>5, <3>2 DEF ApplyScript, Answer, Goto, TypeOK
      <4> QED BY <2>1, <3>2, <4>1, LockExclusive
    <3> QED BY <3>1, <3>2
  <2>4. TablesExclusive'
    <3>1. CASE UNCHANGED <<ks, guard>>
      BY <3>1
    <3>2. CASE /\ ScriptAccepted(req[p], ks)
               /\ ks' = KillSwitchAfter(req[p], ks)
               /\ guard' = GuardAfter(req[p], guard)
      BY <2>1, <2>2, <3>2 DEF KillSwitchAfter, GuardAfter, ScriptAccepted, NoTable,
              TypeOK, Table, Request
    <3> QED BY <1>5, <3>1, <3>2 DEF ApplyScript
  <2> QED BY <2>3, <2>4
<1>6. ASSUME NEW p \in Procs, TableExists(p) \/ ListTable(p) \/ NftFails(p)
      PROVE  ExclusionHeld' /\ TablesExclusive'
  BY <1>6 DEF TableExists, ListTable, NftFails, Answer, Goto, TypeOK
<1>7. ASSUME NEW p \in Procs, Finish(p) \/ Killed(p)
      PROVE  ExclusionHeld' /\ TablesExclusive'
  BY <1>7 DEF Finish, Killed, TypeOK
<1>8. CASE RulesetFlushed
  BY <1>8 DEF RulesetFlushed, NoTable
<1>9. CASE UNCHANGED vars
  BY <1>9 DEF vars
<1> QED BY <1>1, <1>2, <1>3, <1>4, <1>5, <1>6, <1>7, <1>8, <1>9 DEF Next, Work

\* A successful, active answer to a mutation was read under its own lock.
LEMMA ReplyPreserved == IInv /\ [Next]_vars => ReplyIsOwnEffect'
<1> SUFFICES ASSUME IInv, [Next]_vars,
                    NEW p \in Procs, pc'[p] = "replied",
                    req'[p].action \in Mutations,
                    reply'[p].code = "OK", reply'[p].state = "active"
             PROVE  EffectSeen(req'[p], reply'[p])
  BY DEF ReplyIsOwnEffect, EffectSeen
<1> USE DEF IInv, TypeOK
<1>1. CASE pc[p] = "replied" /\ req'[p] = req[p] /\ reply'[p] = reply[p]
  BY <1>1 DEF ReplyIsOwnEffect
<1>2. CASE ListTable(p)
  <2>1. reply'[p] = ActiveReply(req[p]) /\ req' = req /\ OwnTable(req[p])
    BY <1>2 DEF ListTable, Answer, Failure
  <2>2. pc[p] = "list"
    BY <1>2, <2>1 DEF ListTable, MutationsLocked
  <2>3. CASE req[p].action \in GuardMutations
    <3>1. guard
      BY <2>1, <2>3 DEF OwnTable
    <3>2. req[p].action # "ipv6-guard-disable"
      BY <2>2, <3>1 DEF EffectHeld
    <3> QED BY <2>1, <2>3, <3>2 DEF EffectSeen, GuardMutations
  <2>4. CASE req[p].action \notin GuardMutations
    <3>1. req[p].action \in KillSwitchMutations
      BY <2>1, <2>4 DEF Mutations
    <3>2. ks.present /\ reply'[p].ifaces = ks.ifaces /\ reply'[p].eps = ks.eps
      BY <2>1, <2>4, <3>1 DEF OwnTable, ActiveReply, KillSwitchMutations
    <3>3. EffectOnTable(req[p], ks) /\ req[p].action \notin {"disable", "emergency-reset"}
      BY <2>2, <3>2 DEF EffectHeld
    <3> QED BY <2>1, <2>4, <3>2, <3>3 DEF EffectSeen, EffectOnTable, GuardMutations
  <2> QED BY <2>3, <2>4
<1>3. ASSUME NEW q \in Procs, NEW r \in Requests[q], Submit(q, r)
      PROVE  pc[p] = "replied" /\ req'[p] = req[p] /\ reply'[p] = reply[p]
  BY <1>3 DEF Submit, Answer, Goto, Failure
<1>4. ASSUME NEW q \in Procs, AcquireLock(q) \/ Exclude(q) \/ CheckScript(q)
      PROVE  pc[p] = "replied" /\ req'[p] = req[p] /\ reply'[p] = reply[p]
  BY <1>4 DEF AcquireLock, Exclude, CheckScript, Answer, Goto, Failure
<1>5. ASSUME NEW q \in Procs, ApplyScript(q) \/ TableExists(q) \/ NftFails(q)
      PROVE  pc[p] = "replied" /\ req'[p] = req[p] /\ reply'[p] = reply[p]
  BY <1>5 DEF ApplyScript, TableExists, NftFails, Answer, Goto, Failure, DisabledReply
<1>6. ASSUME NEW q \in Procs, ListTable(q), q # p
      PROVE  pc[p] = "replied" /\ req'[p] = req[p] /\ reply'[p] = reply[p]
  BY <1>6 DEF ListTable, Answer
<1>7. ASSUME NEW q \in Procs, Finish(q) \/ Killed(q)
      PROVE  pc[p] = "replied" /\ req'[p] = req[p] /\ reply'[p] = reply[p]
  BY <1>7 DEF Finish, Killed
<1>8. ASSUME RulesetFlushed \/ UNCHANGED vars
      PROVE  pc[p] = "replied" /\ req'[p] = req[p] /\ reply'[p] = reply[p]
  BY <1>8 DEF RulesetFlushed, vars
<1> QED BY <1>1, <1>2, <1>3, <1>4, <1>5, <1>6, <1>7, <1>8 DEF Next, Work

-----------------------------------------------------------------------------
\* The inductive invariant holds of every reachable state.
LEMMA Inductive == Spec => []IInv
<1>1. Init => IInv
  BY InitType, HelperAssumption
     DEF Init, IInv, LockDiscipline, MutationsLocked, ExclusionHeld, EffectHeld,
         TablesExclusive, ReplyIsOwnEffect, NoTable
<1>2. IInv /\ [Next]_vars => IInv'
  BY TypePreserved, LockDisciplinePreserved, MutationsLockedPreserved,
     EffectHeldPreserved, ExclusionPreserved, ReplyPreserved DEF IInv
<1> QED BY <1>1, <1>2, PTL DEF Spec

\* Whatever concurrent sessions request, the Session Kill Switch table and the
\* IPv6-only guard table are never installed together.
THEOREM ExclusiveTables == Spec => []TablesExclusive
<1>1. IInv => TablesExclusive
  BY DEF IInv
<1> QED BY <1>1, Inductive, PTL

\* A successful answer that reports an active table describes the effect of
\* the request it answers, for any number of concurrent sessions.
THEOREM OwnEffectReplies == Spec => []ReplyIsOwnEffect
<1>1. IInv => ReplyIsOwnEffect
  BY DEF IInv
<1> QED BY <1>1, Inductive, PTL

\* The kill switch table disappears only by a request to remove it, made under
\* the lock, or by a flush from outside: no replacement opens a window.
THEOREM WindowFree == Spec => NoUnfilteredWindow
<1>1. IInv /\ [Next]_vars => [RemovalRequested]_vars
  <2> SUFFICES ASSUME IInv, [Next]_vars, ks.present, ~ks'.present
               PROVE  RemovalRequested
    BY DEF RemovalRequested
  <2>1. CASE RulesetFlushed
    BY <2>1 DEF RemovalRequested
  <2>2. ASSUME NEW p \in Procs, ApplyScript(p) PROVE RemovalRequested
    <3>1. pc[p] = "apply" /\ ks' = KillSwitchAfter(req[p], ks)
      BY <2>2 DEF ApplyScript
    <3>2. lock = p
      BY <3>1 DEF IInv, LockDiscipline
    <3>3. req[p].action \in {"disable", "emergency-reset"}
      BY <3>1 DEF KillSwitchAfter, IInv, TypeOK, Table
    <3> QED BY <3>2, <3>3 DEF RemovalRequested
  <2>3. ASSUME ks' = ks PROVE FALSE
    BY <2>3
  <2> QED BY <2>1, <2>2, <2>3
       DEF Next, Work, Submit, AcquireLock, Exclude, CheckScript, TableExists,
           ListTable, NftFails, Finish, Killed, vars
<1> QED BY <1>1, Inductive, PTL DEF NoUnfilteredWindow, Spec
-----------------------------------------------------------------------------
(***************************************************************************)
(* Tables that verify, and answers as the client reads them.                *)
(***************************************************************************)
\* A request past the validation of its arguments is one that renders.
Rendered == \A p \in Procs : pc[p] \in Critical \cup {"lock"} => Renders(req[p])

\* The interfaces of a table always come from one rendered request, while its
\* endpoints may have been added and removed one by one.
InterfacesValid == ks.present => ValidInterfaces(ks.ifaces)

\* The answers of cli.main: a refusal, a table as it was listed, or none.
Answers(r, doc) ==
  \/ doc \in {Failure(c) : c \in {"VALIDATION", "PRIVILEGE", "SAFETY", "NFT"}}
  \/ doc = DisabledReply
  \/ doc.code = "VERIFY" /\ doc.state = "error"
  \/ /\ doc.code = "OK" /\ doc.state = "active"
     /\ r.action \notin GuardActions => doc.ifaces # {} /\ doc.eps # {}

AnswersListed == \A p \in Procs : pc[p] = "replied" => Answers(req[p], reply[p])

AnswerInv ==
  /\ IInv
  /\ Rendered
  /\ InterfacesValid
  /\ AnswersListed
  /\ ReplacementVerifies

\* A step that leaves the process p where it is.
Aside(p) ==
  /\ req'[p] = req[p] /\ reply'[p] = reply[p]
  /\ pc'[p] = pc[p]

\* Steps of another process leave p alone.
LEMMA OthersAside ==
  ASSUME TypeOK, NEW p \in Procs, NEW q \in Procs, p # q,
         \/ \E r \in Requests[q] : Submit(q, r)
         \/ Work(q) \/ Finish(q) \/ Killed(q)
  PROVE  Aside(p)
<1> USE DEF TypeOK, Aside
<1>1. CASE \E r \in Requests[q] : Submit(q, r)
  BY <1>1 DEF Submit, Answer, Goto
<1>2. CASE AcquireLock(q) \/ Exclude(q) \/ CheckScript(q)
  BY <1>2 DEF AcquireLock, Exclude, CheckScript, Answer, Goto
<1>3. CASE ApplyScript(q)
  BY <1>3 DEF ApplyScript, Answer, Goto
<1>4. CASE TableExists(q) \/ ListTable(q) \/ NftFails(q)
  BY <1>4 DEF TableExists, ListTable, NftFails, Answer, Goto
<1>5. CASE Finish(q) \/ Killed(q)
  BY <1>5 DEF Finish, Killed
<1> QED BY <1>1, <1>2, <1>3, <1>4, <1>5 DEF Work

\* A step of p other than a listing answers, if it answers, with a refusal or with
\* no table, and p waits for the lock only with a request that renders.
LEMMA OwnStep ==
  ASSUME TypeOK, Rendered, NEW p \in Procs,
         \/ \E r \in Requests[p] : Submit(p, r)
         \/ AcquireLock(p) \/ Exclude(p) \/ CheckScript(p) \/ ApplyScript(p)
         \/ TableExists(p) \/ NftFails(p) \/ Finish(p) \/ Killed(p)
  PROVE  /\ pc'[p] \in Critical \cup {"lock"} => Renders(req'[p])
         /\ pc'[p] = "replied" =>
              \/ reply'[p] \in {Failure(c) : c \in {"VALIDATION", "PRIVILEGE", "SAFETY", "NFT"}}
              \/ reply'[p] = DisabledReply
<1> USE HelperAssumption DEF TypeOK, Rendered
<1>1. ASSUME NEW r \in Requests[p], Submit(p, r)
      PROVE  /\ pc'[p] \in Critical \cup {"lock"} => Renders(req'[p])
             /\ pc'[p] = "replied" =>
                  reply'[p] \in {Failure(c) : c \in {"VALIDATION", "PRIVILEGE", "SAFETY", "NFT"}}
  <2>1. req'[p] = r
    BY <1>1 DEF Submit
  <2>2. CASE Renders(r)
    BY <1>1, <2>1, <2>2 DEF Submit, Answer, Goto
  <2>3. CASE ~Renders(r)
    BY <1>1, <2>1, <2>3 DEF Submit, Answer, Goto
  <2> QED BY <2>2, <2>3
<1>2. CASE AcquireLock(p) \/ Exclude(p) \/ CheckScript(p)
  BY <1>2 DEF AcquireLock, Exclude, CheckScript, Answer, Goto
<1>3. CASE ApplyScript(p)
  BY <1>3 DEF ApplyScript, Answer, Goto
<1>4. CASE TableExists(p) \/ NftFails(p)
  BY <1>4 DEF TableExists, NftFails, Answer, Goto
<1>5. CASE Finish(p) \/ Killed(p)
  BY <1>5 DEF Finish, Killed
<1> QED BY <1>1, <1>2, <1>3, <1>4, <1>5

\* A request is rendered before it waits for the lock.
LEMMA RenderedPreserved == AnswerInv /\ [Next]_vars => Rendered'
<1> SUFFICES ASSUME AnswerInv, [Next]_vars, NEW p \in Procs,
                    pc'[p] \in Critical \cup {"lock"}
             PROVE  Renders(req'[p])
  BY DEF Rendered, Renders, ValidInterfaces, ValidEndpoints
<1> USE DEF AnswerInv, IInv
<1>1. CASE Aside(p)
  BY <1>1 DEF Aside, Rendered
<1>2. CASE ListTable(p)
  BY <1>2 DEF ListTable, Answer, TypeOK
<1>3. CASE RulesetFlushed \/ UNCHANGED vars
  BY <1>1, <1>3 DEF RulesetFlushed, vars, Aside
<1> QED BY <1>1, <1>2, <1>3, OthersAside, OwnStep DEF Next, Work

\* Every transaction that leaves a table leaves valid interfaces in it.
LEMMA InterfacesPreserved == AnswerInv /\ [Next]_vars => InterfacesValid'
<1> SUFFICES ASSUME AnswerInv, [Next]_vars, ks'.present
             PROVE  ValidInterfaces(ks'.ifaces)
  BY DEF InterfacesValid, ValidInterfaces
<1> USE DEF AnswerInv, IInv, InterfacesValid
<1>1. CASE ks' = ks
  BY <1>1
<1>2. ASSUME NEW p \in Procs, ApplyScript(p) PROVE ValidInterfaces(ks'.ifaces)
  <2>1. pc[p] = "apply" /\ Renders(req[p]) /\ ks \in Table /\ req[p] \in Request
    BY <1>2 DEF ApplyScript, Rendered, TypeOK
  <2>2. CASE ks' = KillSwitchAfter(req[p], ks) /\ ScriptAccepted(req[p], ks)
    <3>1. CASE req[p].action \in {"enable", "set-interfaces"}
      <4>1. ks'.ifaces = req[p].ifaces
        BY <2>1, <2>2, <3>1 DEF KillSwitchAfter, Table
      <4> QED BY <2>1, <3>1, <4>1 DEF Renders
    <3>2. CASE req[p].action \notin {"enable", "set-interfaces"}
      <4>1. ks.present /\ ks'.ifaces = ks.ifaces
        BY <2>1, <2>2, <3>2 DEF KillSwitchAfter, ScriptAccepted, Table, NoTable
      <4> QED BY <4>1
    <3> QED BY <3>1, <3>2
  <2> QED BY <1>1, <1>2, <2>2 DEF ApplyScript
<1>3. CASE RulesetFlushed
  BY <1>3 DEF RulesetFlushed, NoTable
<1> QED BY <1>1, <1>2, <1>3
     DEF Next, Work, Submit, AcquireLock, Exclude, CheckScript, TableExists,
         ListTable, NftFails, Finish, Killed, vars

\* What p answers with after it has listed its table.
LEMMA ListedAnswer ==
  ASSUME AnswerInv, NEW p \in Procs, ListTable(p)
  PROVE  /\ Answers(req'[p], reply'[p])
         /\ reply'[p].code = "VERIFY" =>
              req'[p].action \in {"status", "set-interfaces", "add-endpoint", "remove-endpoint"}
<1> USE DEF AnswerInv, IInv
<1>1. req' = req /\ pc[p] \in {"list", "read-list"} /\ req[p] \in Request
  BY DEF ListTable, TypeOK
<1>2. CASE ~OwnTable(req[p])
  BY <1>1, <1>2 DEF ListTable, Answer, Failure, Answers, TypeOK
<1>3. CASE OwnTable(req[p])
  <2>1. reply'[p] = ActiveReply(req[p])
    BY <1>3 DEF ListTable, Answer, TypeOK
  <2>2. CASE req[p].action \in GuardActions
    BY <1>1, <2>1, <2>2 DEF ActiveReply, Answers, GuardActions
  <2>3. CASE req[p].action \notin GuardActions /\ Verified(ks)
    BY <1>1, <2>1, <2>3
       DEF ActiveReply, Answers, GuardActions, Verified, ValidInterfaces, ValidEndpoints
  <2>4. CASE req[p].action \notin GuardActions /\ ~Verified(ks)
    <3>1. /\ reply'[p].code = "VERIFY" /\ reply'[p].state = "error"
          /\ ks.present
      BY <1>3, <2>1, <2>4 DEF ActiveReply, GuardActions, OwnTable
    <3>2. ~ValidEndpoints(ks.eps)
      BY <2>4, <3>1 DEF Verified, InterfacesValid
    <3>3. ASSUME req[p].action \in {"enable", "set-endpoints", "disable", "emergency-reset"}
          PROVE  FALSE
      <4>1. pc[p] = "list"
        BY <1>1, <3>3 DEF MutationsLocked, Mutations, KillSwitchMutations
      <4>2. Renders(req[p]) /\ EffectOnTable(req[p], ks)
        BY <3>1, <4>1 DEF Rendered, EffectHeld
      <4>3. req[p].action \in {"enable", "set-endpoints"}
        BY <3>1, <3>3, <4>1 DEF EffectHeld
      <4>4. ks.eps = req[p].eps /\ ValidEndpoints(req[p].eps)
        BY <4>2, <4>3 DEF EffectOnTable, Renders
      <4> QED BY <3>2, <4>4
    <3>4. req[p].action \in {"status", "set-interfaces", "add-endpoint", "remove-endpoint"}
      BY <1>1, <2>4, <3>3
         DEF Request, Actions, Mutations, KillSwitchMutations, GuardActions, GuardMutations
    <3> QED BY <1>1, <3>1, <3>4 DEF Answers
  <2> QED BY <2>2, <2>3, <2>4
<1> QED BY <1>2, <1>3

\* The answers stay those of the list, and one that fails verification is to a
\* request that need not leave a table which verifies.
LEMMA AnswersPreserved ==
  AnswerInv /\ [Next]_vars => AnswersListed' /\ ReplacementVerifies'
<1> DEFINE Told(p) ==
      pc'[p] = "replied" =>
        /\ Answers(req'[p], reply'[p])
        /\ reply'[p].code = "VERIFY" =>
             req'[p].action \in {"status", "set-interfaces", "add-endpoint", "remove-endpoint"}
<1> SUFFICES ASSUME AnswerInv, [Next]_vars, NEW p \in Procs PROVE Told(p)
  BY DEF AnswersListed, ReplacementVerifies, Answers, Failure, DisabledReply
<1> USE DEF AnswerInv, IInv
<1>1. CASE Aside(p)
  BY <1>1 DEF Aside, AnswersListed, ReplacementVerifies
<1>2. CASE ListTable(p)
  BY <1>2, ListedAnswer
<1>3. CASE \/ \E r \in Requests[p] : Submit(p, r)
           \/ AcquireLock(p) \/ Exclude(p) \/ CheckScript(p) \/ ApplyScript(p)
           \/ TableExists(p) \/ NftFails(p) \/ Finish(p) \/ Killed(p)
  <2>1. pc'[p] = "replied" =>
          \/ reply'[p] \in {Failure(c) : c \in {"VALIDATION", "PRIVILEGE", "SAFETY", "NFT"}}
          \/ reply'[p] = DisabledReply
    BY <1>3, OwnStep
  <2> QED BY <2>1 DEF Answers, Failure, DisabledReply
<1>4. CASE RulesetFlushed \/ UNCHANGED vars
  BY <1>1, <1>4 DEF RulesetFlushed, vars, Aside
<1> QED BY <1>1, <1>2, <1>3, <1>4, OthersAside DEF Next, Work

\* The second invariant holds of every reachable state too.
LEMMA AnswersInductive == Spec => []AnswerInv
<1>1. Init /\ IInv => AnswerInv
  BY DEF Init, AnswerInv, Rendered, InterfacesValid, AnswersListed, ReplacementVerifies,
         NoTable
<1>2. AnswerInv /\ [Next]_vars /\ IInv' => AnswerInv'
  BY RenderedPreserved, InterfacesPreserved, AnswersPreserved DEF AnswerInv
<1> QED BY <1>1, <1>2, Inductive, PTL DEF Spec

\* A table that was armed, or whose endpoints were replaced, always verifies,
\* whatever other helpers run: only a status, new interfaces over old endpoints
\* and the two requests on one endpoint may find a table that does not.
THEOREM ReplacementsVerify == Spec => []ReplacementVerifies
<1>1. AnswerInv => ReplacementVerifies
  BY DEF AnswerInv
<1> QED BY <1>1, AnswersInductive, PTL

\* The client reads a refusal, or a table that fails verification, as an error of
\* the command.
LEMMA RefusalRead ==
  ASSUME NEW r \in Request, NEW doc \in Reply,
         doc.code \in {"VALIDATION", "PRIVILEGE", "SAFETY", "NFT", "VERIFY"}
  PROVE  Outcome(r, Printed(r, doc)) = "command error"
<1> DEFINE d == Payload(r, doc)
           c == ExitCode(doc.code)
           out == Printed(r, doc)
<1>1. c \in 2..6
  BY DEF ExitCode
<1>2. d # NoDocument /\ d.action = r.action /\ ~d.ok
  BY DEF Payload, NoDocument, Request, Actions, Mutations, KillSwitchMutations, GuardMutations
<1>3. out.returncode = c /\ out.stdout = NoDocument /\ out.stderr = d
  BY <1>1 DEF Printed
<1>4. ParsedPayload(out) = d
  BY <1>1, <1>3 DEF ParsedPayload
<1> HIDE DEF d, c, out
<1>5. ValidEnvelope(out, r)
  BY <1>1, <1>2, <1>3, <1>4 DEF ValidEnvelope
<1> QED BY <1>2, <1>4, <1>5 DEF Outcome, out

\* How the client reads the document of a success.
LEMMA SuccessRead ==
  ASSUME NEW r \in Request, NEW doc \in Reply, doc.code = "OK",
         doc.state \in {"active", "disabled"},
         r.action \notin GuardActions =>
           IF doc.state = "active" THEN doc.ifaces # {} /\ doc.eps # {}
                                   ELSE doc.ifaces = {} /\ doc.eps = {}
  PROVE  Outcome(r, Printed(r, doc)) =
           IF doc.state \in ExpectedStates(r) THEN "status" ELSE "invalid"
<1> DEFINE d == Payload(r, doc)
           out == Printed(r, doc)
<1>1. /\ d # NoDocument /\ d.action = r.action /\ d.ok /\ d.state = doc.state
      /\ d.verified /\ d.ifaces = doc.ifaces /\ d.eps = doc.eps
      /\ d.present <=> doc.state = "active"
  BY DEF Payload, NoDocument, Request, Actions, Mutations, KillSwitchMutations, GuardMutations
<1>2. out.returncode = 0 /\ out.stdout = d /\ out.stderr = NoDocument
  BY DEF Printed, ExitCode
<1>3. ParsedPayload(out) = d
  BY <1>2 DEF ParsedPayload
<1> HIDE DEF d, out
<1>4. ValidEnvelope(out, r)
  BY <1>1, <1>2, <1>3 DEF ValidEnvelope
<1>5. StatusAccepted(d)
  BY <1>1 DEF StatusAccepted
<1> QED BY <1>1, <1>2, <1>3, <1>4, <1>5 DEF Outcome, out

\* Every document a helper prints is taken by the strict client as what it says,
\* for every request the client sends and any number of concurrent helpers.
THEOREM ClientsAgree == Spec => []ClientAgrees
<1>1. ASSUME AnswerInv PROVE ClientAgrees
  <2> SUFFICES ASSUME NEW p \in Procs, pc[p] = "replied"
               PROVE  /\ (CallOutcome(p) = "invalid") <=> FoundNoTable(p)
                      /\ (CallOutcome(p) = "command error") <=> (reply[p].code # "OK")
                      /\ CallOutcome(p) = "status" /\ req[p].action \in Mutations
                           => \/ EffectSeen(req[p], reply[p])
                              \/ ExpectedStates(req[p]) = {"disabled"}
    BY DEF ClientAgrees
  <2>1. req[p] \in Request /\ reply[p] \in Reply /\ Answers(req[p], reply[p])
    BY <1>1 DEF AnswerInv, IInv, TypeOK, AnswersListed
  <2>2. \/ reply[p].code \in {"VALIDATION", "PRIVILEGE", "SAFETY", "NFT", "VERIFY"}
        \/ reply[p] = DisabledReply
        \/ reply[p].code = "OK" /\ reply[p].state = "active"
    BY <2>1 DEF Answers, Failure
  <2>3. CASE reply[p].code \in {"VALIDATION", "PRIVILEGE", "SAFETY", "NFT", "VERIFY"}
    <3>1. CallOutcome(p) = "command error"
      BY <2>1, <2>3, RefusalRead DEF CallOutcome
    <3> QED BY <2>3, <3>1 DEF FoundNoTable
  <2>4. CASE reply[p] = DisabledReply
    <3>1. reply[p].code = "OK" /\ reply[p].state = "disabled"
          /\ reply[p].ifaces = {} /\ reply[p].eps = {}
      BY <2>4 DEF DisabledReply
    <3>2. CallOutcome(p) = IF "disabled" \in ExpectedStates(req[p]) THEN "status" ELSE "invalid"
      BY <2>1, <3>1, SuccessRead DEF CallOutcome
    <3>3. /\ ExpectedStates(req[p]) = {"active"} <=> "disabled" \notin ExpectedStates(req[p])
          /\ "disabled" \in ExpectedStates(req[p]) /\ req[p].action \in Mutations
               => ExpectedStates(req[p]) = {"disabled"}
      BY <2>1 DEF ExpectedStates, Mutations, KillSwitchMutations, GuardMutations
    <3> QED BY <3>1, <3>2, <3>3 DEF FoundNoTable
  <2>5. CASE reply[p].code = "OK" /\ reply[p].state = "active"
    <3>1. req[p].action \notin GuardActions => reply[p].ifaces # {} /\ reply[p].eps # {}
      BY <2>1, <2>5 DEF Answers, Failure, DisabledReply
    <3>2. CallOutcome(p) = IF "active" \in ExpectedStates(req[p]) THEN "status" ELSE "invalid"
      BY <2>1, <2>5, <3>1, SuccessRead DEF CallOutcome
    <3>3. req[p].action \in Mutations => EffectSeen(req[p], reply[p])
      BY <1>1, <2>5 DEF AnswerInv, IInv, ReplyIsOwnEffect
    <3>4. "active" \in ExpectedStates(req[p])
      BY <2>1, <3>3
         DEF ExpectedStates, EffectSeen, Request, Actions, Mutations, KillSwitchMutations,
             GuardMutations
    <3> QED BY <2>5, <3>2, <3>3, <3>4 DEF FoundNoTable
  <2> QED BY <2>2, <2>3, <2>4, <2>5
<1> QED BY <1>1, AnswersInductive, PTL
=============================================================================
