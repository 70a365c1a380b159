--------------------------- MODULE FirewallHelper ---------------------------
(***************************************************************************)
(* The root-owned firewall helper (helper/pia_bazzite_kill_switch_helper).  *)
(* Several helper processes (the broker of an authenticated session, a      *)
(* one-shot emergency reset, a second session of a test tool) run           *)
(* cli.main() on the two fixed nftables tables.  Every nft invocation is a  *)
(* step of its own; a mutating request holds the flock of _exclusive_lock   *)
(* from the exclusion check to the status it answers with, and the two      *)
(* status requests read without it.                                         *)
(*                                                                         *)
(* Addresses, ports and names are members of small sets: a request carries  *)
(* the set of interfaces and the set of endpoints of its arguments.         *)
(***************************************************************************)
EXTENDS Naturals, FiniteSets

CONSTANTS
  Procs,            \* helper processes
  Rooted,           \* those with effective uid 0
  HostAllowed,      \* those in the trusted launcher or an isolated namespace
  Interfaces,       \* interface names a request may carry
  ReservedNames,    \* the names validate_interface refuses: lo and the tunnel
  EndpointsV4,      \* IPv4 WireGuard endpoints
  EndpointsV6,      \* IPv6 WireGuard endpoints
  MaxInterfaces,    \* MAX_INTERFACES
  MaxEndpoints,     \* MAX_ENDPOINTS
  SetSize,          \* the "size" every nft set is declared with
  Requests,         \* the requests each process may be started with
  NoProc            \* the holder of a free lock

Endpoints == EndpointsV4 \cup EndpointsV6

KillSwitchMutations == {"enable", "set-interfaces", "set-endpoints",
                        "add-endpoint", "remove-endpoint",
                        "disable", "emergency-reset"}
GuardMutations == {"ipv6-guard-enable", "ipv6-guard-disable"}
Mutations == KillSwitchMutations \cup GuardMutations
Actions == Mutations \cup {"status", "ipv6-guard-status"}

Request == [action : Actions, ifaces : SUBSET Interfaces, eps : SUBSET Endpoints]

ASSUME HelperAssumption ==
  /\ NoProc \notin Procs
  /\ Requests \in [Procs -> SUBSET Request]
  /\ IsFiniteSet(Interfaces) /\ IsFiniteSet(Endpoints)
  /\ MaxInterfaces \in Nat /\ MaxEndpoints \in Nat /\ SetSize \in Nat

VARIABLES
  ks,      \* the table pia_bazzite_killswitch
  guard,   \* is the table pia_bazzite_ipv6_guard present
  lock,    \* the process holding the flock, or NoProc
  pc,      \* where each process is in cli.main
  req,     \* the request each process works on
  reply    \* the document each process answered with

vars == <<ks, guard, lock, pc, req, reply>>

Table == [present : BOOLEAN, ifaces : SUBSET Interfaces, eps : SUBSET Endpoints]
NoTable == [present |-> FALSE, ifaces |-> {}, eps |-> {}]

Codes == {"NONE", "OK", "VALIDATION", "PRIVILEGE", "SAFETY", "NFT", "VERIFY"}
Reply == [code : Codes, state : {"none", "active", "disabled", "error"},
          ifaces : SUBSET Interfaces, eps : SUBSET Endpoints]
NoRequest == [action |-> "status", ifaces |-> {}, eps |-> {}]
Failure(c) == [code |-> c, state |-> "none", ifaces |-> {}, eps |-> {}]
NoReply == Failure("NONE")

Unlocked == {"idle", "lock", "read-exists", "read-list", "replied"}
Critical == {"exclude", "check", "apply", "exists", "list"}

TypeOK ==
  /\ ks \in Table
  /\ guard \in BOOLEAN
  /\ lock \in Procs \cup {NoProc}
  /\ pc \in [Procs -> Unlocked \cup Critical]
  /\ req \in [Procs -> Request]
  /\ reply \in [Procs -> Reply]

(***************************************************************************)
(* Rendering: what argument validation accepts.                             *)
(***************************************************************************)
ValidInterfaces(S) ==
  S # {} /\ S \cap ReservedNames = {} /\ Cardinality(S) <= MaxInterfaces

ValidEndpoints(S) == S # {} /\ Cardinality(S) <= MaxEndpoints

Renders(r) ==
  /\ r.action \in {"enable", "set-interfaces"} => ValidInterfaces(r.ifaces)
  /\ r.action \in {"enable", "set-endpoints"} => ValidEndpoints(r.eps)

(***************************************************************************)
(* nftables: whether it takes a script, and what the transaction does.      *)
(***************************************************************************)
FitsSets(S) == /\ Cardinality(S \cap EndpointsV4) <= SetSize
               /\ Cardinality(S \cap EndpointsV6) <= SetSize

ScriptAccepted(r, k) ==
  /\ r.action \in {"set-interfaces", "set-endpoints", "add-endpoint", "remove-endpoint"}
       => k.present
  /\ r.action = "add-endpoint" => FitsSets(k.eps \cup r.eps)

MutAppendEndpoints(r, k) ==
  CASE r.action = "enable" -> [present |-> TRUE, ifaces |-> r.ifaces, eps |-> r.eps]
    [] r.action = "set-interfaces"  -> [k EXCEPT !.ifaces = r.ifaces]
    [] r.action = "set-endpoints"   -> [k EXCEPT !.eps = @ \cup r.eps]
    [] r.action = "add-endpoint"    -> [k EXCEPT !.eps = @ \cup r.eps]
    [] r.action = "remove-endpoint" -> [k EXCEPT !.eps = @ \ r.eps]
    [] r.action \in {"disable", "emergency-reset"} -> NoTable
    [] OTHER -> k

KillSwitchAfter(r, k) ==
  CASE r.action = "enable" -> [present |-> TRUE, ifaces |-> r.ifaces, eps |-> r.eps]
    [] r.action = "set-interfaces"  -> [k EXCEPT !.ifaces = r.ifaces]
    [] r.action = "set-endpoints"   -> [k EXCEPT !.eps = r.eps]
    [] r.action = "add-endpoint"    -> [k EXCEPT !.eps = @ \cup r.eps]
    [] r.action = "remove-endpoint" -> [k EXCEPT !.eps = @ \ r.eps]
    [] r.action \in {"disable", "emergency-reset"} -> NoTable
    [] OTHER -> k

GuardAfter(r, g) ==
  \/ r.action = "ipv6-guard-enable"
  \/ r.action # "ipv6-guard-disable" /\ g

(***************************************************************************)
(* Status: the document _status builds from the table nft lists.            *)
(***************************************************************************)
MutVerifiedPartly(k) == ValidInterfaces(k.ifaces)

Verified(k) == ValidInterfaces(k.ifaces) /\ ValidEndpoints(k.eps)

ActiveReply(r) ==
  IF r.action \in GuardMutations \cup {"ipv6-guard-status"}
  THEN [code |-> "OK", state |-> "active", ifaces |-> {}, eps |-> {}]
  ELSE IF Verified(ks)
       THEN [code |-> "OK", state |-> "active", ifaces |-> ks.ifaces, eps |-> ks.eps]
       ELSE [code |-> "VERIFY", state |-> "error", ifaces |-> {}, eps |-> {}]

MutDisabledUnknown == [code |-> "OK", state |-> "absent", ifaces |-> {}, eps |-> {}]

DisabledReply == [code |-> "OK", state |-> "disabled", ifaces |-> {}, eps |-> {}]

OwnTable(r) ==
  IF r.action \in GuardMutations \cup {"ipv6-guard-status"} THEN guard ELSE ks.present

-----------------------------------------------------------------------------
(***************************************************************************)
(* The steps of one invocation of cli.main.                                 *)
(***************************************************************************)
Answer(p, doc) ==
  /\ reply' = [reply EXCEPT ![p] = doc]
  /\ pc' = [pc EXCEPT ![p] = "replied"]
  /\ lock' = IF lock = p THEN NoProc ELSE lock

Goto(p, l) == pc' = [pc EXCEPT ![p] = l] /\ UNCHANGED reply

\* Arguments are parsed and the script rendered before privilege is checked.
Submit(p, r) ==
  /\ pc[p] = "idle"
  /\ req' = [req EXCEPT ![p] = r]
  /\ \/ ~Renders(r) /\ Answer(p, Failure("VALIDATION"))
     \/ Renders(r) /\ p \notin Rooted /\ Answer(p, Failure("PRIVILEGE"))
     \/ /\ Renders(r) /\ p \in Rooted /\ p \notin HostAllowed
        /\ Answer(p, Failure("SAFETY"))
     \/ /\ Renders(r) /\ p \in Rooted /\ p \in HostAllowed
        /\ Goto(p, IF r.action \in Mutations THEN "lock" ELSE "read-exists")
        /\ UNCHANGED lock
  /\ UNCHANGED <<ks, guard>>

\* flock(LOCK_EX) blocks until no other open description holds the lock.
AcquireLock(p) ==
  /\ pc[p] = "lock"
  /\ lock = NoProc
  /\ lock' = p
  /\ Goto(p, IF req[p].action \in {"enable", "ipv6-guard-enable"} THEN "exclude" ELSE "check")
  /\ UNCHANGED <<ks, guard, req>>

MutOwnTablePresent(r) == IF r.action = "enable" THEN ks.present ELSE guard

OtherTablePresent(r) == IF r.action = "enable" THEN guard ELSE ks.present

\* Neither table is armed while the other one exists.
Exclude(p) ==
  /\ pc[p] = "exclude"
  /\ IF OtherTablePresent(req[p])
     THEN Answer(p, Failure("SAFETY"))
     ELSE Goto(p, "check") /\ UNCHANGED lock
  /\ UNCHANGED <<ks, guard, req>>

CheckScript(p) ==
  /\ pc[p] = "check"
  /\ IF ScriptAccepted(req[p], ks)
     THEN Goto(p, "apply") /\ UNCHANGED lock
     ELSE Answer(p, Failure("NFT"))
  /\ UNCHANGED <<ks, guard, req>>

MutLineByLine(p) ==
  /\ pc[p] = "apply"
  /\ \/ /\ ks' = KillSwitchAfter(req[p], ks)
        /\ guard' = GuardAfter(req[p], guard)
        /\ Goto(p, "exists") /\ UNCHANGED lock
     \/ /\ ks' = IF req[p].action = "enable" THEN NoTable ELSE ks
        /\ Answer(p, Failure("NFT"))
        /\ UNCHANGED guard
  /\ UNCHANGED req

\* The transaction commits as a whole or not at all.  A timeout of nft can
\* report failure for a transaction the kernel has committed.
ApplyScript(p) ==
  /\ pc[p] = "apply"
  /\ \/ /\ ScriptAccepted(req[p], ks)
        /\ ks' = KillSwitchAfter(req[p], ks)
        /\ guard' = GuardAfter(req[p], guard)
        /\ \/ Goto(p, "exists") /\ UNCHANGED lock
           \/ Answer(p, Failure("NFT"))
     \/ /\ ~ScriptAccepted(req[p], ks)
        /\ Answer(p, Failure("NFT"))
        /\ UNCHANGED <<ks, guard>>
  /\ UNCHANGED req

MutReadUnlocked(p) ==
  /\ pc[p] \in {"exists", "read-exists"}
  /\ IF OwnTable(req[p])
     THEN /\ Goto(p, "read-list")
          /\ lock' = IF lock = p THEN NoProc ELSE lock
     ELSE Answer(p, DisabledReply)
  /\ UNCHANGED <<ks, guard, req>>

\* _status: table_exists and the JSON listing are two nft invocations.
TableExists(p) ==
  /\ pc[p] \in {"exists", "read-exists"}
  /\ IF OwnTable(req[p])
     THEN /\ Goto(p, IF pc[p] = "exists" THEN "list" ELSE "read-list")
          /\ UNCHANGED lock
     ELSE Answer(p, DisabledReply)
  /\ UNCHANGED <<ks, guard, req>>

ListTable(p) ==
  /\ pc[p] \in {"list", "read-list"}
  /\ Answer(p, IF OwnTable(req[p]) THEN ActiveReply(req[p]) ELSE Failure("NFT"))
  /\ UNCHANGED <<ks, guard, req>>

MutFailureKeepsLock(p) ==
  /\ pc[p] \in {"exclude", "check", "apply", "exists", "list", "read-exists", "read-list"}
  /\ reply' = [reply EXCEPT ![p] = Failure("NFT")]
  /\ pc' = [pc EXCEPT ![p] = "replied"]
  /\ UNCHANGED <<ks, guard, lock, req>>

\* The lock file may be refused, and any nft invocation may fail or time out
\* before it has an effect.
NftFails(p) ==
  /\ pc[p] \in Critical \cup {"lock", "read-exists", "read-list"}
  /\ Answer(p, Failure("NFT"))
  /\ UNCHANGED <<ks, guard, req>>

Finish(p) ==
  /\ pc[p] = "replied"
  /\ pc' = [pc EXCEPT ![p] = "idle"]
  /\ req' = [req EXCEPT ![p] = NoRequest]
  /\ reply' = [reply EXCEPT ![p] = NoReply]
  /\ UNCHANGED <<ks, guard, lock>>

\* The process dies at any point; the kernel drops its flock.
Killed(p) ==
  /\ pc[p] # "idle"
  /\ pc' = [pc EXCEPT ![p] = "idle"]
  /\ req' = [req EXCEPT ![p] = NoRequest]
  /\ reply' = [reply EXCEPT ![p] = NoReply]
  /\ lock' = IF lock = p THEN NoProc ELSE lock
  /\ UNCHANGED <<ks, guard>>

\* Another administrator flushes the ruleset, without the helper's lock.
RulesetFlushed ==
  /\ ks.present \/ guard
  /\ ks' = NoTable
  /\ guard' = FALSE
  /\ UNCHANGED <<lock, pc, req, reply>>

-----------------------------------------------------------------------------
Init ==
  /\ ks = NoTable
  /\ guard = FALSE
  /\ lock = NoProc
  /\ pc = [p \in Procs |-> "idle"]
  /\ req = [p \in Procs |-> NoRequest]
  /\ reply = [p \in Procs |-> NoReply]

Work(p) ==
  \/ AcquireLock(p)
  \/ Exclude(p)
  \/ CheckScript(p)
  \/ ApplyScript(p)
  \/ TableExists(p)
  \/ ListTable(p)
  \/ NftFails(p)

Next ==
  \/ \E p \in Procs : \/ \E r \in Requests[p] : Submit(p, r)
                      \/ Work(p)
                      \/ Finish(p)
                      \/ Killed(p)
  \/ RulesetFlushed

Spec == Init /\ [][Next]_vars

\* Every nft invocation has a timeout, so a process that can step does.
FairSpec == Spec /\ \A p \in Procs : WF_vars(Work(p))

-----------------------------------------------------------------------------
(***************************************************************************)
(* Properties.                                                              *)
(***************************************************************************)

\* The two protection modes never coexist: whatever two sessions do, the
\* full table and the IPv6-only table are not both installed.
TablesExclusive == ~(ks.present /\ guard)

\* What an answered mutation must have left behind, as its status sees it.
EffectSeen(r, doc) ==
  /\ r.action = "enable" => doc.ifaces = r.ifaces /\ doc.eps = r.eps
  /\ r.action = "set-interfaces" => doc.ifaces = r.ifaces
  /\ r.action = "set-endpoints" => doc.eps = r.eps
  /\ r.action = "add-endpoint" => r.eps \subseteq doc.eps
  /\ r.action = "remove-endpoint" => r.eps \cap doc.eps = {}
  /\ r.action \notin {"disable", "emergency-reset", "ipv6-guard-disable"}

\* A successful answer to a mutation describes its own effect and never that
\* of a concurrent session; only a flush from outside can turn it into an
\* answer that reports no table.
ReplyIsOwnEffect ==
  \A p \in Procs :
    /\ pc[p] = "replied"
    /\ req[p].action \in Mutations
    /\ reply[p].code = "OK"
    /\ reply[p].state = "active"
    => EffectSeen(req[p], reply[p])

\* add-endpoint and remove-endpoint can leave a table that fails
\* verification (none left, or more than MAX_ENDPOINTS); arming again or
\* replacing the endpoints always leaves one that verifies.
ReplacementVerifies ==
  \A p \in Procs :
    pc[p] = "replied" /\ reply[p].code = "VERIFY"
      => req[p].action \in {"status", "set-interfaces", "add-endpoint", "remove-endpoint"}

\* Replacing a table or its sets is one transaction: the filter disappears
\* only by disable, emergency-reset or a flush from outside.
RemovalRequested ==
  ks.present /\ ~ks'.present =>
    \/ RulesetFlushed
    \/ \E p \in Procs : lock = p /\ req[p].action \in {"disable", "emergency-reset"}

NoUnfilteredWindow == [][RemovalRequested]_vars

\* The lock is always given back, whatever nft does: a request that fails on any
\* of its paths, or whose process dies, never shuts out the others.
LockReleased == lock # NoProc ~> lock = NoProc
=============================================================================
