----------------------------- MODULE HelperClient -----------------------------
(***************************************************************************)
(* The unprivileged client of one helper process (kill_switch_client.py).   *)
(* It starts the helper through pkexec, and believes nothing: the exit      *)
(* code, the two output streams and every field of the document have to     *)
(* agree, or the call ends in an error.  Here the documents are those the   *)
(* processes of FirewallHelper really print, so that the two sides of the   *)
(* protocol are checked against each other.                                 *)
(*                                                                         *)
(* The client keeps no state between calls: what a call ends in is a        *)
(* function of what the process printed.                                    *)
(***************************************************************************)
EXTENDS FirewallHelper

GuardActions == GuardMutations \cup {"ipv6-guard-status"}

\* What the client passes on: a list argument holds at least one value, and
\* the two endpoint actions take exactly one.
ClientSends(r) ==
  /\ r.action \in {"enable", "set-interfaces"} => r.ifaces # {}
  /\ r.action \in {"enable", "set-endpoints"} => r.eps # {}
  /\ r.action \in {"add-endpoint", "remove-endpoint"} => Cardinality(r.eps) = 1

ExitCode(code) ==
  CASE code = "OK"         -> 0
    [] code = "VALIDATION" -> 2
    [] code = "PRIVILEGE"  -> 3
    [] code = "NFT"        -> 4
    [] code = "VERIFY"     -> 5
    [] code = "SAFETY"     -> 6

NoDocument == [action |-> "none"]

\* The document of a reply: an error carries no fields of a table, except
\* that a table which fails verification is reported with its problems.
Payload(r, doc) ==
  [action |-> r.action, ok |-> doc.code = "OK",
   state |-> doc.state, present |-> doc.state \in {"active", "error"},
   verified |-> doc.state \in {"active", "disabled"},
   ifaces |-> doc.ifaces, eps |-> doc.eps]

\* _emit: a success goes to stdout, everything else to stderr.
Printed(r, doc) ==
  LET d == Payload(r, doc)
      c == ExitCode(doc.code)
  IN [returncode |-> c, stdout |-> IF c = 0 THEN d ELSE NoDocument,
                        stderr |-> IF c = 0 THEN NoDocument ELSE d]

-----------------------------------------------------------------------------
ParsedPayload(result) ==
  CASE result.returncode = 0 /\ result.stderr = NoDocument -> result.stdout
    [] result.returncode # 0 /\ result.stdout = NoDocument -> result.stderr
    [] OTHER -> NoDocument

ValidEnvelope(result, r) ==
  LET d == ParsedPayload(result) IN
    /\ d # NoDocument
    /\ d.action = r.action
    /\ d.ok <=> result.returncode = 0

\* KillSwitchStatus.from_response and IPv6GuardStatus.from_response
StatusAccepted(d) ==
  /\ d.state \in {"active", "disabled"}
  /\ d.verified
  /\ d.present <=> d.state = "active"
  /\ d.action \notin GuardActions =>
       IF d.state = "active" THEN d.ifaces # {} /\ d.eps # {}
                             ELSE d.ifaces = {} /\ d.eps = {}

ExpectedStates(r) ==
  CASE r.action \in {"status", "ipv6-guard-status"} -> {"active", "disabled"}
    [] r.action \in {"disable", "emergency-reset", "ipv6-guard-disable"} -> {"disabled"}
    [] OTHER -> {"active"}

\* How a call of the client ends, given what the process printed: the checks in
\* the order they are made, and the first that fails decides.  pkexec itself
\* exits with 126 or 127, without a document, when nothing was started.
Outcome(r, result) ==
  LET d == ParsedPayload(result) IN
    IF result.returncode \in {126, 127} /\ d = NoDocument THEN "denied"
    ELSE IF ~ValidEnvelope(result, r) THEN "invalid"
    ELSE IF ~d.ok THEN "command error"
    ELSE IF StatusAccepted(d) /\ d.state \in ExpectedStates(r) THEN "status"
    ELSE "invalid"

-----------------------------------------------------------------------------
(***************************************************************************)
(* Properties.                                                              *)
(***************************************************************************)
CallOutcome(p) == Outcome(req[p], Printed(req[p], reply[p]))

\* A table gone before the status of the request that filled it was read.
FoundNoTable(p) ==
  /\ reply[p].code = "OK"
  /\ reply[p].state = "disabled"
  /\ ExpectedStates(req[p]) = {"active"}

\* The two sides of the protocol agree: every document a helper prints, in
\* whatever state its tables are, is taken by the strict client as what it
\* says.  It is refused as invalid only where the ruleset was flushed under a
\* request, is never taken for a dismissed dialog, and what a call returns as
\* the status has the effect that was asked for.
ClientAgrees ==
  \A p \in Procs :
    pc[p] = "replied" /\ ClientSends(req[p]) =>
      /\ (CallOutcome(p) = "invalid") <=> FoundNoTable(p)
      /\ (CallOutcome(p) = "command error") <=> (reply[p].code # "OK")
      /\ CallOutcome(p) = "status" /\ req[p].action \in Mutations
           => \/ EffectSeen(req[p], reply[p])
              \/ ExpectedStates(req[p]) = {"disabled"}
=============================================================================
