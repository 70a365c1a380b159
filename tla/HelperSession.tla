---------------------------- MODULE HelperSession ----------------------------
(***************************************************************************)
(* KillSwitchSessionClient and its JsonLineSessionTransport, called by the  *)
(* threads that share one client, and the root-owned brokers of             *)
(* session_entry.main() at the other end of the pipes.  A worker and the    *)
(* GUI thread, or a release and a connect of the IPv6 guard, may call the   *)
(* same client: _request_lock covers an exchange only, so open() and        *)
(* close() interleave with it at every field they touch.                    *)
(*                                                                         *)
(* Frames are read whole, and a request stands for any helper action; what  *)
(* the action does to the tables is the module FirewallHelper.  The client  *)
(* cannot signal a broker, which belongs to root: it can only close pipes.  *)
(***************************************************************************)
EXTENDS Naturals, Sequences, FiniteSets

CONSTANTS
  Threads,       \* the threads that hold the client
  CallerSets,    \* the sets of threads a client may be used by
  Brokers,       \* process ids
  None,          \* Python None, also the thread of a free lock
  MaxRequests,   \* MAX_REQUESTS of a broker
  Calls          \* bound: calls made on the client

ASSUME SessionAssumption ==
  /\ None \notin Threads \cup Brokers /\ IsFiniteSet(Threads)
  /\ CallerSets \subseteq (SUBSET Threads) \ {{}}
  /\ MaxRequests \in Nat \ {0} /\ Calls \in Nat

VARIABLES
  callers,  \* the threads that use this client
  ready,    \* _ready: the broker whose ready frame was accepted
  rid,      \* _request_id
  proc,     \* transport._process
  lock,     \* _request_lock
  call,     \* what every thread does
  broker    \* the broker processes and their pipes

vars == <<callers, ready, rid, proc, lock, call, broker>>
Fields == <<ready, rid, proc>>
SoleCaller == Cardinality(callers) = 1

Ids == 0 .. Calls
Ops == {"open", "act", "close"}
Pcs == {"idle", "open", "drop", "clear", "start", "spawn", "started", "greet", "adopt", "reset",
        "look", "queue", "send", "sent", "wait", "closing", "drain"}

\* the call a request was made for, and the frame was made for
Tags == (Threads \cup {None}) \X (0 .. Calls)
NoTag == <<None, 0>>

\* own: the broker an exchange expects; at: the process it reads from; a call
\* that did not raise is ok, with the tag of the answer it returned
Call == [pc : Pcs, op : Ops, n : 0 .. Calls, ok : BOOLEAN, rid : Ids, answer : Tags,
         own : Brokers \cup {None}, at : Brokers \cup {None}]
NoCall == [pc |-> "idle", op |-> "open", n |-> 0, ok |-> FALSE, rid |-> 0, answer |-> NoTag,
           own |-> None, at |-> None]

Request == [rid : Ids, tag : Tags, close : BOOLEAN]
Frame == [kind : {"ready", "done", "refused"}, pid : Brokers, rid : Ids, tag : Tags]

\* in, out: the pipes; eof: the client's end of the input pipe is closed
Broker == [st : {"free", "auth", "up", "gone"}, in : Seq(Request), out : Seq(Frame),
           last : Ids, served : 0 .. MaxRequests, eof : BOOLEAN]
NoBroker == [st |-> "free", in |-> <<>>, out |-> <<>>, last |-> 0, served |-> 0, eof |-> FALSE]

TypeOK ==
  /\ callers \in CallerSets
  /\ ready \in Brokers \cup {None} /\ proc \in Brokers \cup {None}
  /\ rid \in Ids /\ lock \in Threads \cup {None}
  /\ call \in [Threads -> Call]
  /\ broker \in [Brokers -> Broker]

\* Calls is shared out evenly
Init ==
  /\ callers \in CallerSets
  /\ ready = None /\ rid = 0 /\ proc = None /\ lock = None
  /\ call = [t \in Threads |-> NoCall]
  /\ broker = [b \in Brokers |-> NoBroker]

(***************************************************************************)
(* Steps of a call.                                                         *)
(***************************************************************************)
At(t, pc) == call[t].pc = pc
Put(t, c) == call' = [call EXCEPT ![t] = c]
Goto(t, pc) == Put(t, [call[t] EXCEPT !.pc = pc])

\* the exchange of a close() falls through to its finally block
Raise(t) == Goto(t, IF call[t].op = "close" THEN "closing" ELSE "idle")

\* is_alive
Alive == proc # None /\ broker[proc].st # "gone"

\* the pipes of a process close: it reads to the end of what was written, then EOF
Hangup(p) == broker' = [b \in Brokers |-> [broker[b] EXCEPT !.eof = @ \/ b = p]]

\* JsonLineSessionTransport.close: terminate() on a process of root raises, after
\* the input pipe was closed
MutTransportClose == proc' = None /\ UNCHANGED broker
TransportClose == proc' = None /\ Hangup(proc)

Begin(t) ==
  /\ At(t, "idle") /\ call[t].n < Calls \div Cardinality(callers)
  /\ \E op \in Ops :
       Put(t, [NoCall EXCEPT !.op = op, !.n = call[t].n + 1,
                 !.pc = CASE op = "open" -> "open" [] op = "act" -> "look"
                          [] op = "close" -> IF ready = None THEN "drain" ELSE "look"])
  /\ UNCHANGED <<callers, Fields, lock, broker>>

(***************************************************************************)
(* open()                                                                   *)
(***************************************************************************)
\* an open session is returned as it is
OpenLook(t) ==
  /\ At(t, "open")
  /\ \/ ready = None /\ Goto(t, "start")
     \/ ready # None /\ Alive /\ Put(t, [call[t] EXCEPT !.pc = "idle", !.ok = TRUE])
     \/ ready # None /\ ~Alive /\ Goto(t, "drop")
  /\ UNCHANGED <<callers, Fields, lock, broker>>

\* the cached ready frame of a dead broker is forgotten, then its transport closed
OpenDrop(t) ==
  /\ At(t, "drop")
  /\ ready' = None /\ rid' = 0 /\ Goto(t, "clear")
  /\ UNCHANGED <<callers, proc, lock, broker>>

OpenClear(t) == At(t, "clear") /\ TransportClose /\ Goto(t, "start") /\ UNCHANGED <<callers, ready, rid, lock>>

\* start refuses a second process, by a check that another start may pass as well:
\* the process it replaces is never closed
Start(t) ==
  /\ At(t, "start")
  /\ Goto(t, IF proc = None THEN "spawn" ELSE "idle")
  /\ UNCHANGED <<callers, Fields, lock, broker>>

Spawn(t) ==
  /\ At(t, "spawn")
  /\ \/ \E b \in Brokers :
          /\ broker[b].st = "free"
          /\ broker' = [broker EXCEPT ![b].st = "auth"]
          /\ proc' = b
          /\ Goto(t, "started")
     \/ Goto(t, "idle") /\ UNCHANGED <<callers, proc, broker>>   \* pkexec missing, or no process left
  /\ UNCHANGED <<callers, ready, rid, lock>>

\* _read_frame reads the process that is the transport's by now
Listen(t) ==
  /\ At(t, "started") \/ At(t, "sent")
  /\ IF proc # None
     THEN Put(t, [call[t] EXCEPT !.pc = IF @ = "started" THEN "greet" ELSE "wait", !.at = proc])
          /\ UNCHANGED lock
     ELSE /\ Raise(t)
          /\ lock' = IF At(t, "sent") THEN None ELSE lock
  /\ UNCHANGED <<callers, Fields, broker>>

\* all readers share one buffer: a thread may take a frame another thread read
Readers == {t \in Threads : call[t].pc \in {"greet", "wait"}}
Unread == {b \in {call[t].at : t \in Readers} : broker[b].out # <<>>}
TakeFrame(b) == broker' = [broker EXCEPT ![b].out = Tail(@)]

\* no frame to come: the process is gone, or another thread has closed its pipes
Exhausted(b) == broker[b].eof \/ (broker[b].st = "gone" /\ broker[b].out = <<>>)

\* the ready frame is read without a lock; start() cleans up after a failed read,
\* but not after a frame that open() then refuses
MutGreet(t) ==
  /\ At(t, "greet")
  /\ \/ \E b \in Unread :
          /\ TakeFrame(b)
          /\ Goto(t, IF Head(broker[b].out).kind = "ready" THEN "adopt" ELSE "idle")
     \/ UNCHANGED broker /\ Goto(t, "idle")
  /\ UNCHANGED <<callers, ready, rid, proc, lock>>

Greet(t) ==
  /\ At(t, "greet")
  /\ \/ \E b \in Unread :
          /\ TakeFrame(b)
          /\ Put(t, [call[t] EXCEPT !.pc = IF Head(broker[b].out).kind = "ready" THEN "adopt" ELSE "idle",
                                   !.at = Head(broker[b].out).pid])
          /\ UNCHANGED proc
     \/ \* denied, died or timed out
        /\ TransportClose /\ Goto(t, "idle")
  /\ UNCHANGED <<callers, ready, rid, lock>>

Adopt(t) == At(t, "adopt") /\ ready' = call[t].at /\ Goto(t, "reset") /\ UNCHANGED <<callers, rid, proc, lock, broker>>

Reset(t) ==
  /\ At(t, "reset")
  /\ rid' = 0
  /\ Put(t, [call[t] EXCEPT !.pc = "idle", !.ok = TRUE])
  /\ UNCHANGED <<callers, ready, proc, lock, broker>>

(***************************************************************************)
(* _exchange()                                                              *)
(***************************************************************************)
Look(t) ==
  /\ At(t, "look")
  /\ IF ready = None THEN Raise(t) ELSE Put(t, [call[t] EXCEPT !.pc = "queue", !.own = ready])
  /\ UNCHANGED <<callers, Fields, lock, broker>>

Acquire(t) ==
  /\ At(t, "queue") /\ lock = None
  /\ lock' = t /\ rid' = rid + 1
  /\ Put(t, [call[t] EXCEPT !.pc = "send", !.rid = rid + 1])
  /\ UNCHANGED <<callers, ready, proc, broker>>

Writable == Alive /\ ~broker[proc].eof
RequestOf(t) == [rid |-> call[t].rid, tag |-> <<t, call[t].n>>, close |-> call[t].op = "close"]
Write(t) ==
  /\ Writable
  /\ broker' = [broker EXCEPT ![proc].in = Append(@, RequestOf(t))]
  /\ Goto(t, "sent")

\* a closed or broken pipe raises; whatever raises gives the lock back
MutSend(t) ==
  /\ At(t, "send")
  /\ Write(t) \/ (~Writable /\ Raise(t) /\ UNCHANGED broker)
  /\ UNCHANGED <<callers, Fields, lock>>

Send(t) ==
  /\ At(t, "send")
  /\ \/ Write(t) /\ UNCHANGED lock
     \/ ~Writable /\ Raise(t) /\ lock' = None /\ UNCHANGED broker
  /\ UNCHANGED <<callers, Fields>>

\* _validate_frame
MutValidFrame(f, c) == TRUE
ValidFrame(f, c) == f.kind # "ready" /\ f.pid = c.own /\ f.rid = c.rid

\* a refused request raises as well
Accept(t, f) ==
  IF ValidFrame(f, call[t]) /\ f.kind # "refused"
  THEN Put(t, [call[t] EXCEPT !.pc = IF call[t].op = "close" THEN "closing" ELSE "idle",
                 !.ok = TRUE, !.answer = f.tag])
  ELSE Raise(t)

Receive(t) ==
  /\ At(t, "wait") /\ lock' = None
  /\ \/ \E b \in Unread : TakeFrame(b) /\ Accept(t, Head(broker[b].out)) /\ UNCHANGED proc
     \/ Exhausted(call[t].at) /\ Raise(t) /\ UNCHANGED <<callers, proc, broker>>
     \/ TransportClose /\ Raise(t)   \* timed out
  /\ UNCHANGED <<callers, ready, rid>>

(***************************************************************************)
(* close(): the finally block forgets the broker, then closes the pipes.     *)
(***************************************************************************)
Closing(t) == At(t, "closing") /\ ready' = None /\ Goto(t, "drain") /\ UNCHANGED <<callers, rid, proc, lock, broker>>

Drain(t) == At(t, "drain") /\ TransportClose /\ Goto(t, "idle") /\ UNCHANGED <<callers, ready, rid, lock>>

Step(t) ==
  \/ OpenLook(t) \/ OpenDrop(t) \/ OpenClear(t) \/ Start(t) \/ Spawn(t) \/ Listen(t)
  \/ Greet(t) \/ Adopt(t) \/ Reset(t) \/ Look(t) \/ Acquire(t) \/ Send(t) \/ Receive(t)
  \/ Closing(t) \/ Drain(t)

(***************************************************************************)
(* The broker, a process of root behind the Polkit prompt.                  *)
(***************************************************************************)
Say(b, kind, r, tag) == Append(broker[b].out, [kind |-> kind, pid |-> b, rid |-> r, tag |-> tag])

\* the user answers the prompt
Authorise(b) ==
  /\ broker[b].st = "auth"
  /\ broker' = [broker EXCEPT ![b].st = "up", ![b].out = Say(b, "ready", 0, NoTag)]
  /\ UNCHANGED <<callers, Fields, lock, call>>

\* a limit that is one too high
MutLastRequest(b) == broker[b].served = MaxRequests
LastRequest(b) == broker[b].served + 1 = MaxRequests

\* a request is served if its id is higher than the last one served; a close and
\* the last request a broker may take end it
Serve(b) ==
  LET r == Head(broker[b].in)
      fresh == r.rid > broker[b].last
      ends == (r.close /\ fresh) \/ LastRequest(b) IN
  /\ broker[b].st = "up" /\ broker[b].in # <<>>
  /\ broker' = [broker EXCEPT ![b].in = Tail(@), ![b].served = @ + 1,
                              ![b].st = IF ends THEN "gone" ELSE "up",
                              ![b].last = IF fresh THEN r.rid ELSE @,
                              ![b].out = Say(b, IF fresh THEN "done" ELSE "refused", r.rid, r.tag)]
  /\ UNCHANGED <<callers, Fields, lock, call>>

EndOfInput(b) ==
  /\ broker[b].st = "up" /\ broker[b].in = <<>> /\ broker[b].eof
  /\ broker' = [broker EXCEPT ![b].st = "gone"]
  /\ UNCHANGED <<callers, Fields, lock, call>>

\* the prompt is denied, the idle time is over, or the process dies
Exit(b) ==
  /\ broker[b].st \in {"auth", "up"}
  /\ broker' = [broker EXCEPT ![b].st = "gone"]
  /\ UNCHANGED <<callers, Fields, lock, call>>

Next ==
  \/ \E t \in callers : Begin(t) \/ Step(t)
  \/ \E b \in Brokers : Authorise(b) \/ Serve(b) \/ EndOfInput(b) \/ Exit(b)

Spec == Init /\ [][Next]_vars

\* a thread runs on, every read has a time limit, and a broker that is not
\* waiting for input goes on; neither an idle limit nor a crash is relied on. The
\* Calls being limited, no thread and no broker can be passed over for ever.
FairSpec ==
  /\ Spec
  /\ WF_vars(\E t \in callers : Step(t))
  /\ WF_vars(\E b \in Brokers : Serve(b) \/ EndOfInput(b))

(***************************************************************************)
(* Properties.                                                              *)
(***************************************************************************)
\* A call that returns a helper answer returns the answer to its own request,
\* whatever other threads read, close or open again in the meantime. This is so for
\* two threads whatever they do, and for more as long as no two of them are inside
\* open() at once: with three, two may take each other's ready frame, and the
\* late reset of the request id of one makes the third use an id again whose
\* answer the buffer still holds.
AnswerIsOwn ==
  \A t \in Threads : At(t, "idle") /\ call[t].ok /\ call[t].op # "open" => call[t].answer = <<t, call[t].n>>

\* What docs/kill-switch/KILL_SWITCH_SESSION_STAGE3C.md says: requests use
\* monotonically increasing ids, so that no request is refused for its id.
IdsIncrease ==
  \A b \in Brokers : \A i \in DOMAIN broker[b].in :
    /\ broker[b].in[i].rid > broker[b].last
    /\ i > 1 => broker[b].in[i].rid > broker[b].in[i - 1].rid

\* A client that one thread uses is never stuck, whatever is denied, dies or times out:
\* no request of it is refused for its id, and at rest it has an accepted broker or no
\* process at all. A process without an accepted ready frame would fail every later open().
AloneNeverStuck ==
  SoleCaller =>
    /\ IdsIncrease
    /\ (\A t \in Threads : At(t, "idle")) /\ ready = None => proc = None

\* Again and again no broker runs but the one the client holds: one it gave up comes
\* to its end long before its idle limit, though the client cannot signal it. Two
\* starts at once would leave one broker to that limit, so this is a property of a
\* client of one thread.
BrokersEnd == SoleCaller => []<>(\A b \in Brokers : broker[b].st = "up" => proc = b)

\* Every call returns or raises, no failing call keeps the lock the others need: the
\* client comes to rest again and again, and stays so when the Calls are made.
CallsEnd == []<>(\A t \in Threads : At(t, "idle"))
=============================================================================
