-------------------------- MODULE HelperSessionProofs --------------------------
(***************************************************************************)
(* Answers reach the call they were made for, and a client of one thread is *)
(* never stuck, for any number of threads, brokers, calls and requests.     *)
(*                                                                         *)
(* Three invariants, each on top of the one before.  TypeInv: the types,    *)
(* and that an id of the client is taken once in a call.  OwnInv: the       *)
(* request lock lets one thread at a time be about to read the process, and *)
(* while only one thread opens the client, a broker that is or may still be *)
(* adopted has nothing underway but the request of that reader.  AloneInv,  *)
(* of a client that one thread uses: a process not yet adopted is fresh,    *)
(* and no id in a pipe is above the client's or behind the broker's.        *)
(***************************************************************************)
EXTENDS HelperSession, FiniteSetTheorems, TLAPS

-----------------------------------------------------------------------------
(***************************************************************************)
(* Types.                                                                   *)
(***************************************************************************)
\* An exchange has the request lock; open() from the broker it drops to the one it adopts.
Exchanging == {"send", "sent", "wait"}
Opening == {"drop", "clear", "start", "spawn", "started", "greet", "adopt", "reset"}

\* What holds of a call, whatever the other threads do; l has the lock.
ShapeOf(t, c, l) ==
  /\ c \in Call
  /\ t \notin callers => c = NoCall
  /\ c.n <= Calls \div Cardinality(callers)
  /\ c.pc # "idle" => c.n > 0
  /\ c.pc \in Opening \cup {"open"} => c.op = "open"
  /\ c.pc \in Exchanging \cup {"look", "queue", "closing", "drain"} => c.op # "open"
  /\ c.pc \in Exchanging <=> l = t
  /\ c.pc \in {"wait", "greet", "adopt"} => c.at \in Brokers

\* The same of the call a thread is in.
Shape(t) == ShapeOf(t, call[t], lock)

\* The calls that may have taken an id.
Waiting == {"open", "look", "queue"} \cup Opening
Used == {u \in Threads \X (1 .. Calls) :
           u[2] <= call[u[1]].n /\ (call[u[1]].pc \in Waiting => u[2] < call[u[1]].n)}

\* A broker that runs may still serve a request.
Budget(b) == broker[b].st # "gone" => broker[b].served < MaxRequests

\* The invariant of this part.
TypeInv ==
  /\ callers \in CallerSets
  /\ ready \in Brokers \cup {None} /\ proc \in Brokers \cup {None} /\ lock \in Threads \cup {None}
  /\ call \in [Threads -> Call] /\ broker \in [Brokers -> Broker]
  /\ \A t \in Threads : Shape(t)
  /\ \A b \in Brokers : Budget(b)
  /\ rid \in Nat /\ rid <= Cardinality(Used)

\* The calls shared out among the callers are at most Calls.
LEMMA Shares ==
  ASSUME NEW k \in Nat \ {0}
  PROVE  Calls \div k \in 0 .. Calls /\ k * (Calls \div k) <= Calls
BY SessionAssumption

\* The set of callers is neither empty nor infinite.
LEMMA CallersFinite ==
  ASSUME TypeInv
  PROVE  /\ callers \subseteq Threads /\ IsFiniteSet(callers)
         /\ Cardinality(callers) \in Nat \ {0}
<1>1. callers \subseteq Threads /\ callers # {} /\ IsFiniteSet(Threads)
  BY SessionAssumption DEF TypeInv
<1>2. IsFiniteSet(callers)
  BY <1>1, FS_Subset
<1> QED BY <1>1, <1>2, FS_CardinalityType, FS_EmptySet

\* An id is taken once in a call, so there are ids enough.
LEMMA UsedBounded ==
  ASSUME TypeInv
  PROVE  /\ IsFiniteSet(Used) /\ Cardinality(Used) \in Nat /\ Cardinality(Used) <= Calls
         /\ \A t \in callers : \A n : n \in 1 .. call[t].n /\ <<t, n>> \notin Used
              => Cardinality(Used) + 1 <= Calls
<1> DEFINE k == Cardinality(callers)
           q == Calls \div k
           All == callers \X (1 .. q)
<1>1. k \in Nat \ {0} /\ IsFiniteSet(callers)
  BY CallersFinite
<1>2. q \in 0 .. Calls /\ k * q <= Calls
  BY <1>1, Shares
<1> HIDE DEF k
<1>3. q \in Nat /\ IsFiniteSet(1 .. q) /\ Cardinality(1 .. q) = q
  <2>1. q \in Nat
    BY <1>2
  <2> HIDE DEF q
  <2>2. IsFiniteSet(1 .. q) /\ Cardinality(1 .. q) = IF 1 > q THEN 0 ELSE q - 1 + 1
    BY <2>1, FS_Interval
  <2> QED BY <2>1, <2>2
<1>4. IsFiniteSet(All) /\ Cardinality(All) <= Calls
  <2> HIDE DEF q
  <2>1. IsFiniteSet(All) /\ Cardinality(All) = k * q
    BY <1>1, <1>3, FS_Product DEF k
  <2> QED BY <1>2, <2>1
<1>5. \A t \in Threads : call[t].n \in Nat /\ (t \in callers => call[t].n <= q)
       /\ (t \notin callers => call[t].n = 0)
  BY DEF TypeInv, Shape, ShapeOf, Call, NoCall, q, k
<1> HIDE DEF q
<1>6. Used \subseteq All
  BY <1>3, <1>5 DEF Used
<1>7. IsFiniteSet(Used) /\ Cardinality(Used) \in Nat /\ Cardinality(Used) <= Cardinality(All)
  BY <1>4, <1>6, FS_Subset, FS_CardinalityType
<1>8. ASSUME NEW t \in callers, NEW n \in 1 .. call[t].n, <<t, n>> \notin Used
      PROVE  Cardinality(Used) + 1 <= Calls
  <2> DEFINE More == Used \cup {<<t, n>>}
  <2>1. More \subseteq All
    BY <1>3, <1>5, <1>6, CallersFinite
  <2>2. Cardinality(More) = Cardinality(Used) + 1
    BY <1>7, <1>8, FS_AddElement
  <2>3. Cardinality(More) <= Cardinality(All) /\ Cardinality(All) \in Nat
    BY <1>4, <2>1, FS_Subset, FS_CardinalityType
  <2> QED BY <1>4, <1>7, <2>2, <2>3, SessionAssumption
<1>9. Cardinality(All) \in Nat
  BY <1>4, FS_CardinalityType
<1> QED BY <1>4, <1>7, <1>8, <1>9, SessionAssumption

\* A thread that goes on, with the lock or without, disturbs no other thread's call.
LEMMA PutShapes ==
  ASSUME TypeInv, NEW t \in callers, NEW c, Put(t, c), callers' = callers,
         ShapeOf(t, c, lock'), lock' = lock \/ {lock, lock'} \subseteq {None, t},
         \/ c.n = call[t].n + 1
         \/ c.n = call[t].n /\ (c.pc \in Waiting => call[t].pc \in Waiting)
  PROVE  /\ call' \in [Threads -> Call] /\ lock' \in Threads \cup {None}
         /\ \A u \in Threads : Shape(u)'
         /\ t \in Threads /\ call'[t] = c /\ \A u \in Threads \ {t} : call'[u] = call[u]
         /\ Used \subseteq Used'
<1>1. t \in Threads /\ None \notin Threads
  BY CallersFinite, SessionAssumption
<1>2. c \in Call /\ call' = [call EXCEPT ![t] = c]
  BY DEF ShapeOf, Put
<1>3. call' \in [Threads -> Call] /\ call'[t] = c /\ \A u \in Threads \ {t} : call'[u] = call[u]
  BY <1>1, <1>2 DEF TypeInv
<1>4. lock' \in Threads \cup {None}
  BY <1>1 DEF TypeInv
<1>5. ASSUME NEW u \in Threads PROVE Shape(u)'
  <2>1. CASE u = t
    BY <1>3, <2>1 DEF Shape, ShapeOf
  <2>2. CASE u # t
    <3>1. Shape(u) /\ call'[u] = call[u]
      BY <1>3, <2>2 DEF TypeInv
    <3>2. lock' = u <=> lock = u
      BY <1>1, <2>2
    <3> QED BY <3>1, <3>2 DEF Shape, ShapeOf
  <2> QED BY <2>1, <2>2
<1>6. Used \subseteq Used'
  <2>1. \A u \in Threads : call[u].n \in Nat /\ call'[u].n \in Nat
    BY <1>3 DEF TypeInv, Call
  <2>2. \A u \in Threads :
          \/ call'[u].n = call[u].n + 1
          \/ call'[u].n = call[u].n /\ (call'[u].pc \in Waiting => call[u].pc \in Waiting)
    BY <1>1, <1>3
  <2> QED BY <2>1, <2>2 DEF Used
<1> QED BY <1>1, <1>3, <1>4, <1>5, <1>6

\* What is left to show of a step.
LEMMA Typed ==
  ASSUME TypeInv, callers' = callers,
         ready' \in Brokers \cup {None}, proc' \in Brokers \cup {None},
              lock' \in Threads \cup {None},
         call' \in [Threads -> Call], \A u \in Threads : Shape(u)', Used \subseteq Used',
         broker' \in [Brokers -> Broker], \A b \in Brokers : Budget(b)',
         rid' \in {0, rid} \/ (rid' = rid + 1 /\ Used # Used')
  PROVE  TypeInv'
<1>1. IsFiniteSet(Used) /\ Cardinality(Used) \in Nat
  BY UsedBounded
<1>2. IsFiniteSet(Used') /\ Cardinality(Used') \in Nat
  <2>1. Used' \subseteq Threads \X (1 .. Calls)
    BY DEF Used
  <2>2. IsFiniteSet(1 .. Calls)
    BY FS_Interval, SessionAssumption
  <2>3. IsFiniteSet(Threads \X (1 .. Calls))
    BY <2>2, FS_Product, SessionAssumption
  <2> QED BY <2>1, <2>3, FS_Subset, FS_CardinalityType
<1>3. Cardinality(Used) <= Cardinality(Used')
  BY <1>2, FS_Subset
<1>4. Used # Used' => Cardinality(Used) + 1 <= Cardinality(Used')
  <2> SUFFICES ASSUME Used # Used' PROVE Cardinality(Used) + 1 <= Cardinality(Used')
    OBVIOUS
  <2>1. PICK x \in Used' : x \notin Used
    OBVIOUS
  <2>2. Cardinality(Used \cup {x}) = Cardinality(Used) + 1
    BY <1>1, <2>1, FS_AddElement
  <2>3. Cardinality(Used \cup {x}) <= Cardinality(Used')
    BY <1>2, <2>1, FS_Subset
  <2> QED BY <2>2, <2>3
<1>5. rid' \in Nat /\ rid' <= Cardinality(Used')
  BY <1>1, <1>2, <1>3, <1>4 DEF TypeInv
<1> QED BY <1>5 DEF TypeInv

\* The pipes of the process are closed.
LEMMA CloseIs ==
  ASSUME TypeInv, TransportClose
  PROVE  /\ proc' = None /\ broker' \in [Brokers -> Broker]
         /\ \A b \in Brokers :
              /\ broker'[b].st = broker[b].st /\ broker'[b].in = broker[b].in
              /\ broker'[b].out = broker[b].out /\ broker'[b].last = broker[b].last
              /\ broker'[b].served = broker[b].served
              /\ broker'[b].eof = (broker[b].eof \/ b = proc)
<1>1. proc' = None /\ broker' = [b \in Brokers |-> [broker[b] EXCEPT !.eof = @ \/ b = proc]]
  BY DEF TransportClose, Hangup
<1>2. ASSUME NEW b \in Brokers
      PROVE  /\ broker'[b] \in Broker
             /\ broker'[b].st = broker[b].st /\ broker'[b].in = broker[b].in
             /\ broker'[b].out = broker[b].out /\ broker'[b].last = broker[b].last
             /\ broker'[b].served = broker[b].served
             /\ broker'[b].eof = (broker[b].eof \/ b = proc)
  <2>1. broker[b] \in Broker /\ broker'[b] = [broker[b] EXCEPT !.eof = @ \/ b = proc]
    BY <1>1 DEF TypeInv
  <2>2. (broker[b].eof \/ b = proc) \in BOOLEAN
    OBVIOUS
  <2> QED BY <2>1, <2>2 DEF Broker
<1> QED BY <1>1, <1>2

\* A reader takes the oldest frame of a broker that some reader reads.
LEMMA TakeIs ==
  ASSUME TypeInv, NEW b \in Unread, TakeFrame(b)
  PROVE  /\ b \in Brokers /\ \E u \in Threads : call[u].pc \in {"greet", "wait"} /\ call[u].at = b
         /\ broker[b].out \in Seq(Frame) /\ broker[b].out # << >> /\ Head(broker[b].out) \in Frame
         /\ broker' \in [Brokers -> Broker] /\ broker'[b].out = Tail(broker[b].out)
         /\ \A a \in Brokers :
              /\ broker'[a].st = broker[a].st /\ broker'[a].in = broker[a].in
              /\ broker'[a].last = broker[a].last /\ broker'[a].served = broker[a].served
              /\ broker'[a].eof = broker[a].eof /\ (a # b => broker'[a].out = broker[a].out)
<1>1. b \in Brokers /\ broker[b].out # << >>
      /\ \E u \in Threads : call[u].pc \in {"greet", "wait"} /\ call[u].at = b
  BY DEF Unread, Readers, TypeInv, Shape, ShapeOf
<1>2. broker[b] \in Broker /\ broker[b].out \in Seq(Frame)
  BY <1>1 DEF TypeInv, Broker
<1>3. Head(broker[b].out) \in Frame /\ Tail(broker[b].out) \in Seq(Frame)
  BY <1>1, <1>2
<1>4. /\ broker'[b] = [broker[b] EXCEPT !.out = Tail(@)]
      /\ \A a \in Brokers \ {b} : broker'[a] = broker[a]
      /\ DOMAIN broker' = Brokers /\ broker' = [a \in Brokers |-> broker'[a]]
  BY <1>1 DEF TakeFrame, TypeInv
<1>5. broker'[b] \in Broker
  BY <1>2, <1>3, <1>4 DEF Broker
<1>6. broker' \in [Brokers -> Broker]
  BY <1>4, <1>5 DEF TypeInv
<1>7. /\ broker'[b].st = broker[b].st /\ broker'[b].in = broker[b].in
      /\ broker'[b].last = broker[b].last /\ broker'[b].served = broker[b].served
      /\ broker'[b].eof = broker[b].eof /\ broker'[b].out = Tail(broker[b].out)
  BY <1>2, <1>4 DEF Broker
<1> QED BY <1>1, <1>2, <1>3, <1>4, <1>6, <1>7

\* A request is written to the process.
LEMMA WriteIs ==
  ASSUME TypeInv, NEW t \in Threads, Write(t)
  PROVE  /\ proc \in Brokers /\ broker[proc].st # "gone" /\ ~broker[proc].eof
         /\ broker' \in [Brokers -> Broker] /\ RequestOf(t) \in Request
         /\ broker'[proc].in = Append(broker[proc].in, RequestOf(t))
         /\ \A a \in Brokers :
              /\ broker'[a].st = broker[a].st /\ broker'[a].out = broker[a].out
              /\ broker'[a].last = broker[a].last /\ broker'[a].served = broker[a].served
              /\ broker'[a].eof = broker[a].eof /\ (a # proc => broker'[a].in = broker[a].in)
<1>1. proc \in Brokers /\ broker[proc].st # "gone" /\ ~broker[proc].eof
  BY DEF Write, Writable, Alive, TypeInv
<1>2. RequestOf(t) \in Request
  BY DEF RequestOf, Request, TypeInv, Call, Tags
<1>3. broker[proc] \in Broker /\ Append(broker[proc].in, RequestOf(t)) \in Seq(Request)
  BY <1>1, <1>2 DEF TypeInv, Broker
<1>4. /\ broker'[proc] = [broker[proc] EXCEPT !.in = Append(@, RequestOf(t))]
      /\ \A a \in Brokers \ {proc} : broker'[a] = broker[a]
      /\ DOMAIN broker' = Brokers /\ broker' = [a \in Brokers |-> broker'[a]]
  BY <1>1 DEF Write, TypeInv
<1>5. broker'[proc] \in Broker
  BY <1>3, <1>4 DEF Broker
<1>6. broker' \in [Brokers -> Broker]
  BY <1>4, <1>5 DEF TypeInv
<1>7. /\ broker'[proc].st = broker[proc].st /\ broker'[proc].out = broker[proc].out
      /\ broker'[proc].last = broker[proc].last /\ broker'[proc].served = broker[proc].served
      /\ broker'[proc].eof = broker[proc].eof
      /\ broker'[proc].in = Append(broker[proc].in, RequestOf(t))
  BY <1>3, <1>4 DEF Broker
<1> QED BY <1>1, <1>2, <1>4, <1>6, <1>7

\* A step of a broker.
Process(b) == Authorise(b) \/ Serve(b) \/ EndOfInput(b) \/ Exit(b)

\* It touches its own pipes, and is a start, an end or the service of a request.
LEMMA ProcessIs ==
  ASSUME TypeInv, NEW b \in Brokers, Process(b)
  PROVE  /\ UNCHANGED <<callers, Fields, lock, call>>
         /\ broker' \in [Brokers -> Broker] /\ \A a \in Brokers \ {b} : broker'[a] = broker[a]
         /\ broker'[b].eof = broker[b].eof /\ Budget(b)'
         /\ \/ /\ broker[b].st = "auth" /\ broker'[b].st = "up" /\ broker'[b].in = broker[b].in
               /\ broker'[b].out = Say(b, "ready", 0, NoTag) /\ broker'[b].last = broker[b].last
            \/ /\ broker[b].st \in {"auth", "up"} /\ broker'[b].st = "gone"
               /\ broker'[b].in = broker[b].in /\ broker'[b].out = broker[b].out
               /\ broker'[b].last = broker[b].last
            \/ LET r == Head(broker[b].in)
                   fresh == r.rid > broker[b].last
               IN  /\ broker[b].st = "up" /\ broker[b].in # << >> /\ r \in Request
                   /\ broker'[b].st \in {"up", "gone"} /\ broker'[b].in = Tail(broker[b].in)
                   /\ broker'[b].last = (IF fresh THEN r.rid ELSE broker[b].last)
                   /\ broker'[b].out = Say(b, IF fresh THEN "done" ELSE "refused", r.rid, r.tag)
<1>1. broker[b] \in Broker /\ Budget(b) /\ DOMAIN broker = Brokers
  BY DEF TypeInv
<1>2. UNCHANGED <<callers, Fields, lock, call>>
  BY DEF Process, Authorise, Serve, EndOfInput, Exit
<1>3. /\ \A a \in Brokers \ {b} : broker'[a] = broker[a]
      /\ DOMAIN broker' = Brokers /\ broker' = [a \in Brokers |-> broker'[a]]
  BY DEF Process, Authorise, Serve, EndOfInput, Exit, TypeInv
<1>4. ASSUME NEW kind \in {"ready", "done", "refused"}, NEW r \in Ids, NEW tag \in Tags
      PROVE  Say(b, kind, r, tag) \in Seq(Frame)
  BY <1>1 DEF Say, Frame, Broker
<1>5. CASE Authorise(b)
  <2>1. broker[b].st = "auth" /\ broker'[b] = [broker[b] EXCEPT !.st = "up", !.out = Say(b,
         "ready", 0, NoTag)]
    BY <1>5 DEF Authorise, TypeInv
  <2>2. Say(b, "ready", 0, NoTag) \in Seq(Frame)
    BY <1>4, SessionAssumption DEF Ids, Tags, NoTag
  <2> DEFINE out == Say(b, "ready", 0, NoTag)
  <2> HIDE DEF out
  <2>3. /\ broker'[b] \in Broker /\ broker'[b].st = "up" /\ broker'[b].out = out
        /\ broker'[b].in = broker[b].in /\ broker'[b].last = broker[b].last
        /\ broker'[b].eof = broker[b].eof /\ broker'[b].served = broker[b].served
    BY <1>1, <2>1, <2>2 DEF Broker, out
  <2>4. broker' \in [Brokers -> Broker]
    BY <1>3, <2>3 DEF TypeInv
  <2>5. Budget(b)'
    BY <1>1, <2>1, <2>3 DEF Budget
  <2> QED BY <1>2, <1>3, <2>1, <2>3, <2>4, <2>5 DEF out
<1>6. CASE EndOfInput(b) \/ Exit(b)
  <2>1. broker[b].st \in {"auth", "up"} /\ broker'[b] = [broker[b] EXCEPT !.st = "gone"]
    BY <1>6 DEF EndOfInput, Exit, TypeInv
  <2>2. /\ broker'[b] \in Broker /\ broker'[b].st = "gone" /\ broker'[b].out = broker[b].out
        /\ broker'[b].in = broker[b].in /\ broker'[b].last = broker[b].last
        /\ broker'[b].eof = broker[b].eof
    BY <1>1, <2>1 DEF Broker
  <2>3. broker' \in [Brokers -> Broker]
    BY <1>3, <2>2 DEF TypeInv
  <2> QED BY <1>2, <1>3, <2>1, <2>2, <2>3 DEF Budget
<1>7. CASE Serve(b)
  <2> DEFINE r == Head(broker[b].in)
             fresh == r.rid > broker[b].last
             ends == (r.close /\ fresh) \/ LastRequest(b)
             out == Say(b, IF fresh THEN "done" ELSE "refused", r.rid, r.tag)
             last == IF fresh THEN r.rid ELSE broker[b].last
             st == IF ends THEN "gone" ELSE "up"
             served == broker[b].served + 1
  <2>1. /\ broker[b].st = "up" /\ broker[b].in # << >>
        /\ broker'[b] = [broker[b] EXCEPT !.in = Tail(@), !.served = served, !.st = st,
                                         !.last = last, !.out = out]
    <3>1. /\ broker[b].st = "up" /\ broker[b].in # << >>
          /\ broker' = [broker EXCEPT ![b].in = Tail(@), ![b].served = served, ![b].st = st,
                                      ![b].last = last, ![b].out = out]
      BY <1>1, <1>7 DEF Serve
    <3> HIDE DEF served, st, last, out
    <3> QED BY <1>1, <3>1 DEF TypeInv
  <2>2. broker[b].in \in Seq(Request) /\ r \in Request /\ Tail(broker[b].in) \in Seq(Request)
    BY <1>1, <2>1 DEF Broker
  <2>3. r.rid \in Ids /\ r.tag \in Tags /\ broker[b].last \in Ids
    BY <1>1, <2>2 DEF Request, Broker
  <2>4. last \in Ids /\ st \in {"up", "gone"}
    BY <2>3
  <2>5. out \in Seq(Frame)
    BY <1>4, <2>3
  <2>6. served \in 0 .. MaxRequests /\ (st # "gone" => served < MaxRequests)
    BY <1>1, <2>1, SessionAssumption DEF Budget, Broker, LastRequest
  <2> HIDE DEF r, fresh, ends, out, last, st, served
  <2>7. /\ broker'[b] \in Broker /\ broker'[b].st = st /\ broker'[b].out = out
        /\ broker'[b].in = Tail(broker[b].in) /\ broker'[b].last = last
        /\ broker'[b].eof = broker[b].eof /\ broker'[b].served = served
    BY <1>1, <2>1, <2>2, <2>4, <2>5, <2>6 DEF Broker
  <2>8. broker' \in [Brokers -> Broker]
    BY <1>3, <2>7 DEF TypeInv
  <2>9. Budget(b)'
    BY <2>6, <2>7 DEF Budget
  <2> QED BY <1>2, <1>3, <2>1, <2>2, <2>4, <2>7, <2>8, <2>9 DEF r, fresh, out, last
<1> QED BY <1>5, <1>6, <1>7 DEF Process

\* The types hold at first,
LEMMA TypeInit ==
  ASSUME Init
  PROVE  TypeInv
<1>1. /\ callers \in CallerSets /\ ready = None /\ rid = 0 /\ proc = None /\ lock = None
      /\ call = [t \in Threads |-> NoCall] /\ broker = [b \in Brokers |-> NoBroker]
  BY DEF Init
<1>2. callers \subseteq Threads /\ IsFiniteSet(callers) /\ callers # {}
  BY <1>1, SessionAssumption, FS_Subset
<1>3. Cardinality(callers) \in Nat \ {0}
  BY <1>2, FS_CardinalityType, FS_EmptySet
<1>4. Calls \div Cardinality(callers) \in Nat
  BY <1>3, Shares, SessionAssumption
<1>5. NoCall \in Call
  BY SessionAssumption DEF NoCall, Call, Pcs, Ops, Ids, Tags, NoTag
<1>6. NoBroker \in Broker
  BY SessionAssumption DEF NoBroker, Broker, Ids
<1>7. call \in [Threads -> Call] /\ broker \in [Brokers -> Broker]
  BY <1>1, <1>5, <1>6
<1>8. ASSUME NEW t \in Threads PROVE Shape(t)
  <2>1. call[t] = NoCall /\ lock # t
    BY <1>1, SessionAssumption
  <2> QED BY <1>4, <1>5, <2>1 DEF Shape, ShapeOf, NoCall, Opening, Exchanging
<1>9. \A b \in Brokers : Budget(b)
  BY <1>1, SessionAssumption DEF Budget, NoBroker
<1>10. Cardinality(Used) \in Nat
  <2>1. \A t \in Threads : call[t].n = 0
    BY <1>1 DEF NoCall
  <2>2. Used = {}
    BY <2>1 DEF Used
  <2> QED BY <2>2, FS_EmptySet
<1> QED BY <1>1, <1>7, <1>8, <1>9, <1>10 DEF TypeInv

\* A step of a thread that writes nothing.
LEMMA ThreadTypes ==
  ASSUME TypeInv, NEW t \in callers, NEW c, Put(t, c), callers' = callers,
         ShapeOf(t, c, lock'), lock' = lock \/ {lock, lock'} \subseteq {None, t},
         \/ c.n = call[t].n + 1
         \/ c.n = call[t].n /\ (c.pc \in Waiting => call[t].pc \in Waiting),
         ready' \in Brokers \cup {None}, proc' \in Brokers \cup {None}, rid' \in {0, rid},
         broker' = broker \/ (/\ broker' \in [Brokers -> Broker]
                              /\ \A b \in Brokers : broker'[b].st = broker[b].st
                                                    /\ broker'[b].served = broker[b].served)
  PROVE  TypeInv'
<1>1. broker' \in [Brokers -> Broker] /\ \A b \in Brokers : Budget(b)'
  BY DEF TypeInv, Budget
<1> QED BY <1>1, PutShapes, Typed

\* What the steps of a thread keep of its call.
LEMMA GoesOn ==
  ASSUME TypeInv, NEW t \in callers, NEW pc \in Pcs, NEW l, pc # "idle",
         call[t].pc # "idle",
         pc \in Opening \cup {"open"} => call[t].op = "open",
         pc \in Exchanging \cup {"look", "queue", "closing", "drain"} => call[t].op # "open",
         pc \in Exchanging <=> l = t, pc \in {"wait", "greet", "adopt"} => call[t].at \in Brokers
  PROVE  ShapeOf(t, [call[t] EXCEPT !.pc = pc], l)
<1>1. t \in Threads /\ ShapeOf(t, call[t], lock)
  BY CallersFinite DEF TypeInv, Shape
<1> DEFINE c == [call[t] EXCEPT !.pc = pc]
<1>2. /\ c \in Call /\ c.pc = pc /\ c.n = call[t].n /\ c.op = call[t].op /\ c.at = call[t].at
  BY <1>1 DEF ShapeOf, Call
<1> HIDE DEF c
<1>3. c.n > 0
  BY <1>1, <1>2 DEF ShapeOf
<1>4. ShapeOf(t, c, l)
  BY <1>1, <1>2, <1>3 DEF ShapeOf
<1> QED BY <1>4 DEF c

\* A call that ends keeps what it returned.
LEMMA Ends ==
  ASSUME TypeInv, NEW t \in callers, NEW l, l # t
  PROVE  ShapeOf(t, [call[t] EXCEPT !.pc = "idle"], l)
<1>1. t \in Threads /\ ShapeOf(t, call[t], lock)
  BY CallersFinite DEF TypeInv, Shape
<1> DEFINE c == [call[t] EXCEPT !.pc = "idle"]
<1>2. c \in Call /\ c.pc = "idle" /\ c.n = call[t].n /\ c.op = call[t].op /\ c.at = call[t].at
  BY <1>1 DEF ShapeOf, Call, Pcs
<1> HIDE DEF c
<1>3. ShapeOf(t, c, l)
  BY <1>1, <1>2 DEF ShapeOf, Opening, Exchanging
<1> QED BY <1>3 DEF c

\* Raise(t) puts this call.
Raised(t) == [call[t] EXCEPT !.pc = IF call[t].op = "close" THEN "closing" ELSE "idle"]

\* which is a call between two requests.
LEMMA Raises ==
  ASSUME TypeInv, NEW t \in callers, NEW l, l # t,
         call[t].pc \in Exchanging \cup {"look"}
  PROVE  /\ ShapeOf(t, Raised(t), l) /\ Raised(t).n = call[t].n /\ Raised(t).pc \notin Waiting
         /\ Raised(t).ok = call[t].ok /\ Raised(t).op = call[t].op
         /\ Raised(t).answer = call[t].answer /\ Raised(t).own = call[t].own
         /\ Raised(t).at = call[t].at /\ Raised(t).pc \in {"closing", "idle"}
<1>1. t \in Threads /\ ShapeOf(t, call[t], lock) /\ call[t] \in Call
  BY CallersFinite DEF TypeInv, Shape
<1>2. CASE call[t].op = "close"
  <2>1. Raised(t) = [call[t] EXCEPT !.pc = "closing"]
    BY <1>2 DEF Raised
  <2>2. "closing" \in Pcs /\ "closing" \notin Opening \cup {"open"} \cup Exchanging
    BY DEF Pcs, Opening, Exchanging
  <2>3. ShapeOf(t, Raised(t), l)
    BY <1>2, <2>1, <2>2, GoesOn DEF Exchanging
  <2> QED BY <1>1, <2>1, <2>3 DEF Call, Waiting, Opening
<1>3. CASE call[t].op # "close"
  <2>1. Raised(t) = [call[t] EXCEPT !.pc = "idle"]
    BY <1>3 DEF Raised
  <2>2. ShapeOf(t, Raised(t), l)
    BY <2>1, Ends
  <2> QED BY <1>1, <2>1, <2>2 DEF Call, Waiting, Opening
<1> QED BY <1>2, <1>3

\* A call is one of the calls shared out.
LEMMA BeginTypes ==
  ASSUME TypeInv, NEW t \in callers, Begin(t)
  PROVE  TypeInv' /\ \E op \in Ops, pc \in Pcs \ Exchanging :
           call'[t] = [NoCall EXCEPT !.op = op, !.n = call[t].n + 1, !.pc = pc]
           /\ (op = "open" => pc = "open") /\ (op # "open" => pc \in {"look", "drain"})
           /\ (pc = "drain" => ready = None)
<1>1. t \in Threads /\ ShapeOf(t, call[t], lock) /\ call[t].pc = "idle"
  BY CallersFinite DEF TypeInv, Shape, Begin, At
<1>2. PICK op \in Ops : Put(t, [NoCall EXCEPT !.op = op, !.n = call[t].n + 1,
                 !.pc = CASE op = "open" -> "open" [] op = "act" -> "look"
                          [] op = "close" -> IF ready = None THEN "drain" ELSE "look"])
  BY DEF Begin
<1> DEFINE pc == CASE op = "open" -> "open" [] op = "act" -> "look"
                   [] op = "close" -> IF ready = None THEN "drain" ELSE "look"
           n == call[t].n + 1
           c == [NoCall EXCEPT !.op = op, !.n = n, !.pc = pc]
<1>3. /\ pc \in {"open", "look", "drain"} /\ (op = "open" => pc = "open")
      /\ (op # "open" => pc \in {"look", "drain"}) /\ (pc = "drain" => ready = None)
  BY DEF Ops
<1> HIDE DEF pc
<1>4. n <= Calls \div Cardinality(callers) /\ n \in 0 .. Calls /\ n > 0
  <2> DEFINE q == Calls \div Cardinality(callers)
  <2>1. q \in 0 .. Calls /\ call[t].n < q /\ call[t].n \in Nat
    BY <1>1, CallersFinite, Shares DEF Begin, ShapeOf, Call
  <2> HIDE DEF q
  <2>2. n <= q /\ n \in 0 .. Calls /\ n > 0
    BY <2>1, SessionAssumption
  <2> QED BY <2>2 DEF q
<1> HIDE DEF n
<1>5. NoCall \in Call
  BY SessionAssumption DEF NoCall, Call, Pcs, Ops, Ids, Tags, NoTag
<1>6. c \in Call /\ c.pc = pc /\ c.n = n /\ c.op = op
  BY <1>3, <1>4, <1>5 DEF Call, Pcs, NoCall
<1> HIDE DEF c
<1>7. lock' = lock /\ lock # t /\ callers' = callers
  BY <1>1 DEF ShapeOf, Exchanging, Begin
<1>8. ShapeOf(t, c, lock')
  BY <1>3, <1>4, <1>6, <1>7 DEF ShapeOf, Opening, Exchanging
<1>9. c.n = call[t].n + 1 /\ Put(t, c)
  BY <1>2, <1>6 DEF n, c, pc
<1>10. TypeInv'
  BY <1>7, <1>8, <1>9, ThreadTypes DEF Begin, Fields, TypeInv
<1>11. call'[t] = c
  BY <1>1, <1>9 DEF Put, TypeInv
<1>12. pc \in Pcs \ Exchanging
  BY <1>3 DEF Pcs, Exchanging
<1> QED BY <1>3, <1>10, <1>11, <1>12 DEF c, n

\* A step that only takes the call on.
LEMMA GotoTypes ==
  ASSUME TypeInv, NEW t \in callers, NEW pc \in Pcs, Goto(t, pc), callers' = callers,
         pc # "idle", call[t].pc # "idle",
         pc \in Opening \cup {"open"} => call[t].op = "open",
         pc \in Exchanging \cup {"look", "queue", "closing", "drain"} => call[t].op # "open",
         pc \in Exchanging <=> lock' = t, pc \in {"wait", "greet", "adopt"}
              => call[t].at \in Brokers,
         lock' = lock \/ {lock, lock'} \subseteq {None, t},
         pc \in Waiting => call[t].pc \in Waiting,
         ready' \in Brokers \cup {None}, proc' \in Brokers \cup {None}, rid' \in {0, rid},
         broker' = broker \/ (/\ broker' \in [Brokers -> Broker]
                              /\ \A b \in Brokers : broker'[b].st = broker[b].st
                                                    /\ broker'[b].served = broker[b].served)
  PROVE  TypeInv' /\ call'[t] = [call[t] EXCEPT !.pc = pc]
<1> DEFINE c == [call[t] EXCEPT !.pc = pc]
<1>1. t \in Threads /\ call[t] \in Call
  BY CallersFinite DEF TypeInv
<1>2. ShapeOf(t, c, lock')
  BY GoesOn
<1>3. c.n = call[t].n /\ c.pc = pc
  BY <1>1 DEF Call
<1>4. Put(t, c)
  BY DEF Goto
<1>5. call'[t] = c
  BY <1>1, <1>4 DEF Put, TypeInv
<1> HIDE DEF c
<1>6. TypeInv'
  BY <1>2, <1>3, <1>4, ThreadTypes
<1> QED BY <1>5, <1>6 DEF c

\* A step that ends the call, or leaves its exchange.
LEMMA EndTypes ==
  ASSUME TypeInv, NEW t \in callers, NEW c, Put(t, c), callers' = callers,
         c = [call[t] EXCEPT !.pc = "idle"]
           \/ (c = [call[t] EXCEPT !.pc = "idle", !.ok = TRUE] /\ call[t].op = "open")
           \/ (c = Raised(t) /\ call[t].pc \in Exchanging \cup {"look"}),
         lock' # t, lock' = lock \/ {lock, lock'} \subseteq {None, t},
         ready' \in Brokers \cup {None}, proc' \in Brokers \cup {None}, rid' \in {0, rid},
         broker' = broker \/ (/\ broker' \in [Brokers -> Broker]
                              /\ \A b \in Brokers : broker'[b].st = broker[b].st
                                                    /\ broker'[b].served = broker[b].served)
  PROVE  TypeInv' /\ call'[t] = c
<1>1. t \in Threads /\ call[t] \in Call /\ ShapeOf(t, call[t], lock)
  BY CallersFinite DEF TypeInv, Shape
<1>2. ShapeOf(t, c, lock') /\ c.n = call[t].n /\ c.pc \notin Waiting
  <2>1. CASE c = [call[t] EXCEPT !.pc = "idle"]
    <3>1. c.n = call[t].n /\ c.pc = "idle"
      BY <1>1, <2>1 DEF Call
    <3>2. ShapeOf(t, c, lock')
      BY <2>1, Ends
    <3> QED BY <3>1, <3>2 DEF Waiting, Opening
  <2>2. CASE c = [call[t] EXCEPT !.pc = "idle", !.ok = TRUE]
    <3>1. c \in Call /\ c.n = call[t].n /\ c.pc = "idle"
      BY <1>1, <2>2 DEF Call, Pcs
    <3> QED BY <1>1, <3>1 DEF ShapeOf, Waiting, Opening, Exchanging, NoCall
  <2>3. CASE c = Raised(t) /\ call[t].pc \in Exchanging \cup {"look"}
    BY <2>3, Raises
  <2> QED BY <2>1, <2>2, <2>3
<1>3. call'[t] = c
  BY <1>1 DEF Put, TypeInv
<1> QED BY <1>2, <1>3, ThreadTypes

\* Steps of open().
LEMMA OpenTypes ==
  ASSUME TypeInv, NEW t \in callers,
         \/ OpenLook(t) \/ OpenDrop(t) \/ OpenClear(t) \/ Start(t) \/ Spawn(t) \/ Greet(t)
         \/ Adopt(t) \/ Reset(t)
  PROVE  TypeInv'
<1> USE DEF Pcs, Opening, Exchanging, Waiting
<1>1. /\ t \in Threads /\ ShapeOf(t, call[t], lock) /\ call[t] \in Call
      /\ ready \in Brokers \cup {None} /\ proc \in Brokers \cup {None}
      /\ DOMAIN call = Threads /\ broker \in [Brokers -> Broker]
  BY CallersFinite DEF TypeInv, Shape
<1>2. lock' = lock /\ callers' = callers
  BY DEF OpenLook, OpenDrop, OpenClear, Start, Spawn, Greet, Adopt, Reset
<1>3. /\ call[t].op = "open" /\ call[t].pc \in Opening \cup {"open"} /\ lock # t
  <2>1. call[t].pc \in Opening \cup {"open"}
    BY DEF OpenLook, OpenDrop, OpenClear, Start, Spawn, Greet, Adopt, Reset, At
  <2> QED BY <1>1, <2>1 DEF ShapeOf
<1>4. CASE OpenLook(t)
  <2>1. CASE Goto(t, "start")
    BY <1>1, <1>2, <1>3, <1>4, <2>1, GotoTypes DEF OpenLook, Fields
  <2>2. CASE Goto(t, "drop")
    BY <1>1, <1>2, <1>3, <1>4, <2>2, GotoTypes DEF OpenLook, Fields
  <2>3. CASE Put(t, [call[t] EXCEPT !.pc = "idle", !.ok = TRUE])
    BY <1>1, <1>2, <1>3, <1>4, <2>3, EndTypes DEF OpenLook, Fields
  <2> QED BY <1>4, <2>1, <2>2, <2>3 DEF OpenLook
<1>5. CASE OpenDrop(t)
  BY <1>1, <1>2, <1>3, <1>5, GotoTypes DEF OpenDrop
<1>6. CASE OpenClear(t)
  BY <1>1, <1>2, <1>3, <1>6, GotoTypes, CloseIs DEF OpenClear
<1>7. CASE Start(t)
  <2>1. CASE Goto(t, "spawn")
    BY <1>1, <1>2, <1>3, <1>7, <2>1, GotoTypes DEF Start, Fields, At
  <2>2. CASE Goto(t, "idle")
    BY <1>1, <1>2, <1>3, <1>7, <2>2, EndTypes DEF Start, Fields, Goto
  <2> QED BY <1>7, <2>1, <2>2 DEF Start
<1>8. CASE Spawn(t)
  <2>1. CASE Goto(t, "idle") /\ UNCHANGED <<callers, proc, broker>>
    BY <1>1, <1>2, <1>3, <1>8, <2>1, EndTypes DEF Spawn, Goto
  <2>2. ASSUME NEW b \in Brokers, broker[b].st = "free",
               broker' = [broker EXCEPT ![b].st = "auth"], proc' = b, Goto(t, "started")
        PROVE  TypeInv'
    <3> DEFINE c == [call[t] EXCEPT !.pc = "started"]
    <3>1. ShapeOf(t, c, lock') /\ c.n = call[t].n /\ call[t].pc \in Waiting
      BY <1>1, <1>2, <1>3, GoesOn DEF Call
    <3>2. Put(t, c)
      BY <2>2 DEF Goto
    <3> HIDE DEF c
    <3>3. /\ call' \in [Threads -> Call] /\ \A u \in Threads : Shape(u)' /\ Used \subseteq Used'
          /\ lock' \in Threads \cup {None}
      BY <1>2, <3>1, <3>2, PutShapes
    <3>4. broker' \in [Brokers -> Broker]
      BY <1>1, <2>2 DEF Broker
    <3>5. ASSUME NEW a \in Brokers PROVE Budget(a)'
      <4>1. (broker'[a].served = broker[a].served /\ broker[a].st # "gone")
             \/ broker'[a] = broker[a]
        BY <1>1, <2>2 DEF Broker
      <4> QED BY <4>1 DEF TypeInv, Budget
    <3> QED BY <1>1, <1>2, <1>8, <2>2, <3>3, <3>4, <3>5, Typed DEF Spawn
  <2> QED BY <1>8, <2>1, <2>2 DEF Spawn
<1>9. CASE Greet(t)
  <2>1. ASSUME NEW b \in Unread, TakeFrame(b), proc' = proc,
               Put(t, [call[t] EXCEPT !.pc = IF Head(broker[b].out).kind = "ready" THEN "adopt" ELSE "idle",
                                   !.at = Head(broker[b].out).pid])
        PROVE  TypeInv'
    <3> DEFINE pc == IF Head(broker[b].out).kind = "ready" THEN "adopt" ELSE "idle"
               at == Head(broker[b].out).pid
               c == [call[t] EXCEPT !.pc = pc, !.at = at]
    <3>1. /\ at \in Brokers /\ pc \in {"adopt", "idle"} /\ broker' \in [Brokers -> Broker]
          /\ \A a \in Brokers : broker'[a].st = broker[a].st /\ broker'[a].served = broker[a].served
      BY <2>1, TakeIs DEF Frame
    <3>2. Put(t, c)
      BY <2>1
    <3> HIDE DEF pc, at
    <3>3. c \in Call /\ c.pc = pc /\ c.n = call[t].n /\ c.op = "open" /\ c.at = at
      BY <1>1, <1>3, <3>1 DEF Call
    <3> HIDE DEF c
    <3>4. call[t].n > 0 /\ call[t].n <= Calls \div Cardinality(callers) /\ call[t].pc \in Waiting
      BY <1>1, <1>3 DEF ShapeOf
    <3>5. ShapeOf(t, c, lock')
      BY <1>2, <1>3, <3>1, <3>3, <3>4 DEF ShapeOf
    <3> QED BY <1>1, <1>2, <1>9, <2>1, <3>1, <3>2, <3>3, <3>4, <3>5, ThreadTypes DEF Greet
  <2>2. CASE TransportClose /\ Goto(t, "idle")
    BY <1>1, <1>2, <1>3, <1>9, <2>2, EndTypes, CloseIs DEF Greet, Goto
  <2> QED BY <1>9, <2>1, <2>2 DEF Greet
<1>10. CASE Adopt(t)
  BY <1>1, <1>2, <1>3, <1>10, GotoTypes DEF Adopt, At, ShapeOf
<1>11. CASE Reset(t)
  BY <1>1, <1>2, <1>3, <1>11, EndTypes DEF Reset
<1> QED BY <1>4, <1>5, <1>6, <1>7, <1>8, <1>9, <1>10, <1>11

\* The id a call takes is a new one.
LEMMA AcquireTypes ==
  ASSUME TypeInv, NEW t \in callers, Acquire(t)
  PROVE  TypeInv' /\ rid' = rid + 1 /\ call'[t] = [call[t] EXCEPT !.pc = "send", !.rid = rid + 1]
<1> DEFINE r == rid + 1
           c == [call[t] EXCEPT !.pc = "send", !.rid = r]
<1>1. /\ t \in Threads /\ ShapeOf(t, call[t], lock) /\ call[t] \in Call /\ DOMAIN call = Threads
      /\ call[t].pc = "queue" /\ callers' = callers /\ lock = None /\ lock' = t /\ rid' = r
      /\ Put(t, c) /\ UNCHANGED <<ready, proc, broker>>
  BY CallersFinite DEF TypeInv, Shape, Acquire, At
<1>2. <<t, call[t].n>> \notin Used /\ call[t].n \in 1 .. call[t].n /\ call[t].n \in 1 .. Calls
      /\ call[t].op # "open" /\ call[t].n <= Calls \div Cardinality(callers)
  BY <1>1, SessionAssumption DEF Used, Waiting, ShapeOf, Call
<1>3. r \in Ids
  <2>1. Cardinality(Used) + 1 <= Calls /\ Cardinality(Used) \in Nat
    BY <1>2, UsedBounded
  <2>2. rid \in Nat /\ rid <= Cardinality(Used)
    BY DEF TypeInv
  <2> QED BY <2>1, <2>2, SessionAssumption DEF Ids
<1> HIDE DEF r
<1>4. c \in Call /\ c.pc = "send" /\ c.n = call[t].n /\ c.op = call[t].op
  BY <1>1, <1>3 DEF Call, Pcs
<1>5. call'[t] = c
  BY <1>1 DEF Put
<1> HIDE DEF c
<1>6. ShapeOf(t, c, lock')
  BY <1>1, <1>2, <1>4 DEF ShapeOf, Opening, Exchanging
<1>7. "send" \notin Waiting
  BY DEF Waiting, Opening
<1>8. /\ call' \in [Threads -> Call] /\ \A u \in Threads : Shape(u)' /\ Used \subseteq Used'
      /\ lock' \in Threads \cup {None}
  BY <1>1, <1>4, <1>6, <1>7, PutShapes
<1>9. <<t, call[t].n>> \in Used'
  BY <1>1, <1>2, <1>4, <1>5, <1>7 DEF Used
<1>10. TypeInv'
  BY <1>1, <1>2, <1>8, <1>9, Typed DEF TypeInv, Budget, r
<1> QED BY <1>1, <1>5, <1>10 DEF c, r

\* The other steps of _exchange() and close(). An answer is taken as Accept says.
LEMMA ExchangeTypes ==
  ASSUME TypeInv, NEW t \in callers,
         Listen(t) \/ Look(t) \/ Send(t) \/ Receive(t) \/ Closing(t) \/ Drain(t)
  PROVE  TypeInv'
<1> USE DEF Pcs, Opening, Exchanging, Waiting
<1>1. /\ t \in Threads /\ ShapeOf(t, call[t], lock) /\ call[t] \in Call /\ t # None
      /\ ready \in Brokers \cup {None} /\ proc \in Brokers \cup {None}
      /\ DOMAIN call = Threads /\ broker \in [Brokers -> Broker]
  BY CallersFinite, SessionAssumption DEF TypeInv, Shape
<1>2. callers' = callers
  BY DEF Listen, Look, Send, Receive, Closing, Drain
<1>3. CASE Look(t)
  <2>1. call[t].pc = "look" /\ call[t].op # "open" /\ lock # t /\ lock' = lock
         /\ UNCHANGED <<Fields, broker>>
    BY <1>1, <1>3 DEF Look, At, ShapeOf
  <2>2. CASE ready = None
    <3>1. Put(t, Raised(t))
      BY <1>3, <2>2 DEF Look, Raise, Goto, Raised
    <3> QED BY <1>1, <1>2, <2>1, <3>1, EndTypes DEF Fields
  <2>3. CASE ready # None
    <3> DEFINE c == [call[t] EXCEPT !.pc = "queue", !.own = ready]
    <3>1. Put(t, c)
      BY <1>3, <2>3 DEF Look
    <3>2. c \in Call /\ c.pc = "queue" /\ c.n = call[t].n /\ c.op = call[t].op
      BY <1>1 DEF Call
    <3> HIDE DEF c
    <3>3. ShapeOf(t, c, lock')
      BY <1>1, <2>1, <3>2 DEF ShapeOf
    <3> QED BY <1>1, <1>2, <2>1, <3>1, <3>2, <3>3, ThreadTypes DEF Fields
  <2> QED BY <2>2, <2>3
<1>4. CASE Send(t)
  <2>1. call[t].pc = "send" /\ call[t].op # "open" /\ lock = t /\ UNCHANGED Fields
    BY <1>1, <1>4 DEF Send, At, ShapeOf
  <2>2. CASE Write(t) /\ UNCHANGED lock
    <3>1. Goto(t, "sent")
      BY <2>2 DEF Write
    <3> QED BY <1>1, <1>2, <2>1, <2>2, <3>1, GotoTypes, WriteIs DEF Fields
  <2>3. CASE Raise(t) /\ lock' = None /\ UNCHANGED broker
    <3>1. Put(t, Raised(t))
      BY <2>3 DEF Raise, Goto, Raised
    <3> QED BY <1>1, <1>2, <2>1, <2>3, <3>1, EndTypes DEF Fields
  <2> QED BY <1>4, <2>2, <2>3 DEF Send
<1>5. CASE Listen(t)
  <2> DEFINE pc == IF At(t, "started") THEN "greet" ELSE "wait"
  <2>1. /\ (At(t, "started") \/ At(t, "sent")) /\ UNCHANGED <<Fields, broker>>
        /\ At(t, "started") => lock # t /\ call[t].op = "open"
        /\ At(t, "sent") => lock = t /\ call[t].op # "open"
    BY <1>1, <1>5 DEF Listen, At, ShapeOf
  <2>2. CASE proc # None
    <3> DEFINE c == [call[t] EXCEPT !.pc = IF @ = "started" THEN "greet" ELSE "wait", !.at = proc]
    <3>1. Put(t, c) /\ lock' = lock
      BY <1>5, <2>2 DEF Listen
    <3>2. /\ c \in Call /\ c.n = call[t].n /\ c.op = call[t].op /\ c.at = proc
          /\ c.pc = (IF call[t].pc = "started" THEN "greet" ELSE "wait")
      BY <1>1, <2>2 DEF Call
    <3> HIDE DEF c
    <3>3. ShapeOf(t, c, lock')
      BY <1>1, <2>1, <2>2, <3>1, <3>2 DEF ShapeOf, At
    <3>4. c.pc \in Waiting => call[t].pc \in Waiting
      BY <2>1, <3>2 DEF At
    <3> QED BY <1>1, <1>2, <1>5, <3>1, <3>2, <3>3, <3>4, ThreadTypes DEF Listen, Fields
  <2>3. CASE proc = None /\ At(t, "started")
    <3>1. Put(t, [call[t] EXCEPT !.pc = "idle"]) /\ lock' = lock
      BY <1>5, <2>1, <2>3 DEF Listen, Raise, Goto, At
    <3> QED BY <1>1, <1>2, <1>5, <2>1, <2>3, <3>1, EndTypes DEF Listen, Fields
  <2>4. CASE proc = None /\ At(t, "sent")
    <3>1. Put(t, Raised(t)) /\ lock' = None
      BY <1>5, <2>4 DEF Listen, Raise, Goto, Raised
    <3> QED BY <1>1, <1>2, <1>5, <2>1, <2>4, <3>1, EndTypes DEF Listen, Fields, At
  <2> QED BY <2>1, <2>2, <2>3, <2>4
<1>6. CASE Receive(t)
  <2>1. /\ call[t].pc = "wait" /\ call[t].op # "open" /\ lock = t /\ lock' = None
        /\ ready' = ready /\ rid' = rid
    BY <1>1, <1>6 DEF Receive, At, ShapeOf
  <2>2. ASSUME Raise(t), \/ proc' = proc /\ broker' = broker
                         \/ /\ proc' \in Brokers \cup {None} /\ broker' \in [Brokers -> Broker]
                            /\ \A b \in Brokers : broker'[b].st = broker[b].st
                                                  /\ broker'[b].served = broker[b].served
        PROVE  TypeInv'
    <3>1. Put(t, Raised(t))
      BY <2>2 DEF Raise, Goto, Raised
    <3> QED BY <1>1, <1>2, <2>1, <2>2, <3>1, EndTypes
  <2>3. ASSUME NEW b \in Unread, TakeFrame(b), Accept(t, Head(broker[b].out)), proc' = proc
        PROVE  TypeInv'
    <3> DEFINE f == Head(broker[b].out)
               pc == IF call[t].op = "close" THEN "closing" ELSE "idle"
               c == [call[t] EXCEPT !.pc = pc, !.ok = TRUE, !.answer = f.tag]
    <3>1. /\ f \in Frame /\ broker' \in [Brokers -> Broker]
          /\ \A a \in Brokers : broker'[a].st = broker[a].st /\ broker'[a].served = broker[a].served
      BY <2>3, TakeIs
    <3>2. CASE Raise(t)
      BY <1>1, <2>2, <2>3, <3>1, <3>2
    <3>3. CASE Put(t, c)
      <4>1. f.tag \in Tags
        BY <3>1 DEF Frame
      <4> HIDE DEF f
      <4>2. pc \in {"closing", "idle"}
        OBVIOUS
      <4> HIDE DEF pc
      <4>3. c \in Call /\ c.pc = pc /\ c.n = call[t].n /\ c.op = call[t].op
        BY <1>1, <4>1, <4>2 DEF Call
      <4>4. Put(t, c)
        BY <3>3
      <4> HIDE DEF c
      <4>5. ShapeOf(t, c, lock')
        BY <1>1, <2>1, <4>2, <4>3 DEF ShapeOf
      <4> QED BY <1>1, <1>2, <2>1, <2>3, <3>1, <4>2, <4>3, <4>4, <4>5, ThreadTypes
    <3> QED BY <2>3, <3>2, <3>3 DEF Accept
  <2>4. CASE TransportClose /\ Raise(t)
    BY <2>2, <2>4, CloseIs
  <2> QED BY <1>6, <2>2, <2>3, <2>4 DEF Receive
<1>7. CASE Closing(t)
  BY <1>1, <1>2, <1>7, GotoTypes DEF Closing, At, ShapeOf
<1>8. CASE Drain(t)
  BY <1>1, <1>2, <1>8, EndTypes, CloseIs DEF Drain, Goto, At, ShapeOf
<1> QED BY <1>3, <1>4, <1>5, <1>6, <1>7, <1>8

\* A broker stays within its types and its budget of requests,
LEMMA ProcessTypes ==
  ASSUME TypeInv, NEW b \in Brokers, Process(b)
  PROVE  TypeInv'
<1>1. /\ UNCHANGED <<callers, ready, rid, proc, lock, call>>
      /\ broker' \in [Brokers -> Broker] /\ \A a \in Brokers \ {b} : broker'[a] = broker[a]
      /\ Budget(b)'
  BY ProcessIs DEF Fields
<1>2. \A a \in Brokers : Budget(a)'
  BY <1>1 DEF TypeInv, Budget
<1>3. (\A u \in Threads : Shape(u)') /\ Used' = Used
  BY <1>1 DEF TypeInv, Shape, ShapeOf, Used
<1> QED BY <1>1, <1>2, <1>3, Typed DEF TypeInv

\* and every step keeps the types.
LEMMA TypeNext ==
  ASSUME TypeInv, [Next]_vars
  PROVE  TypeInv'
<1>1. ASSUME NEW t \in callers, Begin(t) \/ Step(t) PROVE TypeInv'
  BY <1>1, BeginTypes, OpenTypes, AcquireTypes, ExchangeTypes DEF Step
<1>2. ASSUME NEW b \in Brokers, Authorise(b) \/ Serve(b) \/ EndOfInput(b) \/ Exit(b) PROVE TypeInv'
  BY <1>2, ProcessTypes DEF Process
<1>3. CASE UNCHANGED vars
  BY <1>3 DEF vars, Fields, TypeInv, Shape, ShapeOf, Used, Budget
<1> QED BY <1>1, <1>2, <1>3 DEF Next

\* The model keeps its types; the ids of a client need not exceed the calls made on it.
THEOREM SessionTypes == Spec => []TypeOK
<1>1. ASSUME TypeInv PROVE TypeOK
  <2>1. rid \in Ids
    BY <1>1, UsedBounded, SessionAssumption DEF TypeInv, Ids
  <2> QED BY <1>1, <2>1 DEF TypeInv, TypeOK
<1> QED BY <1>1, TypeInit, TypeNext, PTL DEF Spec

-----------------------------------------------------------------------------
(***************************************************************************)
(* Whose answer is read.                                                    *)
(***************************************************************************)
\* No two threads open the client at once.
OneOpener == \A t, u \in Threads : call[t].pc \in Opening /\ call[u].pc \in Opening => t = u

\* Brokers whose ready frame was taken to be adopted.
Known(b) ==
  \/ ready = b
  \/ \E t \in Threads : call[t].own = b \/ (call[t].pc = "adopt" /\ call[t].at = b)

\* The thread that reads b next.
User(t, b) == (call[t].pc = "sent" /\ proc = b) \/ (call[t].pc = "wait" /\ call[t].at = b)

\* The ready frame of a broker is the first to be read.
Greets(k) == k.out # << >> /\ Head(k.out).kind = "ready"
Greeting(b) == Greets(broker[b])
Fresh(b) == broker[b].st = "auth" \/ Greeting(b)

\* Requests and answers on their way.
Load(k) ==
  (IF k.st = "gone" THEN 0 ELSE Len(k.in)) + (IF Greets(k) THEN Len(k.out) - 1 ELSE Len(k.out))
Underway(b) == Load(broker[b])

\* A request or frame of the call of t.
Mine(t, x) == x.tag = <<t, call[t].n>>

\* A broker that is, or may still be, adopted serves one request at a time.
Fits(b) ==
  Fresh(b) \/ Known(b) =>
    /\ proc = b /\ (\A t \in Threads : ~User(t, b)) => Underway(b) = 0
    /\ \A t \in Threads : User(t, b) =>
         /\ Underway(b) <= 1
         /\ broker[b].st # "gone" => \A i \in 1 .. Len(broker[b].in) : Mine(t, broker[b].in[i])
         /\ \A i \in 1 .. Len(broker[b].out) : broker[b].out[i].kind # "ready" => Mine(t,
              broker[b].out[i])

\* A process is only replaced once its pipes are closed or it was never adopted; its
\* frames are its own, the ready frame first.
Pipes(b) ==
  LET k == broker[b] IN
  /\ k.st = "free" => k.in = << >> /\ ~k.eof /\ proc # b
  /\ k.st \in {"free", "auth"} => k.out = << >> /\ ~Known(b)
  /\ proc = b => ~k.eof
  /\ \A i \in 1 .. Len(k.out) : k.out[i].pid = b /\ (k.out[i].kind = "ready" => i = 1 /\ ~Known(b))
  /\ Fits(b)

\* A thread that opens the client starts from none and ends with a process nobody knows.
Opener(t) ==
  LET c == call[t] IN
  /\ c.pc \in {"clear", "start", "spawn", "started", "greet", "adopt"} => ready = None
  /\ c.pc = "started" /\ proc # None => ~Known(proc)
  /\ c.pc = "greet" => ~Known(c.at) /\ proc \in {None, c.at} /\ broker[c.at].st # "free"
  /\ c.pc = "wait" => broker[c.at].st # "free"

\* The answer of a call that did not raise.
Answered(t) == call[t].ok /\ call[t].op # "open" => call[t].answer = <<t, call[t].n>>

\* The invariant of this part.
OwnInv ==
  /\ TypeInv
  /\ \A t \in Threads : Opener(t) /\ Answered(t)
  /\ \A b \in Brokers : Pipes(b)

\* A broker becomes known only by its ready frame.
LEMMA KnownStays ==
  ASSUME NEW t \in Threads, \A u \in Threads \ {t} : call'[u] = call[u],
         ready' \in {ready, None} \/ (call[t].pc = "adopt" /\ ready' = call[t].at),
         call'[t].own \in {call[t].own, None, ready}, call'[t].pc # "adopt"
  PROVE  \A b \in Brokers : Known(b)' => Known(b)
<1>1. ASSUME NEW b \in Brokers, ready' = b PROVE Known(b)
  BY <1>1, SessionAssumption DEF Known
<1>2. ASSUME NEW b \in Brokers, NEW u \in Threads, call'[u].own = b PROVE Known(b)
  BY <1>2, SessionAssumption DEF Known
<1>3. ASSUME NEW b \in Brokers, NEW u \in Threads, call'[u].pc = "adopt", call'[u].at = b
      PROVE  Known(b)
  BY <1>3 DEF Known
<1> QED BY <1>1, <1>2, <1>3 DEF Known

\* The other threads are not disturbed.
LEMMA OthersOpen ==
  ASSUME OwnInv, TypeInv', OneOpener, NEW t \in Threads, \A u \in Threads \ {t} :
         call'[u] = call[u],
         \A b \in Brokers : broker[b].st # "free" => broker'[b].st # "free",
         \/ call[t].pc \in Opening
         \/ /\ ready' \in {ready, None} /\ proc' \in {proc, None}
            /\ \A b \in Brokers : Known(b)' => Known(b)
  PROVE  \A u \in Threads \ {t} : Opener(u)' /\ Answered(u)'
<1> SUFFICES ASSUME NEW u \in Threads, u # t PROVE Opener(u)' /\ Answered(u)'
  OBVIOUS
<1>1. call'[u] = call[u] /\ Opener(u) /\ Answered(u) /\ Shape(u)
  BY DEF OwnInv, TypeInv
<1>2. Answered(u)'
  BY <1>1 DEF Answered
<1>3. call[u].pc \in {"wait", "greet"} => call[u].at \in Brokers
  BY <1>1 DEF Shape, ShapeOf
<1>4. CASE call[t].pc \in Opening
  <2>1. call[u].pc \notin Opening
    BY <1>4 DEF OneOpener
  <2>2. call[u].pc \notin {"clear", "start", "spawn", "started", "greet", "adopt"}
    BY <2>1 DEF Opening
  <2>3. call[u].pc = "wait" => broker'[call[u].at].st # "free"
    BY <1>1, <1>3 DEF Opener
  <2>4. Opener(u)'
    BY <1>1, <2>2, <2>3 DEF Opener
  <2> QED BY <1>2, <2>4
<1>5. CASE /\ ready' \in {ready, None} /\ proc' \in {proc, None}
           /\ \A b \in Brokers : Known(b)' => Known(b)
  <2>1. proc \in Brokers \cup {None}
    BY DEF OwnInv, TypeInv
  <2>2. proc' # None => proc' = proc /\ proc \in Brokers
    BY <1>5, <2>1
  <2>3. call[u].pc \in {"clear", "start", "spawn", "started", "greet", "adopt"} => ready' = None
    BY <1>1, <1>5 DEF Opener
  <2>4. call[u].pc = "started" /\ proc' # None => ~Known(proc)'
    <3> SUFFICES ASSUME call[u].pc = "started", proc' # None PROVE ~Known(proc)'
      OBVIOUS
    <3>1. proc \in Brokers /\ ~Known(proc) /\ proc' = proc
      BY <1>1, <2>2 DEF Opener
    <3>2. \A b \in Brokers : ~Known(b) => ~Known(b)'
      BY <1>5
    <3>3. PICK b \in Brokers : b = proc
      BY <3>1
    <3>4. ~Known(b)'
      BY <3>1, <3>2, <3>3
    <3> QED BY <3>1, <3>3, <3>4 DEF Known
  <2>5. call[u].pc = "greet" => ~Known(call[u].at)' /\ proc' \in {None, call[u].at}
    <3> SUFFICES ASSUME call[u].pc = "greet" PROVE ~Known(call[u].at)' /\ proc' \in {None,
           call[u].at}
      OBVIOUS
    <3>1. PICK b \in Brokers : b = call[u].at
      BY <1>3
    <3>2. ~Known(b) /\ proc \in {None, b}
      BY <1>1, <3>1 DEF Opener
    <3>3. ~Known(b)' /\ proc' \in {None, b}
      BY <1>5, <3>2
    <3> QED BY <1>1, <3>1, <3>3 DEF Known
  <2>6. call[u].pc \in {"wait", "greet"} => broker'[call[u].at].st # "free"
    BY <1>1, <1>3 DEF Opener
  <2>7. Opener(u)'
    BY <1>1, <2>2, <2>3, <2>4, <2>5, <2>6 DEF Opener
  <2> QED BY <1>2, <2>7
<1> QED BY <1>4, <1>5

\* A broker whose pipes are neither written nor read. A thread that stops reading the
\* process leaves it quiet, so that no answer is lost.
LEMMA PipesStay ==
  ASSUME OwnInv, NEW t \in Threads, \A u \in Threads \ {t} : call'[u] = call[u], NEW b \in Brokers,
         broker'[b].st = broker[b].st, broker'[b].in = broker[b].in, broker'[b].out = broker[b].out,
         broker'[b].eof = broker[b].eof \/ (b = proc /\ proc' # b),
         proc' = b => proc = b, Known(b)' => Known(b),
         User(t, b)' => User(t, b) /\ call'[t].n = call[t].n,
         proc' = b /\ User(t, b) /\ ~User(t, b)' => Underway(b) = 0
  PROVE  Pipes(b)'
<1>1. Pipes(b)
  BY DEF OwnInv
<1>2. Underway(b)' = Underway(b) /\ Fresh(b)' = Fresh(b)
  BY DEF Underway, Load, Fresh, Greeting, Greets
<1>3. ASSUME NEW u \in Threads, User(u, b)' PROVE User(u, b) /\ \A x : Mine(u, x)' <=> Mine(u, x)
  <2>1. CASE u = t
    BY <1>3, <2>1 DEF Mine
  <2>2. CASE u # t
    BY <1>3, <2>2 DEF User, Mine
  <2> QED BY <2>1, <2>2
<1>4. Fits(b)'
  <2> SUFFICES ASSUME Fresh(b)' \/ Known(b)' PROVE Fits(b)'
    BY DEF Fits
  <2>1. Fresh(b) \/ Known(b)
    BY <1>2
  <2>2. ASSUME proc' = b, \A u \in Threads : ~User(u, b)' PROVE Underway(b) = 0
    <3>1. CASE User(t, b)
      BY <2>2, <3>1
    <3>2. CASE ~User(t, b)
      <4>1. \A u \in Threads \ {t} : User(u, b) => User(u, b)'
        BY <2>2 DEF User
      <4> QED BY <1>1, <2>1, <2>2, <3>2, <4>1 DEF Pipes, Fits
    <3> QED BY <3>1, <3>2
  <2>3. ASSUME NEW u \in Threads, User(u, b)'
        PROVE  /\ Underway(b) <= 1
               /\ broker[b].st # "gone" => \A i \in 1 .. Len(broker[b].in) : Mine(u,
                    broker[b].in[i])'
               /\ \A i \in 1 .. Len(broker[b].out) :
                    broker[b].out[i].kind # "ready" => Mine(u, broker[b].out[i])'
    <3>1. User(u, b) /\ \A x : Mine(u, x)' <=> Mine(u, x)
      BY <1>3, <2>3
    <3>2. /\ Underway(b) <= 1
          /\ broker[b].st # "gone" => \A i \in 1 .. Len(broker[b].in) : Mine(u, broker[b].in[i])
          /\ \A i \in 1 .. Len(broker[b].out) :
               broker[b].out[i].kind # "ready" => Mine(u, broker[b].out[i])
      BY <1>1, <2>1, <3>1 DEF Pipes, Fits
    <3> QED BY <3>1, <3>2
  <2> QED BY <1>2, <2>2, <2>3 DEF Fits
<1>5. \A i \in 1 .. Len(broker'[b].out) :
        broker'[b].out[i].pid = b /\ (broker'[b].out[i].kind = "ready" => i = 1 /\ ~Known(b)')
  BY <1>1 DEF Pipes
<1>6. /\ broker'[b].st = "free" => broker'[b].in = << >> /\ ~broker'[b].eof /\ proc' # b
      /\ broker'[b].st \in {"free", "auth"} => broker'[b].out = << >> /\ ~Known(b)'
      /\ proc' = b => ~broker'[b].eof
  BY <1>1 DEF Pipes
<1> QED BY <1>4, <1>5, <1>6 DEF Pipes

\* A step that writes and takes nothing, and may close the pipes of the process.
LEMMA CalmPipes ==
  ASSUME OwnInv, NEW t \in Threads, \A u \in Threads \ {t} : call'[u] = call[u],
         (proc' = proc /\ broker' = broker) \/ TransportClose,
         \A b \in Brokers : Known(b)' => Known(b),
         \A b \in Brokers : User(t, b)' => User(t, b) /\ call'[t].n = call[t].n,
         \A b \in Brokers : proc' = b /\ User(t, b) /\ ~User(t, b)' => Underway(b) = 0
  PROVE  /\ \A b \in Brokers : Pipes(b)'
         /\ proc' \in {proc, None} /\ \A b \in Brokers : broker[b].st # "free"
              => broker'[b].st # "free"
<1>1. /\ proc' \in {proc, None}
      /\ \A b \in Brokers :
           /\ broker'[b].st = broker[b].st /\ broker'[b].in = broker[b].in
           /\ broker'[b].out = broker[b].out
           /\ broker'[b].eof = (broker[b].eof \/ (b = proc /\ proc' = None))
  <2>1. CASE proc' = proc /\ broker' = broker
    <3>1. \A b \in Brokers : broker[b].eof \in BOOLEAN /\ b # None
      BY SessionAssumption DEF OwnInv, TypeInv, Broker
    <3> QED BY <2>1, <3>1
  <2>2. CASE TransportClose
    BY <2>2, CloseIs DEF OwnInv
  <2> QED BY <2>1, <2>2
<1>2. ASSUME NEW b \in Brokers PROVE Pipes(b)'
  <2>1. b # None /\ broker[b].eof \in BOOLEAN
    BY SessionAssumption DEF OwnInv, TypeInv, Broker
  <2>2. broker'[b].eof = broker[b].eof \/ (b = proc /\ proc' # b)
    BY <1>1, <2>1
  <2> QED BY <1>1, <2>1, <2>2, PipesStay
<1>3. \A b \in Brokers : broker[b].st # "free" => broker'[b].st # "free"
  BY <1>1
<1> QED BY <1>1, <1>2, <1>3

\* Such a step of a thread, which is not about to read.
LEMMA CalmOwn ==
  ASSUME OwnInv, TypeInv', OneOpener, NEW t \in Threads, \A u \in Threads \ {t} :
         call'[u] = call[u],
         (proc' = proc /\ broker' = broker) \/ TransportClose,
         ready' \in {ready, None} \/ (call[t].pc = "adopt" /\ ready' = call[t].at),
         call'[t].own \in {call[t].own, None, ready},
         call'[t].pc \notin {"started", "greet", "adopt", "wait"},
         call'[t].pc \in {"clear", "start", "spawn"} => ready' = None,
         Answered(t)',
         \A b \in Brokers : User(t, b)' => User(t, b) /\ call'[t].n = call[t].n,
         \A b \in Brokers : proc' = b /\ User(t, b) /\ ~User(t, b)' => Underway(b) = 0
  PROVE  OwnInv'
<1>1. \A b \in Brokers : Known(b)' => Known(b)
  BY KnownStays
<1>2. /\ \A b \in Brokers : Pipes(b)'
      /\ proc' \in {proc, None} /\ \A b \in Brokers : broker[b].st # "free"
           => broker'[b].st # "free"
  BY <1>1, CalmPipes
<1>3. \A u \in Threads \ {t} : Opener(u)' /\ Answered(u)'
  <2>1. ready' \in {ready, None} \/ call[t].pc \in Opening
    BY DEF Opening
  <2> QED BY <1>1, <1>2, <2>1, OthersOpen
<1>4. Opener(t)'
  BY DEF Opener
<1> QED BY <1>2, <1>3, <1>4 DEF OwnInv

\* The same by the call that is put: it is quiet if the thread neither was nor is a reader.
LEMMA QuietOwn ==
  ASSUME OwnInv, TypeInv', OneOpener, NEW t \in callers, NEW c, Put(t, c),
         (proc' = proc /\ broker' = broker) \/ TransportClose,
         ready' \in {ready, None} \/ (call[t].pc = "adopt" /\ ready' = call[t].at),
         c.own \in {call[t].own, None, ready},
         c.pc \in Pcs \ {"started", "greet", "adopt", "sent", "wait"},
         c.pc \in {"clear", "start", "spawn"} => ready' = None,
         \/ c.op = "open" \/ c.ok = FALSE
         \/ c.ok = call[t].ok /\ c.op = call[t].op /\ c.n = call[t].n /\ c.answer = call[t].answer,
         \/ call[t].pc \notin {"sent", "wait"} \/ proc' = None
         \/ \A b \in Brokers : User(t, b) => Underway(b) = 0
  PROVE  OwnInv'
<1>1. t \in Threads /\ call'[t] = c /\ \A u \in Threads \ {t} : call'[u] = call[u]
  BY CallersFinite DEF OwnInv, TypeInv, Put
<1>2. Answered(t)'
  BY <1>1 DEF Answered, OwnInv
<1>3. \A b \in Brokers : ~User(t, b)'
  BY <1>1 DEF User
<1>4. \A b \in Brokers : proc' = b /\ User(t, b) => Underway(b) = 0
  BY SessionAssumption DEF User
<1>5. c.pc \notin {"started", "greet", "adopt", "wait"}
  OBVIOUS
<1> QED BY <1>1, <1>2, <1>3, <1>4, <1>5, CalmOwn

\* Steps that neither read, nor write, nor start a process.
LEMMA QuietSteps ==
  ASSUME OwnInv, TypeInv', OneOpener, NEW t \in callers,
         \/ Begin(t) \/ OpenLook(t) \/ OpenDrop(t) \/ OpenClear(t) \/ Start(t) \/ Adopt(t)
              \/ Reset(t)
         \/ Look(t) \/ Acquire(t) \/ Closing(t) \/ Drain(t)
  PROVE  OwnInv'
<1>1. t \in Threads /\ call[t] \in Call /\ Opener(t) /\ TypeInv
  BY CallersFinite DEF OwnInv, TypeInv
<1>2. call[t].pc \notin {"sent", "wait"}
  BY DEF Begin, OpenLook, OpenDrop, OpenClear, Start, Adopt, Reset, Look, Acquire, Closing,
         Drain, At
<1>3. CASE Begin(t)
  <2>1. PICK op \in Ops, pc \in Pcs \ Exchanging :
           call'[t] = [NoCall EXCEPT !.op = op, !.n = call[t].n + 1, !.pc = pc]
           /\ (op = "open" => pc = "open") /\ (op # "open" => pc \in {"look", "drain"})
    BY <1>1, <1>3, BeginTypes
  <2> DEFINE c == call'[t]
  <2>2. c.own = None /\ c.ok = FALSE /\ c.pc = pc
    BY <2>1 DEF NoCall
  <2>3. Put(t, c)
    BY <1>1, <1>3 DEF Begin, Put, TypeInv
  <2>4. pc \in {"open", "look", "drain"}
    BY <2>1
  <2>5. ready' = ready /\ proc' = proc /\ broker' = broker
    BY <1>3 DEF Begin, Fields
  <2> HIDE DEF c
  <2> QED BY <1>2, <2>2, <2>3, <2>4, <2>5, QuietOwn DEF Pcs
<1>4. ASSUME NEW pc \in {"idle", "drop", "clear", "start", "spawn", "reset", "drain"}, Goto(t, pc),
             (proc' = proc /\ broker' = broker) \/ TransportClose,
             ready' \in {ready, None} \/ (call[t].pc = "adopt" /\ ready' = call[t].at),
             pc \in {"clear", "start", "spawn"} => ready' = None
      PROVE  OwnInv'
  <2> DEFINE c == [call[t] EXCEPT !.pc = pc]
  <2>1. /\ c.pc = pc /\ c.own = call[t].own /\ c.ok = call[t].ok /\ c.op = call[t].op
        /\ c.n = call[t].n /\ c.answer = call[t].answer
    BY <1>1 DEF Call
  <2>2. Put(t, c)
    BY <1>4 DEF Goto
  <2>3. pc \in Pcs \ {"started", "greet", "adopt", "sent", "wait"}
    BY DEF Pcs
  <2> HIDE DEF c
  <2> QED BY <1>2, <1>4, <2>1, <2>2, <2>3, QuietOwn
<1>5. ASSUME Put(t, [call[t] EXCEPT !.pc = "idle", !.ok = TRUE]), call[t].op = "open",
             proc' = proc, broker' = broker, ready' = ready
      PROVE  OwnInv'
  <2> DEFINE c == [call[t] EXCEPT !.pc = "idle", !.ok = TRUE]
  <2>1. c.pc = "idle" /\ c.own = call[t].own /\ c.op = "open" /\ Put(t, c)
    BY <1>1, <1>5 DEF Call
  <2>2. "idle" \in Pcs
    BY DEF Pcs
  <2> HIDE DEF c
  <2> QED BY <1>2, <1>5, <2>1, <2>2, QuietOwn
<1>6. CASE OpenLook(t)
  <2>1. call[t].op = "open"
    BY <1>1, <1>6 DEF OpenLook, At, TypeInv, Shape, ShapeOf
  <2> QED BY <1>4, <1>5, <1>6, <2>1 DEF OpenLook, Fields
<1>7. CASE OpenDrop(t)
  BY <1>4, <1>7 DEF OpenDrop
<1>8. CASE OpenClear(t)
  BY <1>1, <1>4, <1>8 DEF OpenClear, At, Opener
<1>9. CASE Start(t)
  BY <1>1, <1>4, <1>9 DEF Start, At, Opener, Fields
<1>10. CASE Adopt(t)
  BY <1>4, <1>10 DEF Adopt, At
<1>11. CASE Reset(t)
  <2>1. call[t].op = "open"
    BY <1>1, <1>11 DEF Reset, At, TypeInv, Shape, ShapeOf, Opening
  <2> QED BY <1>5, <1>11, <2>1 DEF Reset
<1>12. CASE Closing(t) \/ Drain(t)
  BY <1>4, <1>12 DEF Closing, Drain
<1>13. CASE Look(t)
  <2>1. ready' = ready /\ proc' = proc /\ broker' = broker
    BY <1>13 DEF Look, Fields
  <2>2. CASE Raise(t)
    <3>1. Put(t, Raised(t)) /\ lock # t /\ call[t].pc \in Exchanging \cup {"look"}
      BY <1>1, <1>13, <2>2 DEF Raise, Raised, Goto, Look, At, TypeInv, Shape, ShapeOf, Exchanging
    <3>2. "idle" \in Pcs /\ "closing" \in Pcs
      BY DEF Pcs
    <3> QED BY <1>1, <1>2, <2>1, <3>1, <3>2, Raises, QuietOwn
  <2>3. CASE Put(t, [call[t] EXCEPT !.pc = "queue", !.own = ready])
    <3> DEFINE c == [call[t] EXCEPT !.pc = "queue", !.own = ready]
    <3>1. /\ c.pc = "queue" /\ c.own = ready /\ c.ok = call[t].ok /\ c.op = call[t].op
          /\ c.n = call[t].n /\ c.answer = call[t].answer /\ Put(t, c) /\ "queue" \in Pcs
      BY <1>1, <2>3 DEF Call, Pcs
    <3> HIDE DEF c
    <3> QED BY <1>2, <2>1, <3>1, QuietOwn
  <2> QED BY <1>13, <2>2, <2>3 DEF Look
<1>14. CASE Acquire(t)
  <2> DEFINE c == [call[t] EXCEPT !.pc = "send", !.rid = rid + 1]
  <2>1. /\ c.pc = "send" /\ c.own = call[t].own /\ c.ok = call[t].ok /\ c.op = call[t].op
        /\ c.n = call[t].n /\ c.answer = call[t].answer /\ Put(t, c) /\ "send" \in Pcs
    BY <1>1, <1>14 DEF Call, Pcs, Acquire
  <2>2. ready' = ready /\ proc' = proc /\ broker' = broker
    BY <1>14 DEF Acquire
  <2> HIDE DEF c
  <2> QED BY <1>2, <2>1, <2>2, QuietOwn
<1> QED BY <1>3, <1>6, <1>7, <1>8, <1>9, <1>10, <1>11, <1>12, <1>13, <1>14

\* Steps that fail. A thread that gives up has closed the pipes, or finds the process gone.
LEMMA RaisingSteps ==
  ASSUME OwnInv, TypeInv', OneOpener, NEW t \in callers,
         \/ Goto(t, "idle") /\ call[t].pc \in {"spawn", "started", "greet"}
         \/ Raise(t) /\ call[t].pc = "send"
         \/ Raise(t) /\ call[t].pc \in {"sent", "wait"} /\ proc' = None
         \/ Raise(t) /\ call[t].pc = "wait" /\ Exhausted(call[t].at),
         (proc' = proc /\ broker' = broker) \/ TransportClose, ready' = ready
  PROVE  OwnInv'
<1>1. t \in Threads /\ call[t] \in Call /\ TypeInv
  BY CallersFinite DEF OwnInv, TypeInv
<1>2. "idle" \in Pcs /\ "closing" \in Pcs
  BY DEF Pcs
<1>3. CASE Goto(t, "idle") /\ call[t].pc \in {"spawn", "started", "greet"}
  <2> DEFINE c == [call[t] EXCEPT !.pc = "idle"]
  <2>1. /\ c.pc = "idle" /\ c.own = call[t].own /\ c.ok = call[t].ok /\ c.op = call[t].op
        /\ c.n = call[t].n /\ c.answer = call[t].answer /\ Put(t, c)
    BY <1>1, <1>3 DEF Call, Goto
  <2> HIDE DEF c
  <2> QED BY <1>2, <1>3, <2>1, QuietOwn
<1>4. CASE Raise(t) /\ call[t].pc \in {"send", "sent", "wait"}
  <2>1. Put(t, Raised(t))
    BY <1>4 DEF Raise, Raised, Goto
  <2>2. /\ Raised(t).ok = call[t].ok /\ Raised(t).op = call[t].op /\ Raised(t).n = call[t].n
        /\ Raised(t).answer = call[t].answer /\ Raised(t).own = call[t].own
        /\ Raised(t).pc \in {"closing", "idle"}
    BY <1>1, <1>4 DEF Raised, Call
  <2>3. \/ call[t].pc \notin {"sent", "wait"} \/ proc' = None
        \/ call[t].pc = "wait" /\ Exhausted(call[t].at)
    BY <1>4
  <2>4. CASE call[t].pc \notin {"sent", "wait"} \/ proc' = None
    BY <1>2, <2>1, <2>2, <2>4, QuietOwn
  <2>5. CASE proc' # None /\ call[t].pc = "wait" /\ Exhausted(call[t].at)
    <3>1. proc' = proc /\ broker' = broker
      BY <2>5 DEF TransportClose
    <3>2. ASSUME NEW b \in Brokers, proc' = b, User(t, b) PROVE Underway(b) = 0
      <4>1. call[t].at = b /\ Pipes(b)
        BY <2>5, <3>2 DEF User, OwnInv
      <4>2. broker[b].st = "gone" /\ broker[b].out = << >>
        BY <2>5, <3>1, <3>2, <4>1 DEF Exhausted, Pipes
      <4> QED BY <4>2 DEF Underway, Load, Greeting, Greets
    <3>3. call'[t] = Raised(t) /\ \A u \in Threads \ {t} : call'[u] = call[u]
      BY <1>1, <2>1 DEF Put, TypeInv
    <3>4. Answered(t)'
      BY <1>1, <2>2, <3>3 DEF Answered, OwnInv
    <3>5. \A b \in Brokers : ~User(t, b)'
      BY <2>2, <3>3 DEF User
    <3>6. Raised(t).pc \notin {"started", "greet", "adopt", "wait", "clear", "start", "spawn"}
      BY <2>2
    <3> QED BY <1>1, <2>2, <3>1, <3>2, <3>3, <3>4, <3>5, <3>6, CalmOwn
  <2> QED BY <2>3, <2>4, <2>5
<1> QED BY <1>3, <1>4

\* A thread begins to read the process it has started, or has written to.
LEMMA ListenOwn ==
  ASSUME OwnInv, TypeInv', OneOpener, NEW t \in callers, Listen(t)
  PROVE  OwnInv'
<1>1. t \in Threads /\ call[t] \in Call /\ TypeInv /\ Opener(t) /\ Answered(t)
  BY CallersFinite DEF OwnInv, TypeInv
<1>2. ready' = ready /\ proc' = proc /\ broker' = broker /\ call[t].pc \in {"started", "sent"}
  BY DEF Listen, Fields, At
<1>3. CASE proc = None
  <2>1. CASE call[t].pc = "started"
    <3>1. call[t].op = "open"
      BY <1>1, <2>1 DEF TypeInv, Shape, ShapeOf, Opening
    <3>2. Goto(t, "idle")
      BY <1>3, <3>1 DEF Listen, Raise
    <3> QED BY <1>2, <2>1, <3>2, RaisingSteps
  <2>2. CASE call[t].pc = "sent"
    <3>1. Raise(t)
      BY <1>3 DEF Listen
    <3> QED BY <1>2, <1>3, <2>2, <3>1, RaisingSteps
  <2> QED BY <1>2, <2>1, <2>2
<1>4. CASE proc # None
  <2> DEFINE pc == IF call[t].pc = "started" THEN "greet" ELSE "wait"
             c == [call[t] EXCEPT !.pc = pc, !.at = proc]
  <2>1. Put(t, c)
    BY <1>4 DEF Listen
  <2>2. /\ c.pc = pc /\ c.at = proc /\ c.own = call[t].own /\ c.ok = call[t].ok /\ c.op = call[t].op
        /\ c.n = call[t].n /\ c.answer = call[t].answer /\ pc \in {"greet", "wait"}
    BY <1>1 DEF Call
  <2>3. call'[t] = c /\ \A u \in Threads \ {t} : call'[u] = call[u]
    BY <1>1, <2>1 DEF Put, TypeInv
  <2> HIDE DEF c
  <2>4. \A b \in Brokers : Known(b)' => Known(b)
    BY <1>1, <1>2, <2>2, <2>3, KnownStays
  <2>5. \A b \in Brokers : User(t, b)' <=> User(t, b)
    BY <1>2, <2>2, <2>3 DEF User
  <2>6. /\ \A b \in Brokers : Pipes(b)'
        /\ \A b \in Brokers : broker[b].st # "free" => broker'[b].st # "free"
    BY <1>1, <1>2, <2>2, <2>3, <2>4, <2>5, CalmPipes
  <2>7. \A u \in Threads \ {t} : Opener(u)' /\ Answered(u)'
    BY <1>1, <1>2, <2>3, <2>4, <2>6, OthersOpen
  <2>8. proc \in Brokers /\ broker[proc].st # "free"
    BY <1>1, <1>4 DEF TypeInv, OwnInv, Pipes
  <2>9. Opener(t)'
    <3>1. CASE pc = "greet"
      <4>1. call[t].pc = "started" /\ ~Known(proc) /\ ready = None
        BY <1>1, <1>2, <1>4, <3>1 DEF Opener
      <4>2. PICK b \in Brokers : b = proc
        BY <2>8
      <4>3. ~Known(b)'
        BY <2>4, <4>1, <4>2
      <4>4. ~Known(call[t].at)'
        BY <1>2, <2>2, <2>3, <4>2, <4>3 DEF Known
      <4> QED BY <1>2, <2>2, <2>3, <2>8, <3>1, <4>1, <4>4 DEF Opener
    <3>2. CASE pc = "wait"
      BY <1>2, <2>2, <2>3, <2>8, <3>2 DEF Opener
    <3> QED BY <2>2, <3>1, <3>2
  <2>10. Answered(t)'
    BY <1>1, <2>2, <2>3 DEF Answered
  <2> QED BY <2>6, <2>7, <2>9, <2>10 DEF OwnInv
<1> QED BY <1>3, <1>4

\* A new process is known to nobody.
LEMMA SpawnOwn ==
  ASSUME OwnInv, TypeInv', OneOpener, NEW t \in callers, Spawn(t)
  PROVE  OwnInv'
<1>1. t \in Threads /\ call[t] \in Call /\ TypeInv /\ Opener(t) /\ Answered(t)
       /\ call[t].pc = "spawn"
  BY CallersFinite DEF OwnInv, TypeInv, Spawn, At
<1>2. CASE Goto(t, "idle") /\ UNCHANGED <<callers, proc, broker>>
  BY <1>1, <1>2, RaisingSteps DEF Spawn
<1>3. ASSUME NEW k \in Brokers, broker[k].st = "free", broker' = [broker EXCEPT ![k].st = "auth"],
             proc' = k, Goto(t, "started")
      PROVE  OwnInv'
  <2>1. ready' = ready /\ ready = None /\ call[t].pc \in Opening
    BY <1>1 DEF Spawn, Opener, Opening
  <2> DEFINE c == [call[t] EXCEPT !.pc = "started"]
  <2>2. /\ c.pc = "started" /\ c.own = call[t].own /\ c.ok = call[t].ok
        /\ c.op = call[t].op /\ c.n = call[t].n /\ c.answer = call[t].answer
    BY <1>1 DEF Call
  <2>3. call'[t] = c /\ \A u \in Threads \ {t} : call'[u] = call[u]
    BY <1>1, <1>3 DEF Goto, Put, TypeInv
  <2> HIDE DEF c
  <2>4. \A b \in Brokers : Known(b)' => Known(b)
    BY <1>1, <2>1, <2>2, <2>3, KnownStays
  <2>5. /\ \A b \in Brokers \ {k} : broker'[b] = broker[b]
        /\ broker'[k].st = "auth" /\ broker'[k].in = broker[k].in /\ broker'[k].out = broker[k].out
        /\ broker'[k].eof = broker[k].eof
    BY <1>1, <1>3 DEF TypeInv, Broker
  <2>6. Pipes(k)'
    <3>1. broker[k].in = << >> /\ broker[k].out = << >> /\ ~broker[k].eof /\ ~Known(k)
      BY <1>3 DEF OwnInv, Pipes
    <3>2. Underway(k)' = 0
      BY <2>5, <3>1 DEF Underway, Load, Greeting, Greets
    <3>3. Fits(k)'
      BY <2>5, <3>1, <3>2 DEF Fits
    <3> QED BY <2>4, <2>5, <3>1, <3>3 DEF Pipes
  <2>7. ASSUME NEW b \in Brokers, b # k PROVE Pipes(b)'
    <3>1. Pipes(b) /\ broker'[b] = broker[b] /\ proc' # b /\ (Known(b)' => Known(b))
      BY <1>3, <2>4, <2>5, <2>7 DEF OwnInv
    <3>2. ~User(t, b)'
      BY <2>2, <2>3 DEF User
    <3> QED BY <1>1, <2>3, <3>1, <3>2, PipesStay
  <2>8. \A u \in Threads \ {t} : Opener(u)' /\ Answered(u)'
    <3>1. \A b \in Brokers : broker[b].st # "free" => broker'[b].st # "free"
      BY <2>5
    <3> QED BY <1>1, <2>1, <2>3, <3>1, OthersOpen
  <2>9. Opener(t)'
    <3>1. ~Known(k)'
      BY <1>3, <2>4 DEF OwnInv, Pipes
    <3>2. ~Known(proc)'
      BY <1>3, <3>1 DEF Known
    <3> QED BY <2>1, <2>2, <2>3, <3>2 DEF Opener
  <2>10. Answered(t)'
    BY <1>1, <2>2, <2>3 DEF Answered
  <2> QED BY <2>6, <2>7, <2>8, <2>9, <2>10 DEF OwnInv
<1> QED BY <1>2, <1>3 DEF Spawn

\* The load of a broker by cases.
LEMMA Loads ==
  ASSUME NEW k \in Broker
  PROVE  /\ k.in \in Seq(Request) /\ k.out \in Seq(Frame) /\ Len(k.in) \in Nat /\ Len(k.out) \in Nat
         /\ Greets(k) => Len(k.out) > 0 /\ k.out[1].kind = "ready"
         /\ k.st = "gone" /\ Greets(k) => Load(k) = Len(k.out) - 1
         /\ k.st = "gone" /\ ~Greets(k) => Load(k) = Len(k.out)
         /\ k.st # "gone" /\ Greets(k) => Load(k) = Len(k.in) + (Len(k.out) - 1)
         /\ k.st # "gone" /\ ~Greets(k) => Load(k) = Len(k.in) + Len(k.out)
<1>1. k.in \in Seq(Request) /\ k.out \in Seq(Frame)
  BY DEF Broker
<1>2. Len(k.in) \in Nat /\ Len(k.out) \in Nat
  BY <1>1
<1>3. Greets(k) => Len(k.out) > 0 /\ k.out[1].kind = "ready"
  BY <1>1 DEF Greets
<1>4. CASE Greets(k) /\ k.st = "gone"
  BY <1>1, <1>2, <1>3, <1>4 DEF Load
<1>5. CASE Greets(k) /\ k.st # "gone"
  BY <1>1, <1>2, <1>3, <1>5 DEF Load
<1>6. CASE ~Greets(k) /\ k.st = "gone"
  BY <1>1, <1>2, <1>3, <1>6 DEF Load
<1>7. CASE ~Greets(k) /\ k.st # "gone"
  BY <1>1, <1>2, <1>3, <1>7 DEF Load
<1> QED BY <1>1, <1>2, <1>3, <1>4, <1>5, <1>6, <1>7

\* The same of the broker b.
Counted(b) ==
  /\ broker[b] \in Broker
  /\ broker[b].in \in Seq(Request) /\ broker[b].out \in Seq(Frame)
  /\ Len(broker[b].in) \in Nat /\ Len(broker[b].out) \in Nat
  /\ Greeting(b) => Len(broker[b].out) > 0 /\ broker[b].out[1].kind = "ready"
  /\ broker[b].st = "gone" /\ Greeting(b) => Underway(b) = Len(broker[b].out) - 1
  /\ broker[b].st = "gone" /\ ~Greeting(b) => Underway(b) = Len(broker[b].out)
  /\ broker[b].st # "gone" /\ Greeting(b)
       => Underway(b) = Len(broker[b].in) + (Len(broker[b].out) - 1)
  /\ broker[b].st # "gone" /\ ~Greeting(b) => Underway(b) = Len(broker[b].in) + Len(broker[b].out)

\* It holds before a step and after it.
LEMMA LoadsOf ==
  ASSUME OwnInv, TypeInv', NEW b \in Brokers
  PROVE  Counted(b) /\ Counted(b)'
<1>1. broker[b] \in Broker /\ broker'[b] \in Broker
  BY DEF TypeInv, OwnInv
<1> QED BY <1>1, Loads DEF Underway, Greeting, Counted

\* What a reader leaves in the pipe when it takes the oldest frame of b.
LEMMA Rest ==
  ASSUME OwnInv, TypeInv', NEW b \in Unread, TakeFrame(b)
  PROVE  /\ b \in Brokers /\ broker[b].st \notin {"free", "auth"} /\ Head(broker[b].out) \in Frame
         /\ Head(broker[b].out).pid = b /\ Head(broker[b].out) = broker[b].out[1]
         /\ 1 \in 1 .. Len(broker[b].out)
         /\ Greeting(b) <=> Head(broker[b].out).kind = "ready"
         /\ \A i \in 1 .. Len(broker'[b].out) :
              /\ broker'[b].out[i] = broker[b].out[i + 1] /\ i + 1 \in 1 .. Len(broker[b].out)
              /\ broker'[b].out[i].pid = b /\ broker'[b].out[i].kind # "ready"
         /\ ~Greeting(b)' /\ ~Fresh(b)' /\ Underway(b) \in Nat /\ Underway(b)' \in Nat
         /\ Underway(b) = Underway(b)' + IF Greeting(b) THEN 0 ELSE 1
<1> DEFINE out == broker[b].out
           rest == Tail(out)
<1>1. /\ b \in Brokers /\ out \in Seq(Frame) /\ out # << >> /\ Head(out) \in Frame
           /\ broker'[b].out = rest
      /\ broker'[b].st = broker[b].st /\ broker'[b].in = broker[b].in
  BY TakeIs DEF OwnInv
<1>2. /\ broker[b].st \notin {"free", "auth"}
      /\ \A i \in 1 .. Len(out) : out[i].pid = b /\ (out[i].kind = "ready" => i = 1)
  BY <1>1 DEF OwnInv, Pipes
<1>3. broker[b].in \in Seq(Request)
  BY <1>1 DEF OwnInv, TypeInv, Broker
<1> HIDE DEF out
<1>4. /\ rest \in Seq(Frame) /\ Len(rest) \in Nat /\ Len(out) = Len(rest) + 1
      /\ \A i \in 1 .. Len(rest) : rest[i] = out[i + 1] /\ i + 1 \in 1 .. Len(out)
      /\ 1 \in 1 .. Len(out) /\ Head(out) = out[1]
  BY <1>1
<1> HIDE DEF rest
<1>5. \A i \in 1 .. Len(rest) : rest[i].pid = b /\ rest[i].kind # "ready"
  <2> TAKE i \in 1 .. Len(rest)
  <2>1. i + 1 # 1
    BY <1>4
  <2> QED BY <1>2, <1>4, <2>1
<1>6. ~Greeting(b)'
  <2>1. rest # << >> => 1 \in 1 .. Len(rest) /\ Head(rest) = rest[1]
    BY <1>4
  <2> QED BY <1>1, <1>5, <2>1 DEF Greeting, Greets
<1>7. Greeting(b) <=> Head(out).kind = "ready"
  BY <1>1 DEF Greeting, Greets, out
<1>8. ~Fresh(b)'
  BY <1>1, <1>2, <1>6 DEF Fresh
<1>9. /\ Underway(b) \in Nat /\ Underway(b)' \in Nat
      /\ Underway(b) = Underway(b)' + IF Greeting(b) THEN 0 ELSE 1
  <2> DEFINE n == Len(broker[b].in)
  <2>1. Counted(b) /\ Counted(b)'
    BY <1>1, LoadsOf
  <2>2. CASE broker[b].st = "gone"
    <3>1. Underway(b)' = Len(rest)
      BY <1>1, <1>6, <2>1, <2>2 DEF Counted
    <3>2. (Greeting(b) => Underway(b) = Len(out) - 1) /\ (~Greeting(b) => Underway(b) = Len(out))
      BY <2>1, <2>2 DEF Counted, out
    <3> QED BY <1>4, <3>1, <3>2
  <2>3. CASE broker[b].st # "gone"
    <3>1. Underway(b)' = n + Len(rest) /\ n \in Nat
      BY <1>1, <1>6, <2>1, <2>3 DEF Counted
    <3>2. (Greeting(b) => Underway(b) = n + (Len(out) - 1)) /\ (~Greeting(b)
           => Underway(b) = n + Len(out))
      BY <2>1, <2>3 DEF Counted, out
    <3> HIDE DEF n
    <3>3. CASE Greeting(b)
      BY <1>4, <3>1, <3>2, <3>3
    <3>4. CASE ~Greeting(b)
      BY <1>4, <3>1, <3>2, <3>4
    <3> QED BY <3>3, <3>4
  <2> QED BY <2>2, <2>3
<1> QED BY <1>1, <1>2, <1>4, <1>5, <1>6, <1>7, <1>8, <1>9 DEF out

\* The step of a reader: a ready frame takes nothing off the way, an answer leaves the way free.
LEMMA TakePipes ==
  ASSUME OwnInv, TypeInv', NEW t \in Threads, \A u \in Threads \ {t} : call'[u] = call[u],
         NEW b \in Unread, TakeFrame(b), proc' = proc,
         \A a \in Brokers : Known(a)' => Known(a) \/ (a = b /\ Greeting(b) /\ ~User(t, b)),
         \A a \in Brokers : ~User(t, a)',
         \A a \in Brokers \ {b} : proc = a /\ User(t, a) => Underway(a) = 0
  PROVE  /\ \A a \in Brokers : Pipes(a)'
         /\ \A a \in Brokers : broker[a].st # "free" => broker'[a].st # "free"
<1>1. /\ b \in Brokers
      /\ \A a \in Brokers :
           /\ broker'[a].st = broker[a].st /\ broker'[a].in = broker[a].in
           /\ broker'[a].eof = broker[a].eof /\ (a # b => broker'[a].out = broker[a].out)
  BY TakeIs DEF OwnInv
<1>2. ASSUME NEW a \in Brokers \ {b} PROVE Pipes(a)'
  BY <1>1, PipesStay
<1>3. Pipes(b)'
  <2>1. Pipes(b)
    BY <1>1 DEF OwnInv
  <2>2. \A u \in Threads : User(u, b)' => User(u, b) /\ u # t /\ \A x : Mine(u, x)' <=> Mine(u, x)
    BY <1>1 DEF User, Mine
  <2>3. \A u \in Threads : User(u, b) => User(u, b)' \/ u = t
    BY DEF User
  <2>4. Fits(b)'
    <3> SUFFICES ASSUME Known(b)' PROVE Fits(b)'
      BY Rest DEF Fits
    <3>1. Fresh(b) \/ Known(b)
      BY <1>1 DEF Fresh
    <3>2. Known(b) => ~Greeting(b)
      BY <2>1, Rest DEF Pipes
    <3>3. ASSUME proc' = b, \A u \in Threads : ~User(u, b)' PROVE Underway(b)' = 0
      <4>1. CASE User(t, b)
        <5>1. ~Greeting(b)
          BY <1>1, <3>2, <4>1
        <5>2. Underway(b) <= 1
          BY <2>1, <3>1, <4>1 DEF Pipes, Fits
        <5> QED BY <5>1, <5>2, Rest
      <4>2. CASE ~User(t, b)
        <5>1. Underway(b) = 0
          BY <2>1, <2>3, <3>1, <3>3, <4>2 DEF Pipes, Fits
        <5> QED BY <5>1, Rest
      <4> QED BY <4>1, <4>2
    <3>4. ASSUME NEW u \in Threads, User(u, b)'
          PROVE  /\ Underway(b)' <= 1
                 /\ broker'[b].st # "gone" => \A i \in 1 .. Len(broker'[b].in) : Mine(u,
                      broker[b].in[i])'
                 /\ \A i \in 1 .. Len(broker'[b].out) :
                      broker'[b].out[i].kind # "ready" => Mine(u, broker[b].out[i])'
      <4>1. User(u, b) /\ \A x : Mine(u, x)' <=> Mine(u, x)
        BY <2>2, <3>4
      <4>2. /\ Underway(b) <= 1
            /\ broker[b].st # "gone" => \A i \in 1 .. Len(broker[b].in) : Mine(u, broker[b].in[i])
            /\ \A i \in 1 .. Len(broker[b].out) :
                 broker[b].out[i].kind # "ready" => Mine(u, broker[b].out[i])
        BY <2>1, <3>1, <4>1 DEF Pipes, Fits
      <4>3. Underway(b)' <= 1
        BY <4>2, Rest
      <4>4. broker'[b].st # "gone" => \A i \in 1 .. Len(broker'[b].in) : Mine(u, broker[b].in[i])'
        BY <1>1, <4>1, <4>2
      <4>5. \A i \in 1 .. Len(broker'[b].out) : Mine(u, broker[b].out[i])'
        <5> TAKE i \in 1 .. Len(broker'[b].out)
        <5>1. /\ broker'[b].out[i] = broker[b].out[i + 1] /\ i + 1 \in 1 .. Len(broker[b].out)
              /\ broker'[b].out[i].kind # "ready"
          BY Rest
        <5>2. Mine(u, broker[b].out[i + 1])
          BY <4>2, <5>1
        <5> QED BY <4>1, <5>1, <5>2 DEF Mine
      <4> QED BY <4>3, <4>4, <4>5
    <3> QED BY <3>3, <3>4 DEF Fits
  <2>5. broker'[b].st \notin {"free", "auth"} /\ (proc' = b => ~broker'[b].eof)
    BY <1>1, <2>1, Rest DEF Pipes
  <2>6. \A i \in 1 .. Len(broker'[b].out) : broker'[b].out[i].pid = b
         /\ broker'[b].out[i].kind # "ready"
    BY Rest
  <2> QED BY <2>4, <2>5, <2>6 DEF Pipes
<1> QED BY <1>1, <1>2, <1>3

\* A reader of b has written to b, or waits for its ready frame.
LEMMA ReadersOf ==
  ASSUME OwnInv, NEW b \in Unread, TakeFrame(b), NEW t \in Threads, call[t].pc = "wait"
  PROVE  \/ call[t].at = b
         \/ ~Known(b) /\ proc \in {None, b}
<1>1. PICK u \in Threads : call[u].pc \in {"greet", "wait"} /\ call[u].at = b
  BY TakeIs DEF OwnInv
<1>2. CASE call[u].pc = "wait"
  <2>1. lock = u /\ lock = t
    BY <1>2 DEF OwnInv, TypeInv, Shape, ShapeOf, Exchanging
  <2> QED BY <1>1, <2>1
<1>3. CASE call[u].pc = "greet"
  <2>1. Opener(u)
    BY DEF OwnInv
  <2> QED BY <1>1, <1>3, <2>1 DEF Opener
<1> QED BY <1>1, <1>2, <1>3

\* The ready frame of a new process is taken: it becomes known, with nothing underway.
LEMMA GreetOwn ==
  ASSUME OwnInv, TypeInv', OneOpener, NEW t \in callers, Greet(t)
  PROVE  OwnInv'
<1>1. /\ t \in Threads /\ call[t] \in Call /\ TypeInv /\ Opener(t) /\ call[t].pc = "greet"
      /\ call[t].op = "open" /\ ready' = ready
  BY CallersFinite DEF OwnInv, TypeInv, Greet, At, Shape, ShapeOf, Opening
<1>2. CASE TransportClose /\ Goto(t, "idle")
  BY <1>1, <1>2, RaisingSteps
<1>3. ASSUME NEW b \in Unread, TakeFrame(b), proc' = proc,
             Put(t, [call[t] EXCEPT !.pc = IF Head(broker[b].out).kind = "ready" THEN "adopt" ELSE "idle",
                                   !.at = Head(broker[b].out).pid])
      PROVE  OwnInv'
  <2> DEFINE pc == IF Head(broker[b].out).kind = "ready" THEN "adopt" ELSE "idle"
             at == Head(broker[b].out).pid
             c == [call[t] EXCEPT !.pc = pc, !.at = at]
  <2>1. /\ b \in Brokers /\ at = b /\ pc \in {"adopt", "idle"} /\ (pc = "adopt" <=> Greeting(b))
    BY <1>3, Rest
  <2> HIDE DEF pc, at
  <2>2. c.pc = pc /\ c.at = b /\ c.own = call[t].own /\ c.op = "open"
    BY <1>1, <2>1 DEF Call
  <2>3. call'[t] = c /\ \A u \in Threads \ {t} : call'[u] = call[u]
    BY <1>1, <1>3 DEF Put, TypeInv, pc, at
  <2> HIDE DEF c
  <2>4. \A a \in Brokers : ~User(t, a) /\ ~User(t, a)'
    BY <1>1, <2>1, <2>2, <2>3 DEF User
  <2>5. ASSUME NEW a \in Brokers, Known(a)' PROVE Known(a) \/ (a = b /\ Greeting(b) /\ ~User(t, b))
    <3>1. CASE ready' = a
      BY <1>1, <3>1 DEF Known
    <3>2. ASSUME NEW u \in Threads, call'[u].own = a \/ (call'[u].pc = "adopt" /\ call'[u].at = a)
          PROVE  Known(a) \/ (a = b /\ Greeting(b))
      BY <2>1, <2>2, <2>3, <3>2 DEF Known
    <3> QED BY <2>1, <2>4, <2>5, <3>1, <3>2 DEF Known
  <2>6. /\ \A a \in Brokers : Pipes(a)'
        /\ \A a \in Brokers : broker[a].st # "free" => broker'[a].st # "free"
    BY <1>1, <1>3, <2>3, <2>4, <2>5, TakePipes
  <2>7. \A u \in Threads \ {t} : Opener(u)' /\ Answered(u)'
    BY <1>1, <2>3, <2>6, OthersOpen DEF Opening
  <2>8. Opener(t)' /\ Answered(t)'
    BY <1>1, <2>1, <2>2, <2>3 DEF Opener, Answered
  <2> QED BY <2>6, <2>7, <2>8 DEF OwnInv
<1> QED BY <1>2, <1>3 DEF Greet

\* An accepted answer names the broker the exchange expects, which nobody greets: it was
\* read where the request was written, and the broker had this request only.
LEMMA ReceiveOwn ==
  ASSUME OwnInv, TypeInv', OneOpener, NEW t \in callers, Receive(t)
  PROVE  OwnInv'
<1>1. /\ t \in Threads /\ call[t] \in Call /\ TypeInv /\ Answered(t) /\ call[t].pc = "wait"
           /\ ready' = ready
  BY CallersFinite DEF OwnInv, TypeInv, Receive, At
<1>2. CASE Raise(t) /\ (TransportClose \/ (Exhausted(call[t].at) /\ UNCHANGED <<proc, broker>>))
  <2>1. TransportClose => proc' = None
    BY DEF TransportClose
  <2> QED BY <1>1, <1>2, <2>1, RaisingSteps
<1>3. ASSUME NEW b \in Unread, TakeFrame(b), Accept(t, Head(broker[b].out)), proc' = proc
      PROVE  OwnInv'
  <2> DEFINE f == Head(broker[b].out)
             d == [call[t] EXCEPT !.pc = IF call[t].op = "close" THEN "closing" ELSE "idle",
                     !.ok = TRUE, !.answer = f.tag]
             fine == f.kind # "ready" /\ f.pid = call[t].own
  <2>1. (fine /\ Put(t, d)) \/ Put(t, Raised(t))
    BY <1>3 DEF Accept, ValidFrame, Raise, Raised, Goto
  <2>2. PICK c : Put(t, c) /\ ((fine /\ c = d) \/ c = Raised(t))
    BY <2>1
  <2>3. /\ c.pc \in {"closing", "idle"} /\ c.own = call[t].own /\ c.n = call[t].n
             /\ c.op = call[t].op
        /\ \/ c.answer = call[t].answer /\ c.ok = call[t].ok
           \/ fine /\ c.answer = f.tag
    <3>1. CASE c = Raised(t)
      <4>1. /\ Raised(t).pc \in {"closing", "idle"} /\ Raised(t).own = call[t].own
            /\ Raised(t).n = call[t].n /\ Raised(t).op = call[t].op
            /\ Raised(t).answer = call[t].answer /\ Raised(t).ok = call[t].ok
        BY <1>1 DEF Raised, Call
      <4> QED BY <3>1, <4>1
    <3>2. CASE fine /\ c = d
      <4>1. d.pc \in {"closing", "idle"} /\ d.own = call[t].own /\ d.n = call[t].n
             /\ d.op = call[t].op
            /\ d.answer = f.tag
        BY <1>1 DEF Call
      <4> QED BY <3>2, <4>1
    <3> QED BY <2>2, <3>1, <3>2
  <2>4. call'[t] = c /\ \A u \in Threads \ {t} : call'[u] = call[u]
    BY <1>1, <2>2 DEF Put, TypeInv
  <2>5. b \in Brokers /\ f.pid = b /\ f = broker[b].out[1] /\ 1 \in 1 .. Len(broker[b].out)
    BY <1>3, Rest
  <2> HIDE DEF f, d
  <2>6. \A a \in Brokers : ~User(t, a)'
    BY <2>3, <2>4 DEF User
  <2>7. \A a \in Brokers : Known(a)' => Known(a)
    BY <1>1, <2>3, <2>4, KnownStays
  <2>8. ASSUME NEW a \in Brokers \ {b}, proc = a, User(t, a) PROVE FALSE
    <3>1. call[t].at = a /\ a # None
      BY <1>1, <2>8, SessionAssumption DEF User
    <3> QED BY <1>1, <1>3, <2>8, <3>1, ReadersOf
  <2>9. /\ \A a \in Brokers : Pipes(a)'
        /\ \A a \in Brokers : broker[a].st # "free" => broker'[a].st # "free"
    BY <1>1, <1>3, <2>4, <2>6, <2>7, <2>8, TakePipes
  <2>10. \A u \in Threads \ {t} : Opener(u)' /\ Answered(u)'
    BY <1>1, <1>3, <2>4, <2>7, <2>9, OthersOpen
  <2>11. Opener(t)'
    BY <2>3, <2>4 DEF Opener
  <2>12. Answered(t)'
    <3>1. ASSUME fine PROVE f.tag = <<t, call[t].n>>
      <4>1. Known(b)
        BY <1>1, <2>5, <3>1 DEF Known
      <4>2. call[t].at = b
        BY <1>1, <1>3, <4>1, ReadersOf
      <4>3. User(t, b) /\ Pipes(b)
        BY <1>1, <2>5, <4>2 DEF User, OwnInv
      <4>4. Mine(t, broker[b].out[1])
        BY <1>1, <2>5, <3>1, <4>1, <4>3 DEF Pipes, Fits
      <4> QED BY <2>5, <4>4 DEF Mine
    <3> QED BY <1>1, <2>3, <2>4, <3>1 DEF Answered
  <2> QED BY <2>9, <2>10, <2>11, <2>12 DEF OwnInv
<1> QED BY <1>2, <1>3 DEF Receive

\* A thread writes with the lock, so that nobody else is about to read the process.
LEMMA SendOwn ==
  ASSUME OwnInv, TypeInv', OneOpener, NEW t \in callers, Send(t)
  PROVE  OwnInv'
<1>1. /\ t \in Threads /\ call[t] \in Call /\ TypeInv /\ Answered(t) /\ call[t].pc = "send"
      /\ ready' = ready /\ proc' = proc /\ lock = t
  BY CallersFinite DEF OwnInv, TypeInv, Send, At, Fields, Shape, ShapeOf, Exchanging
<1>2. CASE Raise(t) /\ UNCHANGED broker
  BY <1>1, <1>2, RaisingSteps
<1>3. ASSUME Write(t) PROVE OwnInv'
  <2> DEFINE c == [call[t] EXCEPT !.pc = "sent"]
  <2>1. /\ c.pc = "sent" /\ c.own = call[t].own /\ c.n = call[t].n /\ c.op = call[t].op
        /\ c.answer = call[t].answer /\ c.ok = call[t].ok
    BY <1>1 DEF Call
  <2>2. call'[t] = c /\ \A u \in Threads \ {t} : call'[u] = call[u]
    BY <1>1, <1>3 DEF Write, Goto, Put, TypeInv
  <2> HIDE DEF c
  <2>3. PICK b \in Brokers : b = proc
    BY <1>1, <1>3, WriteIs
  <2>0. Counted(b) /\ Counted(b)'
    BY LoadsOf
  <2>4. /\ broker[b].st # "gone" /\ ~broker[b].eof /\ broker'[b].in = Append(broker[b].in,
             RequestOf(t))
        /\ \A a \in Brokers :
             /\ broker'[a].st = broker[a].st /\ broker'[a].out = broker[a].out
             /\ broker'[a].eof = broker[a].eof /\ (a # b => broker'[a].in = broker[a].in)
    BY <1>1, <1>3, <2>3, WriteIs
  <2>5. \A a \in Brokers : Known(a)' => Known(a)
    BY <1>1, <2>1, <2>2, KnownStays
  <2>6. ASSUME NEW a \in Brokers \ {b} PROVE Pipes(a)'
    <3>1. ~User(t, a)' /\ ~User(t, a)
      BY <1>1, <2>1, <2>2, <2>3, <2>6 DEF User
    <3> QED BY <1>1, <2>2, <2>4, <2>5, <2>6, <3>1, PipesStay
  <2>7. Pipes(b)'
    <3>1. Pipes(b) /\ broker[b] \in Broker
      BY <1>1 DEF OwnInv, TypeInv
    <3>2. \A u \in Threads : ~User(u, b)
      BY <1>1 DEF User, TypeInv, Shape, ShapeOf, Exchanging
    <3>3. \A u \in Threads : User(u, b)' => u = t
      BY <1>1, <2>2, <3>2 DEF User
    <3>4. Fresh(b)' = Fresh(b) /\ Greeting(b)' = Greeting(b)
      BY <2>4 DEF Fresh, Greeting, Greets
    <3>5. Fits(b)'
      <4> SUFFICES ASSUME Fresh(b)' \/ Known(b)' PROVE Fits(b)'
        BY DEF Fits
      <4>1. Underway(b) = 0
        BY <2>3, <2>5, <3>1, <3>2, <3>4 DEF Pipes, Fits
      <4>2. /\ broker[b].in \in Seq(Request) /\ broker[b].out \in Seq(Frame)
            /\ Len(broker[b].in) \in Nat /\ Len(broker[b].out) \in Nat
        BY <3>1 DEF Broker
      <4> DEFINE n == Len(broker[b].in)
                 m == Len(broker[b].out)
      <4>3. n = 0 /\ (Greeting(b) => m = 1) /\ (~Greeting(b) => m = 0)
        <5>1. /\ n \in Nat /\ m \in Nat /\ (Greeting(b) => m > 0 /\ 0 = n + (m - 1))
              /\ (~Greeting(b) => 0 = n + m)
          BY <2>4, <2>0, <4>1 DEF Counted
        <5> HIDE DEF n, m
        <5>2. CASE Greeting(b)
          BY <5>1, <5>2
        <5>3. CASE ~Greeting(b)
          BY <5>1, <5>3
        <5> QED BY <5>2, <5>3
      <4>4. Len(broker'[b].in) = 1 /\ broker'[b].in[1] = RequestOf(t)
        BY <2>4, <4>2, <4>3
      <4>5. Underway(b)' = 1
        <5>1. Len(broker'[b].out) = m /\ broker'[b].st # "gone"
          BY <2>4
        <5>2. CASE Greeting(b)
          <6>1. Underway(b)' = 1 + (1 - 1)
            BY <2>0, <3>4, <4>3, <4>4, <5>1, <5>2 DEF Counted
          <6> QED BY <6>1
        <5>3. CASE ~Greeting(b)
          <6>1. Underway(b)' = 1 + 0
            BY <2>0, <3>4, <4>3, <4>4, <5>1, <5>3 DEF Counted
          <6> QED BY <6>1
        <5> QED BY <5>2, <5>3
      <4>6. Mine(t, broker[b].in[1])'
        BY <2>1, <2>2, <4>4 DEF Mine, RequestOf
      <4>7. \A i \in 1 .. Len(broker'[b].in) : Mine(t, broker[b].in[i])'
        BY <4>4, <4>6
      <4>8. \A i \in 1 .. Len(broker'[b].out) : broker'[b].out[i].kind = "ready"
        <5>1. \A i \in 1 .. m : Greeting(b) /\ i = 1
          <6> HIDE DEF n, m
          <6>1. CASE Greeting(b)
            BY <4>3, <6>1
          <6>2. CASE ~Greeting(b)
            BY <4>3, <6>2
          <6> QED BY <6>1, <6>2
        <5>2. Greeting(b) => broker[b].out[1].kind = "ready"
          BY <3>1, <2>0 DEF Counted
        <5> QED BY <2>4, <5>1, <5>2
      <4>9. User(t, b)'
        BY <1>1, <2>1, <2>2, <2>3 DEF User
      <4>10. proc' = b => \E u \in Threads : User(u, b)'
        BY <1>1, <4>9
      <4>11. \A u \in Threads : User(u, b)' =>
               /\ Underway(b)' <= 1
               /\ \A i \in 1 .. Len(broker'[b].in) : Mine(u, broker[b].in[i])'
               /\ \A i \in 1 .. Len(broker'[b].out) : broker'[b].out[i].kind = "ready"
        BY <3>3, <4>5, <4>7, <4>8
      <4> QED BY <4>10, <4>11 DEF Fits
    <3> QED BY <1>1, <2>3, <2>4, <2>5, <3>1, <3>5 DEF Pipes
  <2>8. \A u \in Threads \ {t} : Opener(u)' /\ Answered(u)'
    BY <1>1, <2>2, <2>4, <2>5, OthersOpen
  <2>9. Opener(t)' /\ Answered(t)'
    BY <1>1, <2>1, <2>2 DEF Opener, Answered
  <2> QED BY <2>6, <2>7, <2>8, <2>9 DEF OwnInv
<1> QED BY <1>2, <1>3 DEF Send

\* A broker passes a request on as an answer, in order; one that ends leaves fewer underway.
LEMMA ServedFits ==
  ASSUME OwnInv, TypeInv', NEW b \in Brokers, Process(b)
  PROVE  /\ Greeting(b)' => Greeting(b) \/ broker[b].st = "auth"
         /\ broker'[b].st \notin {"free", "auth"}
         /\ Underway(b) \in Nat /\ Underway(b)' \in Nat /\ Underway(b)' <= Underway(b)
         /\ \A i \in 1 .. Len(broker'[b].out) :
              /\ broker'[b].out[i].pid = b
              /\ broker'[b].out[i].kind = "ready" =>
                   i = 1 /\ (broker[b].st = "auth" \/ (i \in 1 .. Len(broker[b].out)
                        /\ broker[b].out[i].kind = "ready"))
         /\ \A u \in Threads :
              /\ broker[b].st # "gone" => \A i \in 1 .. Len(broker[b].in) : Mine(u, broker[b].in[i])
              /\ \A i \in 1 .. Len(broker[b].out) :
                   broker[b].out[i].kind # "ready" => Mine(u, broker[b].out[i])
              => /\ broker'[b].st # "gone" => \A i \in 1 .. Len(broker'[b].in) : Mine(u,
                      broker'[b].in[i])
                 /\ \A i \in 1 .. Len(broker'[b].out) :
                      broker'[b].out[i].kind # "ready" => Mine(u, broker'[b].out[i])
<1> DEFINE in == broker[b].in
           out == broker[b].out
<1>0. Counted(b) /\ Counted(b)'
  BY LoadsOf
<1>1. /\ Pipes(b) /\ broker[b] \in Broker /\ broker'[b] \in Broker
      /\ in \in Seq(Request) /\ out \in Seq(Frame) /\ Len(in) \in Nat /\ Len(out) \in Nat
      /\ Greeting(b) => Len(out) > 0
  <2>1. Pipes(b) /\ broker[b] \in Broker /\ broker'[b] \in Broker
    BY DEF OwnInv, TypeInv
  <2> QED BY <1>0, <2>1 DEF Counted
<1>2. \A i \in 1 .. Len(out) : out[i].pid = b /\ (out[i].kind = "ready" => i = 1)
  BY <1>1 DEF Pipes
<1>3. CASE /\ broker[b].st = "auth" /\ broker'[b].st = "up" /\ broker'[b].in = in
           /\ broker'[b].out = Say(b, "ready", 0, NoTag)
  <2>1. out = << >>
    BY <1>1, <1>3 DEF Pipes
  <2>2. /\ broker'[b].out = <<[kind |-> "ready", pid |-> b, rid |-> 0, tag |-> NoTag]>>
    BY <1>3, <2>1 DEF Say
  <2>3. Len(broker'[b].out) = 1 /\ broker'[b].out[1].kind = "ready" /\ broker'[b].out[1].pid = b
        /\ Greeting(b)' /\ ~Greeting(b)
    BY <2>1, <2>2 DEF Greeting, Greets
  <2>4. Underway(b)' = Len(in) /\ Underway(b) = Len(in)
    <3>1. ~Greets(broker[b]) /\ Greets(broker'[b]) /\ Len(out) = 0
      BY <2>1, <2>3 DEF Greeting
    <3>2. Underway(b) = Len(in) + Len(out)
      BY <1>1, <1>3, <3>1, Loads DEF Underway
    <3>3. Underway(b)' = Len(in) + (Len(broker'[b].out) - 1)
      BY <1>1, <1>3, <3>1, Loads DEF Underway
    <3> QED BY <1>1, <2>3, <3>1, <3>2, <3>3
  <2>5. \A i \in 1 .. Len(broker'[b].out) : i = 1
    BY <2>3
  <2> HIDE DEF in, out
  <2> QED BY <1>1, <1>3, <2>3, <2>4, <2>5 DEF in, Mine
<1>4. CASE broker[b].st \in {"auth", "up"} /\ broker'[b].st = "gone" /\ broker'[b].in = in
       /\ broker'[b].out = out
  <2>1. Greeting(b)' = Greeting(b)
    BY <1>4 DEF Greeting, Greets
  <2>2. ASSUME Greeting(b) PROVE Underway(b) \in Nat /\ Underway(b)' \in Nat
         /\ Underway(b)' <= Underway(b)
    <3>1. Underway(b)' = Len(out) - 1 /\ Underway(b) = Len(in) + (Len(out) - 1)
      BY <1>1, <1>4, <2>1, <2>2, <1>0 DEF Counted
    <3> HIDE DEF in, out
    <3> QED BY <1>1, <2>2, <3>1
  <2>3. ASSUME ~Greeting(b) PROVE Underway(b) \in Nat /\ Underway(b)' \in Nat
         /\ Underway(b)' <= Underway(b)
    <3>1. Underway(b)' = Len(out) /\ Underway(b) = Len(in) + Len(out)
      BY <1>1, <1>4, <2>1, <2>3, <1>0 DEF Counted
    <3> HIDE DEF in, out
    <3> QED BY <1>1, <2>3, <3>1
  <2>4. Underway(b) \in Nat /\ Underway(b)' \in Nat /\ Underway(b)' <= Underway(b)
    BY <2>2, <2>3
  <2> QED BY <1>2, <1>4, <2>1, <2>4 DEF Mine
<1>5. ASSUME NEW k \in {"done", "refused"}, NEW r, r = Head(in), in # << >>, broker[b].st = "up",
             broker'[b].st \in {"up", "gone"}, broker'[b].in = Tail(in), broker'[b].out = Say(b,
                  k, r.rid, r.tag)
      PROVE  /\ Greeting(b)' => Greeting(b)
             /\ Underway(b) \in Nat /\ Underway(b)' \in Nat /\ Underway(b)' <= Underway(b)
             /\ \A i \in 1 .. Len(broker'[b].out) :
                  \/ i \in 1 .. Len(out) /\ broker'[b].out[i] = out[i]
                  \/ /\ broker'[b].out[i].kind = k /\ broker'[b].out[i].pid = b
                     /\ broker'[b].out[i].tag = in[1].tag /\ 1 \in 1 .. Len(in)
             /\ \A i \in 1 .. Len(broker'[b].in) : broker'[b].in[i] = in[i + 1]
                  /\ i + 1 \in 1 .. Len(in)
  <2> DEFINE f == [kind |-> k, pid |-> b, rid |-> r.rid, tag |-> r.tag]
             rest == Tail(in)
  <2>1. broker'[b].out = Append(out, f)
    BY <1>5 DEF Say
  <2>2. f.kind = k /\ f.pid = b /\ f.tag = r.tag
    OBVIOUS
  <2>3. f \in Frame
    <3>1. r \in Request
      BY <1>1, <1>5
    <3>2. r.rid \in Ids /\ r.tag \in Tags
      BY <3>1 DEF Request
    <3> QED BY <3>2 DEF Frame
  <2> HIDE DEF f
  <2>4. /\ Len(broker'[b].out) = Len(out) + 1 /\ broker'[b].out[Len(out) + 1] = f
        /\ \A i \in 1 .. Len(out) : broker'[b].out[i] = out[i]
    <3> HIDE DEF out
    <3> QED BY <1>1, <2>1, <2>3
  <2>5. /\ Len(in) = Len(rest) + 1 /\ Len(rest) \in Nat /\ r = in[1] /\ 1 \in 1 .. Len(in)
        /\ \A i \in 1 .. Len(rest) : rest[i] = in[i + 1] /\ i + 1 \in 1 .. Len(in)
    <3> HIDE DEF in
    <3> QED BY <1>1, <1>5
  <2>6. Greeting(b)' = Greeting(b)
    <3>1. CASE out = << >>
      <4>1. Head(broker'[b].out) = f
        BY <2>1, <3>1
      <4> QED BY <2>2, <3>1, <4>1 DEF Greeting, Greets
    <3>2. CASE out # << >>
      <4>1. Head(broker'[b].out) = Head(out) /\ broker'[b].out # << >>
        <5> HIDE DEF out
        <5> QED BY <1>1, <2>1, <2>3, <3>2
      <4> QED BY <3>2, <4>1 DEF Greeting, Greets
    <3> QED BY <3>1, <3>2
  <2> HIDE DEF rest
  <2>7. broker'[b].in = rest
    BY <1>5 DEF rest
  <2> DEFINE left == IF broker'[b].st = "gone" THEN 0 ELSE Len(rest)
  <2>8. Underway(b) \in Nat /\ Underway(b)' \in Nat /\ Underway(b)' <= Underway(b)
    <3>0. left \in Nat /\ left <= Len(rest)
      BY <2>5
    <3> HIDE DEF left
    <3>1. CASE Greeting(b)
      <4>1. Underway(b) = Len(in) + (Len(out) - 1)
        BY <1>1, <1>5, <3>1, <1>0 DEF Counted
      <4>2. Underway(b)' = left + (Len(out) + 1 - 1)
        <5>1. CASE broker'[b].st = "gone"
          BY <1>1, <2>4, <2>6, <3>1, <5>1, <1>0 DEF Counted, left
        <5>2. CASE broker'[b].st # "gone"
          BY <1>1, <2>4, <2>6, <2>7, <3>1, <5>2, <1>0 DEF Counted, left
        <5> QED BY <5>1, <5>2
      <4> HIDE DEF in, out
      <4> QED BY <1>1, <2>5, <3>0, <3>1, <4>1, <4>2
    <3>2. CASE ~Greeting(b)
      <4>1. Underway(b) = Len(in) + Len(out)
        BY <1>1, <1>5, <3>2, <1>0 DEF Counted
      <4>2. Underway(b)' = left + (Len(out) + 1)
        <5>1. CASE broker'[b].st = "gone"
          BY <1>1, <2>4, <2>6, <3>2, <5>1, <1>0 DEF Counted, left
        <5>2. CASE broker'[b].st # "gone"
          BY <1>1, <2>4, <2>6, <2>7, <3>2, <5>2, <1>0 DEF Counted, left
        <5> QED BY <5>1, <5>2
      <4> HIDE DEF in, out
      <4> QED BY <1>1, <2>5, <3>0, <3>2, <4>1, <4>2
    <3> QED BY <3>1, <3>2
  <2>9. ASSUME NEW i \in 1 .. Len(broker'[b].out)
        PROVE  \/ i \in 1 .. Len(out) /\ broker'[b].out[i] = out[i]
               \/ i = Len(out) + 1
    BY <1>1, <2>4, <2>9
  <2>10. \A i \in 1 .. Len(broker'[b].in) : broker'[b].in[i] = in[i + 1] /\ i + 1 \in 1 .. Len(in)
    BY <1>5, <2>5 DEF rest
  <2> QED BY <2>2, <2>4, <2>5, <2>6, <2>8, <2>9, <2>10
<1>6. ASSUME NEW k \in {"done", "refused"}, in # << >>, broker[b].st = "up",
             broker'[b].st \in {"up", "gone"}, broker'[b].in = Tail(in),
             broker'[b].out = Say(b, k, Head(in).rid, Head(in).tag)
      PROVE  /\ Greeting(b)' => Greeting(b)
             /\ Underway(b) \in Nat /\ Underway(b)' \in Nat /\ Underway(b)' <= Underway(b)
             /\ \A i \in 1 .. Len(broker'[b].out) :
                  \/ i \in 1 .. Len(out) /\ broker'[b].out[i] = out[i]
                  \/ /\ broker'[b].out[i].kind # "ready" /\ broker'[b].out[i].pid = b
                     /\ broker'[b].out[i].tag = in[1].tag /\ 1 \in 1 .. Len(in)
             /\ \A i \in 1 .. Len(broker'[b].in) : broker'[b].in[i] = in[i + 1]
                  /\ i + 1 \in 1 .. Len(in)
  BY <1>5, <1>6
<1>7. CASE /\ broker[b].st = "up" /\ in # << >> /\ broker'[b].st \in {"up", "gone"}
                /\ broker'[b].in = Tail(in)
           /\ \E k \in {"done", "refused"} : broker'[b].out = Say(b, k, Head(in).rid, Head(in).tag)
  <2>1. /\ Greeting(b)' => Greeting(b)
        /\ Underway(b) \in Nat /\ Underway(b)' \in Nat /\ Underway(b)' <= Underway(b)
        /\ \A i \in 1 .. Len(broker'[b].out) :
             \/ i \in 1 .. Len(out) /\ broker'[b].out[i] = out[i]
             \/ /\ broker'[b].out[i].kind # "ready" /\ broker'[b].out[i].pid = b
                /\ broker'[b].out[i].tag = in[1].tag /\ 1 \in 1 .. Len(in)
        /\ \A i \in 1 .. Len(broker'[b].in) : broker'[b].in[i] = in[i + 1] /\ i + 1 \in 1 .. Len(in)
    BY <1>6, <1>7
  <2>2. broker[b].st # "gone" /\ broker'[b].st \notin {"free", "auth"}
    BY <1>7
  <2> HIDE DEF in, out
  <2>3. \A i \in 1 .. Len(broker'[b].out) :
          /\ broker'[b].out[i].pid = b
          /\ broker'[b].out[i].kind = "ready" =>
               i = 1 /\ i \in 1 .. Len(out) /\ out[i].kind = "ready"
    BY <1>2, <2>1
  <2>4. ASSUME NEW u \in Threads, \A i \in 1 .. Len(in) : Mine(u, in[i]),
               \A i \in 1 .. Len(out) : out[i].kind # "ready" => Mine(u, out[i])
        PROVE  /\ \A i \in 1 .. Len(broker'[b].in) : Mine(u, broker'[b].in[i])
               /\ \A i \in 1 .. Len(broker'[b].out) :
                    broker'[b].out[i].kind # "ready" => Mine(u, broker'[b].out[i])
    <3>1. \A i \in 1 .. Len(broker'[b].in) : Mine(u, broker'[b].in[i])
      BY <2>1, <2>4
    <3>2. ASSUME NEW i \in 1 .. Len(broker'[b].out), broker'[b].out[i].kind # "ready"
          PROVE  Mine(u, broker'[b].out[i])
      <4>1. CASE i \in 1 .. Len(out) /\ broker'[b].out[i] = out[i]
        BY <2>4, <3>2, <4>1
      <4>2. CASE broker'[b].out[i].tag = in[1].tag /\ 1 \in 1 .. Len(in)
        <5>1. Mine(u, in[1])
          BY <2>4, <4>2
        <5> QED BY <4>2, <5>1 DEF Mine
      <4> QED BY <2>1, <4>1, <4>2
    <3> QED BY <3>1, <3>2
  <2> QED BY <2>1, <2>2, <2>3, <2>4 DEF in, out
<1>8. TypeInv
  BY DEF OwnInv
<1>9. /\ Head(in).rid > broker[b].last \/ ~(Head(in).rid > broker[b].last)
  OBVIOUS
<1> QED BY <1>3, <1>4, <1>7, <1>8, ProcessIs

\* A broker answers what it was asked; nobody is kept from anything by it.
LEMMA ProcessOwn ==
  ASSUME OwnInv, TypeInv', NEW b \in Brokers, Process(b)
  PROVE  OwnInv'
<1>1. TypeInv /\ UNCHANGED <<callers, ready, rid, proc, lock, call>>
      /\ (\A a \in Brokers \ {b} : broker'[a] = broker[a]) /\ broker'[b].eof = broker[b].eof
  BY ProcessIs DEF OwnInv, Fields
<1>2. \A a : (Known(a)' <=> Known(a)) /\ \A t \in Threads : User(t, a)' <=> User(t, a)
  BY <1>1 DEF Known, User
<1>3. \A t, x : Mine(t, x)' <=> Mine(t, x)
  BY <1>1 DEF Mine
<1>4. PICK t \in Threads : TRUE
  BY <1>1, CallersFinite, FS_EmptySet DEF TypeInv
<1>5. ASSUME NEW a \in Brokers \ {b} PROVE Pipes(a)'
  BY <1>1, <1>2, <1>4, <1>5, PipesStay
<1>6. Pipes(b)'
  <2>1. Pipes(b)
    BY DEF OwnInv
  <2>2. Fits(b)'
    <3> SUFFICES ASSUME Fresh(b)' \/ Known(b)' PROVE Fits(b)'
      BY DEF Fits
    <3>1. Fresh(b) \/ Known(b)
      BY <1>2, ServedFits DEF Fresh
    <3>2. Underway(b) = 0 => Underway(b)' = 0
      BY ServedFits
    <3>3. Underway(b) <= 1 => Underway(b)' <= 1
      BY ServedFits
    <3>4. ASSUME NEW u \in Threads, User(u, b)
          PROVE  /\ Underway(b)' <= 1
                 /\ broker'[b].st # "gone" => \A i \in 1 .. Len(broker'[b].in) : Mine(u,
                      broker[b].in[i])'
                 /\ \A i \in 1 .. Len(broker'[b].out) :
                      broker'[b].out[i].kind # "ready" => Mine(u, broker[b].out[i])'
      <4>1. /\ Underway(b) <= 1
            /\ broker[b].st # "gone" => \A i \in 1 .. Len(broker[b].in) : Mine(u, broker[b].in[i])
            /\ \A i \in 1 .. Len(broker[b].out) :
                 broker[b].out[i].kind # "ready" => Mine(u, broker[b].out[i])
        BY <2>1, <3>1, <3>4 DEF Pipes, Fits
      <4>2. /\ broker'[b].st # "gone" => \A i \in 1 .. Len(broker'[b].in) : Mine(u,
                 broker'[b].in[i])
            /\ \A i \in 1 .. Len(broker'[b].out) :
                 broker'[b].out[i].kind # "ready" => Mine(u, broker'[b].out[i])
        BY <4>1, ServedFits
      <4> QED BY <1>1, <3>3, <4>1, <4>2 DEF Mine
    <3> QED BY <1>1, <1>2, <2>1, <3>1, <3>2, <3>4 DEF Pipes, Fits
  <2>3. \A i \in 1 .. Len(broker'[b].out) :
          broker'[b].out[i].pid = b /\ (broker'[b].out[i].kind = "ready" => i = 1 /\ ~Known(b)')
    BY <1>2, <2>1, ServedFits DEF Pipes
  <2>4. broker'[b].st \notin {"free", "auth"}
    BY ServedFits
  <2> QED BY <1>1, <2>1, <2>2, <2>3, <2>4 DEF Pipes
<1>7. ASSUME NEW u \in Threads PROVE Opener(u)' /\ Answered(u)'
  <2>1. Opener(u) /\ Answered(u) /\ Shape(u)
    BY <1>1 DEF OwnInv, TypeInv
  <2>2. call[u].pc \in {"wait", "greet"} => call[u].at \in Brokers
    BY <2>1 DEF Shape, ShapeOf
  <2>3. call[u].pc \in {"wait", "greet"} => broker'[call[u].at].st # "free"
    BY <1>1, <2>1, <2>2, ServedFits DEF Opener
  <2>4. Opener(u)'
    <3>1. call[u].pc = "started" /\ proc # None => ~Known(proc)'
      BY <1>1, <2>1 DEF Opener, Known
    <3>2. call[u].pc = "greet" => ~Known(call[u].at)'
      BY <1>1, <2>1 DEF Opener, Known
    <3>3. Known(proc)' = (Known(proc))' /\ call' = call /\ ready' = ready /\ proc' = proc
      BY <1>1
    <3> QED BY <2>1, <2>3, <3>1, <3>2, <3>3 DEF Opener
  <2>5. Answered(u)'
    BY <1>1, <2>1 DEF Answered
  <2> QED BY <2>4, <2>5
<1> QED BY <1>5, <1>6, <1>7 DEF OwnInv

\* The invariant holds at first,
LEMMA OwnInit ==
  ASSUME Init
  PROVE  OwnInv
<1>1. TypeInv /\ ready = None /\ proc = None
  BY TypeInit DEF Init
<1>2. \A t \in Threads : call[t] = NoCall
  BY DEF Init
<1>3. \A b \in Brokers : broker[b] = NoBroker
  BY DEF Init
<1>4. \A b \in Brokers : ~Known(b)
  BY <1>1, <1>2, SessionAssumption DEF Known, NoCall
<1>5. ASSUME NEW b \in Brokers PROVE Pipes(b)
  <2>1. /\ broker[b].st = "free" /\ broker[b].in = << >> /\ broker[b].out = << >> /\ ~broker[b].eof
    BY <1>3 DEF NoBroker
  <2>2. ~Fresh(b)
    BY <2>1 DEF Fresh, Greeting, Greets
  <2> QED BY <1>1, <1>4, <2>1, <2>2, SessionAssumption DEF Pipes, Fits
<1>6. ASSUME NEW t \in Threads PROVE Opener(t) /\ Answered(t)
  BY <1>2 DEF Opener, Answered, NoCall
<1> QED BY <1>1, <1>5, <1>6 DEF OwnInv

\* and every step of a client that one thread opens keeps it.
LEMMA OwnNext ==
  ASSUME OwnInv, OneOpener, [Next]_vars
  PROVE  OwnInv'
<1>1. TypeInv'
  BY TypeNext DEF OwnInv
<1>2. ASSUME NEW t \in callers, Begin(t) \/ Step(t) PROVE OwnInv'
  BY <1>1, <1>2, QuietSteps, SpawnOwn, ListenOwn, GreetOwn, SendOwn, ReceiveOwn DEF Step
<1>3. ASSUME NEW b \in Brokers, Authorise(b) \/ Serve(b) \/ EndOfInput(b) \/ Exit(b) PROVE OwnInv'
  BY <1>1, <1>3, ProcessOwn DEF Process
<1>4. CASE UNCHANGED vars
  <2>1. (\A b \in Brokers : Pipes(b)') /\ \A t \in Threads : Opener(t)' /\ Answered(t)'
    BY <1>4
       DEF OwnInv, vars, Fields, Pipes, Opener, Answered, Known, Fits, Fresh, Greeting,
           Underway, User, Mine
  <2> QED BY <1>1, <2>1 DEF OwnInv
<1> QED BY <1>2, <1>3, <1>4 DEF Next

\* A call returns the answer to its own request, whatever other threads read, write and
\* close in the meantime, if no two threads are in open() at once. The request lock alone
\* does not give that: it is not held there.
THEOREM AnswersAreOwn == Spec /\ []OneOpener => []AnswerIsOwn
<1>1. OwnInv => AnswerIsOwn
  BY DEF OwnInv, Answered, AnswerIsOwn
<1> QED BY <1>1, OwnInit, OwnNext, PTL DEF Spec

-----------------------------------------------------------------------------
(***************************************************************************)
(* A client that one thread uses.                                           *)
(***************************************************************************)
\* A process that was started and not yet adopted, or adopted just now, was asked nothing.
New == {"started", "greet", "adopt", "reset"}

\* The fields of the client.
Sole(t) ==
  LET c == call[t] IN
  /\ ready # None => proc \in {ready, None}
  /\ ready = None /\ c.pc \notin {"clear", "started", "greet", "adopt", "drain"} => proc = None
  /\ c.pc \in New => proc # None
  /\ c.pc \in {"greet", "adopt"} => c.at = proc
  /\ c.pc = "reset" => ready = proc
  /\ c.pc = "send" => c.rid = rid
  /\ c.pc \in {"queue", "send"} => ready # None

\* No request of the process has an id above the client's; open() lowers that one only
\* between two processes.
Level(t) ==
  proc # None /\ call[t].pc # "clear" =>
    LET k == broker[proc] IN
    /\ IF call[t].pc \in New
       THEN k.last = 0 /\ k.in = << >> /\ \A i \in 1 .. Len(k.out) : k.out[i].kind = "ready"
       ELSE k.last <= rid
    /\ call[t].pc = "send" => k.last < rid
    /\ \A i \in 1 .. Len(k.in) : k.in[i].rid <= rid

\* A broker has one request at most, with an id it has not seen.
Queue(b) ==
  LET k == broker[b] IN
  /\ k.st \in {"free", "auth"} => k.last = 0
  /\ Len(k.in) <= 1 /\ \A i \in 1 .. Len(k.in) : k.in[i].rid > k.last

\* The invariant of this part,
AloneInv ==
  /\ OwnInv
  /\ \A t \in callers : Sole(t) /\ Level(t)
  /\ \A b \in Brokers : Queue(b)

\* as an invariant of any client.
NextInv == TypeInv /\ (SoleCaller => AloneInv)

\* One thread opens the client, and is in the only call.
LEMMA OneCaller ==
  ASSUME TypeInv, SoleCaller
  PROVE  OneOpener /\ \E t \in Threads : callers = {t} /\ \A u \in Threads \ {t} : call[u] = NoCall
<1>1. IsFiniteSet(callers) /\ Cardinality(callers) = 1 /\ callers \subseteq Threads
  BY CallersFinite DEF SoleCaller
<1>2. PICK t : callers = {t}
  BY <1>1, FS_Singleton
<1>3. t \in Threads /\ \A u \in Threads \ {t} : call[u] = NoCall
  BY <1>1, <1>2 DEF TypeInv, Shape, ShapeOf
<1>4. OneOpener
  BY <1>3 DEF OneOpener, NoCall, Opening
<1> QED BY <1>2, <1>3, <1>4

\* The level of a process that is neither asked nor serving.
LEMMA LevelStays ==
  ASSUME AloneInv, TypeInv', NEW t \in callers, NEW c, call'[t] = c, proc' \in {proc, None},
         \A b \in Brokers : broker'[b].last = broker[b].last /\ broker'[b].in = broker[b].in,
         call[t].pc # "clear" \/ proc' = None,
         \/ rid' = rid
         \/ rid' = rid + 1
         \/ rid' = 0 /\ (call[t].pc = "reset" \/ c.pc = "clear"),
         c.pc \in New => /\ call[t].pc \in New
                         /\ \A b \in Brokers :
                              broker'[b].out = broker[b].out
                              \/ \A i \in 1 .. Len(broker'[b].out) :
                                   broker'[b].out[i].kind = "ready",
         c.pc = "send" => rid' = rid + 1 \/ (call[t].pc = "send" /\ rid' = rid)
  PROVE  Level(t)'
<1> SUFFICES ASSUME proc' # None, c.pc # "clear" PROVE Level(t)'
  BY DEF Level
<1>1. PICK b \in Brokers : b = proc /\ proc' = b /\ b # None /\ call[t].pc # "clear"
  BY SessionAssumption DEF AloneInv, OwnInv, TypeInv
<1>2. broker[b].last \in Nat /\ rid \in Nat /\ broker[b].in \in Seq(Request)
      /\ \A i \in 1 .. Len(broker[b].in) : broker[b].in[i].rid \in Nat
  <2>1. broker[b] \in Broker /\ rid \in Nat
    BY DEF AloneInv, OwnInv, TypeInv
  <2>2. broker[b].in \in Seq(Request) /\ broker[b].last \in Nat
    BY <2>1 DEF Broker, Ids
  <2>3. \A i \in 1 .. Len(broker[b].in) : broker[b].in[i] \in Request
    BY <2>2
  <2>4. \A x \in Request : x.rid \in Nat
    BY DEF Request, Ids
  <2> QED BY <2>1, <2>2, <2>3, <2>4
<1> DEFINE in == broker[b].in
           last == broker[b].last
<1>3. /\ call[t].pc \in New => last = 0 /\ in = << >> /\ \A i \in 1 .. Len(broker[b].out) :
           broker[b].out[i].kind = "ready"
      /\ call[t].pc \notin New => last <= rid
      /\ call[t].pc = "send" => last < rid
      /\ \A i \in 1 .. Len(in) : in[i].rid <= rid
  BY <1>1 DEF AloneInv, Level
<1>4. broker'[b].in = in /\ broker'[b].last = last
  OBVIOUS
<1>5. "reset" \in New /\ "send" \notin New
  BY DEF New
<1>6. Len(in) \in Nat
  BY <1>2
<1>7. call[t].pc \in New => Len(in) = 0
  BY <1>3
<1> HIDE DEF in, last
<1>8. last \in Nat /\ \A i \in 1 .. Len(in) : in[i].rid \in Nat
  BY <1>2 DEF in, last
<1>9. \A i \in 1 .. Len(in) : in[i].rid <= rid'
  <2> TAKE i \in 1 .. Len(in)
  <2>1. call[t].pc \notin New
    BY <1>6, <1>7
  <2>2. rid' = rid \/ rid' = rid + 1
    BY <1>5, <2>1
  <2> QED BY <1>2, <1>3, <1>8, <2>2
<1>10. last <= rid'
  <2>1. CASE call[t].pc \in New
    <3>1. rid' \in Nat
      BY DEF TypeInv
    <3> QED BY <1>3, <2>1, <3>1
  <2>2. CASE call[t].pc \notin New
    <3>1. rid' = rid \/ rid' = rid + 1
      BY <1>5, <2>2
    <3> QED BY <1>2, <1>3, <1>8, <2>2, <3>1
  <2> QED BY <2>1, <2>2
<1>11. c.pc = "send" => last < rid'
  <2> SUFFICES ASSUME c.pc = "send" PROVE last < rid'
    OBVIOUS
  <2>1. CASE rid' = rid + 1
    <3>1. last <= rid
      BY <1>2, <1>3, <1>8
    <3> QED BY <1>2, <1>8, <2>1, <3>1
  <2>2. CASE call[t].pc = "send" /\ rid' = rid
    BY <1>3, <2>2
  <2> QED BY <2>1, <2>2
<1>12. c.pc \in New => last = 0 /\ in = << >> /\ \A i \in 1 .. Len(broker'[b].out) :
       broker'[b].out[i].kind = "ready"
  BY <1>3
<1> QED BY <1>1, <1>4, <1>9, <1>10, <1>11, <1>12 DEF Level

\* What the thread need not show of a step that neither writes nor starts a process.
LEMMA AloneStays ==
  ASSUME AloneInv, OwnInv', NEW t \in callers, callers = {t}, callers' = callers,
         \A b \in Brokers : /\ broker'[b].st = broker[b].st /\ broker'[b].in = broker[b].in
                            /\ broker'[b].last = broker[b].last,
         Sole(t)', Level(t)'
  PROVE  AloneInv'
<1>1. \A b \in Brokers : Queue(b)'
  BY DEF AloneInv, Queue
<1> QED BY <1>1 DEF AloneInv

\* Steps of the thread by the call they put.
LEMMA AloneSteps ==
  ASSUME AloneInv, OwnInv', NEW t \in callers, callers = {t},
         \/ Begin(t) \/ OpenLook(t) \/ OpenDrop(t) \/ OpenClear(t) \/ Start(t) \/ Listen(t)
         \/ Greet(t) \/ Adopt(t) \/ Reset(t) \/ Look(t) \/ Acquire(t)
         \/ Receive(t) \/ Closing(t) \/ Drain(t)
         \/ Goto(t, "idle") /\ call[t].pc = "spawn" /\ UNCHANGED <<callers, Fields, lock, broker>>
         \/ Raise(t) /\ call[t].pc = "send" /\ UNCHANGED <<callers, Fields, broker>>
  PROVE  AloneInv'
<1>1. /\ t \in Threads /\ call[t] \in Call /\ TypeInv /\ Opener(t) /\ Shape(t) /\ Sole(t)
      /\ ready \in Brokers \cup {None} /\ proc \in Brokers \cup {None} /\ None \notin Brokers
  BY CallersFinite, SessionAssumption DEF AloneInv, OwnInv, TypeInv
<1>2. callers' = callers
  BY DEF Begin, OpenLook, OpenDrop, OpenClear, Start, Listen, Greet, Adopt, Reset, Look, Acquire,
         Receive, Closing, Drain
<1>3. /\ call[t].pc \in Opening \cup {"open"} => call[t].op = "open"
      /\ call[t].pc \in {"wait", "sent", "send", "look"} => call[t].op # "open"
  BY <1>1 DEF Shape, ShapeOf, Exchanging
\* The step is told by the new fields and the new call.
<1>4. ASSUME NEW c, call'[t] = c, proc' \in {proc, None},
             \A b \in Brokers : /\ broker'[b].st = broker[b].st /\ broker'[b].in = broker[b].in
                                /\ broker'[b].last = broker[b].last,
             call[t].pc # "clear" \/ proc' = None,
             \/ rid' = rid
             \/ rid' = rid + 1
             \/ rid' = 0 /\ (call[t].pc = "reset" \/ c.pc = "clear"),
             c.pc \in New => /\ call[t].pc \in New
                             /\ \A b \in Brokers :
                                  broker'[b].out = broker[b].out
                                  \/ \A i \in 1 .. Len(broker'[b].out) :
                                       broker'[b].out[i].kind = "ready",
             c.pc = "send" => rid' = rid + 1 \/ (call[t].pc = "send" /\ rid' = rid),
             Sole(t)'
      PROVE  AloneInv'
  <2>1. TypeInv'
    BY DEF OwnInv
  <2>2. Level(t)'
    BY <1>4, <2>1, LevelStays
  <2> QED BY <1>2, <1>4, <2>2, AloneStays
<1>5. ASSUME NEW c, Put(t, c) PROVE call'[t] = c
  BY <1>1, <1>5 DEF Put, TypeInv
\* Steps after which the thread is neither opening nor about to write.
<1>6. ASSUME NEW c, Put(t, c), c.pc \in {"idle", "open", "look", "closing", "drain", "wait",
       "drop"},
             ((proc' = proc /\ broker' = broker) \/ TransportClose),
             ready' = ready /\ rid' = rid,
             ready = None => proc = None \/ proc' = None \/ c.pc = "drain",
             call[t].pc \notin {"clear", "reset"}
      PROVE  AloneInv'
  <2>1. proc' \in {proc, None}
    BY <1>6 DEF TransportClose
  <2>2. \A b \in Brokers : /\ broker'[b].st = broker[b].st /\ broker'[b].in = broker[b].in
                           /\ broker'[b].last = broker[b].last
    BY <1>1, <1>6, CloseIs
  <2>3. call'[t] = c
    BY <1>5, <1>6
  <2>4. Sole(t)'
    BY <1>1, <1>6, <2>1, <2>3 DEF Sole, New
  <2>5. c.pc \notin New /\ c.pc # "send"
    BY <1>6 DEF New
  <2> QED BY <1>4, <1>6, <2>1, <2>2, <2>3, <2>4, <2>5
<1>7. CASE Begin(t)
  <2>1. PICK op \in Ops, pc \in Pcs \ Exchanging :
           call'[t] = [NoCall EXCEPT !.op = op, !.n = call[t].n + 1, !.pc = pc]
           /\ (op = "open" => pc = "open") /\ (op # "open" => pc \in {"look", "drain"})
    BY <1>1, <1>7, BeginTypes
  <2> DEFINE c == call'[t]
  <2>2. c.pc = pc /\ pc \in {"open", "look", "drain"}
    BY <2>1 DEF NoCall
  <2>3. Put(t, c) /\ call[t].pc = "idle" /\ proc' = proc /\ broker' = broker /\ ready' = ready
         /\ rid' = rid
    BY <1>1, <1>7 DEF Begin, Put, TypeInv, At, Fields
  <2>4. ready = None => proc = None
    BY <1>1, <2>3 DEF Sole
  <2> HIDE DEF c
  <2> QED BY <1>6, <2>2, <2>3, <2>4
<1>8. CASE OpenLook(t)
  <2>1. call[t].pc = "open" /\ proc' = proc /\ broker' = broker /\ ready' = ready /\ rid' = rid
        /\ (ready = None => proc = None)
    BY <1>1, <1>8 DEF OpenLook, At, Fields, Sole
  <2>2. ASSUME NEW pc \in {"drop", "start"}, Goto(t, pc), pc = "start" => ready = None
        PROVE AloneInv'
    <3> DEFINE c == [call[t] EXCEPT !.pc = pc]
    <3>1. call'[t] = c /\ c.pc = pc
      BY <1>1, <1>5, <2>2 DEF Goto, Call
    <3> HIDE DEF c
    <3>2. Sole(t)'
      BY <1>1, <2>1, <2>2, <3>1 DEF Sole, New
    <3> QED BY <1>4, <2>1, <2>2, <3>1, <3>2 DEF New
  <2>3. ASSUME Put(t, [call[t] EXCEPT !.pc = "idle", !.ok = TRUE]) PROVE AloneInv'
    <3> DEFINE c == [call[t] EXCEPT !.pc = "idle", !.ok = TRUE]
    <3>1. c.pc = "idle" /\ Put(t, c)
      BY <1>1, <2>3 DEF Call
    <3> HIDE DEF c
    <3> QED BY <1>6, <2>1, <3>1
  <2> QED BY <1>8, <2>2, <2>3 DEF OpenLook
<1>9. ASSUME NEW pc \in Pcs, Goto(t, pc), proc' \in {proc, None},
             \A b \in Brokers : /\ broker'[b].st = broker[b].st /\ broker'[b].in = broker[b].in
                                /\ broker'[b].last = broker[b].last
                                     /\ broker'[b].out = broker[b].out,
             call[t].pc # "clear" \/ proc' = None,
             rid' = rid \/ (rid' = 0 /\ pc = "clear"),
             pc \in New => call[t].pc \in New, pc # "send",
             /\ ready' # None => proc' \in {ready', None}
             /\ ready' = None /\ pc \notin {"clear", "started", "greet", "adopt", "drain"}
                  => proc' = None
             /\ pc \in New => proc' # None
             /\ pc \in {"greet", "adopt"} => call[t].at = proc'
             /\ pc = "reset" => ready' = proc'
             /\ pc = "queue" => ready' # None
      PROVE  AloneInv'
  <2> DEFINE c == [call[t] EXCEPT !.pc = pc]
  <2>1. call'[t] = c /\ c.pc = pc /\ c.at = call[t].at
    BY <1>1, <1>5, <1>9 DEF Goto, Call
  <2> HIDE DEF c
  <2>2. Sole(t)'
    BY <1>1, <1>9, <2>1 DEF Sole
  <2> QED BY <1>4, <1>9, <2>1, <2>2
<1>10. CASE OpenDrop(t)
  BY <1>1, <1>9, <1>10 DEF OpenDrop, New, Pcs, At, Sole
<1>11. CASE OpenClear(t)
  <2>1. ready = None /\ proc' = None
    BY <1>1, <1>11 DEF OpenClear, At, Opener, TransportClose
  <2> QED BY <1>1, <1>9, <1>11, <2>1, CloseIs DEF OpenClear, New, Pcs, At, Sole
<1>12. CASE Start(t)
  <2>1. ready = None /\ call[t].pc = "start" /\ proc = None
    BY <1>1, <1>12 DEF Start, At, Opener, Sole
  <2> QED BY <1>1, <1>9, <1>12, <2>1 DEF Start, New, Pcs, Fields
<1>13. CASE Goto(t, "idle") /\ call[t].pc = "spawn" /\ UNCHANGED <<callers, Fields, lock, broker>>
  <2>1. ready = None /\ proc = None
    BY <1>1, <1>13 DEF Opener, Sole
  <2> QED BY <1>1, <1>9, <1>13, <2>1 DEF New, Pcs, Fields
<1>14. CASE Adopt(t)
  <2>1. ready' = proc /\ proc # None /\ call[t].pc = "adopt"
    BY <1>1, <1>14 DEF Adopt, At, Sole, New
  <2> QED BY <1>1, <1>9, <1>14, <2>1 DEF Adopt, New, Pcs
<1>15. CASE Closing(t)
  BY <1>1, <1>9, <1>15 DEF Closing, New, Pcs, At
<1>16. CASE Drain(t)
  <2>1. proc' = None
    BY <1>16 DEF Drain, TransportClose
  <2> QED BY <1>1, <1>9, <1>16, <2>1, CloseIs DEF Drain, New, Pcs, At
<1>17. CASE Reset(t)
  <2> DEFINE c == [call[t] EXCEPT !.pc = "idle", !.ok = TRUE]
  <2>1. /\ c.pc = "idle" /\ call'[t] = c /\ call[t].pc = "reset" /\ rid' = 0
        /\ ready' = ready /\ proc' = proc /\ broker' = broker
    BY <1>1, <1>5, <1>17 DEF Call, Reset, At
  <2> HIDE DEF c
  <2>2. ready # None
    BY <1>1, <2>1 DEF Sole, New
  <2>3. Sole(t)'
    BY <1>1, <2>1, <2>2 DEF Sole, New
  <2> QED BY <1>4, <2>1, <2>3 DEF New
\* An exchange that fails.
<1>18. ASSUME Raise(t), call[t].pc \in {"look", "send", "sent", "wait"}, ready' = ready, rid' = rid,
              ((proc' = proc /\ broker' = broker) \/ TransportClose)
       PROVE  AloneInv'
  <2>1. Put(t, Raised(t)) /\ Raised(t).pc \in {"closing", "idle"}
    BY <1>1, <1>18 DEF Raise, Raised, Goto, Call
  <2>2. ready = None => proc = None
    BY <1>1, <1>18 DEF Sole
  <2> QED BY <1>6, <1>18, <2>1, <2>2
<1>19. CASE Raise(t) /\ call[t].pc = "send" /\ UNCHANGED <<callers, Fields, broker>>
  BY <1>18, <1>19 DEF Fields
<1>20. CASE Look(t)
  <2>1. call[t].pc = "look" /\ proc' = proc /\ broker' = broker /\ ready' = ready /\ rid' = rid
    BY <1>20 DEF Look, At, Fields
  <2>2. CASE ready # None
    <3> DEFINE c == [call[t] EXCEPT !.pc = "queue", !.own = ready]
    <3>1. c.pc = "queue" /\ call'[t] = c
      BY <1>1, <1>5, <1>20, <2>2 DEF Call, Look
    <3> HIDE DEF c
    <3>2. Sole(t)'
      BY <1>1, <2>1, <2>2, <3>1 DEF Sole, New
    <3> QED BY <1>4, <2>1, <3>1, <3>2 DEF New
  <2> QED BY <1>18, <1>20, <2>1, <2>2 DEF Look
<1>21. CASE Acquire(t)
  <2> DEFINE c == [call[t] EXCEPT !.pc = "send", !.rid = rid + 1]
  <2>1. /\ call'[t] = c /\ rid' = rid + 1 /\ ready' = ready /\ proc' = proc /\ broker' = broker
        /\ call[t].pc = "queue"
    BY <1>1, <1>21, AcquireTypes DEF Acquire, At
  <2>2. c.pc = "send" /\ c.rid = rid + 1
    BY <1>1 DEF Call
  <2> HIDE DEF c
  <2>3. Sole(t)'
    BY <1>1, <2>1, <2>2 DEF Sole, New
  <2> QED BY <1>4, <2>1, <2>2, <2>3 DEF New
<1>22. CASE Listen(t)
  <2>1. call[t].pc \in {"started", "sent"} /\ proc' = proc /\ broker' = broker
         /\ ready' = ready /\ rid' = rid
    BY <1>22 DEF Listen, At, Fields
  <2>2. CASE proc = None
    <3>1. call[t].pc = "sent"
      BY <1>1, <2>1, <2>2 DEF Sole, New
    <3> QED BY <1>18, <1>22, <2>1, <2>2, <3>1 DEF Listen
  <2>3. CASE proc # None
    <3> DEFINE pc == IF call[t].pc = "started" THEN "greet" ELSE "wait"
               c == [call[t] EXCEPT !.pc = pc, !.at = proc]
    <3>1. call'[t] = c /\ Put(t, c)
      BY <1>5, <1>22, <2>3 DEF Listen
    <3>2. c.pc = pc /\ c.at = proc
      BY <1>1 DEF Call
    <3> HIDE DEF c
    <3>3. CASE call[t].pc = "started"
      <4>1. Sole(t)'
        BY <1>1, <2>1, <2>3, <3>1, <3>2, <3>3 DEF Sole, New
      <4> QED BY <1>4, <2>1, <3>1, <3>2, <3>3, <4>1 DEF New
    <3>4. CASE call[t].pc = "sent"
      <4>1. ready = None => proc = None
        BY <1>1, <3>4 DEF Sole
      <4> QED BY <1>6, <2>1, <3>1, <3>2, <3>4, <4>1
    <3> QED BY <2>1, <3>3, <3>4
  <2> QED BY <2>2, <2>3
\* A frame is taken from the process the thread reads, as nobody else reads.
<1>23. ASSUME NEW b \in Unread, TakeFrame(b), call[t].pc \in {"greet", "wait"}
       PROVE  /\ b = call[t].at /\ b \in Brokers
              /\ \A a \in Brokers : /\ broker'[a].st = broker[a].st /\ broker'[a].in = broker[a].in
                                    /\ broker'[a].last = broker[a].last
              /\ \A a \in Brokers \ {b} : broker'[a].out = broker[a].out
              /\ \A i \in 1 .. Len(broker'[b].out) :
                   broker'[b].out[i] = broker[b].out[i + 1] /\ i + 1 \in 1 .. Len(broker[b].out)
              /\ Head(broker[b].out) = broker[b].out[1] /\ 1 \in 1 .. Len(broker[b].out)
              /\ Head(broker[b].out).pid = b
  <2>1. /\ b \in Brokers /\ \E u \in Threads : call[u].pc \in {"greet", "wait"} /\ call[u].at = b
        /\ \A a \in Brokers : /\ broker'[a].st = broker[a].st /\ broker'[a].in = broker[a].in
                              /\ broker'[a].last = broker[a].last
        /\ \A a \in Brokers \ {b} : broker'[a].out = broker[a].out
    BY <1>1, <1>23, TakeIs
  <2>2. \A u \in Threads : call[u].pc \in {"greet", "wait"} => u = t
    BY <1>1 DEF TypeInv, Shape, ShapeOf, NoCall
  <2>3. OwnInv /\ TypeInv'
    BY DEF AloneInv, OwnInv
  <2> QED BY <1>23, <2>1, <2>2, <2>3, Rest
<1>24. CASE Greet(t)
  <2>1. call[t].pc = "greet" /\ ready' = ready /\ rid' = rid /\ ready = None
         /\ call[t].at = proc /\ proc # None
    BY <1>1, <1>24 DEF Greet, At, Opener, Sole, New
  <2>2. CASE TransportClose /\ Goto(t, "idle")
    <3>1. Put(t, [call[t] EXCEPT !.pc = "idle"]) /\ [call[t] EXCEPT !.pc = "idle"].pc = "idle"
      BY <1>1, <2>2 DEF Goto, Call
    <3>2. proc' = None
      BY <2>2 DEF TransportClose
    <3> QED BY <1>6, <2>1, <2>2, <3>1, <3>2
  <2>3. ASSUME NEW b \in Unread, TakeFrame(b), proc' = proc,
               Put(t, [call[t] EXCEPT !.pc = IF Head(broker[b].out).kind = "ready" THEN "adopt" ELSE "idle",
                                   !.at = Head(broker[b].out).pid])
        PROVE  AloneInv'
    <3>1. b = proc /\ \A i \in 1 .. Len(broker[b].out) : broker[b].out[i].kind = "ready"
      <4>1. b = proc
        BY <1>23, <2>1, <2>3
      <4> QED BY <2>1, <4>1 DEF AloneInv, Level, New
    <3>2. Head(broker[b].out).kind = "ready" /\ Head(broker[b].out).pid = b
      BY <1>23, <2>1, <2>3, <3>1
    <3> DEFINE c == [call[t] EXCEPT !.pc = "adopt", !.at = b]
    <3>3. call'[t] = c /\ c.pc = "adopt" /\ c.at = b
      BY <1>1, <1>5, <2>3, <3>2 DEF Call
    <3> HIDE DEF c
    <3>4. Sole(t)'
      BY <1>1, <2>1, <2>3, <3>1, <3>3 DEF Sole, New
    <3>5. \A a \in Brokers : broker'[a].out = broker[a].out
                             \/ \A i \in 1 .. Len(broker'[a].out) : broker'[a].out[i].kind = "ready"
      <4>1. \A i \in 1 .. Len(broker'[b].out) :
              broker'[b].out[i] = broker[b].out[i + 1] /\ i + 1 \in 1 .. Len(broker[b].out)
        BY <1>23, <2>1, <2>3
      <4>2. \A i \in 1 .. Len(broker'[b].out) : broker'[b].out[i].kind = "ready"
        BY <3>1, <4>1
      <4>3. \A a \in Brokers \ {b} : broker'[a].out = broker[a].out
        BY <1>23, <2>1, <2>3
      <4> QED BY <4>2, <4>3
    <3>6. \A a \in Brokers : /\ broker'[a].st = broker[a].st /\ broker'[a].in = broker[a].in
                             /\ broker'[a].last = broker[a].last
      BY <1>23, <2>1, <2>3
    <3> QED BY <1>4, <2>1, <2>3, <3>3, <3>4, <3>5, <3>6 DEF New
  <2> QED BY <1>24, <2>2, <2>3 DEF Greet
<1>25. CASE Receive(t)
  <2>1. call[t].pc = "wait" /\ ready' = ready /\ rid' = rid /\ (ready = None => proc = None)
    BY <1>1, <1>25 DEF Receive, At, Sole
  <2>2. ASSUME NEW b \in Unread, TakeFrame(b), Accept(t, Head(broker[b].out)), proc' = proc
        PROVE  AloneInv'
    <3>1. PICK c : Put(t, c) /\ c.pc \in {"closing", "idle"}
      <4> DEFINE d == [call[t] EXCEPT !.pc = IF call[t].op = "close" THEN "closing" ELSE "idle",
                                      !.ok = TRUE, !.answer = Head(broker[b].out).tag]
      <4>1. d.pc \in {"closing", "idle"} /\ Raised(t).pc \in {"closing", "idle"}
        BY <1>1 DEF Call, Raised
      <4>2. Put(t, d) \/ Put(t, Raised(t))
        BY <2>2 DEF Accept, Raise, Raised, Goto
      <4> HIDE DEF d
      <4> QED BY <4>1, <4>2
    <3>2. call'[t] = c
      BY <1>5, <3>1
    <3>3. Sole(t)'
      BY <1>1, <2>1, <2>2, <3>1, <3>2 DEF Sole, New
    <3>4. \A a \in Brokers : /\ broker'[a].st = broker[a].st /\ broker'[a].in = broker[a].in
                             /\ broker'[a].last = broker[a].last
      BY <1>23, <2>1, <2>2
    <3> QED BY <1>4, <2>1, <2>2, <3>1, <3>2, <3>3, <3>4 DEF New
  <2>3. CASE Raise(t) /\ ((proc' = proc /\ broker' = broker) \/ TransportClose)
    BY <1>18, <2>1, <2>3
  <2> QED BY <1>25, <2>2, <2>3 DEF Receive
<1> QED BY <1>7, <1>8, <1>10, <1>11, <1>12, <1>13, <1>14, <1>15, <1>16, <1>17, <1>19, <1>20,
           <1>21,
           <1>22, <1>24, <1>25

\* A new process was asked nothing.
LEMMA AloneSpawn ==
  ASSUME AloneInv, OwnInv', NEW t \in callers, callers = {t}, Spawn(t)
  PROVE  AloneInv'
<1>1. /\ t \in Threads /\ call[t] \in Call /\ Opener(t) /\ call[t].pc = "spawn"
           /\ None \notin Brokers
      /\ callers' = callers /\ ready' = ready /\ rid' = rid /\ broker \in [Brokers -> Broker]
           /\ DOMAIN call = Threads
  BY CallersFinite, SessionAssumption DEF AloneInv, OwnInv, TypeInv, Spawn, At
<1>2. CASE Goto(t, "idle") /\ UNCHANGED <<callers, proc, broker>>
  BY <1>1, <1>2, AloneSteps DEF Spawn, Fields
<1>3. ASSUME NEW k \in Brokers, broker[k].st = "free", broker' = [broker EXCEPT ![k].st = "auth"],
             proc' = k, Goto(t, "started")
      PROVE  AloneInv'
  <2>1. ready = None
    BY <1>1 DEF Opener
  <2>2. broker[k].in = << >> /\ broker[k].out = << >> /\ broker[k].last = 0
    BY <1>3 DEF AloneInv, OwnInv, Pipes, Queue
  <2>3. /\ \A b \in Brokers \ {k} : broker'[b] = broker[b]
        /\ broker'[k].in = << >> /\ broker'[k].out = << >> /\ broker'[k].last = 0
    BY <1>1, <1>3, <2>2 DEF Broker
  <2> DEFINE c == [call[t] EXCEPT !.pc = "started"]
  <2>4. c.pc = "started" /\ call'[t] = c
    BY <1>1, <1>3 DEF Goto, Put, Call
  <2> HIDE DEF c
  <2>5. Sole(t)'
    BY <1>1, <1>3, <2>1, <2>4 DEF Sole, New
  <2>6. Level(t)'
    BY <1>3, <2>3, <2>4 DEF Level, New
  <2>7. \A b \in Brokers : Queue(b)'
    BY <2>3 DEF AloneInv, Queue
  <2> QED BY <1>1, <2>5, <2>6, <2>7 DEF AloneInv
<1> QED BY <1>2, <1>3 DEF Spawn

\* The process is asked only when it has answered all it was asked.
LEMMA AtRest ==
  ASSUME AloneInv, NEW t \in callers, callers = {t}, call[t].pc = "send", NEW b \in Brokers,
         proc = b,
         broker[b].st # "gone"
  PROVE  broker[b].in = << >> /\ broker[b].in \in Seq(Request)
<1>1. Sole(t) /\ Pipes(b) /\ TypeInv /\ t \in Threads /\ b # None
  BY CallersFinite, SessionAssumption DEF AloneInv, OwnInv, TypeInv
<1>2. Known(b)
  BY <1>1 DEF Sole, Known
<1>3. \A u \in Threads : ~User(u, b)
  BY <1>1 DEF TypeInv, Shape, ShapeOf, NoCall, User
<1>4. Underway(b) = 0
  BY <1>1, <1>2, <1>3 DEF Pipes, Fits
<1>5. broker[b] \in Broker
  BY <1>1 DEF TypeInv
<1> DEFINE n == Len(broker[b].in)
           m == Len(broker[b].out)
<1>6. /\ n \in Nat /\ m \in Nat /\ (Greets(broker[b]) => m > 0 /\ 0 = n + (m - 1))
      /\ (~Greets(broker[b]) => 0 = n + m) /\ broker[b].in \in Seq(Request)
  BY <1>4, <1>5, Loads DEF Underway
<1>7. n = 0
  <2> HIDE DEF n, m
  <2>1. CASE Greets(broker[b])
    BY <1>6, <2>1
  <2>2. CASE ~Greets(broker[b])
    BY <1>6, <2>2
  <2> QED BY <2>1, <2>2
<1> QED BY <1>6, <1>7

\* So one request is in the pipe, with the newest id.
LEMMA AloneSend ==
  ASSUME AloneInv, OwnInv', NEW t \in callers, callers = {t}, Send(t)
  PROVE  AloneInv'
<1>1. /\ t \in Threads /\ call[t] \in Call /\ TypeInv /\ Sole(t) /\ Level(t) /\ call[t].pc = "send"
      /\ None \notin Brokers /\ UNCHANGED <<callers, ready, rid, proc>> /\ DOMAIN call = Threads
  BY CallersFinite, SessionAssumption DEF AloneInv, OwnInv, TypeInv, Send, At, Fields
<1>2. CASE Raise(t) /\ UNCHANGED broker
  BY <1>1, <1>2, AloneSteps DEF Fields
<1>3. ASSUME Write(t) PROVE AloneInv'
  <2>1. PICK b \in Brokers : b = proc /\ broker[b].st # "gone"
    BY <1>1, <1>3, WriteIs
  <2>2. /\ RequestOf(t).rid = rid
    BY <1>1 DEF Sole, RequestOf
  <2>3. /\ broker'[b].in = Append(broker[b].in, RequestOf(t)) /\ RequestOf(t) \in Request
        /\ \A a \in Brokers : /\ broker'[a].st = broker[a].st /\ broker'[a].last = broker[a].last
                              /\ (a # b => broker'[a].in = broker[a].in)
    BY <1>1, <1>3, <2>1, WriteIs
  <2>4. broker[b].in = << >> /\ broker[b].in \in Seq(Request)
    BY <1>1, <2>1, AtRest
  <2>5. Len(broker'[b].in) = 1 /\ broker'[b].in[1] = RequestOf(t)
    BY <2>3, <2>4
  <2>6. \A i \in 1 .. Len(broker'[b].in) : broker'[b].in[i].rid = rid
    BY <2>2, <2>5
  <2>7. broker[b].last < rid
    BY <1>1, <2>1 DEF Level
  <2>8. broker[b].last \in Nat /\ rid \in Nat
    <3>1. broker[b] \in Broker /\ rid \in Nat
      BY <1>1 DEF TypeInv
    <3> QED BY <3>1 DEF Broker, Ids
  <2> DEFINE c == [call[t] EXCEPT !.pc = "sent"]
  <2>9. c.pc = "sent" /\ call'[t] = c
    BY <1>1, <1>3 DEF Write, Goto, Put, Call
  <2> HIDE DEF c
  <2>10. Sole(t)'
    BY <1>1, <2>1, <2>9 DEF Sole, New
  <2>11. Level(t)'
    <3>1. broker'[b].last <= rid /\ \A i \in 1 .. Len(broker'[b].in) : broker'[b].in[i].rid <= rid
      BY <2>3, <2>6, <2>7, <2>8
    <3> QED BY <1>1, <2>1, <2>9, <3>1 DEF Level, New
  <2>12. ASSUME NEW a \in Brokers PROVE Queue(a)'
    <3>1. CASE a = b
      <4>1. broker'[b].last < rid /\ Len(broker'[b].in) <= 1
        BY <2>3, <2>5, <2>7
      <4>2. \A i \in 1 .. Len(broker'[b].in) : broker'[b].in[i].rid > broker'[b].last
        BY <2>6, <2>8, <4>1, <2>3
      <4> QED BY <2>3, <3>1, <4>1, <4>2 DEF AloneInv, Queue
    <3>2. CASE a # b
      BY <2>3, <3>2 DEF AloneInv, Queue
    <3> QED BY <3>1, <3>2
  <2> QED BY <1>1, <2>10, <2>11, <2>12 DEF AloneInv
<1> QED BY <1>2, <1>3 DEF Send

\* A broker serves the one request in its pipe, which has a new id.
LEMMA AloneProcess ==
  ASSUME AloneInv, OwnInv', NEW t \in callers, callers = {t}, NEW b \in Brokers, Process(b)
  PROVE  AloneInv'
<1>1. /\ TypeInv /\ Sole(t) /\ Level(t) /\ Queue(b) /\ Pipes(b) /\ None \notin Brokers
      /\ broker[b] \in Broker /\ broker'[b] \in Broker /\ rid \in Nat
  BY SessionAssumption DEF AloneInv, OwnInv, TypeInv
<1>2. /\ UNCHANGED <<callers, ready, rid, proc, call>>
      /\ \A a \in Brokers \ {b} : broker'[a] = broker[a]
  BY <1>1, ProcessIs DEF Fields
<1>3. Sole(t)'
  BY <1>1, <1>2 DEF Sole
<1>4. ASSUME NEW a \in Brokers \ {b} PROVE Queue(a)'
  BY <1>2 DEF AloneInv, Queue
<1>5. proc # b => Level(t)'
  <2> SUFFICES ASSUME proc # None, proc # b PROVE Level(t)'
    BY <1>2 DEF Level
  <2>1. broker'[proc] = broker[proc]
    BY <1>1, <1>2 DEF TypeInv
  <2> QED BY <1>1, <1>2, <2>1 DEF Level
<1> DEFINE in == broker[b].in
           out == broker[b].out
           last == broker[b].last
           r == Head(in)
<1>6. in \in Seq(Request) /\ Len(in) \in Nat /\ last \in Nat
  <2>1. in \in Seq(Request) /\ last \in Nat
    BY <1>1 DEF Broker, Ids
  <2> QED BY <2>1
\* A step that serves no request.
<1>7. ASSUME broker'[b].in = in, broker'[b].last = last, broker'[b].st \notin {"free", "auth"},
             broker'[b].out = out \/ \A i \in 1 .. Len(broker'[b].out) :
                  broker'[b].out[i].kind = "ready"
      PROVE  Queue(b)' /\ Level(t)'
  <2>1. Queue(b)'
    BY <1>1, <1>7 DEF Queue
  <2>2. proc = b => Level(t)'
    BY <1>1, <1>2, <1>7 DEF Level
  <2> QED BY <1>5, <2>1, <2>2
<1>8. CASE /\ broker[b].st = "auth" /\ broker'[b].st = "up" /\ broker'[b].in = in
           /\ broker'[b].out = Say(b, "ready", 0, NoTag) /\ broker'[b].last = last
  <2>1. broker'[b].out = <<[kind |-> "ready", pid |-> b, rid |-> 0, tag |-> NoTag]>>
    <3>1. out = << >>
      BY <1>1, <1>8 DEF Pipes
    <3> QED BY <1>8, <3>1 DEF Say
  <2>2. \A i \in 1 .. Len(broker'[b].out) : broker'[b].out[i].kind = "ready"
    BY <2>1
  <2>3. Queue(b)' /\ Level(t)'
    BY <1>7, <1>8, <2>2
  <2> QED BY <1>2, <1>3, <1>4, <2>3 DEF AloneInv
<1>9. CASE /\ broker'[b].st = "gone" /\ broker'[b].in = in /\ broker'[b].out = out
                /\ broker'[b].last = last
  <2>1. Queue(b)' /\ Level(t)'
    BY <1>7, <1>9
  <2> QED BY <1>2, <1>3, <1>4, <2>1 DEF AloneInv
<1>10. CASE /\ broker[b].st = "up" /\ in # << >> /\ r \in Request
            /\ broker'[b].st \in {"up", "gone"} /\ broker'[b].in = Tail(in)
            /\ broker'[b].last = (IF r.rid > last THEN r.rid ELSE last)
  <2>1. Len(in) = 1 /\ r = in[1] /\ 1 \in 1 .. Len(in) /\ Len(Tail(in)) = 0
    <3>1. Len(in) <= 1
      BY <1>1 DEF Queue
    <3>2. in # << >>
      BY <1>10
    <3> HIDE DEF in
    <3>3. Len(Tail(in)) \in Nat /\ Len(in) = Len(Tail(in)) + 1
      BY <1>6, <3>2
    <3>4. Len(in) = 1 /\ Len(Tail(in)) = 0
      <4> DEFINE n == Len(in)
                 m == Len(Tail(in))
      <4>1. n <= 1 /\ m \in Nat /\ n = m + 1
        BY <3>1, <3>3
      <4> HIDE DEF n, m
      <4>2. n = 1 /\ m = 0
        BY <4>1
      <4> QED BY <4>2 DEF n, m
    <3>5. Head(in) = in[1] /\ 1 \in 1 .. Len(in)
      BY <1>6, <3>4
    <3> QED BY <3>4, <3>5
  <2>2. r.rid > last /\ broker'[b].last = r.rid /\ r.rid \in Nat
    <3>1. in[1].rid > last
      BY <1>1, <2>1 DEF Queue
    <3>2. \A x \in Request : x.rid \in Nat
      BY DEF Request, Ids
    <3> QED BY <1>10, <2>1, <3>1, <3>2
  <2>3. Len(broker'[b].in) = 0
    BY <1>10, <2>1
  <2>4. Len(broker'[b].in) <= 1 /\ \A i \in 1 .. Len(broker'[b].in) : FALSE
    BY <2>3
  <2>5. Queue(b)'
    BY <1>10, <2>4 DEF Queue
  <2>6. proc = b => Level(t)'
    <3> SUFFICES ASSUME proc = b, call[t].pc # "clear" PROVE Level(t)'
      BY <1>2 DEF Level
    <3>1. call[t].pc \notin New
      BY <1>1, <1>10 DEF Level
    <3>2. call[t].pc # "send"
      BY <1>10, AtRest
    <3>3. r.rid <= rid
      BY <1>1, <2>1 DEF Level
    <3> QED BY <1>2, <2>2, <2>4, <3>1, <3>2, <3>3 DEF Level
  <2> QED BY <1>2, <1>3, <1>4, <1>5, <2>5, <2>6 DEF AloneInv
<1> QED BY <1>1, <1>8, <1>9, <1>10, ProcessIs

\* The invariant holds at first,
LEMMA NextInit ==
  ASSUME Init
  PROVE  NextInv
<1>1. OwnInv /\ ready = None /\ proc = None /\ callers \subseteq Threads
  BY OwnInit, TypeInit, CallersFinite DEF Init
<1>2. \A t \in Threads : call[t] = NoCall
  BY DEF Init
<1>3. \A t \in callers : Sole(t) /\ Level(t)
  BY <1>1, <1>2 DEF Sole, Level, New, NoCall
<1>4. \A b \in Brokers : broker[b] = NoBroker
  BY DEF Init
<1>5. \A b \in Brokers : Queue(b)
  BY <1>4 DEF Queue, NoBroker
<1> QED BY <1>1, <1>3, <1>5 DEF AloneInv, NextInv, OwnInv

\* and every step keeps it.
LEMMA NextNext ==
  ASSUME NextInv, [Next]_vars
  PROVE  NextInv'
<1>1. TypeInv'
  BY TypeNext DEF NextInv
<1>2. callers' = callers
  <2>1. ASSUME NEW t \in callers, Begin(t) \/ Step(t) PROVE callers' = callers
    BY <2>1
       DEF Begin, Step, OpenLook, OpenDrop, OpenClear, Start, Spawn, Listen, Greet, Adopt, Reset,
                Look, Acquire, Send, Receive, Closing, Drain
  <2>2. ASSUME NEW b \in Brokers, Authorise(b) \/ Serve(b) \/ EndOfInput(b) \/ Exit(b)
        PROVE  callers' = callers
    BY <2>2 DEF Authorise, Serve, EndOfInput, Exit
  <2>3. CASE UNCHANGED vars
    BY <2>3 DEF vars
  <2> QED BY <2>1, <2>2, <2>3 DEF Next
<1>3. ASSUME SoleCaller PROVE AloneInv'
  <2>1. PICK t \in Threads : callers = {t} /\ OneOpener /\ AloneInv /\ OwnInv
    BY <1>3, OneCaller DEF NextInv, AloneInv
  <2>2. OwnInv'
    BY <2>1, OwnNext
  <2>3. CASE Begin(t) \/ Step(t)
    BY <2>1, <2>2, <2>3, AloneSteps, AloneSpawn, AloneSend DEF Step
  <2>4. ASSUME NEW b \in Brokers, Authorise(b) \/ Serve(b) \/ EndOfInput(b) \/ Exit(b)
        PROVE AloneInv'
    BY <2>1, <2>2, <2>4, AloneProcess DEF Process
  <2>5. CASE UNCHANGED vars
    <3>1. Sole(t)' /\ Level(t)' /\ \A b \in Brokers : Queue(b)'
      BY <2>1, <2>5 DEF AloneInv, vars, Fields, Sole, Level, Queue
    <3> QED BY <1>2, <2>1, <2>2, <3>1 DEF AloneInv
  <2> QED BY <2>1, <2>3, <2>4, <2>5 DEF Next
<1> QED BY <1>1, <1>2, <1>3 DEF NextInv, SoleCaller

\* A client of one thread has no request refused for its id and, at rest without an
\* accepted broker, keeps no process: there is one request in the pipe at most, with an id
\* the broker has not seen, and the ids start again only with a new broker.
THEOREM AloneIsNeverStuck == Spec => []AloneNeverStuck
<1>1. ASSUME NextInv PROVE AloneNeverStuck
  <2> SUFFICES ASSUME SoleCaller PROVE AloneNeverStuck
    BY DEF AloneNeverStuck
  <2>1. PICK t \in Threads : callers = {t} /\ AloneInv
    BY <1>1, OneCaller DEF NextInv
  <2>2. IdsIncrease
    <3> SUFFICES ASSUME NEW b \in Brokers, NEW i \in DOMAIN broker[b].in
                 PROVE  broker[b].in[i].rid > broker[b].last /\ ~(i > 1)
      BY DEF IdsIncrease
    <3>1. broker[b].in \in Seq(Request)
      BY <2>1 DEF AloneInv, OwnInv, TypeInv, Broker
    <3>2. DOMAIN broker[b].in = 1 .. Len(broker[b].in) /\ Len(broker[b].in) \in Nat
      BY <3>1
    <3> QED BY <2>1, <3>2 DEF AloneInv, Queue
  <2>3. (\A u \in Threads : At(u, "idle")) /\ ready = None => proc = None
    BY <2>1 DEF AloneInv, Sole, At
  <2> QED BY <2>2, <2>3 DEF AloneNeverStuck
<1> QED BY <1>1, NextInit, NextNext, PTL DEF Spec
=============================================================================
