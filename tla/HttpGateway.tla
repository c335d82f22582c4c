----------------------------- MODULE HttpGateway -----------------------------
(***************************************************************************)
(* The HTTP host (reflex_http_host/gateway.py, app.py): handler threads    *)
(* that stream the events of a runtime child process to HTTP clients.  A   *)
(* handler registers a subscription and sends its command under one lock;  *)
(* the reader thread moves the child's events into a bounded queue; the    *)
(* dispatch thread takes them out, looks the subscription up under the     *)
(* lock and fills its bounded buffer outside it; a handler that leaves     *)
(* before the terminal event retires its request id.  Requests are         *)
(* numbered: two requests may have the same client-chosen id.  The runtime *)
(* is seen through its pipes: it ends each request once, early if it is    *)
(* cancelled, and ignores a cancel for an id it does not run.              *)
(***************************************************************************)
EXTENDS Naturals, Sequences, FiniteSets, SequencesExt

CONSTANTS
  Ids,              \* request ids clients choose; a ping's id is its own number
  BufferSize,       \* MAX_BUFFERED_EVENTS of a subscription
  EventsSize,       \* MAX_QUEUED_EVENTS of the session
  MaxTombstones,    \* MAX_REQUEST_ID_TOMBSTONES
  MaxRequests,      \* bound: requests in a behaviour
  MaxChunks,        \* bound: events of a request before its terminal event
  MaxCancels        \* bound: calls of the cancel endpoint

\* What the constants may be; the module that gives them values assumes it.
HttpGatewayAssumption ==
  /\ {BufferSize, EventsSize, MaxTombstones} \subseteq Nat \ {0}
  /\ {MaxRequests, MaxChunks, MaxCancels} \subseteq Nat
  /\ Ids \cap Nat = {}

VARIABLES
  session,      \* "none", "starting", "failed", "up", "deaf" (no reader), "exited"
  closed,       \* SidecarGateway._closed
  req,          \* the requests so far: id, handler's step, what its subscription holds
  registered,   \* requests whose subscription is in _subscriptions
  tombstones,   \* _request_id_tombstones, oldest first
  commands,     \* the child's standard input
  active,       \* requests the runtime runs
  events,       \* RuntimeSession._events
  inHand,       \* the event the dispatch thread has looked up, and for whom; <<>> if none
  cancels

childVars == <<commands, active>>
vars == <<session, closed, req, registered, tombstones, childVars, events, inHand, cancels>>

Requests == 1..Len(req)
Request == [id : Ids \cup (1..MaxRequests), ping : BOOLEAN, terminal : BOOLEAN, chunks : 0..MaxChunks,
            step : {"opened", "reading", "leaving", "cancelled", "gone"}, read : BOOLEAN,
            buffer : Seq([of : 1..MaxRequests, last : BOOLEAN])]

TypeOK ==
  /\ session \in {"none", "starting", "failed", "up", "deaf", "exited"} /\ closed \in BOOLEAN
  /\ req \in Seq(Request) /\ Len(req) <= MaxRequests
  /\ registered \subseteq Requests /\ active \subseteq Requests
  /\ \A n \in Requests : Len(req[n].buffer) <= BufferSize
  /\ tombstones \in Seq(Ids) /\ Len(tombstones) <= MaxTombstones
  /\ Len(events) <= EventsSize /\ cancels \in 0..MaxCancels

Init ==
  /\ session = "none" /\ closed = FALSE /\ req = <<>> /\ registered = {}
  /\ tombstones = <<>> /\ commands = <<>> /\ active = {} /\ events = <<>>
  /\ inHand = <<>> /\ cancels = 0

Running == session \in {"up", "deaf"}
Known(id) == \E n \in registered : req[n].id = id

-----------------------------------------------------------------------------
(* The session: the child is started by the lifespan of the application.   *)

Start ==
  /\ session = "none" /\ ~closed /\ session' = "starting"
  /\ UNCHANGED <<closed, req, registered, tombstones, childVars, events, inHand, cancels>>

\* The private ping is answered with pong before the deadline.
Ready ==
  /\ session = "starting" /\ session' = "up"
  /\ UNCHANGED <<closed, req, registered, tombstones, childVars, events, inHand, cancels>>

\* A deadline, an exit, an unreadable line, an error or a wrong answer: the child is stopped.
StartFails ==
  /\ session = "starting" /\ session' = "failed"
  /\ UNCHANGED <<closed, req, registered, tombstones, childVars, events, inHand, cancels>>

\* An unreadable or oversized line ends the reader thread; the child lives on.
ReaderFails ==
  /\ session = "up" /\ session' = "deaf"
  /\ UNCHANGED <<closed, req, registered, tombstones, childVars, events, inHand, cancels>>

Exit ==
  /\ Running
  /\ session' = "exited" /\ active' = {} /\ commands' = <<>>
  /\ UNCHANGED <<closed, req, registered, tombstones, events, inHand, cancels>>

\* Under the lock the books are emptied, outside of it the requests are cancelled and the
\* child is shut down: one step, since the lifespan closes the gateway when the server has
\* let its connections end.  No handler sends any more (send does not look at _closed), and
\* what the child still says finds no subscription.
Close ==
  /\ ~closed /\ session # "starting"
  /\ closed' = TRUE /\ registered' = {} /\ tombstones' = <<>>
  /\ session' = IF Running THEN "exited" ELSE session
  /\ commands' = <<>> /\ active' = {}
  /\ UNCHANGED <<req, events, inHand, cancels>>

-----------------------------------------------------------------------------
(* The runtime, from the far end of its pipes.                             *)

\* _read_protocol: an event that finds the queue full is dropped, whatever it is.
Put(e) == events' = IF session = "up" /\ Len(events) < EventsSize THEN Append(events, e) ELSE events

TakeCommand ==
  /\ commands # <<>> /\ commands' = Tail(commands)
  /\ LET c == Head(commands)
         hit == {n \in active : req[n].id = c.id} IN
       IF c.type = "request"
       THEN active' = active \cup {c.of} /\ events' = events
       ELSE /\ active' = active \ hit
            /\ IF hit = {} THEN events' = events
               ELSE Put([of |-> CHOOSE n \in hit : TRUE, last |-> TRUE])
  /\ UNCHANGED <<session, closed, req, registered, tombstones, inHand, cancels>>

Emit(n, last) ==
  /\ Running /\ n \in active
  /\ Put([of |-> n, last |-> last])
  /\ IF last THEN active' = active \ {n} /\ req' = req
     ELSE /\ req[n].chunks < MaxChunks /\ active' = active
          /\ req' = [req EXCEPT ![n].chunks = @ + 1]
  /\ UNCHANGED <<session, closed, registered, tombstones, commands, inHand, cancels>>

-----------------------------------------------------------------------------
(* The dispatch thread.                                                    *)

Released(e) == IF e.last THEN RemoveFirst(tombstones, req[e.of].id) ELSE tombstones

LookUp ==
  /\ inHand = <<>> /\ events # <<>>
  /\ LET e == Head(events)
         to == {n \in registered : req[n].id = req[e.of].id} IN
       /\ tombstones' = Released(e)
       /\ inHand' = IF to = {} THEN <<>> ELSE <<[event |-> e, to |-> CHOOSE n \in to : TRUE]>>
  /\ events' = Tail(events)
  /\ UNCHANGED <<session, closed, req, registered, childVars, cancels>>

\* Mutated form of Filled: a full buffer drops every event.
FilledNoRoom(b, e) == IF Len(b) < BufferSize THEN Append(b, e) ELSE b

\* _Subscription.dispatch: the terminal event takes the place of the oldest one.
Filled(b, e) ==
  IF Len(b) < BufferSize THEN Append(b, e) ELSE IF e.last THEN Append(Tail(b), e) ELSE b

Dispatch ==
  /\ inHand # <<>> /\ inHand' = <<>>
  /\ LET e == inHand[1].event
         n == inHand[1].to IN
       req' = IF req[n].terminal THEN req
              ELSE [req EXCEPT ![n].terminal = e.last, ![n].buffer = Filled(@, e)]
  /\ UNCHANGED <<session, closed, registered, tombstones, childVars, events, cancels>>

-----------------------------------------------------------------------------
(* The handlers.                                                           *)

Fresh(id, ping) == [id |-> id, ping |-> ping, terminal |-> FALSE, chunks |-> 0,
                    step |-> "opened", read |-> FALSE, buffer |-> <<>>]

\* send_command_with_subscription; without a session or a child it raises and nothing is kept.
Send(id, ping) ==
  /\ Len(req) < MaxRequests /\ Running
  /\ ~Known(id) /\ ~Contains(tombstones, id)
  /\ LET n == Len(req) + 1 IN
       /\ req' = Append(req, Fresh(id, ping))
       /\ registered' = registered \cup {n}
       /\ commands' = Append(commands, [type |-> "request", id |-> id, of |-> n])
  /\ UNCHANGED <<session, closed, tombstones, active, events, inHand, cancels>>

Step(n, s) == req' = [req EXCEPT ![n].step = s]

\* The response starts; a response that is never started leaves its subscription behind.
Open(n) ==
  /\ req[n].step = "opened" /\ Step(n, "reading")
  /\ UNCHANGED <<session, closed, registered, tombstones, childVars, events, inHand, cancels>>

Read(n) ==
  /\ req[n].step = "reading" /\ req[n].buffer # <<>>
  /\ LET e == Head(req[n].buffer) IN
       req' = [req EXCEPT ![n].buffer = Tail(@), ![n].read = e.last,
                          ![n].step = IF e.last THEN "cancelled" ELSE @]
  /\ UNCHANGED <<session, closed, registered, tombstones, childVars, events, inHand, cancels>>

SendCancel(id) ==
  commands' = IF Running THEN Append(commands, [type |-> "cancel", id |-> id, of |-> 0]) ELSE commands

\* The deadline: an optimize stream cancels and reports request_timeout, a ping just fails.
Timeout(n) ==
  /\ req[n].step = "reading" /\ Step(n, IF req[n].ping THEN "cancelled" ELSE "leaving")
  /\ IF req[n].ping THEN UNCHANGED commands ELSE SendCancel(req[n].id)
  /\ UNCHANGED <<session, closed, registered, tombstones, active, events, inHand, cancels>>

\* The client has gone: the generator is closed where it yields.
ClientGone(n) ==
  /\ req[n].step = "reading" /\ ~req[n].ping /\ Step(n, "leaving")
  /\ UNCHANGED <<session, closed, registered, tombstones, childVars, events, inHand, cancels>>

\* finally: a stream without its terminal event cancels its request ...
CancelOnLeave(n) ==
  /\ req[n].step = "leaving" /\ Step(n, "cancelled") /\ SendCancel(req[n].id)
  /\ UNCHANGED <<session, closed, registered, tombstones, active, events, inHand, cancels>>

\* Mutated form of Retires: an id is retired for nobody.
RetiresNever(n) == FALSE

Retires(n) == ~req[n].ping /\ ~req[n].read /\ ~req[n].terminal

\* ... and unsubscribes: the id goes, whoever holds it, and is retired if its end was not seen.
Unsubscribe(n) ==
  /\ req[n].step = "cancelled" /\ Step(n, "gone")
  /\ registered' = {k \in registered : req[k].id # req[n].id}
  /\ LET kept == IF Retires(n) /\ ~Contains(tombstones, req[n].id)
                 THEN Append(tombstones, req[n].id) ELSE tombstones IN
       tombstones' = IF Len(kept) > MaxTombstones THEN Tail(kept) ELSE kept
  /\ UNCHANGED <<session, closed, childVars, events, inHand, cancels>>

\* The cancel endpoint takes any id.
CancelRequest(id) ==
  /\ Running /\ cancels < MaxCancels
  /\ cancels' = cancels + 1 /\ SendCancel(id)
  /\ UNCHANGED <<session, closed, req, registered, tombstones, active, events, inHand>>

-----------------------------------------------------------------------------
Next ==
  \/ Start \/ Ready \/ StartFails \/ ReaderFails \/ Exit \/ Close
  \/ TakeCommand \/ LookUp \/ Dispatch
  \/ \E n \in active, last \in BOOLEAN : Emit(n, last)
  \/ \E id \in Ids : Send(id, FALSE) \/ CancelRequest(id)
  \/ Send(Len(req) + 1, TRUE)
  \/ \E n \in Requests : Open(n) \/ Read(n) \/ Timeout(n) \/ ClientGone(n)
                         \/ CancelOnLeave(n) \/ Unsubscribe(n)

Spec == Init /\ [][Next]_vars

-----------------------------------------------------------------------------
(* A stream yields the events of its own request only: an id is not given  *)
(* to a second request while events of the first may still come            *)
(* (send_command_with_subscription, unsubscribe, _dispatch).               *)
NoStrayEvent == \A n \in Requests : \A k \in DOMAIN req[n].buffer : req[n].buffer[k].of = n

(* A stream that is told of its end can still read it: the terminal event  *)
(* is the last of its buffer, however slow the client is.                  *)
TerminalStays ==
  \A n \in Requests : req[n].terminal /\ ~req[n].read =>
    req[n].buffer # <<>> /\ Last(req[n].buffer).last
=============================================================================
