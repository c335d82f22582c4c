----------------------------- MODULE SidecarHost -----------------------------
(***************************************************************************)
(* The desktop host (apps/tauri-host/src-tauri/src/sidecar.rs): it starts  *)
(* runtime child processes one after another, writes commands to the       *)
(* current one and routes its events to windows and private streams.       *)
(*                                                                         *)
(* The controller's lifecycle lock lets one operation of the user at a     *)
(* time in (op).  Beside it run: a reader thread per child, a timer per    *)
(* optimize request, threads that write a private cancel, and whoever      *)
(* holds the stream of an administration call.  They meet at the lock of   *)
(* `running`, at each child's table of active requests and at each         *)
(* request's lifecycle.  A child is a number: the pointer of its table,    *)
(* by which the code tells one generation from the next.  Where the code   *)
(* ends a request and takes it out of the table in two steps, the model    *)
(* takes one: a request that has ended receives nothing in between.        *)
(***************************************************************************)
EXTENDS Naturals, Sequences, FiniteSets

CONSTANTS
  Operations, Commands,
  CommandsOf,   \* the commands an operation sends, in order
  Kind,         \* "optimize", "query", "admin", "configure" or "cancel"
  Target,       \* the request a cancel is for
  MaxActive,    \* MAX_ACTIVE_REQUESTS
  MaxSeen,      \* max_seen_request_ids
  MaxChildren   \* bound: children started

ASSUME SidecarAssumption ==
  /\ CommandsOf \in [Operations -> Seq(Commands)]
  /\ \A o \in Operations : CommandsOf[o] # <<>>
  \* A command is one line: HostRequestRegistry refuses an id a second time.
  /\ \A o, p \in Operations : \A i \in DOMAIN CommandsOf[o], j \in DOMAIN CommandsOf[p] :
       CommandsOf[o][i] = CommandsOf[p][j] => o = p /\ i = j
  /\ Kind \in [Commands -> {"optimize", "query", "admin", "configure", "cancel"}]
  /\ Target \in [Commands -> Commands]
  /\ MaxActive \in Nat /\ MaxChildren \in Nat /\ MaxSeen \in Nat \ {0, 1}
  /\ Commands \cap {"free", "op"} = {}

VARIABLES
  op,         \* the operation under way: its step, commands left, generation expected (0: any)
  lock,       \* who holds the mutex of `running`: "free", "op", or the command a cancel is written for
  current,    \* the child in `running`, 0 for None
  started,    \* how many children were started
  child,      \* per child: the process, its flags, its table, its reader
  seen,       \* how many ids HostRequestRegistry.history holds
  life,       \* RequestLifecycle, and what ended it
  home,       \* the child a request was registered with
  timer,      \* the thread of spawn_request_timeout_after
  canceller,  \* the thread that runs send_private_cancel
  result      \* what the sender was told: "none", "sent", "refused"

vars == <<op, lock, current, started, child, seen, life, home, timer, canceller, result>>

Children == 1..MaxChildren
Nothing == <<>>
Idle == [at |-> "idle", todo |-> <<>>, gen |-> 0]
Steps == {"idle", "examine", "replace", "start", "claim", "write", "check", "ack", "cleanup", "warmStart"}
Lives == {"new", "active", "answered", "failed", "timedOut", "dropped"}
Child == [process : {"none", "running", "hung", "exited"}, unhealthy : BOOLEAN, stopping : BOOLEAN,
          table : SUBSET Commands, received : SUBSET Commands,
          reader : {"reading", "failing", "draining", "ended"},
          hand : {Nothing} \cup (Commands \X {"chunk", "answer", "bad"})]

TypeOK ==
  /\ op \in [at : Steps, todo : Seq(Commands), gen : 0..MaxChildren]
  /\ lock \in {"free", "op"} \cup Commands
  /\ current \in 0..started /\ started \in 0..MaxChildren
  /\ child \in [Children -> Child]
  /\ seen \in 0..MaxSeen
  /\ life \in [Commands -> Lives] /\ home \in [Commands -> 0..MaxChildren]
  /\ timer \in [Commands -> {"off", "armed", "condemned", "grace"}]
  /\ canceller \in [Commands -> {"off", "waiting", "writing"}]
  /\ result \in [Commands -> {"none", "sent", "refused"}]

Unborn == [process |-> "none", unhealthy |-> FALSE, stopping |-> FALSE, table |-> {},
           received |-> {}, reader |-> "reading", hand |-> Nothing]

Init ==
  /\ op = Idle /\ lock = "free" /\ current = 0 /\ started = 0
  /\ child = [g \in Children |-> Unborn] /\ seen = 0
  /\ life = [c \in Commands |-> "new"] /\ home = [c \in Commands |-> 0]
  /\ timer = [c \in Commands |-> "off"] /\ canceller = [c \in Commands |-> "off"]
  /\ result = [c \in Commands |-> "none"]

Bad(g) == child[g].unhealthy \/ child[g].process = "exited"
Active(g) == child[g].table
Public(c) == Kind[c] \in {"optimize", "query"}

\* fail_all_requests: who still waits at a child is told that the runtime is unavailable.
FailAll(g) == [c \in Commands |-> IF c \in Active(g) /\ life[c] = "active" THEN "failed" ELSE life[c]]

-----------------------------------------------------------------------------
(* Operations: one at a time, under the controller's lifecycle lock.       *)

CallVars == <<current, started, child, seen, life, home, timer, canceller>>
Head1 == Head(op.todo)
Go(at) == op' = [op EXCEPT !.at = at]

\* An error ends the whole operation.
Refuse == op' = Idle /\ lock' = "free" /\ result' = [result EXCEPT ![Head1] = "refused"]

Begin(o) ==
  /\ op.at = "idle" /\ \A k \in DOMAIN CommandsOf[o] : result[CommandsOf[o][k]] = "none"
  /\ op' = [at |-> "examine", todo |-> CommandsOf[o], gen |-> 0]
  /\ UNCHANGED <<lock, CallVars, result>>

\* A cancel is for a request of a public window that is in the table.
MissesItsTarget(c) ==
  Kind[c] = "cancel" /\ (current = 0 \/ Target[c] \notin Active(current) \/ ~Public(Target[c]))

\* What follows a configuration goes to the child that acknowledged it, or to none.
LostItsGeneration == op.gen # 0 /\ (current # op.gen \/ Bad(op.gen))

Examine ==
  /\ op.at = "examine" /\ lock = "free"
  /\ IF MissesItsTarget(Head1) \/ LostItsGeneration
     THEN Refuse
     ELSE /\ lock' = "op" /\ Go(IF current = 0 \/ Bad(current) THEN "replace" ELSE "claim")
          /\ UNCHANGED result
  /\ UNCHANGED CallVars

\* The requests of the child that is replaced are failed by the operation: its reader, told that
\* the child is stopping, leaves without.
Replace ==
  /\ op.at = "replace" /\ Go("start") /\ current' = 0
  /\ IF current = 0 THEN UNCHANGED <<child, life>>
     ELSE /\ child' = [child EXCEPT ![current].stopping = TRUE, ![current].process = "exited",
                                    ![current].table = {}]
          /\ life' = FailAll(current)
  /\ UNCHANGED <<lock, started, seen, home, timer, canceller, result>>

\* start_process: the start-up probe takes an id of its own and is answered with pong.
Start ==
  /\ op.at \in {"start", "warmStart"} /\ started < MaxChildren /\ seen < MaxSeen
  /\ started' = started + 1 /\ current' = started + 1 /\ seen' = seen + 1
  /\ child' = [child EXCEPT ![started + 1].process = "running"]
  /\ IF op.at = "start" THEN Go("claim") /\ UNCHANGED lock ELSE op' = Idle /\ lock' = "free"
  /\ UNCHANGED <<life, home, timer, canceller, result>>

\* Nothing is spawned, no id is left for the probe, or the child does not answer it and is aborted.
StartFails ==
  /\ op.at \in {"start", "warmStart"}
  /\ seen' \in {seen, seen + 1} \cap 0..MaxSeen
  /\ IF op.at = "start" THEN Refuse ELSE op' = Idle /\ lock' = "free" /\ UNCHANGED result
  /\ UNCHANGED <<current, started, child, life, home, timer, canceller>>

ClaimCancel ==
  /\ op.at = "claim" /\ Kind[Head1] = "cancel"
  /\ IF MissesItsTarget(Head1) THEN Refuse ELSE Go("write") /\ UNCHANGED <<lock, result>>
  /\ UNCHANGED CallVars

Room == Cardinality(Active(current)) < MaxActive

\* The request is filed, and an optimize request gets its timer.
Claim ==
  /\ op.at = "claim" /\ Kind[Head1] # "cancel" /\ Room /\ seen < MaxSeen
  /\ seen' = seen + 1 /\ Go("write")
  /\ child' = [child EXCEPT ![current].table = @ \cup {Head1}]
  /\ life' = [life EXCEPT ![Head1] = "active"] /\ home' = [home EXCEPT ![Head1] = current]
  /\ timer' = IF Kind[Head1] = "optimize" THEN [timer EXCEPT ![Head1] = "armed"] ELSE timer
  /\ UNCHANGED <<lock, current, started, canceller, result>>

\* No id is left and nobody waits: the child is stopped, every id forgotten, another started.
Renew ==
  /\ op.at = "claim" /\ Kind[Head1] # "cancel" /\ Room /\ seen = MaxSeen
  /\ op.gen = 0 /\ Active(current) = {}
  /\ child' = [child EXCEPT ![current].stopping = TRUE, ![current].process = "exited"]
  /\ current' = 0 /\ seen' = 0 /\ Go("start")
  /\ UNCHANGED <<lock, started, life, home, timer, canceller, result>>

ClaimFails ==
  /\ op.at = "claim" /\ Kind[Head1] # "cancel"
  /\ ~Room \/ (seen = MaxSeen /\ (op.gen # 0 \/ Active(current) # {}))
  /\ Refuse /\ UNCHANGED CallVars

\* A write to a child that hangs succeeds while the pipe has room, and then blocks, the lock held.
Write ==
  /\ op.at = "write" /\ child[current].process # "exited" /\ Go("check")
  /\ child' = [child EXCEPT ![current].received = IF Kind[Head1] = "cancel" THEN @ ELSE @ \cup {Head1}]
  /\ UNCHANGED <<lock, current, started, seen, life, home, timer, canceller, result>>

\* Mutated form of FailedTable: the sender only returns its error.
FailedTableKept == Active(current)

FailedTable == {}

\* The sender fails everyone who waits at the child, its own request among them.
FailAndRefuse(unhealthy) ==
  /\ child' = [child EXCEPT ![current].unhealthy = unhealthy, ![current].table = FailedTable]
  /\ life' = [c \in Commands |-> IF c \in FailedTable THEN life[c] ELSE FailAll(current)[c]]
  /\ Refuse

WriteFails ==
  /\ op.at = "write" /\ child[current].process # "running" /\ FailAndRefuse(TRUE)
  /\ UNCHANGED <<current, started, seen, home, timer, canceller>>

\* The operation goes on with its next command, or ends.
Next1(gen) ==
  op' = IF Len(op.todo) = 1 THEN Idle ELSE [at |-> "examine", todo |-> Tail(op.todo), gen |-> gen]

\* A child that became unhealthy meanwhile may have drained its table before the request was in it.
Check ==
  /\ op.at = "check"
  /\ IF child[current].unhealthy
     THEN FailAndRefuse(TRUE)
     ELSE /\ lock' = "free" /\ result' = [result EXCEPT ![Head1] = "sent"]
          /\ IF Kind[Head1] = "configure" THEN Go("ack") ELSE Next1(op.gen)
          /\ UNCHANGED <<child, life>>
  /\ UNCHANGED <<current, started, seen, home, timer, canceller>>

\* Mutated form of Generation: the command after a configuration may go to any child.
GenerationForgotten(c) == 0

\* The child that acknowledged a configuration is the one its operation must go on with.
Generation(c) == home[c]

\* The private stream of a configuration yields its answer within two seconds, ...
Ack ==
  /\ op.at = "ack" /\ life[Head1] \in {"answered", "failed"}
  /\ IF life[Head1] = "answered" THEN Next1(Generation(Head1)) ELSE op' = Idle
  /\ UNCHANGED <<lock, CallVars, result>>

\* PrivateEventStream.cleanup: whoever gives a stream up leaves the table and cancels the request.
GiveUp(c) ==
  /\ life' = [life EXCEPT ![c] = "dropped"]
  /\ child' = [child EXCEPT ![home[c]].table = @ \ {c}]
  /\ canceller' = [canceller EXCEPT ![c] = "waiting"]

\* A request found in the table: the reader may have taken it out since.
LastInHand(c) == child[home[c]].hand \in {<<c, "answer">>, <<c, "bad">>}
Found(c) == life[c] = "active" /\ (c \in Active(home[c]) \/ LastInHand(c))
Gone(c) == life[c] # "active" \/ c \notin Active(home[c])

\* ... or is given up, its cancel written before the error returns.
AckTimeout ==
  /\ op.at = "ack"
  /\ \/ Found(Head1) /\ GiveUp(Head1) /\ Go("cleanup")
     \/ Gone(Head1) /\ op' = Idle /\ UNCHANGED <<life, child, canceller>>
  /\ UNCHANGED <<lock, current, started, seen, home, timer, result>>

CleanedUp ==
  /\ op.at = "cleanup" /\ canceller[Head1] = "off" /\ op' = Idle
  /\ UNCHANGED <<lock, CallVars, result>>

Warmed == current # 0 /\ ~Bad(current)

\* A warm child stays; one that is bad is dropped for a new one without being stopped.
Warm ==
  /\ op.at = "idle" /\ lock = "free" /\ ~Warmed
  /\ Go("warmStart") /\ lock' = "op"
  /\ UNCHANGED <<CallVars, result>>

\* Everyone who waits is told; the shutdown command takes an id if there is one.
Shutdown ==
  /\ op.at = "idle" /\ lock = "free" /\ current # 0 /\ current' = 0
  /\ child' = [child EXCEPT ![current].stopping = TRUE, ![current].process = "exited",
                            ![current].table = {}]
  /\ life' = FailAll(current)
  /\ seen' = IF seen < MaxSeen THEN seen + 1 ELSE seen
  /\ UNCHANGED <<op, lock, started, home, timer, canceller, result>>

-----------------------------------------------------------------------------
(* The reader thread of a child (spawn_stdout_reader, route_parsed_event). *)

ReaderVars == <<op, lock, current, started, seen, home, timer, canceller, result>>
Reader(g) == child[g].reader

\* It looks a request up, and removes it before it passes a terminal event on.  What a child that
\* ended has left in the pipe is read before the end of the file.
Take(g, c, event) ==
  /\ Reader(g) = "reading" /\ child[g].hand = Nothing
  /\ c \in child[g].received \cap Active(g)
  /\ event = "chunk" => Kind[c] = "admin" /\ child[g].process # "exited"
  /\ child' = [child EXCEPT ![g].hand = <<c, event>>, ![g].table = IF event = "chunk" THEN @ ELSE @ \ {c}]
  /\ UNCHANGED <<ReaderVars, life>>

\* ActiveRequest.dispatch: a request that has ended takes nothing more.  A private stream whose
\* buffer is full is ended with a failure and leaves the table.
Dispatch(g, overflow) ==
  /\ Reader(g) = "reading" /\ child[g].hand # Nothing
  /\ LET c == child[g].hand[1]
         event == child[g].hand[2]
         full == event = "chunk" /\ overflow IN
       /\ full => Kind[c] = "admin" /\ life[c] = "active"
       /\ life' = [life EXCEPT ![c] = IF @ # "active" THEN @
                                      ELSE IF event = "answer" THEN "answered"
                                      ELSE IF event = "bad" \/ full THEN "failed" ELSE @]
       /\ child' = [child EXCEPT ![g].hand = Nothing,
                                 ![g].table = IF life'[c] = "active" THEN @ ELSE @ \ {c}]
  /\ UNCHANGED ReaderVars

\* A line that is too long, unreadable or of nobody: the child is not trusted any more.
BadLine(g) ==
  /\ child[g].process # "none" /\ Reader(g) = "reading" /\ child[g].hand = Nothing
  /\ child' = [child EXCEPT ![g].unhealthy = TRUE, ![g].reader = "failing"]
  /\ UNCHANGED <<ReaderVars, life>>

\* Mutated form of Condemns: the reader always leaves the requests to somebody else.
CondemnsNobody(g) == FALSE

Condemns(g) == ~child[g].stopping

Leave(g) ==
  child' = [child EXCEPT ![g].table = IF Reader(g) = "failing" THEN {} ELSE @,
                         ![g].unhealthy = @ \/ Condemns(g),
                         ![g].reader = IF Condemns(g) THEN "draining" ELSE "ended"]

\* After a bad line the requests are failed; then, as after the end of the file, the reader
\* condemns the child unless somebody is stopping it.
FailBadLine(g) ==
  /\ Reader(g) = "failing" /\ life' = FailAll(g) /\ Leave(g)
  /\ UNCHANGED ReaderVars

Eof(g) ==
  /\ Reader(g) = "reading" /\ child[g].process = "exited" /\ child[g].hand = Nothing
  /\ Leave(g)
  /\ UNCHANGED <<ReaderVars, life>>

\* The requests are failed, then the child is terminated.
Drain(g) ==
  /\ Reader(g) = "draining" /\ life' = FailAll(g)
  /\ child' = [child EXCEPT ![g].table = {}, ![g].reader = "ended", ![g].process = "exited"]
  /\ UNCHANGED ReaderVars

-----------------------------------------------------------------------------
(* The timer of an optimize request (spawn_request_timeout_after).         *)

TimerVars == <<op, lock, current, started, seen, home, result>>
Tick(c, at) == timer' = [timer EXCEPT ![c] = at]

\* A request that is still active is told of the timeout and cancelled by a thread of its own;
\* the child is not trusted any more, and then its other requests are failed.
Fire(c) ==
  /\ timer[c] = "armed"
  /\ \/ /\ Found(c) /\ Tick(c, "condemned")
        /\ life' = [life EXCEPT ![c] = "timedOut"]
        /\ child' = [child EXCEPT ![home[c]].table = @ \ {c}, ![home[c]].unhealthy = TRUE]
        /\ canceller' = [canceller EXCEPT ![c] = "waiting"]
     \/ Gone(c) /\ Tick(c, "off") /\ UNCHANGED <<life, child, canceller>>
  /\ UNCHANGED TimerVars

FailTheOthers(c) ==
  /\ timer[c] = "condemned" /\ Tick(c, "grace")
  /\ life' = FailAll(home[c]) /\ child' = [child EXCEPT ![home[c]].table = {}]
  /\ UNCHANGED <<TimerVars, canceller>>

\* Mutated form of MayKill: the child is terminated under the lock of `running`.
MayKillLocked == lock = "free"

\* The terminator needs no lock: a write that blocks holds the one of `running`.
MayKill == TRUE

Kill(c) ==
  /\ timer[c] = "grace" /\ MayKill /\ Tick(c, "off")
  /\ child' = [child EXCEPT ![home[c]].process = "exited"]
  /\ UNCHANGED <<TimerVars, life, canceller>>

-----------------------------------------------------------------------------
(* send_private_cancel, and the holder of the stream of an administration call. *)

CancelVars == <<op, current, started, seen, home, timer, result>>

LockForCancel(c) ==
  /\ canceller[c] = "waiting" /\ lock = "free"
  /\ IF current = home[c] THEN lock' = c /\ canceller' = [canceller EXCEPT ![c] = "writing"]
     ELSE canceller' = [canceller EXCEPT ![c] = "off"] /\ UNCHANGED lock
  /\ UNCHANGED <<CancelVars, child, life>>

WriteCancel(c) ==
  /\ canceller[c] = "writing" /\ child[home[c]].process # "exited"
  /\ canceller' = [canceller EXCEPT ![c] = "off"] /\ lock' = "free"
  /\ UNCHANGED <<CancelVars, child, life>>

WriteCancelFails(c) ==
  /\ canceller[c] = "writing" /\ child[home[c]].process # "running"
  /\ canceller' = [canceller EXCEPT ![c] = "off"] /\ lock' = "free"
  /\ child' = [child EXCEPT ![home[c]].unhealthy = TRUE, ![home[c]].table = {}]
  /\ life' = FailAll(home[c])
  /\ UNCHANGED CancelVars

\* The user cancels, or the loop that collects the events of the call leaves.
DropStream(c) ==
  /\ Kind[c] = "admin" /\ result[c] = "sent" /\ Found(c) /\ GiveUp(c)
  /\ UNCHANGED <<op, lock, current, started, seen, home, timer, result>>

-----------------------------------------------------------------------------
(* The child process, and the whole.                                       *)

Hang(g) ==
  /\ child[g].process = "running" /\ child' = [child EXCEPT ![g].process = "hung"]
  /\ UNCHANGED <<ReaderVars, life>>

Exit(g) ==
  /\ child[g].process \in {"running", "hung"} /\ child' = [child EXCEPT ![g].process = "exited"]
  /\ UNCHANGED <<ReaderVars, life>>

Operate ==
  \/ Examine \/ Replace \/ Start \/ StartFails \/ ClaimCancel \/ Claim \/ Renew \/ ClaimFails
  \/ Check \/ Ack \/ AckTimeout \/ CleanedUp

Route(g) ==
  (\E overflow \in BOOLEAN : Dispatch(g, overflow)) \/ FailBadLine(g) \/ Eof(g) \/ Drain(g)

TimeOut(c) == Fire(c) \/ FailTheOthers(c) \/ Kill(c)

Cancel(c) == LockForCancel(c) \/ WriteCancel(c) \/ WriteCancelFails(c)

Next ==
  \/ Operate \/ Write \/ WriteFails \/ Warm \/ Shutdown \/ \E o \in Operations : Begin(o)
  \/ \E c \in Commands : TimeOut(c) \/ Cancel(c) \/ DropStream(c)
  \/ \E g \in Children : Route(g) \/ BadLine(g) \/ Hang(g) \/ Exit(g)
  \/ \E g \in Children, c \in Commands, event \in {"chunk", "answer", "bad"} : Take(g, c, event)

\* The host's threads run and time passes; a write is bound to return only from a child that
\* reads or is gone, and the child itself owes nothing.
Returns(g) == child[g].process # "hung"

Fairness ==
  /\ WF_vars(Operate \/ (op.at = "write" /\ Returns(current) /\ (Write \/ WriteFails)))
  /\ \A g \in Children : WF_vars(Route(g))
  /\ WF_vars(\E c \in Commands : TimeOut(c))
  /\ WF_vars(\E c \in Commands :
       \/ LockForCancel(c)
       \/ canceller[c] = "writing" /\ Returns(home[c]) /\ (WriteCancel(c) \/ WriteCancelFails(c)))

Spec == Init /\ [][Next]_vars
FairSpec == Spec /\ Fairness

-----------------------------------------------------------------------------
\* A request waits exactly while events can reach it: it is in the table of its child, or the
\* reader has its last event in hand.  So no request that ended takes a place in a table, and
\* none whose sender was told of a failure does.
RoutesAreTrue ==
  \A c \in Commands :
    /\ \A g \in Children : c \in Active(g) =>
         life[c] = "active" /\ home[c] = g /\ result[c] # "refused"
    /\ life[c] = "active" =>
         c \in Active(home[c]) \/ LastInHand(c)

\* The configurations that c's operation sends before it.
Before(c) ==
  {k \in Commands : \E o \in Operations : \E i, j \in DOMAIN CommandsOf[o] :
     i < j /\ CommandsOf[o][i] = k /\ CommandsOf[o][j] = c /\ Kind[k] = "configure"}

\* No child is given a request whose configuration it did not itself acknowledge, even if
\* children were replaced between the two.
ConfiguredFirst ==
  \A g \in Children : \A c \in child[g].received : \A k \in Before(c) :
    home[k] = g /\ life[k] = "answered"

Abandoned(g) == child[g].stopping \/ Bad(g)

\* In the end nobody waits for an optimize request, or at a child that is gone or not trusted any
\* more; and a timeout has freed the host from a child that hangs: a write that still blocks has
\* no timer that could end it.
NobodyIsLeftWaiting ==
  <>[](/\ \A c \in Commands :
            /\ timer[c] = "off"
            /\ life[c] = "active" => Kind[c] # "optimize" /\ ~Abandoned(home[c])
       /\ op.at = "write" => child[current].process = "hung")
=============================================================================
