----------------------------- MODULE Hosts_proofs -----------------------------
(***************************************************************************)
(* Proofs about the two hosts.  The desktop host (SidecarHost), for every  *)
(* set of operations and commands and any number of children: its types,   *)
(* the truth of the routing tables, and that a request goes to no child    *)
(* but the one that was configured for it.  The HTTP host (HttpGateway),   *)
(* for any number of requests and any size of its buffers: its types, that *)
(* an end that was told can be read, and that streams are not mixed while  *)
(* the tombstones have room for the ids that are still open.               *)
(***************************************************************************)
EXTENDS Hosts, Integers, SequencesExt, FiniteSetTheorems, TLAPS

Underway == op.at \notin {"idle", "warmStart"}
Writing == op.at \in {"write", "check"}
Waiting == op.at \in {"ack", "cleanup"}

\* What is left of operation o from its n-th command on; the configurations before it were
\* acknowledged by one child, which the operation remembers.
LeftOf(o, n) ==
  /\ Len(op.todo) = Len(CommandsOf[o]) - n + 1
  /\ \A i \in 1..Len(op.todo) : op.todo[i] = CommandsOf[o][n + i - 1]
  /\ \A i \in 1..(n - 1) : LET k == CommandsOf[o][i] IN
       Kind[k] = "configure" => op.gen # 0 /\ life[k] = "answered" /\ home[k] = op.gen

Sequenced == Underway => \E o \in Operations : \E n \in DOMAIN CommandsOf[o] : LeftOf(o, n)

\* A command that its sender knows nothing of was not registered, unless it is being written.
Fresh ==
  /\ Underway => \A i \in 1..Len(op.todo) : (Waiting /\ i = 1) \/ result[op.todo[i]] = "none"
  /\ \A c \in Commands : result[c] = "none" => life[c] = "new" \/ (Writing /\ c = Head1)
  /\ \A c \in Commands : Kind[c] = "cancel" => life[c] = "new"

\* The child an operation deals with is the one it configured, and the one its request is at.
AtItsChild ==
  /\ op.at \in {"replace", "start"} => op.gen = 0
  /\ op.at = "claim" \/ Writing => current # 0 /\ (op.gen # 0 => current = op.gen)
  /\ Writing \/ Waiting => Kind[Head1] = "cancel" \/
       /\ life[Head1] # "new"
       /\ Writing => home[Head1] = current
       /\ op.gen # 0 => home[Head1] = op.gen
  /\ Waiting => Kind[Head1] = "configure"

\* Only a registered request has a child, a timer, a cancel or an event in a reader's hand.
Registered ==
  /\ \A c \in Commands : life[c] # "new" => home[c] \in Children
  /\ \A c \in Commands : life[c] = "new" => timer[c] = "off" /\ canceller[c] = "off"
  /\ \A g \in Children : child[g].hand # Nothing =>
       LET c == child[g].hand[1] IN
         /\ life[c] # "new" /\ home[c] = g
         /\ child[g].hand[2] # "chunk" => c \notin Active(g)

SidecarInv ==
  TypeOK /\ Sequenced /\ Fresh /\ AtItsChild /\ Registered /\ RoutesAreTrue /\ ConfiguredFirst
-----------------------------------------------------------------------------
(* Types, one group of variables after the other.                          *)

ChildTyped == child \in [Children -> Child]

RequestsTyped ==
  /\ life \in [Commands -> Lives] /\ home \in [Commands -> 0..MaxChildren]
  /\ timer \in [Commands -> {"off", "armed", "condemned", "grace"}]
  /\ canceller \in [Commands -> {"off", "waiting", "writing"}]
  /\ result \in [Commands -> {"none", "sent", "refused"}]

OpTyped ==
  /\ op \in [at : Steps, todo : Seq(Commands), gen : 0..MaxChildren]
  /\ lock \in {"free", "op"} \cup Commands

CountsTyped == current \in 0..started /\ started \in 0..MaxChildren /\ seen \in 0..MaxSeen

LEMMA TypeParts == TypeOK <=> ChildTyped /\ RequestsTyped /\ OpTyped /\ CountsTyped
  BY DEF TypeOK, ChildTyped, RequestsTyped, OpTyped, CountsTyped

\* An operation under way has a command left.
LEMMA HeadTyped ==
  ASSUME OpTyped, Sequenced, Underway
  PROVE  op.todo \in Seq(Commands) /\ op.todo # <<>> /\ Head1 \in Commands
<1>1. op.todo \in Seq(Commands)
  BY DEF OpTyped
<1>2. PICK o \in Operations : \E n \in DOMAIN CommandsOf[o] : LeftOf(o, n)
  BY DEF Sequenced
<1>3. CommandsOf[o] \in Seq(Commands)
  BY SidecarAssumption
<1>4. Len(op.todo) > 0
  BY <1>1, <1>2, <1>3 DEF LeftOf
<1> QED
  BY <1>1, <1>4 DEF Head1

-----------------------------------------------------------------------------
(* What a step does to the children and the requests.                      *)

\* Child g is changed, and what the proofs look at in it is then this.
Turns(g, table, hand, received) ==
  \E new \in Child :
    /\ child' = [child EXCEPT ![g] = new]
    /\ new.table = table /\ new.hand = hand /\ new.received = received

Rests == UNCHANGED <<child, life, home>>

Keeps(g) ==
  /\ Turns(g, child[g].table, child[g].hand, child[g].received)
  /\ UNCHANGED <<life, home>>

Empties(g) ==
  /\ Turns(g, {}, child[g].hand, child[g].received)
  /\ life' = FailAll(g) /\ UNCHANGED home

Ends(g, c) ==
  /\ life[c] = "active" /\ home[c] = g
  /\ Turns(g, child[g].table \ {c}, child[g].hand, child[g].received)
  /\ \E end \in {"timedOut", "dropped"} : life' = [life EXCEPT ![c] = end]
  /\ UNCHANGED home

Receives(g, c) ==
  /\ Write /\ g = current /\ c = Head1 /\ Kind[c] # "cancel"
  /\ Turns(g, child[g].table, child[g].hand, child[g].received \cup {c})
  /\ UNCHANGED <<life, home>>

Claims(g, c) ==
  /\ Claim /\ g = current /\ c = Head1 /\ Kind[c] # "cancel"
  /\ Turns(g, child[g].table \cup {c}, child[g].hand, child[g].received)
  /\ life' = [life EXCEPT ![c] = "active"] /\ home' = [home EXCEPT ![c] = g]

Takes(g, c, event) ==
  /\ child[g].hand = Nothing /\ c \in child[g].table
  /\ Turns(g, IF event = "chunk" THEN child[g].table ELSE child[g].table \ {c},
           <<c, event>>, child[g].received)
  /\ UNCHANGED <<life, home>>

Dispatches(g, c) ==
  /\ child[g].hand # Nothing /\ c = child[g].hand[1]
  /\ Turns(g, IF life'[c] = "active" THEN child[g].table ELSE child[g].table \ {c},
           Nothing, child[g].received)
  /\ \/ UNCHANGED life /\ (life[c] = "active" => child[g].hand[2] = "chunk")
     \/ life[c] = "active" /\ \E end \in {"answered", "failed"} : life' = [life EXCEPT ![c] = end]
  /\ UNCHANGED home

Effect ==
  \/ Rests
  \/ \E g \in Children : Keeps(g) \/ Empties(g)
  \/ \E g \in Children, c \in Commands :
       \/ Ends(g, c) \/ Receives(g, c) \/ Claims(g, c) \/ Dispatches(g, c)
       \/ \E event \in {"chunk", "answer", "bad"} : Takes(g, c, event)

LEMMA TurnsOnly ==
  ASSUME ChildTyped, NEW g \in Children, NEW table, NEW hand, NEW received,
         Turns(g, table, hand, received)
  PROVE  /\ ChildTyped'
         /\ child'[g].table = table /\ child'[g].hand = hand /\ child'[g].received = received
         /\ \A h \in Children : h # g => child'[h] = child[h]
  BY DEF Turns, ChildTyped

\* The steps that change how a child is doing and nothing of its table.
LEMMA KeepingSteps ==
  ASSUME ChildTyped, NEW g \in Children,
         \/ Hang(g) \/ Exit(g) \/ BadLine(g) \/ Eof(g)
         \/ Start /\ g = started + 1
         \/ Renew /\ g = current
         \/ \E c \in Commands : Kill(c) /\ g = home[c]
  PROVE  Keeps(g)
<1>1. child[g] \in Child
  BY DEF ChildTyped
<1>2. ASSUME NEW new \in Child, child' = [child EXCEPT ![g] = new], new.table = child[g].table,
             new.hand = child[g].hand, new.received = child[g].received
      PROVE  Keeps(g) <=> UNCHANGED <<life, home>>
  BY <1>2 DEF Keeps, Turns
<1>3. CASE Hang(g)
  <2> DEFINE new == [child[g] EXCEPT !.process = "hung"]
  <2>1. new \in Child /\ new.table = child[g].table /\ new.hand = child[g].hand
        /\ new.received = child[g].received
    BY <1>1 DEF Child
  <2> QED
    BY <1>2, <1>3, <2>1 DEF Hang, ReaderVars
<1>4. CASE Exit(g) \/ \E c \in Commands : Kill(c) /\ g = home[c]
  <2> DEFINE new == [child[g] EXCEPT !.process = "exited"]
  <2>1. new \in Child /\ new.table = child[g].table /\ new.hand = child[g].hand
        /\ new.received = child[g].received
    BY <1>1 DEF Child
  <2>2. child' = [child EXCEPT ![g] = new] /\ UNCHANGED <<life, home>>
    BY <1>4 DEF Exit, Kill, ReaderVars, TimerVars
  <2> QED
    BY <1>2, <2>1, <2>2
<1>5. CASE BadLine(g)
  <2> DEFINE new == [child[g] EXCEPT !.unhealthy = TRUE, !.reader = "failing"]
  <2>1. new \in Child /\ new.table = child[g].table /\ new.hand = child[g].hand
        /\ new.received = child[g].received
    BY <1>1 DEF Child
  <2>2. child' = [child EXCEPT ![g] = new] /\ UNCHANGED <<life, home>>
    BY <1>5 DEF BadLine, ReaderVars, ChildTyped
  <2> QED
    BY <1>2, <2>1, <2>2
<1>6. CASE Eof(g)
  <2> DEFINE new == [child[g] EXCEPT !.table = child[g].table,
                                     !.unhealthy = @ \/ Condemns(g),
                                     !.reader = IF Condemns(g) THEN "draining" ELSE "ended"]
  <2>1. new \in Child /\ new.table = child[g].table /\ new.hand = child[g].hand
        /\ new.received = child[g].received
    BY <1>1 DEF Child, Condemns
  <2>2. child' = [child EXCEPT ![g] = new] /\ UNCHANGED <<life, home>>
    BY <1>6 DEF Eof, Leave, Reader, ReaderVars, ChildTyped
  <2> QED
    BY <1>2, <2>1, <2>2
<1>7. CASE Start /\ g = started + 1
  <2> DEFINE new == [child[g] EXCEPT !.process = "running"]
  <2>1. new \in Child /\ new.table = child[g].table /\ new.hand = child[g].hand
        /\ new.received = child[g].received
    BY <1>1 DEF Child
  <2>2. child' = [child EXCEPT ![g] = new] /\ UNCHANGED <<life, home>>
    BY <1>7 DEF Start
  <2> QED
    BY <1>2, <2>1, <2>2
<1>8. CASE Renew /\ g = current
  <2> DEFINE new == [child[g] EXCEPT !.stopping = TRUE, !.process = "exited"]
  <2>1. new \in Child /\ new.table = child[g].table /\ new.hand = child[g].hand
        /\ new.received = child[g].received
    BY <1>1 DEF Child
  <2>2. child' = [child EXCEPT ![g] = new] /\ UNCHANGED <<life, home>>
    BY <1>8 DEF Renew, ChildTyped
  <2> QED
    BY <1>2, <2>1, <2>2
<1> QED
  BY <1>3, <1>4, <1>5, <1>6, <1>7, <1>8

\* The steps that fail everyone who waits at a child.
LEMMA EmptyingSteps ==
  ASSUME ChildTyped, NEW g \in Children,
         \/ FailBadLine(g) \/ Drain(g)
         \/ Replace /\ g = current
         \/ Shutdown /\ g = current
         \/ g = current /\ FailAndRefuse(TRUE) /\ UNCHANGED home
         \/ \E c \in Commands : g = home[c] /\ (FailTheOthers(c) \/ WriteCancelFails(c))
  PROVE  Empties(g)
<1>1. child[g] \in Child
  BY DEF ChildTyped
<1>2. ASSUME NEW new \in Child, child' = [child EXCEPT ![g] = new], new.table = {},
             new.hand = child[g].hand, new.received = child[g].received,
             life' = FailAll(g), UNCHANGED home
      PROVE  Empties(g)
  BY <1>2 DEF Empties, Turns
<1>3. CASE FailBadLine(g)
  <2> DEFINE new == [child[g] EXCEPT !.table = {},
                                     !.unhealthy = @ \/ Condemns(g),
                                     !.reader = IF Condemns(g) THEN "draining" ELSE "ended"]
  <2>1. new \in Child /\ new.table = {} /\ new.hand = child[g].hand
        /\ new.received = child[g].received
    BY <1>1 DEF Child, Condemns
  <2>2. child' = [child EXCEPT ![g] = new] /\ life' = FailAll(g) /\ UNCHANGED home
    BY <1>3 DEF FailBadLine, Leave, Reader, ReaderVars, ChildTyped
  <2> QED
    BY <1>2, <2>1, <2>2
<1>4. CASE Drain(g)
  <2> DEFINE new == [child[g] EXCEPT !.table = {}, !.reader = "ended", !.process = "exited"]
  <2>1. new \in Child /\ new.table = {} /\ new.hand = child[g].hand
        /\ new.received = child[g].received
    BY <1>1 DEF Child
  <2>2. child' = [child EXCEPT ![g] = new] /\ life' = FailAll(g) /\ UNCHANGED home
    BY <1>4 DEF Drain, ReaderVars, ChildTyped
  <2> QED
    BY <1>2, <2>1, <2>2
<1>5. CASE (Replace \/ Shutdown) /\ g = current
  <2> DEFINE new == [child[g] EXCEPT !.stopping = TRUE, !.process = "exited", !.table = {}]
  <2>1. new \in Child /\ new.table = {} /\ new.hand = child[g].hand
        /\ new.received = child[g].received
    BY <1>1 DEF Child
  <2>2. g # 0
    BY DEF Children
  <2>3. child' = [child EXCEPT ![g] = new] /\ life' = FailAll(g) /\ UNCHANGED home
    BY <1>5, <2>2 DEF Replace, Shutdown, ChildTyped
  <2> QED
    BY <1>2, <2>1, <2>3
<1>6. CASE g = current /\ FailAndRefuse(TRUE) /\ UNCHANGED home
  <2> DEFINE new == [child[g] EXCEPT !.unhealthy = TRUE, !.table = {}]
  <2>1. new \in Child /\ new.table = {} /\ new.hand = child[g].hand
        /\ new.received = child[g].received
    BY <1>1 DEF Child
  <2>2. child' = [child EXCEPT ![g] = new]
    BY <1>6 DEF FailAndRefuse, FailedTable, ChildTyped
  <2>3. life' = FailAll(g)
    BY <1>6 DEF FailAndRefuse, FailedTable, FailAll
  <2> QED
    BY <1>2, <1>6, <2>1, <2>2, <2>3
<1>7. ASSUME NEW c \in Commands, g = home[c], FailTheOthers(c)
      PROVE  Empties(g)
  <2> DEFINE new == [child[g] EXCEPT !.table = {}]
  <2>1. new \in Child /\ new.table = {} /\ new.hand = child[g].hand
        /\ new.received = child[g].received
    BY <1>1 DEF Child
  <2> QED
    BY <1>2, <1>7, <2>1 DEF FailTheOthers, TimerVars
<1>8. ASSUME NEW c \in Commands, g = home[c], WriteCancelFails(c)
      PROVE  Empties(g)
  <2> DEFINE new == [child[g] EXCEPT !.unhealthy = TRUE, !.table = {}]
  <2>1. new \in Child /\ new.table = {} /\ new.hand = child[g].hand
        /\ new.received = child[g].received
    BY <1>1 DEF Child
  <2>2. child' = [child EXCEPT ![g] = new]
    BY <1>8 DEF WriteCancelFails, ChildTyped
  <2> QED
    BY <1>2, <1>8, <2>1, <2>2 DEF WriteCancelFails, CancelVars
<1> QED
  BY <1>3, <1>4, <1>5, <1>6, <1>7, <1>8

\* Whoever gives a request up finds it active, at its child.
LEMMA EndingSteps ==
  ASSUME ChildTyped, NEW c \in Commands, home[c] \in Children, Found(c),
         \/ GiveUp(c) /\ UNCHANGED home
         \/ Fire(c) /\ life' # life
  PROVE  Ends(home[c], c)
<1> DEFINE g == home[c]
<1>1. child[g] \in Child /\ life[c] = "active"
  BY DEF ChildTyped, Found
<1>2. ASSUME NEW new \in Child, child' = [child EXCEPT ![g] = new],
             new.table = child[g].table \ {c}, new.hand = child[g].hand,
             new.received = child[g].received, UNCHANGED home,
             NEW end \in {"timedOut", "dropped"}, life' = [life EXCEPT ![c] = end]
      PROVE  Ends(g, c)
  BY <1>1, <1>2 DEF Ends, Turns
<1>3. CASE GiveUp(c) /\ UNCHANGED home
  <2> DEFINE new == [child[g] EXCEPT !.table = @ \ {c}]
  <2>1. new \in Child /\ new.table = child[g].table \ {c} /\ new.hand = child[g].hand
        /\ new.received = child[g].received
    BY <1>1 DEF Child
  <2>2. child' = [child EXCEPT ![g] = new] /\ life' = [life EXCEPT ![c] = "dropped"]
    BY <1>3 DEF GiveUp
  <2> HIDE DEF new
  <2> QED
    BY <1>2, <1>3, <2>1, <2>2
<1>4. CASE Fire(c) /\ life' # life
  <2> DEFINE new == [child[g] EXCEPT !.table = @ \ {c}, !.unhealthy = TRUE]
  <2>1. new \in Child /\ new.table = child[g].table \ {c} /\ new.hand = child[g].hand
        /\ new.received = child[g].received
    BY <1>1 DEF Child
  <2>2. child' = [child EXCEPT ![g] = new] /\ life' = [life EXCEPT ![c] = "timedOut"]
        /\ UNCHANGED home
    BY <1>4 DEF Fire, TimerVars, ChildTyped
  <2> HIDE DEF new
  <2> QED
    BY <1>2, <2>1, <2>2
<1> QED
  BY <1>3, <1>4
\* A request is registered with the child at hand, and written to it.
LEMMA SendingSteps ==
  ASSUME ChildTyped, OpTyped, Sequenced, Underway, NEW g \in Children, g = current,
         \/ Claim
         \/ Write /\ Kind[Head1] # "cancel"
  PROVE  Claims(g, Head1) \/ Receives(g, Head1)
<1>1. child[g] \in Child /\ Head1 \in Commands
  BY HeadTyped DEF ChildTyped
<1>2. CASE Claim
  <2> DEFINE new == [child[g] EXCEPT !.table = @ \cup {Head1}]
  <2>1. new \in Child /\ new.table = child[g].table \cup {Head1} /\ new.hand = child[g].hand
        /\ new.received = child[g].received
    BY <1>1 DEF Child
  <2>2. /\ child' = [child EXCEPT ![g] = new]
        /\ life' = [life EXCEPT ![Head1] = "active"] /\ home' = [home EXCEPT ![Head1] = g]
        /\ Kind[Head1] # "cancel"
    BY <1>2 DEF Claim
  <2> HIDE DEF new
  <2>3. Turns(g, child[g].table \cup {Head1}, child[g].hand, child[g].received)
    BY <2>1, <2>2 DEF Turns
  <2> QED
    BY <1>2, <2>2, <2>3 DEF Claims
<1>3. CASE Write /\ Kind[Head1] # "cancel"
  <2> DEFINE new == [child[g] EXCEPT !.received = @ \cup {Head1}]
  <2>1. new \in Child /\ new.received = child[g].received \cup {Head1}
        /\ new.hand = child[g].hand /\ new.table = child[g].table
    BY <1>1 DEF Child
  <2>2. child' = [child EXCEPT ![g] = new] /\ UNCHANGED <<life, home>>
    BY <1>3 DEF Write
  <2> HIDE DEF new
  <2>3. Turns(g, child[g].table, child[g].hand, child[g].received \cup {Head1})
    BY <2>1, <2>2 DEF Turns
  <2> QED
    BY <1>3, <2>2, <2>3 DEF Receives
<1> QED
  BY <1>2, <1>3

\* A cancel is written and leaves no trace at the child.
LEMMA WritingACancel ==
  ASSUME ChildTyped, NEW g \in Children, g = current, Write, Kind[Head1] = "cancel"
  PROVE  Keeps(g)
<1>1. child[g] \in Child
  BY DEF ChildTyped
<1>2. child' = [child EXCEPT ![g] = [child[g] EXCEPT !.received = child[g].received]]
      /\ UNCHANGED <<life, home>>
  BY DEF Write
<1>3. child' = [child EXCEPT ![g] = child[g]]
  BY <1>1, <1>2 DEF Child
<1> QED
  BY <1>1, <1>2, <1>3 DEF Keeps, Turns

\* The reader takes an event in hand and passes it on.
LEMMA ReadingSteps ==
  ASSUME ChildTyped, RequestsTyped, NEW g \in Children
  PROVE  /\ \A c \in Commands, event \in {"chunk", "answer", "bad"} :
              Take(g, c, event) => Takes(g, c, event)
         /\ \A overflow \in BOOLEAN : Dispatch(g, overflow) =>
              child[g].hand[1] \in Commands /\ Dispatches(g, child[g].hand[1])
<1>1. child[g] \in Child
  BY DEF ChildTyped
<1>2. ASSUME NEW c \in Commands, NEW event \in {"chunk", "answer", "bad"}, Take(g, c, event)
      PROVE  Takes(g, c, event)
  <2> DEFINE table == IF event = "chunk" THEN child[g].table ELSE child[g].table \ {c}
  <2> DEFINE new == [child[g] EXCEPT !.hand = <<c, event>>, !.table = table]
  <2>1. <<c, event>> \in Commands \X {"chunk", "answer", "bad"} /\ table \in SUBSET Commands
    BY <1>1 DEF Child
  <2>2. new \in Child /\ new.table = table /\ new.hand = <<c, event>>
        /\ new.received = child[g].received
    BY <1>1, <2>1 DEF Child
  <2>3. child' = [child EXCEPT ![g] = new] /\ UNCHANGED <<life, home>>
    BY <1>2 DEF Take, ReaderVars, ChildTyped
  <2>4. child[g].hand = Nothing /\ c \in child[g].table
    BY <1>2 DEF Take, Active
  <2> HIDE DEF new
  <2>5. Turns(g, table, <<c, event>>, child[g].received)
    BY <2>2, <2>3 DEF Turns
  <2> QED
    BY <2>3, <2>4, <2>5 DEF Takes
<1>3. ASSUME NEW overflow \in BOOLEAN, Dispatch(g, overflow)
      PROVE  child[g].hand[1] \in Commands /\ Dispatches(g, child[g].hand[1])
  <2> DEFINE c == child[g].hand[1]
             event == child[g].hand[2]
             table == IF life'[c] = "active" THEN child[g].table ELSE child[g].table \ {c}
             new == [child[g] EXCEPT !.hand = Nothing, !.table = table]
  <2>1. child[g].hand # Nothing
    BY <1>3 DEF Dispatch
  <2>2. c \in Commands /\ event \in {"chunk", "answer", "bad"}
    BY <1>1, <2>1 DEF Child
  <2>3. child' = [child EXCEPT ![g] = new] /\ UNCHANGED home
    BY <1>3 DEF Dispatch, ReaderVars, ChildTyped
  <2>4. new \in Child /\ new.table = table /\ new.hand = Nothing
        /\ new.received = child[g].received
    BY <1>1 DEF Child
  <2> HIDE DEF new
  <2>5. Turns(g, table, Nothing, child[g].received)
    BY <2>3, <2>4 DEF Turns
  <2>6. \/ UNCHANGED life /\ (life[c] = "active" => event = "chunk")
        \/ life[c] = "active" /\ \E end \in {"answered", "failed"} : life' = [life EXCEPT ![c] = end]
    <3>1. life' = [life EXCEPT ![c] = IF @ # "active" THEN @
                                      ELSE IF event = "answer" THEN "answered"
                                      ELSE IF event = "bad" \/ (event = "chunk" /\ overflow)
                                           THEN "failed" ELSE @]
      BY <1>3 DEF Dispatch
    <3>2. life = [x \in Commands |-> life[x]]
      BY DEF RequestsTyped
    <3>3. CASE life[c] # "active"
      BY <2>2, <3>1, <3>2, <3>3
    <3>4. CASE life[c] = "active" /\ event = "chunk" /\ ~overflow
      BY <2>2, <3>1, <3>2, <3>4
    <3>5. CASE life[c] = "active" /\ event = "answer"
      BY <3>1, <3>5
    <3>6. CASE life[c] = "active" /\ event = "bad"
      BY <3>1, <3>6
    <3>7. CASE life[c] = "active" /\ event = "chunk" /\ overflow
      BY <3>1, <3>7
    <3>8. CASE overflow
      BY <2>2, <3>3, <3>5, <3>6, <3>7, <3>8
    <3>9. CASE ~overflow
      BY <2>2, <3>3, <3>4, <3>5, <3>6, <3>9
    <3> QED
      BY <3>8, <3>9
  <2> QED
    BY <2>1, <2>2, <2>3, <2>5, <2>6 DEF Dispatches
<1> QED
  BY <1>2, <1>3

\* Nothing else happens to the children and the requests.
LEMMA StepsHaveEffects ==
  ASSUME SidecarInv, Next
  PROVE  Effect
<1>0. ChildTyped /\ RequestsTyped /\ OpTyped /\ CountsTyped
      /\ Sequenced /\ Fresh /\ AtItsChild /\ Registered
  BY TypeParts DEF SidecarInv
<1>1. current # 0 => current \in Children
  BY <1>0, SidecarAssumption DEF CountsTyped, Children
<1>2. \A c \in Commands : life[c] # "new" => home[c] \in Children
  BY <1>0 DEF Registered
<1>3. CASE Replace
  <2>1. CASE current = 0
    BY <1>3, <2>1 DEF Replace, Effect, Rests
  <2>2. CASE current # 0
    <3>1. Empties(current)
      BY <1>0, <1>1, <1>3, <2>2, EmptyingSteps
    <3> QED
      BY <1>1, <2>2, <3>1 DEF Effect
  <2> QED
    BY <2>1, <2>2
<1>4. CASE Start
  <2>1. started + 1 \in Children
    BY <1>0, <1>4, SidecarAssumption DEF Start, CountsTyped, Children
  <2> QED
    BY <1>0, <1>4, <2>1, KeepingSteps DEF Effect
<1>5. CASE Claim
  <2>1. Underway /\ current \in Children
    BY <1>0, <1>1, <1>5 DEF Claim, Underway, AtItsChild
  <2>2. Head1 \in Commands
    BY <1>0, <2>1, HeadTyped
  <2> QED
    BY <1>0, <1>5, <2>1, <2>2, SendingSteps DEF Effect
<1>6. CASE Renew
  <2>1. current \in Children
    BY <1>0, <1>1, <1>6 DEF Renew, AtItsChild
  <2> QED
    BY <1>0, <1>6, <2>1, KeepingSteps DEF Effect
<1>7. CASE Write
  <2>1. Underway /\ current \in Children
    BY <1>0, <1>1, <1>7 DEF Write, Underway, Writing, AtItsChild
  <2>2. Head1 \in Commands
    BY <1>0, <2>1, HeadTyped
  <2>3. CASE Kind[Head1] = "cancel"
    BY <1>0, <1>7, <2>1, <2>3, WritingACancel DEF Effect
  <2>4. CASE Kind[Head1] # "cancel"
    BY <1>0, <1>7, <2>1, <2>2, <2>4, SendingSteps DEF Effect
  <2> QED
    BY <2>3, <2>4
<1>8. CASE WriteFails \/ Check
  <2>1. current \in Children
    BY <1>0, <1>1, <1>8 DEF WriteFails, Check, Writing, AtItsChild
  <2>2. CASE FailAndRefuse(TRUE) /\ UNCHANGED home
    BY <1>0, <2>1, <2>2, EmptyingSteps DEF Effect
  <2>3. CASE Rests
    BY <2>3 DEF Effect
  <2> QED
    BY <1>8, <2>2, <2>3 DEF WriteFails, Check, Rests
<1>9. CASE AckTimeout
  <2>1. Head1 \in Commands
    BY <1>0, <1>9, HeadTyped DEF AckTimeout, Underway
  <2>2. CASE Found(Head1) /\ GiveUp(Head1)
    <3>1. home[Head1] \in Children /\ UNCHANGED home
      BY <1>2, <1>9, <2>1, <2>2 DEF AckTimeout, Found
    <3> QED
      BY <1>0, <2>1, <2>2, <3>1, EndingSteps DEF Effect
  <2> QED
    BY <1>9, <2>2 DEF AckTimeout, Effect, Rests
<1>10. CASE Shutdown
  <2>1. current \in Children
    BY <1>1, <1>10 DEF Shutdown
  <2>2. Empties(current)
    BY <1>0, <1>10, <2>1, EmptyingSteps
  <2> QED
    BY <2>1, <2>2 DEF Effect
<1>11. ASSUME NEW c \in Commands, TimeOut(c)
       PROVE  Effect
  <2>1. timer[c] # "off" /\ life[c] # "new" /\ home[c] \in Children
    BY <1>0, <1>2, <1>11 DEF TimeOut, Fire, FailTheOthers, Kill, Registered
  <2>2. CASE Fire(c) /\ life' # life
    <3>1. Found(c)
      BY <2>2 DEF Fire
    <3> QED
      BY <1>0, <2>1, <2>2, <3>1, EndingSteps DEF Effect
  <2>3. CASE Fire(c) /\ life' = life
    <3>1. Found(c) => life' = [life EXCEPT ![c] = "timedOut"] \/ UNCHANGED child
      BY <2>3 DEF Fire
    <3>2. CASE UNCHANGED child
      BY <2>3, <3>2 DEF Fire, TimerVars, Effect, Rests
    <3>3. CASE child' # child
      <4>1. life[c] = "active" /\ life'[c] = "timedOut"
        BY <1>0, <2>3, <3>3 DEF Fire, Found, RequestsTyped
      <4> QED
        BY <2>3, <4>1
    <3> QED
      BY <3>2, <3>3
  <2>4. CASE FailTheOthers(c)
    BY <1>0, <2>1, <2>4, EmptyingSteps DEF Effect
  <2>5. CASE Kill(c)
    BY <1>0, <2>1, <2>5, KeepingSteps DEF Effect
  <2> QED
    BY <1>11, <2>2, <2>3, <2>4, <2>5 DEF TimeOut
<1>12. ASSUME NEW c \in Commands, Cancel(c)
       PROVE  Effect
  <2>1. life[c] # "new" /\ home[c] \in Children
    BY <1>0, <1>2, <1>12 DEF Cancel, LockForCancel, WriteCancel, WriteCancelFails, Registered
  <2>2. CASE WriteCancelFails(c)
    BY <1>0, <2>1, <2>2, EmptyingSteps DEF Effect
  <2> QED
    BY <1>12, <2>2 DEF Cancel, LockForCancel, WriteCancel, CancelVars, Effect, Rests
<1>13. ASSUME NEW c \in Commands, DropStream(c)
       PROVE  Effect
  <2>1. Found(c) /\ GiveUp(c) /\ UNCHANGED home /\ home[c] \in Children
    BY <1>2, <1>13 DEF DropStream, Found
  <2> QED
    BY <1>0, <2>1, EndingSteps DEF Effect
<1>14. ASSUME NEW g \in Children, NEW overflow \in BOOLEAN, Dispatch(g, overflow)
       PROVE  Effect
  BY <1>0, <1>14, ReadingSteps DEF Effect
<1>15. ASSUME NEW g \in Children, NEW c \in Commands, NEW event \in {"chunk", "answer", "bad"},
              Take(g, c, event)
       PROVE  Effect
  BY <1>0, <1>15, ReadingSteps DEF Effect
<1>16. ASSUME NEW g \in Children, Eof(g) \/ BadLine(g) \/ Hang(g) \/ Exit(g)
       PROVE  Effect
  BY <1>0, <1>16, KeepingSteps DEF Effect
<1>17. ASSUME NEW g \in Children, FailBadLine(g) \/ Drain(g)
       PROVE  Effect
  BY <1>0, <1>17, EmptyingSteps DEF Effect
<1>18. CASE \/ Examine \/ StartFails \/ ClaimCancel \/ ClaimFails \/ Ack \/ CleanedUp \/ Warm
            \/ \E o \in Operations : Begin(o)
  BY <1>18
     DEF Examine, StartFails, ClaimCancel, ClaimFails, Ack, CleanedUp, Warm, Begin, CallVars,
         Effect, Rests
<1> QED
  BY <1>3, <1>4, <1>5, <1>6, <1>7, <1>8, <1>9, <1>10, <1>11, <1>12, <1>13, <1>14, <1>15, <1>16,
     <1>17, <1>18 DEF Next, Operate, Route

-----------------------------------------------------------------------------
(* Tables and hands.                                                       *)

\* The command that is registered was not registered before.
LEMMA ClaimedIsNew ==
  ASSUME OpTyped, RequestsTyped, Sequenced, Fresh, Claim
  PROVE  Head1 \in Commands /\ life[Head1] = "new"
<1>1. op.at = "claim" /\ Underway /\ ~Waiting /\ ~Writing
  BY DEF Claim, Underway, Waiting, Writing
<1>2. op.todo \in Seq(Commands) /\ op.todo # <<>> /\ Head1 \in Commands
  BY <1>1, HeadTyped
<1>3. 1 \in 1..Len(op.todo) /\ Head1 = op.todo[1]
  BY <1>2 DEF Head1
<1> QED
  BY <1>1, <1>2, <1>3 DEF Fresh

\* What has begun never is new again and stays with its child, what was answered stays so.
LEMMA LifeGoesOn ==
  ASSUME RequestsTyped, Effect, Claim => life[Head1] = "new"
  PROVE  \A c \in Commands :
           /\ life[c] # "new" => life'[c] # "new" /\ home'[c] = home[c]
           /\ life[c] = "answered" => life'[c] = "answered"
           /\ life[c] = "new" /\ life'[c] # "new" =>
                Claim /\ c = Head1 /\ Kind[c] # "cancel" /\ home'[c] = current
                /\ current \in Children
<1> SUFFICES ASSUME NEW c \in Commands
             PROVE  /\ life[c] # "new" => life'[c] # "new" /\ home'[c] = home[c]
                    /\ life[c] = "answered" => life'[c] = "answered"
                    /\ life[c] = "new" /\ life'[c] # "new" =>
                         Claim /\ c = Head1 /\ Kind[c] # "cancel" /\ home'[c] = current
                         /\ current \in Children
  OBVIOUS
<1>0. life = [x \in Commands |-> life[x]]
  BY DEF RequestsTyped
<1>1. CASE UNCHANGED <<life, home>>
  BY <1>1
<1>2. ASSUME NEW g \in Children, Empties(g)
      PROVE  life'[c] = life[c] \/ (life[c] = "active" /\ life'[c] = "failed")
  BY <1>2 DEF Empties, FailAll
<1>3. ASSUME NEW g \in Children, NEW d \in Commands, Ends(g, d) \/ Dispatches(g, d)
      PROVE  life'[c] = life[c] \/ (life[c] = "active" /\ life'[c] # "new")
  <2>1. CASE UNCHANGED life
    BY <2>1
  <2>2. ASSUME NEW end \in Lives \ {"new"}, life[d] = "active", life' = [life EXCEPT ![d] = end]
        PROVE  life'[c] = life[c] \/ (life[c] = "active" /\ life'[c] # "new")
    BY <1>0, <2>2
  <2> QED
    BY <1>3, <2>1, <2>2 DEF Ends, Dispatches, Lives
<1>4. ASSUME NEW g \in Children, NEW d \in Commands, Claims(g, d)
      PROVE  /\ Claim /\ d = Head1 /\ Kind[d] # "cancel" /\ g = current
             /\ life'[c] = (IF c = d THEN "active" ELSE life[c])
             /\ home'[c] = (IF c = d THEN g ELSE home[c])
  BY <1>4 DEF Claims, RequestsTyped
<1>5. ASSUME NEW g \in Children, Empties(g) \/ \E d \in Commands : Ends(g, d) \/ Dispatches(g, d)
      PROVE  UNCHANGED home
  BY <1>5 DEF Empties, Ends, Dispatches
<1>6. ASSUME NEW g \in Children, NEW d \in Commands,
             Receives(g, d) \/ \E event \in {"chunk", "answer", "bad"} : Takes(g, d, event)
      PROVE  UNCHANGED <<life, home>>
  BY <1>6 DEF Receives, Takes
<1>7. ASSUME NEW g \in Children, Keeps(g)
      PROVE  UNCHANGED <<life, home>>
  BY <1>7 DEF Keeps
<1> QED
  BY <1>1, <1>2, <1>3, <1>4, <1>5, <1>6, <1>7 DEF Effect, Rests

\* A request waits exactly while events can reach it.
TablesAreTrue ==
  \A c \in Commands :
    /\ \A g \in Children : c \in Active(g) => life[c] = "active" /\ home[c] = g
    /\ life[c] = "active" => c \in Active(home[c]) \/ LastInHand(c)

HandsAreKnown ==
  \A g \in Children : child[g].hand # Nothing =>
    LET c == child[g].hand[1] IN
      /\ life[c] # "new" /\ home[c] = g
      /\ child[g].hand[2] # "chunk" => c \notin Active(g)

LEMMA TablesStayTrue ==
  ASSUME ChildTyped, RequestsTyped, Effect, Claim => life[Head1] = "new",
         TablesAreTrue, HandsAreKnown, \A c \in Commands : life[c] # "new" => home[c] \in Children
  PROVE  ChildTyped' /\ TablesAreTrue' /\ HandsAreKnown'
<1> USE DEF Active, LastInHand, TablesAreTrue, HandsAreKnown
<1>0. \A h \in Children : child[h].hand # Nothing => child[h].hand[1] \in Commands
  BY DEF ChildTyped, Child
<1>1. CASE Rests
  BY <1>1 DEF Rests, ChildTyped
<1>2. ASSUME NEW g \in Children, Keeps(g)
      PROVE  ChildTyped' /\ TablesAreTrue' /\ HandsAreKnown'
  <2>1. /\ ChildTyped' /\ UNCHANGED <<life, home>>
        /\ \A h \in Children : child'[h].table = child[h].table /\ child'[h].hand = child[h].hand
    BY <1>2, TurnsOnly DEF Keeps
  <2> QED
    BY <1>0, <2>1
<1>3. ASSUME NEW g \in Children, NEW d \in Commands, Receives(g, d)
      PROVE  ChildTyped' /\ TablesAreTrue' /\ HandsAreKnown'
  <2>1. /\ ChildTyped' /\ UNCHANGED <<life, home>>
        /\ \A h \in Children : child'[h].table = child[h].table /\ child'[h].hand = child[h].hand
    BY <1>3, TurnsOnly DEF Receives
  <2> QED
    BY <1>0, <2>1
<1>4. ASSUME NEW g \in Children, Empties(g)
      PROVE  ChildTyped' /\ TablesAreTrue' /\ HandsAreKnown'
  <2>1. /\ ChildTyped' /\ home' = home /\ child'[g].table = {}
        /\ \A h \in Children : h # g => child'[h].table = child[h].table
        /\ \A h \in Children : child'[h].hand = child[h].hand
    BY <1>4, TurnsOnly DEF Empties
  <2>2. \A c \in Commands : life'[c] = IF c \in child[g].table /\ life[c] = "active"
                                       THEN "failed" ELSE life[c]
    BY <1>4 DEF Empties, FailAll
  <2> QED
    BY <1>0, <2>1, <2>2
<1>5. ASSUME NEW g \in Children, NEW d \in Commands, Ends(g, d)
      PROVE  ChildTyped' /\ TablesAreTrue' /\ HandsAreKnown'
  <2>1. /\ ChildTyped' /\ home' = home /\ home[d] = g
        /\ child'[g].table = child[g].table \ {d}
        /\ \A h \in Children : h # g => child'[h].table = child[h].table
        /\ \A h \in Children : child'[h].hand = child[h].hand
    BY <1>5, TurnsOnly DEF Ends
  <2>2. /\ life'[d] \notin {"new", "active"}
        /\ \A c \in Commands : c # d => life'[c] = life[c]
    BY <1>5 DEF Ends, RequestsTyped
  <2> QED
    BY <1>0, <2>1, <2>2
<1>6. ASSUME NEW g \in Children, NEW d \in Commands, Claims(g, d)
      PROVE  ChildTyped' /\ TablesAreTrue' /\ HandsAreKnown'
  <2>1. /\ ChildTyped' /\ child'[g].table = child[g].table \cup {d}
        /\ \A h \in Children : h # g => child'[h].table = child[h].table
        /\ \A h \in Children : child'[h].hand = child[h].hand
    BY <1>6, TurnsOnly DEF Claims
  <2>2. /\ life[d] = "new" /\ life'[d] = "active" /\ home'[d] = g
        /\ \A c \in Commands : c # d => life'[c] = life[c] /\ home'[c] = home[c]
    BY <1>6 DEF Claims, RequestsTyped
  <2> QED
    BY <1>0, <2>1, <2>2
<1>7. ASSUME NEW g \in Children, NEW d \in Commands, NEW event \in {"chunk", "answer", "bad"},
             Takes(g, d, event)
      PROVE  ChildTyped' /\ TablesAreTrue' /\ HandsAreKnown'
  <2>1. /\ ChildTyped' /\ child'[g].hand = <<d, event>> /\ child[g].hand = Nothing
        /\ child'[g].table = (IF event = "chunk" THEN child[g].table ELSE child[g].table \ {d})
        /\ \A h \in Children : h # g => child'[h] = child[h]
        /\ UNCHANGED <<life, home>> /\ d \in child[g].table
    BY <1>7, TurnsOnly DEF Takes
  <2>2. child'[g].hand[1] = d /\ child'[g].hand[2] = event
    BY <2>1
  <2>3. life[d] = "active" /\ home[d] = g
    BY <2>1
  <2>4. TablesAreTrue'
    <3>1. ASSUME NEW c \in Commands, life[c] = "active"
          PROVE  c \in child'[home[c]].table \/ LastInHand(c)'
      <4>1. CASE home[c] # g
        BY <2>1, <3>1, <4>1
      <4>2. CASE home[c] = g /\ c # d
        <5>1. ~LastInHand(c)
          BY <2>1, <4>2 DEF Nothing
        <5> QED
          BY <2>1, <3>1, <4>2, <5>1
      <4>3. CASE c = d
        BY <2>1, <2>3, <4>3
      <4> QED
        BY <4>1, <4>2, <4>3
    <3>2. ASSUME NEW c \in Commands, NEW h \in Children, c \in child'[h].table
          PROVE  c \in child[h].table
      BY <2>1, <3>2
    <3> QED
      BY <2>1, <3>1, <3>2
  <2>5. HandsAreKnown'
    BY <1>0, <2>1, <2>2, <2>3
  <2> QED
    BY <2>1, <2>4, <2>5
<1>8. ASSUME NEW g \in Children, NEW d \in Commands, Dispatches(g, d)
      PROVE  ChildTyped' /\ TablesAreTrue' /\ HandsAreKnown'
  <2>1. /\ ChildTyped' /\ home' = home /\ child'[g].hand = Nothing
        /\ child'[g].table = (IF life'[d] = "active" THEN child[g].table ELSE child[g].table \ {d})
        /\ \A h \in Children : h # g => child'[h] = child[h]
        /\ child[g].hand # Nothing /\ d = child[g].hand[1] /\ home[d] = g
    BY <1>8, TurnsOnly DEF Dispatches
  <2>2. /\ \A c \in Commands : c # d => life'[c] = life[c]
        /\ life'[d] = life[d] \/ (life[d] = "active" /\ life'[d] \notin {"new", "active"})
        /\ life[d] = "active" /\ life'[d] = "active" => child[g].hand[2] = "chunk"
    <3>1. life = [x \in Commands |-> life[x]]
      BY DEF RequestsTyped
    <3>2. CASE UNCHANGED life /\ (life[d] = "active" => child[g].hand[2] = "chunk")
      BY <3>2
    <3>3. CASE life[d] = "active"
               /\ \E end \in {"answered", "failed"} : life' = [life EXCEPT ![d] = end]
      BY <3>1, <3>3
    <3> QED
      BY <1>8, <3>2, <3>3 DEF Dispatches
  <2>3. ASSUME NEW c \in Commands, life'[c] = "active"
        PROVE  c \in child'[home[c]].table \/ LastInHand(c)'
    <3>1. life[c] = "active" /\ home[c] \in Children
      BY <2>2, <2>3
    <3>2. CASE home[c] # g
      BY <2>1, <3>1, <3>2
    <3>3. CASE home[c] = g
      <4>1. child[g].hand = <<child[g].hand[1], child[g].hand[2]>>
        BY <2>1 DEF ChildTyped, Child
      <4>2. ~LastInHand(c)
        BY <2>1, <2>2, <2>3, <3>3, <4>1
      <4> QED
        BY <2>1, <2>2, <2>3, <3>1, <3>3, <4>2
    <3> QED
      BY <3>2, <3>3
  <2>4. ASSUME NEW c \in Commands, NEW h \in Children, c \in child'[h].table
        PROVE  life'[c] = "active" /\ home[c] = h
    BY <2>1, <2>2, <2>4
  <2>5. TablesAreTrue'
    BY <2>1, <2>3, <2>4
  <2>6. HandsAreKnown'
    BY <1>0, <2>1, <2>2
  <2> QED
    BY <2>1, <2>5, <2>6
<1> QED
  BY <1>1, <1>2, <1>3, <1>4, <1>5, <1>6, <1>7, <1>8 DEF Effect

\* A table and what a child received grow by the command at hand only.
LEMMA OnlyTheCommandAtHand ==
  ASSUME ChildTyped, Effect, NEW g \in Children, NEW c \in Commands
  PROVE  /\ c \in child'[g].table => c \in child[g].table \/ (Claim /\ c = Head1)
         /\ c \in child'[g].received =>
              c \in child[g].received \/ (Write /\ g = current /\ c = Head1)
<1>1. CASE Rests
  BY <1>1 DEF Rests
<1>2. ASSUME NEW h \in Children, Keeps(h) \/ Empties(h)
      PROVE  child'[g].table \subseteq child[g].table /\ child'[g].received = child[g].received
  BY <1>2, TurnsOnly DEF Keeps, Empties
<1>3. ASSUME NEW h \in Children, NEW d \in Commands, Ends(h, d) \/ Dispatches(h, d)
      PROVE  child'[g].table \subseteq child[g].table /\ child'[g].received = child[g].received
  <2>1. CASE Ends(h, d)
    BY <2>1, TurnsOnly DEF Ends
  <2>2. CASE Dispatches(h, d)
    BY <2>2, TurnsOnly DEF Dispatches
  <2> QED
    BY <1>3, <2>1, <2>2
<1>4. ASSUME NEW h \in Children, NEW d \in Commands, NEW event \in {"chunk", "answer", "bad"},
             Takes(h, d, event)
      PROVE  child'[g].table \subseteq child[g].table /\ child'[g].received = child[g].received
  BY <1>4, TurnsOnly DEF Takes
<1>5. ASSUME NEW h \in Children, NEW d \in Commands, Claims(h, d)
      PROVE  /\ child'[g].table \subseteq child[g].table \cup {d}
             /\ child'[g].received = child[g].received
             /\ Claim /\ d = Head1
  BY <1>5, TurnsOnly DEF Claims
<1>6. ASSUME NEW h \in Children, NEW d \in Commands, Receives(h, d)
      PROVE  /\ child'[g].table = child[g].table
             /\ child'[g].received = IF g = h THEN child[g].received \cup {d} ELSE child[g].received
             /\ Write /\ h = current /\ d = Head1
  BY <1>6, TurnsOnly DEF Receives
<1> QED
  BY <1>1, <1>2, <1>3, <1>4, <1>5, <1>6 DEF Effect

-----------------------------------------------------------------------------
(* The operation under way.                                                *)

\* What LifeGoesOn says, for the lemmas that follow.
GoesOn ==
  \A c \in Commands :
    /\ life[c] # "new" => life'[c] # "new" /\ home'[c] = home[c]
    /\ life[c] = "answered" => life'[c] = "answered"
    /\ life[c] = "new" /\ life'[c] # "new" =>
         Claim /\ c = Head1 /\ Kind[c] # "cancel" /\ home'[c] = current /\ current \in Children

\* An operation that keeps its commands has as much left as before.
LEMMA LeftStays ==
  ASSUME GoesOn, NEW o \in Operations, NEW n \in DOMAIN CommandsOf[o], LeftOf(o, n),
         op'.todo = op.todo, op'.gen = op.gen
  PROVE  LeftOf(o, n)'
<1>1. CommandsOf[o] \in Seq(Commands)
  BY SidecarAssumption
<1>2. \A i \in 1..(n - 1) : CommandsOf[o][i] \in Commands
  BY <1>1
<1>3. \A i \in 1..(n - 1) :
         Kind[CommandsOf[o][i]] = "configure" =>
           /\ op.gen # 0
           /\ life'[CommandsOf[o][i]] = "answered" /\ home'[CommandsOf[o][i]] = op.gen
  BY <1>2 DEF LeftOf, GoesOn
<1> QED
  BY <1>3 DEF LeftOf

\* It goes on with its next command, at the child that acknowledged the last one if that was a
\* configuration.
LEMMA LeftAdvances ==
  ASSUME GoesOn, OpTyped, NEW o \in Operations, NEW n \in DOMAIN CommandsOf[o], LeftOf(o, n),
         NEW gen, Next1(gen), op'.at = "examine", op.todo # <<>>,
         op.gen # 0 => gen = op.gen,
         Kind[Head1] = "configure" => gen # 0 /\ life'[Head1] = "answered" /\ home'[Head1] = gen
  PROVE  n + 1 \in DOMAIN CommandsOf[o] /\ LeftOf(o, n + 1)'
<1>1. CommandsOf[o] \in Seq(Commands) /\ op.todo \in Seq(Commands)
  BY SidecarAssumption DEF OpTyped
<1>2. op' = [at |-> "examine", todo |-> Tail(op.todo), gen |-> gen] /\ Len(op.todo) # 1
  BY DEF Next1, Idle
<1>3. n \in 1..Len(CommandsOf[o]) /\ Len(op.todo) = Len(CommandsOf[o]) - n + 1
      /\ Len(op.todo) \in Nat /\ Len(op.todo) > 1
  BY <1>1, <1>2 DEF LeftOf
<1>4. /\ op'.todo = Tail(op.todo) /\ op'.gen = gen
      /\ Len(op'.todo) = Len(op.todo) - 1
      /\ \A i \in 1..Len(op'.todo) : op'.todo[i] = op.todo[i + 1]
  BY <1>1, <1>2, <1>3
<1>5. \A i \in 1..Len(op'.todo) : op'.todo[i] = CommandsOf[o][(n + 1) + i - 1]
  <2> TAKE i \in 1..Len(op'.todo)
  <2>1. i + 1 \in 1..Len(op.todo) /\ i \in Nat
    BY <1>3, <1>4
  <2>2. op.todo[i + 1] = CommandsOf[o][n + (i + 1) - 1]
    BY <2>1 DEF LeftOf
  <2>3. n + (i + 1) - 1 = (n + 1) + i - 1
    BY <1>3, <2>1
  <2> QED
    BY <1>4, <2>2, <2>3
<1>6. Head1 = CommandsOf[o][n]
  <2>1. Head1 = op.todo[1] /\ 1 \in 1..Len(op.todo)
    BY <1>1, <1>3 DEF Head1
  <2>2. op.todo[1] = CommandsOf[o][n + 1 - 1] /\ n + 1 - 1 = n
    BY <1>3, <2>1 DEF LeftOf
  <2> QED
    BY <2>1, <2>2
<1>7. \A i \in 1..((n + 1) - 1) :
         Kind[CommandsOf[o][i]] = "configure" =>
           gen # 0 /\ life'[CommandsOf[o][i]] = "answered" /\ home'[CommandsOf[o][i]] = gen
  <2> TAKE i \in 1..((n + 1) - 1)
  <2>1. CASE i = n
    BY <1>6, <2>1
  <2>2. CASE i # n
    <3>1. i \in 1..(n - 1) /\ CommandsOf[o][i] \in Commands
      BY <1>1, <1>3, <2>2
    <3> QED
      BY <3>1 DEF LeftOf, GoesOn
  <2> QED
    BY <2>1, <2>2
<1>8. Len(op'.todo) = Len(CommandsOf[o]) - (n + 1) + 1 /\ n + 1 \in DOMAIN CommandsOf[o]
  BY <1>1, <1>3, <1>4
<1> QED
  BY <1>4, <1>5, <1>7, <1>8 DEF LeftOf

\* The commands that are left are of one operation, each once.
LEMMA CommandsAreDistinct ==
  ASSUME OpTyped, Sequenced, Underway, NEW i \in 2..Len(op.todo)
  PROVE  op.todo[i] # Head1 /\ op.todo[i] \in Commands
<1>1. op.todo \in Seq(Commands) /\ op.todo # <<>> /\ Head1 = op.todo[1]
  BY HeadTyped DEF Head1
<1>2. PICK o \in Operations : \E n \in DOMAIN CommandsOf[o] : LeftOf(o, n)
  BY DEF Sequenced
<1>3. PICK n \in DOMAIN CommandsOf[o] : LeftOf(o, n)
  BY <1>2
<1>4. CommandsOf[o] \in Seq(Commands)
  BY SidecarAssumption
<1>5. n \in 1..Len(CommandsOf[o]) /\ Len(op.todo) = Len(CommandsOf[o]) - n + 1
  BY <1>3, <1>4 DEF LeftOf
<1>6. 1 \in 1..Len(op.todo) /\ i \in 1..Len(op.todo) /\ i # 1
  <2>1. Len(op.todo) \in Nat
    BY <1>1
  <2> QED
    BY <2>1
<1>7. /\ op.todo[1] = CommandsOf[o][n + 1 - 1] /\ n + 1 - 1 \in DOMAIN CommandsOf[o]
      /\ op.todo[i] = CommandsOf[o][n + i - 1] /\ n + i - 1 \in DOMAIN CommandsOf[o]
      /\ n + 1 - 1 # n + i - 1
  BY <1>3, <1>4, <1>5, <1>6 DEF LeftOf
<1>8. op.todo[i] # op.todo[1]
  BY <1>7, SidecarAssumption
<1> QED
  BY <1>1, <1>6, <1>8

LEMMA SequencedKept ==
  ASSUME OpTyped, Sequenced, AtItsChild, Registered, GoesOn, Next
  PROVE  Sequenced'
<1> USE DEF Underway
<1>1. CASE op' = Idle
  BY <1>1 DEF Sequenced, Idle
<1>2. CASE UNCHANGED op
  BY <1>2, LeftStays DEF Sequenced
<1>3. CASE Underway /\ \E at \in Steps : Go(at)
  <2>1. op'.todo = op.todo /\ op'.gen = op.gen
    BY <1>3 DEF Go, OpTyped
  <2>2. PICK o \in Operations : \E n \in DOMAIN CommandsOf[o] : LeftOf(o, n)
    BY <1>3 DEF Sequenced
  <2>3. PICK n \in DOMAIN CommandsOf[o] : LeftOf(o, n)
    BY <2>2
  <2>4. LeftOf(o, n)'
    BY <2>1, <2>3, LeftStays
  <2> QED
    BY <2>4 DEF Sequenced
<1>4. ASSUME NEW o \in Operations, Begin(o)
      PROVE  Sequenced'
  <2>1. CommandsOf[o] \in Seq(Commands) /\ CommandsOf[o] # <<>>
    BY SidecarAssumption
  <2>2. op'.todo = CommandsOf[o]
    BY <1>4 DEF Begin
  <2>3. 1 \in DOMAIN CommandsOf[o] /\ LeftOf(o, 1)'
    BY <2>1, <2>2 DEF LeftOf
  <2> QED
    BY <2>3 DEF Sequenced
<1>5. ASSUME NEW gen, Next1(gen), Underway, op.gen # 0 => gen = op.gen,
             Kind[Head1] = "configure" =>
               gen # 0 /\ life'[Head1] = "answered" /\ home'[Head1] = gen
      PROVE  Sequenced'
  <2>1. CASE Len(op.todo) = 1
    BY <1>1, <1>5, <2>1 DEF Next1
  <2>2. CASE Len(op.todo) # 1
    <3>1. op'.at = "examine" /\ op.todo # <<>>
      BY <1>5, <2>2, HeadTyped DEF Next1
    <3>2. PICK o \in Operations : \E n \in DOMAIN CommandsOf[o] : LeftOf(o, n)
      BY <1>5 DEF Sequenced
    <3>3. PICK n \in DOMAIN CommandsOf[o] : LeftOf(o, n)
      BY <3>2
    <3>4. n + 1 \in DOMAIN CommandsOf[o] /\ LeftOf(o, n + 1)'
      BY <1>5, <3>1, <3>3, LeftAdvances
    <3> QED
      BY <3>4 DEF Sequenced
  <2> QED
    BY <2>1, <2>2
<1>6. CASE Check
  <2>1. \/ op' = Idle
        \/ Go("ack")
        \/ Kind[Head1] # "configure" /\ Next1(op.gen)
    BY <1>6 DEF Check, FailAndRefuse, Refuse
  <2>2. Underway
    BY <1>6 DEF Check
  <2> QED
    BY <1>1, <1>3, <1>5, <2>1, <2>2 DEF Steps
<1>7. CASE Ack
  <2>1. Underway /\ Waiting /\ Head1 \in Commands
    BY <1>7, HeadTyped DEF Ack, Waiting
  <2>2. CASE op' = Idle
    BY <1>1, <2>2
  <2>3. CASE life[Head1] = "answered" /\ Next1(Generation(Head1))
    <3>1. Kind[Head1] = "configure" /\ life[Head1] # "new" /\ (op.gen # 0 => home[Head1] = op.gen)
      BY <2>1 DEF AtItsChild
    <3>2. life'[Head1] = "answered" /\ home'[Head1] = home[Head1]
      BY <2>1, <2>3, <3>1 DEF GoesOn
    <3>3. home[Head1] # 0
      BY <2>1, <3>1 DEF Registered, Children
    <3> QED
      BY <1>5, <2>1, <2>3, <3>1, <3>2, <3>3 DEF Generation
  <2> QED
    BY <1>7, <2>2, <2>3 DEF Ack
<1>8. CASE Examine \/ Replace \/ Start \/ StartFails \/ ClaimCancel \/ Claim \/ Renew \/ ClaimFails
  BY <1>1, <1>3, <1>8
     DEF Examine, Replace, Start, StartFails, ClaimCancel, Claim, Renew, ClaimFails, Refuse, Steps
<1>9. CASE Write \/ WriteFails \/ AckTimeout \/ CleanedUp
  BY <1>1, <1>3, <1>9 DEF Write, WriteFails, AckTimeout, CleanedUp, FailAndRefuse, Refuse, Steps
<1>10. CASE Warm
  BY <1>10 DEF Warm, Go, OpTyped, Sequenced
<1>11. CASE \/ Shutdown
            \/ \E c \in Commands : TimeOut(c) \/ Cancel(c) \/ DropStream(c)
            \/ \E g \in Children : Route(g) \/ BadLine(g) \/ Hang(g) \/ Exit(g)
            \/ \E g \in Children, c \in Commands, event \in {"chunk", "answer", "bad"} :
                 Take(g, c, event)
  <2>1. UNCHANGED op
    BY <1>11
       DEF Shutdown, TimeOut, Fire, FailTheOthers, Kill, TimerVars, Cancel, LockForCancel,
           WriteCancel, WriteCancelFails, CancelVars, DropStream, Route, Dispatch, FailBadLine,
           Eof, Drain, BadLine, Hang, Exit, Take, ReaderVars
  <2> QED
    BY <1>2, <2>1
<1> QED
  BY <1>4, <1>6, <1>7, <1>8, <1>9, <1>10, <1>11 DEF Next, Operate

\* Only a command whose sending ended has a result, and it is the one at hand.
LEMMA ResultOfTheCommandAtHand ==
  ASSUME SidecarInv, Next
  PROVE  \/ UNCHANGED result
         \/ /\ Underway /\ ~Waiting
            /\ \/ result' = [result EXCEPT ![Head1] = "refused"] /\ op' = Idle
               \/ Check /\ result' = [result EXCEPT ![Head1] = "sent"]
<1> USE DEF Underway, Waiting
<1>1. CASE Examine \/ StartFails \/ ClaimCancel \/ ClaimFails
  BY <1>1 DEF Examine, StartFails, ClaimCancel, ClaimFails, Refuse
<1>2. CASE WriteFails \/ Check
  BY <1>2 DEF WriteFails, Check, FailAndRefuse, Refuse
<1>3. CASE Replace \/ Start \/ Claim \/ Renew \/ Ack \/ AckTimeout \/ CleanedUp
           \/ Write \/ Warm \/ Shutdown \/ \E o \in Operations : Begin(o)
  BY <1>3 DEF Replace, Start, Claim, Renew, Ack, AckTimeout, CleanedUp, Write, Warm, Shutdown, Begin
<1>4. CASE \/ \E c \in Commands : TimeOut(c) \/ Cancel(c) \/ DropStream(c)
           \/ \E g \in Children : Route(g) \/ BadLine(g) \/ Hang(g) \/ Exit(g)
           \/ \E g \in Children, c \in Commands, event \in {"chunk", "answer", "bad"} :
                Take(g, c, event)
  BY <1>4
     DEF TimeOut, Fire, FailTheOthers, Kill, TimerVars, Cancel, LockForCancel, WriteCancel,
         WriteCancelFails, CancelVars, DropStream, Route, Dispatch, FailBadLine, Eof, Drain,
         BadLine, Hang, Exit, Take, ReaderVars
<1> QED
  BY <1>1, <1>2, <1>3, <1>4 DEF Next, Operate

\* What an operation may do, for the conjuncts that are about it.
OpMoves ==
  \/ op' = Idle
  \/ UNCHANGED op /\ (op.at # "idle" => UNCHANGED current)
  \/ Go("warmStart")
  \/ \E o \in Operations : Begin(o)
  \/ Examine \/ Replace \/ Start \/ ClaimCancel \/ Claim \/ Renew \/ Write \/ Check \/ Ack
  \/ AckTimeout /\ Go("cleanup")

LEMMA EveryStepMovesSo ==
  ASSUME Next
  PROVE  OpMoves
<1>1. CASE StartFails \/ ClaimFails \/ WriteFails \/ AckTimeout \/ CleanedUp \/ Warm \/ Shutdown
  BY <1>1
     DEF StartFails, ClaimFails, WriteFails, AckTimeout, CleanedUp, Warm, Shutdown, FailAndRefuse,
         Refuse, OpMoves
<1>2. CASE \/ \E c \in Commands : TimeOut(c) \/ Cancel(c) \/ DropStream(c)
           \/ \E g \in Children : Route(g) \/ BadLine(g) \/ Hang(g) \/ Exit(g)
           \/ \E g \in Children, c \in Commands, event \in {"chunk", "answer", "bad"} :
                Take(g, c, event)
  <2>1. UNCHANGED op /\ UNCHANGED current
    BY <1>2
       DEF TimeOut, Fire, FailTheOthers, Kill, TimerVars, Cancel, LockForCancel, WriteCancel,
           WriteCancelFails, CancelVars, DropStream, Route, Dispatch, FailBadLine, Eof, Drain,
           BadLine, Hang, Exit, Take, ReaderVars
  <2> QED
    BY <2>1 DEF OpMoves
<1>3. CASE \/ Examine \/ Replace \/ Start \/ ClaimCancel \/ Claim \/ Renew \/ Check \/ Ack \/ Write
           \/ \E o \in Operations : Begin(o)
  BY <1>3 DEF OpMoves
<1> QED
  BY <1>1, <1>2, <1>3 DEF Next, Operate

\* An operation deals with the child it configured.
LEMMA AtItsChildKept ==
  ASSUME SidecarInv, GoesOn, Next
  PROVE  AtItsChild'
<1>0. OpTyped /\ CountsTyped /\ Sequenced /\ AtItsChild
  BY TypeParts DEF SidecarInv
<1> USE DEF Writing, Waiting
<1>1. CASE op'.at \in {"idle", "examine", "warmStart"}
  BY <1>1 DEF AtItsChild
<1>2. CASE UNCHANGED op /\ op.at # "idle" /\ UNCHANGED current
  <2>1. CASE Writing \/ Waiting
    <3>1. Head1 \in Commands /\ Head1' = Head1
      BY <1>0, <1>2, <2>1, HeadTyped DEF Underway, Head1
    <3> QED
      BY <1>0, <1>2, <2>1, <3>1 DEF AtItsChild, GoesOn
  <2>2. CASE ~(Writing \/ Waiting)
    BY <1>0, <1>2, <2>2 DEF AtItsChild
  <2> QED
    BY <2>1, <2>2
<1>3. CASE Examine
  <2>1. CASE op'.at # "idle"
    <3>1. /\ op'.at \in {"replace", "claim"} /\ op'.gen = op.gen /\ current' = current
          /\ ~LostItsGeneration
          /\ op'.at = "replace" <=> current = 0 \/ Bad(current)
      BY <1>0, <1>3, <2>1 DEF Examine, Refuse, Idle, Go, CallVars, OpTyped
    <3> QED
      BY <3>1 DEF LostItsGeneration, AtItsChild
  <2> QED
    BY <1>1, <2>1
<1>4. CASE Replace \/ Renew
  <2>1. op'.at = "start" /\ op'.gen = op.gen /\ op.gen = 0
    BY <1>0, <1>4 DEF Replace, Renew, Go, OpTyped, AtItsChild
  <2> QED
    BY <2>1 DEF AtItsChild
<1>5. CASE Start
  <2>1. CASE op'.at # "idle"
    <3>1. op'.at = "claim" /\ op'.gen = op.gen /\ op.gen = 0 /\ current' = started + 1
      BY <1>0, <1>5, <2>1 DEF Start, Go, Idle, OpTyped, AtItsChild
    <3>2. current' # 0
      BY <1>0, <3>1, SidecarAssumption DEF CountsTyped
    <3> QED
      BY <3>1, <3>2 DEF AtItsChild
  <2> QED
    BY <1>1, <2>1
<1>6. CASE ClaimCancel
  <2>1. CASE op'.at # "idle"
    <3>1. op'.at = "write" /\ op'.gen = op.gen /\ Head1' = Head1 /\ Kind[Head1] = "cancel"
          /\ op.at = "claim" /\ current' = current
      BY <1>0, <1>6, <2>1 DEF ClaimCancel, Refuse, Go, Idle, CallVars, OpTyped, Head1
    <3> QED
      BY <1>0, <3>1 DEF AtItsChild
  <2> QED
    BY <1>1, <2>1
<1>7. CASE Claim
  <2>1. /\ op'.at = "write" /\ op'.gen = op.gen /\ Head1' = Head1
        /\ op.at = "claim" /\ current' = current
    BY <1>0, <1>7 DEF Claim, Go, OpTyped, Head1
  <2>2. Head1 \in Commands
    BY <1>0, <2>1, HeadTyped DEF Underway
  <2>3. life'[Head1] = "active" /\ home'[Head1] = current
    BY <1>7, <2>2, TypeParts DEF SidecarInv, Claim, RequestsTyped
  <2> QED
    BY <1>0, <2>1, <2>3 DEF AtItsChild
<1>8. CASE Write
  <2>1. /\ op'.at = "check" /\ op'.gen = op.gen /\ Head1' = Head1
        /\ op.at = "write" /\ UNCHANGED <<current, life, home>>
    BY <1>0, <1>8 DEF Write, Go, OpTyped, Head1
  <2> QED
    BY <1>0, <2>1 DEF AtItsChild
<1>9. CASE Check
  <2>1. CASE op'.at \notin {"idle", "examine"}
    <3>1. /\ op'.at = "ack" /\ op'.gen = op.gen /\ Head1' = Head1 /\ Kind[Head1] = "configure"
          /\ op.at = "check" /\ UNCHANGED <<current, life, home>>
      BY <1>0, <1>9, <2>1 DEF Check, FailAndRefuse, Refuse, Next1, Idle, Go, OpTyped, Head1
    <3> QED
      BY <1>0, <3>1 DEF AtItsChild
  <2> QED
    BY <1>1, <2>1
<1>10. CASE Ack
  BY <1>1, <1>10 DEF Ack, Next1, Idle
<1>11. CASE AckTimeout /\ Go("cleanup")
  <2>1. /\ op'.at = "cleanup" /\ op'.gen = op.gen /\ Head1' = Head1
        /\ op.at = "ack" /\ current' = current
    BY <1>0, <1>11 DEF AckTimeout, Go, OpTyped, Head1
  <2>2. Head1 \in Commands
    BY <1>0, <2>1, HeadTyped DEF Underway
  <2> QED
    BY <1>0, <2>1, <2>2 DEF AtItsChild, GoesOn
<1>12. CASE op' = Idle \/ Go("warmStart") \/ \E o \in Operations : Begin(o)
  BY <1>0, <1>1, <1>12 DEF Idle, Go, Begin, OpTyped
<1> QED
  BY <1>0, <1>1, <1>2, <1>3, <1>4, <1>5, <1>6, <1>7, <1>8, <1>9, <1>10, <1>11, <1>12,
     EveryStepMovesSo DEF OpMoves

\* What is left to send is fresh.
LEMMA FreshKept ==
  ASSUME SidecarInv, GoesOn, Next
  PROVE  Fresh'
<1>0. OpTyped /\ RequestsTyped /\ Sequenced /\ Fresh
  BY TypeParts DEF SidecarInv
<1>1. result = [c \in Commands |-> result[c]]
  BY <1>0 DEF RequestsTyped
<1>2. \A c \in Commands : result'[c] = "none" => result[c] = "none"
  BY <1>1, ResultOfTheCommandAtHand
<1>3. ASSUME Underway'
      PROVE  \A i \in 1..Len(op'.todo) :
               (op'.at \in {"ack", "cleanup"} /\ i = 1) \/ result'[op'.todo[i]] = "none"
  <2> USE DEF Underway, Waiting
  <2>1. CASE \E o \in Operations : Begin(o)
    BY <2>1, SidecarAssumption DEF Begin
  <2>2. CASE UNCHANGED <<op, result>>
    BY <1>0, <1>3, <2>2 DEF Fresh
  <2>3. CASE UNCHANGED result /\ Underway /\ ~Waiting /\ \E at \in Steps : Go(at)
    <3>1. op'.todo = op.todo
      BY <2>3 DEF Go, OpTyped
    <3> QED
      BY <1>0, <2>3, <3>1 DEF Fresh
  <2>4. CASE Check /\ result' = [result EXCEPT ![Head1] = "sent"]
    <3>1. Underway /\ ~Waiting /\ op.todo \in Seq(Commands) /\ op.todo # <<>>
      BY <1>0, <2>4, HeadTyped DEF Check
    <3>2. \A i \in 2..Len(op.todo) : result'[op.todo[i]] = "none"
      <4> TAKE i \in 2..Len(op.todo)
      <4>1. op.todo[i] # Head1 /\ op.todo[i] \in Commands
        BY <1>0, <3>1, CommandsAreDistinct
      <4>2. i \in 1..Len(op.todo)
        BY <3>1
      <4> QED
        BY <1>0, <1>1, <2>4, <3>1, <4>1, <4>2 DEF Fresh
    <3>3. CASE Go("ack")
      <4>1. op'.at = "ack" /\ op'.todo = op.todo
        BY <1>0, <3>3 DEF Go, OpTyped
      <4> QED
        BY <3>1, <3>2, <4>1
    <3>4. CASE Next1(op.gen)
      <4>1. Len(op.todo) # 1 /\ op'.todo = Tail(op.todo)
        BY <1>3, <3>4 DEF Next1, Idle
      <4>2. \A i \in 1..Len(op'.todo) : op'.todo[i] = op.todo[i + 1] /\ i + 1 \in 2..Len(op.todo)
        BY <3>1, <4>1
      <4> QED
        BY <3>2, <4>2
    <3> QED
      BY <1>3, <2>4, <3>3, <3>4 DEF Check, FailAndRefuse, Refuse, Idle
  <2>5. CASE Ack /\ UNCHANGED result
    <3>1. Underway /\ op.todo \in Seq(Commands) /\ op.todo # <<>>
      BY <1>0, <2>5, HeadTyped DEF Ack
    <3>2. Len(op.todo) # 1 /\ op'.todo = Tail(op.todo)
      <4>1. Next1(Generation(Head1)) /\ op' # Idle
        BY <1>3, <2>5 DEF Ack, Idle
      <4> QED
        BY <4>1 DEF Next1
    <3>3. \A i \in 1..Len(op'.todo) :
             op'.todo[i] = op.todo[i + 1] /\ i + 1 \in 1..Len(op.todo) /\ i + 1 # 1
      BY <3>1, <3>2
    <3> QED
      BY <1>0, <2>5, <3>1, <3>3 DEF Fresh
  <2>6. CASE op' = Idle \/ Go("warmStart")
    BY <1>0, <1>3, <2>6 DEF Idle, Go, OpTyped
  <2>7. CASE UNCHANGED result
    <3>1. CASE Examine \/ Replace \/ Start \/ ClaimCancel \/ Claim \/ Renew \/ Write
      BY <2>3, <2>6, <2>7, <3>1
         DEF Examine, Replace, Start, ClaimCancel, Claim, Renew, Write, Refuse, Steps
    <3>2. CASE AckTimeout /\ Go("cleanup")
      <4>1. op'.at = "cleanup" /\ op'.todo = op.todo /\ Underway
        BY <1>0, <3>2 DEF AckTimeout, Go, OpTyped
      <4> QED
        BY <1>0, <2>7, <4>1 DEF Fresh
    <3>3. CASE Check
      <4>1. Head1 \in Commands /\ ~Waiting /\ Underway
        BY <1>0, <3>3, HeadTyped DEF Check
      <4>2. CASE op' = Idle
        BY <2>6, <4>2
      <4>3. CASE op' # Idle
        BY <1>0, <1>1, <2>4, <2>7, <3>3, <4>1, <4>3 DEF Check, FailAndRefuse, Refuse
      <4> QED
        BY <4>2, <4>3
    <3> QED
      BY <2>1, <2>2, <2>5, <2>6, <2>7, <3>1, <3>2, <3>3, EveryStepMovesSo DEF OpMoves
  <2> QED
    BY <2>4, <2>6, <2>7, ResultOfTheCommandAtHand
<1>4. ASSUME NEW c \in Commands, result'[c] = "none", life'[c] # "new"
      PROVE  op'.at \in {"write", "check"} /\ c = Head1'
  <2>1. CASE life[c] = "new"
    <3>1. Claim /\ c = Head1
      BY <1>4, <2>1 DEF GoesOn
    <3> QED
      BY <1>0, <3>1 DEF Claim, Go, OpTyped, Head1
  <2>2. CASE life[c] # "new"
    <3>1. Writing /\ c = Head1
      BY <1>0, <1>2, <1>4, <2>2 DEF Fresh
    <3>2. CASE op' = op
      BY <3>1, <3>2 DEF Writing, Head1
    <3>3. CASE Write
      BY <1>0, <3>1, <3>3 DEF Write, Go, OpTyped, Head1
    <3>4. CASE Check \/ WriteFails
      <4>1. result'[c] # "none"
        BY <1>1, <3>1, <3>4 DEF Check, WriteFails, FailAndRefuse, Refuse
      <4> QED
        BY <1>4, <4>1
    <3>5. ~(Examine \/ Replace \/ Start \/ StartFails \/ ClaimCancel \/ Claim \/ Renew \/ ClaimFails
            \/ Ack \/ AckTimeout \/ CleanedUp \/ Warm \/ Shutdown \/ \E o \in Operations : Begin(o))
      BY <3>1
         DEF Writing, Examine, Replace, Start, StartFails, ClaimCancel, Claim, Renew, ClaimFails,
             Ack, AckTimeout, CleanedUp, Warm, Shutdown, Begin
    <3>6. CASE \/ \E d \in Commands : TimeOut(d) \/ Cancel(d) \/ DropStream(d)
               \/ \E g \in Children : Route(g) \/ BadLine(g) \/ Hang(g) \/ Exit(g)
               \/ \E g \in Children, d \in Commands, event \in {"chunk", "answer", "bad"} :
                    Take(g, d, event)
      <4>1. op' = op
        BY <3>6
           DEF TimeOut, Fire, FailTheOthers, Kill, TimerVars, Cancel, LockForCancel, WriteCancel,
               WriteCancelFails, CancelVars, DropStream, Route, Dispatch, FailBadLine, Eof, Drain,
               BadLine, Hang, Exit, Take, ReaderVars
      <4> QED
        BY <3>2, <4>1
    <3> QED
      BY <3>3, <3>4, <3>5, <3>6 DEF Next, Operate
  <2> QED
    BY <2>1, <2>2
<1>5. \A c \in Commands : Kind[c] = "cancel" => life'[c] = "new"
  BY <1>0 DEF Fresh, GoesOn
<1> QED
  BY <1>3, <1>4, <1>5 DEF Fresh, Waiting, Writing

\* Timers and cancels are of requests that were registered.
LEMMA TimersAreOfRequests ==
  ASSUME SidecarInv, GoesOn, Next
  PROVE  \A c \in Commands : life'[c] = "new" => timer'[c] = "off" /\ canceller'[c] = "off"
<1> SUFFICES ASSUME NEW c \in Commands, life'[c] = "new"
             PROVE  timer'[c] = "off" /\ canceller'[c] = "off"
  OBVIOUS
<1>0. /\ OpTyped /\ RequestsTyped /\ Sequenced
      /\ life[c] = "new" /\ timer[c] = "off" /\ canceller[c] = "off"
  BY TypeParts DEF SidecarInv, GoesOn, Registered
<1>1. timer = [d \in Commands |-> timer[d]] /\ canceller = [d \in Commands |-> canceller[d]]
  BY <1>0 DEF RequestsTyped
<1>2. CASE Claim
  <2>1. c # Head1
    BY <1>0, <1>2 DEF Claim, RequestsTyped
  <2> QED
    BY <1>0, <1>1, <1>2, <2>1 DEF Claim
<1>3. CASE AckTimeout
  <2>1. Found(Head1) /\ GiveUp(Head1) => c # Head1
    BY <1>0 DEF Found
  <2> QED
    BY <1>0, <1>1, <1>3, <2>1 DEF AckTimeout, GiveUp
<1>4. ASSUME NEW d \in Commands, TimeOut(d) \/ Cancel(d) \/ DropStream(d)
      PROVE  timer'[c] = "off" /\ canceller'[c] = "off"
  <2>1. CASE c = d
    BY <1>0, <1>1, <1>4, <2>1
       DEF TimeOut, Fire, FailTheOthers, Kill, Cancel, LockForCancel, WriteCancel,
           WriteCancelFails, DropStream, Found
  <2>2. CASE c # d
    BY <1>0, <1>1, <1>4, <2>2
       DEF TimeOut, Fire, FailTheOthers, Kill, Tick, Cancel, LockForCancel, WriteCancel,
           WriteCancelFails, CancelVars, DropStream, GiveUp
  <2> QED
    BY <2>1, <2>2
<1>5. CASE \/ Examine \/ Replace \/ Start \/ StartFails \/ ClaimCancel \/ Renew \/ ClaimFails
           \/ Check \/ Ack \/ CleanedUp \/ Write \/ WriteFails \/ Warm \/ Shutdown
           \/ \E o \in Operations : Begin(o)
  BY <1>0, <1>5
     DEF Examine, Replace, Start, StartFails, ClaimCancel, Renew, ClaimFails, Check, Ack,
         CleanedUp, Write, WriteFails, Warm, Shutdown, Begin, CallVars
<1>6. CASE \/ \E g \in Children : Route(g) \/ BadLine(g) \/ Hang(g) \/ Exit(g)
           \/ \E g \in Children, d \in Commands, event \in {"chunk", "answer", "bad"} :
                Take(g, d, event)
  BY <1>0, <1>6
     DEF Route, Dispatch, FailBadLine, Eof, Drain, BadLine, Hang, Exit, Take, ReaderVars
<1> QED
  BY <1>2, <1>3, <1>4, <1>5, <1>6 DEF Next, Operate

-----------------------------------------------------------------------------
(* The types of the other variables.                                       *)

LEMMA RequestsKept ==
  ASSUME SidecarInv, Next
  PROVE  RequestsTyped'
<1>0. RequestsTyped /\ OpTyped /\ Sequenced /\ Effect
  BY TypeParts, StepsHaveEffects DEF SidecarInv
<1>1. life' \in [Commands -> Lives] /\ home' \in [Commands -> 0..MaxChildren]
  <2>1. life \in [Commands -> Lives] /\ home \in [Commands -> 0..MaxChildren]
    BY <1>0 DEF RequestsTyped
  <2>2. CASE UNCHANGED <<life, home>>
    BY <2>1, <2>2
  <2>3. ASSUME NEW g \in Children, Empties(g)
        PROVE  life' \in [Commands -> Lives] /\ home' \in [Commands -> 0..MaxChildren]
    BY <2>1, <2>3 DEF Empties, FailAll, Lives
  <2>4. ASSUME NEW g \in Children, NEW c \in Commands, Ends(g, c) \/ Dispatches(g, c)
        PROVE  life' \in [Commands -> Lives] /\ home' \in [Commands -> 0..MaxChildren]
    <3>1. \A x \in Lives : [life EXCEPT ![c] = x] \in [Commands -> Lives]
      BY <2>1
    <3>2. UNCHANGED home /\ (UNCHANGED life \/ \E x \in Lives : life' = [life EXCEPT ![c] = x])
      BY <2>4 DEF Ends, Dispatches, Lives
    <3> QED
      BY <2>1, <3>1, <3>2
  <2>5. ASSUME NEW g \in Children, NEW c \in Commands, Claims(g, c)
        PROVE  life' \in [Commands -> Lives] /\ home' \in [Commands -> 0..MaxChildren]
    <3>1. "active" \in Lives /\ g \in 0..MaxChildren
      BY SidecarAssumption DEF Lives, Children
    <3>2. life' = [life EXCEPT ![c] = "active"] /\ home' = [home EXCEPT ![c] = g]
      BY <2>5 DEF Claims
    <3> QED
      BY <2>1, <3>1, <3>2
  <2> QED
    BY <1>0, <2>2, <2>3, <2>4, <2>5 DEF Effect, Rests, Keeps, Receives, Takes
<1>3. /\ timer' \in [Commands -> {"off", "armed", "condemned", "grace"}]
      /\ canceller' \in [Commands -> {"off", "waiting", "writing"}]
  <2>1. CASE Claim \/ AckTimeout
    BY <1>0, <2>1 DEF RequestsTyped, Claim, AckTimeout, GiveUp
  <2>2. ASSUME NEW c \in Commands, TimeOut(c) \/ Cancel(c) \/ DropStream(c)
        PROVE  /\ timer' \in [Commands -> {"off", "armed", "condemned", "grace"}]
               /\ canceller' \in [Commands -> {"off", "waiting", "writing"}]
    BY <1>0, <2>2
       DEF RequestsTyped, TimeOut, Fire, FailTheOthers, Kill, Tick, Cancel, LockForCancel,
           WriteCancel, WriteCancelFails, CancelVars, DropStream, GiveUp
  <2>3. CASE \/ Examine \/ Replace \/ Start \/ StartFails \/ ClaimCancel \/ Renew \/ ClaimFails
             \/ Check \/ Ack \/ CleanedUp \/ Write \/ WriteFails \/ Warm \/ Shutdown
             \/ \E o \in Operations : Begin(o)
    BY <1>0, <2>3
       DEF RequestsTyped, Examine, Replace, Start, StartFails, ClaimCancel, Renew, ClaimFails,
           Check, Ack, CleanedUp, Write, WriteFails, Warm, Shutdown, Begin, CallVars
  <2>4. CASE \/ \E g \in Children : Route(g) \/ BadLine(g) \/ Hang(g) \/ Exit(g)
             \/ \E g \in Children, c \in Commands, event \in {"chunk", "answer", "bad"} :
                  Take(g, c, event)
    BY <1>0, <2>4
       DEF RequestsTyped, Route, Dispatch, FailBadLine, Eof, Drain, BadLine, Hang, Exit, Take,
           ReaderVars
  <2> QED
    BY <2>1, <2>2, <2>3, <2>4 DEF Next, Operate
<1>4. result' \in [Commands -> {"none", "sent", "refused"}]
  BY <1>0, ResultOfTheCommandAtHand DEF RequestsTyped
<1> QED
  BY <1>1, <1>3, <1>4 DEF RequestsTyped

LEMMA OpKept ==
  ASSUME SidecarInv, Next
  PROVE  OpTyped'
<1>0. OpTyped /\ RequestsTyped /\ Sequenced
  BY TypeParts DEF SidecarInv
<1>1. op' \in [at : Steps, todo : Seq(Commands), gen : 0..MaxChildren]
  <2>1. ASSUME NEW at \in Steps, Go(at)
        PROVE  op' \in [at : Steps, todo : Seq(Commands), gen : 0..MaxChildren]
    BY <1>0, <2>1 DEF Go, OpTyped
  <2>2. CASE op' = Idle
    BY <2>2, SidecarAssumption DEF Idle, Steps
  <2>3. ASSUME NEW o \in Operations, Begin(o)
        PROVE  op' \in [at : Steps, todo : Seq(Commands), gen : 0..MaxChildren]
    BY <2>3, SidecarAssumption DEF Begin, Steps
  <2>4. ASSUME NEW gen \in 0..MaxChildren, Next1(gen), Underway
        PROVE  op' \in [at : Steps, todo : Seq(Commands), gen : 0..MaxChildren]
    <3>1. Tail(op.todo) \in Seq(Commands)
      BY <1>0, <2>4, HeadTyped
    <3>2. CASE Len(op.todo) = 1
      BY <2>2, <2>4, <3>2 DEF Next1
    <3>3. CASE Len(op.todo) # 1
      BY <2>4, <3>1, <3>3 DEF Next1, Steps
    <3> QED
      BY <3>2, <3>3
  <2>5. CASE Ack
    <3>1. Underway /\ home[Head1] \in 0..MaxChildren
      BY <1>0, <2>5, HeadTyped DEF Ack, Underway, RequestsTyped
    <3> QED
      BY <2>2, <2>4, <2>5, <3>1 DEF Ack, Generation
  <2>6. CASE Check
    <3>1. Underway /\ op.gen \in 0..MaxChildren
      BY <1>0, <2>6 DEF Check, Underway, OpTyped
    <3> QED
      BY <2>1, <2>2, <2>4, <2>6, <3>1 DEF Check, FailAndRefuse, Refuse, Steps
  <2>7. CASE Examine \/ Replace \/ Start \/ ClaimCancel \/ Claim \/ Renew \/ Write
    BY <2>1, <2>2, <2>7
       DEF Examine, Replace, Start, ClaimCancel, Claim, Renew, Write, Refuse, Steps
  <2>8. CASE UNCHANGED op \/ Go("warmStart") \/ (AckTimeout /\ Go("cleanup"))
    BY <1>0, <2>1, <2>8 DEF OpTyped, Steps
  <2> QED
    BY <2>2, <2>3, <2>5, <2>6, <2>7, <2>8, EveryStepMovesSo DEF OpMoves
<1>2. lock' \in {"free", "op"} \cup Commands
  <2>1. CASE \/ Examine \/ Replace \/ Start \/ StartFails \/ ClaimCancel \/ Claim \/ Renew
             \/ ClaimFails \/ Check \/ Ack \/ AckTimeout \/ CleanedUp \/ Write \/ WriteFails
             \/ Warm \/ Shutdown \/ \E o \in Operations : Begin(o)
    BY <1>0, <2>1
       DEF OpTyped, Examine, Replace, Start, StartFails, ClaimCancel, Claim, Renew, ClaimFails,
           Check, Ack, AckTimeout, CleanedUp, Write, WriteFails, Warm, Shutdown, Begin,
           FailAndRefuse, Refuse
  <2>2. CASE \/ \E c \in Commands : TimeOut(c) \/ Cancel(c) \/ DropStream(c)
             \/ \E g \in Children : Route(g) \/ BadLine(g) \/ Hang(g) \/ Exit(g)
             \/ \E g \in Children, c \in Commands, event \in {"chunk", "answer", "bad"} :
                  Take(g, c, event)
    BY <1>0, <2>2
       DEF OpTyped, TimeOut, Fire, FailTheOthers, Kill, TimerVars, Cancel, LockForCancel,
           WriteCancel, WriteCancelFails, DropStream, Route, Dispatch, FailBadLine, Eof, Drain,
           BadLine, Hang, Exit, Take, ReaderVars
  <2> QED
    BY <2>1, <2>2 DEF Next, Operate
<1> QED
  BY <1>1, <1>2 DEF OpTyped

LEMMA CountsKept ==
  ASSUME SidecarInv, Next
  PROVE  CountsTyped'
<1>0. CountsTyped
  BY TypeParts DEF SidecarInv
<1> USE SidecarAssumption DEF CountsTyped
<1>1. CASE Start
  BY <1>0, <1>1 DEF Start
<1>2. CASE Replace \/ Renew \/ Claim \/ StartFails \/ Shutdown
  BY <1>0, <1>2 DEF Replace, Renew, Claim, StartFails, Shutdown
<1>3. CASE \/ Examine \/ ClaimCancel \/ ClaimFails \/ Check \/ Ack \/ AckTimeout \/ CleanedUp
           \/ Write \/ WriteFails \/ Warm \/ \E o \in Operations : Begin(o)
  <2>1. UNCHANGED <<current, started, seen>>
    BY <1>3
       DEF Examine, ClaimCancel, ClaimFails, Check, Ack, AckTimeout, CleanedUp, Write, WriteFails,
           Warm, Begin, CallVars
  <2> QED
    BY <1>0, <2>1
<1>4. CASE \/ \E c \in Commands : TimeOut(c) \/ Cancel(c) \/ DropStream(c)
           \/ \E g \in Children : Route(g) \/ BadLine(g) \/ Hang(g) \/ Exit(g)
           \/ \E g \in Children, c \in Commands, event \in {"chunk", "answer", "bad"} :
                Take(g, c, event)
  <2>1. UNCHANGED <<current, started, seen>>
    BY <1>4
       DEF TimeOut, Fire, FailTheOthers, Kill, TimerVars, Cancel, LockForCancel, WriteCancel,
           WriteCancelFails, CancelVars, DropStream, Route, Dispatch, FailBadLine, Eof, Drain,
           BadLine, Hang, Exit, Take, ReaderVars
  <2> QED
    BY <1>0, <2>1
<1> QED
  BY <1>1, <1>2, <1>3, <1>4 DEF Next, Operate

-----------------------------------------------------------------------------
(* The theorems.                                                           *)

\* The command at hand is in no table when its sender is told of a failure.
LEMMA RefusedIsInNoTable ==
  ASSUME SidecarInv, Next, Effect, GoesOn, TablesAreTrue', NEW g \in Children, NEW c \in Commands,
         c \in child'[g].table
  PROVE  result'[c] # "refused"
<1>0. /\ ChildTyped /\ OpTyped /\ RequestsTyped /\ Sequenced /\ Fresh /\ AtItsChild
      /\ CountsTyped /\ Registered /\ RoutesAreTrue
  BY TypeParts DEF SidecarInv
<1>1. result = [d \in Commands |-> result[d]]
  BY <1>0 DEF RequestsTyped
<1>2. life'[c] = "active" /\ home'[c] = g
  BY DEF TablesAreTrue, Active
<1>3. CASE Claim
  <2>1. UNCHANGED result
    BY <1>3 DEF Claim
  <2>2. op.todo \in Seq(Commands) /\ op.todo # <<>> /\ Underway /\ ~Waiting
    BY <1>0, <1>3, HeadTyped DEF Claim, Underway, Waiting
  <2>3. result[Head1] = "none"
    BY <1>0, <2>2 DEF Fresh, Head1
  <2>4. c # Head1 => c \in child[g].table
    BY <1>0, OnlyTheCommandAtHand
  <2> QED
    BY <1>0, <2>1, <2>3, <2>4 DEF RoutesAreTrue, Active
<1>4. CASE ~Claim
  <2>1. c \in child[g].table
    BY <1>0, <1>4, OnlyTheCommandAtHand
  <2>2. result[c] # "refused" /\ life[c] = "active" /\ home[c] = g
    BY <1>0, <2>1 DEF RoutesAreTrue, Active
  <2>3. CASE UNCHANGED result
    BY <2>2, <2>3
  <2>4. CASE result' = [result EXCEPT ![Head1] = "sent"]
    BY <1>1, <2>2, <2>4
  <2>5. CASE Underway /\ ~Waiting /\ result' = [result EXCEPT ![Head1] = "refused"] /\ op' = Idle
    <3>1. CASE c # Head1
      BY <1>1, <2>2, <2>5, <3>1
    <3>2. CASE c = Head1 /\ ~Writing
      <4>1. op.todo \in Seq(Commands) /\ op.todo # <<>>
        BY <1>0, <2>5, HeadTyped
      <4>2. result[Head1] = "none"
        BY <1>0, <2>5, <4>1 DEF Fresh, Head1
      <4> QED
        BY <1>0, <2>2, <3>2, <4>2 DEF Fresh
    <3>3. CASE c = Head1 /\ Writing
      <4>1. current = g /\ current # 0
        BY <1>0, <2>2, <3>3 DEF AtItsChild, Fresh
      <4>2. CASE FailAndRefuse(TRUE) /\ UNCHANGED home
        <5>1. Empties(g)
          BY <1>0, <4>1, <4>2, EmptyingSteps
        <5>2. child'[g].table = {}
          BY <1>0, <5>1, TurnsOnly DEF Empties
        <5> QED
          BY <5>2
      <4>3. CASE UNCHANGED result
        BY <2>3, <4>3
      <4>4. CASE Check /\ ~FailAndRefuse(TRUE)
        BY <2>4, <4>4 DEF Check
      <4>5. WriteFails => FailAndRefuse(TRUE) /\ UNCHANGED home
        BY DEF WriteFails
      <4>6. Check => UNCHANGED home
        BY DEF Check
      <4>7. ~(Examine \/ StartFails \/ ClaimCancel \/ ClaimFails)
        BY <3>3 DEF Writing, Examine, StartFails, ClaimCancel, ClaimFails
      <4>8. CASE Replace \/ Start \/ Renew \/ Ack \/ AckTimeout \/ CleanedUp
                 \/ Write \/ Warm \/ Shutdown \/ \E o \in Operations : Begin(o)
        BY <4>3, <4>8
           DEF Replace, Start, Renew, Ack, AckTimeout, CleanedUp, Write, Warm, Shutdown, Begin
      <4>9. CASE \/ \E d \in Commands : TimeOut(d) \/ Cancel(d) \/ DropStream(d)
                 \/ \E h \in Children : Route(h) \/ BadLine(h) \/ Hang(h) \/ Exit(h)
                 \/ \E h \in Children, d \in Commands, event \in {"chunk", "answer", "bad"} :
                      Take(h, d, event)
        BY <4>3, <4>9
           DEF TimeOut, Fire, FailTheOthers, Kill, TimerVars, Cancel, LockForCancel, WriteCancel,
               WriteCancelFails, CancelVars, DropStream, Route, Dispatch, FailBadLine, Eof, Drain,
               BadLine, Hang, Exit, Take, ReaderVars
      <4> QED
        BY <1>4, <4>2, <4>4, <4>5, <4>6, <4>7, <4>8, <4>9 DEF Next, Operate
    <3> QED
      BY <3>1, <3>2, <3>3
  <2> QED
    BY <2>3, <2>4, <2>5, ResultOfTheCommandAtHand
<1> QED
  BY <1>3, <1>4

\* A request is written to the child that its operation configured.
LEMMA ConfiguredFirstKept ==
  ASSUME SidecarInv, Next, Effect, GoesOn, ChildTyped'
  PROVE  ConfiguredFirst'
<1>0. ChildTyped /\ OpTyped /\ CountsTyped /\ Sequenced /\ AtItsChild /\ ConfiguredFirst
  BY TypeParts DEF SidecarInv
<1> SUFFICES ASSUME NEW g \in Children, NEW c \in child'[g].received, NEW k \in Before(c)
             PROVE  home'[k] = g /\ life'[k] = "answered"
  BY DEF ConfiguredFirst, Before
<1>1. k \in Commands
  BY DEF Before
<1>2. c \in Commands
  BY DEF ChildTyped, Child
<1>3. CASE c \in child[g].received
  BY <1>0, <1>1, <1>3 DEF ConfiguredFirst, GoesOn
<1>4. CASE Write /\ g = current /\ c = Head1
  <2>1. Underway /\ Writing /\ op.todo \in Seq(Commands) /\ op.todo # <<>>
    BY <1>0, <1>4, HeadTyped DEF Write, Underway, Writing
  <2>2. PICK o \in Operations : \E n \in DOMAIN CommandsOf[o] : LeftOf(o, n)
    BY <1>0, <2>1 DEF Sequenced
  <2>3. PICK n \in DOMAIN CommandsOf[o] : LeftOf(o, n)
    BY <2>2
  <2>4. CommandsOf[o] \in Seq(Commands)
    BY SidecarAssumption
  <2>5. c = CommandsOf[o][n]
    <3>1. n \in Nat /\ 1 \in 1..Len(op.todo) /\ Head1 = op.todo[1]
      BY <2>1, <2>4 DEF Head1
    <3>2. op.todo[1] = CommandsOf[o][n + 1 - 1] /\ n + 1 - 1 = n
      BY <2>3, <3>1 DEF LeftOf
    <3> QED
      BY <1>4, <3>1, <3>2
  <2>6. PICK p \in Operations : \E i, j \in DOMAIN CommandsOf[p] :
           i < j /\ CommandsOf[p][i] = k /\ CommandsOf[p][j] = c /\ Kind[k] = "configure"
    BY DEF Before
  <2>7. PICK i \in DOMAIN CommandsOf[p], j \in DOMAIN CommandsOf[p] :
           i < j /\ CommandsOf[p][i] = k /\ CommandsOf[p][j] = c /\ Kind[k] = "configure"
    BY <2>6
  <2>8. p = o /\ j = n
    BY <2>5, <2>7, SidecarAssumption
  <2>9. i \in 1..(n - 1) /\ CommandsOf[o][i] = k
    BY <2>4, <2>7, <2>8
  <2>10. op.gen # 0 /\ life[k] = "answered" /\ home[k] = op.gen
    BY <2>3, <2>7, <2>9 DEF LeftOf
  <2>11. op.gen = g
    BY <1>0, <1>4, <2>1, <2>10 DEF AtItsChild
  <2> QED
    BY <1>1, <2>10, <2>11 DEF GoesOn
<1> QED
  BY <1>0, <1>2, <1>3, <1>4, OnlyTheCommandAtHand

\* The inductive invariant: the types, the operation and what it has configured, the routes.
THEOREM SidecarInvariant == Spec => []SidecarInv
<1>1. Init => SidecarInv
  <2> SUFFICES ASSUME Init PROVE SidecarInv
    OBVIOUS
  <2>1. TypeOK
    <3>1. Unborn \in Child
      BY DEF Unborn, Child
    <3> QED
      BY <3>1, SidecarAssumption DEF Init, TypeOK, Idle, Steps, Lives
  <2>2. \A g \in Children : child[g] = Unborn
    BY DEF Init
  <2>3. \A g \in Children :
           child[g].table = {} /\ child[g].received = {} /\ child[g].hand = Nothing
    BY <2>2 DEF Unborn
  <2>4. /\ op.at = "idle"
        /\ \A c \in Commands : /\ life[c] = "new" /\ result[c] = "none"
                               /\ timer[c] = "off" /\ canceller[c] = "off"
    BY DEF Init, Idle
  <2>5. Sequenced /\ Fresh /\ AtItsChild
    BY <2>4 DEF Sequenced, Fresh, AtItsChild, Underway, Writing, Waiting
  <2>6. Registered /\ RoutesAreTrue /\ ConfiguredFirst
    BY <2>3, <2>4 DEF Registered, RoutesAreTrue, ConfiguredFirst, Active
  <2> QED
    BY <2>1, <2>5, <2>6 DEF SidecarInv
<1>2. SidecarInv /\ [Next]_vars => SidecarInv'
  <2>1. ASSUME SidecarInv, UNCHANGED vars
        PROVE  SidecarInv'
    <3>1. UNCHANGED <<op, lock, current, started, child, seen, life, home, timer, canceller, result>>
      BY <2>1 DEF vars
    <3>2. TypeOK' /\ Registered'
      BY <2>1, <3>1 DEF SidecarInv, TypeOK, Registered, Active
    <3>3. Sequenced' /\ Fresh' /\ AtItsChild'
      BY <2>1, <3>1
         DEF SidecarInv, Sequenced, LeftOf, Fresh, AtItsChild, Underway, Writing, Waiting, Head1
    <3>4. RoutesAreTrue' /\ ConfiguredFirst'
      BY <2>1, <3>1 DEF SidecarInv, RoutesAreTrue, ConfiguredFirst, Active, LastInHand
    <3> QED
      BY <3>2, <3>3, <3>4 DEF SidecarInv
  <2>2. ASSUME SidecarInv, Next
        PROVE  SidecarInv'
    <3>1. /\ ChildTyped /\ RequestsTyped /\ OpTyped /\ CountsTyped
          /\ Sequenced /\ Fresh /\ AtItsChild /\ Registered /\ RoutesAreTrue
      BY <2>2, TypeParts DEF SidecarInv
    <3>2. Effect /\ (Claim => life[Head1] = "new")
      BY <2>2, <3>1, StepsHaveEffects, ClaimedIsNew
    <3>3. GoesOn
      BY <3>1, <3>2, LifeGoesOn DEF GoesOn
    <3>4. TablesAreTrue /\ HandsAreKnown /\ \A c \in Commands : life[c] # "new" => home[c] \in Children
      BY <3>1 DEF TablesAreTrue, HandsAreKnown, RoutesAreTrue, Registered
    <3>5. ChildTyped' /\ TablesAreTrue' /\ HandsAreKnown'
      BY <3>1, <3>2, <3>4, TablesStayTrue
    <3>6. TypeOK'
      BY <2>2, <3>5, RequestsKept, OpKept, CountsKept, TypeParts
         DEF TypeOK, ChildTyped, RequestsTyped, OpTyped, CountsTyped
    <3>7. Sequenced' /\ Fresh' /\ AtItsChild'
      BY <2>2, <3>1, <3>3, SequencedKept, FreshKept, AtItsChildKept
    <3>8. RoutesAreTrue'
      BY <2>2, <3>2, <3>3, <3>5, RefusedIsInNoTable DEF TablesAreTrue, RoutesAreTrue, Active
    <3>9. \A c \in Commands : life'[c] # "new" => home'[c] \in Children
      BY <3>3, <3>4 DEF GoesOn
    <3>10. Registered'
      BY <2>2, <3>3, <3>5, <3>9, TimersAreOfRequests DEF Registered, HandsAreKnown
    <3> QED
      BY <2>2, <3>2, <3>3, <3>5, <3>6, <3>7, <3>8, <3>10, ConfiguredFirstKept DEF SidecarInv
  <2> QED
    BY <2>1, <2>2
<1> QED
  BY <1>1, <1>2, PTL DEF Spec

\* The state stays well typed.
THEOREM SidecarTypes == Spec => []TypeOK
<1>1. SidecarInv => TypeOK
  BY DEF SidecarInv
<1> QED
  BY <1>1, SidecarInvariant, PTL

\* A request waits in a table exactly while events can reach it, and no sender that was told of
\* a failure left one there (route_parsed_event, fail_all_requests).
THEOREM TablesRouteTruly == Spec => []RoutesAreTrue
<1>1. SidecarInv => RoutesAreTrue
  BY DEF SidecarInv
<1> QED
  BY <1>1, SidecarInvariant, PTL

\* A request reaches only the child that acknowledged the configuration sent before it
\* (send_sequence_to and the generation it passes on).
THEOREM NothingBeforeItsConfiguration == Spec => []ConfiguredFirst
<1>1. SidecarInv => ConfiguredFirst
  BY DEF SidecarInv
<1> QED
  BY <1>1, SidecarInvariant, PTL
-----------------------------------------------------------------------------
(* The HTTP host.                                                          *)

Reqs == Http!Requests
HttpEvent == [of : Nat, last : BOOLEAN]
HttpRequest == [id : Ids \cup Nat, ping : BOOLEAN, terminal : BOOLEAN, chunks : Nat,
                step : {"opened", "reading", "leaving", "cancelled", "gone"}, read : BOOLEAN,
                buffer : Seq(HttpEvent)]
HttpCommand == [type : {"request", "cancel"}, id : Ids \cup Nat, of : Nat]

Sent(m) == \E i \in DOMAIN commands : commands[i].type = "request" /\ commands[i].of = m
Coming(m) == \E i \in DOMAIN events : events[i].of = m
InHandOf(m) == inHand # <<>> /\ inHand[1].event.of = m
\* The child still has the request to run, or an event of it is on its way to the dispatch thread.
Pending(m) == Sent(m) \/ m \in active \/ Coming(m)
Retired(id) == \E i \in DOMAIN tombstones : tombstones[i] = id

HttpTyped ==
  /\ session \in {"none", "starting", "failed", "up", "deaf", "exited"} /\ closed \in BOOLEAN
  /\ req \in Seq(HttpRequest) /\ registered \subseteq Reqs /\ active \subseteq Reqs
  /\ tombstones \in Seq(Ids) /\ commands \in Seq(HttpCommand) /\ events \in Seq(HttpEvent)
  /\ inHand \in Seq([event : HttpEvent, to : Reqs]) /\ Len(inHand) <= 1
  /\ \A i \in DOMAIN commands : commands[i].type = "request" => commands[i].of \in Reqs
  /\ \A i \in DOMAIN events : events[i].of \in Reqs
  /\ inHand # <<>> => inHand[1].event.of \in Reqs
  /\ \A m \in Reqs : IF req[m].ping THEN req[m].id = m ELSE req[m].id \in Ids

\* How a request goes through the child: sent once, run, and over with its terminal event, which
\* is the last of it in every queue.
Flow ==
  /\ \A i, j \in DOMAIN commands :
       commands[i].type = "request" /\ commands[j].type = "request"
         /\ commands[i].of = commands[j].of => i = j
  /\ \A m \in Reqs : Sent(m) => m \notin active /\ ~Coming(m) /\ ~InHandOf(m) /\ ~req[m].terminal
  /\ \A i \in DOMAIN events : events[i].last =>
       /\ events[i].of \notin active
       /\ \A j \in DOMAIN events : events[j].of = events[i].of => j <= i
  /\ inHand # <<>> /\ inHand[1].event.last => ~Pending(inHand[1].event.of)
  /\ \A m \in Reqs : req[m].terminal => ~Pending(m)

\* The child is gone when the gateway is closed, and has nothing when it is gone.
ChildState ==
  /\ closed => session \notin {"starting", "up", "deaf"} /\ registered = {}
  /\ ~Http!Running => commands = <<>> /\ active = {}

\* Who holds an id: one subscription, or the tombstone of a request that may still be heard of.
Holders ==
  /\ \A m, n \in Reqs : req[m].id = req[n].id /\ Pending(m) /\ (Pending(n) \/ n \in registered)
       => m = n
  /\ \A m, n \in registered : req[m].id = req[n].id => m = n
  /\ \A m \in Reqs : Pending(m) => closed \/ m \in registered \/ req[m].ping \/ Retired(req[m].id)
  /\ inHand # <<>> => inHand[1].to = inHand[1].event.of
  /\ \A m \in Reqs : req[m].step # "gone" => closed \/ m \in registered

TombstonesDiffer == \A i, j \in DOMAIN tombstones : tombstones[i] = tombstones[j] => i = j

\* What lies in a buffer: the terminal event, if it came, is the last, and stays until it is read.
Buffered(r) ==
  /\ Len(r.buffer) <= BufferSize
  /\ \A k \in DOMAIN r.buffer : r.buffer[k].last => r.terminal /\ k = Len(r.buffer)
  /\ r.terminal /\ ~r.read => r.buffer # <<>> /\ r.buffer[Len(r.buffer)].last
  /\ r.read => r.terminal /\ r.step \in {"cancelled", "gone"}
BuffersEnd == \A n \in Reqs : Buffered(req[n])

HttpInv == HttpTyped /\ Flow /\ ChildState /\ Holders /\ TombstonesDiffer /\ NoStrayEvent

\* The ids whose end nobody has seen: retired, or about to be.
OpenEnds ==
  {req[n].id : n \in {n \in Reqs : req[n].step = "cancelled" /\ Http!Retires(n)}}
    \cup {tombstones[i] : i \in DOMAIN tombstones}
FewOpenEnds == IsFiniteSet(OpenEnds) /\ Cardinality(OpenEnds) <= MaxTombstones
-----------------------------------------------------------------------------
(* What the steps do.                                                      *)

\* Request n becomes r, which has its id; every other stays as it is.
Becomes(n, r) ==
  /\ r \in HttpRequest /\ r.id = req[n].id /\ r.ping = req[n].ping
  /\ req' \in Seq(HttpRequest) /\ Len(req') = Len(req)
  /\ \A m \in Reqs : req'[m] = IF m = n THEN r ELSE req[m]

LEMMA HeadIsThere ==
  ASSUME NEW T, NEW s \in Seq(T), s # <<>>
  PROVE  s[1] \in T /\ 1 \in DOMAIN s
OBVIOUS

LEMMA SequencesGrow ==
  ASSUME NEW T, NEW U, T \subseteq U, NEW s \in Seq(T)
  PROVE  s \in Seq(U)
<1>1. \A i \in 1..Len(s) : s[i] \in U
  OBVIOUS
<1>2. s = [i \in 1..Len(s) |-> s[i]] /\ Len(s) \in Nat
  OBVIOUS
<1>3. [i \in 1..Len(s) |-> s[i]] \in Seq(U)
  BY <1>1, <1>2
<1> QED
  BY <1>2, <1>3

LEMMA EmptyIsTyped ==
  ASSUME NEW T
  PROVE  <<>> \in Seq(T) /\ Len(<<>>) = 0
OBVIOUS

LEMMA AppendedTo ==
  ASSUME NEW T, NEW s \in Seq(T), NEW e \in T
  PROVE  /\ Append(s, e) \in Seq(T) /\ Len(Append(s, e)) = Len(s) + 1
         /\ \A i \in DOMAIN s : i \in DOMAIN Append(s, e) /\ Append(s, e)[i] = s[i]
         /\ Len(s) + 1 \in DOMAIN Append(s, e) /\ Append(s, e)[Len(s) + 1] = e
         /\ \A i \in DOMAIN Append(s, e) : i \in DOMAIN s \/ i = Len(s) + 1
OBVIOUS

LEMMA TailOf ==
  ASSUME NEW T, NEW s \in Seq(T), s # <<>>
  PROVE  /\ Tail(s) \in Seq(T) /\ Len(Tail(s)) = Len(s) - 1
         /\ \A i \in DOMAIN Tail(s) : i \in Nat /\ i + 1 \in DOMAIN s /\ Tail(s)[i] = s[i + 1]
         /\ \A i \in DOMAIN s : i \in Nat /\ (i # 1 => i - 1 \in DOMAIN Tail(s))
         /\ Head(s) = s[1] /\ s[1] \in T /\ 1 \in DOMAIN s
OBVIOUS

LEMMA ReplacingOne ==
  ASSUME HttpTyped, NEW n \in Reqs, NEW r \in HttpRequest, r.id = req[n].id, r.ping = req[n].ping,
         req' = [req EXCEPT ![n] = r]
  PROVE  Becomes(n, r)
BY DEF HttpTyped, Reqs, Http!Requests, Becomes

LEMMA Stepping ==
  ASSUME HttpTyped, NEW n \in Reqs, NEW s \in {"opened", "reading", "leaving", "cancelled", "gone"},
         Http!Step(n, s)
  PROVE  Becomes(n, [req[n] EXCEPT !.step = s])
<1>1. req[n] \in HttpRequest
  BY DEF HttpTyped, Reqs, Http!Requests
<1>2. [req[n] EXCEPT !.step = s] \in HttpRequest
  BY <1>1 DEF HttpRequest
<1>3. req' = [req EXCEPT ![n] = [req[n] EXCEPT !.step = s]]
  BY DEF Http!Step
<1> QED
  BY <1>1, <1>2, <1>3, ReplacingOne DEF HttpRequest

LEMMA Emitting ==
  ASSUME HttpTyped, NEW n \in active, NEW last \in BOOLEAN, Http!Emit(n, last)
  PROVE  \/ req' = req
         \/ Becomes(n, [req[n] EXCEPT !.chunks = req[n].chunks + 1])
<1>1. n \in Reqs /\ req[n] \in HttpRequest
  BY DEF HttpTyped, Reqs, Http!Requests
<1>2. [req[n] EXCEPT !.chunks = req[n].chunks + 1] \in HttpRequest
  BY <1>1 DEF HttpRequest
<1> QED
  BY <1>1, <1>2, ReplacingOne DEF Http!Emit, HttpRequest

LEMMA FilledBuffer ==
  ASSUME HttpTyped, NEW b \in Seq(HttpEvent), NEW e \in HttpEvent
  PROVE  /\ Http!Filled(b, e) \in Seq(HttpEvent)
         /\ Len(b) <= BufferSize => Len(Http!Filled(b, e)) <= BufferSize
         /\ e.last => Http!Filled(b, e) # <<>> /\ Http!Filled(b, e)[Len(Http!Filled(b, e))] = e
         /\ \A k \in DOMAIN Http!Filled(b, e) : Http!Filled(b, e)[k] = e \/ \E j \in DOMAIN b : Http!Filled(b, e)[k] = b[j]
         /\ \A k \in DOMAIN Http!Filled(b, e) : k # Len(Http!Filled(b, e)) => \E j \in DOMAIN b : Http!Filled(b, e)[k] = b[j]
<1>1. BufferSize \in Nat \ {0}
  BY HttpConstants DEF Http!HttpGatewayAssumption
<1> QED
  BY <1>1, SMTT(30) DEF Http!Filled

LEMMA Dispatching ==
  ASSUME HttpTyped, Http!Dispatch
  PROVE  LET e == inHand[1].event
             n == inHand[1].to
         IN /\ e \in HttpEvent /\ n \in Reqs /\ e.of \in Reqs
            /\ \/ req[n].terminal /\ req' = req
               \/ ~req[n].terminal /\ Becomes(n, [req[n] EXCEPT !.terminal = e.last, !.buffer = Http!Filled(req[n].buffer, e)])
<1> DEFINE e == inHand[1].event
           n == inHand[1].to
           r == [req[n] EXCEPT !.terminal = e.last, !.buffer = Http!Filled(req[n].buffer, e)]
<1>0. inHand \in Seq([event : HttpEvent, to : Reqs]) /\ inHand # <<>>
  BY DEF HttpTyped, Http!Dispatch
<1>a. inHand[1] \in [event : HttpEvent, to : Reqs]
  BY <1>0, HeadIsThere
<1>1. e \in HttpEvent /\ n \in Reqs /\ e.of \in Reqs
  BY <1>0, <1>a DEF HttpTyped
<1>2. req[n] \in HttpRequest
  BY <1>1 DEF HttpTyped, Reqs, Http!Requests
<1>3. Http!Filled(req[n].buffer, e) \in Seq(HttpEvent)
  BY <1>1, <1>2, FilledBuffer DEF HttpRequest
<1>4. r \in HttpRequest /\ r.id = req[n].id /\ r.ping = req[n].ping
  BY <1>1, <1>2, <1>3 DEF HttpRequest, HttpEvent
<1>5. ~req[n].terminal => req' = [req EXCEPT ![n] = r]
  BY DEF Http!Dispatch
<1> QED
  BY <1>1, <1>4, <1>5, ReplacingOne DEF Http!Dispatch

LEMMA ReadingAnEvent ==
  ASSUME HttpTyped, NEW n \in Reqs, Http!Read(n)
  PROVE  LET e == Head(req[n].buffer)
         IN Becomes(n, [req[n] EXCEPT !.buffer = Tail(req[n].buffer), !.read = e.last,
                                      !.step = IF e.last THEN "cancelled" ELSE req[n].step])
<1> DEFINE e == Head(req[n].buffer)
           r == [req[n] EXCEPT !.buffer = Tail(req[n].buffer), !.read = e.last,
                               !.step = IF e.last THEN "cancelled" ELSE req[n].step]
<1>0. req[n] \in HttpRequest
  BY DEF HttpTyped, Reqs, Http!Requests
<1>1. req[n] \in HttpRequest /\ req[n].buffer \in Seq(HttpEvent) /\ req[n].buffer # <<>>
  BY <1>0 DEF Http!Read, HttpRequest
<1>2. e \in HttpEvent /\ Tail(req[n].buffer) \in Seq(HttpEvent)
  BY <1>1
<1>3. r \in HttpRequest /\ r.id = req[n].id /\ r.ping = req[n].ping
  BY <1>1, <1>2 DEF HttpRequest, HttpEvent
<1>4. req' = [req EXCEPT ![n] = r]
  BY DEF Http!Read
<1> QED
  BY <1>3, <1>4, ReplacingOne

LEMMA Sending ==
  ASSUME HttpTyped, NEW id \in Ids \cup Nat, NEW ping \in BOOLEAN, Http!Send(id, ping)
  PROVE  LET n == Len(req) + 1
         IN /\ n \notin Reqs /\ n \in Nat /\ Reqs' = Reqs \cup {n}
            /\ req' \in Seq(HttpRequest) /\ Len(req') = n
            /\ \A m \in Reqs : req'[m] = req[m]
            /\ req'[n] = Http!Fresh(id, ping)
            /\ registered' = registered \cup {n}
            /\ commands' = Append(commands, [type |-> "request", id |-> id, of |-> n])
            /\ \A m \in registered : req[m].id # id
            /\ \A i \in DOMAIN tombstones : tombstones[i] # id
<1>1. Http!Fresh(id, ping) \in HttpRequest
  BY DEF Http!Fresh, HttpRequest
<1>2. \A i \in DOMAIN tombstones : tombstones[i] # id
  <2>1. ~Http!Contains(tombstones, id) /\ tombstones \in Seq(Ids)
    BY DEF Http!Send, HttpTyped
  <2> QED
    BY <2>1 DEF Http!Contains
<1>3. Len(req) \in Nat /\ req \in Seq(HttpRequest) /\ req' = Append(req, Http!Fresh(id, ping))
  BY DEF Http!Send, HttpTyped
<1>4. /\ req' \in Seq(HttpRequest) /\ Len(req') = Len(req) + 1
      /\ \A m \in 1..Len(req) : req'[m] = req[m]
      /\ req'[Len(req) + 1] = Http!Fresh(id, ping)
  BY <1>1, <1>3
<1>5. Reqs' = Reqs \cup {Len(req) + 1} /\ Len(req) + 1 \notin Reqs /\ Len(req) + 1 \in Nat
  BY <1>3, <1>4 DEF Reqs, Http!Requests
<1> QED
  BY <1>2, <1>4, <1>5 DEF Http!Send, Http!Known, Reqs, Http!Requests

LEMMA Joined ==
  ASSUME NEW T, NEW u \in Seq(T), NEW v \in Seq(T)
  PROVE  /\ u \o v \in Seq(T) /\ Len(u \o v) = Len(u) + Len(v)
         /\ \A i \in 1..(Len(u) + Len(v)) : (u \o v)[i] = IF i <= Len(u) THEN u[i] ELSE v[i - Len(u)]
OBVIOUS

LEMMA ForgettingAnId ==
  ASSUME NEW T, NEW s \in Seq(T), NEW e,
         \A i, j \in DOMAIN s : s[i] = s[j] => i = j
  PROVE  /\ Http!RemoveFirst(s, e) \in Seq(T)
         /\ \A i, j \in DOMAIN Http!RemoveFirst(s, e) :
              Http!RemoveFirst(s, e)[i] = Http!RemoveFirst(s, e)[j] => i = j
         /\ \A i \in DOMAIN s : s[i] # e => \E j \in DOMAIN Http!RemoveFirst(s, e) : Http!RemoveFirst(s, e)[j] = s[i]
         /\ \A j \in DOMAIN Http!RemoveFirst(s, e) : \E i \in DOMAIN s : Http!RemoveFirst(s, e)[j] = s[i]
<1>1. CASE \E k \in 1..Len(s) : s[k] = e
  <2>1. PICK k \in 1..Len(s) : s[k] = e
    BY <1>1
  <2>2. Http!RemoveFirst(s, e) = Http!RemoveAt(s, Http!SelectInSeq(s, LAMBDA v : v = e))
    BY <1>1, Zenon DEF Http!RemoveFirst
  <2>3. Http!SelectInSeq(s, LAMBDA v : v = e)
          = LET I == {i \in 1..Len(s) : s[i] = e} IN IF I # {} THEN Http!Min(I) ELSE 0
    BY Zenon DEF Http!SelectInSeq
  <2>4. {i \in 1..Len(s) : s[i] = e} = {k}
    BY <2>1
  <2>5. Http!SelectInSeq(s, LAMBDA v : v = e) = Http!Min({k})
    BY <2>3, <2>4, Zenon
  <2>6. Http!Min({k}) = k
    BY DEF Http!Min
  <2>7. Http!RemoveFirst(s, e) = Http!RemoveAt(s, k)
    BY <2>2, <2>5, <2>6, Zenon
  <2> DEFINE t == SubSeq(s, 1, k - 1) \o SubSeq(s, k + 1, Len(s))
  <2>a. /\ SubSeq(s, 1, k - 1) \in Seq(T) /\ Len(SubSeq(s, 1, k - 1)) = k - 1
        /\ \A i \in 1..(k - 1) : SubSeq(s, 1, k - 1)[i] = s[i]
    OBVIOUS
  <2>b. /\ SubSeq(s, k + 1, Len(s)) \in Seq(T) /\ Len(SubSeq(s, k + 1, Len(s))) = Len(s) - k
        /\ \A i \in 1..(Len(s) - k) : SubSeq(s, k + 1, Len(s))[i] = s[k + i]
    OBVIOUS
  <2>c. k \in Nat /\ Len(s) \in Nat /\ k >= 1 /\ k <= Len(s)
    OBVIOUS
  <2> DEFINE u == SubSeq(s, 1, k - 1)
             v == SubSeq(s, k + 1, Len(s))
  <2>d. u \in Seq(T) /\ v \in Seq(T) /\ Len(u) = k - 1 /\ Len(v) = Len(s) - k
    BY <2>a, <2>b
  <2>e. /\ \A i \in 1..(k - 1) : u[i] = s[i]
        /\ \A i \in 1..(Len(s) - k) : v[i] = s[k + i]
    BY <2>a, <2>b
  <2> HIDE DEF u, v
  <2>8. t \in Seq(T) /\ Len(t) = Len(s) - 1
    <3>1. t = u \o v
      BY DEF u, v
    <3> HIDE DEF t
    <3>a. u \o v \in Seq(T)
      BY <2>d, Joined
    <3>b. Len(u \o v) = Len(u) + Len(v)
      BY <2>d, Joined
    <3>2. t \in Seq(T) /\ Len(t) = Len(u) + Len(v)
      BY <3>1, <3>a, <3>b
    <3> QED
      BY <3>2, <2>c, <2>d
  <2>9. \A i \in 1..(Len(s) - 1) : t[i] = IF i < k THEN s[i] ELSE s[i + 1]
    <3>1. t = u \o v
      BY DEF u, v
    <3> HIDE DEF t
    <3> SUFFICES ASSUME NEW i \in 1..(Len(s) - 1) PROVE t[i] = IF i < k THEN s[i] ELSE s[i + 1]
      OBVIOUS
    <3>0. i \in 1..(Len(u) + Len(v))
      BY <2>c, <2>d
    <3>2. t[i] = IF i <= k - 1 THEN u[i] ELSE v[i - (k - 1)]
      <4>1. t[i] = IF i <= Len(u) THEN u[i] ELSE v[i - Len(u)]
        BY <3>0, <3>1, <2>d, Joined
      <4> QED
        BY <4>1, <2>d
    <3>3. i >= k => v[i - (k - 1)] = s[k + (i - (k - 1))] /\ k + (i - (k - 1)) = i + 1
      BY <2>c, <2>e
    <3>4. i < k => i <= k - 1 /\ u[i] = s[i]
      BY <2>c, <2>e
    <3> QED
      BY <2>c, <3>2, <3>3, <3>4
  <2>10. Http!RemoveFirst(s, e) = t
    BY <2>7, Zenon DEF Http!RemoveAt
  <2> HIDE DEF t
  <2>11. \A i \in DOMAIN s : s[i] # e => \E j \in DOMAIN t : t[j] = s[i]
    <3> SUFFICES ASSUME NEW i \in DOMAIN s, s[i] # e PROVE \E j \in DOMAIN t : t[j] = s[i]
      OBVIOUS
    <3>1. CASE i < k
      BY <3>1, <2>1, <2>8, <2>9
    <3>2. CASE i > k
      <4>1. i - 1 \in DOMAIN t /\ t[i - 1] = s[i]
        BY <3>2, <2>1, <2>8, <2>9
      <4> QED
        BY <4>1
    <3> QED
      BY <3>1, <3>2, <2>1
  <2>12. \A j \in DOMAIN t : \E i \in DOMAIN s : t[j] = s[i]
    BY <2>8, <2>9, <2>c, SMTT(30)
  <2>13. \A i, j \in DOMAIN t : t[i] = t[j] => i = j
    <3> SUFFICES ASSUME NEW i \in DOMAIN t, NEW j \in DOMAIN t, t[i] = t[j] PROVE i = j
      OBVIOUS
    <3>1. t[i] = s[IF i < k THEN i ELSE i + 1] /\ t[j] = s[IF j < k THEN j ELSE j + 1]
      BY <2>8, <2>9, SMTT(30)
    <3> DEFINE at(n) == IF n < k THEN n ELSE n + 1
    <3>a. at(i) \in DOMAIN s /\ at(j) \in DOMAIN s
      BY <2>8, <2>c
    <3>2. at(i) = at(j)
      <4> HIDE DEF at
      <4>1. s[at(i)] = s[at(j)]
        BY <3>1 DEF at
      <4> QED
        BY <3>a, <4>1
    <3> QED
      BY <3>2, <2>8, <2>c
  <2> QED
    BY <2>8, <2>10, <2>11, <2>12, <2>13
<1>2. CASE ~\E k \in 1..Len(s) : s[k] = e
  BY <1>2, Zenon DEF Http!RemoveFirst
<1> QED
  BY <1>1, <1>2

LEMMA Lookups ==
  ASSUME HttpTyped, TombstonesDiffer, Http!LookUp
  PROVE  LET e == Head(events)
         IN /\ e \in HttpEvent /\ e.of \in Reqs /\ events # <<>> /\ events' = Tail(events)
            /\ ~e.last => tombstones' = tombstones
            /\ tombstones' \in Seq(Ids) /\ TombstonesDiffer'
            /\ \A i \in DOMAIN tombstones :
                 ~e.last \/ tombstones[i] # req[e.of].id => \E j \in DOMAIN tombstones' : tombstones'[j] = tombstones[i]
            /\ \A j \in DOMAIN tombstones' : \E i \in DOMAIN tombstones : tombstones'[j] = tombstones[i]
            /\ \/ inHand' = <<>>
               \/ \E n \in registered :
                    /\ req[n].id = req[e.of].id
                    /\ inHand' = <<[event |-> e, to |-> n]>>
            /\ inHand = <<>>
            /\ UNCHANGED <<session, closed, req, registered, commands, active, cancels>>
<1> DEFINE e == Head(events)
           to == {n \in registered : req[n].id = req[e.of].id}
<1>1. events # <<>> /\ events \in Seq(HttpEvent) /\ tombstones \in Seq(Ids) /\ events' = Tail(events)
  BY DEF Http!LookUp, HttpTyped
<1>2. e \in HttpEvent /\ e = events[1] /\ 1 \in DOMAIN events
  BY <1>1, HeadIsThere
<1>3. e.of \in Reqs
  BY <1>2 DEF HttpTyped
<1>4. tombstones' = IF e.last THEN Http!RemoveFirst(tombstones, req[e.of].id) ELSE tombstones
  BY DEF Http!LookUp, Http!Released
<1>5. /\ tombstones' \in Seq(Ids) /\ TombstonesDiffer'
      /\ \A i \in DOMAIN tombstones :
           ~e.last \/ tombstones[i] # req[e.of].id => \E j \in DOMAIN tombstones' : tombstones'[j] = tombstones[i]
      /\ \A j \in DOMAIN tombstones' : \E i \in DOMAIN tombstones : tombstones'[j] = tombstones[i]
  <2>1. CASE e.last
    <3> DEFINE t == Http!RemoveFirst(tombstones, req[e.of].id)
    <3>1. /\ t \in Seq(Ids)
          /\ \A i, j \in DOMAIN t : t[i] = t[j] => i = j
          /\ \A i \in DOMAIN tombstones : tombstones[i] # req[e.of].id => \E j \in DOMAIN t : t[j] = tombstones[i]
          /\ \A j \in DOMAIN t : \E i \in DOMAIN tombstones : t[j] = tombstones[i]
      BY <1>1, ForgettingAnId DEF TombstonesDiffer
    <3>2. tombstones' = t
      BY <1>4, <2>1
    <3> HIDE DEF t, e
    <3> QED
      BY <3>1, <3>2, <2>1 DEF TombstonesDiffer
  <2>2. CASE ~e.last
    <3>1. tombstones' = tombstones
      BY <1>4, <2>2
    <3> HIDE DEF e
    <3> QED
      BY <1>1, <3>1 DEF TombstonesDiffer
  <2> QED
    BY <2>1, <2>2
<1>6. inHand' = <<>> \/ \E n \in registered : req[n].id = req[e.of].id /\ inHand' = <<[event |-> e, to |-> n]>>
  <2>1. inHand' = IF to = {} THEN <<>> ELSE <<[event |-> e, to |-> CHOOSE n \in to : TRUE]>>
    BY DEF Http!LookUp
  <2>2. to # {} => (CHOOSE n \in to : TRUE) \in to
    OBVIOUS
  <2> QED
    BY <2>1, <2>2
<1>7. inHand = <<>> /\ UNCHANGED <<session, closed, req, registered, commands, active, cancels>>
  BY DEF Http!LookUp, Http!childVars
<1> HIDE DEF e
<1>8. ~e.last => tombstones' = tombstones
  BY <1>4
<1> QED
  BY <1>1, <1>2, <1>3, <1>5, <1>6, <1>7, <1>8 DEF e

\* What the child is told in a step, and what it tells.
LEMMA Putting ==
  ASSUME HttpTyped, NEW e \in HttpEvent, Http!Put(e)
  PROVE  events' = events \/ events' = Append(events, e)
BY DEF Http!Put

LEMMA TakingACommand ==
  ASSUME HttpTyped, Http!TakeCommand
  PROVE  LET c == Head(commands)
         IN /\ commands # <<>> /\ c = commands[1] /\ c \in HttpCommand /\ commands' = Tail(commands)
            /\ \/ /\ c.type = "request" /\ c.of \in Reqs
                  /\ active' = active \cup {c.of} /\ events' = events
               \/ /\ c.type = "cancel" /\ active' = {n \in active : req[n].id # c.id}
                  /\ \/ events' = events
                     \/ \E n \in active : /\ req[n].id = c.id
                                          /\ events' = Append(events, [of |-> n, last |-> TRUE])
<1> DEFINE c == Head(commands)
           hit == {n \in active : req[n].id = c.id}
<1>1. commands # <<>> /\ commands \in Seq(HttpCommand) /\ commands' = Tail(commands)
  BY DEF HttpTyped, Http!TakeCommand
<1>2. c = commands[1] /\ c \in HttpCommand /\ 1 \in DOMAIN commands
  BY <1>1, HeadIsThere
<1>3. c.type \in {"request", "cancel"}
  BY <1>2 DEF HttpCommand
<1>4. c.type = "request" => c.of \in Reqs
  BY <1>2 DEF HttpTyped
<1>5. c.type = "request" => active' = active \cup {c.of} /\ events' = events
  BY DEF Http!TakeCommand
<1>6. ASSUME c.type = "cancel"
      PROVE  /\ active' = {n \in active : req[n].id # c.id}
             /\ \/ events' = events
                \/ \E n \in active : /\ req[n].id = c.id
                                     /\ events' = Append(events, [of |-> n, last |-> TRUE])
  <2>1. active' = active \ hit
    BY <1>6 DEF Http!TakeCommand
  <2>2. CASE hit = {}
    BY <1>6, <2>1, <2>2 DEF Http!TakeCommand
  <2>3. CASE hit # {}
    <3> DEFINE n == CHOOSE n \in hit : TRUE
    <3>1. n \in hit
      BY <2>3
    <3>2. Http!Put([of |-> n, last |-> TRUE])
      BY <1>6, <2>3 DEF Http!TakeCommand
    <3>3. n \in active /\ req[n].id = c.id
      BY <3>1
    <3>a. n \in Reqs
      BY <3>3 DEF HttpTyped
    <3>4. n \in Nat
      BY <3>a DEF Reqs, Http!Requests
    <3> HIDE DEF n
    <3>5. [of |-> n, last |-> TRUE] \in HttpEvent
      BY <3>4 DEF HttpEvent
    <3> QED
      BY <2>1, <3>2, <3>3, <3>5, Putting
  <2> QED
    BY <2>2, <2>3
<1> QED
  BY <1>1, <1>2, <1>3, <1>4, <1>5, <1>6

-----------------------------------------------------------------------------
(* The state stays well typed.                                             *)

\* Steps that leave the requests and what the dispatch thread has alone, and tell the child at
\* most of a cancel.
Command(c) == commands' = Append(commands, c) /\ c \in HttpCommand /\ c.type = "cancel"
Calm ==
  /\ commands' = commands \/ commands' = <<>> \/ \E c \in HttpCommand : Command(c)
  /\ active' = active \/ active' = {}
  /\ events' = events /\ inHand' = inHand
  /\ Len(req') = Len(req) /\ req' \in Seq(HttpRequest)
  /\ \A m \in Reqs : /\ req'[m].id = req[m].id /\ req'[m].ping = req[m].ping
                     /\ req'[m].terminal = req[m].terminal

SessionSteps == Http!Start \/ Http!Ready \/ Http!StartFails \/ Http!ReaderFails \/ Http!Exit \/ Http!Close
HandlerSteps(n) ==
  Http!Open(n) \/ Http!Read(n) \/ Http!Timeout(n) \/ Http!ClientGone(n) \/ Http!CancelOnLeave(n)
    \/ Http!Unsubscribe(n)

LEMMA Cancelling ==
  ASSUME HttpTyped, NEW id \in Ids \cup Nat, Http!SendCancel(id)
  PROVE  commands' = commands \/ \E c \in HttpCommand : Command(c)
<1> DEFINE c == [type |-> "cancel", id |-> id, of |-> 0]
<1>1. c \in HttpCommand
  BY DEF HttpCommand
<1> QED
  BY <1>1 DEF Http!SendCancel, Command

LEMMA OneBecomes ==
  ASSUME HttpTyped, NEW n \in Reqs, NEW r, Becomes(n, r), r.terminal = req[n].terminal
  PROVE  /\ Len(req') = Len(req) /\ req' \in Seq(HttpRequest)
         /\ \A m \in Reqs : /\ req'[m].id = req[m].id /\ req'[m].ping = req[m].ping
                            /\ req'[m].terminal = req[m].terminal
BY DEF Becomes

LEMMA IdsAreTyped == HttpTyped => \A n \in Reqs : req[n] \in HttpRequest /\ req[n].id \in Ids \cup Nat
<1> SUFFICES ASSUME HttpTyped, NEW n \in Reqs PROVE req[n] \in HttpRequest /\ req[n].id \in Ids \cup Nat
  OBVIOUS
<1>1. req[n] \in HttpRequest
  BY DEF HttpTyped, Reqs, Http!Requests
<1> QED
  BY <1>1 DEF HttpRequest

LEMMA SessionIsCalm ==
  ASSUME HttpTyped, SessionSteps
  PROVE  /\ Calm /\ req' = req
         /\ registered' \in {registered, {}} /\ tombstones' \in {tombstones, <<>>}
         /\ session' \in {"none", "starting", "failed", "up", "deaf", "exited"} /\ closed' \in BOOLEAN
<1>1. req \in Seq(HttpRequest)
  BY DEF HttpTyped
<1>2. CASE Http!Start
  BY <1>1, <1>2 DEF HttpTyped, Calm, Http!Start, Http!childVars
<1>3. CASE Http!Ready
  BY <1>1, <1>3 DEF HttpTyped, Calm, Http!Ready, Http!childVars
<1>4. CASE Http!StartFails
  BY <1>1, <1>4 DEF HttpTyped, Calm, Http!StartFails, Http!childVars
<1>5. CASE Http!ReaderFails
  BY <1>1, <1>5 DEF HttpTyped, Calm, Http!ReaderFails, Http!childVars
<1>6. CASE Http!Exit
  BY <1>1, <1>6 DEF HttpTyped, Calm, Http!Exit, Http!childVars
<1>7. CASE Http!Close
  BY <1>1, <1>7 DEF HttpTyped, Calm, Http!Close, Http!childVars
<1> QED
  BY <1>2, <1>3, <1>4, <1>5, <1>6, <1>7 DEF SessionSteps

LEMMA HandlersAreCalm ==
  ASSUME HttpTyped, NEW n \in Reqs, HandlerSteps(n)
  PROVE  /\ Calm /\ active' = active
         /\ commands' # commands => Http!Running
         /\ UNCHANGED <<session, closed>>
         /\ \E r \in HttpRequest : Becomes(n, r)
         /\ ~Http!Unsubscribe(n) => UNCHANGED <<registered, tombstones>>
<1>1. req[n] \in HttpRequest /\ req[n].id \in Ids \cup Nat
  BY IdsAreTyped
<1>2. CASE Http!Read(n)
  <2> DEFINE e == Head(req[n].buffer)
             r == [req[n] EXCEPT !.buffer = Tail(req[n].buffer), !.read = e.last,
                                 !.step = IF e.last THEN "cancelled" ELSE req[n].step]
  <2>1. Becomes(n, r)
    BY <1>2, ReadingAnEvent
  <2>2. r.terminal = req[n].terminal /\ r \in HttpRequest
    BY <1>1, <2>1 DEF HttpRequest, Becomes
  <2> HIDE DEF r
  <2>3. /\ Len(req') = Len(req) /\ req' \in Seq(HttpRequest)
        /\ \A m \in Reqs : /\ req'[m].id = req[m].id /\ req'[m].ping = req[m].ping
                           /\ req'[m].terminal = req[m].terminal
    BY <2>1, <2>2, OneBecomes
  <2> QED
    BY <1>2, <2>1, <2>2, <2>3 DEF Calm, Http!Read, Http!childVars
<1>3. ASSUME NEW s \in {"opened", "reading", "leaving", "cancelled", "gone"}, Http!Step(n, s)
      PROVE  /\ Len(req') = Len(req) /\ req' \in Seq(HttpRequest)
             /\ \A m \in Reqs : /\ req'[m].id = req[m].id /\ req'[m].ping = req[m].ping
                                /\ req'[m].terminal = req[m].terminal
             /\ \E r \in HttpRequest : Becomes(n, r)
  <2> DEFINE r == [req[n] EXCEPT !.step = s]
  <2>1. Becomes(n, r)
    BY <1>3, Stepping
  <2>2. r.terminal = req[n].terminal /\ r \in HttpRequest
    BY <1>1, <2>1 DEF HttpRequest, Becomes
  <2> HIDE DEF r
  <2> QED
    BY <2>1, <2>2, OneBecomes
<1>4. CASE Http!Open(n)
  <2>1. Http!Step(n, "reading")
    BY <1>4 DEF Http!Open
  <2> QED
    BY <1>3, <1>4, <2>1 DEF Calm, Http!Open, Http!childVars
<1>5. CASE Http!Timeout(n)
  <2>1. Http!Step(n, "cancelled") \/ Http!Step(n, "leaving")
    BY <1>5 DEF Http!Timeout
  <2>2. commands' = commands \/ \E c \in HttpCommand : Command(c)
    BY <1>1, <1>5, Cancelling DEF Http!Timeout
  <2>3. commands' # commands => Http!Running
    BY <1>5 DEF Http!Timeout, Http!SendCancel
  <2> QED
    BY <1>3, <1>5, <2>1, <2>2, <2>3 DEF Calm, Http!Timeout
<1>6. CASE Http!ClientGone(n)
  <2>1. Http!Step(n, "leaving")
    BY <1>6 DEF Http!ClientGone
  <2> QED
    BY <1>3, <1>6, <2>1 DEF Calm, Http!ClientGone, Http!childVars
<1>7. CASE Http!CancelOnLeave(n)
  <2>1. Http!Step(n, "cancelled")
    BY <1>7 DEF Http!CancelOnLeave
  <2>2. commands' = commands \/ \E c \in HttpCommand : Command(c)
    BY <1>1, <1>7, Cancelling DEF Http!CancelOnLeave
  <2>3. commands' # commands => Http!Running
    BY <1>7 DEF Http!CancelOnLeave, Http!SendCancel
  <2> QED
    BY <1>3, <1>7, <2>1, <2>2, <2>3 DEF Calm, Http!CancelOnLeave
<1>8. CASE Http!Unsubscribe(n)
  <2>1. Http!Step(n, "gone")
    BY <1>8 DEF Http!Unsubscribe
  <2> QED
    BY <1>3, <1>8, <2>1 DEF Calm, Http!Unsubscribe, Http!childVars
<1> QED
  BY <1>2, <1>4, <1>5, <1>6, <1>7, <1>8 DEF HandlerSteps

LEMMA Unsubscribing ==
  ASSUME HttpTyped, TombstonesDiffer, NEW n \in Reqs, Http!Unsubscribe(n)
  PROVE  /\ registered' = {k \in registered : req[k].id # req[n].id}
         /\ req[n].step = "cancelled" /\ Becomes(n, [req[n] EXCEPT !.step = "gone"])
         /\ tombstones' \in Seq(Ids) /\ TombstonesDiffer'
         /\ FewOpenEnds =>
              /\ \A i \in DOMAIN tombstones : \E j \in DOMAIN tombstones' : tombstones'[j] = tombstones[i]
              /\ Http!Retires(n) => \E j \in DOMAIN tombstones' : tombstones'[j] = req[n].id
<1> DEFINE adds == Http!Retires(n) /\ ~Http!Contains(tombstones, req[n].id)
           kept == IF adds THEN Append(tombstones, req[n].id) ELSE tombstones
<1>1. tombstones \in Seq(Ids) /\ req[n] \in HttpRequest /\ MaxTombstones \in Nat \ {0}
  BY HttpConstants, IdsAreTyped DEF HttpTyped, Http!HttpGatewayAssumption
<1>2. tombstones' = IF Len(kept) > MaxTombstones THEN Tail(kept) ELSE kept
  BY DEF Http!Unsubscribe
<1>3. Http!Retires(n) => req[n].id \in Ids
  BY DEF Http!Retires, HttpTyped
<1>4. /\ kept \in Seq(Ids)
      /\ \A i, j \in DOMAIN kept : kept[i] = kept[j] => i = j
      /\ \A i \in DOMAIN tombstones : i \in DOMAIN kept /\ kept[i] = tombstones[i]
      /\ \A i \in DOMAIN kept : i \in DOMAIN tombstones \/ (Http!Retires(n) /\ kept[i] = req[n].id)
      /\ Http!Retires(n) => \E j \in DOMAIN kept : kept[j] = req[n].id
  <2>1. CASE adds
    <3>1. \A i \in DOMAIN tombstones : tombstones[i] # req[n].id
      BY <1>1, <2>1 DEF Http!Contains
    <3>2. kept = Append(tombstones, req[n].id)
      BY <2>1
    <3>3. kept \in Seq(Ids) /\ Len(kept) = Len(tombstones) + 1 /\ kept[Len(kept)] = req[n].id
      BY <1>1, <1>3, <2>1, <3>2
    <3>4. \A i \in DOMAIN tombstones : i \in DOMAIN kept /\ kept[i] = tombstones[i]
      BY <1>1, <3>2, <3>3
    <3>5. \A i \in DOMAIN kept : i \in DOMAIN tombstones \/ i = Len(kept)
      BY <1>1, <3>2, <3>3
    <3>6. Http!Retires(n)
      BY <2>1
    <3> HIDE DEF kept, adds
    <3>7. Len(kept) \in DOMAIN kept
      BY <1>1, <3>3
    <3>8. \A i, j \in DOMAIN kept : kept[i] = kept[j] => i = j
      BY <3>1, <3>3, <3>4, <3>5 DEF TombstonesDiffer
    <3> QED
      BY <3>3, <3>4, <3>5, <3>6, <3>7, <3>8
  <2>2. CASE ~adds
    <3>1. kept = tombstones
      BY <2>2
    <3>2. Http!Retires(n) => \E i \in DOMAIN tombstones : tombstones[i] = req[n].id
      BY <1>1, <2>2 DEF Http!Contains
    <3> QED
      BY <1>1, <3>1, <3>2 DEF TombstonesDiffer
  <2> QED
    BY <2>1, <2>2
<1>5. FewOpenEnds => Len(kept) <= MaxTombstones
  <2> SUFFICES ASSUME FewOpenEnds PROVE Len(kept) <= MaxTombstones
    OBVIOUS
  <2> HIDE DEF kept
  <2>1. Http!Retires(n) => req[n].id \in OpenEnds
    BY DEF OpenEnds, Http!Unsubscribe
  <2>2. \A i \in DOMAIN kept : kept[i] \in OpenEnds
    BY <1>4, <2>1 DEF OpenEnds
  <2>3. Len(kept) \in Nat /\ DOMAIN kept = 1..Len(kept) /\ kept \in [1..Len(kept) -> Ids]
    BY <1>4
  <2>4. kept \in [1..Len(kept) -> OpenEnds]
    BY <2>2, <2>3
  <2>5. kept \in Injection(1..Len(kept), OpenEnds)
    BY <1>4, <2>3, <2>4 DEF Injection, IsInjective
  <2>6. Cardinality(1..Len(kept)) <= Cardinality(OpenEnds)
    BY <2>5, FS_Injection DEF FewOpenEnds
  <2>7. Cardinality(1..Len(kept)) = Len(kept)
    BY <2>3, FS_Interval
  <2>8. Cardinality(OpenEnds) \in Nat
    BY FS_CardinalityType DEF FewOpenEnds
  <2> QED
    BY <1>1, <2>3, <2>6, <2>7, <2>8 DEF FewOpenEnds
<1>6. tombstones' \in Seq(Ids) /\ TombstonesDiffer'
  <2>1. CASE Len(kept) > MaxTombstones
    <3>1. tombstones' = Tail(kept) /\ kept # <<>>
      BY <1>1, <1>2, <1>4, <2>1
    <3> HIDE DEF kept
    <3>2. /\ tombstones' \in Seq(Ids) /\ Len(tombstones') = Len(kept) - 1
          /\ \A i \in DOMAIN tombstones' : i + 1 \in DOMAIN kept /\ tombstones'[i] = kept[i + 1]
      BY <1>4, <3>1
    <3>3. \A i, j \in DOMAIN tombstones' : tombstones'[i] = tombstones'[j] => i = j
      <4> SUFFICES ASSUME NEW i \in DOMAIN tombstones', NEW j \in DOMAIN tombstones',
                          tombstones'[i] = tombstones'[j]
                   PROVE  i = j
        OBVIOUS
      <4>1. i + 1 = j + 1
        BY <1>4, <3>2
      <4> QED
        BY <4>1, <3>2
    <3> QED
      BY <3>2, <3>3 DEF TombstonesDiffer
  <2>2. CASE ~(Len(kept) > MaxTombstones)
    <3>1. tombstones' = kept
      BY <1>2, <2>2
    <3> HIDE DEF kept
    <3> QED
      BY <3>1, <1>4 DEF TombstonesDiffer
  <2> QED
    BY <2>1, <2>2
<1>7. FewOpenEnds => tombstones' = kept
  <2>1. Len(kept) \in Nat
    BY <1>4
  <2> HIDE DEF kept
  <2> QED
    BY <1>1, <1>2, <1>5, <2>1
<1>8. Becomes(n, [req[n] EXCEPT !.step = "gone"])
  BY Stepping DEF Http!Unsubscribe
<1> HIDE DEF kept
<1> QED
  BY <1>4, <1>6, <1>7, <1>8 DEF Http!Unsubscribe

\* Every step is one of the session, of a handler, of the child's pipes or of the dispatch thread.
LEMMA HttpSteps ==
  ASSUME HttpTyped, [Http!Next]_(Http!vars)
  PROVE  \/ SessionSteps
         \/ \E n \in Reqs : HandlerSteps(n)
         \/ \E id \in Ids : Http!CancelRequest(id)
         \/ \E id \in Ids \cup Nat, ping \in BOOLEAN :
              Http!Send(id, ping) /\ (IF ping THEN id = Len(req) + 1 ELSE id \in Ids)
         \/ Http!TakeCommand
         \/ \E n \in active, last \in BOOLEAN : Http!Emit(n, last)
         \/ Http!LookUp
         \/ Http!Dispatch
         \/ UNCHANGED Http!vars
<1>1. Len(req) + 1 \in Nat
  BY DEF HttpTyped
<1>2. CASE Http!Send(Len(req) + 1, TRUE)
  BY <1>1, <1>2
<1>3. ASSUME NEW n \in Http!Requests, Http!Open(n) \/ Http!Read(n) \/ Http!Timeout(n) \/ Http!ClientGone(n)
                         \/ Http!CancelOnLeave(n) \/ Http!Unsubscribe(n)
      PROVE  \E m \in Reqs : HandlerSteps(m)
  BY <1>3 DEF Reqs, HandlerSteps
<1>4. CASE Http!Start \/ Http!Ready \/ Http!StartFails \/ Http!ReaderFails \/ Http!Exit \/ Http!Close
  BY <1>4 DEF SessionSteps
<1>5. ASSUME NEW id \in Ids, Http!Send(id, FALSE)
      PROVE  \E i \in Ids \cup Nat, ping \in BOOLEAN :
               Http!Send(i, ping) /\ (IF ping THEN i = Len(req) + 1 ELSE i \in Ids)
  BY <1>5
<1> QED
  BY <1>2, <1>3, <1>4, <1>5, Zenon DEF Http!Next

LEMMA RequestingACancel ==
  ASSUME HttpTyped, NEW id \in Ids, Http!CancelRequest(id)
  PROVE  Calm /\ Http!Running /\ UNCHANGED <<session, closed, req, registered, tombstones, active>>
<1>1. commands' = commands \/ \E c \in HttpCommand : Command(c)
  BY Cancelling DEF Http!CancelRequest
<1> QED
  BY <1>1 DEF HttpTyped, Calm, Http!CancelRequest

LEMMA CalmKeepsTypes ==
  ASSUME HttpTyped, Calm, registered' \subseteq registered, tombstones' \in Seq(Ids),
         session' \in {"none", "starting", "failed", "up", "deaf", "exited"}, closed' \in BOOLEAN
  PROVE  HttpTyped'
<1>1. Reqs' = Reqs
  BY DEF Calm, Reqs, Http!Requests
<1>2. commands' \in Seq(HttpCommand)
  <2>1. commands \in Seq(HttpCommand)
    BY DEF HttpTyped
  <2>2. commands' \in {commands, <<>>} \/ \E c \in HttpCommand : commands' = Append(commands, c)
    BY DEF Calm, Command
  <2>3. \A c \in HttpCommand : Append(commands, c) \in Seq(HttpCommand)
    BY <2>1, AppendedTo
  <2> QED
    BY <2>1, <2>2, <2>3, EmptyIsTyped
<1>3. \A i \in DOMAIN commands' : commands'[i].type = "request" => commands'[i].of \in Reqs'
  <2>1. CASE commands' \in {commands, <<>>}
    BY <1>1, <2>1 DEF HttpTyped
  <2>2. ASSUME NEW c \in HttpCommand, Command(c)
        PROVE  \A i \in DOMAIN commands' : commands'[i].type = "request" => commands'[i].of \in Reqs'
    <3>1. commands \in Seq(HttpCommand) /\ commands' = Append(commands, c) /\ c.type = "cancel"
      BY <2>2 DEF HttpTyped, Command
    <3>2. \A i \in DOMAIN commands' :
            (i \in DOMAIN commands /\ commands'[i] = commands[i]) \/ commands'[i] = c
      BY <3>1
    <3>3. \A i \in DOMAIN commands : commands[i].type = "request" => commands[i].of \in Reqs
      BY DEF HttpTyped
    <3> QED
      BY <1>1, <3>1, <3>2, <3>3
  <2> QED
    BY <2>1, <2>2 DEF Calm
<1>4. req' \in Seq(HttpRequest) /\ events' = events /\ inHand' = inHand
  BY DEF Calm
<1>5. \A m \in Reqs' : IF req'[m].ping THEN req'[m].id = m ELSE req'[m].id \in Ids
  BY <1>1 DEF HttpTyped, Calm
<1>6. registered' \subseteq Reqs' /\ active' \subseteq Reqs'
  BY <1>1 DEF HttpTyped, Calm
<1>7. events' \in Seq(HttpEvent) /\ \A i \in DOMAIN events' : events'[i].of \in Reqs'
  BY <1>1, <1>4 DEF HttpTyped
<1>8. /\ inHand' \in Seq([event : HttpEvent, to : Reqs']) /\ Len(inHand') <= 1
      /\ inHand' # <<>> => inHand'[1].event.of \in Reqs'
  BY <1>1, <1>4 DEF HttpTyped
<1> QED
  BY <1>2, <1>3, <1>4, <1>5, <1>6, <1>7, <1>8 DEF HttpTyped

LEMMA SendKeepsTypes ==
  ASSUME HttpTyped, NEW id \in Ids \cup Nat, NEW ping \in BOOLEAN, Http!Send(id, ping),
         IF ping THEN id = Len(req) + 1 ELSE id \in Ids
  PROVE  HttpTyped'
<1> DEFINE n == Len(req) + 1
           c == [type |-> "request", id |-> id, of |-> n]
<1>1. /\ n \notin Reqs /\ n \in Nat /\ Reqs' = Reqs \cup {n}
      /\ req' \in Seq(HttpRequest)
      /\ \A m \in Reqs : req'[m] = req[m]
      /\ req'[n] = Http!Fresh(id, ping)
      /\ registered' = registered \cup {n}
      /\ commands' = Append(commands, c)
  BY Sending
<1>2. c \in HttpCommand /\ c.of = n
  BY <1>1 DEF HttpCommand
<1>3. commands \in Seq(HttpCommand) /\ \A i \in DOMAIN commands : commands[i].type = "request" => commands[i].of \in Reqs
  BY DEF HttpTyped
<1>5. \A m \in Reqs' : IF req'[m].ping THEN req'[m].id = m ELSE req'[m].id \in Ids
  <2>1. req'[n].id = id /\ req'[n].ping = ping
    BY <1>1 DEF Http!Fresh
  <2>2. \A m \in Reqs : IF req[m].ping THEN req[m].id = m ELSE req[m].id \in Ids
    BY DEF HttpTyped
  <2> HIDE DEF n
  <2>3. IF ping THEN id = n ELSE id \in Ids
    BY DEF n
  <2> QED
    BY <1>1, <2>1, <2>2, <2>3
<1> HIDE DEF n, c
<1>4. commands' \in Seq(HttpCommand) /\ \A i \in DOMAIN commands' : commands'[i].type = "request" => commands'[i].of \in Reqs'
  <2>1. \A i \in DOMAIN commands' : (i \in DOMAIN commands /\ commands'[i] = commands[i]) \/ commands'[i] = c
    BY <1>1, <1>2, <1>3
  <2> QED
    BY <1>1, <1>2, <1>3, <2>1
<1>6. UNCHANGED <<session, closed, tombstones, active, events, inHand>>
  BY DEF Http!Send
<1>7. registered' \subseteq Reqs' /\ active' \subseteq Reqs'
  BY <1>1, <1>6 DEF HttpTyped
<1>8. events' \in Seq(HttpEvent) /\ \A i \in DOMAIN events' : events'[i].of \in Reqs'
  BY <1>1, <1>6 DEF HttpTyped
<1>9. /\ inHand' \in Seq([event : HttpEvent, to : Reqs']) /\ Len(inHand') <= 1
      /\ inHand' # <<>> => inHand'[1].event.of \in Reqs'
  <2>1. inHand \in Seq([event : HttpEvent, to : Reqs]) /\ Len(inHand) <= 1 /\ Reqs \subseteq Reqs'
    BY <1>1 DEF HttpTyped
  <2>2. inHand \in Seq([event : HttpEvent, to : Reqs'])
    <3>1. [event : HttpEvent, to : Reqs] \subseteq [event : HttpEvent, to : Reqs']
      BY <2>1
    <3> QED
      BY <2>1, <3>1, SequencesGrow
  <2>3. inHand # <<>> => inHand[1].event.of \in Reqs'
    BY <2>1 DEF HttpTyped
  <2> QED
    BY <1>6, <2>1, <2>2, <2>3
<1>10. session' \in {"none", "starting", "failed", "up", "deaf", "exited"} /\ closed' \in BOOLEAN
       /\ tombstones' \in Seq(Ids)
  BY <1>6 DEF HttpTyped
<1> QED
  BY <1>1, <1>4, <1>5, <1>7, <1>8, <1>9, <1>10 DEF HttpTyped

LEMMA HttpStepTyped ==
  ASSUME HttpTyped, TombstonesDiffer, [Http!Next]_(Http!vars)
  PROVE  HttpTyped'
<1>0. /\ session \in {"none", "starting", "failed", "up", "deaf", "exited"} /\ closed \in BOOLEAN
      /\ req \in Seq(HttpRequest) /\ registered \subseteq Reqs /\ active \subseteq Reqs
      /\ tombstones \in Seq(Ids) /\ commands \in Seq(HttpCommand) /\ events \in Seq(HttpEvent)
      /\ inHand \in Seq([event : HttpEvent, to : Reqs]) /\ Len(inHand) <= 1
      /\ \A i \in DOMAIN commands : commands[i].type = "request" => commands[i].of \in Reqs
      /\ \A i \in DOMAIN events : events[i].of \in Reqs
      /\ inHand # <<>> => inHand[1].event.of \in Reqs
      /\ \A m \in Reqs : IF req[m].ping THEN req[m].id = m ELSE req[m].id \in Ids
  BY DEF HttpTyped
<1>1. CASE SessionSteps
  <2>1. /\ Calm /\ registered' \in {registered, {}} /\ tombstones' \in {tombstones, <<>>}
        /\ session' \in {"none", "starting", "failed", "up", "deaf", "exited"} /\ closed' \in BOOLEAN
    BY <1>1, SessionIsCalm
  <2>2. registered' \subseteq registered /\ tombstones' \in Seq(Ids)
    BY <1>0, <2>1, EmptyIsTyped
  <2> QED
    BY <2>1, <2>2, CalmKeepsTypes
<1>2. ASSUME NEW n \in Reqs, HandlerSteps(n) PROVE HttpTyped'
  <2>1. registered' \subseteq registered /\ tombstones' \in Seq(Ids)
    BY <1>0, <1>2, HandlersAreCalm, Unsubscribing
  <2>2. Calm /\ UNCHANGED <<session, closed>>
    BY <1>2, HandlersAreCalm
  <2> QED
    BY <1>0, <2>1, <2>2, CalmKeepsTypes
<1>3. ASSUME NEW id \in Ids, Http!CancelRequest(id) PROVE HttpTyped'
  <2>1. Calm /\ UNCHANGED <<session, closed, req, registered, tombstones, active>>
    BY <1>3, RequestingACancel
  <2> QED
    BY <1>0, <2>1, CalmKeepsTypes
<1>4. CASE Http!TakeCommand
  <2> DEFINE c == Head(commands)
  <2>1. /\ commands # <<>> /\ c \in HttpCommand /\ commands' = Tail(commands)
        /\ active' \subseteq Reqs
        /\ events' = events \/ \E n \in Reqs : events' = Append(events, [of |-> n, last |-> TRUE])
    BY <1>0, <1>4, TakingACommand
  <2>2. UNCHANGED <<session, closed, req, registered, tombstones, inHand>> /\ Reqs' = Reqs
    BY <1>4 DEF Http!TakeCommand, Reqs, Http!Requests
  <2>3. commands' \in Seq(HttpCommand)
        /\ \A i \in DOMAIN commands' : commands'[i].type = "request" => commands'[i].of \in Reqs
    <3>1. commands' \in Seq(HttpCommand) /\ \A i \in DOMAIN commands' : i + 1 \in DOMAIN commands /\ commands'[i] = commands[i + 1]
      BY <1>0, <2>1
    <3> QED
      BY <1>0, <3>1
  <2>4. events' \in Seq(HttpEvent) /\ \A i \in DOMAIN events' : events'[i].of \in Reqs
    <3>1. CASE events' = events
      BY <1>0, <3>1
    <3>2. ASSUME NEW n \in Reqs, events' = Append(events, [of |-> n, last |-> TRUE])
          PROVE  events' \in Seq(HttpEvent) /\ \A i \in DOMAIN events' : events'[i].of \in Reqs
      <4>1. n \in Nat
        BY <1>0 DEF Reqs, Http!Requests
      <4>2. [of |-> n, last |-> TRUE] \in HttpEvent
        BY <4>1 DEF HttpEvent
      <4> QED
        BY <1>0, <3>2, <4>2
    <3> QED
      BY <2>1, <3>1, <3>2
  <2> QED
    BY <1>0, <2>1, <2>2, <2>3, <2>4 DEF HttpTyped
<1>5. ASSUME NEW n \in active, NEW last \in BOOLEAN, Http!Emit(n, last) PROVE HttpTyped'
  <2> DEFINE e == [of |-> n, last |-> last]
  <2>0. n \in Reqs /\ n \in Nat
    BY <1>0 DEF Reqs, Http!Requests
  <2>1. e \in HttpEvent
    BY <2>0 DEF HttpEvent
  <2>2. events' = events \/ events' = Append(events, e)
    BY <1>5, <2>1, Putting DEF Http!Emit
  <2>3. events' \in Seq(HttpEvent) /\ \A i \in DOMAIN events' : events'[i].of \in Reqs
    <3>1. CASE events' = events
      BY <1>0, <3>1
    <3>2. CASE events' = Append(events, e)
      <4>1. e.of \in Reqs
        BY <2>0
      <4> HIDE DEF e
      <4> QED
        BY <1>0, <2>1, <3>2, <4>1, AppendedTo
    <3> QED
      BY <2>2, <3>1, <3>2
  <2>4. /\ req' \in Seq(HttpRequest) /\ Reqs' = Reqs
        /\ \A m \in Reqs : req'[m].id = req[m].id /\ req'[m].ping = req[m].ping
    <3>1. CASE req' = req
      BY <1>0, <3>1 DEF Reqs, Http!Requests
    <3>2. CASE Becomes(n, [req[n] EXCEPT !.chunks = req[n].chunks + 1])
      <4> DEFINE r == [req[n] EXCEPT !.chunks = req[n].chunks + 1]
      <4> HIDE DEF r
      <4>1. Becomes(n, r)
        BY <3>2 DEF r
      <4> QED
        BY <4>1 DEF Becomes, Reqs, Http!Requests
    <3> QED
      BY <1>5, <3>1, <3>2, Emitting
  <2>5. UNCHANGED <<session, closed, registered, tombstones, commands, inHand>> /\ active' \subseteq active
    BY <1>5 DEF Http!Emit
  <2> QED
    BY <1>0, <2>3, <2>4, <2>5 DEF HttpTyped
<1>6. CASE Http!LookUp
  <2> DEFINE e == Head(events)
  <2>1. /\ e \in HttpEvent /\ e.of \in Reqs /\ events # <<>> /\ events' = Tail(events)
        /\ tombstones' \in Seq(Ids)
        /\ inHand' = <<>> \/ \E n \in registered : inHand' = <<[event |-> e, to |-> n]>>
        /\ UNCHANGED <<session, closed, req, registered, commands, active, cancels>>
    BY <1>6, Lookups
  <2>2. Reqs' = Reqs
    BY <2>1 DEF Reqs, Http!Requests
  <2>3. events' \in Seq(HttpEvent) /\ \A i \in DOMAIN events' : events'[i].of \in Reqs
    <3>1. events' \in Seq(HttpEvent) /\ \A i \in DOMAIN events' : i + 1 \in DOMAIN events /\ events'[i] = events[i + 1]
      BY <1>0, <2>1
    <3> QED
      BY <1>0, <3>1
  <2> HIDE DEF e
  <2>4. /\ inHand' \in Seq([event : HttpEvent, to : Reqs]) /\ Len(inHand') <= 1
        /\ inHand' # <<>> => inHand'[1].event.of \in Reqs
    <3>1. ASSUME NEW n \in registered, inHand' = <<[event |-> e, to |-> n]>>
          PROVE  /\ inHand' \in Seq([event : HttpEvent, to : Reqs])
                 /\ Len(inHand') <= 1 /\ inHand'[1].event.of \in Reqs
      <4> DEFINE h == [event |-> e, to |-> n]
      <4>1. h \in [event : HttpEvent, to : Reqs] /\ h.event = e
        BY <1>0, <2>1
      <4> HIDE DEF h
      <4>2. inHand' = <<h>>
        BY <3>1 DEF h
      <4> QED
        BY <2>1, <4>1, <4>2
    <3>2. CASE inHand' = <<>>
      BY <3>2, EmptyIsTyped
    <3> QED
      BY <2>1, <3>1, <3>2
  <2> QED
    BY <1>0, <2>1, <2>2, <2>3, <2>4 DEF HttpTyped
<1>7. CASE Http!Dispatch
  <2>1. /\ req' \in Seq(HttpRequest) /\ Reqs' = Reqs
        /\ \A m \in Reqs : req'[m].id = req[m].id /\ req'[m].ping = req[m].ping
    <3>1. CASE req' = req
      BY <1>0, <3>1 DEF Reqs, Http!Requests
    <3>2. ASSUME NEW n \in Reqs, NEW r, Becomes(n, r)
          PROVE  /\ req' \in Seq(HttpRequest) /\ Reqs' = Reqs
                 /\ \A m \in Reqs : req'[m].id = req[m].id /\ req'[m].ping = req[m].ping
      BY <3>2 DEF Becomes, Reqs, Http!Requests
    <3> QED
      BY <1>7, <3>1, <3>2, Dispatching
  <2>2. UNCHANGED <<session, closed, registered, tombstones, commands, active, events>> /\ inHand' = <<>>
    BY <1>7 DEF Http!Dispatch, Http!childVars
  <2>3. inHand' \in Seq([event : HttpEvent, to : Reqs']) /\ Len(inHand') <= 1
    BY <2>2, EmptyIsTyped
  <2>4. /\ registered' \subseteq Reqs' /\ active' \subseteq Reqs' /\ events' = events
        /\ commands' = commands /\ tombstones' = tombstones
    BY <1>0, <2>1, <2>2
  <2>5. \A m \in Reqs' : IF req'[m].ping THEN req'[m].id = m ELSE req'[m].id \in Ids
    BY <1>0, <2>1
  <2>6. /\ \A i \in DOMAIN commands' : commands'[i].type = "request" => commands'[i].of \in Reqs'
        /\ \A i \in DOMAIN events' : events'[i].of \in Reqs'
        /\ commands' \in Seq(HttpCommand) /\ events' \in Seq(HttpEvent)
        /\ tombstones' \in Seq(Ids)
    BY <1>0, <2>1, <2>4
  <2> QED
    BY <1>0, <2>1, <2>2, <2>3, <2>4, <2>5, <2>6 DEF HttpTyped
<1>8. CASE UNCHANGED Http!vars
  BY <1>0, <1>8 DEF HttpTyped, Reqs, Http!Requests, Http!vars, Http!childVars
<1> QED
  BY <1>1, <1>2, <1>3, <1>4, <1>5, <1>6, <1>7, <1>8, HttpSteps, SendKeepsTypes

-----------------------------------------------------------------------------
(* A request goes through the child once, and is over with its last event. *)

Fades == \A m \in Reqs : Pending(m)' => Pending(m)

LEMMA CalmFlow ==
  ASSUME HttpTyped, Flow, Calm
  PROVE  Flow' /\ Fades
<1>1. Reqs' = Reqs /\ events' = events /\ inHand' = inHand /\ active' \subseteq active
  BY DEF Calm, Reqs, Http!Requests
<1>2. \A i \in DOMAIN commands' : commands'[i].type = "request" =>
        i \in DOMAIN commands /\ commands'[i] = commands[i]
  <2>1. CASE commands' = commands
    BY <2>1
  <2>2. CASE commands' = <<>>
    BY <2>2
  <2>3. ASSUME NEW c \in HttpCommand, Command(c)
        PROVE  \A i \in DOMAIN commands' : commands'[i].type = "request" =>
                 i \in DOMAIN commands /\ commands'[i] = commands[i]
    <3>1. commands \in Seq(HttpCommand) /\ commands' = Append(commands, c) /\ c.type = "cancel"
      BY <2>3 DEF HttpTyped, Command
    <3> QED
      BY <3>1, AppendedTo
  <2> QED
    BY <2>1, <2>2, <2>3 DEF Calm
<1>3. \A m : Sent(m)' => Sent(m)
  BY <1>2 DEF Sent
<1>4. \A m : Coming(m)' => Coming(m)
  BY <1>1 DEF Coming
<1>5. \A m : Pending(m)' => Pending(m)
  BY <1>1, <1>3, <1>4 DEF Pending
<1>6. \A m : InHandOf(m)' => InHandOf(m)
  BY <1>1 DEF InHandOf
<1>7. \A m \in Reqs : req'[m].terminal = req[m].terminal
  BY DEF Calm
<1>8. Flow'
  <2>1. \A i, j \in DOMAIN commands' :
          commands'[i].type = "request" /\ commands'[j].type = "request"
            /\ commands'[i].of = commands'[j].of => i = j
    BY <1>2 DEF Flow
  <2>2. \A m \in Reqs' : Sent(m)' => m \notin active' /\ ~Coming(m)' /\ ~InHandOf(m)' /\ ~req'[m].terminal
    BY <1>1, <1>3, <1>4, <1>6, <1>7 DEF Flow
  <2>3. \A i \in DOMAIN events' : events'[i].last =>
          /\ events'[i].of \notin active'
          /\ \A j \in DOMAIN events' : events'[j].of = events'[i].of => j <= i
    BY <1>1 DEF Flow
  <2>4. inHand' # <<>> /\ inHand'[1].event.last => ~Pending(inHand[1].event.of)'
    BY <1>1, <1>5 DEF Flow, Pending, Sent, Coming
  <2>5. \A m \in Reqs' : req'[m].terminal => ~Pending(m)'
    BY <1>1, <1>5, <1>7 DEF Flow
  <2> QED
    BY <1>1, <2>1, <2>2, <2>3, <2>4, <2>5 DEF Flow, Pending, Sent, Coming
<1> QED
  BY <1>5, <1>8 DEF Fades

\* What Flow says, with the names of a later state.
LEMMA FlowLater ==
  ASSUME Reqs' = Reqs,
         \A i, j \in DOMAIN commands' :
           commands'[i].type = "request" /\ commands'[j].type = "request"
             /\ commands'[i].of = commands'[j].of => i = j,
         \A m \in Reqs : Sent(m)' => m \notin active' /\ ~Coming(m)' /\ ~InHandOf(m)' /\ ~req'[m].terminal,
         \A i \in DOMAIN events' : events'[i].last =>
           /\ events'[i].of \notin active'
           /\ \A j \in DOMAIN events' : events'[j].of = events'[i].of => j <= i,
         inHand' # <<>> /\ inHand'[1].event.last =>
           \E m \in Reqs : m = inHand'[1].event.of /\ ~Pending(m)',
         \A m \in Reqs : req'[m].terminal => ~Pending(m)'
  PROVE  Flow'
<1>1. inHand' # <<>> /\ inHand'[1].event.last => (~Pending(inHand[1].event.of))'
  BY DEF Pending, Sent, Coming
<1> QED
  BY <1>1 DEF Flow

\* The child tells at most one thing, of a request that it has; what is the last of it is over.
LEMMA TellingFlow ==
  ASSUME HttpTyped, Flow, Reqs' = Reqs, active' \subseteq active, inHand' = inHand,
         \A m : Sent(m)' => Sent(m),
         \A i, j \in DOMAIN commands' :
           commands'[i].type = "request" /\ commands'[j].type = "request"
             /\ commands'[i].of = commands'[j].of => i = j,
         \A m \in Reqs : req'[m].terminal = req[m].terminal,
         \/ events' = events
         \/ \E e \in HttpEvent : /\ e.of \in active /\ events' = Append(events, e)
                                 /\ e.last => e.of \notin active'
  PROVE  Flow' /\ Fades
<1>1. events \in Seq(HttpEvent) /\ active \subseteq Reqs
  BY DEF HttpTyped
<1>2. \A m : InHandOf(m)' => InHandOf(m)
  BY DEF InHandOf
<1>3. /\ \A m : Coming(m)' => Coming(m) \/ m \in active
      /\ \A i \in DOMAIN events' : events'[i].last =>
           /\ events'[i].of \notin active'
           /\ \A j \in DOMAIN events' : events'[j].of = events'[i].of => j <= i
  <2>1. CASE events' = events
    BY <2>1 DEF Coming, Flow
  <2>2. ASSUME NEW e \in HttpEvent, e.of \in active, events' = Append(events, e),
               e.last => e.of \notin active'
        PROVE  /\ \A m : Coming(m)' => Coming(m) \/ m \in active
               /\ \A i \in DOMAIN events' : events'[i].last =>
                    /\ events'[i].of \notin active'
                    /\ \A j \in DOMAIN events' : events'[j].of = events'[i].of => j <= i
    <3> DEFINE k == Len(events) + 1
    <3>1. /\ k \in Nat /\ events'[k] = e /\ k \in DOMAIN events'
          /\ \A i \in DOMAIN events : events'[i] = events[i]
          /\ \A i \in DOMAIN events' : i \in DOMAIN events \/ i = k
          /\ \A i \in DOMAIN events' : i \in Nat /\ i <= k
      BY <1>1, <2>2, AppendedTo
    <3> HIDE DEF k
    <3>2. \A m : Coming(m)' => Coming(m) \/ m \in active
      BY <2>2, <3>1 DEF Coming
    <3>3. \A i \in DOMAIN events : events[i].last =>
            /\ events[i].of \notin active
            /\ \A j \in DOMAIN events : events[j].of = events[i].of => j <= i
      BY DEF Flow
    <3>4. ASSUME NEW i \in DOMAIN events', events'[i].last
          PROVE  /\ events'[i].of \notin active'
                 /\ \A j \in DOMAIN events' : events'[j].of = events'[i].of => j <= i
      <4>1. CASE i = k
        BY <2>2, <3>1, <3>4, <4>1
      <4>2. CASE i \in DOMAIN events
        BY <2>2, <3>1, <3>3, <3>4, <4>2
      <4> QED
        BY <3>1, <4>1, <4>2
    <3> QED
      BY <3>2, <3>4
  <2> QED
    BY <2>1, <2>2
<1>4. \A m : Pending(m)' => Pending(m)
  BY <1>3 DEF Pending
<1>5. \A m \in Reqs : Sent(m)' => m \notin active' /\ ~Coming(m)' /\ ~InHandOf(m)' /\ ~req'[m].terminal
  BY <1>2, <1>3 DEF Flow
<1>6. inHand' # <<>> /\ inHand'[1].event.last => \E m \in Reqs : m = inHand'[1].event.of /\ ~Pending(m)'
  BY <1>4 DEF Flow, HttpTyped
<1>7. \A m \in Reqs : req'[m].terminal => ~Pending(m)'
  BY <1>4 DEF Flow
<1> QED
  BY <1>3, <1>4, <1>5, <1>6, <1>7, FlowLater DEF Fades

LEMMA TakingFlow ==
  ASSUME HttpTyped, Flow, Http!TakeCommand
  PROVE  Flow' /\ Fades
<1> DEFINE c == Head(commands)
<1>1. /\ commands # <<>> /\ c = commands[1] /\ c \in HttpCommand /\ commands' = Tail(commands)
      /\ \/ /\ c.type = "request" /\ c.of \in Reqs
            /\ active' = active \cup {c.of} /\ events' = events
         \/ /\ c.type = "cancel" /\ active' = {n \in active : req[n].id # c.id}
            /\ \/ events' = events
               \/ \E n \in active : /\ req[n].id = c.id
                                    /\ events' = Append(events, [of |-> n, last |-> TRUE])
  BY TakingACommand
<1>2. commands \in Seq(HttpCommand) /\ events \in Seq(HttpEvent) /\ active \subseteq Reqs
  BY DEF HttpTyped
<1>3. \A i \in DOMAIN commands' : i \in Nat /\ i + 1 \in DOMAIN commands /\ commands'[i] = commands[i + 1]
  BY <1>1, <1>2, TailOf
<1>4. 1 \in DOMAIN commands
  BY <1>1, <1>2, TailOf
<1>5. Reqs' = Reqs /\ inHand' = inHand /\ req' = req
  BY DEF Http!TakeCommand, Reqs, Http!Requests
<1> HIDE DEF c
<1>6. \A m : Sent(m)' => Sent(m)
  BY <1>3 DEF Sent
<1>7. \A i, j \in DOMAIN commands' :
        commands'[i].type = "request" /\ commands'[j].type = "request"
          /\ commands'[i].of = commands'[j].of => i = j
  <2> SUFFICES ASSUME NEW i \in DOMAIN commands', NEW j \in DOMAIN commands',
                      commands'[i].type = "request", commands'[j].type = "request",
                      commands'[i].of = commands'[j].of
               PROVE  i = j
    OBVIOUS
  <2>1. i + 1 = j + 1
    BY <1>3 DEF Flow
  <2> QED
    BY <1>3, <2>1
<1>8. \A m : InHandOf(m)' => InHandOf(m)
  BY <1>5 DEF InHandOf
<1>9. CASE c.type = "request"
  <2>1. c.of \in Reqs /\ active' = active \cup {c.of} /\ events' = events
    BY <1>1, <1>9
  <2>2. Sent(c.of)
    BY <1>1, <1>4, <1>9 DEF Sent
  <2>3. c.of \notin active /\ ~Coming(c.of) /\ ~InHandOf(c.of) /\ ~req[c.of].terminal
    BY <2>1, <2>2 DEF Flow
  <2>a. PICK k \in Reqs : k = c.of
    BY <2>1
  <2>4. ~Sent(k)'
    <3> SUFFICES ASSUME NEW i \in DOMAIN commands', commands'[i].type = "request", commands'[i].of = k
                 PROVE  FALSE
      BY DEF Sent
    <3>1. i + 1 = 1
      BY <1>1, <1>3, <1>4, <1>9, <2>a DEF Flow
    <3>2. i \in DOMAIN commands' /\ i # 0
      BY <1>1, <1>2, TailOf
    <3> QED
      BY <1>3, <3>1, <3>2
  <2>5. \A m : Coming(m)' => Coming(m)
    BY <2>1 DEF Coming
  <2>6. \A m : Pending(m)' => Pending(m)
    BY <1>6, <2>1, <2>2, <2>5 DEF Pending
  <2>7. \A m \in Reqs : Sent(m)' => m \notin active' /\ ~Coming(m)' /\ ~InHandOf(m)' /\ ~req'[m].terminal
    BY <1>5, <1>6, <1>8, <2>1, <2>a, <2>3, <2>4, <2>5 DEF Flow
  <2>8. \A i \in DOMAIN events' : events'[i].last =>
          /\ events'[i].of \notin active'
          /\ \A j \in DOMAIN events' : events'[j].of = events'[i].of => j <= i
    BY <2>1, <2>3 DEF Flow, Coming
  <2>9. inHand' # <<>> /\ inHand'[1].event.last => \E m \in Reqs : m = inHand'[1].event.of /\ ~Pending(m)'
    BY <1>5, <2>6 DEF Flow, HttpTyped
  <2>10. \A m \in Reqs : req'[m].terminal => ~Pending(m)'
    BY <1>5, <2>6 DEF Flow
  <2> QED
    BY <1>5, <1>7, <2>6, <2>7, <2>8, <2>9, <2>10, FlowLater DEF Fades
<1>10. CASE c.type = "cancel"
  <2>1. active' \subseteq active
    BY <1>1, <1>10
  <2>2. \/ events' = events
        \/ \E e \in HttpEvent : /\ e.of \in active /\ events' = Append(events, e)
                                /\ e.last => e.of \notin active'
    <3>1. CASE events' = events
      BY <3>1
    <3>2. ASSUME NEW n \in active, req[n].id = c.id, events' = Append(events, [of |-> n, last |-> TRUE])
          PROVE  \E e \in HttpEvent : /\ e.of \in active /\ events' = Append(events, e)
                                      /\ e.last => e.of \notin active'
      <4> DEFINE e == [of |-> n, last |-> TRUE]
      <4>1. n \in Nat
        BY <1>2 DEF Reqs, Http!Requests, HttpTyped
      <4>2. e \in HttpEvent /\ e.of = n
        BY <4>1 DEF HttpEvent
      <4>3. n \notin active'
        BY <1>1, <1>10, <3>2
      <4>4. events' = Append(events, e)
        BY <3>2
      <4> HIDE DEF e
      <4> QED
        BY <4>2, <4>3, <4>4
    <3> QED
      BY <1>1, <1>10, <3>1, <3>2
  <2> QED
    BY <1>5, <1>6, <1>7, <2>1, <2>2, TellingFlow
<1> QED
  BY <1>1, <1>9, <1>10

LEMMA EmittingFlow ==
  ASSUME HttpTyped, Flow, NEW n \in active, NEW last \in BOOLEAN, Http!Emit(n, last)
  PROVE  Flow' /\ Fades
<1> DEFINE e == [of |-> n, last |-> last]
<1>1. active \subseteq Reqs /\ n \in Reqs /\ n \in Nat
  BY DEF HttpTyped, Reqs, Http!Requests
<1>2. e \in HttpEvent /\ e.of = n /\ e.last = last
  BY <1>1 DEF HttpEvent
<1>3. events' = events \/ events' = Append(events, e)
  BY <1>2, Putting DEF Http!Emit
<1>4. commands' = commands /\ inHand' = inHand /\ active' \subseteq active /\ (last => n \notin active')
  BY DEF Http!Emit
<1>5. Reqs' = Reqs /\ \A m \in Reqs : req'[m].terminal = req[m].terminal
  <2>1. CASE req' = req
    BY <2>1 DEF Reqs, Http!Requests
  <2>2. CASE Becomes(n, [req[n] EXCEPT !.chunks = req[n].chunks + 1])
    <3> DEFINE r == [req[n] EXCEPT !.chunks = req[n].chunks + 1]
    <3>1. r.terminal = req[n].terminal
      BY <1>1, IdsAreTyped DEF HttpRequest
    <3> HIDE DEF r
    <3>2. Becomes(n, r)
      BY <2>2 DEF r
    <3>3. Len(req') = Len(req) /\ \A m \in Reqs : req'[m].terminal = req[m].terminal
      BY <3>1, <3>2, <1>1, OneBecomes
    <3> QED
      BY <3>3 DEF Reqs, Http!Requests
  <2> QED
    BY <2>1, <2>2, Emitting
<1>6. (\A m : Sent(m)' => Sent(m)) /\ \A i, j \in DOMAIN commands' :
           commands'[i].type = "request" /\ commands'[j].type = "request"
             /\ commands'[i].of = commands'[j].of => i = j
  BY <1>4 DEF Sent, Flow
<1> HIDE DEF e
<1>7. \/ events' = events
      \/ \E d \in HttpEvent : /\ d.of \in active /\ events' = Append(events, d)
                              /\ d.last => d.of \notin active'
  BY <1>2, <1>3, <1>4
<1> QED
  BY <1>4, <1>5, <1>6, <1>7, TellingFlow

LEMMA SendingFlow ==
  ASSUME HttpTyped, Flow, NEW id \in Ids \cup Nat, NEW ping \in BOOLEAN, Http!Send(id, ping)
  PROVE  Flow' /\ \A m : Pending(m)' => Pending(m) \/ m = Len(req) + 1
<1> DEFINE n == Len(req) + 1
           c == [type |-> "request", id |-> id, of |-> n]
<1>1. /\ n \notin Reqs /\ n \in Nat /\ Reqs' = Reqs \cup {n}
      /\ \A m \in Reqs : req'[m] = req[m]
      /\ req'[n] = Http!Fresh(id, ping)
      /\ commands' = Append(commands, c)
  BY Sending
<1>2. c \in HttpCommand /\ c.of = n /\ c.type = "request" /\ ~req'[n].terminal
  BY <1>1 DEF HttpCommand, Http!Fresh
<1>3. commands \in Seq(HttpCommand) /\ active \subseteq Reqs
  BY DEF HttpTyped
<1>4. active' = active /\ events' = events /\ inHand' = inHand
  BY DEF Http!Send
<1> HIDE DEF n, c
<1> DEFINE k == Len(commands) + 1
<1>5. /\ \A i \in DOMAIN commands : commands'[i] = commands[i]
      /\ \A i \in DOMAIN commands' : i \in DOMAIN commands \/ i = k
      /\ commands'[k] = c
  BY <1>1, <1>2, <1>3, AppendedTo
<1> HIDE DEF k
<1>6. \A i \in DOMAIN commands : commands[i].type = "request" => commands[i].of \in Reqs
  BY DEF HttpTyped
<1>7. \A m : Sent(m)' => Sent(m) \/ m = n
  BY <1>2, <1>5 DEF Sent
<1>8. \A m : (Coming(m)' <=> Coming(m)) /\ (InHandOf(m)' <=> InHandOf(m))
  BY <1>4 DEF Coming, InHandOf
<1>9. \A m : Pending(m)' => Pending(m) \/ m = n
  BY <1>4, <1>7, <1>8 DEF Pending
<1>10. ~Coming(n) /\ ~InHandOf(n) /\ n \notin active
  BY <1>1, <1>3 DEF HttpTyped, Coming, InHandOf
<1>11. Flow'
  <2>1. \A i, j \in DOMAIN commands' :
          commands'[i].type = "request" /\ commands'[j].type = "request"
            /\ commands'[i].of = commands'[j].of => i = j
    BY <1>1, <1>2, <1>5, <1>6 DEF Flow
  <2>2. \A m \in Reqs' : Sent(m)' => m \notin active' /\ ~Coming(m)' /\ ~InHandOf(m)' /\ ~req'[m].terminal
    BY <1>1, <1>2, <1>4, <1>7, <1>8, <1>10 DEF Flow
  <2>3. \A i \in DOMAIN events' : events'[i].last =>
          /\ events'[i].of \notin active'
          /\ \A j \in DOMAIN events' : events'[j].of = events'[i].of => j <= i
    BY <1>4 DEF Flow
  <2>4. (inHand # <<>> /\ inHand[1].event.last => ~Pending(inHand[1].event.of))'
    <3> SUFFICES ASSUME inHand # <<>>, inHand[1].event.last PROVE (~Pending(inHand[1].event.of))'
      BY <1>4
    <3> DEFINE m == inHand[1].event.of
    <3>1. ~Pending(m) /\ m \in Reqs
      BY DEF Flow, HttpTyped
    <3> HIDE DEF m
    <3>2. m # n
      BY <1>1, <3>1
    <3>3. m' = m
      BY <1>4 DEF m
    <3>4. (~Pending(m))'
      BY <1>4, <1>5, <1>2, <3>1, <3>2, <3>3 DEF Pending, Sent, Coming
    <3> QED
      BY <3>4 DEF m
  <2>5. \A m \in Reqs' : req'[m].terminal => ~Pending(m)'
    BY <1>1, <1>2, <1>9 DEF Flow
  <2> QED
    BY <2>1, <2>2, <2>3, <2>4, <2>5 DEF Flow
<1> QED
  BY <1>9, <1>11 DEF n

LEMMA LookingFlow ==
  ASSUME HttpTyped, Flow, TombstonesDiffer, Http!LookUp
  PROVE  Flow' /\ Fades
<1> DEFINE e == Head(events)
<1>1. /\ e \in HttpEvent /\ e.of \in Reqs /\ events # <<>> /\ events' = Tail(events)
      /\ inHand' = <<>> \/ \E n \in registered : inHand' = <<[event |-> e, to |-> n]>>
      /\ UNCHANGED <<session, closed, req, registered, commands, active, cancels>>
  BY Lookups
<1>2. events \in Seq(HttpEvent)
  BY DEF HttpTyped
<1>3. /\ \A i \in DOMAIN events' : i \in Nat /\ i # 0 /\ i + 1 \in DOMAIN events /\ events'[i] = events[i + 1]
      /\ 1 \in DOMAIN events /\ e = events[1]
  BY <1>1, <1>2, TailOf
<1>4. Reqs' = Reqs
  BY <1>1 DEF Reqs, Http!Requests
<1> HIDE DEF e
<1>5. \A m : Coming(m)' => Coming(m)
  BY <1>3 DEF Coming
<1>6. \A m : Sent(m)' <=> Sent(m)
  BY <1>1 DEF Sent
<1>7. \A m : Pending(m)' => Pending(m)
  BY <1>1, <1>5, <1>6 DEF Pending
<1>8. Coming(e.of)
  BY <1>3 DEF Coming
<1>9. inHand' # <<>> => inHand'[1].event = e
  BY <1>1
<1>10. \A m : InHandOf(m)' => m = e.of
  BY <1>9 DEF InHandOf
<1>11. PICK k \in Reqs : k = e.of
  BY <1>1
<1>12. e.last => ~Pending(k)'
  <2> SUFFICES ASSUME e.last PROVE ~Pending(k)'
    OBVIOUS
  <2>1. k \notin active /\ ~Sent(k) /\ \A j \in DOMAIN events : events[j].of = k => j <= 1
    BY <1>3, <1>8, <1>11 DEF Flow
  <2>2. ~Coming(k)'
    BY <1>3, <2>1 DEF Coming
  <2> QED
    BY <1>1, <1>6, <2>1, <2>2 DEF Pending
<1>13. \A i, j \in DOMAIN commands' :
         commands'[i].type = "request" /\ commands'[j].type = "request"
           /\ commands'[i].of = commands'[j].of => i = j
  BY <1>1 DEF Flow
<1>14. \A m \in Reqs : Sent(m)' => m \notin active' /\ ~Coming(m)' /\ ~InHandOf(m)' /\ ~req'[m].terminal
  BY <1>1, <1>5, <1>6, <1>8, <1>10 DEF Flow
<1>15. \A i \in DOMAIN events' : events'[i].last =>
         /\ events'[i].of \notin active'
         /\ \A j \in DOMAIN events' : events'[j].of = events'[i].of => j <= i
  <2> SUFFICES ASSUME NEW i \in DOMAIN events', events'[i].last
               PROVE  /\ events'[i].of \notin active'
                      /\ \A j \in DOMAIN events' : events'[j].of = events'[i].of => j <= i
    OBVIOUS
  <2>1. /\ events[i + 1].of \notin active
        /\ \A j \in DOMAIN events : events[j].of = events[i + 1].of => j <= i + 1
    BY <1>3 DEF Flow
  <2>2. ASSUME NEW j \in DOMAIN events', events'[j].of = events'[i].of PROVE j <= i
    <3>1. j + 1 <= i + 1
      BY <1>3, <2>1, <2>2
    <3> QED
      BY <1>3, <3>1
  <2> QED
    BY <1>1, <1>3, <2>1, <2>2
<1>16. inHand' # <<>> /\ inHand'[1].event.last => \E m \in Reqs : m = inHand'[1].event.of /\ ~Pending(m)'
  BY <1>9, <1>11, <1>12
<1>17. \A m \in Reqs : req'[m].terminal => ~Pending(m)'
  BY <1>1, <1>7 DEF Flow
<1> QED
  BY <1>4, <1>7, <1>13, <1>14, <1>15, <1>16, <1>17, FlowLater DEF Fades

LEMMA DispatchingFlow ==
  ASSUME HttpTyped, Flow, Holders, Http!Dispatch
  PROVE  Flow' /\ Fades
<1> DEFINE e == inHand[1].event
           n == inHand[1].to
<1>1. /\ e \in HttpEvent /\ n \in Reqs /\ e.of \in Reqs
      /\ \/ req[n].terminal /\ req' = req
         \/ ~req[n].terminal /\ Becomes(n, [req[n] EXCEPT !.terminal = e.last, !.buffer = Http!Filled(req[n].buffer, e)])
  BY Dispatching
<1>2. n = e.of /\ inHand # <<>>
  BY DEF Holders, Http!Dispatch
<1>3. UNCHANGED <<commands, active, events>> /\ inHand' = <<>>
  BY DEF Http!Dispatch, Http!childVars
<1>4. Reqs' = Reqs /\ \A m \in Reqs : req'[m].terminal => req[m].terminal \/ (m = n /\ e.last)
  <2>1. CASE req' = req
    BY <2>1 DEF Reqs, Http!Requests
  <2>2. CASE Becomes(n, [req[n] EXCEPT !.terminal = e.last, !.buffer = Http!Filled(req[n].buffer, e)])
    <3> DEFINE r == [req[n] EXCEPT !.terminal = e.last, !.buffer = Http!Filled(req[n].buffer, e)]
    <3>1. r.terminal = e.last
      BY <1>1, IdsAreTyped DEF HttpRequest
    <3> HIDE DEF r
    <3>2. Becomes(n, r)
      BY <2>2 DEF r
    <3> HIDE DEF e, n
    <3> QED
      BY <1>1, <3>1, <3>2 DEF Becomes, Reqs, Http!Requests
  <2> QED
    BY <1>1, <2>1, <2>2
<1> HIDE DEF e, n
<1>5. \A m : (Sent(m)' <=> Sent(m)) /\ (Coming(m)' <=> Coming(m)) /\ ~InHandOf(m)'
  BY <1>3 DEF Sent, Coming, InHandOf
<1>6. \A m : Pending(m)' => Pending(m)
  BY <1>3, <1>5 DEF Pending
<1>7. e.last => ~Pending(n)
  BY <1>2 DEF Flow, e
<1>8. InHandOf(n)
  BY <1>2 DEF InHandOf, e
<1>9. \A m \in Reqs : req'[m].terminal => ~Pending(m)
  BY <1>4, <1>7 DEF Flow
<1>10. \A m \in Reqs : Sent(m)' => m \notin active' /\ ~Coming(m)' /\ ~InHandOf(m)' /\ ~req'[m].terminal
  <2>1. \A m \in Reqs : Sent(m) => m # n
    BY <1>8 DEF Flow
  <2> QED
    BY <1>3, <1>4, <1>5, <2>1 DEF Flow
<1> QED
  BY <1>3, <1>4, <1>6, <1>9, <1>10, FlowLater DEF Fades, Flow

-----------------------------------------------------------------------------
(* An id belongs to one request as long as anything may come under it.     *)

LEMMA SameIds ==
  ASSUME HttpTyped, NEW n \in Reqs, NEW r, Becomes(n, r)
  PROVE  /\ Reqs' = Reqs
         /\ \A m \in Reqs : req'[m].id = req[m].id /\ req'[m].ping = req[m].ping
BY DEF Becomes, Reqs, Http!Requests

LEMMA HoldersFade ==
  ASSUME HttpTyped, Holders, Fades, Reqs' = Reqs, registered' \subseteq registered, closed => closed',
         \A m \in Reqs : req'[m].id = req[m].id /\ req'[m].ping = req[m].ping,
         \A m \in Reqs : Pending(m)' /\ (m \in registered \/ Retired(req[m].id)) =>
           closed' \/ m \in registered' \/ req[m].ping \/ \E j \in DOMAIN tombstones' : tombstones'[j] = req[m].id,
         inHand' # <<>> => inHand'[1].to = inHand'[1].event.of,
         \A m \in Reqs : req'[m].step # "gone" => closed' \/ m \in registered'
  PROVE  Holders'
<1>0. registered \subseteq Reqs /\ registered' \subseteq Reqs
  BY DEF HttpTyped
<1>1. \A m, n \in Reqs : req'[m].id = req'[n].id /\ Pending(m)' /\ (Pending(n)' \/ n \in registered')
        => m = n
  <2> SUFFICES ASSUME NEW m \in Reqs, NEW n \in Reqs, req'[m].id = req'[n].id, Pending(m)',
                      Pending(n)' \/ n \in registered'
               PROVE  m = n
    OBVIOUS
  <2>1. Pending(m) /\ (Pending(n) \/ n \in registered) /\ req[m].id = req[n].id
    BY DEF Fades
  <2> QED
    BY <2>1 DEF Holders
<1>2. \A m, n \in registered' : req'[m].id = req'[n].id => m = n
  BY <1>0 DEF Holders
<1>3. \A m \in Reqs : Pending(m)' =>
        closed' \/ m \in registered' \/ req'[m].ping \/ \E j \in DOMAIN tombstones' : tombstones'[j] = req'[m].id
  BY DEF Holders, Fades
<1> QED
  BY <1>1, <1>2, <1>3 DEF Holders, Retired

LEMMA SessionHolders ==
  ASSUME HttpTyped, Holders, Fades, ChildState, SessionSteps
  PROVE  Holders' /\ ChildState'
<1>1. Reqs' = Reqs /\ req' = req /\ registered' \subseteq registered /\ inHand' = inHand
  BY SessionIsCalm DEF Calm, Reqs, Http!Requests
<1>2. CASE Http!Close
  <2>1. closed' /\ registered' = {} /\ session' \notin {"starting", "up", "deaf"}
        /\ commands' = <<>> /\ active' = {}
    BY <1>2 DEF Http!Close, Http!Running
  <2>2. ChildState'
    BY <2>1 DEF ChildState
  <2>3. Holders'
    BY <1>1, <2>1, HoldersFade DEF Holders
  <2> QED
    BY <2>2, <2>3
<1>3. CASE Http!Start \/ Http!Ready \/ Http!StartFails \/ Http!ReaderFails \/ Http!Exit
  <2>1. UNCHANGED <<closed, registered, tombstones>>
    BY <1>3 DEF Http!Start, Http!Ready, Http!StartFails, Http!ReaderFails, Http!Exit
  <2>2. ChildState'
    BY <1>3 DEF ChildState, Http!Start, Http!Ready, Http!StartFails, Http!ReaderFails, Http!Exit,
                Http!Running, Http!childVars
  <2>3. Holders'
    BY <1>1, <2>1, HoldersFade DEF Holders, Retired
  <2> QED
    BY <2>2, <2>3
<1> QED
  BY <1>2, <1>3 DEF SessionSteps

LEMMA HandlerHolders ==
  ASSUME HttpTyped, Holders, Flow, Fades, ChildState, TombstonesDiffer, BuffersEnd, FewOpenEnds,
         NEW n \in Reqs, HandlerSteps(n)
  PROVE  Holders' /\ ChildState' /\ TombstonesDiffer'
<1>1. /\ Calm /\ active' = active
      /\ commands' # commands => Http!Running
      /\ UNCHANGED <<session, closed>>
      /\ \E r \in HttpRequest : Becomes(n, r)
      /\ ~Http!Unsubscribe(n) => UNCHANGED <<registered, tombstones>>
  BY HandlersAreCalm
<1>2. Reqs' = Reqs /\ \A m \in Reqs : req'[m].id = req[m].id /\ req'[m].ping = req[m].ping
  BY <1>1, SameIds
<1>3. inHand' = inHand
  BY <1>1 DEF Calm
<1>4. CASE Http!Unsubscribe(n)
  <2>1. /\ registered' = {k \in registered : req[k].id # req[n].id}
        /\ req[n].step = "cancelled" /\ Becomes(n, [req[n] EXCEPT !.step = "gone"])
        /\ TombstonesDiffer'
        /\ \A i \in DOMAIN tombstones : \E j \in DOMAIN tombstones' : tombstones'[j] = tombstones[i]
        /\ Http!Retires(n) => \E j \in DOMAIN tombstones' : tombstones'[j] = req[n].id
    BY <1>4, Unsubscribing
  <2>2. ASSUME ~closed PROVE n \in registered
    BY <2>1, <2>2 DEF Holders
  <2>3. ~closed => registered' = registered \ {n}
    BY <2>1, <2>2 DEF Holders
  <2>4. registered' \subseteq registered
    BY <2>1
  <2>5. ASSUME NEW m \in Reqs, Pending(m)', m \in registered \/ Retired(req[m].id)
        PROVE  closed' \/ m \in registered' \/ req[m].ping \/ \E j \in DOMAIN tombstones' : tombstones'[j] = req[m].id
    <3>1. CASE Retired(req[m].id)
      BY <2>1, <3>1 DEF Retired
    <3>2. CASE m \in registered /\ m # n
      BY <1>1, <2>3, <3>2
    <3>3. CASE m = n
      <4>1. Pending(n)
        BY <2>5, <3>3 DEF Fades
      <4>2. ~req[n].terminal
        BY <4>1 DEF Flow
      <4>3. ~req[n].read
        BY <4>2 DEF BuffersEnd, Buffered
      <4> QED
        BY <2>1, <3>3, <4>2, <4>3 DEF Http!Retires
    <3> QED
      BY <2>5, <3>1, <3>2, <3>3
  <2>6. req'[n].step = "gone" /\ \A m \in Reqs : m # n => req'[m].step = req[m].step
    <3>1. [req[n] EXCEPT !.step = "gone"].step = "gone"
      BY IdsAreTyped DEF HttpRequest
    <3> QED
      BY <2>1, <3>1 DEF Becomes
  <2>7. \A m \in Reqs : req'[m].step # "gone" => closed' \/ m \in registered'
    BY <1>1, <2>3, <2>6 DEF Holders
  <2>8. Holders'
    BY <1>1, <1>2, <1>3, <2>4, <2>5, <2>7, HoldersFade DEF Holders
  <2>9. commands' = commands
    BY <1>4 DEF Http!Unsubscribe, Http!childVars
  <2>10. ChildState'
    BY <1>1, <2>4, <2>9 DEF ChildState, Http!Running
  <2> QED
    BY <2>1, <2>8, <2>10
<1>5. CASE ~Http!Unsubscribe(n)
  <2>1. UNCHANGED <<registered, tombstones>>
    BY <1>1, <1>5
  <2>2. req[n].step # "gone"
    BY <1>5 DEF HandlerSteps, Http!Open, Http!Read, Http!Timeout, Http!ClientGone, Http!CancelOnLeave
  <2>3. \A m \in Reqs : req'[m].step # "gone" => closed' \/ m \in registered'
    <3>1. \A m \in Reqs : m # n => req'[m].step = req[m].step
      BY <1>1 DEF Becomes
    <3> QED
      BY <1>1, <2>1, <2>2, <3>1 DEF Holders
  <2>4. Holders'
    BY <1>1, <1>2, <1>3, <2>1, <2>3, HoldersFade DEF Holders, Retired
  <2>5. ChildState'
    BY <1>1, <2>1 DEF ChildState, Http!Running
  <2>6. TombstonesDiffer'
    BY <2>1 DEF TombstonesDiffer
  <2> QED
    BY <2>4, <2>5, <2>6
<1> QED
  BY <1>4, <1>5

LEMMA SendingHolders ==
  ASSUME HttpTyped, Holders, ChildState, TombstonesDiffer,
         NEW id \in Ids \cup Nat, NEW ping \in BOOLEAN, Http!Send(id, ping),
         IF ping THEN id = Len(req) + 1 ELSE id \in Ids,
         \A m : Pending(m)' => Pending(m) \/ m = Len(req) + 1
  PROVE  Holders' /\ ChildState' /\ TombstonesDiffer'
<1> DEFINE n == Len(req) + 1
<1>1. /\ n \notin Reqs /\ n \in Nat /\ Reqs' = Reqs \cup {n}
      /\ \A m \in Reqs : req'[m] = req[m]
      /\ req'[n] = Http!Fresh(id, ping)
      /\ registered' = registered \cup {n}
      /\ \A m \in registered : req[m].id # id
      /\ \A i \in DOMAIN tombstones : tombstones[i] # id
  BY Sending
<1>2. req'[n].id = id /\ req'[n].ping = ping
  BY <1>1 DEF Http!Fresh
<1>3. UNCHANGED <<session, closed, tombstones, active, events, inHand>> /\ Http!Running
  BY DEF Http!Send
<1>4. IF ping THEN id = n ELSE id \in Ids
  OBVIOUS
<1>5. \A m : Pending(m)' => Pending(m) \/ m = n
  OBVIOUS
<1> HIDE DEF n
<1>6. ~closed
  BY <1>3 DEF ChildState, Http!Running
<1>7. Ids \cap Nat = {} /\ Reqs \subseteq Nat
  BY HttpConstants DEF Http!HttpGatewayAssumption, Reqs, Http!Requests, HttpTyped
<1>8. \A m \in Reqs : req[m].id = id => ~Pending(m) /\ m \notin registered
  <2> SUFFICES ASSUME NEW m \in Reqs, req[m].id = id, Pending(m) PROVE FALSE
    BY <1>1
  <2>1. req[m].ping \/ \E i \in DOMAIN tombstones : tombstones[i] = id
    BY <1>1, <1>6 DEF Holders, Retired
  <2>2. req[m].ping /\ req[m].id = m
    BY <1>1, <2>1 DEF HttpTyped
  <2>3. id = n
    BY <1>4, <1>7, <2>2
  <2> QED
    BY <1>1, <2>2, <2>3
<1>9. registered \subseteq Reqs
  BY DEF HttpTyped
<1>10. \A m, k \in Reqs' : req'[m].id = req'[k].id /\ Pending(m)' /\ (Pending(k)' \/ k \in registered')
         => m = k
  BY <1>1, <1>2, <1>5, <1>8, <1>9 DEF Holders
<1>11. \A m, k \in registered' : req'[m].id = req'[k].id => m = k
  BY <1>1, <1>2, <1>8, <1>9 DEF Holders
<1>12. \A m \in Reqs' : Pending(m)' =>
         closed' \/ m \in registered' \/ req'[m].ping \/ \E j \in DOMAIN tombstones' : tombstones'[j] = req'[m].id
  BY <1>1, <1>3, <1>5 DEF Holders, Retired
<1>13. \A m \in Reqs' : req'[m].step # "gone" => closed' \/ m \in registered'
  BY <1>1, <1>3 DEF Holders
<1>14. inHand' # <<>> => inHand'[1].to = inHand'[1].event.of
  BY <1>3 DEF Holders
<1>15. Holders'
  BY <1>10, <1>11, <1>12, <1>13, <1>14 DEF Holders, Retired
<1>16. ChildState'
  BY <1>3, <1>6 DEF ChildState, Http!Running
<1> QED
  BY <1>3, <1>15, <1>16 DEF TombstonesDiffer

LEMMA PipeHolders ==
  ASSUME HttpTyped, Holders, Fades, ChildState, TombstonesDiffer,
         \/ Http!TakeCommand
         \/ \E n \in active, last \in BOOLEAN : Http!Emit(n, last)
         \/ \E id \in Ids : Http!CancelRequest(id)
         \/ Http!Dispatch
  PROVE  Holders' /\ ChildState' /\ TombstonesDiffer'
<1>1. UNCHANGED <<session, closed, registered, tombstones>> /\ (inHand' = inHand \/ inHand' = <<>>)
  BY DEF Http!TakeCommand, Http!Emit, Http!CancelRequest, Http!Dispatch
<1>2. /\ Reqs' = Reqs
      /\ \A m \in Reqs : req'[m].id = req[m].id /\ req'[m].ping = req[m].ping /\ req'[m].step = req[m].step
  <2>1. CASE req' = req
    BY <2>1 DEF Reqs, Http!Requests
  <2>2. ASSUME NEW n \in Reqs, NEW r, Becomes(n, r), r.step = req[n].step
        PROVE  /\ Reqs' = Reqs
               /\ \A m \in Reqs : req'[m].id = req[m].id /\ req'[m].ping = req[m].ping /\ req'[m].step = req[m].step
    BY <2>2 DEF Becomes, Reqs, Http!Requests
  <2>3. ASSUME NEW n \in active, NEW last \in BOOLEAN, Http!Emit(n, last)
        PROVE  req' = req \/ \E r : Becomes(n, r) /\ r.step = req[n].step
    <3> DEFINE r == [req[n] EXCEPT !.chunks = req[n].chunks + 1]
    <3>1. n \in Reqs
      BY DEF HttpTyped
    <3>2. r.step = req[n].step
      BY <3>1, IdsAreTyped DEF HttpRequest
    <3> HIDE DEF r
    <3>3. req' = req \/ Becomes(n, r)
      BY <2>3, Emitting DEF r
    <3> QED
      BY <3>2, <3>3
  <2>4. CASE Http!Dispatch
    <3> DEFINE e == inHand[1].event
               n == inHand[1].to
               r == [req[n] EXCEPT !.terminal = e.last, !.buffer = Http!Filled(req[n].buffer, e)]
    <3>1. n \in Reqs /\ (req' = req \/ Becomes(n, r))
      BY <2>4, Dispatching
    <3>2. r.step = req[n].step
      BY <3>1, IdsAreTyped DEF HttpRequest
    <3> HIDE DEF r, n, e
    <3> QED
      BY <2>1, <2>2, <3>1, <3>2
  <2>5. active \subseteq Reqs
    BY DEF HttpTyped
  <2>6. Http!TakeCommand \/ (\E id \in Ids : Http!CancelRequest(id)) => req' = req
    BY DEF Http!TakeCommand, Http!CancelRequest
  <2> QED
    BY <2>1, <2>2, <2>3, <2>4, <2>5, <2>6
<1>3. Holders'
  BY <1>1, <1>2, HoldersFade DEF Holders, Retired
<1>4. ChildState'
  <2>1. ASSUME ~Http!Running PROVE commands' = commands /\ active' = active
    BY <2>1 DEF Http!TakeCommand, Http!Emit, Http!CancelRequest, Http!Dispatch, ChildState,
                Http!childVars
  <2> QED
    BY <1>1, <2>1 DEF ChildState, Http!Running
<1> QED
  BY <1>1, <1>3, <1>4 DEF TombstonesDiffer

LEMMA LookingHolders ==
  ASSUME HttpTyped, Holders, Flow, Flow', Fades, ChildState, TombstonesDiffer, Http!LookUp
  PROVE  Holders' /\ ChildState' /\ TombstonesDiffer'
<1> DEFINE e == Head(events)
<1>1. /\ e \in HttpEvent /\ e.of \in Reqs /\ events # <<>> /\ events' = Tail(events)
      /\ ~e.last => tombstones' = tombstones
      /\ TombstonesDiffer'
      /\ \A i \in DOMAIN tombstones :
           ~e.last \/ tombstones[i] # req[e.of].id => \E j \in DOMAIN tombstones' : tombstones'[j] = tombstones[i]
      /\ \/ inHand' = <<>>
         \/ \E n \in registered :
              /\ req[n].id = req[e.of].id
              /\ inHand' = <<[event |-> e, to |-> n]>>
      /\ UNCHANGED <<session, closed, req, registered, commands, active, cancels>>
  BY Lookups
<1>2. Reqs' = Reqs /\ registered \subseteq Reqs
  BY <1>1 DEF Reqs, Http!Requests, HttpTyped
<1>3. e = events[1] /\ 1 \in DOMAIN events /\ events \in Seq(HttpEvent)
  BY <1>1, TailOf DEF HttpTyped
<1> HIDE DEF e
<1>4. Pending(e.of)
  BY <1>3 DEF Pending, Coming
<1>5. inHand' # <<>> => inHand'[1].to = inHand'[1].event.of
  BY <1>1, <1>2, <1>4 DEF Holders
<1>6. ASSUME NEW m \in Reqs, Pending(m)', Retired(req[m].id)
      PROVE  \E j \in DOMAIN tombstones' : tombstones'[j] = req[m].id
  <2>1. CASE ~e.last \/ req[m].id # req[e.of].id
    BY <1>1, <1>6, <2>1 DEF Retired
  <2>2. CASE e.last /\ req[m].id = req[e.of].id
    <3>1. Pending(m)
      BY <1>6 DEF Fades
    <3>2. m = e.of
      BY <1>1, <1>4, <2>2, <3>1 DEF Holders
    <3>3. m \notin active /\ ~Sent(m) /\ \A j \in DOMAIN events : events[j].of = m => j <= 1
      BY <1>3, <2>2, <3>2 DEF Flow, Coming
    <3>4. \A i \in DOMAIN events' : i \in Nat /\ i # 0 /\ i + 1 \in DOMAIN events /\ events'[i] = events[i + 1]
      BY <1>1, <1>3, TailOf
    <3>5. ~Coming(m)'
      BY <3>3, <3>4 DEF Coming
    <3>6. ~Pending(m)'
      BY <1>1, <3>3, <3>5 DEF Pending, Sent
    <3> QED
      BY <1>6, <3>6
  <2> QED
    BY <2>1, <2>2
<1>7. Holders'
  BY <1>1, <1>2, <1>5, <1>6, HoldersFade DEF Holders
<1>8. ChildState'
  BY <1>1 DEF ChildState, Http!Running
<1> QED
  BY <1>1, <1>7, <1>8

-----------------------------------------------------------------------------
(* What lies in the buffers.                                               *)

LEMMA BufferOf == HttpTyped => \A n \in Reqs : req[n].buffer \in Seq(HttpEvent) /\ req[n].read \in BOOLEAN
  /\ req[n].terminal \in BOOLEAN
<1> SUFFICES ASSUME HttpTyped, NEW n \in Reqs
             PROVE  req[n].buffer \in Seq(HttpEvent) /\ req[n].read \in BOOLEAN /\ req[n].terminal \in BOOLEAN
  OBVIOUS
<1>1. req[n] \in HttpRequest
  BY IdsAreTyped
<1> QED
  BY <1>1 DEF HttpRequest

LEMMA OneBuffer ==
  ASSUME HttpTyped, BuffersEnd, NEW n \in Reqs, NEW r, Becomes(n, r), Buffered(r)
  PROVE  BuffersEnd'
<1>1. Reqs' = Reqs
  BY SameIds
<1>2. \A m \in Reqs : Buffered(req'[m])
  BY DEF Becomes, BuffersEnd
<1> QED
  BY <1>1, <1>2 DEF BuffersEnd, Buffered

LEMMA HandlerBuffers ==
  ASSUME HttpTyped, BuffersEnd, NEW n \in Reqs, HandlerSteps(n)
  PROVE  BuffersEnd' /\ (NoStrayEvent => NoStrayEvent')
<1>1. req[n] \in HttpRequest /\ Buffered(req[n])
  BY IdsAreTyped DEF BuffersEnd
<1>2. ASSUME NEW s \in {"opened", "reading", "leaving", "cancelled", "gone"}, Http!Step(n, s),
             req[n].read => s \in {"cancelled", "gone"}
      PROVE  BuffersEnd' /\ (NoStrayEvent => NoStrayEvent')
  <2> DEFINE r == [req[n] EXCEPT !.step = s]
  <2>1. Becomes(n, r)
    BY <1>2, Stepping
  <2>2. r.buffer = req[n].buffer /\ r.read = req[n].read /\ r.terminal = req[n].terminal /\ r.step = s
    BY <1>1 DEF HttpRequest
  <2> HIDE DEF r
  <2>3. Buffered(r)
    BY <1>1, <1>2, <2>2 DEF Buffered
  <2>4. BuffersEnd'
    BY <2>1, <2>3, OneBuffer
  <2>5. NoStrayEvent => NoStrayEvent'
    BY <2>1, <2>2, SameIds DEF Becomes, NoStrayEvent, Http!NoStrayEvent, Reqs
  <2> QED
    BY <2>4, <2>5
<1>3. CASE Http!Read(n)
  <2> DEFINE b == req[n].buffer
             e == Head(b)
             r == [req[n] EXCEPT !.buffer = Tail(b), !.read = e.last,
                                 !.step = IF e.last THEN "cancelled" ELSE req[n].step]
  <2>1. Becomes(n, r)
    BY <1>3, ReadingAnEvent
  <2>2. /\ r.buffer = Tail(b) /\ r.read = e.last /\ r.terminal = req[n].terminal
        /\ r.step = IF e.last THEN "cancelled" ELSE req[n].step
    BY <1>1 DEF HttpRequest
  <2>3. b \in Seq(HttpEvent) /\ b # <<>>
    BY <1>3, BufferOf DEF Http!Read
  <2>4. /\ Tail(b) \in Seq(HttpEvent) /\ Len(Tail(b)) = Len(b) - 1 /\ Len(b) \in Nat
        /\ DOMAIN Tail(b) = 1..Len(Tail(b)) /\ DOMAIN b = 1..Len(b)
        /\ \A i \in DOMAIN Tail(b) : i \in Nat /\ i + 1 \in DOMAIN b /\ Tail(b)[i] = b[i + 1]
        /\ e = b[1] /\ 1 \in DOMAIN b /\ e \in HttpEvent
    BY <2>3, TailOf
  <2>5. e.last \in BOOLEAN
    BY <2>4 DEF HttpEvent
  <2>6. ~req[n].read
    BY <1>1, <1>3 DEF Buffered, Http!Read
  <2>7. /\ Len(b) <= BufferSize
        /\ \A k \in DOMAIN b : b[k].last => req[n].terminal /\ k = Len(b)
        /\ req[n].terminal => b[Len(b)].last
    BY <1>1, <2>6 DEF Buffered
  <2> DEFINE t == Tail(b)
  <2> HIDE DEF r, e, b, t
  <2>8. Buffered(r)
    <3>1. Len(t) <= BufferSize
      BY <2>4, <2>7, HttpConstants DEF t, Http!HttpGatewayAssumption
    <3>2. \A k \in DOMAIN t : t[k].last => req[n].terminal /\ k = Len(t)
      <4> SUFFICES ASSUME NEW k \in DOMAIN t, t[k].last PROVE req[n].terminal /\ k = Len(t)
        OBVIOUS
      <4>1. k + 1 = Len(b) /\ req[n].terminal
        BY <2>4, <2>7 DEF t
      <4> QED
        BY <4>1, <2>4 DEF t
    <3>3. req[n].terminal /\ ~e.last => t # <<>> /\ t[Len(t)].last
      <4> SUFFICES ASSUME req[n].terminal, ~e.last PROVE t # <<>> /\ t[Len(t)].last
        OBVIOUS
      <4>1. Len(b) # 1
        BY <2>4, <2>7
      <4>2. Len(t) >= 1 /\ Len(t) \in DOMAIN t
        BY <2>4, <4>1 DEF t
      <4>3. t[Len(t)] = b[Len(b)]
        BY <2>4, <4>2 DEF t
      <4> QED
        BY <2>7, <4>2, <4>3
    <3>4. e.last => req[n].terminal
      BY <2>4, <2>7
    <3>5. r.buffer = t
      BY <2>2 DEF t
    <3> QED
      BY <2>2, <3>1, <3>2, <3>3, <3>4, <3>5 DEF Buffered
  <2>9. BuffersEnd'
    BY <2>1, <2>8, OneBuffer
  <2>10. NoStrayEvent => NoStrayEvent'
    <3> SUFFICES ASSUME NoStrayEvent, NEW m \in Reqs, NEW k \in DOMAIN req'[m].buffer
                 PROVE  req'[m].buffer[k].of = m
      BY <2>1, SameIds DEF NoStrayEvent, Http!NoStrayEvent, Reqs
    <3>1. CASE m = n
      <4>1. req'[m].buffer = t
        BY <2>1, <2>2, <3>1 DEF Becomes, t
      <4>2. k \in DOMAIN t
        BY <4>1
      <4>3. k + 1 \in DOMAIN b /\ t[k] = b[k + 1]
        BY <2>4, <4>2 DEF t
      <4>4. \A j \in DOMAIN b : b[j].of = n
        BY DEF NoStrayEvent, Http!NoStrayEvent, Reqs, b
      <4> QED
        BY <3>1, <4>1, <4>3, <4>4
    <3>2. CASE m # n
      BY <2>1, <3>2 DEF NoStrayEvent, Http!NoStrayEvent, Reqs, Becomes
    <3> QED
      BY <3>1, <3>2
  <2> QED
    BY <2>9, <2>10
<1>4. CASE Http!Open(n)
  <2>1. Http!Step(n, "reading") /\ ~req[n].read
    BY <1>1, <1>4 DEF Http!Open, Buffered
  <2> QED
    BY <1>2, <2>1
<1>5. CASE Http!Timeout(n)
  <2>1. (Http!Step(n, "cancelled") \/ Http!Step(n, "leaving")) /\ ~req[n].read
    BY <1>1, <1>5 DEF Http!Timeout, Buffered
  <2> QED
    BY <1>2, <2>1
<1>6. CASE Http!ClientGone(n)
  <2>1. Http!Step(n, "leaving") /\ ~req[n].read
    BY <1>1, <1>6 DEF Http!ClientGone, Buffered
  <2> QED
    BY <1>2, <2>1
<1>7. CASE Http!CancelOnLeave(n)
  <2>1. Http!Step(n, "cancelled")
    BY <1>7 DEF Http!CancelOnLeave
  <2> QED
    BY <1>2, <2>1
<1>8. CASE Http!Unsubscribe(n)
  <2>1. Http!Step(n, "gone")
    BY <1>8 DEF Http!Unsubscribe
  <2> QED
    BY <1>2, <2>1
<1> QED
  BY <1>3, <1>4, <1>5, <1>6, <1>7, <1>8 DEF HandlerSteps

LEMMA DispatchedBuffers ==
  ASSUME HttpTyped, BuffersEnd, Http!Dispatch
  PROVE  BuffersEnd' /\ (NoStrayEvent /\ Holders => NoStrayEvent')
<1> DEFINE e == inHand[1].event
           n == inHand[1].to
           b == req[n].buffer
           f == Http!Filled(b, e)
           r == [req[n] EXCEPT !.terminal = e.last, !.buffer = f]
<1>1. /\ e \in HttpEvent /\ n \in Reqs /\ inHand # <<>>
      /\ \/ req[n].terminal /\ req' = req
         \/ ~req[n].terminal /\ Becomes(n, r)
  BY Dispatching DEF Http!Dispatch
<1>2. CASE req' = req
  BY <1>2 DEF BuffersEnd, Reqs, Http!Requests, NoStrayEvent, Http!NoStrayEvent, Buffered
<1>3. CASE ~req[n].terminal /\ Becomes(n, r)
  <2>1. req[n] \in HttpRequest /\ Buffered(req[n]) /\ b \in Seq(HttpEvent) /\ e.last \in BOOLEAN
    BY <1>1, IdsAreTyped, BufferOf DEF BuffersEnd, HttpEvent
  <2>2. /\ f \in Seq(HttpEvent)
        /\ Len(b) <= BufferSize => Len(f) <= BufferSize
        /\ e.last => f # <<>> /\ f[Len(f)] = e
        /\ \A k \in DOMAIN f : f[k] = e \/ \E j \in DOMAIN b : f[k] = b[j]
        /\ \A k \in DOMAIN f : k # Len(f) => \E j \in DOMAIN b : f[k] = b[j]
    BY <1>1, <2>1, FilledBuffer
  <2>3. r.buffer = f /\ r.read = req[n].read /\ r.terminal = e.last /\ r.step = req[n].step
    BY <2>1 DEF HttpRequest
  <2>4. Len(b) <= BufferSize /\ ~req[n].read /\ \A j \in DOMAIN b : ~b[j].last
    BY <1>3, <2>1 DEF Buffered
  <2>5. Becomes(n, r)
    BY <1>3
  <2> HIDE DEF r, f, b, n, e
  <2>6. Buffered(r)
    BY <2>2, <2>3, <2>4 DEF Buffered
  <2>7. BuffersEnd'
    BY <1>1, <2>5, <2>6, OneBuffer
  <2>8. NoStrayEvent /\ Holders => NoStrayEvent'
    <3> SUFFICES ASSUME NoStrayEvent, Holders, NEW m \in Reqs, NEW k \in DOMAIN req'[m].buffer
                 PROVE  req'[m].buffer[k].of = m
      BY <1>1, <2>5, SameIds DEF NoStrayEvent, Http!NoStrayEvent, Reqs
    <3>1. CASE m = n
      <4>1. e.of = n
        BY <1>1 DEF Holders, e, n
      <4>2. \A j \in DOMAIN b : b[j].of = n
        BY <1>1 DEF NoStrayEvent, Http!NoStrayEvent, Reqs, b
      <4>3. req'[m].buffer = f
        BY <2>3, <2>5, <3>1, <1>1 DEF Becomes
      <4> QED
        BY <2>2, <3>1, <4>1, <4>2, <4>3
    <3>2. CASE m # n
      BY <2>5, <3>2 DEF NoStrayEvent, Http!NoStrayEvent, Reqs, Becomes
    <3> QED
      BY <3>1, <3>2
  <2> QED
    BY <2>7, <2>8
<1> QED
  BY <1>1, <1>2, <1>3

LEMMA OtherBuffers ==
  ASSUME HttpTyped, BuffersEnd, \A m \in Reqs : req'[m].buffer = req[m].buffer
           /\ req'[m].terminal = req[m].terminal /\ req'[m].read = req[m].read /\ req'[m].step = req[m].step,
         \/ Reqs' = Reqs
         \/ /\ Reqs' = Reqs \cup {Len(req) + 1}
            /\ \E id, ping : req'[Len(req) + 1] = Http!Fresh(id, ping)
  PROVE  BuffersEnd' /\ (NoStrayEvent => NoStrayEvent')
<1>1. \A m \in Reqs : Buffered(req'[m])
  BY DEF BuffersEnd, Buffered
<1>2. BufferSize \in Nat
  BY HttpConstants DEF Http!HttpGatewayAssumption
<1>3. \A id, ping : Http!Fresh(id, ping).buffer = <<>> /\ Buffered(Http!Fresh(id, ping))
  BY <1>2, EmptyIsTyped DEF Http!Fresh, Buffered
<1>4. BuffersEnd'
  BY <1>1, <1>3 DEF BuffersEnd, Buffered
<1>5. NoStrayEvent => NoStrayEvent'
  BY <1>3 DEF NoStrayEvent, Http!NoStrayEvent, Reqs
<1> QED
  BY <1>4, <1>5

LEMMA HttpStepBuffers ==
  ASSUME HttpTyped, TombstonesDiffer, BuffersEnd, [Http!Next]_(Http!vars)
  PROVE  BuffersEnd' /\ (NoStrayEvent /\ Holders => NoStrayEvent')
<1>1. ASSUME req' = req PROVE BuffersEnd' /\ (NoStrayEvent => NoStrayEvent')
  <2>1. Reqs' = Reqs
    BY <1>1 DEF Reqs, Http!Requests
  <2> QED
    BY <1>1, <2>1, OtherBuffers
<1>2. ASSUME NEW n \in active, NEW last \in BOOLEAN, Http!Emit(n, last)
      PROVE  BuffersEnd' /\ (NoStrayEvent => NoStrayEvent')
  <2> DEFINE r == [req[n] EXCEPT !.chunks = req[n].chunks + 1]
  <2>1. n \in Reqs
    BY DEF HttpTyped
  <2>2. r.buffer = req[n].buffer /\ r.terminal = req[n].terminal /\ r.read = req[n].read /\ r.step = req[n].step
    BY <2>1, IdsAreTyped DEF HttpRequest
  <2> HIDE DEF r
  <2>3. CASE Becomes(n, r)
    <3>1. /\ Reqs' = Reqs
          /\ \A m \in Reqs : req'[m].buffer = req[m].buffer
               /\ req'[m].terminal = req[m].terminal /\ req'[m].read = req[m].read /\ req'[m].step = req[m].step
      BY <2>1, <2>2, <2>3, SameIds DEF Becomes
    <3> QED
      BY <3>1, OtherBuffers
  <2>4. req' = req \/ Becomes(n, r)
    BY <1>2, Emitting DEF r
  <2> QED
    BY <1>1, <2>3, <2>4
<1>3. ASSUME NEW id \in Ids \cup Nat, NEW ping \in BOOLEAN, Http!Send(id, ping)
      PROVE  BuffersEnd' /\ (NoStrayEvent => NoStrayEvent')
  BY <1>3, Sending, OtherBuffers
<1>4. SessionSteps \/ Http!TakeCommand \/ Http!LookUp \/ (\E id \in Ids : Http!CancelRequest(id)) \/ UNCHANGED Http!vars
        => req' = req
  BY SessionIsCalm DEF Http!TakeCommand, Http!LookUp, Http!CancelRequest, Http!vars
<1> QED
  BY <1>1, <1>2, <1>3, <1>4, HttpSteps, HandlerBuffers, DispatchedBuffers

-----------------------------------------------------------------------------
(* Together.                                                               *)

\* The requests are numbered, so the ids of the tombstones are not ids of pings.
LEMMA HttpStart ==
  ASSUME Http!Init
  PROVE  HttpTyped /\ Flow /\ ChildState /\ Holders /\ TombstonesDiffer /\ BuffersEnd /\ NoStrayEvent
<1>1. /\ session = "none" /\ closed = FALSE /\ req = <<>> /\ registered = {} /\ tombstones = <<>>
      /\ commands = <<>> /\ active = {} /\ events = <<>> /\ inHand = <<>>
  BY DEF Http!Init
<1>2. Reqs = {} /\ DOMAIN commands = {} /\ DOMAIN events = {} /\ DOMAIN tombstones = {}
  BY <1>1 DEF Reqs, Http!Requests
<1>3. /\ req \in Seq(HttpRequest) /\ tombstones \in Seq(Ids) /\ commands \in Seq(HttpCommand)
      /\ events \in Seq(HttpEvent) /\ inHand \in Seq([event : HttpEvent, to : Reqs]) /\ Len(inHand) = 0
  BY <1>1, EmptyIsTyped
<1>4. HttpTyped
  <2>1. session \in {"none", "starting", "failed", "up", "deaf", "exited"} /\ closed \in BOOLEAN
    BY <1>1
  <2>2. registered \subseteq Reqs /\ active \subseteq Reqs /\ Len(inHand) <= 1 /\ ~(inHand # <<>>)
    BY <1>1, <1>3
  <2>3. /\ \A i \in DOMAIN commands : commands[i].type = "request" => commands[i].of \in Reqs
        /\ \A i \in DOMAIN events : events[i].of \in Reqs
        /\ \A m \in Reqs : IF req[m].ping THEN req[m].id = m ELSE req[m].id \in Ids
    BY <1>2
  <2> QED
    BY <1>3, <2>1, <2>2, <2>3 DEF HttpTyped
<1>5. Flow
  BY <1>1, <1>2 DEF Flow
<1>6. ChildState
  BY <1>1 DEF ChildState, Http!Running
<1>7. Holders
  BY <1>1, <1>2 DEF Holders
<1>8. TombstonesDiffer /\ BuffersEnd
  BY <1>2 DEF TombstonesDiffer, BuffersEnd
<1>9. NoStrayEvent
  BY <1>2 DEF NoStrayEvent, Http!NoStrayEvent, Reqs
<1> QED
  BY <1>4, <1>5, <1>6, <1>7, <1>8, <1>9

LEMMA TombstonesStayApart ==
  ASSUME HttpTyped, TombstonesDiffer, [Http!Next]_(Http!vars)
  PROVE  TombstonesDiffer'
<1>1. CASE tombstones' = tombstones
  BY <1>1 DEF TombstonesDiffer
<1>2. CASE tombstones' = <<>>
  BY <1>2 DEF TombstonesDiffer
<1>3. ASSUME NEW n \in Reqs, HandlerSteps(n) PROVE TombstonesDiffer'
  BY <1>1, <1>3, Unsubscribing, HandlersAreCalm
<1>4. CASE Http!LookUp
  BY <1>4, Lookups
<1>5. SessionSteps => tombstones' \in {tombstones, <<>>}
  BY SessionIsCalm
<1>6. ASSUME NEW id, NEW ping, Http!Send(id, ping) PROVE tombstones' = tombstones
  BY <1>6 DEF Http!Send
<1>7. ASSUME NEW n, NEW last, Http!Emit(n, last) PROVE tombstones' = tombstones
  BY <1>7 DEF Http!Emit
<1>8. Http!TakeCommand \/ Http!Dispatch \/ (\E id \in Ids : Http!CancelRequest(id)) \/ UNCHANGED Http!vars
        => tombstones' = tombstones
  BY DEF Http!TakeCommand, Http!Dispatch, Http!CancelRequest, Http!vars
<1> QED
  BY <1>1, <1>2, <1>3, <1>4, <1>5, <1>6, <1>7, <1>8, HttpSteps

\* The whole invariant is kept while the tombstones have room for every id whose end nobody saw.
LEMMA HttpInvariantStays ==
  ASSUME HttpInv, BuffersEnd, FewOpenEnds, [Http!Next]_(Http!vars)
  PROVE  HttpInv' /\ BuffersEnd'
<1>1. HttpTyped /\ Flow /\ ChildState /\ Holders /\ TombstonesDiffer /\ NoStrayEvent
  BY DEF HttpInv
<1>2. HttpTyped'
  BY <1>1, HttpStepTyped
<1>3. BuffersEnd' /\ NoStrayEvent'
  BY <1>1, HttpStepBuffers
<1>4. CASE SessionSteps
  <2>1. Flow' /\ Fades
    BY <1>1, <1>4, SessionIsCalm, CalmFlow
  <2>2. Holders' /\ ChildState'
    BY <1>1, <1>4, <2>1, SessionHolders
  <2>3. TombstonesDiffer'
    BY <1>1, TombstonesStayApart
  <2> QED
    BY <1>2, <1>3, <2>1, <2>2, <2>3 DEF HttpInv
<1>5. ASSUME NEW n \in Reqs, HandlerSteps(n) PROVE Flow' /\ Holders' /\ ChildState' /\ TombstonesDiffer'
  <2>1. Flow' /\ Fades
    BY <1>1, <1>5, HandlersAreCalm, CalmFlow
  <2> QED
    BY <1>1, <1>5, <2>1, HandlerHolders
<1>6. ASSUME NEW id \in Ids, Http!CancelRequest(id)
      PROVE  Flow' /\ Holders' /\ ChildState' /\ TombstonesDiffer'
  <2>1. Flow' /\ Fades
    BY <1>1, <1>6, RequestingACancel, CalmFlow
  <2> QED
    BY <1>1, <1>6, <2>1, PipeHolders
<1>7. ASSUME NEW id \in Ids \cup Nat, NEW ping \in BOOLEAN, Http!Send(id, ping),
             IF ping THEN id = Len(req) + 1 ELSE id \in Ids
      PROVE  Flow' /\ Holders' /\ ChildState' /\ TombstonesDiffer'
  <2>1. Flow' /\ \A m : Pending(m)' => Pending(m) \/ m = Len(req) + 1
    BY <1>1, <1>7, SendingFlow
  <2> QED
    BY <1>1, <1>7, <2>1, SendingHolders
<1>8. CASE Http!TakeCommand
  <2>1. Flow' /\ Fades
    BY <1>1, <1>8, TakingFlow
  <2> QED
    BY <1>1, <1>2, <1>3, <1>8, <2>1, PipeHolders DEF HttpInv
<1>9. ASSUME NEW n \in active, NEW last \in BOOLEAN, Http!Emit(n, last)
      PROVE  Flow' /\ Holders' /\ ChildState' /\ TombstonesDiffer'
  <2>1. Flow' /\ Fades
    BY <1>1, <1>9, EmittingFlow
  <2> QED
    BY <1>1, <1>9, <2>1, PipeHolders
<1>10. CASE Http!LookUp
  <2>1. Flow' /\ Fades
    BY <1>1, <1>10, LookingFlow
  <2> QED
    BY <1>1, <1>2, <1>3, <1>10, <2>1, LookingHolders DEF HttpInv
<1>11. CASE Http!Dispatch
  <2>1. Flow' /\ Fades
    BY <1>1, <1>11, DispatchingFlow
  <2> QED
    BY <1>1, <1>2, <1>3, <1>11, <2>1, PipeHolders DEF HttpInv
<1>12. CASE UNCHANGED Http!vars
  <2>1. UNCHANGED <<session, closed, req, registered, tombstones, commands, active, events, inHand>>
    BY <1>12 DEF Http!vars, Http!childVars
  <2>2. Flow'
    BY <1>1, <2>1 DEF Flow, Reqs, Http!Requests, Pending, Sent, Coming, InHandOf
  <2>3. Holders' /\ ChildState' /\ TombstonesDiffer'
    BY <1>1, <2>1 DEF Holders, ChildState, TombstonesDiffer, Reqs, Http!Requests, Http!Running,
                      Retired, Pending, Sent, Coming
  <2> QED
    BY <1>2, <1>3, <2>2, <2>3 DEF HttpInv
<1>13. Flow' /\ Holders' /\ ChildState' /\ TombstonesDiffer' => HttpInv'
  BY <1>2, <1>3 DEF HttpInv
<1> QED
  BY <1>1, <1>3, <1>4, <1>5, <1>6, <1>7, <1>8, <1>9, <1>10, <1>11, <1>12, <1>13, HttpSteps

(* Whatever the clients, the child and the threads of the HTTP host do, the *)
(* books are well typed, no id is retired twice and a buffer that has the   *)
(* terminal event has it last (SidecarGateway, RuntimeSession).             *)
THEOREM BuffersAreInOrder == Http!Spec => [](HttpTyped /\ TombstonesDiffer /\ BuffersEnd)
<1> DEFINE Inv == HttpTyped /\ TombstonesDiffer /\ BuffersEnd
<1>1. Http!Init => Inv
  BY HttpStart
<1>2. Inv /\ [Http!Next]_(Http!vars) => Inv'
  BY HttpStepTyped, TombstonesStayApart, HttpStepBuffers
<1> QED
  BY <1>1, <1>2, PTL DEF Http!Spec

(* A stream that is told of its end can still read it, for any number of    *)
(* requests and any size of the buffers (_Subscription.dispatch).           *)
THEOREM TheEndCanBeRead == Http!Spec => []TerminalStays
<1>1. HttpTyped /\ BuffersEnd => TerminalStays
  BY DEF BuffersEnd, Buffered, TerminalStays, Http!TerminalStays, Http!Last, Reqs
<1> QED
  BY <1>1, BuffersAreInOrder, PTL

(* An id whose first request may still be heard of is not given to a second *)
(* one, so a stream yields its own events only -- as long as no more ids    *)
(* are retired at once than MAX_REQUEST_ID_TOMBSTONES has room for          *)
(* (send_command_with_subscription, unsubscribe, _dispatch).                *)
THEOREM StreamsAreNotMixed == Http!Spec /\ []FewOpenEnds => []NoStrayEvent
<1>1. Http!Init => HttpInv /\ BuffersEnd
  BY HttpStart DEF HttpInv
<1>2. HttpInv /\ BuffersEnd /\ FewOpenEnds /\ [Http!Next]_(Http!vars) => (HttpInv /\ BuffersEnd)'
  BY HttpInvariantStays
<1>3. HttpInv => NoStrayEvent
  BY DEF HttpInv
<1> QED
  BY <1>1, <1>2, <1>3, PTL DEF Http!Spec
=============================================================================
