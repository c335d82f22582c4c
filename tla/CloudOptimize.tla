---------------------------- MODULE CloudOptimize ----------------------------
(***************************************************************************)
(* POST /v1/optimize of Reflex Cloud (reflex_cloud/api.py, optimizer.py,   *)
(* service.py): the claim of the request id, the admission transaction     *)
(* (daily quota, hourly limit of the client address, daily budget), the    *)
(* stream that books every chunk before it is sent, and the clean-up of    *)
(* its finally blocks, with everything that may come between two of them:  *)
(* a cancel, midnight, the TTL of a budget reservation, the deletion of    *)
(* the installation's data and a restart of the service.  A transaction is *)
(* one step: rows are taken FOR UPDATE or changed by conditional UPDATEs.  *)
(* All clients share one address, one character costs one unit.            *)
(***************************************************************************)
EXTENDS Naturals, FiniteSets, FiniteSetsExt

CONSTANTS
  Requests, Ids, Installs,  \* calls of the endpoint, request ids, installations
  IdOf, InstallOf,          \* the id and the installation of a call
  InputChars, ChunkSizes,   \* len(text) of every request, sizes of a chunk
  MaxDay,                   \* bound: midnights in a behaviour
  MaxFaults,                \* bound: faults (see Fault) in a behaviour
  MaxGlobal, MaxPerInstall, \* max_concurrent_global, max_concurrent_per_installation
  DayRequests, DayInput, DayOutput,  \* free_requests/input_chars/output_chars_per_day
  Admissions, Budget,       \* global_daily_request_limit, ..._cost_budget_microusd
  MaxOutput,                \* budget_max_output_chars_per_request
  None

ASSUME CloudAssumption ==
  /\ IdOf \in [Requests -> Ids] /\ InstallOf \in [Requests -> Installs]
  /\ {MaxDay, MaxFaults, InputChars, Admissions, Budget, MaxOutput} \subseteq Nat
  /\ {DayRequests, DayInput, DayOutput, MaxGlobal, MaxPerInstall} \subseteq Nat \ {0}
  /\ ChunkSizes \subseteq Nat \ {0}
  /\ None \notin Requests /\ None \notin [requests : Nat, input : Nat, output : Nat]
  /\ None \notin [admitted : Nat, settled : Nat, reserved : Nat]

VARIABLES
  pc,         \* how far a call is
  claims,     \* CloudOptimizer._active: id -> the call that claimed it
  token,      \* the call whose claim, and CancellationToken, a call runs with
  cancelled,  \* calls whose CancellationToken is set
  sent,       \* output_chars of a call
  usage,      \* today's DailyUsage row of an installation
  ledger,     \* DailyBudgetLedger rows
  spent,      \* today's DailyCostAggregate row
  res,        \* BudgetReservation rows
  today, faults

callVars  == <<pc, claims, token, cancelled, sent>>
bookVars  == <<usage, ledger, spent, res>>
vars == <<callVars, bookVars, today, faults>>

Days == 0..MaxDay

\* Restarts, failed transactions of the clean-up and clients lost before the stream.
Fault == faults < MaxFaults /\ faults' = faults + 1

Estimate == InputChars + MaxOutput
Cost(r) == InputChars + sent[r]
Unused == [requests |-> 0, input |-> 0, output |-> 0]

TypeOK ==
  /\ pc \in [Requests -> {"idle", "reserve", "open", "stream", "close", "record",
                          "settle", "over"}]
  /\ claims \in [Ids -> Requests \cup {None}]
  /\ token \in [Requests -> Requests] /\ cancelled \subseteq Requests
  /\ sent \in [Requests -> Nat]
  /\ \A i \in Installs :
        usage[i] = None \/ usage[i] \in [requests : Nat, input : Nat, output : Nat]
  /\ \A d \in Days :
        ledger[d] = None \/ ledger[d] \in [admitted : Nat, settled : Nat, reserved : Nat]
  /\ spent \in [requests : Nat, cost : Nat]
  /\ res \in [Requests -> [status : {"none", "reserved", "settled", "expired"}, day : Days]]
  /\ today \in Days /\ faults \in 0..MaxFaults

Init ==
  /\ pc = [r \in Requests |-> "idle"]
  /\ claims = [id \in Ids |-> None]
  /\ token = [r \in Requests |-> r] /\ cancelled = {}
  /\ sent = [r \in Requests |-> 0]
  /\ usage = [i \in Installs |-> None]
  /\ ledger = [d \in Days |-> None]
  /\ spent = [requests |-> 0, cost |-> 0]
  /\ res = [r \in Requests |-> [status |-> "none", day |-> 0]]
  /\ today = 0 /\ faults = 0

-----------------------------------------------------------------------------
(* The claim of a request id (CloudOptimizer).                             *)

Goto(r, p) == pc' = [pc EXCEPT ![r] = p]
Claimed == {id \in Ids : claims[id] # None}

MayClaim(r) ==
  /\ claims[IdOf[r]] = None
  /\ Cardinality(Claimed) < MaxGlobal
  /\ Cardinality({id \in Claimed : InstallOf[claims[id]] = InstallOf[r]}) < MaxPerInstall

Claim(r) ==
  /\ pc[r] = "idle" /\ MayClaim(r)
  /\ claims' = [claims EXCEPT ![IdOf[r]] = r]
  /\ Goto(r, "reserve")
  /\ UNCHANGED <<token, cancelled, sent, bookVars, today, faults>>

\* The token does not authenticate, or claim answers 409 or 429.
ClaimRefused(r) ==
  /\ pc[r] = "idle"
  /\ Goto(r, "over")
  /\ UNCHANGED <<token, claims, cancelled, sent, bookVars, today, faults>>

\* Mutated form of Release: the entry is dropped, its token is not cancelled.
ReleaseQuietly(r) ==
  /\ claims' = [claims EXCEPT ![IdOf[r]] = None]
  /\ cancelled' = cancelled

\* release pops the id whoever claimed it, and cancels that token.
Release(r) ==
  /\ claims' = [claims EXCEPT ![IdOf[r]] = None]
  /\ cancelled' = (cancelled \cup {claims[IdOf[r]]}) \ {None}

\* cancel answers false unless the installation of the caller owns the claim.
Cancel(i, id) ==
  /\ claims[id] # None /\ InstallOf[claims[id]] = i /\ claims[id] \notin cancelled
  /\ cancelled' = cancelled \cup {claims[id]}
  /\ UNCHANGED <<token, pc, claims, sent, bookVars, today, faults>>

-----------------------------------------------------------------------------
(* Admission: CloudService.reserve_request, one transaction.               *)

Row(i) == IF usage[i] = None THEN Unused ELSE usage[i]

QuotaLeft(i) ==
  /\ Row(i).requests < DayRequests
  /\ Row(i).input + InputChars <= DayInput
  /\ Row(i).output < DayOutput

\* The open reservations of day d.  When a TTL is over is left open: any of them
\* may have lapsed whenever the code looks for those that have.
Open(d) == {r \in Requests : res[r].status = "reserved" /\ res[r].day = d}

Less(n, k) == IF k > n THEN 0 ELSE n - k

\* The first ledger of a day (only today's is created) starts from what the day
\* has cost so far.
Ledger(d) ==
  IF ledger[d] # None THEN ledger[d]
  ELSE [admitted |-> spent.requests, settled |-> spent.cost, reserved |-> 0]

\* Mutated form of Without: the sum loses only one lapsed reservation.
WithoutOne(l, rs) == [l EXCEPT !.reserved = Less(@, IF rs = {} THEN 0 ELSE Estimate)]

\* _expire_budget_reservations: the ledger l without the reservations rs.
Without(l, rs) == [l EXCEPT !.reserved = Less(@, Estimate * Cardinality(rs))]

Expire(rs) == [r \in Requests |-> IF r \in rs THEN [res[r] EXCEPT !.status = "expired"] ELSE res[r]]

\* Mutated form of BudgetLeft: what is reserved is not counted as committed.
SettledLeft(l) == l.admitted + 1 <= Admissions /\ l.settled + Estimate <= Budget

BudgetLeft(l) == /\ l.admitted + 1 <= Admissions
                 /\ l.settled + l.reserved + Estimate <= Budget

Reserve(r, lapsed) ==
  LET i == InstallOf[r]
      l == Without(Ledger(today), lapsed)
  IN /\ pc[r] = "reserve"
     /\ InputChars <= DayInput /\ QuotaLeft(i) /\ BudgetLeft(l)
     /\ usage' = [usage EXCEPT ![i] =
                    [Row(i) EXCEPT !.requests = @ + 1, !.input = @ + InputChars]]
     /\ ledger' = [ledger EXCEPT ![today] =
                    [l EXCEPT !.admitted = @ + 1, !.reserved = @ + Estimate]]
     /\ res' = [Expire(lapsed) EXCEPT ![r] = [status |-> "reserved", day |-> today]]
     /\ Goto(r, "open")
     /\ UNCHANGED <<token, claims, cancelled, sent, spent, today, faults>>

\* Any refusal (also by the limit of the client address, or for want of the
\* installation's row) rolls the whole transaction back and releases the claim.
ReserveRefused(r) ==
  /\ pc[r] = "reserve"
  /\ Release(r) /\ Goto(r, "over")
  /\ UNCHANGED <<token, sent, bookVars, today, faults>>

-----------------------------------------------------------------------------
(* The stream: event_stream over CloudOptimizer.stream.                    *)

\* stream takes whatever claim is under the id, which need not be the caller's.
Start(r) ==
  /\ pc[r] = "open" /\ claims[IdOf[r]] # None
  /\ token' = [token EXCEPT ![r] = claims[IdOf[r]]]
  /\ Goto(r, "stream")
  /\ UNCHANGED <<claims, cancelled, sent, bookVars, today, faults>>

\* No claim is there: optimize_request_unavailable, raised before stream's try.
StartRefused(r) ==
  /\ pc[r] = "open" /\ claims[IdOf[r]] = None
  /\ Goto(r, "close")
  /\ UNCHANGED <<token, claims, cancelled, sent, bookVars, today, faults>>

\* The client leaves before the first byte: the generator is never started and
\* none of its finally blocks runs.
Abandon(r) ==
  /\ Fault /\ pc[r] = "open"
  /\ Goto(r, "over")
  /\ UNCHANGED <<token, claims, cancelled, sent, bookVars, today>>

\* record_output_usage: the row of today takes the chunk or refuses it.
Fits(i, n) == usage[i] # None /\ usage[i].output + n <= DayOutput

Chunk(r, n) ==
  LET i == InstallOf[r] IN
  /\ pc[r] = "stream" /\ Fits(i, n)
  /\ usage' = [usage EXCEPT ![i].output = @ + n]
  /\ sent' = [sent EXCEPT ![r] = @ + n]
  /\ UNCHANGED <<token, pc, claims, cancelled, ledger, spent, res, today, faults>>

\* The stream is left: its own finally releases the id.
Leave(r) == pc[r] = "stream" /\ Release(r) /\ Goto(r, "close")

\* No row (midnight) or no room: an error event, the chunk is dropped.
ChunkRefused(r, n) ==
  /\ ~Fits(InstallOf[r], n)
  /\ Leave(r)
  /\ UNCHANGED <<token, sent, bookVars, today, faults>>

\* The use case ends with done, error or cancelled, the client is gone, or the data
\* of the installation was deleted and record_output_usage finds no row.
Stop(r) ==
  /\ Leave(r)
  /\ UNCHANGED <<token, sent, bookVars, today, faults>>

-----------------------------------------------------------------------------
(* The finally block of event_stream.                                      *)

Close(r) ==
  /\ pc[r] = "close"
  /\ Release(r) /\ Goto(r, "record")
  /\ UNCHANGED <<token, sent, bookVars, today, faults>>

\* record_provider_usage, then store_improvement_sample, which may raise.
Record(r) ==
  /\ pc[r] = "record"
  /\ spent' = [requests |-> spent.requests + 1, cost |-> spent.cost + Cost(r)]
  /\ Goto(r, "settle")
  /\ UNCHANGED <<token, claims, cancelled, sent, usage, ledger, res, today, faults>>

\* The database refuses: the error leaves through the inner finally.
RecordFails(r) ==
  /\ Fault /\ pc[r] = "record"
  /\ Goto(r, "settle")
  /\ UNCHANGED <<token, claims, cancelled, sent, bookVars, today>>

\* settle_budget: a reservation that expired meanwhile is left alone.
Settle(r) ==
  LET d == res[r].day
      l == ledger[d]
  IN
  /\ pc[r] = "settle" /\ Goto(r, "over")
  /\ IF res[r].status = "reserved"
     THEN /\ ledger' = [ledger EXCEPT ![d] =
                          [l EXCEPT !.reserved = Less(@, Estimate), !.settled = @ + Cost(r)]]
          /\ res' = [res EXCEPT ![r].status = "settled"]
     ELSE UNCHANGED <<ledger, res>>
  /\ UNCHANGED <<token, claims, cancelled, sent, usage, spent, today, faults>>

\* The database refuses: the reservation stays until its TTL.
SettleFails(r) ==
  /\ Fault /\ pc[r] = "settle" /\ Goto(r, "over")
  /\ UNCHANGED <<token, claims, cancelled, sent, bookVars, today>>

-----------------------------------------------------------------------------
(* The clock, the retention loop, the user and the operator.               *)

\* A purge that finds the reservations of lapsed past their TTL, on whatever day.
Purged(lapsed) ==
  /\ ledger' = [d \in Days |-> IF ledger[d] = None THEN None
                               ELSE Without(ledger[d], lapsed \cap Open(d))]
  /\ res' = Expire(lapsed)

\* purge_expired_budget_reservations, from the retention loop.
Purge(lapsed) ==
  /\ lapsed # {} /\ Purged(lapsed)
  /\ UNCHANGED <<callVars, usage, spent, today, faults>>

NextDay ==
  /\ today < MaxDay
  /\ today' = today + 1
  /\ usage' = [i \in Installs |-> None]
  /\ spent' = [requests |-> 0, cost |-> 0]
  /\ UNCHANGED <<callVars, ledger, res, faults>>

\* The service restarts: the database stays, lifespan purges first.
Restart(lapsed) ==
  /\ Fault
  /\ pc' = [r \in Requests |-> IF pc[r] = "idle" THEN "idle" ELSE "over"]
  /\ claims' = [id \in Ids |-> None] /\ cancelled' = {} /\ token' = [r \in Requests |-> r]
  /\ Purged(lapsed)
  /\ UNCHANGED <<sent, usage, spent, today>>

-----------------------------------------------------------------------------
Work(r) ==
  \/ Start(r) \/ StartRefused(r)
  \/ \E n \in ChunkSizes : Chunk(r, n) \/ ChunkRefused(r, n)
  \/ Stop(r) \/ Close(r) \/ Record(r) \/ RecordFails(r)
  \/ Settle(r) \/ SettleFails(r)

Next ==
  \/ \E r \in Requests : \/ Claim(r) \/ ClaimRefused(r) \/ ReserveRefused(r) \/ Abandon(r) \/ Work(r)
                         \/ \E lapsed \in SUBSET Open(today) : Reserve(r, lapsed)
  \/ \E i \in Installs, id \in Ids : Cancel(i, id)
  \/ \E lapsed \in SUBSET UNION {Open(d) : d \in Days} : Purge(lapsed) \/ Restart(lapsed)
  \/ NextDay

Spec == Init /\ [][Next]_vars

-----------------------------------------------------------------------------
\* A call is under way, and its token does not stop it.
Runs(r) == pc[r] \in {"reserve", "open", "stream"} /\ token[r] \notin cancelled
Running == {r \in Requests : Runs(r)}

\* The concurrency gates hold for the calls that are really under way.
CapacityHolds ==
  /\ Cardinality(Running) <= MaxGlobal
  /\ \A i \in Installs : Cardinality({r \in Running : InstallOf[r] = i}) <= MaxPerInstall

\* The concurrency gates hold for ids, although release takes whatever claim has the
\* id of its call and stream runs with it: a call that goes on does so under the claim
\* that stands under its id, where a cancel finds it and the gates count it.
EachIdIsCounted ==
  LET ids(calls) == {IdOf[r] : r \in calls} IN
  /\ \A r \in Running : claims[IdOf[r]] = token[r]
  /\ Cardinality(ids(Running)) <= MaxGlobal
  /\ \A i \in Installs :
        Cardinality(ids({r \in Running : InstallOf[token[r]] = i})) <= MaxPerInstall

\* The books hold.  The ledger of a day reserves exactly the estimates of its
\* open reservations, and has settled no less than what its settled calls cost,
\* whichever of settle, expiry at an admission, the retention loop and a restart
\* came first.  What today's ledger has settled and reserved stays within the
\* budget, and it admits no more than the daily limit, also when it is created late.
BooksHold ==
  /\ \A d \in Days : LET of(s) == {r \in Requests : res[r].day = d /\ res[r].status = s} IN
       IF ledger[d] = None THEN of("reserved") = {}
       ELSE /\ ledger[d].reserved = Estimate * Cardinality(of("reserved"))
            /\ ledger[d].settled >= MapThenSumSet(Cost, of("settled"))
  /\ ledger[today] # None =>
       /\ ledger[today].settled + ledger[today].reserved <= Budget
       /\ ledger[today].admitted <= Admissions
=============================================================================
