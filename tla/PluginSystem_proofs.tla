------------------------- MODULE PluginSystem_proofs -------------------------
(***************************************************************************)
(* Proofs about the three parts of PluginSystem, for every value of their  *)
(* constants.  The gate (Capabilities): a plugin is instantiated once, a   *)
(* record follows the policy its generation began with, and nothing writes *)
(* beside a repair or a restore.  The semantic detector (SemanticModel):   *)
(* one thread loads the model and one encodes the scenes, nobody reads the *)
(* files of a model that is being replaced, and a scene comes from the     *)
(* installed model.  A call of a provider (ProviderStreams): the events    *)
(* are in order, whatever the server sends and whenever the user cancels,  *)
(* and the text is that of one attempt.                                    *)
(***************************************************************************)
EXTENDS PluginSystem, Sequences, SequenceTheorems, TLAPS

Working(w) == job[w].at \in {"calling", "saving"}

\* An owner is the worker whose call set the maintenance flag.
Owner(w) == job[w].at = "calling" /\ Maintains(job[w].call.operation)

\* What the proofs need of the types: the jobs are a function, and what the manager
\* counts is a function of the plugins.
JobTypes == job = [w \in Workers |-> job[w]]

ManagerTypes ==
    /\ cached \in [Plugins -> {0, 1}] /\ plugins \in [Plugins -> {0, 1}]
    /\ made = cached
    /\ \A p \in Plugins : cached[p] # 0 => found[p] = 1

\* No plugin is made twice: the first instance stays in the cache for good, and what
\* the registry or a worker holds is that one.
FirstInstance ==
    /\ ManagerTypes
    /\ \A w \in Workers : Working(w) => job[w].instance = 1

\* What a worker saves is what its generation began with.
SavesAsBegun ==
    \A w \in Workers : job[w].at = "saving" =>
        /\ job[w].state = "writable"
        /\ job[w].given = job[w].policy
        /\ job[w].output = job[w].policy.redaction

\* There is one owner at most, and while there is one the gate is closed to writers,
\* and to readers as well if it restores.
OwnersGate ==
    /\ \A w \in Workers : job[w].at = "calling" =>
          (job[w].owns <=> Maintains(job[w].call.operation))
    /\ \A w \in Workers : Owner(w) =>
          /\ job[w].call.plugin = History
          /\ maintenance
          /\ job[w].call.operation = "restore" => readsBlocked
    /\ \A w, v \in Workers : Owner(w) /\ Owner(v) => w = v

CapabilitiesInv ==
    JobTypes /\ FirstInstance /\ SavesAsBegun /\ RecordUnderOnePolicy /\ OwnersGate

----------------------------------------------------------------------------
\* A worker that takes up a job leaves the others with theirs.
LEMMA DoesOne ==
    ASSUME JobTypes, NEW w \in Workers, NEW what, Does(w, what)
    PROVE  /\ JobTypes'
           /\ job'[w] = what
           /\ \A v \in Workers : v # w => job'[v] = job[v]
    BY DEF JobTypes, Does

\* Only a call of the history maintains, and it then is a repair or a restore.
LEMMA MaintenanceIsOfHistory ==
    ASSUME NEW c \in Calls, Maintains(c.operation)
    PROVE  /\ c.plugin = History
           /\ Mutates(c.operation)
    BY DEF Calls, Maintains, Mutates

----------------------------------------------------------------------------
\* One instance.

\* Whatever is discovered, a plugin that was made stays in the cache, and one that two
\* candidates claim never was made.
LEMMA DiscoveryKeepsFirst ==
    ASSUME ManagerTypes, NEW want, NEW loads, Discovers(want, loads), found' = found
    PROVE  ManagerTypes'
<1> DEFINE usable == {p \in Plugins : Usable(p, want, loads)}
<1>1. \A p \in Plugins :
         /\ cached'[p] = Kept(p, usable) /\ plugins'[p] = Instance(p, usable)
         /\ made'[p] = IF p \in usable /\ cached[p] = 0 THEN made[p] + 1 ELSE made[p]
    BY DEF Discovers
<1>2. ASSUME NEW p \in Plugins
      PROVE  /\ cached'[p] \in {0, 1} /\ plugins'[p] \in {0, 1} /\ made'[p] = cached'[p]
             /\ cached'[p] # 0 => found'[p] = 1
    <2>1. p \in usable => found[p] = 1
        BY DEF Usable
    <2>2. made[p] = cached[p] /\ cached[p] \in {0, 1} /\ (cached[p] # 0 => found[p] = 1)
        BY DEF ManagerTypes
    <2> QED
        BY <1>1, <2>1, <2>2 DEF Kept, Instance
<1>3. /\ cached' = [p \in Plugins |-> cached'[p]]
      /\ plugins' = [p \in Plugins |-> plugins'[p]]
      /\ made' = [p \in Plugins |-> made'[p]]
    BY DEF Discovers
<1> QED
    BY <1>2, <1>3 DEF ManagerTypes

\* Every job that is taken up works on the first instance.
LEMMA FirstInstanceKept ==
    ASSUME JobTypes, FirstInstance, Next
    PROVE  JobTypes' /\ FirstInstance'
<1>1. ASSUME NEW p \in Optional, NEW on \in BOOLEAN, ConfigurePlugin(p, on)
      PROVE  JobTypes' /\ FirstInstance'
    <2>1. job' = job /\ found' = found
        BY <1>1 DEF ConfigurePlugin, Configures
    <2>2. PICK loads \in SUBSET Plugins :
             Discovers(IF on THEN wanted \cup {p} ELSE wanted \ {p}, loads)
        BY <1>1 DEF ConfigurePlugin
    <2>3. ManagerTypes'
        BY <2>1, <2>2, DiscoveryKeepsFirst DEF FirstInstance
    <2> QED
        BY <2>1, <2>3 DEF JobTypes, FirstInstance, Working
<1>2. ASSUME NEW some \in BOOLEAN, ConfigureHistoryKeys(some)
      PROVE  JobTypes' /\ FirstInstance'
    BY <1>2 DEF ConfigureHistoryKeys, Configures, JobTypes, FirstInstance, ManagerTypes,
                Working, registered
<1>3. ASSUME NEW new \in Policies, ConfigureHistoryPolicy(new)
      PROVE  JobTypes' /\ FirstInstance'
    BY <1>3 DEF ConfigureHistoryPolicy, Configures, JobTypes, FirstInstance, ManagerTypes,
                Working, registered
<1>4. ASSUME NEW w \in Workers, NEW what, Does(w, what),
             UNCHANGED <<managed, registered>>,
             what.at \in {"calling", "saving"} => what.instance = 1
      PROVE  JobTypes' /\ FirstInstance'
    <2>1. ManagerTypes'
        BY <1>4 DEF FirstInstance, ManagerTypes, managed, registered
    <2> QED
        BY <1>4, <2>1, DoesOne DEF FirstInstance, Working
<1>5. ASSUME NEW w \in Workers,
             StartOptimize(w) \/ Saved(w) \/ OptimizeEnds(w) \/ Returns(w)
      PROVE  JobTypes' /\ FirstInstance'
    <2>1. PICK what : Does(w, what) /\ what.at \notin {"calling", "saving"}
        BY <1>5 DEF StartOptimize, Saved, OptimizeEnds, Returns, Idle
    <2>2. UNCHANGED <<managed, registered>>
        BY <1>5 DEF StartOptimize, Saved, OptimizeEnds, Returns
    <2> QED
        BY <1>4, <2>1, <2>2
<1>6. ASSUME NEW w \in Workers, Done(w)
      PROVE  JobTypes' /\ FirstInstance'
    <2>1. History \in Plugins
        BY DEF Plugins
    <2>2. plugins[History] # 0 => plugins[History] = 1
        BY <2>1 DEF FirstInstance, ManagerTypes
    <2>3. CASE job[w].state = "writable" /\ AdmitsSave(job[w].policy)
        <3> DEFINE what == [at |-> "saving", policy |-> job[w].policy, state |-> job[w].state,
                            instance |-> plugins[History], given |-> job[w].policy,
                            output |-> OutputRedaction(w)]
        <3>1. Does(w, what) /\ UNCHANGED <<managed, registered>>
            BY <1>6, <2>3 DEF Done
        <3>2. what.instance = 1
            BY <2>2, <2>3 DEF AdmitsSave
        <3> HIDE DEF what
        <3> QED
            BY <1>4, <3>1, <3>2
    <2>4. CASE ~(job[w].state = "writable" /\ AdmitsSave(job[w].policy))
        <3>1. Does(w, Idle) /\ UNCHANGED <<managed, registered>>
            BY <1>6, <2>4 DEF Done
        <3>2. Idle.at \notin {"calling", "saving"}
            BY DEF Idle
        <3> QED
            BY <1>4, <3>1, <3>2
    <2> QED
        BY <2>3, <2>4
<1>7. ASSUME NEW w \in Workers, NEW c \in Calls, Invoke(w, c)
      PROVE  JobTypes' /\ FirstInstance'
    <2> DEFINE what == [at |-> "calling", call |-> c, instance |-> plugins[c.plugin],
                        owns |-> Maintains(c.operation)]
    <2>1. Does(w, what) /\ UNCHANGED <<managed, registered>>
        BY <1>7 DEF Invoke
    <2>2. c.plugin \in Plugins
        BY DEF Calls, Plugins
    <2>3. what.instance = 1
        BY <1>7, <2>2 DEF Invoke, Admits, FirstInstance, ManagerTypes
    <2> HIDE DEF what
    <2> QED
        BY <1>4, <2>1, <2>3
<1> QED
    BY <1>1, <1>2, <1>3, <1>5, <1>6, <1>7 DEF Next

----------------------------------------------------------------------------
\* One policy.

LEMMA SavesAsBegunKept ==
    ASSUME JobTypes, SavesAsBegun, RecordUnderOnePolicy, Next
    PROVE  SavesAsBegun' /\ RecordUnderOnePolicy'
<1>1. CASE UNCHANGED <<job, records>>
    BY <1>1 DEF SavesAsBegun, RecordUnderOnePolicy
<1>2. ASSUME NEW w \in Workers, NEW what, Does(w, what), records' = records,
             what.at # "saving"
      PROVE  SavesAsBegun' /\ RecordUnderOnePolicy'
    BY <1>2, DoesOne DEF SavesAsBegun, RecordUnderOnePolicy
<1>3. ASSUME NEW w \in Workers, StartOptimize(w) \/ OptimizeEnds(w) \/ Returns(w)
      PROVE  SavesAsBegun' /\ RecordUnderOnePolicy'
    <2>1. PICK what : Does(w, what) /\ what.at # "saving"
        BY <1>3 DEF StartOptimize, OptimizeEnds, Returns, Idle
    <2>2. records' = records
        BY <1>3 DEF StartOptimize, OptimizeEnds, Returns
    <2> QED
        BY <1>2, <2>1, <2>2
<1>4. ASSUME NEW w \in Workers, Done(w)
      PROVE  SavesAsBegun' /\ RecordUnderOnePolicy'
    <2>1. records' = records
        BY <1>4 DEF Done
    <2>2. CASE job[w].state = "writable" /\ AdmitsSave(job[w].policy)
        <3> DEFINE what == [at |-> "saving", policy |-> job[w].policy, state |-> job[w].state,
                            instance |-> plugins[History], given |-> job[w].policy,
                            output |-> OutputRedaction(w)]
        <3>1. Does(w, what)
            BY <1>4, <2>2 DEF Done
        <3>2. what.state = "writable" /\ what.given = what.policy
              /\ what.output = what.policy.redaction
            BY <2>2 DEF OutputRedaction
        <3> HIDE DEF what
        <3> QED
            BY <2>1, <3>1, <3>2, DoesOne DEF SavesAsBegun, RecordUnderOnePolicy
    <2>3. CASE ~(job[w].state = "writable" /\ AdmitsSave(job[w].policy))
        <3>1. Does(w, Idle)
            BY <1>4, <2>3 DEF Done
        <3>2. Idle.at # "saving"
            BY DEF Idle
        <3> QED
            BY <1>2, <2>1, <3>1, <3>2
    <2> QED
        BY <2>2, <2>3
<1>5. ASSUME NEW w \in Workers, Saved(w)
      PROVE  SavesAsBegun' /\ RecordUnderOnePolicy'
    <2> DEFINE record == [begun |-> [policy |-> job[w].policy, state |-> job[w].state],
                          given |-> job[w].given, output |-> job[w].output]
    <2>1. /\ job[w].at = "saving"
          /\ records' \subseteq records \cup {record}
          /\ Does(w, Idle)
        BY <1>5 DEF Saved
    <2>2. record.begun.state = "writable" /\ record.given = record.begun.policy
          /\ record.output = record.begun.policy.redaction
        BY <2>1 DEF SavesAsBegun
    <2>3. Idle.at # "saving"
        BY DEF Idle
    <2> HIDE DEF record
    <2>4. RecordUnderOnePolicy'
        BY <2>1, <2>2 DEF RecordUnderOnePolicy
    <2> QED
        BY <2>1, <2>3, <2>4, DoesOne DEF SavesAsBegun
<1>6. ASSUME NEW w \in Workers, NEW c \in Calls, Invoke(w, c)
      PROVE  SavesAsBegun' /\ RecordUnderOnePolicy'
    <2>1. PICK what : Does(w, what) /\ what.at # "saving"
        BY <1>6 DEF Invoke
    <2>2. records' = records
        BY <1>6 DEF Invoke
    <2> QED
        BY <1>2, <2>1, <2>2
<1>7. ASSUME NEW p \in Optional, NEW on \in BOOLEAN, ConfigurePlugin(p, on)
      PROVE  UNCHANGED <<job, records>>
    BY <1>7 DEF ConfigurePlugin, Configures
<1>8. ASSUME NEW some, ConfigureHistoryKeys(some) \/ ConfigureHistoryPolicy(some)
      PROVE  UNCHANGED <<job, records>>
    BY <1>8 DEF ConfigureHistoryKeys, ConfigureHistoryPolicy, Configures
<1> QED
    BY <1>1, <1>3, <1>4, <1>5, <1>6, <1>7, <1>8 DEF Next

----------------------------------------------------------------------------
\* Maintenance.

\* A worker that ends its job, or takes up one that maintains nothing, owns nothing.
LEMMA OwnersGateKept ==
    ASSUME JobTypes, OwnersGate, Next
    PROVE  OwnersGate'
<1>1. CASE UNCHANGED <<job, gateVars>>
    BY <1>1 DEF OwnersGate, Owner, gateVars
<1>2. ASSUME NEW w \in Workers, NEW what, Does(w, what), what.at # "calling",
             UNCHANGED gateVars
      PROVE  OwnersGate'
    BY <1>2, DoesOne DEF OwnersGate, Owner, gateVars
<1>3. ASSUME NEW w \in Workers,
             StartOptimize(w) \/ Done(w) \/ Saved(w) \/ OptimizeEnds(w)
      PROVE  OwnersGate'
    <2>1. PICK what : Does(w, what) /\ what.at # "calling"
        BY <1>3 DEF StartOptimize, Done, Saved, OptimizeEnds, Idle
    <2>2. UNCHANGED gateVars
        BY <1>3 DEF StartOptimize, Done, Saved, OptimizeEnds
    <2> QED
        BY <1>2, <2>1, <2>2
<1>4. ASSUME NEW w \in Workers, Returns(w)
      PROVE  OwnersGate'
    <2>1. Does(w, Idle) /\ Idle.at # "calling" /\ job[w].at = "calling"
        BY <1>4 DEF Returns, Idle
    <2>2. CASE job[w].owns
        <3>1. \A v \in Workers : v # w => ~Owner(v)
            BY <2>1, <2>2 DEF OwnersGate, Owner
        <3>2. \A v \in Workers : ~Owner(v)'
            BY <2>1, <3>1, DoesOne DEF Owner
        <3>3. \A v \in Workers : job'[v].at = "calling" => job'[v] = job[v]
            BY <2>1, DoesOne
        <3> QED
            BY <3>2, <3>3 DEF OwnersGate
    <2>3. CASE ~job[w].owns
        <3>1. UNCHANGED gateVars
            BY <1>4, <2>3 DEF Returns
        <3> QED
            BY <1>2, <2>1, <3>1
    <2> QED
        BY <2>2, <2>3
<1>5. ASSUME NEW w \in Workers, NEW c \in Calls, Invoke(w, c)
      PROVE  OwnersGate'
    <2> DEFINE what == [at |-> "calling", call |-> c, instance |-> plugins[c.plugin],
                        owns |-> Maintains(c.operation)]
    <2>1. Does(w, what) /\ Admits(c)
        BY <1>5 DEF Invoke
    <2>2. what.at = "calling" /\ what.call = c /\ what.owns = Maintains(c.operation)
        OBVIOUS
    <2> HIDE DEF what
    <2>3. CASE Maintains(c.operation)
        <3>1. c.plugin = History /\ ~maintenance
            BY <2>1, <2>3, MaintenanceIsOfHistory DEF Admits, Busy
        <3>2. \A v \in Workers : ~Owner(v)
            BY <3>1 DEF OwnersGate
        <3>3. maintenance' /\ readsBlocked' = (c.operation = "restore")
            BY <1>5, <2>3 DEF Invoke
        <3>4. \A v \in Workers : v # w => ~Owner(v)'
            BY <2>1, <3>2, DoesOne DEF Owner
        <3>5. /\ job'[w] = what
              /\ \A v \in Workers : v # w => job'[v] = job[v]
            BY <2>1, DoesOne
        <3>6. \A v \in Workers : job'[v].at = "calling" =>
                 (job'[v].owns <=> Maintains(job'[v].call.operation))
            <4> SUFFICES ASSUME NEW v \in Workers, job'[v].at = "calling"
                         PROVE  job'[v].owns <=> Maintains(job'[v].call.operation)
                OBVIOUS
            <4>1. CASE v = w
                BY <2>2, <3>5, <4>1, Zenon
            <4>2. CASE v # w
                BY <3>5, <4>2 DEF OwnersGate
            <4> QED
                BY <4>1, <4>2
        <3>7. /\ job'[w].call.plugin = History
              /\ job'[w].call.operation = "restore" => readsBlocked'
            BY <2>2, <3>1, <3>3, <3>5
        <3> QED
            BY <3>3, <3>4, <3>6, <3>7 DEF OwnersGate
    <2>4. CASE ~Maintains(c.operation)
        <3>1. UNCHANGED gateVars
            BY <1>5, <2>4 DEF Invoke
        <3>2. ~Owner(w)'
            BY <2>1, <2>2, <2>4, DoesOne DEF Owner
        <3> QED
            BY <2>1, <2>2, <2>4, <3>1, <3>2, DoesOne DEF OwnersGate, Owner, gateVars
    <2> QED
        BY <2>3, <2>4
<1>6. ASSUME NEW p \in Optional, NEW on \in BOOLEAN, ConfigurePlugin(p, on)
      PROVE  UNCHANGED <<job, gateVars>>
    BY <1>6 DEF ConfigurePlugin, Configures
<1>7. ASSUME NEW some, ConfigureHistoryKeys(some) \/ ConfigureHistoryPolicy(some)
      PROVE  UNCHANGED <<job, gateVars>>
    BY <1>7 DEF ConfigureHistoryKeys, ConfigureHistoryPolicy, Configures
<1> QED
    BY <1>1, <1>3, <1>4, <1>5, <1>6, <1>7 DEF Next

\* The gate lets no writer, and past a restore nobody, in beside an owner.
LEMMA GateHolds ==
    ASSUME JobTypes, OwnersGate, Next, NEW w \in Workers, NEW v \in Workers, w # v, Owner(v)
    PROVE  /\ ~BeginsSave(w)
           /\ Begins(w) /\ job'[w].call.plugin = History =>
                 ~Mutates(job'[w].call.operation) /\ job[v].call.operation # "restore"
<1>1. maintenance /\ (job[v].call.operation = "restore" => readsBlocked)
    BY DEF OwnersGate
<1>2. CASE job'[w] = job[w]
    BY <1>2 DEF BeginsSave, Begins
<1>3. CASE Done(w)
    <2>1. ~AdmitsSave(job[w].policy)
        BY <1>1 DEF AdmitsSave, Busy, Mutates
    <2>2. job'[w] = Idle
        BY <1>3, <2>1, DoesOne DEF Done
    <2> QED
        BY <2>2 DEF BeginsSave, Begins, Idle
<1>4. CASE StartOptimize(w) \/ Saved(w) \/ OptimizeEnds(w) \/ Returns(w)
    <2>1. PICK what : Does(w, what) /\ what.at \notin {"saving", "calling"}
        BY <1>4 DEF StartOptimize, Saved, OptimizeEnds, Returns, Idle
    <2> QED
        BY <2>1, DoesOne DEF BeginsSave, Begins
<1>5. ASSUME NEW c \in Calls, Invoke(w, c)
      PROVE  /\ ~BeginsSave(w)
             /\ Begins(w) /\ job'[w].call.plugin = History =>
                   ~Mutates(job'[w].call.operation) /\ job[v].call.operation # "restore"
    <2>1. job'[w].at = "calling" /\ job'[w].call = c
        BY <1>5, DoesOne DEF Invoke
    <2>2. c.plugin = History => ~Busy(c.operation)
        BY <1>5 DEF Invoke, Admits
    <2> QED
        BY <1>1, <2>1, <2>2 DEF Busy, BeginsSave, Begins
<1>6. ASSUME NEW u \in Workers, u # w, NEW what, Does(u, what)
      PROVE  job'[w] = job[w]
    BY <1>6, DoesOne
<1>7. ASSUME NEW u \in Workers, u # w,
             StartOptimize(u) \/ Done(u) \/ Saved(u) \/ OptimizeEnds(u) \/ Returns(u)
      PROVE  job'[w] = job[w]
    <2>1. PICK what : Does(u, what)
        BY <1>7 DEF StartOptimize, Done, Saved, OptimizeEnds, Returns
    <2> QED
        BY <1>6, <1>7, <2>1
<1>8. ASSUME NEW u \in Workers, u # w, NEW c \in Calls, Invoke(u, c)
      PROVE  job'[w] = job[w]
    BY <1>6, <1>8 DEF Invoke
<1>9. ASSUME NEW p \in Optional, NEW on \in BOOLEAN, ConfigurePlugin(p, on)
      PROVE  job' = job
    BY <1>9 DEF ConfigurePlugin, Configures
<1>10. ASSUME NEW some, ConfigureHistoryKeys(some) \/ ConfigureHistoryPolicy(some)
       PROVE  job' = job
    BY <1>10 DEF ConfigureHistoryKeys, ConfigureHistoryPolicy, Configures
<1> QED
    BY <1>2, <1>3, <1>4, <1>5, <1>7, <1>8, <1>9, <1>10 DEF Next

----------------------------------------------------------------------------
\* The inductive invariant: one instance, one policy, one owner.
THEOREM CapabilitiesInvariant == Spec => []CapabilitiesInv
<1>1. Init => CapabilitiesInv
    <2> SUFFICES ASSUME Init PROVE CapabilitiesInv
        OBVIOUS
    <2>1. JobTypes /\ \A w \in Workers : job[w] = Idle
        BY DEF Init, JobTypes
    <2>2. ManagerTypes
        BY DEF Init, ManagerTypes, Plugins
    <2> QED
        BY <2>1, <2>2 DEF CapabilitiesInv, FirstInstance, SavesAsBegun, RecordUnderOnePolicy,
                          OwnersGate, Owner, Working, Idle, Init
<1>2. CapabilitiesInv /\ [Next]_vars => CapabilitiesInv'
    <2>1. CASE Next
        BY <2>1, FirstInstanceKept, SavesAsBegunKept, OwnersGateKept DEF CapabilitiesInv
    <2>2. CASE UNCHANGED vars
        BY <2>2 DEF vars, managed, registered, gateVars, CapabilitiesInv, JobTypes, FirstInstance,
                    ManagerTypes, Working, SavesAsBegun, RecordUnderOnePolicy, OwnersGate, Owner
    <2> QED
        BY <2>1, <2>2
<1> QED
    BY <1>1, <1>2, PTL DEF Spec

\* All work on a plugin is done by the first instance that was made of it, however often
\* plugins are discovered, switched and fail to load in between.
THEOREM PluginsHaveOneInstance == Spec => []OneInstance
<1>1. CapabilitiesInv => OneInstance
    BY DEF CapabilitiesInv, FirstInstance, Working, OneInstance
<1> QED
    BY <1>1, CapabilitiesInvariant, PTL

\* A saved record follows the policy of the moment its generation began, whatever is
\* configured while the model writes.
THEOREM RecordsFollowTheirPolicy == Spec => []RecordUnderOnePolicy
<1>1. CapabilitiesInv => RecordUnderOnePolicy
    BY DEF CapabilitiesInv
<1> QED
    BY <1>1, CapabilitiesInvariant, PTL

\* While a repair or a restore runs no writer of the history begins, and while a restore
\* runs no reader does, in whatever order plugins are discovered meanwhile.
THEOREM MaintenanceIsAlone == Spec => NothingWritesBesideMaintenance
<1> DEFINE Alone ==
      \A w, v \in Workers :
          w # v /\ job[v].at = "calling" /\ Maintains(job[v].call.operation) =>
             /\ ~BeginsSave(w)
             /\ Begins(w) /\ job'[w].call.plugin = History =>
                   ~Mutates(job'[w].call.operation) /\ job[v].call.operation # "restore"
<1>1. CapabilitiesInv /\ [Next]_vars => [Alone]_vars
    <2> SUFFICES ASSUME CapabilitiesInv, Next PROVE Alone
        BY DEF vars
    <2> QED
        BY GateHolds DEF CapabilitiesInv, Owner
<1> QED
    BY <1>1, CapabilitiesInvariant, PTL DEF Spec, NothingWritesBesideMaintenance

----------------------------------------------------------------------------
(* The semantic detector. *)

Ver == Snapshots \cup {NoModel}
Caches == [model: Ver, vectors: Ver, generation: Nat,
           modelLoading: BOOLEAN, vectorsLoading: BOOLEAN]
Locals == [model: Ver, vectors: Ver, generation: Nat]

\* What the proofs need of the types: a version is a snapshot or no model.
DetectorTypes ==
    /\ generation \in Nat /\ disk \in Ver /\ installed \subseteq Snapshots /\ crossed \in BOOLEAN
    /\ cache \in Caches
    /\ pc = [d \in Detectors |-> pc[d]]
    /\ local \in [Detectors -> Locals]
    /\ detected = [d \in Detectors |-> detected[d]]
    /\ command = [m \in Managers |-> command[m]]

Loads(d) == pc[d] \in {"load", "reading", "store"}
Encodes(d) == pc[d] = "encode"

\* A flag of the cache is up exactly while a thread is at that work, and one thread is.
SingleFlight ==
    /\ cache.modelLoading <=> \E d \in Detectors : Loads(d)
    /\ cache.vectorsLoading <=> \E d \in Detectors : Encodes(d)
    /\ \A d, e \in Detectors : Loads(d) /\ Loads(e) => d = e
    /\ \A d, e \in Detectors : Encodes(d) /\ Encodes(e) => d = e

\* Who reads the files or changes them holds the lock of the lifecycle.
LifecycleLock ==
    /\ \A d \in Detectors : pc[d] = "reading" => lock = {d}
    /\ \A m \in Managers : command[m] # "idle" => lock = {m}

\* No cache and no detection is ahead of the generation.
Behind ==
    /\ cache.generation <= generation
    /\ \A d \in Detectors : local[d].generation <= generation
    /\ \A d \in Detectors : pc[d] = "idle" => local[d].model = NoModel

\* What can be found while nobody is left from before the generation: a snapshot of this
\* generation or none, on the disk, and in a cache of it, with vectors by the same model.
Here == installed \cup {NoModel}
CacheIsCurrent ==
    /\ disk \in Here
    /\ cache.generation = generation => /\ cache.model \in Here
                                       /\ cache.vectors \in {cache.model, NoModel}

\* A detection has such a model, and from its claim on the cache is of this generation; who
\* loads found no model there, and what it loads is that of everybody who goes on.
DetectionIsCurrent(d) ==
    /\ local[d].model \in Here
    /\ pc[d] = "claim" \/ Loads(d) => local[d].generation = generation
    /\ pc[d] \notin {"idle", "start", "generation", "claim"} => cache.generation = generation
    /\ Loads(d) => cache.model = NoModel
    /\ pc[d] \in {"vectors", "encode", "awaitVectors", "compare"} =>
          local[d].model = cache.model /\ cache.model # NoModel
    /\ pc[d] = "compare" => local[d].vectors = local[d].model

EpochIsCurrent == ~crossed => CacheIsCurrent /\ \A d \in Detectors : DetectionIsCurrent(d)

DetectorInv == DetectorTypes /\ SingleFlight /\ LifecycleLock /\ Behind /\ EpochIsCurrent

\* One thread loads and one encodes, however many find the cache empty at once.
WorkIsDoneOnce ==
    \A d, e \in Detectors :
        (Loads(d) /\ Loads(e)) \/ (Encodes(d) /\ Encodes(e)) => d = e

\* Who waits for a load or for vectors has a thread to wait for, or is free to go on.
NobodyWaitsInVain ==
    \A d \in Detectors :
        /\ pc[d] = "awaitModel" => ~cache.modelLoading \/ \E e \in Detectors : e # d /\ Loads(e)
        /\ pc[d] = "awaitVectors" => ~cache.vectorsLoading \/ \E e \in Detectors : e # d /\ Encodes(e)

\* Nobody reads the files of a model while a command replaces or deletes them, and no
\* two commands work on them.
FilesAreLeftAlone ==
    /\ \A d \in Detectors, m \in Managers : ~(pc[d] = "reading" /\ command[m] # "idle")
    /\ \A m, n \in Managers : command[m] # "idle" /\ command[n] # "idle" => m = n

\* A step of one detection leaves the others, and the management of the model, alone.
LEMMA OwnStep ==
    ASSUME DetectorTypes, NEW d \in Detectors, Detector!Begins(d) \/ Detector!DetectorStep(d)
    PROVE  /\ UNCHANGED <<library, generation, disk, installed, crossed, command, left>>
           /\ \A e \in Detectors : e # d => /\ pc'[e] = pc[e] /\ local'[e] = local[e]
                                            /\ detected'[e] = detected[e]
    BY DEF DetectorTypes, Detector!Begins, Detector!DetectorStep, Detector!Looks,
           Detector!ReadsGeneration, Detector!Claims, Detector!LacksLibrary,
           Detector!EntersLifecycle, Detector!ReadsFiles, Detector!StoresModel,
           Detector!WakesToModel, Detector!TakesVectors, Detector!StoresVectors,
           Detector!WakesToVectors, Detector!Answers, Detector!Goto, Detector!Returns,
           Detector!Continues, Detector!files, Detector!manageVars

\* A step of a command leaves the detections and their cache alone.
LEMMA ManagerLeaves ==
    ASSUME NEW m \in Managers, Detector!ManagerStep(m)
    PROVE  UNCHANGED <<cache, pc, local, detected, calls>>
    BY DEF Detector!ManagerStep, Detector!DownloadBegins, Detector!DownloadsFile,
           Detector!DownloadStops, Detector!DownloadCompletes,
           Detector!ResultTaken, Detector!DeleteBegins, Detector!DeleteCompletes,
           Detector!DeleteFails, Detector!detectVars

\* One detection moves.
LEMMA GotoOne ==
    ASSUME DetectorTypes, NEW d \in Detectors, NEW where, Detector!Goto(d, where)
    PROVE  /\ pc' = [e \in Detectors |-> pc'[e]] /\ pc'[d] = where
    BY DEF DetectorTypes, Detector!Goto

\* A detection that returns has its result and none of its local variables.
LEMMA ReturnsOne ==
    ASSUME DetectorTypes, NEW d \in Detectors, NEW what, Detector!Returns(d, what)
    PROVE  /\ pc' = [e \in Detectors |-> pc'[e]] /\ pc'[d] = "idle"
           /\ detected' = [e \in Detectors |-> detected'[e]] /\ detected'[d] = what
           /\ local' \in [Detectors -> Locals]
           /\ local'[d].model = NoModel /\ local'[d].generation = 0
    BY DEF DetectorTypes, Detector!Goto, Detector!Returns, Ver, Locals

\* The model is set beside the other local variables.
LEMMA LocalModel ==
    ASSUME DetectorTypes, NEW d \in Detectors, NEW model \in Ver,
           local' = [local EXCEPT ![d].model = model]
    PROVE  /\ local' \in [Detectors -> Locals]
           /\ local'[d].model = model /\ local'[d].generation = local[d].generation
    BY DEF DetectorTypes, Locals

\* The vectors are set beside the other local variables.
LEMMA LocalVectors ==
    ASSUME DetectorTypes, NEW d \in Detectors, NEW vectors \in Ver,
           local' = [local EXCEPT ![d].vectors = vectors]
    PROVE  /\ local' \in [Detectors -> Locals]
           /\ local'[d].model = local[d].model /\ local'[d].generation = local[d].generation
           /\ local'[d].vectors = vectors
    BY DEF DetectorTypes, Locals

\* With a model a detection goes on to the vectors; without one it is over.
LEMMA ContinuesOne ==
    ASSUME DetectorTypes, NEW d \in Detectors, NEW model \in Ver, Detector!Continues(d, model)
    PROVE  /\ pc' = [e \in Detectors |-> pc'[e]]
           /\ detected' = [e \in Detectors |-> detected'[e]]
           /\ local' \in [Detectors -> Locals]
           /\ local'[d].model = model
           /\ model = NoModel => pc'[d] = "idle" /\ detected'[d] = NoResult /\ local'[d].generation = 0
           /\ model # NoModel => /\ pc'[d] = "vectors" /\ detected'[d] = detected[d]
                                 /\ local'[d].generation = local[d].generation
<1>1. CASE model = NoModel
    BY <1>1, ReturnsOne DEF Detector!Continues
<1>2. CASE model # NoModel
    <2>1. Detector!Goto(d, "vectors") /\ local' = [local EXCEPT ![d].model = model]
          /\ detected' = detected
        BY <1>2 DEF Detector!Continues
    <2> QED BY <1>2, <2>1, GotoOne, LocalModel DEF DetectorTypes
<1> QED BY <1>1, <1>2

\* A cache of another generation is emptied, and the flags of what is under way stay.
LEMMA FreshCache ==
    ASSUME DetectorTypes, NEW seen \in Nat
    PROVE  /\ Detector!Fresh(seen) \in Caches
           /\ Detector!Fresh(seen).generation = seen
           /\ Detector!Fresh(seen).modelLoading = cache.modelLoading
           /\ Detector!Fresh(seen).vectorsLoading = cache.vectorsLoading
           /\ cache.generation = seen => Detector!Fresh(seen) = cache
           /\ cache.generation # seen => /\ Detector!Fresh(seen).model = NoModel
                                         /\ Detector!Fresh(seen).vectors = NoModel
    BY DEF DetectorTypes, Caches, Ver, Detector!Fresh

\* What each step of a detection does, and that it keeps the types: the generation is
\* read where the lock is free, or the detection is over.
LEMMA ReadsGenerationDoes ==
    ASSUME DetectorTypes, NEW d \in Detectors, Detector!ReadsGeneration(d)
    PROVE  /\ DetectorTypes' /\ cache' = cache /\ pc[d] = "generation" /\ lock' = lock
           /\ local'[d].model \in {local[d].model, NoModel}
           /\ local'[d].generation \in {generation, 0}
           /\ detected'[d] \in {detected[d], NoResult}
           /\ \/ pc'[d] = "idle" /\ local'[d].model = NoModel
              \/ pc'[d] = "claim" /\ local'[d].model = local[d].model /\ local'[d].generation = generation
<1>1. UNCHANGED <<library, generation, disk, installed, crossed, command, left, cache, lock>>
      /\ pc[d] = "generation"
    BY OwnStep DEF Detector!ReadsGeneration, Detector!DetectorStep
<1>2. CASE Detector!Free
    <2>1. Detector!Goto(d, "claim") /\ local' = [local EXCEPT ![d].generation = generation]
          /\ detected' = detected
        BY <1>2 DEF Detector!ReadsGeneration
    <2>2. local' \in [Detectors -> Locals] /\ local'[d].model = local[d].model
          /\ local'[d].generation = generation
        BY <2>1 DEF DetectorTypes, Locals
    <2>3. pc' = [e \in Detectors |-> pc'[e]] /\ pc'[d] = "claim"
        BY <2>1, GotoOne
    <2> QED BY <1>1, <2>1, <2>2, <2>3 DEF DetectorTypes
<1>3. CASE ~Detector!Free
    <2>1. Detector!Returns(d, NoResult)
        BY <1>3 DEF Detector!ReadsGeneration
    <2> QED BY <1>1, <2>1, ReturnsOne DEF DetectorTypes
<1> QED BY <1>2, <1>3

\* A claim waits for the load under way, takes the model of its own generation, or loads.
LEMMA ClaimsDoes ==
    ASSUME DetectorTypes, NEW d \in Detectors, Detector!Claims(d)
    PROVE  /\ DetectorTypes' /\ pc[d] = "claim" /\ lock' = lock
           /\ detected'[d] = detected[d]
           /\ local'[d].generation = local[d].generation
           /\ \/ /\ cache.modelLoading /\ cache' = cache /\ pc'[d] = "awaitModel"
                 /\ local'[d] = local[d]
              \/ /\ ~cache.modelLoading /\ cache' = Detector!Fresh(local[d].generation)
                 /\ ~cache'.modelLoading /\ cache'.vectorsLoading = cache.vectorsLoading
                 /\ cache'.generation = local[d].generation
                 /\ cache'.model # NoModel /\ pc'[d] = "vectors" /\ local'[d].model = cache'.model
              \/ /\ ~cache.modelLoading /\ cache'.modelLoading /\ pc'[d] = "load"
                 /\ cache'.model = Detector!Fresh(local[d].generation).model
                 /\ cache'.model = NoModel
                 /\ cache'.vectors = Detector!Fresh(local[d].generation).vectors
                 /\ cache'.generation = local[d].generation
                 /\ cache'.vectorsLoading = cache.vectorsLoading
                 /\ local'[d] = local[d]
<1> DEFINE now == Detector!Fresh(local[d].generation)
<1>1. UNCHANGED <<library, generation, disk, installed, crossed, command, left, lock>>
      /\ pc[d] = "claim"
    BY OwnStep DEF Detector!Claims, Detector!DetectorStep
<1>2. /\ now \in Caches /\ now.generation = local[d].generation
      /\ now.vectorsLoading = cache.vectorsLoading /\ now.modelLoading = cache.modelLoading
    <2>1. local[d].generation \in Nat
        BY DEF DetectorTypes, Locals
    <2> QED BY <2>1, FreshCache
<1>3. \/ /\ cache.modelLoading /\ Detector!Goto(d, "awaitModel")
         /\ UNCHANGED <<cache, local, detected>>
      \/ /\ ~cache.modelLoading /\ now.model # NoModel /\ cache' = now
         /\ Detector!Continues(d, now.model)
      \/ /\ ~cache.modelLoading /\ now.model = NoModel
         /\ cache' = [now EXCEPT !.modelLoading = TRUE]
         /\ Detector!Goto(d, "load") /\ UNCHANGED <<local, detected>>
    BY DEF Detector!Claims
<1> HIDE DEF now
<1>4. CASE cache.modelLoading
    BY <1>1, <1>3, <1>4, GotoOne DEF DetectorTypes
<1>5. CASE ~cache.modelLoading /\ now.model # NoModel
    <2>1. cache' = now /\ Detector!Continues(d, now.model) /\ now.model \in Ver
        BY <1>2, <1>3, <1>5 DEF Caches
    <2> QED BY <1>1, <1>2, <1>5, <2>1, ContinuesOne DEF DetectorTypes, now
<1>6. CASE ~cache.modelLoading /\ now.model = NoModel
    <2>1. cache' = [now EXCEPT !.modelLoading = TRUE] /\ Detector!Goto(d, "load")
          /\ UNCHANGED <<local, detected>>
        BY <1>3, <1>6
    <2>2. /\ cache' \in Caches /\ cache'.modelLoading /\ cache'.model = now.model
          /\ cache'.vectors = now.vectors /\ cache'.generation = local[d].generation
          /\ cache'.vectorsLoading = cache.vectorsLoading
        BY <2>1, <1>2, <1>6 DEF Caches
    <2> QED BY <1>1, <1>6, <2>1, <2>2, GotoOne DEF DetectorTypes, now
<1> QED BY <1>4, <1>5, <1>6

\* The first steps change no more than the place of the detection.
LEMMA QuietDoes ==
    ASSUME DetectorTypes, NEW d \in Detectors,
           Detector!Begins(d) \/ Detector!Looks(d)
    PROVE  /\ DetectorTypes' /\ cache' = cache /\ lock' = lock /\ local' = local
           /\ detected'[d] \in {detected[d], NoResult}
           /\ \/ pc[d] = "idle" /\ pc'[d] = "start"
              \/ pc[d] = "start" /\ pc'[d] = "awaitModel" /\ cache.modelLoading
              \/ pc[d] = "start" /\ pc'[d] = "generation"
<1>1. UNCHANGED <<library, generation, disk, installed, crossed, command, left, cache, local, lock>>
    BY OwnStep DEF Detector!Begins, Detector!Looks, Detector!DetectorStep
<1>2. CASE Detector!Begins(d)
    <2>1. pc[d] = "idle" /\ Detector!Goto(d, "start")
          /\ detected' = [detected EXCEPT ![d] = NoResult]
        BY <1>2 DEF Detector!Begins
    <2> QED BY <1>1, <2>1, GotoOne DEF DetectorTypes
<1>3. CASE Detector!Looks(d)
    <2>1. pc[d] = "start" /\ detected' = detected
          /\ Detector!Goto(d, IF cache.modelLoading THEN "awaitModel" ELSE "generation")
        BY <1>3 DEF Detector!Looks
    <2> QED BY <1>1, <2>1, GotoOne DEF DetectorTypes
<1> QED BY <1>2, <1>3

\* Without the library the claim is given back.
LEMMA LacksLibraryDoes ==
    ASSUME DetectorTypes, NEW d \in Detectors, Detector!LacksLibrary(d)
    PROVE  /\ DetectorTypes' /\ lock' = lock /\ pc[d] = "load" /\ pc'[d] = "idle"
           /\ detected'[d] = NoResult /\ local'[d].model = NoModel /\ local'[d].generation = 0
           /\ ~cache'.modelLoading /\ cache'.vectorsLoading = cache.vectorsLoading
           /\ cache'.model = cache.model /\ cache'.vectors = cache.vectors
           /\ cache'.generation = cache.generation
<1>1. UNCHANGED <<library, generation, disk, installed, crossed, command, left, lock>>
      /\ pc[d] = "load"
    BY OwnStep DEF Detector!LacksLibrary, Detector!DetectorStep
<1>2. cache' = [cache EXCEPT !.modelLoading = FALSE] /\ Detector!Returns(d, NoResult)
    BY DEF Detector!LacksLibrary
<1>3. /\ ~cache'.modelLoading /\ cache'.vectorsLoading = cache.vectorsLoading
      /\ cache'.model = cache.model /\ cache'.vectors = cache.vectors
      /\ cache'.generation = cache.generation /\ cache' \in Caches
    BY <1>2 DEF DetectorTypes, Caches
<1> QED BY <1>1, <1>2, <1>3, ReturnsOne DEF DetectorTypes

\* The load has the lifecycle to itself or does without the files.
LEMMA EntersLifecycleDoes ==
    ASSUME DetectorTypes, NEW d \in Detectors, Detector!EntersLifecycle(d)
    PROVE  /\ DetectorTypes' /\ cache' = cache /\ local' = local /\ detected' = detected
           /\ pc[d] = "load"
           /\ \/ pc'[d] = "reading" /\ lock = {} /\ lock' = {d}
              \/ pc'[d] = "store" /\ lock' = lock
<1>1. UNCHANGED <<library, generation, disk, installed, crossed, command, left, cache, local,
    detected>> /\ pc[d] = "load"
    BY OwnStep DEF Detector!EntersLifecycle, Detector!DetectorStep
<1>2. \/ lock = {} /\ lock' = {d} /\ Detector!Goto(d, "reading")
      \/ lock' = lock /\ Detector!Goto(d, "store")
    BY DEF Detector!EntersLifecycle, Detector!Free
<1> QED BY <1>1, <1>2, GotoOne DEF DetectorTypes

\* What is read is what the disk has in the generation of that moment.
LEMMA ReadsFilesDoes ==
    ASSUME DetectorTypes, NEW d \in Detectors, Detector!ReadsFiles(d)
    PROVE  /\ DetectorTypes' /\ cache' = cache /\ detected' = detected
           /\ pc[d] = "reading" /\ pc'[d] = "store" /\ lock' = {}
           /\ \/ local' = local
              \/ local'[d].model = disk /\ local'[d].generation = generation
<1>1. UNCHANGED <<library, generation, disk, installed, crossed, command, left, cache,
    detected>> /\ pc[d] = "reading" /\ lock' = {}
    BY OwnStep DEF Detector!ReadsFiles, Detector!DetectorStep
<1>2. pc' = [e \in Detectors |-> pc'[e]] /\ pc'[d] = "store"
    BY GotoOne DEF Detector!ReadsFiles
<1>3. CASE local' = local
    BY <1>1, <1>2, <1>3 DEF DetectorTypes
<1>4. CASE local' = [local EXCEPT ![d].model = disk, ![d].generation = generation]
    <2>1. local' \in [Detectors -> Locals] /\ local'[d].model = disk
          /\ local'[d].generation = generation
        <3> DEFINE l == [local[d] EXCEPT !.model = disk, !.generation = generation]
        <3>1. l \in Locals /\ l.model = disk /\ l.generation = generation
            BY DEF DetectorTypes, Locals
        <3>2. local' = [local EXCEPT ![d] = l]
            BY <1>4 DEF DetectorTypes, Locals
        <3> HIDE DEF l
        <3> QED BY <3>1, <3>2 DEF DetectorTypes
    <2> QED BY <1>1, <1>2, <2>1 DEF DetectorTypes
<1> QED BY <1>3, <1>4 DEF Detector!ReadsFiles

\* The model is stored with its generation, and the claim given back.
LEMMA StoresModelDoes ==
    ASSUME DetectorTypes, NEW d \in Detectors, Detector!StoresModel(d)
    PROVE  /\ DetectorTypes' /\ lock' = lock /\ pc[d] = "store"
           /\ cache'.model = local[d].model /\ cache'.generation = local[d].generation
           /\ cache'.vectors = cache.vectors /\ cache'.vectorsLoading = cache.vectorsLoading
           /\ ~cache'.modelLoading
           /\ detected'[d] \in {detected[d], NoResult}
           /\ local'[d].model = local[d].model
           /\ local'[d].generation \in {local[d].generation, 0}
           /\ \/ pc'[d] = "idle" /\ local[d].model = NoModel
              \/ pc'[d] = "vectors" /\ local[d].model # NoModel
<1>1. UNCHANGED <<library, generation, disk, installed, crossed, command, left, lock>>
      /\ pc[d] = "store"
    BY OwnStep DEF Detector!StoresModel, Detector!DetectorStep
<1>2. /\ cache' = [cache EXCEPT !.model = local[d].model, !.generation = local[d].generation,
                               !.modelLoading = FALSE]
      /\ Detector!Continues(d, local[d].model)
    BY DEF Detector!StoresModel
<1>3. local[d].model \in Ver /\ local[d].generation \in Nat
    BY DEF DetectorTypes, Locals
<1>4. /\ cache'.model = local[d].model /\ cache'.generation = local[d].generation
      /\ cache'.vectors = cache.vectors /\ cache'.vectorsLoading = cache.vectorsLoading
      /\ ~cache'.modelLoading /\ cache' \in Caches
    <2> DEFINE m == local[d].model
               g == local[d].generation
    <2>1. m \in Ver /\ g \in Nat
          /\ cache' = [cache EXCEPT !.model = m, !.generation = g, !.modelLoading = FALSE]
        BY <1>2, <1>3
    <2> HIDE DEF m, g
    <2>2. /\ cache'.model = m /\ cache'.generation = g
          /\ cache'.vectors = cache.vectors /\ cache'.vectorsLoading = cache.vectorsLoading
          /\ ~cache'.modelLoading /\ cache' \in Caches
        BY <2>1 DEF DetectorTypes, Caches
    <2> QED BY <2>2 DEF m, g
<1>5. /\ pc' = [e \in Detectors |-> pc'[e]]
      /\ detected' = [e \in Detectors |-> detected'[e]]
      /\ local' \in [Detectors -> Locals]
      /\ local'[d].model = local[d].model
      /\ local[d].model = NoModel => pc'[d] = "idle" /\ detected'[d] = NoResult /\ local'[d].generation = 0
      /\ local[d].model # NoModel => /\ pc'[d] = "vectors" /\ detected'[d] = detected[d]
                                     /\ local'[d].generation = local[d].generation
    BY <1>2, <1>3, ContinuesOne
<1> QED BY <1>1, <1>4, <1>5 DEF DetectorTypes

\* Who waited for a load takes what it left in the cache.
LEMMA WakesToModelDoes ==
    ASSUME DetectorTypes, NEW d \in Detectors, Detector!WakesToModel(d)
    PROVE  /\ DetectorTypes' /\ lock' = lock /\ cache' = cache /\ pc[d] = "awaitModel"
           /\ detected'[d] \in {detected[d], NoResult}
           /\ local'[d].model = cache.model
           /\ local'[d].generation \in {local[d].generation, 0}
           /\ \/ pc'[d] = "idle" /\ cache.model = NoModel
              \/ pc'[d] = "vectors" /\ cache.model # NoModel
<1>1. UNCHANGED <<library, generation, disk, installed, crossed, command, left, lock, cache>>
      /\ pc[d] = "awaitModel"
    BY OwnStep DEF Detector!WakesToModel, Detector!DetectorStep
<1>2. Detector!Continues(d, cache.model) /\ cache.model \in Ver
    BY DEF Detector!WakesToModel, DetectorTypes, Caches
<1> QED BY <1>1, <1>2, ContinuesOne DEF DetectorTypes

\* The vectors are taken, waited for, or encoded by this thread alone.
LEMMA TakesVectorsDoes ==
    ASSUME DetectorTypes, NEW d \in Detectors, Detector!TakesVectors(d)
    PROVE  /\ DetectorTypes' /\ lock' = lock /\ pc[d] = "vectors" /\ detected' = detected
           /\ local'[d].model = local[d].model /\ local'[d].generation = local[d].generation
           /\ cache'.model = cache.model /\ cache'.vectors = cache.vectors
           /\ cache'.generation = cache.generation /\ cache'.modelLoading = cache.modelLoading
           /\ \/ /\ cache' = cache /\ cache.vectors # NoModel
                 /\ pc'[d] = "compare" /\ local'[d].vectors = cache.vectors
              \/ cache' = cache /\ pc'[d] = "awaitVectors"
              \/ ~cache.vectorsLoading /\ cache'.vectorsLoading /\ pc'[d] = "encode"
<1>1. UNCHANGED <<library, generation, disk, installed, crossed, command, left, lock,
    detected>> /\ pc[d] = "vectors"
    BY OwnStep DEF Detector!TakesVectors, Detector!DetectorStep
<1>2. CASE /\ cache.vectors # NoModel /\ local' = [local EXCEPT ![d].vectors = cache.vectors]
           /\ Detector!Goto(d, "compare") /\ cache' = cache
    <2>1. cache.vectors \in Ver
        BY DEF DetectorTypes, Caches
    <2>2. /\ local' \in [Detectors -> Locals]
          /\ local'[d].model = local[d].model /\ local'[d].generation = local[d].generation
          /\ local'[d].vectors = cache.vectors
        BY <1>2, <2>1, LocalVectors
    <2>3. pc' = [e \in Detectors |-> pc'[e]] /\ pc'[d] = "compare"
        BY <1>2, GotoOne
    <2> QED BY <1>1, <1>2, <2>2, <2>3 DEF DetectorTypes
<1>3. CASE cache' = cache /\ local' = local /\ Detector!Goto(d, "awaitVectors")
    BY <1>1, <1>3, GotoOne DEF DetectorTypes
<1>4. CASE /\ ~cache.vectorsLoading /\ cache' = [cache EXCEPT !.vectorsLoading = TRUE]
           /\ Detector!Goto(d, "encode") /\ local' = local
    <2>1. /\ cache'.model = cache.model /\ cache'.vectors = cache.vectors /\ cache'.vectorsLoading
          /\ cache'.generation = cache.generation /\ cache'.modelLoading = cache.modelLoading
          /\ cache' \in Caches
        BY <1>4 DEF DetectorTypes, Caches
    <2> QED BY <1>1, <1>4, <2>1, GotoOne DEF DetectorTypes
<1> QED BY <1>2, <1>3, <1>4 DEF Detector!TakesVectors

\* The vectors that are stored are of the model of the detection.
LEMMA StoresVectorsDoes ==
    ASSUME DetectorTypes, NEW d \in Detectors, Detector!StoresVectors(d)
    PROVE  /\ DetectorTypes' /\ lock' = lock /\ pc[d] = "encode"
           /\ detected'[d] \in {detected[d], NoResult}
           /\ local'[d].generation \in {local[d].generation, 0}
           /\ ~cache'.vectorsLoading
           /\ cache'.model = cache.model /\ cache'.vectors \in {local[d].model, NoModel}
           /\ cache'.generation = cache.generation /\ cache'.modelLoading = cache.modelLoading
           /\ \/ pc'[d] = "idle" /\ local'[d].model = NoModel
              \/ /\ pc'[d] = "compare" /\ local'[d].model = local[d].model
                 /\ local'[d].vectors = local[d].model
<1>1. UNCHANGED <<library, generation, disk, installed, crossed, command, left, lock>>
      /\ pc[d] = "encode"
    BY OwnStep DEF Detector!StoresVectors, Detector!DetectorStep
<1>2. PICK vectors \in {local[d].model, NoModel} :
          /\ cache' = [cache EXCEPT !.vectors = vectors, !.vectorsLoading = FALSE]
          /\ vectors = NoModel => Detector!Returns(d, NoResult)
          /\ vectors # NoModel => /\ Detector!Goto(d, "compare")
                                  /\ local' = [local EXCEPT ![d].vectors = vectors]
                                  /\ detected' = detected
    BY DEF Detector!StoresVectors, Detector!Encoded
<1>3. vectors \in Ver
    BY <1>2 DEF DetectorTypes, Locals, Ver
<1>4. /\ cache' \in Caches /\ ~cache'.vectorsLoading
      /\ cache'.model = cache.model /\ cache'.vectors = vectors
      /\ cache'.generation = cache.generation /\ cache'.modelLoading = cache.modelLoading
    BY <1>2, <1>3 DEF DetectorTypes, Caches
<1>5. CASE vectors = NoModel
    BY <1>1, <1>2, <1>4, <1>5, ReturnsOne DEF DetectorTypes
<1>6. CASE vectors # NoModel
    <2>1. /\ local' \in [Detectors -> Locals]
          /\ local'[d].model = local[d].model /\ local'[d].generation = local[d].generation
          /\ local'[d].vectors = vectors
        BY <1>2, <1>3, <1>6, LocalVectors
    <2>2. pc' = [e \in Detectors |-> pc'[e]] /\ pc'[d] = "compare"
        BY <1>2, <1>6, GotoOne
    <2> QED BY <1>1, <1>2, <1>4, <1>6, <2>1, <2>2 DEF DetectorTypes
<1> QED BY <1>5, <1>6

\* Who waited for the vectors takes what the encoding left in the cache.
LEMMA WakesToVectorsDoes ==
    ASSUME DetectorTypes, NEW d \in Detectors, Detector!WakesToVectors(d)
    PROVE  /\ DetectorTypes' /\ lock' = lock /\ cache' = cache /\ pc[d] = "awaitVectors"
           /\ detected'[d] \in {detected[d], NoResult}
           /\ local'[d].generation \in {local[d].generation, 0}
           /\ \/ pc'[d] = "idle" /\ local'[d].model = NoModel
              \/ /\ pc'[d] = "compare" /\ local'[d].model = local[d].model
                 /\ cache.vectors # NoModel /\ local'[d].vectors = cache.vectors
<1>1. UNCHANGED <<library, generation, disk, installed, crossed, command, left, lock, cache>>
      /\ pc[d] = "awaitVectors"
    BY OwnStep DEF Detector!WakesToVectors, Detector!DetectorStep
<1>2. CASE cache.vectors = NoModel
    <2>1. Detector!Returns(d, NoResult)
        BY <1>2 DEF Detector!WakesToVectors
    <2> QED BY <1>1, <2>1, ReturnsOne DEF DetectorTypes
<1>3. CASE cache.vectors # NoModel
    <2>1. /\ Detector!Goto(d, "compare") /\ detected' = detected
          /\ local' = [local EXCEPT ![d].vectors = cache.vectors]
        BY <1>3 DEF Detector!WakesToVectors
    <2>2. cache.vectors \in Ver
        BY DEF DetectorTypes, Caches
    <2>3. /\ local' \in [Detectors -> Locals]
          /\ local'[d].model = local[d].model /\ local'[d].generation = local[d].generation
          /\ local'[d].vectors = cache.vectors
        BY <2>1, <2>2, LocalVectors
    <2>4. pc' = [e \in Detectors |-> pc'[e]] /\ pc'[d] = "compare"
        BY <2>1, GotoOne
    <2> QED BY <1>1, <1>3, <2>1, <2>3, <2>4 DEF DetectorTypes
<1> QED BY <1>2, <1>3

\* A result is of the model and the vectors of the detection.
LEMMA AnswersDoes ==
    ASSUME DetectorTypes, NEW d \in Detectors, Detector!Answers(d)
    PROVE  /\ DetectorTypes' /\ lock' = lock /\ cache' = cache /\ pc[d] = "compare" /\ pc'[d] = "idle"
           /\ local'[d].model = NoModel /\ local'[d].generation = 0
           /\ detected'[d] \in {NoResult, [query |-> local[d].model, scenes |-> local[d].vectors]}
<1>1. UNCHANGED <<library, generation, disk, installed, crossed, command, left, lock, cache>>
      /\ pc[d] = "compare"
    BY OwnStep DEF Detector!Answers, Detector!DetectorStep
<1>2. PICK what \in {NoResult, [query |-> local[d].model, scenes |-> local[d].vectors]} :
          Detector!Returns(d, what)
    BY DEF Detector!Answers, Detector!Scene
<1> QED BY <1>1, <1>2, ReturnsOne DEF DetectorTypes

\* A step of a detection keeps the types.
LEMMA StepTypes ==
    ASSUME DetectorTypes, NEW d \in Detectors, Detector!Begins(d) \/ Detector!DetectorStep(d)
    PROVE  DetectorTypes'
<1>1. CASE Detector!Begins(d) \/ Detector!Looks(d)
    BY <1>1, QuietDoes
<1>2. CASE Detector!ReadsGeneration(d)
    BY <1>2, ReadsGenerationDoes
<1>3. CASE Detector!Claims(d)
    BY <1>3, ClaimsDoes
<1>4. CASE Detector!LacksLibrary(d)
    BY <1>4, LacksLibraryDoes
<1>5. CASE Detector!EntersLifecycle(d)
    BY <1>5, EntersLifecycleDoes
<1>6. CASE Detector!ReadsFiles(d)
    BY <1>6, ReadsFilesDoes
<1>7. CASE Detector!StoresModel(d)
    BY <1>7, StoresModelDoes
<1>8. CASE Detector!WakesToModel(d)
    BY <1>8, WakesToModelDoes
<1>9. CASE Detector!TakesVectors(d)
    BY <1>9, TakesVectorsDoes
<1>10. CASE Detector!StoresVectors(d)
    BY <1>10, StoresVectorsDoes
<1>11. CASE Detector!WakesToVectors(d)
    BY <1>11, WakesToVectorsDoes
<1>12. CASE Detector!Answers(d)
    BY <1>12, AnswersDoes
<1> QED
    BY <1>1, <1>2, <1>3, <1>4, <1>5, <1>6, <1>7, <1>8, <1>9, <1>10, <1>11,
        <1>12 DEF Detector!DetectorStep

\* A step of a detection keeps the flags true to who loads and who encodes.
LEMMA StepFlight ==
    ASSUME DetectorTypes, SingleFlight, NEW d \in Detectors,
        Detector!Begins(d) \/ Detector!DetectorStep(d)
    PROVE  SingleFlight'
<1> USE DEF SingleFlight, Loads, Encodes
<1>0. \A e \in Detectors : e # d => pc'[e] = pc[e]
    BY OwnStep
<1>1. CASE Detector!Begins(d) \/ Detector!Looks(d)
    BY <1>0, <1>1, QuietDoes
<1>2. CASE Detector!ReadsGeneration(d)
    BY <1>0, <1>2, ReadsGenerationDoes
<1>3. CASE Detector!Claims(d)
    BY <1>0, <1>3, ClaimsDoes
<1>4. CASE Detector!LacksLibrary(d)
    BY <1>0, <1>4, LacksLibraryDoes
<1>5. CASE Detector!EntersLifecycle(d)
    BY <1>0, <1>5, EntersLifecycleDoes
<1>6. CASE Detector!ReadsFiles(d)
    BY <1>0, <1>6, ReadsFilesDoes
<1>7. CASE Detector!StoresModel(d)
    BY <1>0, <1>7, StoresModelDoes
<1>8. CASE Detector!WakesToModel(d)
    BY <1>0, <1>8, WakesToModelDoes
<1>9. CASE Detector!TakesVectors(d)
    BY <1>0, <1>9, TakesVectorsDoes
<1>10. CASE Detector!StoresVectors(d)
    BY <1>0, <1>10, StoresVectorsDoes
<1>11. CASE Detector!WakesToVectors(d)
    BY <1>0, <1>11, WakesToVectorsDoes
<1>12. CASE Detector!Answers(d)
    BY <1>0, <1>12, AnswersDoes
<1> QED
    BY <1>1, <1>2, <1>3, <1>4, <1>5, <1>6, <1>7, <1>8, <1>9, <1>10, <1>11,
        <1>12 DEF Detector!DetectorStep

\* A step of a detection takes the lock of the lifecycle only when it is free.
LEMMA StepLock ==
    ASSUME DetectorTypes, LifecycleLock, Detectors \cap Managers = {}, NEW d \in Detectors,
        Detector!Begins(d) \/ Detector!DetectorStep(d)
    PROVE  LifecycleLock'
<1> USE DEF LifecycleLock
<1>0. command' = command /\ \A e \in Detectors : e # d => pc'[e] = pc[e]
    BY OwnStep
<1>1. CASE Detector!Begins(d) \/ Detector!Looks(d)
    BY <1>0, <1>1, QuietDoes
<1>2. CASE Detector!ReadsGeneration(d)
    BY <1>0, <1>2, ReadsGenerationDoes
<1>3. CASE Detector!Claims(d)
    BY <1>0, <1>3, ClaimsDoes
<1>4. CASE Detector!LacksLibrary(d)
    BY <1>0, <1>4, LacksLibraryDoes
<1>5. CASE Detector!EntersLifecycle(d)
    BY <1>0, <1>5, EntersLifecycleDoes
<1>6. CASE Detector!ReadsFiles(d)
    BY <1>0, <1>6, ReadsFilesDoes
<1>7. CASE Detector!StoresModel(d)
    BY <1>0, <1>7, StoresModelDoes
<1>8. CASE Detector!WakesToModel(d)
    BY <1>0, <1>8, WakesToModelDoes
<1>9. CASE Detector!TakesVectors(d)
    BY <1>0, <1>9, TakesVectorsDoes
<1>10. CASE Detector!StoresVectors(d)
    BY <1>0, <1>10, StoresVectorsDoes
<1>11. CASE Detector!WakesToVectors(d)
    BY <1>0, <1>11, WakesToVectorsDoes
<1>12. CASE Detector!Answers(d)
    BY <1>0, <1>12, AnswersDoes
<1> QED
    BY <1>1, <1>2, <1>3, <1>4, <1>5, <1>6, <1>7, <1>8, <1>9, <1>10, <1>11,
        <1>12 DEF Detector!DetectorStep

\* A step of a detection never gets ahead of the generation.
LEMMA StepBehind ==
    ASSUME DetectorTypes, Behind, NEW d \in Detectors,
        Detector!Begins(d) \/ Detector!DetectorStep(d)
    PROVE  Behind'
<1> USE DEF Behind
<1>0. /\ generation' = generation /\ \A e \in Detectors : e # d => pc'[e] = pc[e] /\ local'[e] = local[e]
      /\ generation \in Nat /\ cache.generation \in Nat /\ \A e \in Detectors : local[e].generation \in Nat
    BY OwnStep DEF DetectorTypes, Caches, Locals
<1>1. CASE Detector!Begins(d) \/ Detector!Looks(d)
    BY <1>0, <1>1, QuietDoes
<1>2. CASE Detector!ReadsGeneration(d)
    BY <1>0, <1>2, ReadsGenerationDoes
<1>3. CASE Detector!Claims(d)
    BY <1>0, <1>3, ClaimsDoes
<1>4. CASE Detector!LacksLibrary(d)
    BY <1>0, <1>4, LacksLibraryDoes
<1>5. CASE Detector!EntersLifecycle(d)
    BY <1>0, <1>5, EntersLifecycleDoes
<1>6. CASE Detector!ReadsFiles(d)
    BY <1>0, <1>6, ReadsFilesDoes
<1>7. CASE Detector!StoresModel(d)
    BY <1>0, <1>7, StoresModelDoes
<1>8. CASE Detector!WakesToModel(d)
    BY <1>0, <1>8, WakesToModelDoes
<1>9. CASE Detector!TakesVectors(d)
    BY <1>0, <1>9, TakesVectorsDoes
<1>10. CASE Detector!StoresVectors(d)
    BY <1>0, <1>10, StoresVectorsDoes
<1>11. CASE Detector!WakesToVectors(d)
    BY <1>0, <1>11, WakesToVectorsDoes
<1>12. CASE Detector!Answers(d)
    BY <1>0, <1>12, AnswersDoes
<1> QED
    BY <1>1, <1>2, <1>3, <1>4, <1>5, <1>6, <1>7, <1>8, <1>9, <1>10, <1>11,
        <1>12 DEF Detector!DetectorStep

\* A step of a detection mixes no models while nobody is left from before the generation.
LEMMA StepEpoch ==
    ASSUME DetectorTypes, SingleFlight, Behind, EpochIsCurrent, NEW d \in Detectors,
        Detector!Begins(d) \/ Detector!DetectorStep(d)
    PROVE  EpochIsCurrent'
<1> SUFFICES ASSUME ~crossed
             PROVE  CacheIsCurrent' /\ \A e \in Detectors : DetectionIsCurrent(e)'
    BY OwnStep DEF EpochIsCurrent
<1>0. /\ UNCHANGED <<generation, disk, installed>>
      /\ \A e \in Detectors : e # d => pc'[e] = pc[e] /\ local'[e] = local[e]
      /\ CacheIsCurrent /\ \A e \in Detectors : DetectionIsCurrent(e)
    BY OwnStep DEF EpochIsCurrent
<1> USE DEF CacheIsCurrent, DetectionIsCurrent, Here, Loads
<1>1. CASE Detector!Begins(d) \/ Detector!Looks(d)
    <2>1. pc[d] = "start" /\ cache.modelLoading => cache.generation = generation
        BY <1>0 DEF SingleFlight
    <2> QED BY <1>0, <1>1, <2>1, QuietDoes
<1>2. CASE Detector!ReadsGeneration(d)
    BY <1>0, <1>2, ReadsGenerationDoes
<1>3. CASE Detector!Claims(d)
    <2> DEFINE now == Detector!Fresh(local[d].generation)
    <2>1. pc[d] = "claim" /\ local[d].generation = generation /\ generation \in Nat
        BY <1>0, <1>3, ClaimsDoes DEF DetectorTypes
    <2>2. now.model \in Here /\ now.vectors \in {now.model, NoModel} /\ now.generation = generation
        BY <1>0, <2>1, FreshCache
    <2>3. cache.modelLoading => cache.generation = generation
        BY <1>0 DEF SingleFlight
    <2> HIDE DEF now
    <2>4. \/ /\ cache.modelLoading /\ cache' = cache /\ pc'[d] = "awaitModel" /\ local'[d] = local[d]
          \/ /\ cache'.model = now.model /\ cache'.vectors = now.vectors /\ cache'.generation = generation
             /\ \/ pc'[d] = "vectors" /\ local'[d].model = now.model /\ now.model # NoModel
                \/ pc'[d] = "load" /\ local'[d] = local[d] /\ now.model = NoModel
        BY <1>3, <2>1, <2>2, ClaimsDoes DEF now
    <2>5. local'[d].generation = local[d].generation
        BY <1>3, ClaimsDoes
    <2>6. cache.generation = generation =>
              cache'.model = cache.model /\ cache'.vectors = cache.vectors /\ cache'.generation = generation
        <3>1. cache.generation = generation => now = cache
            BY <2>1, FreshCache DEF now
        <3> QED BY <2>4, <3>1
    <2>7. CacheIsCurrent'
        BY <1>0, <2>2, <2>4
    <2>8. \A e \in Detectors : e # d => DetectionIsCurrent(e)'
        BY <1>0, <2>2, <2>4, <2>6
    <2>9. DetectionIsCurrent(d)'
        BY <1>0, <2>1, <2>2, <2>3, <2>4, <2>5
    <2> QED BY <2>7, <2>8, <2>9
<1>4. CASE Detector!LacksLibrary(d)
    BY <1>0, <1>4, LacksLibraryDoes
<1>5. CASE Detector!EntersLifecycle(d)
    BY <1>0, <1>5, EntersLifecycleDoes
<1>6. CASE Detector!ReadsFiles(d)
    BY <1>0, <1>6, ReadsFilesDoes
<1>7. CASE Detector!StoresModel(d)
    <2>1. Loads(d) /\ cache.model = NoModel /\ cache.vectors = NoModel
          /\ cache.generation = generation /\ local[d].generation = generation
        BY <1>0, <1>7, StoresModelDoes
    <2>2. \A e \in Detectors : e # d => ~Loads(e)
        BY <2>1 DEF SingleFlight
    <2> QED BY <1>0, <1>7, <2>1, <2>2, StoresModelDoes
<1>8. CASE Detector!WakesToModel(d)
    BY <1>0, <1>8, WakesToModelDoes
<1>9. CASE Detector!TakesVectors(d)
    BY <1>0, <1>9, TakesVectorsDoes
<1>10. CASE Detector!StoresVectors(d)
    BY <1>0, <1>10, StoresVectorsDoes
<1>11. CASE Detector!WakesToVectors(d)
    BY <1>0, <1>11, WakesToVectorsDoes
<1>12. CASE Detector!Answers(d)
    BY <1>0, <1>12, AnswersDoes
<1> QED
    BY <1>1, <1>2, <1>3, <1>4, <1>5, <1>6, <1>7, <1>8, <1>9, <1>10, <1>11,
        <1>12 DEF Detector!DetectorStep

\* A command works under the lock, and the generation it begins is what it leaves on disk.
LEMMA ManagerDoes ==
    ASSUME DetectorTypes, LifecycleLock, Detectors \cap Managers = {},
           NEW m \in Managers, Detector!ManagerStep(m)
    PROVE  /\ \A n \in Managers : n # m => command'[n] = command[n]
           /\ command' = [n \in Managers |-> command'[n]]
           /\ \/ lock = {m}
              \/ lock = {} /\ lock' = {m}
           /\ command'[m] # "idle" => lock' = {m}
           /\ disk' \in Ver
           /\ \/ /\ UNCHANGED <<generation, crossed>>
                 /\ installed' = installed \cup ({disk'} \ {NoModel}) \/ UNCHANGED <<installed, disk>>
              \/ /\ generation' = generation + 1 /\ installed' = {disk'} \ {NoModel}
                 /\ crossed' = \E d \in Detectors : pc[d] # "idle"
<1>1. \A n \in Managers : command[n] # "idle" => lock = {n}
    BY DEF LifecycleLock
<1> USE DEF DetectorTypes, Detector!files, Detector!FailsWith, Detector!Versions, Ver, Detector!Invalidates, Detector!Leaves,
            Detector!Enters, Detector!Free
<1>2. CASE Detector!DownloadBegins(m)
    BY <1>1, <1>2 DEF Detector!DownloadBegins
<1>3. CASE Detector!DownloadsFile(m)
    BY <1>1, <1>3 DEF Detector!DownloadsFile
<1>4. CASE Detector!DownloadStops(m)
    BY <1>1, <1>4 DEF Detector!DownloadStops
<1>6. CASE Detector!DownloadCompletes(m)
    BY <1>1, <1>6 DEF Detector!DownloadCompletes
<1>7. CASE Detector!ResultTaken(m)
    BY <1>1, <1>7 DEF Detector!ResultTaken
<1>8. CASE Detector!DeleteBegins(m)
    BY <1>1, <1>8 DEF Detector!DeleteBegins
<1>9. CASE Detector!DeleteCompletes(m)
    BY <1>1, <1>9 DEF Detector!DeleteCompletes
<1>10. CASE Detector!DeleteFails(m)
    BY <1>1, <1>10 DEF Detector!DeleteFails
<1> QED
    BY <1>2, <1>3, <1>4, <1>6, <1>7, <1>8, <1>9, <1>10 DEF Detector!ManagerStep

\* A step of a command keeps the invariant: a generation that begins with no detection
\* under way finds every cache behind it.
LEMMA ManagerKeeps ==
    ASSUME DetectorInv, Detectors \cap Managers = {}, NEW m \in Managers, Detector!ManagerStep(m)
    PROVE  DetectorInv'
<1>1. UNCHANGED <<cache, pc, local, detected>>
    BY ManagerLeaves
<1>2. /\ \A n \in Managers : n # m => command'[n] = command[n]
      /\ command' = [n \in Managers |-> command'[n]]
      /\ lock = {m} \/ (lock = {} /\ lock' = {m})
      /\ command'[m] # "idle" => lock' = {m}
    BY ManagerDoes DEF DetectorInv
<1>3. /\ disk' \in Ver
      /\ \/ /\ UNCHANGED <<generation, crossed>>
            /\ installed' = installed \cup ({disk'} \ {NoModel}) \/ UNCHANGED <<installed, disk>>
         \/ /\ generation' = generation + 1 /\ installed' = {disk'} \ {NoModel}
            /\ crossed' = \E d \in Detectors : pc[d] # "idle"
    BY ManagerDoes DEF DetectorInv
<1>4. DetectorTypes'
    <2>1. /\ generation \in Nat /\ disk \in Ver /\ installed \subseteq Snapshots /\ crossed \in BOOLEAN
        BY DEF DetectorInv, DetectorTypes
    <2>2. /\ generation' \in Nat /\ disk' \in Ver /\ installed' \subseteq Snapshots
        <3>1. generation' \in {generation, generation + 1} /\ disk' \in Ver
            BY <1>3
        <3>2. {disk'} \ {NoModel} \subseteq Snapshots
            BY <3>1 DEF Ver
        <3>3. installed' \subseteq installed \cup ({disk'} \ {NoModel})
            BY <1>3, Zenon
        <3> QED BY <2>1, <3>1, <3>2, <3>3
    <2>3. crossed' \in BOOLEAN
        BY <1>3, <2>1
    <2> QED BY <1>1, <1>2, <2>2, <2>3 DEF DetectorInv, DetectorTypes
<1>5. SingleFlight'
    BY <1>1 DEF DetectorInv, SingleFlight, Loads, Encodes
<1>6. LifecycleLock'
    BY <1>1, <1>2 DEF DetectorInv, LifecycleLock
<1>7. generation \in Nat /\ cache.generation \in Nat
      /\ \A d \in Detectors : local[d].generation \in Nat
    BY DEF DetectorInv, DetectorTypes, Caches, Locals
<1>8. Behind'
    <2>1. generation' = generation \/ generation' = generation + 1
        BY <1>3
    <2> QED BY <1>1, <1>7, <2>1 DEF DetectorInv, Behind
<1>9. EpochIsCurrent'
    <2>1. CASE /\ UNCHANGED <<generation, crossed>>
               /\ \/ installed' = installed \cup ({disk'} \ {NoModel})
                  \/ UNCHANGED <<installed, disk>>
        BY <1>1, <2>1 DEF DetectorInv, EpochIsCurrent, CacheIsCurrent, DetectionIsCurrent, Here,
            Loads
    <2>2. CASE /\ generation' = generation + 1 /\ installed' = {disk'} \ {NoModel}
               /\ crossed' = \E d \in Detectors : pc[d] # "idle"
        <3>1. SUFFICES ASSUME \A d \in Detectors : pc[d] = "idle"
                       PROVE  CacheIsCurrent' /\ \A d \in Detectors : DetectionIsCurrent(d)'
            BY <2>2 DEF EpochIsCurrent
        <3>2. CacheIsCurrent'
            BY <1>1, <1>7, <2>2 DEF DetectorInv, Behind, CacheIsCurrent, Here
        <3>3. \A d \in Detectors : pc'[d] = "idle" /\ local'[d].model = NoModel
            BY <1>1, <3>1 DEF DetectorInv, Behind
        <3> QED BY <3>2, <3>3 DEF DetectionIsCurrent, Here, Loads
    <2> QED BY <1>3, <2>1, <2>2
<1> QED BY <1>4, <1>5, <1>6, <1>8, <1>9 DEF DetectorInv

\* The inductive invariant of the detector and of the management of its model.
THEOREM DetectorInvariant == Detector!Spec => []DetectorInv
<1>0. Detectors \cap Managers = {} /\ NoModel \notin Snapshots
    BY DetectorAssumption DEF Detector!SemanticModelAssumption
<1>1. Detector!Init => DetectorInv
    <2> SUFFICES ASSUME Detector!Init PROVE DetectorInv
        OBVIOUS
    <2>1. /\ cache \in Caches /\ ~cache.modelLoading /\ ~cache.vectorsLoading
          /\ cache.generation = 0 /\ cache.model = NoModel /\ cache.vectors = NoModel
        BY DEF Detector!Init, Caches, Ver
    <2>2. /\ local \in [Detectors -> Locals]
          /\ \A d \in Detectors : pc[d] = "idle" /\ local[d].generation = 0 /\ local[d].model = NoModel
        BY DEF Detector!Init, Locals, Ver
    <2>3. DetectorTypes
        <3>1. generation = 0 /\ disk \in Ver /\ installed = {disk} \ {NoModel} /\ crossed = FALSE
            BY DEF Detector!Init, Detector!Versions, Ver
        <3>2. pc = [d \in Detectors |-> pc[d]] /\ detected = [d \in Detectors |-> detected[d]]
              /\ command = [m \in Managers |-> command[m]]
            BY DEF Detector!Init
        <3>3. generation \in Nat /\ disk \in Ver /\ installed \subseteq Snapshots
            BY <3>1 DEF Ver
        <3>4. crossed \in BOOLEAN
            BY <3>1
        <3> QED BY <2>1, <2>2, <3>2, <3>3, <3>4 DEF DetectorTypes
    <2>4. SingleFlight /\ LifecycleLock /\ Behind
        BY <2>1, <2>2 DEF Detector!Init, SingleFlight, Loads, Encodes, LifecycleLock, Behind
    <2>5. EpochIsCurrent
        BY <2>1, <2>2 DEF Detector!Init, EpochIsCurrent, CacheIsCurrent, DetectionIsCurrent, Here,
            Loads
    <2> QED BY <2>3, <2>4, <2>5 DEF DetectorInv
<1>2. DetectorInv /\ [Detector!Next]_(Detector!vars) => DetectorInv'
    <2> SUFFICES ASSUME DetectorInv, [Detector!Next]_(Detector!vars) PROVE DetectorInv'
        OBVIOUS
    <2>1. ASSUME NEW d \in Detectors, Detector!Begins(d) \/ Detector!DetectorStep(d) PROVE DetectorInv'
        BY <1>0, <2>1, StepTypes, StepFlight, StepLock, StepBehind, StepEpoch DEF DetectorInv
    <2>2. ASSUME NEW m \in Managers, Detector!ManagerStep(m) PROVE DetectorInv'
        BY <1>0, <2>2, ManagerKeeps
    <2>3. CASE UNCHANGED Detector!vars
        BY <2>3 DEF Detector!vars, Detector!detectVars, Detector!manageVars, Detector!files,
           DetectorInv, DetectorTypes, SingleFlight, Loads, Encodes, LifecycleLock,
           Behind, EpochIsCurrent, CacheIsCurrent, DetectionIsCurrent, Here
    <2> QED BY <2>1, <2>2, <2>3 DEF Detector!Next
<1> QED BY <1>1, <1>2, PTL DEF Detector!Spec

\* Two detections that find no model do not both load it, nor both encode the scenes.
THEOREM DetectorWorksOnce == Detector!Spec => []WorkIsDoneOnce
<1>1. DetectorInv => WorkIsDoneOnce
    BY DEF DetectorInv, SingleFlight, WorkIsDoneOnce
<1> QED BY <1>1, DetectorInvariant, PTL

\* The flags that threads wait for are only up while somebody is going to take them down:
\* what DetectionEnds needs besides fairness.
THEOREM DetectorsWakeUp == Detector!Spec => []NobodyWaitsInVain
<1>1. DetectorInv => NobodyWaitsInVain
    BY DEF DetectorInv, SingleFlight, NobodyWaitsInVain, Loads, Encodes
<1> QED BY <1>1, DetectorInvariant, PTL

\* A load never meets a download or a deletion, and two of those never meet.
THEOREM LifecycleIsExclusive == Detector!Spec => []FilesAreLeftAlone
<1>1. Detectors \cap Managers = {}
    BY DetectorAssumption DEF Detector!SemanticModelAssumption
<1>2. DetectorInv => FilesAreLeftAlone
    BY <1>1 DEF DetectorInv, LifecycleLock, FilesAreLeftAlone
<1> QED BY <1>2, DetectorInvariant, PTL

\* A result that is new comes from one model of this generation.
LEMMA NewResult ==
    ASSUME DetectorInv, NEW d \in Detectors, Detector!Begins(d) \/ Detector!DetectorStep(d),
           detected'[d] # detected[d], detected'[d] # NoResult, ~crossed
    PROVE  detected'[d].query \in installed /\ detected'[d].scenes = detected'[d].query
<1>1. CASE Detector!Answers(d)
    <2>1. pc[d] = "compare"
          /\ detected'[d] = [query |-> local[d].model, scenes |-> local[d].vectors]
        BY <1>1, AnswersDoes DEF DetectorInv
    <2>2. local[d].model \in installed /\ local[d].vectors = local[d].model
        BY <2>1 DEF DetectorInv, EpochIsCurrent, DetectionIsCurrent, Here
    <2> QED BY <2>1, <2>2
<1> QED
    BY <1>1, QuietDoes, ReadsGenerationDoes, ClaimsDoes, LacksLibraryDoes, EntersLifecycleDoes,
        ReadsFilesDoes,
       StoresModelDoes, WakesToModelDoes, TakesVectorsDoes, StoresVectorsDoes, WakesToVectorsDoes
    DEF DetectorInv, Detector!DetectorStep

\* A scene that is given comes from one snapshot, query and scenes, and from one that was on
\* the disk since the model was last replaced or deleted, unless a detection was under way then.
THEOREM ResultCurrent == Detector!Spec => ResultIsCurrent
<1>1. DetectorInv /\ [Detector!Next]_(Detector!vars) =>
          [\A d \in Detectors :
             detected'[d] # detected[d] /\ detected'[d] # NoResult /\ ~crossed
                 => detected'[d].query \in installed /\ detected'[d].scenes = detected'[d].query]_(Detector!vars)
    <2> SUFFICES ASSUME DetectorInv, Detector!Next, NEW d \in Detectors,
                        detected'[d] # detected[d], detected'[d] # NoResult, ~crossed
                 PROVE  detected'[d].query \in installed /\ detected'[d].scenes = detected'[d].query
        OBVIOUS
    <2>1. ASSUME NEW e \in Detectors, Detector!Begins(e) \/ Detector!DetectorStep(e)
          PROVE  detected'[d].query \in installed /\ detected'[d].scenes = detected'[d].query
        <3>1. d = e
            BY <2>1, OwnStep DEF DetectorInv
        <3> QED BY <2>1, <3>1, NewResult
    <2>2. ASSUME NEW m \in Managers, Detector!ManagerStep(m) PROVE FALSE
        BY <2>2, ManagerLeaves
    <2> QED BY <2>1, <2>2 DEF Detector!Next
<1> QED BY <1>1, DetectorInvariant, PTL DEF Detector!Spec, ResultIsCurrent, Detector!ResultIsCurrent

----------------------------------------------------------------------------
(* A call of a provider. *)

\* The kinds that end an answer; what a parser remembers; what comes after its events.
Ending == {"completed", "error", "cancelled"}
Parsers == [started : BOOLEAN, finish : BOOLEAN, delta : BOOLEAN, text : BOOLEAN,
            open : SUBSET Streams!Blocks, closed : SUBSET Streams!Blocks]
Afters == [code : Streams!Codes \cup {"read", "done"}, retryable : BOOLEAN]

\* Events in order, for a parser that remembered `from': one start, at the very first;
\* an end only as the last, and a completion only if the server has ended (w).
Emittable(s, then, from, w) ==
    /\ s \in Seq(Streams!Kinds)
    /\ \A i \in 1..Len(s) :
          /\ s[i] \in {"started", "text", "usage"} \cup Ending
          /\ s[i] = "started" <=> i = 1 /\ ~from.started
          /\ s[i] \in Ending => i = Len(s) /\ then = Streams!Done
          /\ s[i] = "completed" => w
    /\ then = Streams!Done => Len(s) > 0 /\ s[Len(s)] \in Ending

\* What a parser that tells the whole answer may give.
Fits(a, from, w) ==
    /\ Emittable(a.emits, a.then, from, w)
    /\ a.parsed \in Parsers /\ a.then \in Afters
    /\ a.then = Streams!ReadOn => (a.parsed.started <=> from.started \/ Len(a.emits) > 0)
    /\ a.parsed.text => a.parsed.started

\* What one that gives the text alone may give: it is done when the server is.
FitsBare(a, w) ==
    /\ a.emits \in Seq({"text"})
    /\ a.parsed \in Parsers /\ a.then \in Afters
    /\ a.then = Streams!Done => w
    /\ a.parsed.text => a.parsed.started

\* What may come after the events that were parsed; reading on, being done and failing
\* are told apart.
LEMMA AfterTypes ==
    /\ Streams!ReadOn \in Afters /\ Streams!Done \in Afters /\ Streams!Invalid \in Afters
    /\ Streams!Service \in Afters /\ Streams!Err("limited", TRUE) \in Afters
    /\ Streams!Err("auth", FALSE) \in Afters /\ Streams!Err("empty", FALSE) \in Afters
    /\ Streams!ReadOn # Streams!Done
    /\ \A x \in {Streams!Invalid, Streams!Service, Streams!Err("limited", TRUE),
                 Streams!Err("auth", FALSE), Streams!Err("empty", FALSE)} :
          x # Streams!ReadOn /\ x # Streams!Done
    BY DEF Afters, Streams!ReadOn, Streams!Done, Streams!Invalid, Streams!Service, Streams!Err,
        Streams!Codes

\* A parser that goes on with events in order fits.
LEMMA TakeFits ==
    ASSUME NEW s \in Parsers, NEW from \in Parsers, NEW w \in BOOLEAN,
        NEW ks \in Seq(Streams!Kinds),
           \A i \in 1..Len(ks) : ks[i] \in {"started", "text", "usage"} /\ (ks[i] = "started" <=> i = 1 /\ ~from.started),
           s.started <=> from.started \/ Len(ks) > 0, s.text => s.started
    PROVE  Fits(Streams!Take(s, ks), from, w)
    BY AfterTypes DEF Streams!Take, Fits, Emittable, Ending

\* One that fails fits: it gives no events.
LEMMA RefuseFits ==
    ASSUME NEW s \in Parsers, NEW from \in Parsers, NEW w \in BOOLEAN, NEW x \in Afters,
           x # Streams!ReadOn, x # Streams!Done, s.text => s.started
    PROVE  Fits([Streams!Refuse(s) EXCEPT !.then = x], from, w) /\ (x = Streams!Invalid => Fits(Streams!Refuse(s), from, w))
    BY AfterTypes DEF Streams!Refuse, Fits, Emittable, Ending

\* One that finishes fits, if its last event ends the call.
LEMMA FinishFits ==
    ASSUME NEW s \in Parsers, NEW from \in Parsers, NEW w \in BOOLEAN,
        NEW ks \in Seq(Streams!Kinds),
           Len(ks) > 0, ks[Len(ks)] \in Ending, ks[Len(ks)] = "completed" => w,
           \A i \in 1..Len(ks) - 1 : ks[i] \in {"started", "text", "usage"},
           \A i \in 1..Len(ks) : ks[i] = "started" <=> i = 1 /\ ~from.started,
           s.text => s.started
    PROVE  Fits(Streams!Finish(s, ks), from, w)
<1>1. \A i \in 1..Len(ks) : i = Len(ks) \/ i \in 1..Len(ks) - 1
    OBVIOUS
<1> QED BY <1>1, AfterTypes DEF Streams!Finish, Fits, Emittable, Ending

\* One that skips what it was sent, or notes it after the start, fits.
LEMMA SkipFits ==
    ASSUME NEW s \in Parsers, NEW w \in BOOLEAN, s.text => s.started
    PROVE  /\ Fits(Streams!Skip(s), s, w)
           /\ \A t \in Parsers : t.started /\ s.started => Fits(Streams!Take(t, <<>>), s, w)
    BY AfterTypes DEF Streams!Skip, Streams!Take, Fits, Emittable, Ending

\* `all' is `ks', after the start unless it has been announced.
Follows(all, ks, s) ==
    /\ all \in Seq(Streams!Kinds)
    /\ Len(all) >= Len(ks) /\ (s.started \/ Len(all) > 0)
    /\ \A i \in 1..Len(all) :
          /\ all[i] = "started" <=> i = 1 /\ ~s.started
          /\ all[i] # "started" => \E j \in 1..Len(ks) : all[i] = ks[j] /\ (i = Len(all) <=> j = Len(ks))
    /\ Len(ks) > 0 => all[Len(all)] = ks[Len(ks)]

\* The start goes before what follows it, unless it has been announced.
LEMMA StartThen ==
    ASSUME NEW s \in Parsers, NEW ks \in Seq(Streams!Kinds),
        \A i \in 1..Len(ks) : ks[i] # "started",
           NEW start, s.started => start = <<>>, ~s.started => start = <<"started">>
    PROVE  Follows(start \o ks, ks, s)
<1> DEFINE all == start \o ks
<1> USE DEF Follows
<1>1. CASE s.started
    BY <1>1
<1>2. CASE ~s.started
    <2>1. start = <<"started">> /\ start \in Seq(Streams!Kinds)
        <3>1. start = <<"started">>
            BY <1>2
        <3> QED BY <3>1 DEF Streams!Kinds
    <2> QED BY <1>2, <2>1
<1> QED BY <1>1, <1>2

\* A parser that announces the start if need be, and goes on, fits.
LEMMA StartThenTake ==
    ASSUME NEW from \in Parsers, NEW s \in Parsers, s.started, NEW w \in BOOLEAN,
           NEW tail \in Seq(Streams!Kinds), \A i \in 1..Len(tail) : tail[i] \in {"text", "usage"},
           NEW start, start = IF from.started THEN <<>> ELSE <<"started">>
    PROVE  Fits(Streams!Take(s, start \o tail), from, w)
<1> DEFINE all == start \o tail
<1>1. Follows(all, tail, from)
    <2>1. \A i \in 1..Len(tail) : tail[i] # "started"
        OBVIOUS
    <2>2. (from.started => start = <<>>) /\ (~from.started => start = <<"started">>)
        OBVIOUS
    <2> QED BY <2>1, <2>2, StartThen
<1> USE DEF Follows
<1> HIDE DEF all
<1>2. \A i \in 1..Len(all) : all[i] \in {"started", "text", "usage"}
    BY <1>1
<1>3. Fits(Streams!Take(s, all), from, w)
    BY <1>1, <1>2, TakeFits
<1> QED BY <1>3 DEF all

\* So does one that announces the start if need be, and finishes.
LEMMA StartThenFinish ==
    ASSUME NEW from \in Parsers, NEW s \in Parsers, s.started, NEW w \in BOOLEAN,
           NEW tail \in Seq(Streams!Kinds), Len(tail) > 0, tail[Len(tail)] \in Ending,
           tail[Len(tail)] = "completed" => w,
           \A i \in 1..Len(tail) - 1 : tail[i] \in {"text", "usage"},
           NEW start, start = IF from.started THEN <<>> ELSE <<"started">>
    PROVE  Fits(Streams!Finish(s, start \o tail), from, w)
<1> DEFINE all == start \o tail
<1>0. \A i \in 1..Len(tail) : tail[i] # "started"
    <2>1. \A i \in 1..Len(tail) : i = Len(tail) \/ i \in 1..Len(tail) - 1
        OBVIOUS
    <2> QED BY <2>1 DEF Ending
<1>1. Follows(all, tail, from)
    <2>1. \A i \in 1..Len(tail) : tail[i] # "started"
        BY <1>0
    <2>2. (from.started => start = <<>>) /\ (~from.started => start = <<"started">>)
        OBVIOUS
    <2> QED BY <2>1, <2>2, StartThen
<1> USE DEF Follows
<1> HIDE DEF all
<1>2. \A i \in 1..Len(all) - 1 : all[i] \in {"started", "text", "usage"}
    <2> SUFFICES ASSUME NEW i \in 1..Len(all) - 1, all[i] # "started"
                 PROVE  all[i] \in {"text", "usage"}
        OBVIOUS
    <2>1. i \in 1..Len(all)
        BY <1>1
    <2>2. PICK j \in 1..Len(tail) : all[i] = tail[j] /\ (i = Len(all) <=> j = Len(tail))
        BY <1>1, <2>1
    <2>3. j \in 1..Len(tail) - 1
        BY <1>1, <2>1, <2>2
    <2> QED BY <2>2, <2>3
<1>3. Fits(Streams!Finish(s, all), from, w)
    BY <1>1, <1>2, FinishFits
<1> QED BY <1>3 DEF all

\* A completion alone fits, after the start and when the server has ended.
LEMMA CompletedFits ==
    ASSUME NEW s \in Parsers, s.started, s.text => s.started, NEW w \in BOOLEAN, w
    PROVE  Fits(Streams!Finish(s, <<"completed">>), s, w)
<1> DEFINE ks == <<"completed">>
<1>1. ks \in Seq(Streams!Kinds) /\ Len(ks) = 1 /\ ks[1] = "completed"
    BY DEF Streams!Kinds
<1> HIDE DEF ks
<1>2. \A i \in 1..Len(ks) : i = 1
    BY <1>1
<1>3. \A i \in 1..Len(ks) - 1 : FALSE
    BY <1>1
<1>4. ks[Len(ks)] \in Ending /\ ks[1] # "started"
    BY <1>1 DEF Ending
<1>5. Fits(Streams!Finish(s, ks), s, w)
    <2>1. \A i \in 1..Len(ks) : ks[i] = "started" <=> i = 1 /\ ~s.started
        BY <1>2, <1>4
    <2>2. \A i \in 1..Len(ks) - 1 : ks[i] \in {"started", "text", "usage"}
        BY <1>3
    <2>3. Len(ks) > 0
        BY <1>1
    <2> QED BY <1>1, <1>4, <2>1, <2>2, <2>3, FinishFits
<1> QED BY <1>5 DEF ks

\* The parser of anthropic fits, in whatever order the server sends its events.
LEMMA AnthropicFits ==
    ASSUME NEW s \in Parsers, s.text => s.started, NEW e \in Streams!AnthropicEvents,
           NEW w \in BOOLEAN, e.type = "message_stop" => w
    PROVE  Fits(Streams!AnthropicStep(s, e), s, w)
<1>0. s.started \in BOOLEAN
    BY DEF Parsers
<1>1. CASE e.type \in {"ping", "unknown"}
    <2>1. Streams!AnthropicStep(s, e) = Streams!Skip(s)
        BY <1>1 DEF Streams!AnthropicStep, Streams!AnthropicErrors
    <2> QED BY <2>1, SkipFits
<1>2. CASE e.type \in Streams!AnthropicErrors
    <2>1. Streams!AnthropicStep(s, e) = [Streams!Refuse(s) EXCEPT !.then = Streams!AnthropicError(e)]
        BY <1>2 DEF Streams!AnthropicStep, Streams!AnthropicErrors
    <2>2. Streams!AnthropicError(e) \in {Streams!Invalid, Streams!Service, Streams!Err("limited", TRUE), Streams!Err("auth", FALSE)}
        BY <1>2 DEF Streams!AnthropicErrors, Streams!AnthropicError
    <2> DEFINE x == Streams!AnthropicError(e)
    <2>3. x \in Afters /\ x # Streams!ReadOn /\ x # Streams!Done
        BY <2>2, AfterTypes
    <2> HIDE DEF x
    <2>4. Fits([Streams!Refuse(s) EXCEPT !.then = x], s, w)
        BY <2>3, RefuseFits
    <2> QED BY <2>1, <2>4 DEF x
<1>3. CASE e.type \notin {"ping", "unknown"} \cup Streams!AnthropicErrors
      /\ ~Streams!AnthropicInOrder(s, e)
    <2>1. Streams!AnthropicStep(s, e) = Streams!Refuse(s)
        BY <1>3 DEF Streams!AnthropicStep
    <2> QED BY <1>0, <2>1, RefuseFits, AfterTypes
<1>4. CASE e.type \notin {"ping", "unknown"} \cup Streams!AnthropicErrors
      /\ Streams!AnthropicInOrder(s, e)
    <2>1. CASE e.type = "message_start"
        <3>1. ~s.started
              /\ Streams!AnthropicStep(s, e) = Streams!Take([s EXCEPT !.started = TRUE], <<"started", "usage">>)
            BY <1>4, <2>1 DEF Streams!AnthropicStep, Streams!AnthropicErrors,
                Streams!AnthropicInOrder
        <3>2. [s EXCEPT !.started = TRUE] \in Parsers /\ [s EXCEPT !.started = TRUE].started
            BY DEF Parsers
        <3> DEFINE ks == <<"started", "usage">>
                   t == [s EXCEPT !.started = TRUE]
        <3>3. /\ ks \in Seq(Streams!Kinds) /\ Len(ks) > 0
              /\ \A i \in 1..Len(ks) : ks[i] \in {"started", "text", "usage"} /\ (ks[i] = "started" <=> i = 1)
            BY DEF Streams!Kinds
        <3>4. t \in Parsers /\ t.started
            BY <3>2
        <3>5. Streams!AnthropicStep(s, e) = Streams!Take(t, ks)
            BY <3>1
        <3> HIDE DEF ks, t
        <3> QED BY <3>1, <3>3, <3>4, <3>5, TakeFits
    <2>2. CASE e.type = "block_start"
        <3>1. s.started
              /\ Streams!AnthropicStep(s, e) = Streams!Take([s EXCEPT !.open = @ \cup {e.index}], <<>>) /\ e.index \in Streams!Blocks
            BY <1>4, <2>2 DEF Streams!AnthropicStep, Streams!AnthropicErrors,
                Streams!AnthropicInOrder, Streams!AnthropicEvents
        <3>2. [s EXCEPT !.open = @ \cup {e.index}] \in Parsers
              /\ [s EXCEPT !.open = @ \cup {e.index}].started
            BY <3>1 DEF Parsers
        <3> QED BY <3>1, <3>2, SkipFits
    <2>3. CASE e.type = "text_delta"
        <3>1. s.started /\ Streams!AnthropicStep(s, e) = Streams!Take(s, <<"text">>)
            BY <1>4, <2>3 DEF Streams!AnthropicStep, Streams!AnthropicErrors,
                Streams!AnthropicInOrder
        <3> DEFINE ks == <<"text">>
        <3>2. ks \in Seq(Streams!Kinds) /\ \A i \in 1..Len(ks) : ks[i] = "text"
            BY DEF Streams!Kinds
        <3> HIDE DEF ks
        <3>3. Fits(Streams!Take(s, ks), s, w)
            BY <3>1, <3>2, TakeFits
        <3> QED BY <3>1, <3>3 DEF ks
    <2>4. CASE e.type = "other_delta"
        <3>1. Streams!AnthropicStep(s, e) = Streams!Skip(s)
            BY <1>4, <2>4 DEF Streams!AnthropicStep, Streams!AnthropicErrors
        <3> QED BY <3>1, SkipFits
    <2>5. CASE e.type = "block_stop"
        <3> DEFINE t == [s EXCEPT !.open = @ \ {e.index}, !.closed = @ \cup {e.index}]
        <3>1. s.started /\ Streams!AnthropicStep(s, e) = Streams!Take(t, <<>>)
              /\ e.index \in Streams!Blocks
            BY <1>4, <2>5 DEF Streams!AnthropicStep, Streams!AnthropicErrors,
                Streams!AnthropicInOrder, Streams!AnthropicEvents
        <3>2. t \in Parsers /\ t.started
            BY <3>1 DEF Parsers
        <3> HIDE DEF t
        <3> QED BY <3>1, <3>2, SkipFits
    <2>6. CASE e.type = "message_delta"
        <3> DEFINE t == [s EXCEPT !.delta = TRUE, !.finish = @ \/ e.reason]
        <3>1. s.started /\ Streams!AnthropicStep(s, e) = Streams!Take(t, <<"usage">>)
            BY <1>4, <2>6 DEF Streams!AnthropicStep, Streams!AnthropicErrors,
                Streams!AnthropicInOrder
        <3>2. t \in Parsers /\ t.started
            BY <3>1 DEF Parsers
        <3> DEFINE ks == <<"usage">>
        <3>3. ks \in Seq(Streams!Kinds) /\ \A i \in 1..Len(ks) : ks[i] = "usage"
            BY DEF Streams!Kinds
        <3> HIDE DEF ks, t
        <3>4. Fits(Streams!Take(t, ks), s, w)
            BY <3>1, <3>2, <3>3, TakeFits
        <3> QED BY <3>1, <3>4 DEF ks
    <2>7. CASE e.type = "message_stop"
        <3>1. s.started /\ Streams!AnthropicStep(s, e) = Streams!Finish(s, <<"completed">>)
            BY <1>4, <2>7 DEF Streams!AnthropicStep, Streams!AnthropicErrors,
                Streams!AnthropicInOrder
        <3> QED BY <2>7, <3>1, CompletedFits
    <2>8. e.type \in {"message_start", "block_start", "text_delta", "other_delta", "block_stop", "message_delta", "message_stop"}
        BY <1>4 DEF Streams!AnthropicEvents, Streams!AnthropicErrors
    <2> QED BY <2>1, <2>2, <2>3, <2>4, <2>5, <2>6, <2>7, <2>8
<1> QED BY <1>1, <1>2, <1>3, <1>4

\* The parser of responses fits.
LEMMA ResponsesFits ==
    ASSUME NEW s \in Parsers, s.text => s.started, NEW e \in Streams!ResponsesEvents,
           NEW w \in BOOLEAN, e.type \in {"completed", "incomplete", "failed", "error"} => w
    PROVE  Fits(Streams!ResponsesStep(s, e), s, w)
<1> DEFINE start == IF s.started THEN <<>> ELSE <<"started">>
           begun == [s EXCEPT !.started = TRUE]
<1>0. s.started \in BOOLEAN /\ begun \in Parsers /\ begun.started
    BY DEF Parsers
<1>1. CASE e.type = "malformed"
    <2>1. Streams!ResponsesStep(s, e) = Streams!Refuse(s)
        BY <1>1 DEF Streams!ResponsesStep
    <2> QED BY <1>0, <2>1, RefuseFits, AfterTypes
<1>2. CASE e.type = "other"
    <2>1. Streams!ResponsesStep(s, e) = Streams!Skip(s)
        BY <1>2 DEF Streams!ResponsesStep
    <2> QED BY <2>1, SkipFits
<1>3. CASE e.type = "created"
    <2>1. Streams!ResponsesStep(s, e) = Streams!Take(begun, start)
        BY <1>3 DEF Streams!ResponsesStep
    <2>2. /\ start \in Seq(Streams!Kinds)
          /\ \A i \in 1..Len(start) : start[i] = "started" /\ i = 1 /\ ~s.started
          /\ s.started \/ Len(start) > 0
        <3>1. CASE s.started
            BY <3>1
        <3>2. CASE ~s.started
            BY <3>2 DEF Streams!Kinds
        <3> QED BY <3>1, <3>2
    <2> HIDE DEF begun, start
    <2> QED BY <1>0, <2>1, <2>2, TakeFits
<1>4. CASE e.type = "delta"
    <2> DEFINE tail == <<"text">>
    <2>1. Streams!ResponsesStep(s, e) = Streams!Take(begun, start \o tail)
        BY <1>4 DEF Streams!ResponsesStep
    <2>2. tail \in Seq(Streams!Kinds) /\ \A i \in 1..Len(tail) : tail[i] \in {"text", "usage"}
        BY <1>4 DEF Streams!Kinds, Ending
    <2>3. start = IF s.started THEN <<>> ELSE <<"started">>
        OBVIOUS
    <2> HIDE DEF begun, start, tail
    <2> QED BY <1>0, <2>1, <2>2, <2>3, StartThenTake
<1>5. CASE e.type \in {"completed", "incomplete"}
    <2> DEFINE tail == <<"usage", "completed">>
    <2>1. Streams!ResponsesStep(s, e) = Streams!Finish(begun, start \o tail)
        BY <1>5 DEF Streams!ResponsesStep
    <2>2. /\ tail \in Seq(Streams!Kinds) /\ Len(tail) > 0 /\ tail[Len(tail)] \in Ending
          /\ tail[Len(tail)] = "completed" => w
          /\ \A i \in 1..Len(tail) - 1 : tail[i] \in {"text", "usage"}
        BY <1>5 DEF Streams!Kinds, Ending
    <2>3. start = IF s.started THEN <<>> ELSE <<"started">>
        OBVIOUS
    <2> HIDE DEF begun, start, tail
    <2> QED BY <1>0, <2>1, <2>2, <2>3, StartThenFinish
<1>6. CASE e.type = "failed"
    <2> DEFINE tail == <<"usage", "error">>
    <2>1. Streams!ResponsesStep(s, e) = Streams!Finish(begun, start \o tail)
        BY <1>6 DEF Streams!ResponsesStep
    <2>2. /\ tail \in Seq(Streams!Kinds) /\ Len(tail) > 0 /\ tail[Len(tail)] \in Ending
          /\ tail[Len(tail)] = "completed" => w
          /\ \A i \in 1..Len(tail) - 1 : tail[i] \in {"text", "usage"}
        BY <1>6 DEF Streams!Kinds, Ending
    <2>3. start = IF s.started THEN <<>> ELSE <<"started">>
        OBVIOUS
    <2> HIDE DEF begun, start, tail
    <2> QED BY <1>0, <2>1, <2>2, <2>3, StartThenFinish
<1>7. CASE e.type = "error"
    <2> DEFINE tail == <<"error">>
    <2>1. Streams!ResponsesStep(s, e) = Streams!Finish(begun, start \o tail)
        BY <1>7 DEF Streams!ResponsesStep
    <2>2. /\ tail \in Seq(Streams!Kinds) /\ Len(tail) > 0 /\ tail[Len(tail)] \in Ending
          /\ tail[Len(tail)] = "completed" => w
          /\ \A i \in 1..Len(tail) - 1 : tail[i] \in {"text", "usage"}
        BY <1>7 DEF Streams!Kinds, Ending
    <2>3. start = IF s.started THEN <<>> ELSE <<"started">>
        OBVIOUS
    <2> HIDE DEF begun, start, tail
    <2> QED BY <1>0, <2>1, <2>2, <2>3, StartThenFinish
<1> QED BY <1>1, <1>2, <1>3, <1>4, <1>5, <1>6, <1>7 DEF Streams!ResponsesEvents

\* The end of a compatible stream is a completion only after a finish reason.
LEMMA CompatibleEndFits ==
    ASSUME NEW s \in Parsers, s.text => s.started, NEW w \in BOOLEAN, s.finish => w
    PROVE  Fits(Streams!CompatibleEnd(s), s, w)
<1>0. s.started \in BOOLEAN
    BY DEF Parsers
<1>1. CASE ~s.finish
    BY <1>0, <1>1, RefuseFits, AfterTypes DEF Streams!CompatibleEnd
<1>2. CASE s.finish /\ s.text
    <2>1. Streams!CompatibleEnd(s) = Streams!Finish(s, <<"completed">>)
        BY <1>2 DEF Streams!CompatibleEnd
    <2> QED BY <1>2, <2>1, CompletedFits
<1>3. CASE s.finish /\ ~s.text
    <2>1. Streams!CompatibleEnd(s) = [Streams!Refuse(s) EXCEPT !.then = Streams!Err("empty", FALSE)]
        BY <1>3 DEF Streams!CompatibleEnd
    <2> QED BY <1>0, <2>1, RefuseFits, AfterTypes
<1> QED BY <1>1, <1>2, <1>3

\* The parser of compatible fits, and remembers a finish only when the server has ended.
LEMMA CompatibleFits ==
    ASSUME NEW s \in Parsers, s.text => s.started, NEW e \in Streams!ChatEvents,
           NEW w \in BOOLEAN, Streams!ChatEnds(e) => w, s.finish => w
    PROVE  /\ Fits(Streams!CompatibleStep(s, e), s, w)
           /\ Streams!CompatibleStep(s, e).parsed.finish => w
<1> DEFINE start == IF s.started THEN <<>> ELSE <<"started">>
           begun == [s EXCEPT !.started = TRUE]
<1>0. s.started \in BOOLEAN /\ begun \in Parsers /\ begun.started /\ begun.finish = s.finish
    BY DEF Parsers
<1>1. CASE e.type = "malformed"
    <2>1. Streams!CompatibleStep(s, e) = Streams!Refuse(s)
        BY <1>1 DEF Streams!CompatibleStep
    <2> QED BY <1>0, <2>1, RefuseFits, AfterTypes DEF Streams!Refuse
<1>2. CASE e.type = "sentinel"
    <2> DEFINE t == [s EXCEPT !.finish = TRUE]
    <2>1. Streams!CompatibleStep(s, e) = Streams!CompatibleEnd(t) /\ w
        BY <1>2 DEF Streams!CompatibleStep, Streams!ChatEnds
    <2>2. t \in Parsers /\ t.text = s.text /\ t.started = s.started
        BY DEF Parsers
    <2> HIDE DEF t
    <2>3. Fits(Streams!CompatibleEnd(t), t, w)
        BY <2>1, <2>2, CompatibleEndFits
    <2>4. Fits(Streams!CompatibleEnd(t), s, w)
        BY <2>2, <2>3 DEF Fits, Emittable
    <2> QED BY <2>1, <2>4
<1>3. CASE e.type = "usage"
    <2> DEFINE tail == <<"usage">>
    <2>1. Streams!CompatibleStep(s, e) = Streams!Take(begun, start \o tail)
        BY <1>3 DEF Streams!CompatibleStep
    <2>2. tail \in Seq(Streams!Kinds) /\ \A i \in 1..Len(tail) : tail[i] \in {"text", "usage"}
        BY <1>3 DEF Streams!Kinds, Ending
    <2>3. start = IF s.started THEN <<>> ELSE <<"started">>
        OBVIOUS
    <2> HIDE DEF begun, start, tail
    <2>4. Fits(Streams!Take(begun, start \o tail), s, w)
        BY <1>0, <2>2, <2>3, StartThenTake
    <2>5. Streams!Take(begun, start \o tail).parsed = begun
        BY DEF Streams!Take
    <2> QED BY <1>0, <2>1, <2>4, <2>5
<1>4. CASE e.type = "part"
    <2> DEFINE tail == IF e.text THEN <<"text">> ELSE <<>>
               t == [begun EXCEPT !.text = @ \/ e.text, !.finish = @ \/ e.finish]
    <2>0. e.text \in BOOLEAN /\ e.finish \in BOOLEAN /\ (e.finish => w)
        BY <1>4 DEF Streams!ChatEvents, Streams!ChatEnds
    <2>1. Streams!CompatibleStep(s, e) = Streams!Take(t, start \o tail)
        BY <1>4 DEF Streams!CompatibleStep
    <2>2. tail \in Seq(Streams!Kinds) /\ \A i \in 1..Len(tail) : tail[i] \in {"text", "usage"}
        <3>1. CASE e.text
            BY <3>1 DEF Streams!Kinds
        <3>2. CASE ~e.text
            BY <3>2
        <3> QED BY <3>1, <3>2
    <2>3. start = IF s.started THEN <<>> ELSE <<"started">>
        OBVIOUS
    <2>4. t \in Parsers /\ t.started /\ (t.finish => w)
        BY <1>0, <2>0 DEF Parsers
    <2> HIDE DEF begun, start, tail, t
    <2>5. Fits(Streams!Take(t, start \o tail), s, w)
        BY <2>2, <2>3, <2>4, StartThenTake
    <2>6. Streams!Take(t, start \o tail).parsed = t
        BY DEF Streams!Take
    <2> QED BY <2>1, <2>4, <2>5, <2>6
<1> QED BY <1>1, <1>2, <1>3, <1>4 DEF Streams!ChatEvents

\* The parser of minimax gives text alone, and remembers a finish only when the server
\* has ended.
LEMMA MiniMaxFits ==
    ASSUME NEW s \in Parsers, s.text => s.started, NEW e \in Streams!ChatEvents,
           NEW w \in BOOLEAN, Streams!ChatEnds(e) => w, s.finish => w
    PROVE  /\ FitsBare(Streams!MiniMaxStep(s, e), w)
           /\ Streams!MiniMaxStep(s, e).parsed.finish => w
<1>1. CASE e.type \in {"malformed", "usage", "sentinel"}
    BY <1>1, AfterTypes DEF Streams!MiniMaxStep, FitsBare, Streams!Refuse, Streams!Skip,
        Streams!Finish, Streams!ChatEnds
<1>2. CASE e.type = "part"
    <2> DEFINE ks == IF e.text THEN <<"text">> ELSE <<>>
               t == [s EXCEPT !.finish = @ \/ e.finish]
    <2>0. e.text \in BOOLEAN /\ e.finish \in BOOLEAN /\ (e.finish => w)
        BY <1>2 DEF Streams!ChatEvents, Streams!ChatEnds
    <2>1. Streams!MiniMaxStep(s, e) = Streams!Take(t, ks)
        BY <1>2 DEF Streams!MiniMaxStep
    <2>2. ks \in Seq({"text"})
        <3>1. CASE e.text
            BY <3>1
        <3>2. CASE ~e.text
            BY <3>2
        <3> QED BY <3>1, <3>2
    <2>3. t \in Parsers /\ (t.finish => w) /\ (t.text => t.started)
        BY <2>0 DEF Parsers
    <2> HIDE DEF t, ks
    <2> QED BY <2>1, <2>2, <2>3, AfterTypes DEF FitsBare, Streams!Take
<1> QED BY <1>1, <1>2 DEF Streams!ChatEvents

\* The parser of gemini gives text alone.
LEMMA GeminiFits ==
    ASSUME NEW s \in Parsers, s.text => s.started, NEW e \in Streams!GeminiEvents,
           NEW w \in BOOLEAN, e.type = "part" /\ e.finish => w
    PROVE  FitsBare(Streams!GeminiStep(s, e), w)
<1>1. CASE e.type = "malformed"
    BY <1>1, AfterTypes DEF Streams!GeminiStep, FitsBare, Streams!Refuse
<1>2. CASE e.type = "part"
    <2> DEFINE ks == IF e.text THEN <<"text">> ELSE <<>>
    <2>1. Streams!GeminiStep(s, e) = IF e.finish THEN Streams!Finish(s, ks) ELSE Streams!Take(s, ks)
        BY <1>2 DEF Streams!GeminiStep
    <2>2. ks \in Seq({"text"})
        <3>1. CASE e.text
            BY <3>1
        <3>2. CASE ~e.text
            BY <3>2
        <3> QED BY <3>1, <3>2
    <2> HIDE DEF ks
    <2> QED BY <1>2, <2>1, <2>2, AfterTypes DEF FitsBare, Streams!Take, Streams!Finish
<1> QED BY <1>1, <1>2 DEF Streams!GeminiEvents

\* A whole answer: the start, the text and usage, and an end.
LEMMA EmitEnd ==
    ASSUME NEW from \in Parsers, ~from.started, NEW w \in BOOLEAN, NEW ks \in Seq(Streams!Kinds),
           Len(ks) > 1, ks[1] = "started", ks[Len(ks)] \in Ending, ks[Len(ks)] = "completed" => w,
           \A i \in 2..Len(ks) - 1 : ks[i] \in {"text", "usage"}
    PROVE  Emittable(ks, Streams!Done, from, w)
<1>1. \A i \in 1..Len(ks) : i = 1 \/ i = Len(ks) \/ i \in 2..Len(ks) - 1
    OBVIOUS
<1> QED BY <1>1 DEF Emittable, Ending

\* Half an answer: the start and some text or usage, and no end.
LEMMA EmitError ==
    ASSUME NEW from \in Parsers, ~from.started, NEW w \in BOOLEAN, NEW ks \in Seq(Streams!Kinds),
           NEW x, x # Streams!Done, Len(ks) > 0 => ks[1] = "started",
           \A i \in 2..Len(ks) : ks[i] \in {"text", "usage"}
    PROVE  Emittable(ks, x, from, w)
<1>1. \A i \in 1..Len(ks) : i = 1 \/ i \in 2..Len(ks)
    OBVIOUS
<1> QED BY <1>1 DEF Emittable, Ending

\* The bodies that are read to their end, and those that fail on the way.
Tales == {<<"started", "usage", "text", "completed">>, <<"started", "text", "usage", "completed">>,
          <<"started", "usage", "completed">>, <<"started", "usage", "error">>,
          <<"started", "usage", "cancelled">>}
Stubs == {<<>>, <<"started">>, <<"started", "usage", "text">>, <<"started", "text", "usage">>}

\* The bodies read to their end are whole answers.
LEMMA TalesEmit ==
    ASSUME NEW from \in Parsers, ~from.started, NEW w \in BOOLEAN, w, NEW ks \in Tales
    PROVE  Emittable(ks, Streams!Done, from, w)
<1>1. CASE ks = <<"started", "usage", "text", "completed">>
    <2>1. ks \in Seq(Streams!Kinds) /\ Len(ks) = 4 /\ ks[1] = "started" /\ ks[2] = "usage"
          /\ ks[3] = "text" /\ ks[4] = "completed"
        BY <1>1 DEF Streams!Kinds
    <2>2. /\ Len(ks) > 1 /\ ks[Len(ks)] \in Ending
          /\ \A i \in 2..Len(ks) - 1 : ks[i] \in {"text", "usage"}
        BY <2>1 DEF Ending
    <2> QED BY <2>1, <2>2, EmitEnd
<1>2. CASE ks = <<"started", "text", "usage", "completed">>
    <2>1. ks \in Seq(Streams!Kinds) /\ Len(ks) = 4 /\ ks[1] = "started" /\ ks[2] = "text"
          /\ ks[3] = "usage" /\ ks[4] = "completed"
        BY <1>2 DEF Streams!Kinds
    <2>2. /\ Len(ks) > 1 /\ ks[Len(ks)] \in Ending
          /\ \A i \in 2..Len(ks) - 1 : ks[i] \in {"text", "usage"}
        BY <2>1 DEF Ending
    <2> QED BY <2>1, <2>2, EmitEnd
<1>3. CASE ks = <<"started", "usage", "completed">>
    <2>1. ks \in Seq(Streams!Kinds) /\ Len(ks) = 3 /\ ks[1] = "started" /\ ks[2] = "usage"
          /\ ks[3] = "completed"
        BY <1>3 DEF Streams!Kinds
    <2>2. /\ Len(ks) > 1 /\ ks[Len(ks)] \in Ending
          /\ \A i \in 2..Len(ks) - 1 : ks[i] \in {"text", "usage"}
        BY <2>1 DEF Ending
    <2> QED BY <2>1, <2>2, EmitEnd
<1>4. CASE ks = <<"started", "usage", "error">>
    <2>1. ks \in Seq(Streams!Kinds) /\ Len(ks) = 3 /\ ks[1] = "started" /\ ks[2] = "usage"
          /\ ks[3] = "error"
        BY <1>4 DEF Streams!Kinds
    <2>2. /\ Len(ks) > 1 /\ ks[Len(ks)] \in Ending
          /\ \A i \in 2..Len(ks) - 1 : ks[i] \in {"text", "usage"}
        BY <2>1 DEF Ending
    <2> QED BY <2>1, <2>2, EmitEnd
<1>5. CASE ks = <<"started", "usage", "cancelled">>
    <2>1. ks \in Seq(Streams!Kinds) /\ Len(ks) = 3 /\ ks[1] = "started" /\ ks[2] = "usage"
          /\ ks[3] = "cancelled"
        BY <1>5 DEF Streams!Kinds
    <2>2. /\ Len(ks) > 1 /\ ks[Len(ks)] \in Ending
          /\ \A i \in 2..Len(ks) - 1 : ks[i] \in {"text", "usage"}
        BY <2>1 DEF Ending
    <2> QED BY <2>1, <2>2, EmitEnd
<1> QED BY <1>1, <1>2, <1>3, <1>4, <1>5 DEF Tales

\* Those that fail on the way are half an answer at most.
LEMMA StubsEmit ==
    ASSUME NEW from \in Parsers, ~from.started, NEW w \in BOOLEAN, NEW ks \in Stubs, NEW x,
        x # Streams!Done
    PROVE  Emittable(ks, x, from, w)
<1>1. CASE ks = <<>>
    <2>1. ks \in Seq(Streams!Kinds) /\ Len(ks) = 0
        BY <1>1
    <2>2. (Len(ks) > 0 => ks[1] = "started") /\ \A i \in 2..Len(ks) : ks[i] \in {"text", "usage"}
        BY <2>1
    <2> QED BY <2>1, <2>2, EmitError
<1>2. CASE ks = <<"started">>
    <2>1. ks \in Seq(Streams!Kinds) /\ Len(ks) = 1 /\ ks[1] = "started"
        BY <1>2 DEF Streams!Kinds
    <2> QED BY <2>1, EmitError
<1>3. CASE ks = <<"started", "usage", "text">>
    <2>1. ks \in Seq(Streams!Kinds) /\ Len(ks) = 3 /\ ks[1] = "started" /\ ks[2] = "usage"
          /\ ks[3] = "text"
        BY <1>3 DEF Streams!Kinds
    <2> QED BY <2>1, EmitError
<1>4. CASE ks = <<"started", "text", "usage">>
    <2>1. ks \in Seq(Streams!Kinds) /\ Len(ks) = 3 /\ ks[1] = "started" /\ ks[2] = "text"
          /\ ks[3] = "usage"
        BY <1>4 DEF Streams!Kinds
    <2> QED BY <2>1, EmitError
<1> QED BY <1>1, <1>2, <1>3, <1>4 DEF Stubs

\* Three adapters tell a JSON body from the start to the end; it is whole if the server
\* sent it whole.
LEMMA JsonTells ==
    ASSUME NEW b \in Streams!Bodies, asked.protocol \in {"anthropic", "responses", "compatible"}
    PROVE  \/ /\ Streams!Json(b).emits \in Tales /\ Streams!Json(b).then = Streams!Done
              /\ b \notin {"bad", "half"}
           \/ Streams!Json(b).emits \in Stubs /\ Streams!Json(b).then \in {Streams!Invalid, Streams!Err("empty", FALSE)}
<1>1. CASE asked.protocol = "anthropic"
    <2>1. Streams!Json(b) = Streams!AnthropicJson(b)
        BY <1>1 DEF Streams!Json, Streams!p
    <2> QED BY <2>1 DEF Streams!AnthropicJson, Streams!Answer, Tales, Stubs
<1>2. CASE asked.protocol = "responses"
    <2>1. Streams!Json(b) = Streams!ResponsesJson(b)
        BY <1>2 DEF Streams!Json, Streams!p
    <2> QED BY <2>1 DEF Streams!ResponsesJson, Streams!Answer, Tales, Stubs
<1>3. CASE asked.protocol = "compatible"
    <2>1. Streams!Json(b) = Streams!CompatibleJson(b)
        BY <1>3 DEF Streams!Json, Streams!p
    <2> QED BY <2>1 DEF Streams!CompatibleJson, Streams!Answer, Tales, Stubs
<1> QED BY <1>1, <1>2, <1>3

\* The other two give its text only, and none of a body that was cut off.
LEMMA JsonBare ==
    ASSUME NEW b \in Streams!Bodies, asked.protocol \in {"gemini", "minimax"}
    PROVE  /\ Streams!Json(b).emits \in Seq({"text"})
           /\ Streams!Json(b).then \in {Streams!Done, Streams!Invalid}
           /\ Streams!Json(b).then = Streams!Done /\ b \in {"bad", "half"} => Len(Streams!Json(b).emits) = 0
<1>1. CASE asked.protocol = "gemini"
    <2>1. Streams!Json(b) = Streams!GeminiJson(b)
        BY <1>1 DEF Streams!Json, Streams!p
    <2>2. <<>> \in Seq({"text"}) /\ <<"text">> \in Seq({"text"}) /\ Len(<<>>) = 0
        OBVIOUS
    <2>3. \/ Streams!GeminiJson(b).emits = <<>> /\ Streams!GeminiJson(b).then \in {Streams!Invalid, Streams!Done}
          \/ /\ Streams!GeminiJson(b).emits = <<"text">> /\ Streams!GeminiJson(b).then = Streams!Done
             /\ b \notin {"bad", "half"}
        BY DEF Streams!GeminiJson, Streams!Answer
    <2>4. Streams!Invalid # Streams!Done
        BY AfterTypes
    <2> QED BY <2>1, <2>2, <2>3, <2>4
<1>2. CASE asked.protocol = "minimax"
    <2>1. Streams!Json(b) = Streams!MiniMaxJson(b)
        BY <1>2 DEF Streams!Json, Streams!p
    <2>2. <<>> \in Seq({"text"}) /\ <<"text">> \in Seq({"text"}) /\ Len(<<>>) = 0
        OBVIOUS
    <2>3. \/ Streams!MiniMaxJson(b).emits = <<>> /\ Streams!MiniMaxJson(b).then \in {Streams!Invalid, Streams!Done}
          \/ /\ Streams!MiniMaxJson(b).emits = <<"text">> /\ Streams!MiniMaxJson(b).then = Streams!Done
             /\ b \notin {"bad", "half"}
        BY DEF Streams!MiniMaxJson, Streams!Answer
    <2>4. Streams!Invalid # Streams!Done
        BY AfterTypes
    <2> QED BY <2>1, <2>2, <2>3, <2>4
<1> QED BY <1>1, <1>2

\* The end of a body gives an end only when the server has ended its answer.
LEMMA EndOfFits ==
    ASSUME NEW s \in Parsers, s.text => s.started, NEW w \in BOOLEAN,
           s.finish /\ asked.protocol \in {"compatible", "minimax"} => w
    PROVE  /\ asked.protocol \in {"anthropic", "responses", "compatible"} => Fits(Streams!EndOf(s), s, w)
           /\ asked.protocol \in {"gemini", "minimax"} => FitsBare(Streams!EndOf(s), w)
           /\ Streams!EndOf(s).parsed = s
<1>1. CASE asked.protocol = "compatible"
    <2>1. Streams!EndOf(s) = Streams!CompatibleEnd(s)
        BY <1>1 DEF Streams!EndOf, Streams!p
    <2>2. Streams!CompatibleEnd(s).parsed = s
        BY DEF Streams!CompatibleEnd, Streams!Refuse, Streams!Finish
    <2> QED BY <1>1, <2>1, <2>2, CompatibleEndFits
<1>2. CASE asked.protocol = "minimax"
    <2>1. Streams!EndOf(s) = IF s.finish THEN Streams!Finish(s, <<>>) ELSE Streams!Refuse(s)
        BY <1>2 DEF Streams!EndOf, Streams!p
    <2> QED BY <1>2, <2>1, AfterTypes DEF FitsBare, Streams!Refuse, Streams!Finish
<1>3. CASE asked.protocol \notin {"compatible", "minimax"}
    <2>1. Streams!EndOf(s) = Streams!Refuse(s)
        BY <1>3 DEF Streams!EndOf, Streams!p
    <2>2. Fits(Streams!Refuse(s), s, w)
        BY RefuseFits, AfterTypes
    <2>3. FitsBare(Streams!Refuse(s), w) /\ Streams!Refuse(s).parsed = s
        BY AfterTypes DEF FitsBare, Streams!Refuse
    <2> QED BY <1>3, <2>1, <2>2, <2>3
<1> QED BY <1>1, <1>2, <1>3

\* Every event of every server leaves events in order.
LEMMA StepOfFits ==
    ASSUME parsed \in Parsers, parsed.text => parsed.started, NEW w \in BOOLEAN,
           parsed.finish /\ asked.protocol \in {"compatible", "minimax"} => w,
           asked.protocol \in {"gemini", "anthropic", "responses", "compatible", "minimax"},
           NEW e \in Streams!ServerEvents, Streams!Ends(e) => w
    PROVE  /\ asked.protocol \in {"anthropic", "responses", "compatible"} => Fits(Streams!StepOf(e), parsed, w)
           /\ asked.protocol \in {"gemini", "minimax"} => FitsBare(Streams!StepOf(e), w)
           /\ Streams!StepOf(e).parsed.finish /\ asked.protocol \in {"compatible", "minimax"} => w
<1>1. CASE asked.protocol = "anthropic"
    <2>1. e \in Streams!AnthropicEvents /\ (e.type = "message_stop" => w)
          /\ Streams!StepOf(e) = Streams!AnthropicStep(parsed, e)
        BY <1>1 DEF Streams!StepOf, Streams!p, Streams!ServerEvents, Streams!Ends
    <2> QED BY <1>1, <2>1, AnthropicFits
<1>2. CASE asked.protocol = "responses"
    <2>1. /\ e \in Streams!ResponsesEvents /\ (e.type \in {"completed", "incomplete", "failed", "error"} => w)
          /\ Streams!StepOf(e) = Streams!ResponsesStep(parsed, e)
        BY <1>2 DEF Streams!StepOf, Streams!p, Streams!ServerEvents, Streams!Ends
    <2> QED BY <1>2, <2>1, ResponsesFits
<1>3. CASE asked.protocol = "compatible"
    <2>1. e \in Streams!ChatEvents /\ (Streams!ChatEnds(e) => w)
          /\ Streams!StepOf(e) = Streams!CompatibleStep(parsed, e)
        BY <1>3 DEF Streams!StepOf, Streams!p, Streams!ServerEvents, Streams!Ends
    <2> QED BY <1>3, <2>1, CompatibleFits
<1>4. CASE asked.protocol = "minimax"
    <2>1. e \in Streams!ChatEvents /\ (Streams!ChatEnds(e) => w)
          /\ Streams!StepOf(e) = Streams!MiniMaxStep(parsed, e)
        BY <1>4 DEF Streams!StepOf, Streams!p, Streams!ServerEvents, Streams!Ends
    <2> QED BY <1>4, <2>1, MiniMaxFits
<1>5. CASE asked.protocol = "gemini"
    <2>1. e \in Streams!GeminiEvents /\ (e.type = "part" /\ e.finish => w)
          /\ Streams!StepOf(e) = Streams!GeminiStep(parsed, e)
        BY <1>5 DEF Streams!StepOf, Streams!p, Streams!ServerEvents, Streams!Ends
    <2> QED BY <1>5, <2>1, GeminiFits
<1> QED BY <1>1, <1>2, <1>3, <1>4, <1>5

----------------------------------------------------------------------------
(* Its invariant. *)

\* The adapters that open and end the call themselves.
Bare == asked.protocol \in {"gemini", "minimax"}

\* The events of the attempt, those shown and those still to be.
Told == Len(out) + Len(pending)
Tells(i) == IF i <= Len(out) THEN out[i].kind ELSE pending[i - Len(out)]

StreamTypes ==
    /\ asked.protocol \in {"gemini", "anthropic", "responses", "compatible", "minimax"}
    /\ phase \in {"idle", "sending", "reading", "waiting", "over"}
    /\ attempt \in Nat \ {0} /\ cancelled \in BOOLEAN /\ whole \in BOOLEAN
    /\ parsed \in Parsers /\ after \in Afters
    /\ pending \in Seq(Streams!Kinds)
    /\ out \in Seq([kind : Streams!Kinds, try : Nat])

\* The place of an event in the answer.
Piece(i) ==
    /\ Tells(i) \in {"started", "text", "usage"} \cup Ending
    /\ Tells(i) = "started" <=> i = 1
    /\ Tells(i) \in Ending => i = Told /\ after = Streams!Done
    /\ Tells(i) = "completed" => whole
    /\ Bare => Tells(i) \in {"started", "text"}
    /\ Bare /\ after = Streams!Done /\ ~whole => Tells(i) # "text"

\* While an answer is read every event has its place, the parser knows whether the start
\* has been announced, and an answer that is done has its end.
ReadingInv == phase = "reading" =>
    /\ \A i \in 1..Told : Piece(i)
    /\ Bare => Len(out) > 0
    /\ ~Bare /\ after = Streams!ReadOn => (Told > 0 <=> parsed.started)
    /\ ~Bare /\ after = Streams!Done => Told > 0 /\ Tells(Told) \in Ending

\* A parser remembers text only after the start, and a finish only of a whole answer.
ParsedInv ==
    /\ parsed.text => parsed.started
    /\ parsed.finish /\ asked.protocol \in {"compatible", "minimax"} => whole

\* A call that is not read has shown its opening and no more, until it is over.
Opened == IF Bare THEN Len(out) = 1 /\ out[1].kind = "started" ELSE Len(out) = 0
RestInv ==
    /\ phase = "idle" => Len(out) = 0
    /\ phase \in {"sending", "waiting"} => Opened
    /\ phase # "reading" => pending = <<>>
    /\ phase \in {"idle", "sending"} => after = Streams!ReadOn /\ parsed = Streams!Fresh
    /\ phase = "over" => WellFormed

\* All that is shown after the opening is of this attempt.
OneAttempt == \A i \in 2..Len(out) : out[i].try = attempt

StreamsInv == StreamTypes /\ ReadingInv /\ ParsedInv /\ RestInv /\ OneAttempt

\* What is yielded comes after what was, with the attempt it is from.
LEMMA YieldsMore ==
    ASSUME StreamTypes, NEW ks \in Seq(Streams!Kinds), Streams!Yields(ks)
    PROVE  /\ out' \in Seq([kind : Streams!Kinds, try : Nat])
           /\ Len(out') = Len(out) + Len(ks)
           /\ \A i \in 1..Len(out) : out'[i] = out[i]
           /\ \A i \in 1..Len(ks) : out'[Len(out) + i].kind = ks[i]
           /\ \A i \in 1..Len(out') : i \notin 1..Len(out) => /\ i - Len(out) \in 1..Len(ks)
                                                              /\ out'[i].kind = ks[i - Len(out)]
                                                              /\ out'[i].try = attempt
<1> DEFINE es == [i \in 1..Len(ks) |-> [kind |-> ks[i], try |-> attempt]]
<1>1. /\ es \in Seq([kind : Streams!Kinds, try : Nat]) /\ Len(es) = Len(ks)
      /\ \A i \in 1..Len(ks) : es[i].kind = ks[i] /\ es[i].try = attempt
    BY DEF StreamTypes
<1>2. out' = out \o es
    BY DEF Streams!Yields
<1> HIDE DEF es
<1>3. out \in Seq([kind : Streams!Kinds, try : Nat]) /\ Len(out) \in Nat /\ Len(ks) \in Nat
    BY DEF StreamTypes
<1>4. /\ out' \in Seq([kind : Streams!Kinds, try : Nat])
      /\ Len(out') = Len(out) + Len(ks)
      /\ \A i \in 1..Len(out) : out'[i] = out[i]
      /\ \A i \in 1..Len(ks) : out'[Len(out) + i] = es[i]
    <2> DEFINE S == [kind : Streams!Kinds, try : Nat]
    <2>1. out \in Seq(S) /\ es \in Seq(S)
        BY <1>1, <1>3
    <2> HIDE DEF S
    <2>2. /\ out \o es \in Seq(S) /\ Len(out \o es) = Len(out) + Len(es)
          /\ \A i \in 1..Len(out) + Len(es) :
                (out \o es)[i] = IF i <= Len(out) THEN out[i] ELSE es[i - Len(out)]
        BY <2>1, ConcatProperties
    <2>3. \A i \in 1..Len(out) : out'[i] = out[i]
        BY <1>1, <1>2, <1>3, <2>2
    <2>4. \A i \in 1..Len(ks) : out'[Len(out) + i] = es[i]
        BY <1>1, <1>2, <1>3, <2>2
    <2> QED BY <1>1, <1>2, <2>2, <2>3, <2>4 DEF S
<1>5. ASSUME NEW i \in 1..Len(out'), i \notin 1..Len(out)
      PROVE  /\ i - Len(out) \in 1..Len(ks) /\ out'[i].kind = ks[i - Len(out)] /\ out'[i].try = attempt
    <2>1. i - Len(out) \in 1..Len(ks) /\ i = Len(out) + (i - Len(out))
        BY <1>3, <1>4, <1>5
    <2>2. out'[i] = es[i - Len(out)]
        BY <1>4, <2>1
    <2> QED BY <1>1, <2>1, <2>2
<1> QED BY <1>1, <1>4, <1>5

\* Nothing has ended yet.
Open == \A i \in 1..Len(out) : /\ out[i].kind \in {"started", "text", "usage"}
                               /\ out[i].kind = "started" <=> i = 1

\* What may be yielded last.
Last1(ks) ==
    /\ ks \in Seq(Streams!Kinds)
    /\ \A i \in 1..Len(ks) :
          /\ ks[i] = "started" => i = 1 /\ Len(out) = 0
          /\ ks[i] \notin {"text", "usage"}
          /\ ks[i] = "completed" => whole /\ Len(out) > 0
          /\ ks[i] \in Streams!Terminal => i = Len(ks)
    /\ cancelled \/ (Len(ks) > 0 /\ ks[Len(ks)] \in {"completed", "error", "raised", "cancelled", "models"})

\* What the adapters yield at the end of a call may be yielded last.
LEMMA LastKinds ==
    ASSUME StreamTypes
    PROVE  /\ Last1(<<"raised">>) /\ Last1(<<"error">>) /\ Last1(<<"models">>) /\ Last1(<<"cancelled">>)
           /\ cancelled => Last1(<<>>)
           /\ whole /\ Len(out) > 0 => Last1(<<"completed">>)
           /\ Len(out) = 0 => /\ Last1(<<"started", "error">>) /\ Last1(<<"started", "raised">>)
                              /\ Last1(<<"started", "cancelled">>)
    BY DEF Last1, Streams!Terminal, Streams!Kinds

\* A call of which nothing has ended yet is well-formed when it is over.
LEMMA OverWell ==
    ASSUME StreamTypes, OneAttempt, Open, NEW ks, Last1(ks), Streams!Over(ks),
           UNCHANGED <<asked, attempt, cancelled, parsed, after, whole>>, ParsedInv
    PROVE  StreamsInv'
<1>1. /\ ks \in Seq(Streams!Kinds) /\ phase' = "over" /\ pending' = <<>> /\ Streams!Yields(ks)
    BY DEF Last1, Streams!Over
<1>2. /\ out' \in Seq([kind : Streams!Kinds, try : Nat])
      /\ Len(out') = Len(out) + Len(ks)
      /\ \A i \in 1..Len(out) : out'[i] = out[i]
      /\ \A i \in 1..Len(ks) : out'[Len(out) + i].kind = ks[i]
      /\ \A i \in 1..Len(out') : i \notin 1..Len(out) => /\ i - Len(out) \in 1..Len(ks)
                                                         /\ out'[i].kind = ks[i - Len(out)]
                                                         /\ out'[i].try = attempt
    BY <1>1, YieldsMore
<1>3. StreamTypes'
    <2>1. pending' \in Seq(Streams!Kinds) /\ phase' \in {"over"}
        BY <1>1
    <2>2. out' \in Seq([kind : Streams!Kinds, try : Nat])
        BY <1>2
    <2>3. /\ asked' = asked /\ attempt' = attempt /\ cancelled' = cancelled /\ parsed' = parsed
          /\ after' = after /\ whole' = whole
        OBVIOUS
    <2> QED BY <2>1, <2>2, <2>3, Zenon DEF StreamTypes
<1>4. ReadingInv' /\ ParsedInv' /\ OneAttempt'
    <2>1. ReadingInv'
        BY <1>1 DEF ReadingInv
    <2>2. ParsedInv'
        BY Zenon DEF ParsedInv
    <2>3. OneAttempt'
        <3> SUFFICES ASSUME NEW i \in 2..Len(out') PROVE out'[i].try = attempt
            BY DEF OneAttempt
        <3>1. Len(out) \in Nat /\ Len(out') \in Nat
            BY <1>2 DEF StreamTypes
        <3>2. i \in 2..Len(out) \/ (i \in 1..Len(out') /\ i \notin 1..Len(out))
            BY <3>1
        <3>3. CASE i \in 2..Len(out)
            <4>1. i \in 1..Len(out)
                BY <3>1, <3>3
            <4>2. out'[i] = out[i]
                BY <1>2, <4>1
            <4> QED BY <3>3, <4>2 DEF OneAttempt
        <3>4. CASE i \in 1..Len(out') /\ i \notin 1..Len(out)
            BY <1>2, <3>4
        <3> QED BY <3>2, <3>3, <3>4
    <2> QED BY <2>1, <2>2, <2>3
<1>5. WellFormed'
    <2>1. Len(out) \in Nat /\ Len(ks) \in Nat /\ DOMAIN out' = 1..Len(out')
        BY <1>1, <1>2 DEF StreamTypes
    <2>2. \A i \in 1..Len(out') : out'[i].kind = "started" => i = 1
        <3>1. ASSUME NEW i \in 1..Len(out), out'[i].kind = "started" PROVE i = 1
            <4>1. out[i].kind = "started"
                BY <1>2, <3>1
            <4> QED BY <4>1 DEF Open
        <3>2. ASSUME NEW i \in 1..Len(out'), i \notin 1..Len(out), out'[i].kind = "started" PROVE i = 1
            <4>1. i - Len(out) \in 1..Len(ks) /\ ks[i - Len(out)] = "started"
                BY <1>2, <3>2
            <4> QED BY <2>1, <4>1 DEF Last1
        <3> QED BY <3>1, <3>2, Zenon
    <2>3. \A i \in 1..Len(out') : out'[i].kind \in {"text", "usage", "completed"} => i > 1 /\ out'[1].kind = "started"
        <3>1. Len(out) > 0 => out'[1].kind = "started"
            <4>1. Len(out) > 0 => 1 \in 1..Len(out)
                BY <2>1
            <4>2. 1 \in 1..Len(out) => out'[1] = out[1]
                BY <1>2
            <4> QED BY <4>1, <4>2 DEF Open
        <3>2. ASSUME NEW i \in 1..Len(out), out'[i].kind \in {"text", "usage", "completed"} PROVE i > 1
            BY <1>2, <3>2 DEF Open
        <3>3. ASSUME NEW i \in 1..Len(out'), i \notin 1..Len(out), out'[i].kind \in {"text", "usage", "completed"}
              PROVE  i > 1 /\ Len(out) > 0
            BY <1>2, <2>1, <3>3 DEF Last1
        <3> QED BY <2>1, <3>1, <3>2, <3>3
    <2>4. \A i \in 1..Len(out') : out'[i].kind \in Streams!Terminal => i = Len(out')
        <3>1. ASSUME NEW i \in 1..Len(out), out'[i].kind \in Streams!Terminal PROVE FALSE
            BY <1>2, <3>1 DEF Open, Streams!Terminal
        <3>2. ASSUME NEW i \in 1..Len(out'), i \notin 1..Len(out), out'[i].kind \in Streams!Terminal
              PROVE  i = Len(out')
            <4>1. i - Len(out) \in 1..Len(ks) /\ ks[i - Len(out)] \in Streams!Terminal
                BY <1>2, <3>2
            <4>2. i - Len(out) = Len(ks)
                BY <4>1 DEF Last1
            <4> QED BY <1>2, <2>1, <4>2
        <3> QED BY <2>1, <3>1, <3>2
    <2>5. ~cancelled' => Len(out') > 0
          /\ out'[Len(out')].kind \in Streams!Terminal \cup {"cancelled", "models"}
        BY <1>2, <2>1 DEF Last1, Streams!Terminal
    <2>6. \A i \in 1..Len(out') : out'[i].kind = "completed" => whole'
        <3>1. ASSUME NEW i \in 1..Len(out), out'[i].kind = "completed" PROVE FALSE
            BY <1>2, <3>1 DEF Open
        <3>2. ASSUME NEW i \in 1..Len(out'), i \notin 1..Len(out), out'[i].kind = "completed" PROVE whole'
            <4>1. i - Len(out) \in 1..Len(ks) /\ ks[i - Len(out)] = "completed"
                BY <1>2, <3>2
            <4> QED BY <4>1 DEF Last1
        <3> QED BY <2>1, <3>1, <3>2
    <2> QED BY <2>1, <2>2, <2>3, <2>4, <2>5, <2>6, <1>2 DEF WellFormed, Streams!WellFormed,
        Streams!Positions, Streams!Last
<1>6. RestInv'
    BY <1>1, <1>5 DEF RestInv
<1> QED BY <1>3, <1>4, <1>6 DEF StreamsInv

\* Nothing has ended before the last event of a whole answer.
LEMMA StillOpen ==
    ASSUME StreamsInv,
           \/ phase \in {"idle", "sending", "waiting"}
           \/ phase = "reading" /\ (pending # <<>> \/ after # Streams!Done \/ Bare)
    PROVE  Open
<1>0. /\ out \in Seq([kind : Streams!Kinds, try : Nat]) /\ Len(out) \in Nat
      /\ pending \in Seq(Streams!Kinds) /\ Len(pending) \in Nat
      /\ pending # <<>> => Len(pending) > 0
    BY DEF StreamsInv, StreamTypes
<1>1. CASE phase = "idle"
    BY <1>1 DEF StreamsInv, RestInv, Open
<1>2. CASE phase \in {"sending", "waiting"}
    BY <1>0, <1>2 DEF StreamsInv, RestInv, Opened, Open
<1>3. CASE phase = "reading" /\ (pending # <<>> \/ after # Streams!Done \/ Bare)
    <2> SUFFICES ASSUME NEW i \in 1..Len(out)
                 PROVE  /\ out[i].kind \in {"started", "text", "usage"}
                        /\ out[i].kind = "started" <=> i = 1
        BY DEF Open
    <2>1. i \in 1..Told /\ Tells(i) = out[i].kind
        BY <1>0 DEF Told, Tells
    <2>2. Piece(i)
        BY <1>3, <2>1 DEF StreamsInv, ReadingInv
    <2>3. out[i].kind \notin Ending
        <3>1. pending # <<>> => i # Told
            BY <1>0 DEF Told
        <3>2. Bare => out[i].kind \notin Ending
            BY <2>1, <2>2 DEF Piece, Ending
        <3> QED BY <1>3, <2>1, <2>2, <3>1, <3>2 DEF Piece
    <2> QED BY <2>1, <2>2, <2>3 DEF Piece
<1> QED BY <1>1, <1>2, <1>3

\* What each adapter yields of its own may be yielded last.
LEMMA CallEnds ==
    ASSUME StreamTypes
    PROVE  /\ Last1(Streams!Call.fails)
           /\ cancelled => Last1(Streams!Call.cancelled)
           /\ Len(out) = 0 => Last1(Streams!Call.refused) /\ (cancelled => Last1(Streams!Call.early))
<1>0. Len(out) = 0 <=> out = <<>>
    BY DEF StreamTypes
<1>1. CASE asked.protocol = "gemini"
    BY <1>1, LastKinds DEF Streams!Call, Streams!p, Streams!GeminiCall
<1>2. CASE asked.protocol = "anthropic"
    BY <1>0, <1>2, LastKinds DEF Streams!Call, Streams!p, Streams!AnthropicCall
<1>3. CASE asked.protocol = "responses"
    BY <1>3, LastKinds DEF Streams!Call, Streams!p, Streams!ResponsesCall
<1>4. CASE asked.protocol = "compatible"
    BY <1>4, LastKinds DEF Streams!Call, Streams!p, Streams!CompatibleCall
<1>5. CASE asked.protocol = "minimax"
    BY <1>5, LastKinds DEF Streams!Call, Streams!p, Streams!MiniMaxCall
<1> QED BY <1>1, <1>2, <1>3, <1>4, <1>5 DEF StreamTypes

\* How a call opens, and what it has shown that forbids another attempt: anything, or
\* only text in an adapter that shows its start at once.
LEMMA CallShape ==
    ASSUME StreamTypes
    PROVE  /\ Bare => Streams!Call.shown = {"text"} /\ Streams!Call.opens = <<"started">>
           /\ ~Bare => Streams!Call.opens = <<>>
           /\ ~Bare => Streams!Call.shown = Streams!Kinds \/ Streams!Call.tries = 1
           /\ Streams!Call.tries \in Nat
<1>0. MaxAttempts \in Nat
    BY StreamsAssumption DEF Streams!ProviderAssumption
<1>1. CASE asked.protocol = "gemini"
    BY <1>0, <1>1 DEF Bare, Streams!Call, Streams!p, Streams!GeminiCall
<1>2. CASE asked.protocol = "anthropic"
    BY <1>0, <1>2 DEF Bare, Streams!Call, Streams!p, Streams!AnthropicCall
<1>3. CASE asked.protocol = "responses"
    BY <1>0, <1>3 DEF Bare, Streams!Call, Streams!p, Streams!ResponsesCall
<1>4. CASE asked.protocol = "compatible"
    BY <1>0, <1>4 DEF Bare, Streams!Call, Streams!p, Streams!CompatibleCall
<1>5. CASE asked.protocol = "minimax"
    BY <1>0, <1>5 DEF Bare, Streams!Call, Streams!p, Streams!MiniMaxCall
<1> QED BY <1>1, <1>2, <1>3, <1>4, <1>5 DEF StreamTypes

\* A call is repeated only when nothing but its opening has been shown.
LEMMA FailKeeps ==
    ASSUME StreamsInv, Open, NEW e, Streams!Fail(e),
           phase = "sending" \/ (phase = "reading" /\ pending = <<>> /\ (~Bare => after # Streams!Done)),
           UNCHANGED <<asked, attempt, cancelled, parsed, after, whole>>
    PROVE  StreamsInv'
<1>0. StreamTypes /\ OneAttempt /\ ParsedInv
    BY DEF StreamsInv
<1>1. CASE Streams!Over(Streams!Call.cancelled) /\ cancelled
    BY <1>0, <1>1, CallEnds, OverWell
<1>2. CASE Streams!Over(Streams!Call.fails)
    BY <1>0, <1>2, CallEnds, OverWell
<1>3. CASE /\ ~Streams!Yielded /\ attempt < Streams!Call.tries
           /\ phase' = "waiting" /\ pending' = <<>> /\ out' = out
    <2>1. Opened
        <3>1. CASE phase = "sending"
            BY <3>1 DEF StreamsInv, RestInv
        <3>2. CASE phase = "reading" /\ Bare
            <4>1. Streams!Call.shown = {"text"}
                BY <1>0, <3>2, CallShape
            <4>2. \A i \in 1..Len(out) : out[i].kind # "text"
                BY <1>0, <1>3, <4>1 DEF Streams!Yielded, StreamTypes
            <4>3. Len(out) > 0 /\ \A i \in 1..Len(out) : out[i].kind \in {"started", "text"}
                <5>1. \A i \in 1..Len(out) : i \in 1..Told /\ Tells(i) = out[i].kind
                    BY <1>0 DEF Told, Tells, StreamTypes
                <5> QED BY <3>2, <5>1 DEF StreamsInv, ReadingInv, Piece
            <4>4. \A i \in 1..Len(out) : i = 1 /\ out[i].kind = "started"
                BY <4>2, <4>3 DEF Open
            <4>5. Len(out) \in Nat
                BY <1>0 DEF StreamTypes
            <4>6. 1 \in 1..Len(out) /\ (Len(out) >= 2 => 2 \in 1..Len(out))
                BY <4>3, <4>5
            <4>7. Len(out) = 1 /\ out[1].kind = "started"
                <5>1. Len(out) > 0 /\ ~(Len(out) >= 2)
                    BY <4>3, <4>4, <4>6
                <5>2. out[1].kind = "started"
                    BY <4>4, <4>6
                <5>3. \A n \in Nat : n > 0 /\ ~(n >= 2) => n = 1
                    OBVIOUS
                <5>4. Len(out) = 1
                    BY <4>5, <5>1, <5>3
                <5> QED BY <5>2, <5>4
            <4> QED BY <3>2, <4>7 DEF Opened
        <3>3. CASE ~Bare
            <4>1. Streams!Call.shown = Streams!Kinds \/ Streams!Call.tries = 1
                BY <1>0, <3>3, CallShape DEF Bare, StreamTypes
            <4>2. Streams!Call.shown = Streams!Kinds
                BY <1>0, <1>3, <4>1 DEF StreamTypes
            <4>3. Len(out) = 0
                <5>1. Len(out) \in Nat /\ DOMAIN out = 1..Len(out)
                    BY <1>0 DEF StreamTypes
                <5>2. \A i \in 1..Len(out) : out[i] \in [kind : Streams!Kinds, try : Nat]
                    BY <1>0, ElementOfSeq DEF StreamTypes
                <5>3. \A i \in 1..Len(out) : FALSE
                    BY <1>3, <4>2, <5>1, <5>2 DEF Streams!Yielded
                <5>4. Len(out) > 0 => 1 \in 1..Len(out)
                    BY <5>1
                <5> QED BY <5>1, <5>3, <5>4
            <4> QED BY <3>3, <4>3 DEF Opened
        <3> QED BY <3>1, <3>2, <3>3
    <2>2. StreamTypes'
        BY <1>0, <1>3 DEF StreamTypes
    <2>3. ReadingInv' /\ ParsedInv' /\ OneAttempt'
        BY <1>0, <1>3 DEF ReadingInv, ParsedInv, OneAttempt
    <2>4. RestInv'
        BY <1>3, <2>1 DEF RestInv, Opened, Bare
    <2> QED BY <2>2, <2>3, <2>4 DEF StreamsInv
<1>4. attempt < Streams!Call.tries \/ attempt >= Streams!Call.tries
    BY <1>0, CallShape DEF StreamTypes
<1> QED BY <1>1, <1>2, <1>3, <1>4 DEF Streams!Fail

\* Each action keeps the invariant: the call is refused, ends at once, or opens.
LEMMA BeginKeeps ==
    ASSUME StreamsInv, Streams!Begin
    PROVE  StreamsInv'
<1>0. /\ StreamTypes /\ OneAttempt /\ ParsedInv /\ phase = "idle" /\ Open /\ Len(out) = 0
      /\ UNCHANGED <<asked, attempt, cancelled, parsed, after, whole>>
    BY StillOpen DEF StreamsInv, RestInv, Streams!Begin
<1>1. \/ Streams!Over(<<"raised">>)
      \/ cancelled /\ Streams!Over(Streams!Call.early)
      \/ Streams!Over(Streams!Call.refused)
      \/ Streams!Yields(Streams!Call.opens) /\ phase' = "sending" /\ pending' = <<>>
    BY DEF Streams!Begin
<1>2. CASE Streams!Over(<<"raised">>)
    BY <1>0, <1>2, LastKinds, OverWell
<1>3. CASE cancelled /\ Streams!Over(Streams!Call.early)
    BY <1>0, <1>3, CallEnds, OverWell
<1>4. CASE Streams!Over(Streams!Call.refused)
    BY <1>0, <1>4, CallEnds, OverWell
<1>5. CASE Streams!Yields(Streams!Call.opens) /\ phase' = "sending" /\ pending' = <<>>
    <2> DEFINE ks == Streams!Call.opens
    <2>1. ks \in Seq(Streams!Kinds) /\ (IF Bare THEN Len(ks) = 1
          /\ ks[1] = "started" ELSE Len(ks) = 0)
        <3>1. <<>> \in Seq(Streams!Kinds) /\ <<"started">> \in Seq(Streams!Kinds)
            BY DEF Streams!Kinds
        <3>2. CASE Bare
            <4>1. ks = <<"started">>
                BY <1>0, <3>2, CallShape
            <4> QED BY <3>1, <3>2, <4>1
        <3>3. CASE ~Bare
            BY <1>0, <3>1, <3>3, CallShape
        <3> QED BY <3>2, <3>3
    <2>2. Streams!Yields(ks)
        BY <1>5
    <2> HIDE DEF ks
    <2>3. /\ out' \in Seq([kind : Streams!Kinds, try : Nat]) /\ Len(out') = Len(ks)
          /\ \A i \in 1..Len(ks) : out'[i].kind = ks[i]
        <3>1. /\ out' \in Seq([kind : Streams!Kinds, try : Nat]) /\ Len(out') = Len(out) + Len(ks)
              /\ \A i \in 1..Len(ks) : out'[Len(out) + i].kind = ks[i]
            BY <1>0, <2>1, <2>2, YieldsMore
        <3>2. Len(ks) \in Nat /\ \A i \in 1..Len(ks) : 0 + i = i
            BY <2>1
        <3> QED BY <1>0, <3>1, <3>2
    <2>4. StreamTypes'
        BY <1>0, <1>5, <2>3 DEF StreamTypes
    <2>5. Opened'
        BY <1>0, <2>1, <2>3 DEF Opened, Bare
    <2>6. ReadingInv' /\ ParsedInv'
        BY <1>0, <1>5 DEF ReadingInv, ParsedInv
    <2>7. OneAttempt'
        BY <2>1, <2>3 DEF OneAttempt
    <2>8. RestInv'
        BY <1>0, <1>5, <2>5 DEF StreamsInv, RestInv
    <2> QED BY <2>4, <2>6, <2>7, <2>8 DEF StreamsInv
<1> QED BY <1>1, <1>2, <1>3, <1>4, <1>5

\* A catalogue, or an error.
LEMMA ListModelsKeeps ==
    ASSUME StreamsInv, Streams!ListModels
    PROVE  StreamsInv'
<1>0. /\ StreamTypes /\ OneAttempt /\ ParsedInv /\ phase = "idle" /\ Open
      /\ asked.protocol \in {"anthropic", "responses", "compatible"}
      /\ UNCHANGED <<asked, attempt, cancelled, parsed, after, whole>>
    BY StillOpen DEF StreamsInv, Streams!ListModels, Streams!p
<1>1. Streams!Over(<<"raised">>) \/ Streams!Over(<<"models">>)
    <2>1. PICK c \in Streams!Configs, d \in Streams!Catalogues :
             Streams!Over(<<IF Streams!ConfigAccepted(c) THEN Streams!Listed(d) ELSE "raised">>)
        BY DEF Streams!ListModels
    <2>2. Streams!Listed(d) \in {"models", "raised"}
        BY <1>0 DEF Streams!Listed, Streams!p, Streams!NativeModels, Streams!ResponsesModels,
            Streams!CompatibleModels
    <2>3. (IF Streams!ConfigAccepted(c) THEN Streams!Listed(d) ELSE "raised") \in {"models", "raised"}
        BY <2>2
    <2> DEFINE k == IF Streams!ConfigAccepted(c) THEN Streams!Listed(d) ELSE "raised"
    <2>4. k \in {"models", "raised"} /\ Streams!Over(<<k>>)
        BY <2>1, <2>3
    <2> HIDE DEF k
    <2> QED BY <2>4
<1> QED BY <1>0, <1>1, LastKinds, OverWell

\* A closed client ends the call.
LEMMA ClosedKeeps ==
    ASSUME StreamsInv, Streams!Closed
    PROVE  StreamsInv'
<1>0. /\ StreamTypes /\ OneAttempt /\ ParsedInv
      /\ UNCHANGED <<asked, attempt, cancelled, parsed, after, whole>> /\ cancelled
      /\ phase = "sending" \/ (phase = "reading" /\ after = Streams!ReadOn)
    BY DEF StreamsInv, Streams!Closed, Streams!Reading
<1>1. Open
    BY <1>0, StillOpen, AfterTypes
<1>2. Streams!Over(Streams!Call.cancelled) \/ Streams!Over(<<"raised">>)
    BY DEF Streams!Closed
<1>3. CASE Streams!Over(Streams!Call.cancelled)
    BY <1>0, <1>1, <1>3, CallEnds, OverWell
<1>4. CASE Streams!Over(<<"raised">>)
    BY <1>0, <1>1, <1>4, LastKinds, OverWell
<1> QED BY <1>2, <1>3, <1>4

\* A transport error or a status repeats the call or ends it.
LEMMA FailsKeep ==
    ASSUME StreamsInv, Streams!TransportFails \/ Streams!Refused
    PROVE  StreamsInv'
<1>0. /\ UNCHANGED <<asked, attempt, cancelled, parsed, after, whole>>
      /\ phase = "sending" \/ (phase = "reading" /\ pending = <<>> /\ after = Streams!ReadOn)
    BY DEF Streams!TransportFails, Streams!Refused, Streams!Reading
<1>1. Open
    BY <1>0, StillOpen, AfterTypes
<1>2. \E e : Streams!Fail(e)
    BY DEF Streams!TransportFails, Streams!Refused
<1> QED BY <1>0, <1>1, <1>2, FailKeeps, AfterTypes

\* Another attempt begins as the first did.
LEMMA RetryKeeps ==
    ASSUME StreamsInv, Streams!Retry
    PROVE  StreamsInv'
<1>0. StreamTypes /\ OneAttempt /\ ParsedInv /\ phase = "waiting" /\ Opened /\ pending = <<>>
    BY DEF StreamsInv, RestInv, Streams!Retry
<1>1. CASE cancelled
    <2>1. Streams!Over(Streams!Call.cancelled)
          /\ UNCHANGED <<asked, attempt, cancelled, parsed, after, whole>>
        BY <1>1 DEF Streams!Retry
    <2> QED BY <1>0, <1>1, <2>1, StillOpen, CallEnds, OverWell
<1>2. CASE ~cancelled
    <2>1. /\ phase' = "sending" /\ attempt' = attempt + 1 /\ parsed' = Streams!Fresh /\ after' = Streams!ReadOn
          /\ whole' = FALSE /\ UNCHANGED <<out, pending, asked, cancelled>>
        BY <1>2 DEF Streams!Retry
    <2>2. Streams!Fresh \in Parsers /\ ~Streams!Fresh.text /\ ~Streams!Fresh.finish
        BY DEF Streams!Fresh, Parsers
    <2>3. StreamTypes'
        <3>1. attempt + 1 \in Nat \ {0}
            BY <1>0 DEF StreamTypes
        <3> QED BY <1>0, <2>1, <2>2, <3>1, AfterTypes DEF StreamTypes
    <2>4. Opened' /\ Len(out') <= 1
        <3>1. Bare' <=> Bare
            BY <2>1 DEF Bare
        <3>2. CASE Bare
            <4>1. Len(out) = 1 /\ out[1].kind = "started" /\ out' = out
                BY <1>0, <2>1, <3>2 DEF Opened
            <4>2. Len(out') = 1 /\ out'[1].kind = "started"
                BY <4>1
            <4> QED BY <3>1, <3>2, <4>2 DEF Opened
        <3>3. CASE ~Bare
            BY <1>0, <2>1, <3>1, <3>3 DEF Opened
        <3> QED BY <3>2, <3>3
    <2>5. ReadingInv' /\ ParsedInv'
        BY <2>1, <2>2 DEF ReadingInv, ParsedInv
    <2>6. OneAttempt'
        BY <2>3, <2>4 DEF OneAttempt, StreamTypes
    <2>7. RestInv'
        BY <1>0, <2>1, <2>4 DEF RestInv
    <2> QED BY <2>3, <2>5, <2>6, <2>7 DEF StreamsInv
<1> QED BY <1>1, <1>2

\* A cancellation changes the token alone.
LEMMA CancelKeeps ==
    ASSUME StreamsInv, Streams!Cancel
    PROVE  StreamsInv'
<1>1. /\ UNCHANGED <<asked, phase, attempt, parsed, pending, after, out, whole>>
      /\ cancelled' = TRUE /\ phase # "over"
    BY DEF Streams!Cancel
<1>2. StreamTypes'
    BY <1>1 DEF StreamsInv, StreamTypes
<1>3. ReadingInv' /\ ParsedInv' /\ OneAttempt'
    BY <1>1 DEF StreamsInv, ReadingInv, ParsedInv, OneAttempt, Piece, Told, Tells, Bare
<1>4. RestInv'
    BY <1>1 DEF StreamsInv, RestInv, Opened, Bare
<1> QED BY <1>2, <1>3, <1>4 DEF StreamsInv

\* What an adapter that tells the whole answer has parsed goes on where it stopped.
LEMMA TellsMore ==
    ASSUME StreamTypes, ~Bare, pending = <<>>, after = Streams!ReadOn,
        \A i \in 1..Len(out) : Piece(i),
           Len(out) > 0 <=> parsed.started,
           NEW s, NEW x, NEW w \in BOOLEAN, Emittable(s, x, parsed, w), pending' = s, after' = x, whole' = w,
           x = Streams!ReadOn => (parsed'.started <=> parsed.started \/ Len(s) > 0),
           UNCHANGED <<asked, out>>
    PROVE  ReadingInv'
<1>0. /\ s \in Seq(Streams!Kinds) /\ Len(s) \in Nat /\ Len(out) \in Nat
      /\ Told' = Len(out) + Len(s) /\ ~Bare' /\ Len(out') = Len(out) /\ Streams!ReadOn # Streams!Done
    BY AfterTypes DEF StreamTypes, Emittable, Told, Bare
<1>1. /\ \A i \in 1..Len(out) : Tells(i)' = out[i].kind
      /\ \A i \in 1..Told' : i \notin 1..Len(out) => i - Len(out) \in 1..Len(s) /\ Tells(i)' = s[i - Len(out)]
      /\ Len(s) > 0 => Tells(Told)' = s[Len(s)]
    BY <1>0 DEF Tells, Told
<1>2. ASSUME NEW i \in 1..Len(out) PROVE Piece(i)'
    <2>1. Tells(i) = out[i].kind /\ Piece(i)
        BY <1>0 DEF Tells
    <2>2. Tells(i) \in {"started", "text", "usage"} /\ (Tells(i) = "started" <=> i = 1)
        BY <1>0, <2>1 DEF Piece
    <2> QED BY <1>0, <1>1, <2>1, <2>2 DEF Piece, Ending
<1>3. ASSUME NEW i \in 1..Told', i \notin 1..Len(out) PROVE Piece(i)'
    <2> DEFINE j == i - Len(out)
    <2>1. j \in 1..Len(s) /\ Tells(i)' = s[j] /\ i = Len(out) + j
        BY <1>0, <1>1, <1>3
    <2> HIDE DEF j
    <2>2. /\ s[j] \in {"started", "text", "usage"} \cup Ending
          /\ s[j] = "started" <=> j = 1 /\ ~parsed.started
          /\ s[j] \in Ending => j = Len(s) /\ x = Streams!Done
          /\ s[j] = "completed" => w
        BY <2>1 DEF Emittable
    <2>3. s[j] = "started" <=> i = 1
        BY <1>0, <2>1, <2>2
    <2>4. s[j] \in Ending => i = Told'
        BY <1>0, <2>1, <2>2
    <2> QED BY <1>0, <2>1, <2>2, <2>3, <2>4 DEF Piece
<1>4. \A i \in 1..Told' : Piece(i)'
    BY <1>2, <1>3
<1>5. after' = Streams!ReadOn => (Told' > 0 <=> parsed'.started)
    BY <1>0
<1>6. after' = Streams!Done => Told' > 0 /\ Tells(Told)' \in Ending
    BY <1>0, <1>1 DEF Emittable
<1> QED BY <1>0, <1>4, <1>5, <1>6 DEF ReadingInv

\* So does the text of the others.
LEMMA TextMore ==
    ASSUME StreamTypes, Bare, pending = <<>>, Len(out) > 0,
           \A i \in 1..Len(out) : out[i].kind \in {"started", "text"} /\ (out[i].kind = "started" <=> i = 1),
           NEW s \in Seq({"text"}), NEW x, NEW w \in BOOLEAN, pending' = s, after' = x, whole' = w,
           x = Streams!Done /\ ~w => Len(s) = 0 /\ \A i \in 1..Len(out) : out[i].kind # "text",
           UNCHANGED <<asked, out>>
    PROVE  ReadingInv'
<1>0. /\ Len(s) \in Nat /\ Len(out) \in Nat
      /\ Told' = Len(out) + Len(s) /\ Bare' /\ Len(out') = Len(out)
    BY DEF StreamTypes, Told, Bare
<1>1. /\ \A i \in 1..Len(out) : Tells(i)' = out[i].kind
      /\ \A i \in 1..Told' : i \notin 1..Len(out) => i - Len(out) \in 1..Len(s) /\ Tells(i)' = s[i - Len(out)]
    BY <1>0 DEF Tells, Told
<1>2. ASSUME NEW i \in 1..Len(out) PROVE Piece(i)'
    BY <1>0, <1>1 DEF Piece, Ending
<1>3. ASSUME NEW i \in 1..Told', i \notin 1..Len(out) PROVE Piece(i)'
    <2>1. i # 1 /\ Len(s) > 0 /\ Tells(i)' = "text"
        BY <1>0, <1>1, <1>3
    <2> QED BY <1>0, <2>1 DEF Piece, Ending
<1>4. \A i \in 1..Told' : Piece(i)'
    BY <1>2, <1>3
<1> QED BY <1>0, <1>4 DEF ReadingInv

\* What has been shown of an answer that is being read.
LEMMA Shown ==
    ASSUME StreamsInv, phase = "reading", pending = <<>>
    PROVE  /\ Told = Len(out) /\ Len(out) \in Nat
           /\ \A i \in 1..Len(out) : Tells(i) = out[i].kind /\ Piece(i)
           /\ Bare => /\ Len(out) > 0
                      /\ \A i \in 1..Len(out) : out[i].kind \in {"started", "text"} /\ (out[i].kind = "started" <=> i = 1)
           /\ ~Bare /\ after = Streams!ReadOn => (Len(out) > 0 <=> parsed.started)
<1>1. Told = Len(out) /\ Len(out) \in Nat
    BY DEF Told, StreamsInv, StreamTypes
<1>2. \A i \in 1..Len(out) : Tells(i) = out[i].kind /\ Piece(i)
    BY <1>1 DEF Tells, StreamsInv, ReadingInv
<1>3. Bare => \A i \in 1..Len(out) : out[i].kind \in {"started", "text"}
      /\ (out[i].kind = "started" <=> i = 1)
    BY <1>2 DEF Piece
<1> QED BY <1>1, <1>2, <1>3 DEF StreamsInv, ReadingInv

\* What is parsed keeps the invariant, if it fits.
LEMMA ParseKeeps ==
    ASSUME StreamsInv, Streams!Reading, NEW a, NEW w \in BOOLEAN, Streams!Parse(a), whole' = w,
           ~Bare => Fits(a, parsed, w), Bare => FitsBare(a, w),
           a.parsed.finish /\ asked.protocol \in {"compatible", "minimax"} => w,
           UNCHANGED <<asked, phase, attempt, cancelled, out>>
    PROVE  StreamsInv'
<1>0. /\ StreamTypes /\ OneAttempt /\ phase = "reading" /\ pending = <<>> /\ after = Streams!ReadOn
      /\ parsed' = a.parsed /\ pending' = a.emits /\ after' = a.then
    BY DEF StreamsInv, Streams!Reading, Streams!Parse
<1>1. /\ a.parsed \in Parsers /\ a.then \in Afters /\ (a.parsed.text => a.parsed.started)
      /\ a.emits \in Seq(Streams!Kinds)
    <2>1. CASE Bare
        <3>1. a.emits \in Seq({"text"}) => a.emits \in Seq(Streams!Kinds)
            BY DEF Streams!Kinds
        <3> QED BY <2>1, <3>1 DEF FitsBare
    <2>2. CASE ~Bare
        BY <2>2 DEF Fits, Emittable
    <2> QED BY <2>1, <2>2
<1>2. StreamTypes'
    BY <1>0, <1>1 DEF StreamTypes
<1>3. ReadingInv'
    <2>1. CASE Bare
        BY <1>0, <2>1, Shown, TextMore DEF FitsBare
    <2>2. CASE ~Bare
        BY <1>0, <2>2, Shown, TellsMore DEF Fits
    <2> QED BY <2>1, <2>2
<1>4. ParsedInv' /\ OneAttempt' /\ RestInv'
    BY <1>0, <1>1 DEF ParsedInv, OneAttempt, RestInv
<1> QED BY <1>2, <1>3, <1>4 DEF StreamsInv

\* An event of the server.
LEMMA ServerSendsKeeps ==
    ASSUME StreamsInv, NEW e \in Streams!ServerEvents, Streams!ServerSends(e)
    PROVE  StreamsInv'
<1> DEFINE w == whole \/ Streams!Ends(e)
<1>1. /\ Streams!Reading /\ Streams!Parse(Streams!StepOf(e)) /\ whole' = w
      /\ UNCHANGED <<asked, phase, attempt, cancelled, out>>
    BY DEF Streams!ServerSends
<1>2. w \in BOOLEAN /\ (Streams!Ends(e) => w) /\ (whole => w)
    OBVIOUS
<1> HIDE DEF w
<1>3. /\ parsed \in Parsers /\ (parsed.text => parsed.started)
      /\ parsed.finish /\ asked.protocol \in {"compatible", "minimax"} => w
      /\ asked.protocol \in {"gemini", "anthropic", "responses", "compatible", "minimax"}
    BY <1>2 DEF StreamsInv, StreamTypes, ParsedInv
<1>4. /\ ~Bare => Fits(Streams!StepOf(e), parsed, w)
      /\ Bare => FitsBare(Streams!StepOf(e), w)
      /\ Streams!StepOf(e).parsed.finish /\ asked.protocol \in {"compatible", "minimax"} => w
    BY <1>2, <1>3, StepOfFits DEF Bare
<1> QED BY <1>1, <1>2, <1>4, ParseKeeps

\* The end of the body, before or after that of the answer.
LEMMA EndOfBodyKeeps ==
    ASSUME StreamsInv, Streams!EndOfBody
    PROVE  StreamsInv'
<1>1. /\ Streams!Reading /\ Streams!Parse(Streams!EndOf(parsed)) /\ whole' = whole
      /\ UNCHANGED <<asked, phase, attempt, cancelled, out>>
    BY DEF Streams!EndOfBody
<1>2. /\ parsed \in Parsers /\ (parsed.text => parsed.started) /\ whole \in BOOLEAN
      /\ parsed.finish /\ asked.protocol \in {"compatible", "minimax"} => whole
      /\ asked.protocol \in {"gemini", "anthropic", "responses", "compatible", "minimax"}
    BY DEF StreamsInv, StreamTypes, ParsedInv
<1>3. /\ ~Bare => Fits(Streams!EndOf(parsed), parsed, whole)
      /\ Bare => FitsBare(Streams!EndOf(parsed), whole)
      /\ Streams!EndOf(parsed).parsed = parsed
    BY <1>2, EndOfFits DEF Bare
<1> QED BY <1>1, <1>2, <1>3, ParseKeeps

\* A body that is read event by event.
LEMMA ReceiveStreamKeeps ==
    ASSUME StreamsInv, Streams!ReceiveStream
    PROVE  StreamsInv'
<1>0. /\ StreamTypes /\ OneAttempt /\ ParsedInv /\ phase = "sending" /\ Opened /\ pending = <<>>
      /\ after = Streams!ReadOn /\ parsed = Streams!Fresh /\ phase' = "reading"
      /\ UNCHANGED <<asked, attempt, cancelled, parsed, pending, after, out, whole>>
    BY DEF StreamsInv, RestInv, Streams!ReceiveStream
<1>1. StreamTypes' /\ OneAttempt' /\ ParsedInv' /\ RestInv'
    BY <1>0 DEF StreamTypes, OneAttempt, ParsedInv, RestInv
<1>2. ReadingInv
    BY <1>0 DEF ReadingInv
<1>3. ReadingInv'
    <2>1. CASE Bare
        <3>1. Told = 1 /\ Tells(1) = "started" /\ Len(out) = 1
            BY <1>0, <2>1 DEF Told, Tells, Opened
        <3>2. Told' = 1 /\ Tells(1)' = "started" /\ Len(out') = 1 /\ Bare'
            BY <1>0, <2>1, <3>1 DEF Told, Tells, Bare
        <3>3. \A i \in 1..1 : i = 1
            OBVIOUS
        <3>4. Piece(1)'
            BY <3>2 DEF Piece, Ending
        <3> QED BY <3>2, <3>3, <3>4 DEF ReadingInv
    <2>2. CASE ~Bare
        <3>1. Told' = 0 /\ ~Bare'
            BY <1>0, <2>2 DEF Told, Opened, Bare
        <3>2. ~parsed'.started /\ after' # Streams!Done
            BY <1>0, AfterTypes DEF Streams!Fresh
        <3> QED BY <3>1, <3>2 DEF ReadingInv
    <2> QED BY <2>1, <2>2
<1> QED BY <1>1, <1>3 DEF StreamsInv

\* A body that is read as one document.
LEMMA ReceiveJsonKeeps ==
    ASSUME StreamsInv, Streams!ReceiveJson
    PROVE  StreamsInv'
<1>0. /\ StreamTypes /\ OneAttempt /\ ParsedInv /\ phase = "sending" /\ Opened /\ pending = <<>>
      /\ after = Streams!ReadOn /\ parsed = Streams!Fresh /\ phase' = "reading"
      /\ UNCHANGED <<asked, attempt, cancelled, parsed, out>>
    BY DEF StreamsInv, RestInv, Streams!ReceiveJson
<1>1. PICK b \in Streams!Bodies : /\ pending' = Streams!Json(b).emits /\ after' = Streams!Json(b).then
                                  /\ whole' = (b \notin {"bad", "half"})
    BY DEF Streams!ReceiveJson
<1> DEFINE s == Streams!Json(b).emits
           x == Streams!Json(b).then
           w == b \notin {"bad", "half"}
<1>2. pending' = s /\ after' = x /\ whole' = w /\ w \in BOOLEAN
    BY <1>1
<1>3. Streams!Fresh \in Parsers /\ ~Streams!Fresh.started /\ ~Streams!Fresh.text
      /\ ~Streams!Fresh.finish
    BY DEF Streams!Fresh, Parsers
<1>4. CASE Bare
    <2>1. s \in Seq({"text"}) /\ x \in Afters /\ (x = Streams!Done /\ ~w => Len(s) = 0)
        BY <1>4, JsonBare, AfterTypes DEF Bare
    <2>2. Len(out) = 1 /\ out[1].kind = "started" /\ Len(out) > 0
        BY <1>0, <1>4 DEF Opened
    <2>3. \A i \in 1..Len(out) : i = 1
        BY <2>2
    <2>4. s \in Seq(Streams!Kinds)
        BY <2>1 DEF Streams!Kinds
    <2> HIDE DEF s, x, w
    <2>5. ReadingInv'
        BY <1>0, <1>2, <1>4, <2>1, <2>2, <2>3, TextMore
    <2>6. StreamTypes'
        BY <1>0, <1>2, <2>1, <2>4 DEF StreamTypes
    <2>7. ParsedInv' /\ OneAttempt' /\ RestInv'
        BY <1>0, <1>3 DEF ParsedInv, OneAttempt, RestInv
    <2> QED BY <2>5, <2>6, <2>7 DEF StreamsInv
<1>5. CASE ~Bare
    <2>1. asked.protocol \in {"anthropic", "responses", "compatible"}
        BY <1>0, <1>5 DEF Bare, StreamTypes
    <2>2. Emittable(s, x, parsed, w) /\ x \in Afters /\ x # Streams!ReadOn
        <3>1. CASE s \in Tales /\ x = Streams!Done /\ b \notin {"bad", "half"}
            BY <1>0, <1>2, <1>3, <3>1, TalesEmit, AfterTypes
        <3>2. CASE s \in Stubs /\ x \in {Streams!Invalid, Streams!Err("empty", FALSE)}
            <4>1. x # Streams!Done /\ x \in Afters /\ x # Streams!ReadOn
                BY <3>2, AfterTypes
            <4> HIDE DEF s, x, w
            <4> QED BY <1>0, <1>2, <1>3, <3>2, <4>1, StubsEmit
        <3> QED BY <2>1, <3>1, <3>2, JsonTells
    <2>3. Len(out) = 0 /\ s \in Seq(Streams!Kinds)
        BY <1>0, <1>5, <2>2 DEF Opened, Emittable
    <2> HIDE DEF s, x, w
    <2>4. ReadingInv'
        BY <1>0, <1>2, <1>3, <1>5, <2>2, <2>3, TellsMore
    <2>5. StreamTypes'
        BY <1>0, <1>2, <2>2, <2>3 DEF StreamTypes
    <2>6. ParsedInv' /\ OneAttempt' /\ RestInv'
        BY <1>0, <1>3 DEF ParsedInv, OneAttempt, RestInv
    <2> QED BY <2>4, <2>5, <2>6 DEF StreamsInv
<1> QED BY <1>4, <1>5

\* An event goes from what was parsed to what was shown, and the whole stays.
LEMMA YieldKeeps ==
    ASSUME StreamsInv, Streams!Yield
    PROVE  StreamsInv'
<1>0. /\ StreamTypes /\ OneAttempt /\ ParsedInv /\ pending # <<>>
      /\ pending \in Seq(Streams!Kinds) /\ Len(pending) \in Nat /\ Len(pending) > 0 /\ Len(out) \in Nat
      /\ UNCHANGED <<asked, attempt, cancelled, parsed, after, whole>>
    BY DEF StreamsInv, StreamTypes, Streams!Yield
<1>1. phase = "reading"
    BY <1>0 DEF StreamsInv, RestInv
<1>2. CASE Streams!Over(Streams!Call.cancelled) /\ cancelled
    BY <1>0, <1>1, <1>2, StillOpen, CallEnds, OverWell
<1>3. CASE Streams!Yields(<<Head(pending)>>) /\ pending' = Tail(pending) /\ phase' = phase
    <2> DEFINE ks == <<Head(pending)>>
    <2>1. /\ ks \in Seq(Streams!Kinds) /\ Len(ks) = 1 /\ ks[1] = pending[1]
          /\ Streams!Yields(ks)
        BY <1>0, <1>3
    <2>2. /\ pending' \in Seq(Streams!Kinds) /\ Len(pending') = Len(pending) - 1
          /\ \A i \in 1..Len(pending') : pending'[i] = pending[i + 1]
        BY <1>0, <1>3
    <2> HIDE DEF ks
    <2>3. /\ out' \in Seq([kind : Streams!Kinds, try : Nat])
          /\ Len(out') = Len(out) + 1
          /\ \A i \in 1..Len(out) : out'[i] = out[i]
          /\ \A i \in 1..Len(out') : i \notin 1..Len(out) => /\ i - Len(out) \in 1..1
                                                             /\ out'[i].kind = ks[i - Len(out)]
                                                             /\ out'[i].try = attempt
        BY <1>0, <2>1, YieldsMore
    <2>4. /\ \A i \in 1..Len(out') : i \notin 1..Len(out) => i = Len(out) + 1 /\ out'[i].kind = pending[1]
        BY <1>0, <2>1, <2>3
    <2>5. Told' = Told /\ Bare' = Bare
        BY <1>0, <2>2, <2>3 DEF Told, Bare
    <2>6. \A i \in 1..Told : Tells(i)' = Tells(i)
        <3>1. ASSUME NEW i \in 1..Len(out) PROVE Tells(i)' = Tells(i)
            BY <1>0, <2>3 DEF Tells
        <3>2. ASSUME NEW i \in 1..Len(out'), i \notin 1..Len(out) PROVE Tells(i)' = Tells(i)
            BY <1>0, <2>3, <2>4, <3>2 DEF Tells
        <3>3. ASSUME NEW i \in 1..Told, i \notin 1..Len(out') PROVE Tells(i)' = Tells(i)
            <4>1. /\ i - Len(out') \in 1..Len(pending') /\ i - Len(out') + 1 = i - Len(out)
                  /\ ~(i <= Len(out')) /\ ~(i <= Len(out))
                BY <1>0, <2>2, <2>3, <3>3 DEF Told
            <4> QED BY <2>2, <4>1 DEF Tells
        <3> QED BY <3>1, <3>2, <3>3
    <2>7. StreamTypes'
        BY <1>0, <1>3, <2>2, <2>3 DEF StreamTypes
    <2>8. ReadingInv'
        <3>1. \A i \in 1..Told : Piece(i)
            BY <1>1 DEF StreamsInv, ReadingInv
        <3>2. \A i \in 1..Told' : Piece(i)'
            BY <1>0, <2>5, <2>6, <3>1 DEF Piece
        <3>3. Bare => Len(out') > 0
            BY <1>0, <1>1, <2>3 DEF StreamsInv, ReadingInv
        <3>4. ~Bare /\ after = Streams!ReadOn => (Told > 0 <=> parsed.started)
            BY <1>1 DEF StreamsInv, ReadingInv
        <3>5. ~Bare /\ after = Streams!Done => Told > 0 /\ Tells(Told)' \in Ending
            <4>1. ~Bare /\ after = Streams!Done => Told > 0 /\ Tells(Told) \in Ending
                BY <1>1 DEF StreamsInv, ReadingInv
            <4>2. Told \in Nat
                BY <1>0 DEF Told
            <4> QED BY <2>5, <2>6, <4>1, <4>2 DEF Tells
        <3> QED BY <1>0, <2>5, <3>2, <3>3, <3>4, <3>5 DEF ReadingInv
    <2>9. OneAttempt'
        BY <1>0, <2>3 DEF OneAttempt
    <2>10. RestInv' /\ ParsedInv'
        BY <1>0, <1>1, <1>3 DEF RestInv, ParsedInv
    <2> QED BY <2>7, <2>8, <2>9, <2>10 DEF StreamsInv
<1> QED BY <1>2, <1>3 DEF Streams!Yield

\* An answer that has been shown to its end is well-formed; a cancellation may follow.
LEMMA EndedWell ==
    ASSUME StreamsInv, phase = "reading", pending = <<>>, ~Bare, after = Streams!Done,
           NEW ks, ks = <<>> \/ (ks = <<"cancelled">> /\ cancelled), Streams!Over(ks),
           UNCHANGED <<asked, attempt, cancelled, parsed, after, whole>>
    PROVE  StreamsInv'
<1>0. /\ StreamTypes /\ OneAttempt /\ ParsedInv /\ phase' = "over" /\ pending' = <<>> /\ Streams!Yields(ks)
    BY DEF StreamsInv, Streams!Over
<1>1. /\ ks \in Seq(Streams!Kinds) /\ \A i \in 1..Len(ks) : ks[i] = "cancelled" /\ cancelled
    <2>1. CASE ks = <<>>
        BY <2>1
    <2>2. CASE ks = <<"cancelled">> /\ cancelled
        BY <2>2 DEF Streams!Kinds
    <2> QED BY <2>1, <2>2
<1>2. /\ out' \in Seq([kind : Streams!Kinds, try : Nat])
      /\ Len(out') = Len(out) + Len(ks)
      /\ \A i \in 1..Len(out) : out'[i] = out[i]
      /\ \A i \in 1..Len(out') : i \notin 1..Len(out) => /\ i - Len(out) \in 1..Len(ks)
                                                         /\ out'[i].kind = ks[i - Len(out)]
                                                         /\ out'[i].try = attempt
    BY <1>0, <1>1, YieldsMore
<1>3. /\ Len(out) \in Nat /\ Len(ks) \in Nat /\ Len(out) > 0 /\ out[Len(out)].kind \in Ending
      /\ \A i \in 1..Len(out) : /\ out[i].kind \in {"started", "text", "usage"} \cup Ending
                                /\ out[i].kind = "started" <=> i = 1
                                /\ out[i].kind \in Ending => i = Len(out)
                                /\ out[i].kind = "completed" => whole
    <2>1. /\ Told = Len(out) /\ Len(out) \in Nat /\ Len(out) > 0
          /\ \A i \in 1..Len(out) : Tells(i) = out[i].kind /\ Piece(i)
        BY Shown DEF StreamsInv, ReadingInv
    <2>2. Tells(Len(out)) \in Ending /\ Len(out) \in 1..Len(out)
        BY <2>1 DEF StreamsInv, ReadingInv
    <2> QED BY <1>1, <2>1, <2>2 DEF Piece
<1>4. StreamTypes'
    <2>1. pending' \in Seq(Streams!Kinds) /\ phase' \in {"over"}
        BY <1>0
    <2>2. out' \in Seq([kind : Streams!Kinds, try : Nat])
        BY <1>2
    <2>3. /\ asked' = asked /\ attempt' = attempt /\ cancelled' = cancelled /\ parsed' = parsed
          /\ after' = after /\ whole' = whole
        OBVIOUS
    <2> QED BY <1>0, <2>1, <2>2, <2>3, Zenon DEF StreamTypes
<1>5. ReadingInv' /\ ParsedInv' /\ OneAttempt'
    <2>1. ReadingInv'
        BY <1>0 DEF ReadingInv
    <2>2. ParsedInv'
        BY <1>0, Zenon DEF ParsedInv
    <2>3. OneAttempt'
        <3> SUFFICES ASSUME NEW i \in 2..Len(out') PROVE out'[i].try = attempt
            BY DEF OneAttempt
        <3>1. Len(out) \in Nat /\ Len(out') \in Nat
            BY <1>2, <1>3
        <3>2. i \in 2..Len(out) \/ (i \in 1..Len(out') /\ i \notin 1..Len(out))
            BY <3>1
        <3>3. CASE i \in 2..Len(out)
            <4>1. i \in 1..Len(out)
                BY <3>1, <3>3
            <4>2. out'[i] = out[i]
                BY <1>2, <4>1
            <4> QED BY <1>0, <3>3, <4>2 DEF OneAttempt
        <3>4. CASE i \in 1..Len(out') /\ i \notin 1..Len(out)
            BY <1>2, <3>4
        <3> QED BY <3>2, <3>3, <3>4
    <2> QED BY <2>1, <2>2, <2>3
<1>6. WellFormed'
    <2>1. \A i \in 1..Len(out') : i \in 1..Len(out) \/ (out'[i].kind = "cancelled" /\ cancelled /\ i > Len(out))
        <3> SUFFICES ASSUME NEW i \in 1..Len(out'), i \notin 1..Len(out)
                     PROVE  out'[i].kind = "cancelled" /\ cancelled /\ i > Len(out)
            OBVIOUS
        <3>1. i - Len(out) \in 1..Len(ks) /\ out'[i].kind = ks[i - Len(out)]
            BY <1>2
        <3>2. i > Len(out)
            BY <1>3
        <3> QED BY <1>1, <3>1, <3>2
    <2>2. \A i \in 1..Len(out') : out'[i].kind = "started" => i = 1
        <3> SUFFICES ASSUME NEW i \in 1..Len(out'), out'[i].kind = "started"
                     PROVE  i = 1
            OBVIOUS
        <3>1. i \in 1..Len(out)
            BY <2>1
        <3>2. out[i].kind = "started"
            BY <1>2, <3>1
        <3> QED BY <1>3, <3>1, <3>2
    <2>3. \A i \in 1..Len(out') : out'[i].kind \in {"text", "usage", "completed"} => i > 1 /\ out'[1].kind = "started"
        <3>1. out'[1].kind = "started" /\ out[1].kind = "started"
            BY <1>2, <1>3
        <3> QED BY <1>2, <1>3, <2>1, <3>1
    <2>4. \A i \in 1..Len(out') : out'[i].kind \in Streams!Terminal =>
             \A j \in i + 1..Len(out') : out'[j].kind = "cancelled" /\ cancelled'
        <3>1. \A i \in 1..Len(out') : out'[i].kind \in Streams!Terminal => i = Len(out)
            <4> SUFFICES ASSUME NEW i \in 1..Len(out'), out'[i].kind \in Streams!Terminal
                         PROVE  i = Len(out)
                OBVIOUS
            <4>1. out'[i].kind # "cancelled"
                BY DEF Streams!Terminal
            <4>2. i \in 1..Len(out)
                BY <2>1, <4>1
            <4>3. out[i].kind \in Streams!Terminal
                BY <1>2, <4>2
            <4>4. out[i].kind \in Ending
                BY <1>3, <4>2, <4>3 DEF Ending, Streams!Terminal
            <4> QED BY <1>3, <4>2, <4>4
        <3> QED BY <1>2, <1>3, <2>1, <3>1
    <2>5. Len(out') > 0 /\ out'[Len(out')].kind \in Streams!Terminal \cup {"cancelled"}
        <3>1. Len(out') \in 1..Len(out') /\ Len(out') \in Nat
            BY <1>2, <1>3
        <3>2. Len(out') \in 1..Len(out) => Len(out') = Len(out)
            BY <1>2, <1>3
        <3> QED BY <1>2, <1>3, <2>1, <3>1, <3>2 DEF Ending, Streams!Terminal
    <2>6. \A i \in 1..Len(out') : out'[i].kind = "completed" => whole'
        BY <1>2, <1>3, <2>1
    <2>7. DOMAIN out' = 1..Len(out')
        BY <1>2
    <2> QED BY <1>2, <2>2, <2>3, <2>4, <2>5, <2>6, <2>7
            DEF WellFormed, Streams!WellFormed, Streams!Positions, Streams!Last
<1>7. RestInv'
    BY <1>0, <1>6 DEF RestInv
<1> QED BY <1>4, <1>5, <1>7 DEF StreamsInv

\* The attempt that was read to its end ends the call, or fails.
LEMMA SettleKeeps ==
    ASSUME StreamsInv, Streams!Settle
    PROVE  StreamsInv'
<1>0. /\ StreamTypes /\ OneAttempt /\ ParsedInv /\ phase = "reading" /\ pending = <<>>
      /\ UNCHANGED <<asked, attempt, cancelled, parsed, after, whole>>
    BY DEF StreamsInv, Streams!Settle
<1>1. CASE after # Streams!Done
    <2>1. Streams!Fail(after)
        BY <1>1 DEF Streams!Settle
    <2> QED BY <1>0, <1>1, <2>1, StillOpen, FailKeeps
<1>2. CASE after = Streams!Done /\ ~Bare
    <2>1. Streams!Over(<<>>) \/ (cancelled /\ Streams!Over(<<"cancelled">>))
        <3>1. CASE asked.protocol = "anthropic"
            BY <1>2, <3>1 DEF Streams!Settle, Streams!p
        <3>2. CASE asked.protocol = "responses"
            BY <1>2, <3>2 DEF Streams!Settle, Streams!p
        <3>3. CASE asked.protocol = "compatible"
            BY <1>2, <3>3 DEF Streams!Settle, Streams!p
        <3> QED BY <1>0, <1>2, <3>1, <3>2, <3>3 DEF StreamTypes, Bare
    <2> QED BY <1>0, <1>2, <2>1, EndedWell
<1>3. CASE after = Streams!Done /\ Bare
    <2>1. IF cancelled THEN Streams!Over(Streams!Call.cancelled)
          ELSE IF ~Streams!HasText THEN Streams!Fail(Streams!Err("empty", FALSE)) ELSE Streams!Over(<<"completed">>)
        BY <1>3 DEF Streams!Settle, Streams!p, Bare
    <2>2. Open
        BY <1>0, <1>3, StillOpen
    <2>3. CASE cancelled
        BY <1>0, <2>1, <2>2, <2>3, CallEnds, OverWell
    <2>4. CASE ~cancelled /\ ~Streams!HasText
        BY <1>0, <1>3, <2>1, <2>2, <2>4, FailKeeps
    <2>5. CASE ~cancelled /\ Streams!HasText
        <3>1. whole /\ Len(out) > 0
            <4>1. PICK i \in DOMAIN out : out[i] = [kind |-> "text", try |-> attempt]
                BY <2>5 DEF Streams!HasText
            <4>2. i \in 1..Len(out) /\ out[i].kind = "text"
                BY <1>0, <4>1 DEF StreamTypes
            <4>3. Tells(i) = "text" /\ Piece(i) /\ Len(out) > 0
                BY <1>0, <1>3, <4>2, Shown
            <4> QED BY <1>3, <4>3 DEF Piece
        <3>2. Last1(<<"completed">>)
            BY <1>0, <3>1, LastKinds
        <3> QED BY <1>0, <2>1, <2>2, <2>5, <3>2, OverWell
    <2> QED BY <2>3, <2>4, <2>5
<1> QED BY <1>1, <1>2, <1>3

\* A call begins with the invariant.
LEMMA StreamsStart ==
    ASSUME Streams!Init
    PROVE  StreamsInv
<1>1. asked.protocol \in {"gemini", "anthropic", "responses", "compatible", "minimax"}
    BY StreamsAssumption DEF Streams!Init, Streams!ProviderAssumption
<1>2. Streams!Fresh \in Parsers /\ ~Streams!Fresh.started /\ ~Streams!Fresh.text
      /\ ~Streams!Fresh.finish
    BY DEF Streams!Fresh, Parsers
<1>3. StreamTypes
    <2>1. /\ phase = "idle" /\ attempt = 1 /\ cancelled \in BOOLEAN /\ parsed = Streams!Fresh
          /\ pending = <<>> /\ after = Streams!ReadOn /\ out = <<>> /\ whole = FALSE
        BY DEF Streams!Init
    <2>2. pending \in Seq(Streams!Kinds) /\ out \in Seq([kind : Streams!Kinds, try : Nat])
        BY <2>1
    <2>3. phase \in {"idle", "sending", "reading", "waiting", "over"} /\ attempt \in Nat \ {0}
        BY <2>1
    <2>0. whole \in BOOLEAN
        BY <2>1
    <2>4. parsed \in Parsers /\ after \in Afters
        BY <1>2, <2>1, AfterTypes
    <2> QED BY <1>1, <2>0, <2>1, <2>2, <2>3, <2>4 DEF StreamTypes
<1>4. ReadingInv /\ ParsedInv /\ RestInv /\ OneAttempt
    BY <1>2 DEF Streams!Init, ReadingInv, ParsedInv, RestInv, OneAttempt
<1> QED BY <1>3, <1>4 DEF StreamsInv

\* Every step keeps it.
LEMMA StreamsKept ==
    ASSUME StreamsInv, [Streams!Next]_(Streams!vars)
    PROVE  StreamsInv'
<1>1. CASE UNCHANGED Streams!vars
    <2>1. UNCHANGED <<asked, phase, attempt, cancelled, parsed, pending, after, out, whole>>
        BY <1>1 DEF Streams!vars
    <2>2. StreamTypes' /\ ParsedInv' /\ OneAttempt'
        BY <2>1 DEF StreamsInv, StreamTypes, ParsedInv, OneAttempt
    <2>3. ReadingInv'
        BY <2>1 DEF StreamsInv, ReadingInv, Piece, Told, Tells, Bare
    <2>4. RestInv'
        BY <2>1 DEF StreamsInv, RestInv, Opened, Bare, WellFormed, Streams!WellFormed,
            Streams!Positions, Streams!Last
    <2> QED BY <2>2, <2>3, <2>4 DEF StreamsInv
<1>2. CASE Streams!Next
    <2>1. CASE \E e \in Streams!ServerEvents : Streams!ServerSends(e)
        BY <2>1, ServerSendsKeeps
    <2> QED BY <1>2, <2>1, ListModelsKeeps, BeginKeeps, RetryKeeps, CancelKeeps, ClosedKeeps,
        FailsKeep,
               ReceiveJsonKeeps, ReceiveStreamKeeps, EndOfBodyKeeps, YieldKeeps, SettleKeeps DEF Streams!Next
<1> QED BY <1>1, <1>2

\* The inductive invariant of a call of a provider.
THEOREM StreamsInvariant == Streams!Spec => []StreamsInv
<1>1. Streams!Init => StreamsInv
    BY StreamsStart
<1>2. StreamsInv /\ [Streams!Next]_(Streams!vars) => StreamsInv'
    BY StreamsKept
<1> QED BY <1>1, <1>2, PTL DEF Streams!Spec

\* A stream that is not over is in order, too.
LEMMA InOrder ==
    ASSUME StreamsInv
    PROVE  WellFormed
<1>1. CASE phase = "over"
    BY <1>1 DEF StreamsInv, RestInv
<1>2. CASE phase # "over"
    <2>1. \A i \in 1..Len(out) : /\ out[i].kind \in {"started", "text", "usage"} \cup Ending
                                 /\ out[i].kind = "started" <=> i = 1
                                 /\ out[i].kind \in Ending => i = Len(out)
                                 /\ out[i].kind = "completed" => whole
        <3>1. CASE phase = "reading"
            <4>1. Len(out) \in Nat /\ Len(pending) \in Nat
                BY DEF StreamsInv, StreamTypes
            <4>2. \A i \in 1..Len(out) : i \in 1..Told /\ Tells(i) = out[i].kind
                BY <4>1 DEF Told, Tells
            <4>3. \A i \in 1..Len(out) : Piece(i)
                BY <3>1, <4>2 DEF StreamsInv, ReadingInv
            <4> QED BY <4>1, <4>2, <4>3 DEF Piece, Told
        <3>2. CASE phase # "reading"
            <4>1. Open
                BY <1>2, <3>2, StillOpen DEF StreamsInv, StreamTypes
            <4> QED BY <4>1 DEF Open, Ending
        <3> QED BY <3>1, <3>2
    <2>2. Len(out) \in Nat /\ DOMAIN out = 1..Len(out)
        BY DEF StreamsInv, StreamTypes
    <2>3. \A i \in 1..Len(out) : out[i].kind \in Streams!Terminal => \A j \in i + 1..Len(out) : FALSE
        <3>1. \A i \in 1..Len(out) : out[i].kind \in Streams!Terminal => i = Len(out)
            BY <2>1 DEF Ending, Streams!Terminal
        <3>2. \A n \in Nat : \A j \in n + 1..n : FALSE
            OBVIOUS
        <3> QED BY <2>2, <3>1, <3>2
    <2>4. \A i \in 1..Len(out) : out[i].kind \in {"text", "usage", "completed"} => i > 1 /\ out[1].kind = "started"
        <3> SUFFICES ASSUME NEW i \in 1..Len(out), out[i].kind \in {"text", "usage", "completed"}
                     PROVE  i > 1 /\ out[1].kind = "started"
            OBVIOUS
        <3>1. i # 1
            BY <2>1
        <3>2. i > 1 /\ 1 \in 1..Len(out)
            BY <2>2, <3>1
        <3>3. out[1].kind = "started"
            BY <2>1, <3>2
        <3> QED BY <3>2, <3>3
    <2>5. \A i, j \in Streams!Positions({"started"}) : i = j
        <3>1. \A i \in Streams!Positions({"started"}) : i = 1
            BY <2>1, <2>2 DEF Streams!Positions
        <3> QED BY <3>1
    <2>6. \A i \in Streams!Positions({"text", "usage", "completed"}) : i > 1 /\ out[1].kind = "started"
        BY <2>2, <2>4 DEF Streams!Positions
    <2>7. \A i \in Streams!Positions(Streams!Terminal) : \A j \in i + 1..Len(out) : FALSE
        BY <2>2, <2>3 DEF Streams!Positions
    <2>8. Streams!Positions({"completed"}) # {} => whole
        BY <2>1, <2>2 DEF Streams!Positions
    <2> QED BY <1>2, <2>5, <2>6, <2>7, <2>8 DEF WellFormed, Streams!WellFormed
<1> QED BY <1>1, <1>2

\* One start and nothing before it, nothing but a cancellation after the end, an end for
\* every call that is not cancelled, and no completion of an answer that was cut off.
THEOREM StreamsWellFormed == Streams!Spec => []WellFormed
<1>1. StreamsInv => WellFormed
    BY InOrder
<1> QED BY <1>1, StreamsInvariant, PTL

\* The text that is shown, and all that follows it, is of one attempt.
THEOREM StreamsOneAttempt == Streams!Spec => []TextFromOneAttempt
<1>1. StreamsInv => TextFromOneAttempt
    <2> SUFFICES ASSUME StreamsInv, NEW i \in DOMAIN out, out[i].kind = "text", NEW j \in i..Len(out)
                 PROVE  out[j].try = out[i].try
        BY DEF TextFromOneAttempt, Streams!TextFromOneAttempt, Streams!Positions
    <2>1. i > 1 /\ i \in 1..Len(out) /\ Len(out) \in Nat
        BY InOrder DEF WellFormed, Streams!WellFormed, Streams!Positions, StreamsInv, StreamTypes
    <2>2. i \in 2..Len(out) /\ j \in 2..Len(out)
        BY <2>1
    <2> QED BY <2>2 DEF StreamsInv, OneAttempt
<1> QED BY <1>1, StreamsInvariant, PTL
=============================================================================
