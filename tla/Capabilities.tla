----------------------------- MODULE Capabilities -----------------------------
(***************************************************************************)
(* Which capability plugin may be called, and with which settings:         *)
(* PluginManager.discover_capabilities (plugin_manager.py), the            *)
(* CapabilityRegistry (capability_registry.py), the commands of            *)
(* RuntimeContext that configure them and the saving of a generation       *)
(* (context.py).                                                           *)
(*                                                                         *)
(* The command loop configures one thing at a time.  The workers of the    *)
(* scheduler generate and save, the workers of the plugin executor call    *)
(* plugins; each passes the gate of the registry under its lock and runs   *)
(* the plugin outside of it, so a configuration can come between the       *)
(* start of a generation, its gate and the end of the plugin's work.       *)
(*                                                                         *)
(* What a plugin does is left out: a call is its plugin, its operation and *)
(* its channel.  The protocol refuses malformed keys and policies by the   *)
(* rules of the registry before the registry sees them (protocol.py,       *)
(* _validate_history_keys and _validate_history_policy), so the branches   *)
(* that refuse them again are never taken.                                 *)
(***************************************************************************)
EXTENDS Naturals, FiniteSets

CONSTANTS
    Optional,          \* OPTIONAL_PLUGIN_IDS: the user enables and disables them
    History,           \* history-sqlite
    Workers,           \* threads that generate or call
    MaxConfigurations, \* bound: configuration commands
    MaxWork            \* bound: generations and calls of a worker

ASSUME CapabilitiesAssumption ==
    /\ History \notin Optional /\ MaxConfigurations \in Nat /\ MaxWork \in Nat

Plugins == Optional \cup {History}
Policies == [history_enabled: BOOLEAN, privacy_mode: BOOLEAN, redaction: {"secrets", "none"}]

\* The declared operations; rotate is to the registry what repair is.
Calls ==
    [plugin: {History}, operation: {"list", "rate"}, admin: {FALSE}]
    \cup [plugin: {History}, operation: {"delete", "repair", "restore"}, admin: {TRUE}]
    \cup [plugin: Optional, operation: {"use"}, admin: {FALSE}]

VARIABLES
    found,           \* candidates the entry points of the installation name
    wanted,          \* PluginManager._enabled_plugins
    cached,          \* PluginManager._capability_cache: an instance or 0
    made,            \* instances made so far
    plugins,         \* CapabilityRegistry._plugins: an instance or 0
    enabled,         \* CapabilityRegistry._enabled_plugins
    known,           \* CapabilityRegistry._known_descriptors: the state it names
    unavailable,     \* _history_unavailable
    keys,            \* _history_keys is not empty
    policy,          \* _history_policy
    maintenance,     \* _history_maintenance
    readsBlocked,    \* _history_reads_blocked
    job,             \* what a worker is doing
    records,         \* history: what the history plugin was given to save
    work,            \* generations and calls of a worker
    configurations   \* configuration commands

managed == <<found, wanted, cached, made>>
registered == <<plugins, enabled, known, unavailable>>
settings == <<keys, policy>>
gateVars == <<maintenance, readsBlocked>>
vars == <<managed, registered, settings, gateVars, job, records, work, configurations>>

Idle == [at |-> "idle"]
Jobs ==
    {Idle}
    \cup [at: {"generating"}, policy: Policies, state: {"writable", "private", "other"}]
    \cup [at: {"saving"}, policy: Policies, state: {"writable"}, instance: Nat,
          given: Policies, output: {"secrets", "none"}]
    \cup [at: {"calling"}, call: Calls, instance: Nat, owns: BOOLEAN]

TypeOK ==
    /\ found \in [Plugins -> 0..2] /\ wanted \in SUBSET Optional
    /\ cached \in [Plugins -> Nat] /\ made \in [Plugins -> Nat]
    /\ plugins \in [Plugins -> Nat] /\ enabled \in SUBSET Plugins
    /\ known \in [Plugins -> {"available", "disabled", "absent", "unavailable"}]
    /\ unavailable \in BOOLEAN /\ keys \in BOOLEAN /\ policy \in Policies
    /\ maintenance \in BOOLEAN /\ readsBlocked \in BOOLEAN
    /\ job \in [Workers -> Jobs]
    /\ work \in [Workers -> 0..MaxWork] /\ configurations \in 0..MaxConfigurations

----------------------------------------------------------------------------
\* Discovery.

\* One candidate, enabled if the user has a say, and loaded before or now: a
\* candidate that raises or does not show the built-in descriptor is not loaded.
Usable(p, want, loads) ==
    /\ found[p] = 1
    /\ p \in Optional => p \in want
    /\ cached[p] # 0 \/ p \in loads

\* Mutated form: an instance is not kept.
KeptNever(p, usable) == 0

\* An instance is made once; a plugin that two candidates claim loses its instance.
Kept(p, usable) ==
    IF found[p] > 1 THEN 0
    ELSE IF p \in usable /\ cached[p] = 0 THEN made[p] + 1
    ELSE cached[p]

Instance(p, usable) ==
    IF p \notin usable THEN 0 ELSE IF cached[p] # 0 THEN cached[p] ELSE made[p] + 1

StateOf(p, want, usable) ==
    IF found[p] > 1 THEN "unavailable"
    ELSE IF found[p] = 0 THEN "absent"
    ELSE IF p \in Optional \ want THEN "disabled"
    ELSE IF p \in usable THEN "available" ELSE "unavailable"

\* discover_capabilities, and replace_plugins with what it found.
Discovers(want, loads) ==
    LET usable == {p \in Plugins : Usable(p, want, loads)} IN
    /\ wanted' = want
    /\ cached' = [p \in Plugins |-> Kept(p, usable)]
    /\ made' = [p \in Plugins |-> IF p \in usable /\ cached[p] = 0 THEN made[p] + 1 ELSE made[p]]
    /\ plugins' = [p \in Plugins |-> Instance(p, usable)]
    /\ enabled' = usable
    /\ known' = [p \in Plugins |-> StateOf(p, want, usable)]
    /\ unavailable' = (StateOf(History, want, usable) = "unavailable")

\* Before the first discovery; RuntimeContext.__init__ does it with nothing enabled.
Init ==
    /\ found \in [Plugins -> 0..2]
    /\ wanted = {}
    /\ \E usable \in {{}, {History}} :
          /\ History \in usable => found[History] = 1
          /\ cached = [p \in Plugins |-> IF p \in usable THEN 1 ELSE 0]
          /\ made = cached /\ plugins = cached /\ enabled = usable
          /\ known = [p \in Plugins |-> StateOf(p, {}, usable)]
          /\ unavailable = (StateOf(History, {}, usable) = "unavailable")
    /\ keys = FALSE
    /\ policy = [history_enabled |-> FALSE, privacy_mode |-> FALSE, redaction |-> "secrets"]
    /\ maintenance = FALSE /\ readsBlocked = FALSE
    /\ job = [w \in Workers |-> Idle] /\ records = {}
    /\ work = [w \in Workers |-> 0] /\ configurations = 0

----------------------------------------------------------------------------
\* The commands that configure.

Configures ==
    /\ configurations < MaxConfigurations
    /\ configurations' = configurations + 1
    /\ UNCHANGED <<found, job, records, work>>

\* Mutated form: the new registry starts without a maintenance.
ConfigurePluginAnew(p, on) ==
    /\ Configures
    /\ \E loads \in SUBSET Plugins :
          Discovers(IF on THEN wanted \cup {p} ELSE wanted \ {p}, loads)
    /\ maintenance' = FALSE /\ readsBlocked' = FALSE
    /\ UNCHANGED settings

ConfigurePlugin(p, on) ==
    /\ Configures
    /\ \E loads \in SUBSET Plugins :
          Discovers(IF on THEN wanted \cup {p} ELSE wanted \ {p}, loads)
    /\ UNCHANGED <<settings, gateVars>>

ConfigureHistoryKeys(some) ==
    /\ Configures
    /\ keys' = some
    /\ UNCHANGED <<wanted, cached, made, registered, policy, gateVars>>

ConfigureHistoryPolicy(new) ==
    /\ Configures
    /\ policy' = new
    /\ UNCHANGED <<wanted, cached, made, registered, keys, gateVars>>

----------------------------------------------------------------------------
\* The gate.

HistoryState ==
    IF unavailable THEN "unavailable"
    ELSE IF ~keys THEN "absent"
    ELSE IF plugins[History] = 0 THEN "unavailable"
    ELSE IF ~policy.history_enabled THEN "read_only"
    ELSE IF policy.privacy_mode THEN "private" ELSE "writable"

\* descriptors(): what list_plugins names a plugin.
Listed(p) ==
    IF p = History THEN HistoryState
    ELSE IF plugins[p] = 0 THEN known[p]
    ELSE IF p \in enabled THEN "available" ELSE "disabled"

Maintains(operation) == operation \in {"repair", "restore"}
Mutates(operation) == operation \in {"save", "rate", "delete"} \/ Maintains(operation)

\* history_busy
Busy(operation) == maintenance /\ (readsBlocked \/ Mutates(operation))

\* _invoke for the public and the admin channel, up to the call of the plugin.
Admits(call) ==
    /\ plugins[call.plugin] # 0
    /\ call.plugin \in Optional => call.plugin \in enabled
    /\ call.plugin = History =>
          /\ HistoryState \notin {"absent", "unavailable"}
          /\ ~Busy(call.operation)

\* _invoke for a save, with the policy its generation began with.
AdmitsSave(frozen) ==
    /\ plugins[History] # 0 /\ ~unavailable /\ keys
    /\ frozen.history_enabled /\ ~frozen.privacy_mode
    /\ ~Busy("save")

----------------------------------------------------------------------------
\* The workers.

Works(w) ==
    /\ job[w] = Idle /\ work[w] < MaxWork
    /\ work' = [work EXCEPT ![w] = @ + 1]

Does(w, what) == job' = [job EXCEPT ![w] = what]

\* _start_history_save: the state and the policy of the history, in one look, and
\* the input redacted by that policy.
StartOptimize(w) ==
    /\ Works(w)
    /\ Does(w, [at |-> "generating", policy |-> policy,
                state |-> IF HistoryState \in {"writable", "private"} THEN HistoryState
                          ELSE "other"])
    /\ UNCHANGED <<managed, registered, settings, gateVars, records, configurations>>

\* Mutated form: the policy of the moment redacts the output.
OutputRedactionNow(w) == policy.redaction

\* The output is redacted by the policy the generation began with.
OutputRedaction(w) == job[w].policy.redaction

\* _save_history_result: nothing to save, refused, or given to the plugin.
Done(w) ==
    /\ job[w].at = "generating"
    /\ IF job[w].state = "writable" /\ AdmitsSave(job[w].policy)
       THEN Does(w, [at |-> "saving", policy |-> job[w].policy, state |-> job[w].state,
                     instance |-> plugins[History], given |-> job[w].policy,
                     output |-> OutputRedaction(w)])
       ELSE Does(w, Idle)
    /\ UNCHANGED <<managed, registered, settings, gateVars, records, work, configurations>>

\* The plugin saved the record, or raised.
Saved(w) ==
    /\ job[w].at = "saving"
    /\ \/ records' = records \cup {[begun |-> [policy |-> job[w].policy, state |-> job[w].state],
                                    given |-> job[w].given, output |-> job[w].output]}
       \/ UNCHANGED records
    /\ Does(w, Idle)
    /\ UNCHANGED <<managed, registered, settings, gateVars, work, configurations>>

\* A generation that is cancelled or fails saves nothing.
OptimizeEnds(w) ==
    /\ job[w].at = "generating"
    /\ Does(w, Idle)
    /\ UNCHANGED <<managed, registered, settings, gateVars, records, work, configurations>>

\* A call that passes the gate; one that does not is answered and leaves no trace.
Invoke(w, call) ==
    /\ Works(w)
    /\ Admits(call)
    /\ Does(w, [at |-> "calling", call |-> call, instance |-> plugins[call.plugin],
                owns |-> Maintains(call.operation)])
    /\ IF Maintains(call.operation)
       THEN maintenance' = TRUE /\ readsBlocked' = (call.operation = "restore")
       ELSE UNCHANGED gateVars
    /\ UNCHANGED <<managed, registered, settings, records, configurations>>

\* The finally of _invoke.
Returns(w) ==
    /\ job[w].at = "calling"
    /\ Does(w, Idle)
    /\ IF job[w].owns THEN maintenance' = FALSE /\ readsBlocked' = FALSE
                      ELSE UNCHANGED gateVars
    /\ UNCHANGED <<managed, registered, settings, records, work, configurations>>

----------------------------------------------------------------------------
Next ==
    \/ \E p \in Optional, on \in BOOLEAN : ConfigurePlugin(p, on)
    \/ \E some \in BOOLEAN : ConfigureHistoryKeys(some)
    \/ \E new \in Policies : ConfigureHistoryPolicy(new)
    \/ \E w \in Workers : StartOptimize(w) \/ Done(w) \/ Saved(w) \/ OptimizeEnds(w) \/ Returns(w)
    \/ \E w \in Workers, call \in Calls : Invoke(w, call)

Spec == Init /\ [][Next]_vars

Begins(w) == job[w].at # "calling" /\ job'[w].at = "calling"
BeginsSave(w) == job[w].at # "saving" /\ job'[w].at = "saving"

\* A record is saved only of a generation that began while the history was
\* writable, and everything about it follows the policy of that moment - the
\* redaction of its output and what the plugin is told - whatever the user
\* changes while the model writes.
RecordUnderOnePolicy ==
    \A r \in records :
        /\ r.begun.state = "writable"
        /\ r.given = r.begun.policy
        /\ r.output = r.begun.policy.redaction

\* No save, rating, deletion or other maintenance begins while a repair or a
\* restore runs, and no read while a restore does, even when the plugins are
\* discovered again meanwhile.
NothingWritesBesideMaintenance ==
    [][\A w, v \in Workers :
          w # v /\ job[v].at = "calling" /\ Maintains(job[v].call.operation) =>
             /\ ~BeginsSave(w)
             /\ Begins(w) /\ job'[w].call.plugin = History =>
                   ~Mutates(job'[w].call.operation) /\ job[v].call.operation # "restore"]_vars

\* All work on a plugin is done by one instance, whose locks it meets at: however
\* often plugins are discovered and whatever fails to load in between.
OneInstance ==
    \A w, v \in Workers :
        LET on(u) == IF job[u].at = "calling" THEN job[u].call.plugin
                     ELSE IF job[u].at = "saving" THEN History ELSE "none"
        IN job[w].at \in {"calling", "saving"} /\ job[v].at \in {"calling", "saving"}
              /\ on(w) = on(v) => job[w].instance = job[v].instance
=============================================================================
