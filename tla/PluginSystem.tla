----------------------------- MODULE PluginSystem -----------------------------
(***************************************************************************)
(* Three parts of the plugin system that share no state: the gate, which   *)
(* says which plugin may be called (Capabilities); the semantic detector,  *)
(* inside one plugin (SemanticModel); and a call of a provider plugin      *)
(* (ProviderStreams).  Each specification stands for itself and leaves the *)
(* variables of the others free; MCPlugins lets one of them move while the *)
(* others rest.                                                            *)
(***************************************************************************)
EXTENDS Capabilities

CONSTANTS Detectors, Managers, Snapshots, NoModel, NoResult, MaxGeneration, MaxFiles, MaxCalls
VARIABLES lock, generation, library, disk, cache, pc, local, detected, calls,
          command, left, installed, crossed

detectorVars == <<lock, generation, library, disk, cache, pc, local, detected, calls,
                  command, left, installed, crossed>>

Detector == INSTANCE SemanticModel WITH found <- detected

ASSUME DetectorAssumption == Detector!SemanticModelAssumption

CONSTANTS Protocols, MaxAttempts, MaxEvents
VARIABLES asked, phase, attempt, cancelled, parsed, pending, after, out, whole, events

streamVars == <<asked, phase, attempt, cancelled, parsed, pending, after, out, whole, events>>

Streams == INSTANCE ProviderStreams WITH call <- asked

ASSUME StreamsAssumption == Streams!ProviderAssumption

----------------------------------------------------------------------------
\* The parts that rest do so in one of their initial states.
GateRests == Init /\ enabled = {} /\ \A p \in Plugins : found[p] = 0
DetectorRests == Detector!Init /\ ~library /\ disk = NoModel
StreamsRest ==
  /\ Streams!Init /\ ~cancelled
  /\ asked = [protocol |-> CHOOSE p \in Protocols : TRUE, stream |-> TRUE]

----------------------------------------------------------------------------
\* A scene comes from one model, and from one that was installed in this generation.
ResultIsCurrent == Detector!ResultIsCurrent

\* A detection never waits for the management of the model.
DetectionEnds == Detector!DetectionEnds

\* A consumer is shown the text of one attempt of a provider's call.
TextFromOneAttempt == Streams!TextFromOneAttempt

\* A provider's events form one well-ordered stream.
WellFormed == Streams!WellFormed

\* A cancelled call of a provider ends.
CancelledCallEnds == Streams!CancelledCallEnds
=============================================================================
