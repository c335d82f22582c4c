------------------------------ MODULE MCPlugins ------------------------------
(***************************************************************************)
(* A behaviour is one of the gate: plugins are configured and discovered   *)
(* while workers generate, save and call.  Or it is one inside a plugin,   *)
(* the semantic detector: its model is loaded, replaced and deleted while  *)
(* it detects.  Or it is one of a call: the server sends events, whole or  *)
(* refused, to the adapter of any protocol.  Or it is one of a body: the   *)
(* network cuts its characters into chunks, from which the layer below     *)
(* reads those events and hides the thoughts.                              *)
(***************************************************************************)
EXTENDS PluginSystem

CONSTANTS MaxBody, MaxChunk, MaxBytes
VARIABLES part, reader, state, shown, body, status

textVars == <<reader, state, shown, body, status>>

Text == INSTANCE StreamText WITH out <- shown

ASSUME Text!StreamTextAssumption

AllProtocols == {"gemini", "anthropic", "responses", "compatible", "minimax"}

\* Every other part rests in one of its initial states.
MCInit ==
  /\ part \in {"gate", "detector", "calls", "chunks"}
  /\ IF part = "gate" THEN Init ELSE GateRests
  /\ IF part = "detector" THEN Detector!Init ELSE DetectorRests
  /\ IF part = "calls" THEN Streams!Init ELSE StreamsRest
  /\ Text!Init /\ (part # "chunks" => reader = "named")

MCNext ==
  /\ UNCHANGED part
  /\ \/ part = "gate" /\ Next /\ UNCHANGED <<detectorVars, streamVars, textVars>>
     \/ part = "detector" /\ Detector!Next /\ UNCHANGED <<vars, streamVars, textVars>>
     \/ part = "calls" /\ Streams!Next /\ UNCHANGED <<vars, detectorVars, textVars>>
     \/ part = "chunks" /\ Text!Next /\ UNCHANGED <<vars, detectorVars, streamVars>>

\* The fairness of Detector!FairSpec and of Streams!Fairness, each in its own part: what
\* rests elsewhere need not move.
MCSpec ==
  /\ MCInit /\ [][MCNext]_<<part, vars, detectorVars, streamVars, textVars>>
  /\ \A d \in Detectors : WF_detectorVars(part = "detector" /\ Detector!DetectorStep(d))
  /\ WF_streamVars(part = "calls" /\ Streams!GoesOn)
  /\ WF_streamVars(part = "calls" /\ Streams!Closed)

\* How the network cuts a body changes neither its events nor what is shown.
CutsDoNotMatter == Text!CutsDoNotMatter
==============================================================================
