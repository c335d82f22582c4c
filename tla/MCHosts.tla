------------------------------- MODULE MCHosts -------------------------------
(***************************************************************************)
(* A behaviour is one of the desktop host or one of the HTTP host, whose   *)
(* clients choose one id twice (pings have ids of their own) over buffers  *)
(* and queues that fill.                                                   *)
(***************************************************************************)
EXTENDS Hosts, TLC

CONSTANTS op1, op2, op3, configureCmd, optimizeCmd, adminCmd, cancelCmd,  \* of SidecarHost
          idA                                                     \* of HttpGateway

VARIABLE host

httpVars == <<session, closed, req, registered, tombstones, commands, active, events,
              inHand, cancels>>

\* One operation configures and optimizes, one is of administration, one cancels what the first sent.
MCCommandsOf == (op1 :> <<configureCmd, optimizeCmd>>) @@ (op2 :> <<adminCmd>>)
                @@ (op3 :> <<cancelCmd>>)
MCKind == (configureCmd :> "configure") @@ (optimizeCmd :> "optimize")
          @@ (adminCmd :> "admin") @@ (cancelCmd :> "cancel")
MCTarget == [x \in Commands |-> optimizeCmd]

\* Bound: the cancel endpoint, which knows no id of a ping, is used where nobody pings.
PingsOrCancels == cancels > 0 => \A n \in DOMAIN req : ~req[n].ping

MCInit == host \in {"desktop", "http"} /\ Init /\ Http!Init

MCNext ==
  /\ UNCHANGED host
  /\ \/ host = "desktop" /\ Next /\ UNCHANGED httpVars
     \/ host = "http" /\ Http!Next /\ PingsOrCancels' /\ UNCHANGED vars

\* Fairness is asked of the desktop host alone: the properties of the HTTP host are of safety.
MCSpec == MCInit /\ [][MCNext]_<<host, vars, httpVars>> /\ Fairness
==============================================================================
