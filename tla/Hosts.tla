-------------------------------- MODULE Hosts --------------------------------
(***************************************************************************)
(* The two programs that run the runtime as a child process: the desktop   *)
(* host (SidecarHost) and the HTTP host (HttpGateway).  They have nothing  *)
(* in common but the runtime's protocol.                                   *)
(***************************************************************************)
EXTENDS SidecarHost

CONSTANTS Ids, BufferSize, EventsSize, MaxTombstones, MaxRequests, MaxChunks, MaxCancels

VARIABLES session, closed, req, registered, tombstones, commands, active, events,
          inHand, cancels

Http == INSTANCE HttpGateway

ASSUME HttpConstants == Http!HttpGatewayAssumption

\* A stream of the HTTP host yields the events of its own request only.
NoStrayEvent == Http!NoStrayEvent

\* A stream that is told of its end can still read it.
TerminalStays == Http!TerminalStays
==============================================================================
