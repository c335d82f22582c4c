----------------------------- MODULE MCPluginCall -----------------------------
(***************************************************************************)
(* Instances of PluginCall.  A call that is alone shows its stream: a      *)
(* buffer of two fills, a budget of three is exceeded by the fourth event. *)
(* Two calls show the slots they compete for; there the accounted events   *)
(* and the deadline are left out, so that a plugin raises, stops or never  *)
(* returns: every way out of submit and of _run is still taken.            *)
(***************************************************************************)
EXTENDS PluginCall

Begun == {c \in Calls : caller[c] # "idle"}

OneStream ==
  Cardinality(Begun) > 1 => \A c \in Calls : events[c] = 0 /\ ~late[c]
==============================================================================
