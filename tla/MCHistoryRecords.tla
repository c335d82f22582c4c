--------------------------- MODULE MCHistoryRecords ---------------------------
(***************************************************************************)
(* Three records: two of one day, saved in another order than their        *)
(* identifiers, and an older one.                                          *)
(***************************************************************************)
EXTENDS HistoryRecords

MCIds == 1..3
MCCreatedAt == [i \in MCIds |-> IF i = 2 THEN 0 ELSE 1]
MCSize == [i \in MCIds |-> IF i = 1 THEN 2 ELSE 1]
MCNaming == {1, 3}

MCRequest(sort, direction, keyword, from) ==
  [sort |-> sort, direction |-> direction, keyword |-> keyword, from |-> from, to |-> 9]
MCAsked ==
  {MCRequest("rating", "asc", FALSE, 0), MCRequest("created_at", "desc", TRUE, 1)}
==============================================================================
