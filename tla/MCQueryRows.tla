------------------------------ MODULE MCQueryRows ------------------------------
(***************************************************************************)
(* Instances of QueryRows for TLC.  The layouts have pages of no, one and  *)
(* two rows, at the start, in the middle and at the end of a result.  A    *)
(* history variable remembers the statements whose Rows were open when     *)
(* another statement was started on the connection.                        *)
(***************************************************************************)
EXTENDS QueryRows, TLC

FewLayouts == {<<0>>, <<1, 1>>, <<0, 2>>}
ManyLayouts == FewLayouts \cup {<<2>>, <<0, 1, 1, 2>>, <<1, 2, 3>>}

VARIABLE shared  \* statements that shared the connection while their Rows were open

Started == pc = "idle" /\ pc' = "start"
Track ==
  shared' = shared \cup (IF Started THEN {q \in Queries : rowsState[q] = "open"} ELSE {})

MCSpec == shared = {} /\ Init /\ [][Next /\ Track]_<<vars, shared>> /\ Fairness

\* A page is requested from the node that runs its statement, as long as the
\* application does not start another statement while its Rows are open
\* (client.go:690-692, 788-833).
PollsOwnNode == NeedsPage /\ cur \notin shared => nodeID = cur
===============================================================================
