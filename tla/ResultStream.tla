----------------------------- MODULE ResultStream -----------------------------
(***************************************************************************)
(* What LakeConn promises about the result of each statement: rows are     *)
(* delivered in the server's order, none twice and none left out; the end  *)
(* of the result is reported only after the last row; a closed or failed   *)
(* result delivers nothing more.  Exec delivers the whole result or fails. *)
(***************************************************************************)
EXTENDS Naturals, Sequences

CONSTANT Queries

VARIABLES total,      \* number of rows the server has for each statement
          status,     \* what the application knows of each result
          delivered   \* the rows it has received, numbered in the server's order

vars == <<total, status, delivered>>

Init ==
  /\ total \in [Queries -> Nat]
  /\ status = [q \in Queries |-> "new"]
  /\ delivered = [q \in Queries |-> <<>>]

Move(q, from, to) == status[q] \in from /\ status' = [status EXCEPT ![q] = to]

\* The application gets a handle on the rows.
Open(q) == Move(q, {"new"}, "streaming") /\ UNCHANGED <<total, delivered>>

\* The application gets the next row.
Deliver(q) ==
  /\ status[q] = "streaming" /\ Len(delivered[q]) < total[q]
  /\ delivered' = [delivered EXCEPT ![q] = Append(@, Len(@) + 1)]
  /\ UNCHANGED <<total, status>>

\* The application is told that there are no more rows.
Complete(q) ==
  /\ Len(delivered[q]) = total[q]
  /\ Move(q, {"streaming"}, "complete") /\ UNCHANGED <<total, delivered>>

\* Exec returns.
Whole(q) ==
  /\ Move(q, {"new"}, "complete")
  /\ delivered' = [delivered EXCEPT ![q] = [i \in 1..total[q] |-> i]]
  /\ UNCHANGED total

Fail(q) == Move(q, {"new", "streaming"}, "failed") /\ UNCHANGED <<total, delivered>>

\* The application closes the rows before their end.
Close(q) == Move(q, {"streaming"}, "closed") /\ UNCHANGED <<total, delivered>>

Next == \E q \in Queries :
          Open(q) \/ Deliver(q) \/ Complete(q) \/ Whole(q) \/ Fail(q) \/ Close(q)

Spec == Init /\ [][Next]_vars
===============================================================================
