--------------------------- MODULE StatementService ---------------------------
(***************************************************************************)
(* What the driver promises the application about each statement it sends  *)
(* to the warehouse, however often the request behind it is repeated: the  *)
(* statement takes effect at most once, and it is confirmed only after it  *)
(* took effect.  A statement that is reported as failed may still take     *)
(* effect later: its request may already be on its way.                    *)
(***************************************************************************)
EXTENDS Naturals

CONSTANT Statements

VARIABLES phase,   \* what the application knows of each statement
          effects  \* how often the warehouse ran each statement

vars == <<phase, effects>>

Init == /\ phase = [s \in Statements |-> "new"]
        /\ effects = [s \in Statements |-> 0]

\* The application hands the statement to the driver.
Submit(s) == /\ phase[s] = "new"
             /\ phase' = [phase EXCEPT ![s] = "open"]
             /\ UNCHANGED effects

\* The warehouse runs the statement: never twice, and never before the
\* application submitted it.
TakeEffect(s) == /\ phase[s] # "new"
                 /\ effects[s] = 0
                 /\ effects' = [effects EXCEPT ![s] = 1]
                 /\ UNCHANGED phase

\* The driver returns without an error.
Confirm(s) == /\ phase[s] = "open"
              /\ effects[s] = 1
              /\ phase' = [phase EXCEPT ![s] = "confirmed"]
              /\ UNCHANGED effects

\* The driver returns an error.
Reject(s) == /\ phase[s] = "open"
             /\ phase' = [phase EXCEPT ![s] = "failed"]
             /\ UNCHANGED effects

Next == \E s \in Statements :
            Submit(s) \/ TakeEffect(s) \/ Confirm(s) \/ Reject(s)

Spec == Init /\ [][Next]_vars
===============================================================================
