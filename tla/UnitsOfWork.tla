------------------------------ MODULE UnitsOfWork ------------------------------
(***************************************************************************)
(* What the driver promises the application about its transactions: each   *)
(* is a unit of work that the warehouse keeps as a whole or drops as a     *)
(* whole.  The application is told "committed" only of a unit that was     *)
(* kept and "rolled back" only of one that was dropped, and a statement it *)
(* is told of in between is in the unit.  An error promises nothing: the   *)
(* unit may be kept or dropped, now or later.                              *)
(***************************************************************************)
CONSTANTS Txns,        \* the transactions of the application
          Statements,  \* the statements they are made of
          WorkUnits,   \* the units of work of the warehouse
          NoUnit       \* stands for no unit

VARIABLES told,       \* what the application was told of the end of each transaction
          unit,       \* the unit of each transaction
          confirmed,  \* its statements that the application was told have run
          place,      \* the unit in which each statement ran
          kept,       \* the units that were kept
          dropped     \* the units that were dropped

vars == <<told, unit, confirmed, place, kept, dropped>>

Init == /\ told = [t \in Txns |-> "nothing"]
        /\ unit = [t \in Txns |-> NoUnit]
        /\ confirmed = [t \in Txns |-> {}]
        /\ place = [s \in Statements |-> NoUnit]
        /\ kept = {} /\ dropped = {}

\* The warehouse runs a statement in a unit that is not decided, and in no other.
Run(u, s) == /\ place[s] = NoUnit
             /\ u \notin kept \cup dropped
             /\ place' = [place EXCEPT ![s] = u]
             /\ UNCHANGED <<told, unit, confirmed, kept, dropped>>

\* The warehouse keeps a unit, or drops it: all of it, and for good.
Keep(u) == /\ u \notin kept \cup dropped
           /\ kept' = kept \cup {u}
           /\ UNCHANGED <<told, unit, confirmed, place, dropped>>

Drop(u) == /\ u \notin kept \cup dropped
           /\ dropped' = dropped \cup {u}
           /\ UNCHANGED <<told, unit, confirmed, place, kept>>

\* The transaction has begun, in a unit it stays in.
Join(t, u) == /\ told[t] = "nothing" /\ unit[t] = NoUnit
              /\ unit' = [unit EXCEPT ![t] = u]
              /\ UNCHANGED <<told, confirmed, place, kept, dropped>>

\* The application is told that a statement of the transaction has run.
Confirm(t, s) == /\ told[t] = "nothing"
                 /\ unit[t] # NoUnit /\ place[s] = unit[t]
                 /\ confirmed' = [confirmed EXCEPT ![t] = @ \cup {s}]
                 /\ UNCHANGED <<told, unit, place, kept, dropped>>

\* The application is told how the transaction ended.
Tell(t, r) == /\ told[t] = "nothing"
              /\ r = "committed" => unit[t] \in kept
              /\ r = "rolled back" => unit[t] \in dropped
              /\ told' = [told EXCEPT ![t] = r]
              /\ UNCHANGED <<unit, confirmed, place, kept, dropped>>

Change ==
  \/ \E u \in WorkUnits : Keep(u) \/ Drop(u) \/ \E s \in Statements : Run(u, s)
  \/ \E t \in Txns : \/ \E u \in WorkUnits : Join(t, u)
                     \/ \E s \in Statements : Confirm(t, s)
                     \/ \E r \in {"committed", "rolled back", "error"} : Tell(t, r)

\* A step that changes nothing is none.
Next == vars' # vars /\ Change

Spec == Init /\ [][Next]_vars

-------------------------------------------------------------------------------
(* What the promise amounts to.                                            *)

\* Whole or not at all: what the application was told of a transaction is one
\* unit, and that has the one fate it was told.
WholeOrNothing ==
  /\ kept \cap dropped = {}
  /\ \A t \in Txns : /\ \A s \in confirmed[t] : place[s] = unit[t]
                     /\ told[t] = "committed" => unit[t] \in kept
                     /\ told[t] = "rolled back" => unit[t] \in dropped

\* For good: a decided unit keeps its fate and gets no further statements, and a
\* statement that ran stays in its unit.
DecidedForGood ==
  [][/\ kept \subseteq kept' /\ dropped \subseteq dropped'
     /\ \A s \in Statements :
          place'[s] # place[s] => place[s] = NoUnit /\ place'[s] \notin kept \cup dropped]_vars
===============================================================================
