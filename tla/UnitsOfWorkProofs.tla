--------------------------- MODULE UnitsOfWorkProofs ---------------------------
(***************************************************************************)
(* What UnitsOfWork promises, for any transactions, statements and units:  *)
(* whole or not at all, and for good.                                      *)
(***************************************************************************)
EXTENDS UnitsOfWork, TLAPS

Shapes ==
  /\ told \in [Txns -> {"nothing", "committed", "rolled back", "error"}]
  /\ DOMAIN unit = Txns /\ DOMAIN confirmed = Txns /\ DOMAIN place = Statements

\* A transaction is told of statements only once it is in a unit, which makes
\* WholeOrNothing inductive: neither a statement nor a transaction leaves a unit.
ConfirmedInside ==
  \A t \in Txns : \A s \in confirmed[t] : s \in Statements /\ place[s] # NoUnit

Promise == Shapes /\ ConfirmedInside /\ WholeOrNothing

LEMMA InitPromise == Init => Promise
BY DEF Init, Promise, Shapes, ConfirmedInside, WholeOrNothing

LEMMA StepPromise == Promise /\ [Next]_vars => Promise'
<1> SUFFICES ASSUME Promise, [Next]_vars PROVE Promise'
  OBVIOUS
<1> USE DEF Promise, Shapes
<1>1. ASSUME NEW u \in WorkUnits, NEW s \in Statements, Run(u, s) PROVE Promise'
  <2>1. /\ place[s] = NoUnit /\ place' = [place EXCEPT ![s] = u]
        /\ UNCHANGED <<told, unit, confirmed, kept, dropped>>
    BY <1>1 DEF Run
  <2>2. \A t \in Txns : \A c \in confirmed[t] : c # s /\ place'[c] = place[c]
    BY <2>1 DEF ConfirmedInside
  <2>3. Shapes' /\ ConfirmedInside'
    BY <2>1, <2>2 DEF ConfirmedInside
  <2>4. WholeOrNothing'
    BY <2>1, <2>2 DEF WholeOrNothing
  <2>5. QED
    BY <2>3, <2>4
<1>2. ASSUME NEW u \in WorkUnits, Keep(u) \/ Drop(u) PROVE Promise'
  BY <1>2 DEF Keep, Drop, ConfirmedInside, WholeOrNothing
<1>3. ASSUME NEW t \in Txns, NEW u \in WorkUnits, Join(t, u) PROVE Promise'
  <2>1. /\ told[t] = "nothing" /\ unit[t] = NoUnit /\ unit' = [unit EXCEPT ![t] = u]
        /\ UNCHANGED <<told, confirmed, place, kept, dropped>>
    BY <1>3 DEF Join
  <2>2. ASSUME NEW s \in confirmed[t] PROVE FALSE
    <3>1. place[s] # NoUnit
      BY <2>2 DEF ConfirmedInside
    <3>2. place[s] = unit[t]
      BY <2>2 DEF WholeOrNothing
    <3>3. QED
      BY <2>1, <3>1, <3>2
  <2>3. WholeOrNothing'
    BY <2>1, <2>2 DEF WholeOrNothing
  <2>4. QED
    BY <2>1, <2>3 DEF ConfirmedInside
<1>4. ASSUME NEW t \in Txns, NEW s \in Statements, Confirm(t, s) PROVE Promise'
  <2>1. /\ place[s] # NoUnit /\ place[s] = unit[t]
        /\ confirmed' = [confirmed EXCEPT ![t] = confirmed[t] \cup {s}]
        /\ UNCHANGED <<told, unit, place, kept, dropped>>
    BY <1>4 DEF Confirm
  <2>2. \A v \in Txns : \A c \in confirmed'[v] : c \in confirmed[v] \/ (v = t /\ c = s)
    BY <2>1
  <2>3. WholeOrNothing'
    BY <2>1, <2>2 DEF WholeOrNothing
  <2>4. Shapes' /\ ConfirmedInside'
    BY <2>1, <2>2 DEF ConfirmedInside
  <2>5. QED
    BY <2>3, <2>4
<1>5. ASSUME NEW t \in Txns, NEW r \in {"committed", "rolled back", "error"}, Tell(t, r)
      PROVE  Promise'
  BY <1>5 DEF Tell, ConfirmedInside, WholeOrNothing
<1>6. CASE UNCHANGED vars
  BY <1>6 DEF vars, ConfirmedInside, WholeOrNothing
<1>7. QED
  BY <1>1, <1>2, <1>3, <1>4, <1>5, <1>6 DEF Next, Change

\* A transaction is one unit of work, with the fate the application was told.
THEOREM UnitsAreWhole == Spec => []WholeOrNothing
<1>1. Promise => WholeOrNothing
  BY DEF Promise
<1>2. QED
  BY <1>1, InitPromise, StepPromise, PTL DEF Spec

\* A unit keeps its fate, and no statement runs in it once it is decided.
THEOREM UnitsAreFinal == Spec => DecidedForGood
<1>1. Promise /\ [Next]_vars =>
        [/\ kept \subseteq kept' /\ dropped \subseteq dropped'
         /\ \A s \in Statements :
              place'[s] # place[s] => place[s] = NoUnit /\ place'[s] \notin kept \cup dropped]_vars
  <2> SUFFICES ASSUME Promise, Next
               PROVE  /\ kept \subseteq kept' /\ dropped \subseteq dropped'
                      /\ \A s \in Statements : place'[s] # place[s] =>
                           place[s] = NoUnit /\ place'[s] \notin kept \cup dropped
    OBVIOUS
  <2>1. ASSUME NEW u \in WorkUnits, NEW c \in Statements, Run(u, c), NEW s \in Statements,
               place'[s] # place[s]
        PROVE  place[s] = NoUnit /\ place'[s] \notin kept \cup dropped
    BY <2>1 DEF Run, Promise, Shapes
  <2>2. ASSUME NEW u \in WorkUnits, NEW c \in Statements, Run(u, c)
        PROVE  kept' = kept /\ dropped' = dropped
    BY <2>2 DEF Run
  <2>3. ASSUME NEW u \in WorkUnits, Keep(u) \/ Drop(u)
        PROVE  kept \subseteq kept' /\ dropped \subseteq dropped' /\ place' = place
    BY <2>3 DEF Keep, Drop
  <2>4. ASSUME NEW t \in Txns,
               \/ \E u \in WorkUnits : Join(t, u)
               \/ \E s \in Statements : Confirm(t, s)
               \/ \E r \in {"committed", "rolled back", "error"} : Tell(t, r)
        PROVE  UNCHANGED <<place, kept, dropped>>
    BY <2>4 DEF Join, Confirm, Tell
  <2>5. QED
    BY <2>1, <2>2, <2>3, <2>4 DEF Next, Change
<1>2. QED
  BY <1>1, InitPromise, StepPromise, PTL DEF Spec, DecidedForGood
===============================================================================
