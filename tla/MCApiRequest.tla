----------------------------- MODULE MCApiRequest -----------------------------
(***************************************************************************)
(* Instances of ApiRequest for TLC.  AnyRequest makes every kind of        *)
(* request.  One request of any kind settles the questions of the retry    *)
(* policy; where two come in a row, they are a statement or a page request *)
(* and then a statement, both with query IDs the server could confuse.     *)
(***************************************************************************)
EXTENDS ApiRequest

AnyRequest == {t \in Templates : t.kind = "Query" => t.uri = "own"}

\* A second request may start: both are JSON requests to the client's endpoint.
SecondIsAStatement ==
  call' = 2 =>
    /\ auth = "rotating"
    /\ \A n \in {1, 2} : requests'[n].transport = "json" /\ requests'[n].uri = "own"
    /\ requests'[1].kind \in {"Query", "Page"}
    /\ requests'[2].kind = "Query" /\ requests'[2].idFrom = "session"

MCStart ==
  \E t \in Workload, cx \in ContextEnd \cup {"live"} : StartCall(t, cx) /\ SecondIsAStatement

MCNext == MCStart \/ Client \/ Environment

MCSpec == Init /\ [][MCNext]_vars /\ Fairness
===============================================================================
