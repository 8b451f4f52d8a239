------------------------------ MODULE MCServices ------------------------------
(* An instance of Services: two requests on one balance; two readiness calls. *)
EXTENDS ServicesProperties

CONSTANTS b1, r1, r2, p1, p2

MCBalanceOf == [r \in Requests |-> b1]
MCDaysOf == [r \in Requests |-> 1]

MCInjectable ==
  [op : {"reserve"}, kind : Kinds]
    \cup [op : {"confirm", "release", "getBalance"}, kind : {"unavailable"}]
    \cup [op : {"release"}, kind : {"insufficient"}]

\* Every call of the HCM with two failures queued; a readiness call among the calls it shares
\* the failures with; two readiness calls.
MCScopes ==
  {[calls |-> Ops, failures |-> MCInjectable, queued |-> 2, probes |-> {}],
   [calls |-> {"getBalance"}, failures |-> [op : {"getBalance"}, kind : {"unavailable", "insufficient"}],
    queued |-> 1, probes |-> {p1}],
   [calls |-> {}, failures |-> {}, queued |-> 0, probes |-> {p1, p2}]}
=============================================================================
