----------------------- MODULE TimeOffClientProperties -----------------------
(***************************************************************************)
(* What those who sit before the pages of TimeOffClient may rely on.       *)
(***************************************************************************)
EXTENDS TimeOffClient, TimeOffProperties

Calls ==
  [op : RequestOps, on : Requests, left : {{}}]
    \cup [op : {"setupSeed", "setupPush"}, on : Balances, left : SUBSET Balances]

\* The pages' variables stay in their types, and a page has only the calls in flight that it
\* was let to send: the one-click setup awaits each call before the next.
ClientTypeOK ==
  /\ buttons \in [Pages -> SUBSET Requests]
  /\ IsABag(calls) /\ BagToSet(calls) \subseteq Calls /\ BagCardinality(calls) <= MaxCalls
  /\ read \in [Balances -> {NoRead} \cup [first : Int, approved : Nat]]
  /\ shown \in [Balances -> Int \cup {NoRow}]
  /\ told \in [Requests -> SUBSET Decisions]

OutcomeOf ==
  [approve |-> "APPROVED", reject |-> "REJECTED", cancel |-> "CANCELLED"]

\* Employee and manager click on rows they fetched earlier, at the same moment and more than
\* once: whoever is told that his decision was accepted is the only one, and the request ends
\* as he was told (Employee.tsx:58-64, Manager.tsx:23-31).
ToldIsOutcome ==
  \A r \in Requests :
    /\ ~overlapped[r] => Cardinality(told[r]) <= 1
    /\ \A op \in told[r] :
         Undisturbed(r) /\ saga[r] = "TERMINAL" => status[r] = OutcomeOf[op]

\* The total of a balance has changed by one approval at most, run once.
OneApproval(b) ==
  /\ env["refresh"] = 0 /\ env["seed"] = 0
  /\ \A q, r \in {r \in Requests : BalanceOf[r] = b} :
       /\ ~rerun[r]
       /\ {saga[q], saga[r]} \subseteq {"COMMITTING_HCM", "TERMINAL"} => q = r

\* The available days an employee is shown are what he has when the second select is done,
\* or more by the days whose approval was committed between the two selects, which are still
\* in the total read and already released in the movements read (balances.service.ts:15-18).
ShownIsExplained ==
  [][\A b \in Balances :
       listForEmployee(b) /\ read[b] # NoRead /\ OneApproval(b) =>
         shown'[b] - Available(b) \in {0, read[b].approved}]_clientVars

\* The one-click setup, cut off at any call, leaves no balance in the API that the HCM does
\* not know, which would let employees ask for days the HCM can only refuse; only a total an
\* administrator typed into the push form can (Admin.tsx:110-124).
RowsKnownToHcm ==
  [][\A b \in Balances :
       total'[b] # total[b] => HcmHasRow(b)' \/ push(b)]_clientVars
=============================================================================
