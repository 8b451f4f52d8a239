-------------------------- MODULE RequestLifecycle --------------------------
(***************************************************************************)
(* What a time-off request promises to those who look at it: the state     *)
(* machine of domain/saga-state-machine.ts (canTransition and nextStatus), *)
(* in which a decision, once taken, is the way the request ends.  Queue,   *)
(* workers, ledger and HCM are not visible here.  What voids the promise   *)
(* made for one request does not touch the promise made for the others.    *)
(***************************************************************************)
EXTENDS Naturals

CONSTANT Requests

VARIABLES
  saga,      \* sagaState, "none" before the request exists
  status,    \* RequestStatus, "none" before the request exists
  decision,  \* the status the decision taken leads to, "none" before it
  void       \* requests for which nothing is promised any more

vars == <<saga, status, decision, void>>

Allowed ==
  [RESERVING_HCM     |-> {"AWAITING_APPROVAL", "TERMINAL"},
   AWAITING_APPROVAL |-> {"COMMITTING_HCM", "COMPENSATING_HCM", "TERMINAL"},
   COMMITTING_HCM    |-> {"TERMINAL"},
   COMPENSATING_HCM  |-> {"TERMINAL"},
   TERMINAL          |-> {}]

canTransition(from, to) == from \in DOMAIN Allowed /\ to \in Allowed[from]

Init ==
  /\ saga = [r \in Requests |-> "none"]
  /\ status = [r \in Requests |-> "none"]
  /\ decision = [r \in Requests |-> "none"]
  /\ void = [r \in Requests |-> FALSE]

Goto(r, newSaga, newStatus) ==
  /\ canTransition(saga[r], newSaga)
  /\ saga' = [saga EXCEPT ![r] = newSaga]
  /\ status' = [status EXCEPT ![r] = newStatus]
  /\ UNCHANGED void

Create(r) ==
  /\ saga[r] = "none"
  /\ saga' = [saga EXCEPT ![r] = "RESERVING_HCM"]
  /\ status' = [status EXCEPT ![r] = "PENDING_APPROVAL"]
  /\ UNCHANGED <<decision, void>>

hcm_reserve_ok(r) == Goto(r, "AWAITING_APPROVAL", "PENDING_APPROVAL") /\ UNCHANGED decision

hcm_reserve_4xx(r) ==
  /\ saga[r] = "RESERVING_HCM"
  /\ Goto(r, "TERMINAL", "FAILED")
  /\ UNCHANGED decision

Decide(r, newSaga, outcome) ==
  /\ Goto(r, newSaga, "PENDING_APPROVAL")
  /\ decision' = [decision EXCEPT ![r] = outcome]

\* hcm_confirm_ok and hcm_compensate_ok: the decision becomes the status.
Settled(r) ==
  /\ saga[r] \in {"COMMITTING_HCM", "COMPENSATING_HCM"}
  /\ Goto(r, "TERMINAL", decision[r])
  /\ UNCHANGED decision

\* Changes nothing but the state of r and may change that to anything.
OnlyAt(r, f, g) == \A q \in Requests \ {r} : g[q] = f[q]

\* A force-fail, or a job run twice at once, voids the promise for its request.
Void(r) ==
  /\ void' = [void EXCEPT ![r] = TRUE]
  /\ OnlyAt(r, saga, saga')
  /\ OnlyAt(r, status, status')
  /\ OnlyAt(r, decision, decision')

Next ==
  \E r \in Requests :
    \/ Void(r)
    \/ Create(r)
    \/ hcm_reserve_ok(r)
    \/ hcm_reserve_4xx(r)
    \/ Decide(r, "COMMITTING_HCM", "APPROVED")
    \/ \E outcome \in {"REJECTED", "CANCELLED"} : Decide(r, "COMPENSATING_HCM", outcome)
    \/ Settled(r)

Spec == Init /\ [][Next]_vars
=============================================================================
