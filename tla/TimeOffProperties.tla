-------------------------- MODULE TimeOffProperties --------------------------
(***************************************************************************)
(* The correctness properties of TimeOffSaga.                              *)
(*                                                                         *)
(* Two disturbances undo what the handlers promise, and the history        *)
(* variables tell which requests met them: an administrator's force-fail,  *)
(* which refuses no state, and a job handed out again while a run of it    *)
(* goes on.  A property that needs their absence says so request by        *)
(* request, so that they happen to the other requests of the same run.     *)
(***************************************************************************)
EXTENDS TimeOffSaga

Undisturbed(r) == ~forced[r] /\ ~overlapped[r]

TerminalStatuses == RequestStatuses \ {"PENDING_APPROVAL"}

InFlight == SagaStates \ {"TERMINAL"}

(***************************************************************************)
(* Safety                                                                  *)
(***************************************************************************)
\* Every variable stays in its type; a run has a task exactly while it is under way, and a
\* request only exists on a balance that has a row (balance rows are never deleted).
TypeOK ==
  /\ HcmTypeOK
  /\ Channel!ChannelTypeOK
  /\ status \in [Requests -> RequestStatuses \cup {"none"}]
  /\ saga \in [Requests -> SagaStates \cup {"none"}]
  /\ moves \in [Requests -> [ReservationTypes -> Nat]]
  /\ total \in [Balances -> Int \cup {NoRow}]
  /\ sent \in [Requests -> 0..MaxEntries]
  /\ event \in [Entries -> EventTypes \cup {"none"}]
  /\ pc \in [Workers -> Steps]
  /\ task \in [Workers -> Entries \cup {NoEntry}]
  /\ \A w \in Workers : pc[w] = "idle" <=> task[w] = NoEntry
  /\ snap \in [Workers -> Int \cup {NoRow}]
  /\ env \in [Disturbances -> Nat]
  /\ \A d \in Disturbances : env[d] <= Budget[d]
  /\ forced \in [Requests -> BOOLEAN]
  /\ overlapped \in [Requests -> BOOLEAN]
  /\ rerun \in [Requests -> BOOLEAN]

\* The two columns a request's state is spread over never contradict each other: the status
\* is final exactly when the saga is TERMINAL, whoever wrote last (README "Key design
\* points", transition() in request.repository.ts).
StatusMatchesSaga ==
  \A r \in Requests :
    /\ status[r] = "none" <=> saga[r] = "none"
    /\ status[r] \in TerminalStatuses <=> saga[r] = "TERMINAL"

Count(p) == IF p THEN 1 ELSE 0

\* A request that was not force-failed and whose jobs never ran twice at once releases its
\* reservation exactly once, by a movement of the right type and in the transaction that
\* ends the saga; until then its ledger is the reservation and nothing else.  Crashes,
\* failed jobs and jobs delivered again after they ended do not change that.
LedgerBalanced ==
  \A r \in Requests : Undisturbed(r) =>
    /\ moves[r]["PENDING_RESERVATION"] = Count(saga[r] # "none")
    /\ moves[r]["CONFIRMED"] = Count(status[r] = "APPROVED")
    /\ moves[r]["CANCELLED"] = Count(saga[r] = "TERMINAL" /\ status[r] # "APPROVED")

\* Approve, reject and cancel exclude each other: a request has at most one outbox entry
\* besides its RESERVE_HCM, even if it is force-failed while its jobs are on the way.
OneDecision ==
  \A r \in Requests : ~overlapped[r] => sent[r] <= 2

\* A request whose jobs were run once, if at all.
Calm(r) == Undisturbed(r) /\ ~rerun[r]

HoldsOf(r) ==
  CASE saga[r] = "none" -> {"none"}
    [] saga[r] = "RESERVING_HCM" -> {"none", "held"}
    [] saga[r] = "AWAITING_APPROVAL" -> {"held"}
    [] saga[r] = "COMMITTING_HCM" -> {"held", "confirmed"}
    [] saga[r] = "COMPENSATING_HCM" -> {"held", "none"}
    [] saga[r] = "TERMINAL" /\ status[r] = "APPROVED" -> {"confirmed"}
    [] OTHER -> {"none"}

\* The hold in the HCM follows the saga: held while a decision is awaited, confirmed once
\* the request is approved, gone once it is refused, rejected or cancelled.  Lost answers,
\* outages and false acceptances do not break this; running a job again may.
HcmAgrees ==
  \A r \in Requests : Calm(r) => hold[r] \in HoldsOf(r)

\* What the HCM promises on a balance, it has promised to runs that were not repeated, after
\* looking whether it fits, and it has not changed the total itself.
OnlySagaUses(b) ==
  /\ "silent_accept" \notin Faults
  /\ HcmHasRow(b) /\ env["seed"] = 0
  /\ \A r \in Requests : BalanceOf[r] = b => ~rerun[r]

\* An HCM that refuses what does not fit is never driven below zero by the saga: what is
\* approved across all requests of a balance fits its total, force-fails included, as long
\* as no job was run again and the HCM did not change the total itself.
HcmNeverOverdrawn ==
  \A b \in Balances : OnlySagaUses(b) => hcmTotal[b] >= 0

(***************************************************************************)
(* Action properties                                                       *)
(***************************************************************************)
\* A terminal request stays as it is: no late run, delivered-again job or second decision
\* reopens it or changes how it ended, unless an administrator forces it.
TerminalKept ==
  \A r \in Requests :
    saga[r] = "TERMINAL" /\ Undisturbed(r) /\ ~forced'[r]
      => saga'[r] = saga[r] /\ status'[r] = status[r]

TerminalIsFinal == [][TerminalKept]_vars

(***************************************************************************)
(* Refinement                                                              *)
(***************************************************************************)
\* The decision taken is the one written into the payload of the second outbox entry.
DecisionOf(r) ==
  LET ev == event[<<r, 2>>]
  IN CASE ev = "CONFIRM_HCM" -> "APPROVED"
       [] ev \in Compensations -> IntendedStatus(ev)
       [] OTHER -> "none"

Lifecycle == INSTANCE RequestLifecycle
               WITH decision <- [r \in Requests |-> DecisionOf(r)],
                    void <- [r \in Requests |-> ~Undisturbed(r)]

\* Of a request that was not force-failed and whose jobs never ran twice at once, users see
\* nothing but the state machine of saga-state-machine.ts, whatever workers crash, throw and
\* start over, and whatever happens to the other requests of the balance.
LifecycleSpec == Lifecycle!Spec

(***************************************************************************)
(* Liveness, under Fairness                                                *)
(***************************************************************************)
\* Every job that is waiting is run to an end, whatever the HCM answers and even if the
\* worker dies in the middle.
JobsSettle ==
  \A e \in Entries : job[e] = "queued" ~> job[e] \in {"completed", "failed"}

\* No decision is forgotten on the way: a request that was approved, rejected or cancelled
\* is TERMINAL in the end or has left a failed job behind, for an operator to see.  Its job
\* never ends well without having ended the saga, unless a run that should not be there
\* (of a request that was force-failed, or beside another) took the decision back.
DecisionSettles ==
  \A r \in Requests :
    saga[r] \in {"COMMITTING_HCM", "COMPENSATING_HCM"}
      ~> saga[r] = "TERMINAL" \/ job[<<r, 2>>] = "failed" \/ ~Undisturbed(r)
=============================================================================
