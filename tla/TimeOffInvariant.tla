-------------------------- MODULE TimeOffInvariant --------------------------
(***************************************************************************)
(* The inductive invariant behind StatusMatchesSaga, LedgerBalanced,       *)
(* OneDecision and TerminalIsFinal: why a handler that does not look at    *)
(* the saga state again before it commits still finds it as it left it,    *)
(* on a request that is not force-failed and has no job running twice.     *)
(***************************************************************************)
EXTENDS TimeOffProperties

ReserveSteps == {"reserve", "reserved", "refused"}
ConfirmSteps == {"confirmCheck", "confirm", "getBalance", "commit"}
ReleaseSteps == {"releaseCheck", "release", "released"}
LiveSteps == ReserveSteps \cup ConfirmSteps \cup ReleaseSteps

\* The event whose handler takes a step.
StepFits(step, ev) ==
  /\ step \in ReserveSteps => ev = "RESERVE_HCM"
  /\ step \in ConfirmSteps => ev = "CONFIRM_HCM"
  /\ step \in ReleaseSteps => ev \in Compensations

\* Entries are numbered in the order they are written and the first one is RESERVE_HCM.
EntriesFit ==
  \A r \in Requests :
    /\ saga[r] = "none" <=> sent[r] = 0
    /\ \A n \in 1..MaxEntries :
         /\ job[<<r, n>>] = "none" <=> sent[r] < n
         /\ event[<<r, n>>] = "none" <=> sent[r] < n
         /\ event[<<r, n>>] = "RESERVE_HCM" => n = 1
    /\ event[<<r, 1>>] \in {"none", "RESERVE_HCM"}

\* Only an active job is locked.
LocksFit == \A e \in Entries : lock[e] # NoWorker => job[e] = "active"

\* A run works on an entry of its kind, and holds its lock if no other run of it goes on.
RunsFit ==
  \A w \in Workers :
    pc[w] # "idle" =>
      /\ ~overlapped[RequestOf(w)] => lock[task[w]] = w
      /\ StepFits(pc[w], event[task[w]])

\* Before the decision there is one entry, and a run of it under way, even of a request
\* force-failed meanwhile, finds it undecided; after the decision there are two.
DecisionsFit ==
  /\ \A r \in Requests :
       ~overlapped[r] =>
         /\ sent[r] <= 2
         /\ saga[r] \in {"RESERVING_HCM", "AWAITING_APPROVAL"} => sent[r] = 1
  /\ \A w \in Workers :
       pc[w] \in ReserveSteps /\ ~overlapped[RequestOf(w)] =>
         sent[RequestOf(w)] = 1 /\ saga[RequestOf(w)] \in {"RESERVING_HCM", "TERMINAL"}

\* A run under way on an undisturbed request finds the saga where it read it.
SnapshotsFit ==
  \A w \in Workers :
    pc[w] \in LiveSteps /\ Undisturbed(RequestOf(w)) =>
      saga[RequestOf(w)] = ExpectedState(event[task[w]])

\* The invariant of the proofs; StatusMatchesSaga and LedgerBalanced are two of its parts.
LedgerInv ==
  /\ EntriesFit
  /\ LocksFit
  /\ RunsFit
  /\ DecisionsFit
  /\ SnapshotsFit
  /\ StatusMatchesSaga
  /\ LedgerBalanced

(***************************************************************************)
(* The addition behind HcmAgrees: what the hold of a request is at every   *)
(* step of a run, and why no job of it is run a second time in earnest.    *)
(***************************************************************************)
HoldAt(step) ==
  CASE step \in {"reserve", "refused", "released"} -> "none"
    [] step \in {"reserved", "confirmCheck", "confirm", "releaseCheck", "release"} -> "held"
    [] step \in {"getBalance", "commit"} -> "confirmed"

\* The hold the run of an event starts with.
HoldBefore(ev) == IF ev = "RESERVE_HCM" THEN "none" ELSE "held"

\* A job that waits for a run that will act finds the hold as its handler expects it; one
\* that is over, or about to be, has moved the saga on.
HoldFits(r) ==
  /\ hold[r] \in HoldsOf(r)
  /\ \A w \in Workers :
       pc[w] # "idle" /\ RequestOf(w) = r =>
         /\ pc[w] \in LiveSteps => hold[r] = HoldAt(pc[w])
         /\ pc[w] = "done" => saga[r] # ExpectedState(event[task[w]])
  /\ \A n \in 1..MaxEntries :
       job[<<r, n>>] \in {"queued", "completed"} /\ saga[r] = ExpectedState(event[<<r, n>>]) =>
         job[<<r, n>>] = "queued" /\ hold[r] = HoldBefore(event[<<r, n>>])

HoldsInv == \A r \in Requests : Calm(r) => HoldFits(r)

(***************************************************************************)
(* The addition behind HcmNeverOverdrawn: why the HCM deducts a request    *)
(* only once although its confirm does not look whether it has, and why    *)
(* what it holds for all requests together fits what it has.               *)
(***************************************************************************)
\* A run that may still confirm, or a job that would start one, has not been preceded by
\* another, even if the request was force-failed meanwhile.
ConfirmsOnce(r) ==
  /\ ~overlapped[r]
  /\ hold[r] = "confirmed" => sent[r] >= 2
  /\ \A w \in Workers :
       pc[w] # "idle" /\ RequestOf(w) = r =>
         /\ pc[w] \in {"confirmCheck", "confirm"} => hold[r] # "confirmed"
         /\ pc[w] = "done" => saga[r] # ExpectedState(event[task[w]])
  /\ \A n \in 1..MaxEntries :
       job[<<r, n>>] \in {"queued", "completed"} /\ saga[r] = ExpectedState(event[<<r, n>>]) =>
         /\ job[<<r, n>>] = "queued"
         /\ event[<<r, n>>] = "CONFIRM_HCM" => hold[r] # "confirmed"

HeldOn(b) == {r \in Requests : hold[r] = "held" /\ BalanceOf[r] = b}

OnceInv == \A r \in Requests : ~rerun[r] => ConfirmsOnce(r)

\* The HCM started with no debt, and only the saga has taken from it.
FundsTracked(b) == InitialTotals \subseteq Nat \cup {NoRow} /\ OnlySagaUses(b)

FundsInv ==
  /\ IsFiniteSet({r \in Requests : hold[r] # "none"})
  /\ \A b \in Balances : FundsTracked(b) => HcmAvailable(b) >= 0

(***************************************************************************)
(* The addition behind ShownIsExplained: how the total of a balance in the *)
(* API lags behind the one in the HCM while an approval is under way.      *)
(***************************************************************************)
\* What the hold and the movements of a request, however it was forced, say of its approval.
ApprovalFits(r) ==
  /\ hold[r] = "confirmed" => event[<<r, 2>>] = "CONFIRM_HCM"
  /\ saga[r] = "COMPENSATING_HCM" => event[<<r, 2>>] \in Compensations
  /\ moves[r]["CONFIRMED"] > 0 => hold[r] = "confirmed"
  /\ status[r] = "APPROVED" => moves[r]["CONFIRMED"] > 0
  /\ \A w \in Workers :
       pc[w] \in {"getBalance", "commit"} /\ RequestOf(w) = r =>
         hold[r] = "confirmed" /\ moves[r]["CONFIRMED"] = 0

ApprovalsInv == \A r \in Requests : ~rerun[r] => ApprovalFits(r)

RequestsOn(b) == {r \in Requests : BalanceOf[r] = b}

\* The HCM has deducted one request of the balance at most, and nobody else has touched it.
OneConfirmed(b) ==
  /\ env["refresh"] = 0 /\ env["seed"] = 0
  /\ \A q, r \in RequestsOn(b) :
       /\ ~rerun[r]
       /\ hold[q] = "confirmed" /\ hold[r] = "confirmed" => q = r

\* The days the HCM has deducted for a request and the API has not.
Lag(r) == IF hold[r] = "confirmed" /\ moves[r]["CONFIRMED"] = 0 THEN DaysOf[r] ELSE 0

BooksFit(b) ==
  /\ HcmHasRow(b)
  /\ (\A r \in RequestsOn(b) : hold[r] # "confirmed") => total[b] = hcmTotal[b]
  /\ \A r \in RequestsOn(b) : hold[r] = "confirmed" => total[b] = hcmTotal[b] + Lag(r)
  /\ \A w \in Workers :
       pc[w] = "commit" /\ BalanceOf[RequestOf(w)] = b => snap[w] = hcmTotal[b]
  /\ (\E r \in RequestsOn(b) : saga[r] # "none") => computeRawAvailable(total[b], moves, b) >= 0

\* As long as the HCM has deducted one request of a balance at most and nobody else changes
\* the balance, the totals of API and HCM are equal but for the days of an approval between the
\* call and its commit, what that commit will write is the HCM's total of then, and the days
\* still available are not negative (hcm-saga.processor.ts:164-210).
BooksInv == \A b \in Balances : OneConfirmed(b) /\ total[b] # NoRow => BooksFit(b)
=============================================================================
