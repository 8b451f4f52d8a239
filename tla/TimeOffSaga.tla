----------------------------- MODULE TimeOffSaga -----------------------------
(***************************************************************************)
(* The life of time-off requests: the API operations of                    *)
(* requests.service.ts, each one database transaction, and the handlers of *)
(* hcm-saga.processor.ts, each a run of several steps with a database read *)
(* first, calls to the HCM next and one transaction at the end.  Anything  *)
(* may happen between two steps of a run.                                  *)
(*                                                                         *)
(* The database serialises transactions, so a transaction is one step.     *)
(* The HCM is module HcmMock and the way from the outbox to a worker is    *)
(* module JobChannel.                                                      *)
(***************************************************************************)
EXTENDS HcmMock

CONSTANTS
  Workers,        \* slots in which a worker runs handlers concurrently
  NoWorker,
  NoEntry,        \* the task of an idle slot
  MaxStalled,     \* how often BullMQ puts a stalled job back
  MaxEntries,     \* bound: outbox entries of one request
  InitialTotals,  \* totals the HCM may start with
  Totals,         \* totals the HCM may change a balance to
  Budget,         \* bound: how often each disturbance may happen
  MaxDisturbances \* bound: how often disturbances may happen altogether

Disturbances == {"forceFail", "crash", "stall", "resend", "refresh", "seed"}

\* The id of the n-th outbox entry of a request.
Entries == Requests \X (1..MaxEntries)

ASSUME SagaAssumption ==
  /\ NoWorker \notin Workers
  /\ NoEntry \notin Entries
  /\ MaxStalled \in Nat
  /\ MaxEntries \in Nat /\ MaxEntries >= 2
  /\ InitialTotals \subseteq Int \cup {NoRow}
  /\ Totals \subseteq Int
  /\ Budget \in [Disturbances -> Nat]
  /\ MaxDisturbances \in Nat

VARIABLES
  status,      \* TimeOffRequest.status, "none" before the row exists
  saga,        \* TimeOffRequest.sagaState, "none" before the row exists
  moves,       \* the TimeOffMovement rows of each request, counted by type
  total,       \* Balance.totalDays
  sent,        \* how many outbox entries each request has
  event,       \* OutboxEntry.eventType with the intended terminal status
  job, lock, stalls,   \* see JobChannel
  pc,          \* the next step of the run in each slot
  task,        \* the entry it works on
  snap,        \* the HCM total its getBalance returned
  env,         \* disturbances used up so far
  forced,      \* history: requests that were ever force-failed
  overlapped,  \* history: requests with a job handed out again beside a live run
  rerun        \* history: requests with a job handed out again that had not completed

Channel == INSTANCE JobChannel

requestVars == <<status, saga>>
channelVars == <<job, lock, stalls>>
outboxVars == <<sent, event, channelVars>>
runVars == <<pc, task, snap>>
historyVars == <<forced, overlapped, rerun>>
vars == <<requestVars, moves, total, outboxVars, runVars, env, historyVars, hcmVars>>

RequestStatuses == {"PENDING_APPROVAL", "APPROVED", "REJECTED", "CANCELLED", "FAILED"}

SagaStates == {"RESERVING_HCM", "AWAITING_APPROVAL", "COMMITTING_HCM",
               "COMPENSATING_HCM", "TERMINAL"}

\* COMPENSATE_HCM carries the intended terminal status in its payload.
EventTypes == {"RESERVE_HCM", "CONFIRM_HCM", "COMPENSATE_REJECTED",
               "COMPENSATE_CANCELLED"}

Compensations == {"COMPENSATE_REJECTED", "COMPENSATE_CANCELLED"}

\* Mutant: the payload's status is read without its default.
IntendedStatusUnset(ev) == IF ev = "COMPENSATE_REJECTED" THEN "REJECTED" ELSE "undefined"

IntendedStatus(ev) == IF ev = "COMPENSATE_REJECTED" THEN "REJECTED" ELSE "CANCELLED"

Steps == {"idle", "reserve", "reserved", "refused", "confirmCheck", "confirm",
          "getBalance", "commit", "releaseCheck", "release", "released",
          "done", "threw"}

Init ==
  /\ HcmInit(InitialTotals)
  /\ total \in [Balances -> InitialTotals \cup {NoRow}]
  /\ \A b \in Balances : total[b] \in {hcmTotal[b], NoRow}
  /\ status = [r \in Requests |-> "none"]
  /\ saga = [r \in Requests |-> "none"]
  /\ moves = [r \in Requests |-> NoMovements]
  /\ sent = [r \in Requests |-> 0]
  /\ event = [e \in Entries |-> "none"]
  /\ Channel!ChannelInit
  /\ pc = [w \in Workers |-> "idle"]
  /\ task = [w \in Workers |-> NoEntry]
  /\ snap = [w \in Workers |-> NoRow]
  /\ env = [d \in Disturbances |-> 0]
  /\ forced = [r \in Requests |-> FALSE]
  /\ overlapped = [r \in Requests |-> FALSE]
  /\ rerun = [r \in Requests |-> FALSE]

Spend(d) ==
  /\ env[d] < Budget[d]
  /\ MapThenSumSet(LAMBDA k : env[k], Disturbances) < MaxDisturbances
  /\ env' = [env EXCEPT ![d] = @ + 1]

(***************************************************************************)
(* Parts of a transaction                                                  *)
(***************************************************************************)
transition(r, newStatus, newSaga) ==
  /\ status' = [status EXCEPT ![r] = newStatus]
  /\ saga' = [saga EXCEPT ![r] = newSaga]

createMovement(r, t) == moves' = AddMovement(moves, r, t)

enqueueInTx(r, ev) ==
  /\ sent[r] < MaxEntries
  /\ sent' = [sent EXCEPT ![r] = @ + 1]
  /\ event' = [event EXCEPT ![<<r, sent[r] + 1>>] = ev]
  /\ Channel!Enqueue(<<r, sent[r] + 1>>)

(***************************************************************************)
(* API operations                                                          *)
(***************************************************************************)
\* A key that is known already returns the request that has it and changes nothing.
create(r) ==
  /\ saga[r] = "none"
  /\ total[BalanceOf[r]] # NoRow
  /\ assertSufficient(computeAvailable(total[BalanceOf[r]], moves, BalanceOf[r]), DaysOf[r])
  /\ transition(r, "PENDING_APPROVAL", "RESERVING_HCM")
  /\ createMovement(r, "PENDING_RESERVATION")
  /\ enqueueInTx(r, "RESERVE_HCM")
  /\ UNCHANGED <<total, runVars, env, historyVars, hcmVars>>

\* Mutant: a decision on any request that exists.
transitionUnchecked(r, ev, nextSaga) ==
  /\ saga[r] # "none"
  /\ transition(r, "PENDING_APPROVAL", nextSaga)
  /\ enqueueInTx(r, ev)
  /\ UNCHANGED <<moves, total, runVars, env, historyVars, hcmVars>>

transitionWithOutbox(r, ev, nextSaga) ==
  /\ saga[r] = "AWAITING_APPROVAL"
  /\ transition(r, "PENDING_APPROVAL", nextSaga)
  /\ enqueueInTx(r, ev)
  /\ UNCHANGED <<moves, total, runVars, env, historyVars, hcmVars>>

\* Mutant: the rejection sends the job of the approval.
rejectMisaddressed(r) == transitionWithOutbox(r, "CONFIRM_HCM", "COMPENSATING_HCM")

approve(r) == transitionWithOutbox(r, "CONFIRM_HCM", "COMMITTING_HCM")
reject(r)  == transitionWithOutbox(r, "COMPENSATE_REJECTED", "COMPENSATING_HCM")
cancel(r)  == transitionWithOutbox(r, "COMPENSATE_CANCELLED", "COMPENSATING_HCM")

\* Mutant: the status is written and the saga state forgotten.
forceFailStatusOnly(r) ==
  /\ saga[r] # "none"
  /\ createMovement(r, "CANCELLED")
  /\ transition(r, "FAILED", saga[r])
  /\ Spend("forceFail")
  /\ forced' = [forced EXCEPT ![r] = TRUE]
  /\ UNCHANGED <<total, outboxVars, runVars, overlapped, rerun, hcmVars>>

\* The administrator's recovery: no state is refused and the HCM is not told.
forceFail(r) ==
  /\ saga[r] # "none"
  /\ createMovement(r, "CANCELLED")
  /\ transition(r, "FAILED", "TERMINAL")
  /\ Spend("forceFail")
  /\ forced' = [forced EXCEPT ![r] = TRUE]
  /\ UNCHANGED <<total, outboxVars, runVars, overlapped, rerun, hcmVars>>

(***************************************************************************)
(* Balance changes that do not come from a request                         *)
(***************************************************************************)
\* A webhook row that reconciliation accepts.  The total it carries is the HCM's of now or of
\* an earlier moment, or what an administrator typed: nothing compares it with the HCM.
refreshBalance(b, t) ==
  /\ t # NoRow
  /\ total' = [total EXCEPT ![b] = t]
  /\ Spend("refresh")
  /\ UNCHANGED <<requestVars, moves, outboxVars, runVars, historyVars, hcmVars>>

hcmDrift(b, t) ==
  /\ HcmSeed(b, t)
  /\ Spend("seed")
  /\ UNCHANGED <<requestVars, moves, total, outboxVars, runVars, historyVars>>

(***************************************************************************)
(* The runs of the worker                                                  *)
(***************************************************************************)
RequestOf(w) == task[w][1]

\* The saga state in which a handler acts; in any other it is a no-op.
ExpectedState(ev) ==
  CASE ev = "RESERVE_HCM" -> "RESERVING_HCM"
    [] ev = "CONFIRM_HCM" -> "COMMITTING_HCM"
    [] ev \in Compensations -> "COMPENSATING_HCM"

FirstStep(ev) ==
  CASE ev = "RESERVE_HCM" -> "reserve"
    [] ev = "CONFIRM_HCM" -> "confirmCheck"
    [] ev \in Compensations -> "releaseCheck"

GoTo(w, step) ==
  /\ pc' = [pc EXCEPT ![w] = step]
  /\ UNCHANGED <<task, snap>>

\* What every step of a run leaves alone.
RunFrame == UNCHANGED <<outboxVars, env, historyVars>>

\* Mutant: a handler without its no-op check.
startJobUnguarded(w, e) ==
  /\ pc[w] = "idle"
  /\ Channel!Take(w, e)
  /\ task' = [task EXCEPT ![w] = e]
  /\ pc' = [pc EXCEPT ![w] = FirstStep(event[e])]
  /\ UNCHANGED <<requestVars, moves, total, sent, event, snap, env, historyVars, hcmVars>>

\* A slot takes a job; the handler reads the request first, outside any transaction.
startJob(w, e) ==
  /\ pc[w] = "idle"
  /\ Channel!Take(w, e)
  /\ task' = [task EXCEPT ![w] = e]
  /\ pc' = [pc EXCEPT ![w] = IF saga[e[1]] = ExpectedState(event[e])
                               THEN FirstStep(event[e]) ELSE "done"]
  /\ UNCHANGED <<requestVars, moves, total, sent, event, snap, env, historyVars, hcmVars>>

reserveCall(w) ==
  /\ pc[w] = "reserve"
  /\ \E reply, got \in Replies :
       /\ HcmReserve(RequestOf(w), reply)
       /\ Received(reply, got)
       /\ GoTo(w, IF got = "ok" THEN "reserved"
                  ELSE IF got \in {"INSUFFICIENT_BALANCE", "INVALID_DIMENSION"} THEN "refused"
                  ELSE "threw")
  /\ RunFrame /\ UNCHANGED <<requestVars, moves, total>>

\* The defensive re-validation and the transition; the saga state is not read again.
reserveCommit(w) ==
  LET r == RequestOf(w)
      b == BalanceOf[r]
  IN /\ pc[w] = "reserved"
     /\ IF computeRawAvailable(total[b], moves, b) < 0
          THEN GoTo(w, "threw") /\ UNCHANGED requestVars
          ELSE GoTo(w, "done") /\ transition(r, "PENDING_APPROVAL", "AWAITING_APPROVAL")
     /\ RunFrame /\ UNCHANGED <<moves, total, hcmVars>>

\* Mutant: the saga ends without releasing the reservation.
failRequestSilent(w) ==
  /\ pc[w] = "refused"
  /\ transition(RequestOf(w), "FAILED", "TERMINAL")
  /\ GoTo(w, "done")
  /\ RunFrame /\ UNCHANGED <<moves, total, hcmVars>>

failRequest(w) ==
  /\ pc[w] = "refused"
  /\ createMovement(RequestOf(w), "CANCELLED")
  /\ transition(RequestOf(w), "FAILED", "TERMINAL")
  /\ GoTo(w, "done")
  /\ RunFrame /\ UNCHANGED <<total, hcmVars>>

\* The idempotency check: movements are read after, and apart from, the request.
confirmCheck(w) ==
  /\ pc[w] = "confirmCheck"
  /\ GoTo(w, IF moves[RequestOf(w)]["CONFIRMED"] > 0 THEN "getBalance" ELSE "confirm")
  /\ RunFrame /\ UNCHANGED <<requestVars, moves, total, hcmVars>>

confirmCall(w) ==
  /\ pc[w] = "confirm"
  /\ \E reply, got \in Replies :
       /\ HcmConfirm(RequestOf(w), reply)
       /\ Received(reply, got)
       /\ GoTo(w, IF got = "ok" THEN "getBalance" ELSE "threw")
  /\ RunFrame /\ UNCHANGED <<requestVars, moves, total>>

getBalanceCall(w) ==
  LET b == BalanceOf[RequestOf(w)]
  IN /\ pc[w] = "getBalance"
     /\ \E reply, got \in Replies :
          /\ HcmGetBalance(b, reply)
          /\ Received(reply, got)
          /\ IF got = "ok"
               THEN /\ pc' = [pc EXCEPT ![w] = "commit"]
                    /\ snap' = [snap EXCEPT ![w] = hcmTotal[b]]
                    /\ UNCHANGED task
               ELSE GoTo(w, "threw")
     /\ RunFrame /\ UNCHANGED <<requestVars, moves, total>>

\* Mutant: the days are released and the total of the HCM is not taken over.
confirmCommitUnsynced(w) ==
  /\ pc[w] = "commit"
  /\ IF total[BalanceOf[RequestOf(w)]] = NoRow
       THEN GoTo(w, "threw") /\ UNCHANGED <<requestVars, moves>>
       ELSE /\ createMovement(RequestOf(w), "CONFIRMED")
            /\ transition(RequestOf(w), "APPROVED", "TERMINAL")
            /\ GoTo(w, "done")
  /\ RunFrame /\ UNCHANGED <<total, hcmVars>>

\* The total read before the transaction is written inside it.  The version guard compares
\* with the version read in the same transaction and so never refuses.
confirmCommit(w) ==
  LET r == RequestOf(w)
      b == BalanceOf[r]
  IN /\ pc[w] = "commit"
     /\ IF total[b] = NoRow
          THEN GoTo(w, "threw") /\ UNCHANGED <<requestVars, moves, total>>
          ELSE /\ total' = [total EXCEPT ![b] = snap[w]]
               /\ createMovement(r, "CONFIRMED")
               /\ transition(r, "APPROVED", "TERMINAL")
               /\ GoTo(w, "done")
     /\ RunFrame /\ UNCHANGED hcmVars

releaseCheck(w) ==
  /\ pc[w] = "releaseCheck"
  /\ GoTo(w, IF moves[RequestOf(w)]["CANCELLED"] > 0 THEN "released" ELSE "release")
  /\ RunFrame /\ UNCHANGED <<requestVars, moves, total, hcmVars>>

\* Mutants: every error of the release is swallowed; an outage restarts the handler in place.
releaseCallSwallowing(w) ==
  /\ pc[w] = "release"
  /\ \E reply, got \in Replies :
       /\ HcmRelease(RequestOf(w), reply)
       /\ Received(reply, got)
       /\ GoTo(w, "released")
  /\ RunFrame /\ UNCHANGED <<requestVars, moves, total>>

releaseCallLooping(w) ==
  /\ pc[w] = "release"
  /\ \E reply, got \in Replies :
       /\ HcmRelease(RequestOf(w), reply)
       /\ Received(reply, got)
       /\ GoTo(w, IF got = "unavailable" THEN "releaseCheck" ELSE "released")
  /\ RunFrame /\ UNCHANGED <<requestVars, moves, total>>

\* Only HcmUnavailableError stops the run; any other error is logged.
releaseCall(w) ==
  /\ pc[w] = "release"
  /\ \E reply, got \in Replies :
       /\ HcmRelease(RequestOf(w), reply)
       /\ Received(reply, got)
       /\ GoTo(w, IF got = "unavailable" THEN "threw" ELSE "released")
  /\ RunFrame /\ UNCHANGED <<requestVars, moves, total>>

compensateCommit(w) ==
  /\ pc[w] = "released"
  /\ createMovement(RequestOf(w), "CANCELLED")
  /\ transition(RequestOf(w), IntendedStatus(event[task[w]]), "TERMINAL")
  /\ GoTo(w, "done")
  /\ RunFrame /\ UNCHANGED <<total, hcmVars>>

\* The database refuses a read or rolls a transaction back: the handler throws.
databaseError(w) ==
  /\ "db" \in Faults
  /\ pc[w] \in {"reserved", "refused", "confirmCheck", "commit", "releaseCheck", "released"}
  /\ GoTo(w, "threw")
  /\ RunFrame /\ UNCHANGED <<requestVars, moves, total, hcmVars>>

\* The handler's promise settles and BullMQ moves the job to completed or failed.
endJob(w) ==
  /\ pc[w] \in {"done", "threw"}
  /\ Channel!Settle(w, task[w], IF pc[w] = "done" THEN "completed" ELSE "failed")
  /\ pc' = [pc EXCEPT ![w] = "idle"]
  /\ task' = [task EXCEPT ![w] = NoEntry]
  /\ snap' = [snap EXCEPT ![w] = NoRow]
  /\ UNCHANGED <<requestVars, moves, total, sent, event, env, historyVars, hcmVars>>

(***************************************************************************)
(* Disturbances of the queue and of the worker                             *)
(***************************************************************************)
LiveRun(e) == \E w \in Workers : pc[w] # "idle" /\ task[w] = e

QueueFrame == UNCHANGED <<requestVars, moves, total, sent, event, runVars, forced, hcmVars>>

\* Every run dies where it is; its job stays active until it is found stalled.
crash ==
  /\ Spend("crash")
  /\ Channel!LoseLocks
  /\ pc' = [w \in Workers |-> "idle"]
  /\ task' = [w \in Workers |-> NoEntry]
  /\ snap' = [w \in Workers |-> NoRow]
  /\ UNCHANGED <<requestVars, moves, total, sent, event, historyVars, hcmVars>>

recoverOrphan(e) ==
  /\ ~LiveRun(e)
  /\ Channel!Stall(e)
  /\ rerun' = [rerun EXCEPT ![e[1]] = TRUE]
  /\ UNCHANGED <<env, overlapped>>
  /\ QueueFrame

\* The lock expires although the run goes on: the process was paused or cut off from Redis.
lockExpires(e) ==
  /\ LiveRun(e)
  /\ Channel!Stall(e)
  /\ Spend("stall")
  /\ overlapped' = [overlapped EXCEPT ![e[1]] = TRUE]
  /\ rerun' = [rerun EXCEPT ![e[1]] = TRUE]
  /\ QueueFrame

redisForgets(e) ==
  /\ Channel!Resend(e)
  /\ Spend("resend")
  /\ overlapped' = [overlapped EXCEPT ![e[1]] = @ \/ LiveRun(e)]
  /\ rerun' = [rerun EXCEPT ![e[1]] = @ \/ job[e] \in {"active", "failed"}]
  /\ QueueFrame

(***************************************************************************)
(* The specification                                                       *)
(***************************************************************************)
ApiStep(r) == create(r) \/ approve(r) \/ reject(r) \/ cancel(r) \/ forceFail(r)

RunStep(w) ==
  \/ reserveCall(w) \/ reserveCommit(w) \/ failRequest(w)
  \/ confirmCheck(w) \/ confirmCall(w) \/ getBalanceCall(w) \/ confirmCommit(w)
  \/ releaseCheck(w) \/ releaseCall(w) \/ compensateCommit(w)
  \/ databaseError(w)
  \/ endJob(w)

BalanceStep ==
  \E b \in Balances :
    \/ \E t \in Totals \cup {hcmTotal[b]} : refreshBalance(b, t)
    \/ \E t \in Totals : hcmDrift(b, t)

QueueStep(e) == recoverOrphan(e) \/ lockExpires(e) \/ redisForgets(e)

Next ==
  \/ \E r \in Requests : ApiStep(r)
  \/ \E w \in Workers, e \in Entries : startJob(w, e)
  \/ \E w \in Workers : RunStep(w)
  \/ \E e \in Entries : QueueStep(e)
  \/ BalanceStep
  \/ crash

Spec == Init /\ [][Next]_vars

\* The queue hands out waiting jobs, a run goes on (a call to the HCM returns or fails),
\* and BullMQ's stalled-job check finds the jobs of a dead worker.  Users owe nothing.
Fairness ==
  /\ \A e \in Entries : WF_vars(\E w \in Workers : startJob(w, e))
  /\ \A w \in Workers : WF_vars(RunStep(w))
  /\ \A e \in Entries : WF_vars(recoverOrphan(e))

FairSpec == Spec /\ Fairness
=============================================================================
