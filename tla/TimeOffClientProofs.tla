------------------------- MODULE TimeOffClientProofs -------------------------
(***************************************************************************)
(* The pages add nothing to what the system does: every behaviour of       *)
(* TimeOffClient is one of TimeOffSaga, so that what is proved of the saga *)
(* holds whatever the pages show and whoever clicks, late or twice.  Then  *)
(* what a page does show: how the totals of API and HCM differ, and what a *)
(* balance query cut in two by an approval makes of it.                    *)
(***************************************************************************)
EXTENDS TimeOffClientProperties, TimeOffHoldProofs

CallsFit == BagToSet(calls) \subseteq Calls

ButtonsFit == buttons \in [Pages -> SUBSET Requests]

(***************************************************************************)
(* The calls                                                               *)
(***************************************************************************)
LEMMA BagAdd ==
  ASSUME NEW B, NEW d
  PROVE  BagToSet(B (+) SetToBag({d})) = BagToSet(B) \cup {d}
BY DEF (+), SetToBag, BagToSet

LEMMA BagRemove ==
  ASSUME NEW B, NEW d
  PROVE  BagToSet(B (-) SetToBag({d})) \subseteq BagToSet(B)
BY DEF (-), SetToBag, BagToSet

LEMMA EndedCalls ==
  ASSUME NEW c, End(c)
  PROVE  BagToSet(calls') \subseteq BagToSet(calls)
BY BagRemove DEF End

LEMMA ContinuedCalls ==
  ASSUME NEW c, NEW d, Continue(c, d)
  PROVE  BagToSet(calls') \subseteq BagToSet(calls) \cup {d}
<1> DEFINE rest == calls (-) SetToBag({c})
<1>1. BagToSet(calls') = BagToSet(rest) \cup {d}
  BY BagAdd DEF Continue
<1>2. BagToSet(rest) \subseteq BagToSet(calls)
  BY BagRemove
<1> QED
  BY <1>1, <1>2

LEMMA SentCalls ==
  ASSUME NEW op, NEW on, NEW left, Send(op, on, left)
  PROVE  /\ BagToSet(calls') = BagToSet(calls) \cup {[op |-> op, on |-> on, left |-> left]}
         /\ UNCHANGED <<vars, buttons>>
BY BagAdd DEF Send

(***************************************************************************)
(* Every step is a step of the system, or none                             *)
(***************************************************************************)
LEMMA ServedBySystem ==
  ASSUME CallsFit, NEW c \in BagToSet(calls), CallStep(c)
  PROVE  Next \/ UNCHANGED vars
<1>0. c \in Calls
  BY DEF CallsFit
<1>1. CASE serveDecision(c)
  <2>1. c.on \in Requests
    BY <1>0, <1>1 DEF serveDecision, Calls, RequestOps, Decisions
  <2> QED
    BY <1>1, <2>1 DEF serveDecision, Next, ApiStep
<1>2. CASE serveForceFail(c)
  <2>1. c.on \in Requests
    BY <1>0, <1>2 DEF serveForceFail, Calls
  <2> QED
    BY <1>2, <2>1 DEF serveForceFail, Next, ApiStep
<1>3. CASE serveSetup(c)
  <2>1. c.on \in Balances
    BY <1>0, <1>3 DEF serveSetup, Calls, RequestOps, Decisions
  <2> QED
    BY <1>3, <2>1, ClientAssumption DEF serveSetup, Next, BalanceStep
<1>4. CASE failCall(c)
  BY <1>4 DEF failCall
<1> QED
  BY <1>1, <1>2, <1>3, <1>4 DEF CallStep

LEMMA PageStepBySystem ==
  ASSUME PageStep
  PROVE  Next \/ UNCHANGED vars
<1>1. CASE \E p \in Pages : fetchRequests(p)
  BY <1>1 DEF fetchRequests
<1>2. CASE \E b \in Balances : listForEmployee(b)
  BY <1>2 DEF listForEmployee
<1>3. CASE \E r \in Requests : submit(r)
  BY <1>3 DEF submit, Unseen, Next, ApiStep
<1>4. CASE \E r \in Requests : clickCancel(r) \/ clickForceFail(r)
                                \/ \E op \in Decisions : clickApproveOrReject(r, op)
  BY <1>4, SentCalls DEF clickCancel, clickForceFail, clickApproveOrReject
<1>5. CASE \E b \in Balances : clickSetup(b)
  BY <1>5, SentCalls DEF clickSetup
<1>6. CASE \E b \in Balances : seed(b) \/ push(b)
  BY <1>6 DEF seed, push, Unseen, Next, BalanceStep
<1> QED
  BY <1>1, <1>2, <1>3, <1>4, <1>5, <1>6 DEF PageStep

LEMMA StepBySystem ==
  ASSUME CallsFit, [ClientNext]_clientVars
  PROVE  [Next]_vars
<1>1. CASE Unseen(SystemStep)
  BY <1>1 DEF Unseen, SystemStep, HcmStep, Next
<1>2. CASE UNCHANGED clientVars
  BY <1>2 DEF clientVars
<1> QED
  BY <1>1, <1>2, PageStepBySystem, ServedBySystem DEF ClientNext

(***************************************************************************)
(* What the pages hold                                                     *)
(***************************************************************************)
LEMMA CallsKept ==
  ASSUME CallsFit, ButtonsFit, [ClientNext]_clientVars
  PROVE  CallsFit' /\ ButtonsFit'
<1>1. CASE UNCHANGED <<buttons, calls>>
  BY <1>1 DEF CallsFit, ButtonsFit
<1>2. ASSUME NEW p \in Pages, fetchRequests(p)
      PROVE  CallsFit' /\ ButtonsFit'
  <2>1. Offered(p) \subseteq Requests
    BY DEF Offered, Awaiting
  <2> QED
    BY <1>2, <2>1 DEF fetchRequests, CallsFit, ButtonsFit
<1>3. ASSUME NEW op, NEW on, NEW left, Send(op, on, left),
             [op |-> op, on |-> on, left |-> left] \in Calls
      PROVE  CallsFit' /\ ButtonsFit'
  BY <1>3, SentCalls DEF CallsFit, ButtonsFit
<1>4. ASSUME NEW r \in Requests, NEW op \in RequestOps
      PROVE  [op |-> op, on |-> r, left |-> {}] \in Calls
  BY DEF Calls
<1>5. ASSUME NEW r \in Requests, clickCancel(r) \/ clickForceFail(r)
      PROVE  CallsFit' /\ ButtonsFit'
  BY <1>3, <1>4, <1>5 DEF clickCancel, clickForceFail, RequestOps, Decisions
<1>6. ASSUME NEW r \in Requests, NEW op \in Decisions, clickApproveOrReject(r, op)
      PROVE  CallsFit' /\ ButtonsFit'
  BY <1>3, <1>4, <1>6 DEF clickApproveOrReject, RequestOps
<1>7. ASSUME NEW b \in Balances, clickSetup(b)
      PROVE  CallsFit' /\ ButtonsFit'
  <2>1. [op |-> "setupSeed", on |-> b, left |-> Balances \ {b}] \in Calls
    BY DEF Calls
  <2> QED
    BY <1>3, <1>7, <2>1 DEF clickSetup
<1>8. ASSUME NEW c \in BagToSet(calls), CallStep(c)
      PROVE  CallsFit' /\ ButtonsFit'
  <2>1. UNCHANGED buttons
    BY <1>8 DEF CallStep, serveDecision, serveForceFail, serveSetup, failCall
  <2>2. CASE End(c)
    BY <2>1, <2>2, EndedCalls DEF CallsFit, ButtonsFit
  <2>3. ASSUME NEW d \in Calls, Continue(c, d)
        PROVE  CallsFit' /\ ButtonsFit'
    BY <2>1, <2>3, ContinuedCalls DEF CallsFit, ButtonsFit
  <2>4. CASE serveSetup(c)
    <3>1. c \in [op : {"setupSeed", "setupPush"}, on : Balances, left : SUBSET Balances]
      BY <2>4 DEF serveSetup, CallsFit, Calls, RequestOps, Decisions
    <3>2. [c EXCEPT !.op = "setupPush"] \in Calls
      BY <3>1 DEF Calls
    <3>3. ASSUME NEW b \in c.left
          PROVE  [op |-> "setupSeed", on |-> b, left |-> c.left \ {b}] \in Calls
      BY <3>1 DEF Calls
    <3> QED
      BY <2>2, <2>3, <2>4, <3>2, <3>3 DEF serveSetup
  <2> QED
    BY <1>8, <2>2, <2>4 DEF CallStep, serveDecision, serveForceFail, failCall
<1> QED
  BY <1>1, <1>2, <1>5, <1>6, <1>7, <1>8
  DEF ClientNext, PageStep, clientVars, pageVars, Unseen, listForEmployee, submit, seed, push

LEMMA CallsInvariance == ClientSpec => [](CallsFit /\ ButtonsFit)
<1>1. ClientInit => CallsFit /\ ButtonsFit
  BY DEF ClientInit, CallsFit, ButtonsFit, EmptyBag, SetToBag, BagToSet
<1>2. CallsFit /\ ButtonsFit /\ [ClientNext]_clientVars => (CallsFit /\ ButtonsFit)'
  BY CallsKept
<1> QED
  BY <1>1, <1>2, PTL DEF ClientSpec

\* The system beneath the pages behaves as it does without them: every theorem about
\* TimeOffSaga is one about TimeOffClient.
THEOREM ClientImplementsSaga == ClientSpec => Spec
<1>1. ClientInit => Init
  BY DEF ClientInit
<1>2. CallsFit /\ [ClientNext]_clientVars => [Next]_vars
  BY StepBySystem
<1> QED
  BY <1>1, <1>2, CallsInvariance, PTL DEF ClientSpec, Spec

(***************************************************************************)
(* Rows of the API and rows of the HCM                                     *)
(***************************************************************************)
CommitsFit == \A w \in Workers : pc[w] = "commit" => HcmHasRow(BalanceOf[RequestOf(w)])

SetupsFit == \A c \in BagToSet(calls) : c.op = "setupPush" => HcmHasRow(c.on)

\* No step of the system takes a row of the HCM away.
LEMMA RunKeepsRows ==
  ASSUME TypeOK, NEW w \in Workers, RunStep(w), NEW b \in Balances, HcmHasRow(b)
  PROVE  HcmHasRow(b)'
<1>1. CASE UNCHANGED hcmTotal
  BY <1>1 DEF HcmHasRow
<1>2. CASE confirmCall(w)
  <2>1. PICK reply \in Replies : HcmConfirm(RequestOf(w), reply)
    BY <1>2 DEF confirmCall
  <2>2. RequestOf(w) \in Requests
    BY <1>2, RunTypes DEF confirmCall
  <2>3. CASE hcmTotal' = [hcmTotal EXCEPT ![BalanceOf[RequestOf(w)]] =
                            @ - DaysOf[RequestOf(w)]]
             /\ HcmHasRow(BalanceOf[RequestOf(w)])
    BY <2>2, <2>3, LedgerAssumption, HcmAssumption DEF HcmHasRow, TypeOK, HcmTypeOK
  <2> QED
    BY <1>1, <2>1, <2>3 DEF HcmConfirm, HcmIsDown, hcmVars
<1> QED
  BY <1>1, <1>2 DEF RunStep, reserveCall, reserveCommit, failRequest, confirmCheck,
     getBalanceCall, confirmCommit, releaseCheck, releaseCall, compensateCommit, databaseError,
     endJob, HcmReserve, HcmRelease, HcmGetBalance, HcmIsDown, hcmVars

LEMMA RowsKept ==
  ASSUME TypeOK, [Next]_vars, NEW b \in Balances, HcmHasRow(b)
  PROVE  HcmHasRow(b)'
<1>1. CASE UNCHANGED hcmTotal
  BY <1>1 DEF HcmHasRow
<1>2. CASE \E w \in Workers : RunStep(w)
  BY <1>2, RunKeepsRows
<1>3. CASE BalanceStep
  <2>1. CASE \E a \in Balances, t \in Totals : hcmTotal' = [hcmTotal EXCEPT ![a] = t]
    BY <2>1, SagaAssumption, HcmAssumption DEF HcmHasRow, TypeOK, HcmTypeOK
  <2> QED
    BY <1>1, <1>3, <2>1 DEF BalanceStep, refreshBalance, hcmDrift, HcmSeed, hcmVars
<1> QED
  BY <1>1, <1>2, <1>3 DEF Next, ApiStep, create, approve, reject, cancel, forceFail,
     transitionWithOutbox, startJob, QueueStep, recoverOrphan, lockExpires, redisForgets,
     QueueFrame, crash, vars, hcmVars

\* A run gets as far as its commit only with a total the HCM has told.
LEMMA CommitStep ==
  ASSUME IInv, [Next]_vars, NEW w \in Workers, pc'[w] = "commit"
  PROVE  RequestOf(w) \in Requests /\ task'[w] = task[w]
           /\ (pc[w] = "commit" \/ HcmHasRow(BalanceOf[RequestOf(w)]))
<1>0. TypeOK
  BY DEF IInv
<1>1. CASE UNCHANGED <<pc, task>>
  BY <1>0, <1>1, RunTypes
<1>2. ASSUME NEW v \in Workers, RunStep(v)
      PROVE  RequestOf(w) \in Requests /\ task'[w] = task[w]
               /\ (pc[w] = "commit" \/ HcmHasRow(BalanceOf[RequestOf(w)]))
  <2>1. CASE getBalanceCall(v)
    <3>1. PICK reply \in Replies, got \in Replies :
            /\ HcmGetBalance(BalanceOf[RequestOf(v)], reply)
            /\ Received(reply, got)
            /\ IF got = "ok" THEN pc' = [pc EXCEPT ![v] = "commit"] /\ UNCHANGED task
               ELSE GoTo(v, "threw")
      BY <2>1 DEF getBalanceCall
    <3>2. CASE v = w
      <4>1. got = "ok"
        BY <1>0, <3>1, <3>2 DEF GoTo, TypeOK
      <4>2. HcmHasRow(BalanceOf[RequestOf(w)])
        BY <3>1, <3>2, <4>1 DEF Received, HcmGetBalance, HcmIsDown
      <4> QED
        BY <1>0, <2>1, <3>1, <3>2, <4>1, <4>2, RunTypes DEF getBalanceCall
    <3>3. CASE v # w
      <4>1. pc[w] = "commit" /\ task' = task
        BY <1>0, <3>1, <3>3 DEF GoTo, TypeOK
      <4> QED
        BY <1>0, <4>1, RunTypes
    <3> QED
      BY <3>2, <3>3
  <2>2. CASE endJob(v)
    <3>1. pc[w] = "commit" /\ w # v
      BY <1>0, <2>2 DEF endJob, TypeOK
    <3> QED
      BY <1>0, <2>2, <3>1, RunTypes DEF endJob, TypeOK
  <2>3. CASE \E step \in Steps \ {"commit"} : GoTo(v, step)
    <3>1. pc[w] = "commit" /\ task' = task
      BY <1>0, <2>3 DEF GoTo, TypeOK
    <3> QED
      BY <1>0, <3>1, RunTypes
  <2> QED
    BY <1>2, <2>1, <2>2, <2>3 DEF RunStep, reserveCall, reserveCommit, failRequest,
       confirmCheck, confirmCall, confirmCommit, releaseCheck, releaseCall, compensateCommit,
       databaseError, Steps
<1>3. ASSUME NEW v \in Workers, NEW e \in Entries, startJob(v, e)
      PROVE  RequestOf(w) \in Requests /\ task'[w] = task[w] /\ pc[w] = "commit"
  <2>1. pc[w] = "commit" /\ w # v
    <3>1. event[e] \in EventTypes
      BY <1>0, <1>3, LedgerStart DEF TypeOK
    <3> QED
      BY <1>0, <1>3, <3>1 DEF startJob, TypeOK, FirstStep, EventTypes, Compensations
  <2> QED
    BY <1>0, <1>3, <2>1, RunTypes DEF startJob, TypeOK
<1>4. CASE crash
  BY <1>4 DEF crash
<1> QED
  BY <1>1, <1>2, <1>3, <1>4 DEF Next, ApiStep, create, approve, reject, cancel, forceFail,
     transitionWithOutbox, QueueStep, recoverOrphan, lockExpires, redisForgets,
     QueueFrame, BalanceStep, refreshBalance, hcmDrift, vars, runVars

LEMMA CommitsKept ==
  ASSUME IInv, CommitsFit, [Next]_vars
  PROVE  CommitsFit'
BY CommitStep, RowsKept, LedgerAssumption DEF IInv, CommitsFit, RequestOf


LEMMA CommitsInvariance == Spec => [](IInv /\ CommitsFit)
<1>1. Init => CommitsFit
  BY DEF Init, CommitsFit
<1>2. IInv /\ CommitsFit /\ [Next]_vars => CommitsFit'
  BY CommitsKept
<1> QED
  BY <1>1, <1>2, Invariance, PTL DEF Spec

\* A setup pushes a total only after it has seeded the balance.
LEMMA SetupsKept ==
  ASSUME TypeOK, CallsFit, SetupsFit, [ClientNext]_clientVars
  PROVE  SetupsFit'
<1>0. [Next]_vars
  BY StepBySystem
<1>1. ASSUME NEW c \in Calls, c \in BagToSet(calls), c.op = "setupPush"
      PROVE  HcmHasRow(c.on)'
  <2>1. c.on \in Balances
    BY <1>1 DEF Calls, RequestOps, Decisions
  <2> QED
    BY <1>0, <1>1, <2>1, RowsKept DEF SetupsFit
<1>2. CASE BagToSet(calls') \subseteq BagToSet(calls)
  BY <1>1, <1>2 DEF SetupsFit, CallsFit
<1>3. ASSUME NEW op, NEW on, NEW left, Send(op, on, left), op # "setupPush"
      PROVE  SetupsFit'
  BY <1>1, <1>3, SentCalls DEF SetupsFit, CallsFit
<1>4. ASSUME NEW c \in BagToSet(calls), serveSetup(c)
      PROVE  SetupsFit'
  <2>1. c \in [op : {"setupSeed", "setupPush"}, on : Balances, left : SUBSET Balances]
    BY <1>4 DEF serveSetup, CallsFit, Calls, RequestOps, Decisions
  <2>2. ASSUME NEW d, Continue(c, d), d.op = "setupPush" => HcmHasRow(d.on)'
        PROVE  SetupsFit'
    BY <1>1, <2>2, ContinuedCalls DEF SetupsFit, CallsFit
  <2>3. CASE hcmDrift(c.on, SetupTotal) /\ Continue(c, [c EXCEPT !.op = "setupPush"])
    <3>1. HcmHasRow(c.on)'
      BY <2>1, <2>3, ClientAssumption, SagaAssumption, HcmAssumption
      DEF hcmDrift, HcmSeed, HcmHasRow, TypeOK, HcmTypeOK
    <3> QED
      BY <2>1, <2>2, <2>3, <3>1
  <2>4. ASSUME NEW b, Continue(c, [op |-> "setupSeed", on |-> b, left |-> c.left \ {b}])
        PROVE  SetupsFit'
    BY <2>2, <2>4
  <2>5. CASE End(c)
    BY <1>2, <2>5, EndedCalls
  <2> QED
    BY <1>4, <2>3, <2>4, <2>5 DEF serveSetup
<1>5. ASSUME NEW c, End(c)
      PROVE  SetupsFit'
  BY <1>2, <1>5, EndedCalls
<1>6. ASSUME NEW c \in BagToSet(calls), CallStep(c)
      PROVE  SetupsFit'
  BY <1>4, <1>5, <1>6 DEF CallStep, serveDecision, serveForceFail, failCall
<1>7. CASE UNCHANGED calls
  BY <1>2, <1>7
<1>8. CASE PageStep
  BY <1>3, <1>7, <1>8 DEF PageStep, fetchRequests, listForEmployee, submit, seed, push, Unseen,
     clickCancel, clickForceFail, clickApproveOrReject, clickSetup
<1> QED
  BY <1>6, <1>7, <1>8 DEF ClientNext, Unseen, clientVars, pageVars

\* Which steps change a total of the API.
LEMMA TotalStep ==
  ASSUME IInv, CommitsFit, CallsFit, SetupsFit, [ClientNext]_clientVars,
         NEW b \in Balances, total'[b] # total[b]
  PROVE  HcmHasRow(b)' \/ push(b)
<1>0. TypeOK
  BY DEF IInv
<1>1. ASSUME NEW a \in Balances, NEW t, refreshBalance(a, t)
      PROVE  a = b /\ total'[b] = t /\ t # NoRow /\ UNCHANGED hcmTotal
  BY <1>0, <1>1 DEF refreshBalance, hcmVars, TypeOK
<1>2. ASSUME NEW w \in Workers, RunStep(w)
      PROVE  HcmHasRow(b)'
  <2>1. confirmCommit(w) /\ UNCHANGED hcmTotal
    BY <1>2 DEF RunStep, reserveCall, reserveCommit, failRequest, confirmCheck, confirmCall,
       getBalanceCall, confirmCommit, releaseCheck, releaseCall, compensateCommit,
       databaseError, endJob, hcmVars
  <2>2. b = BalanceOf[RequestOf(w)] /\ pc[w] = "commit"
    BY <1>0, <2>1 DEF confirmCommit, TypeOK
  <2> QED
    BY <2>1, <2>2 DEF CommitsFit, HcmHasRow
<1>3. CASE HcmStep
  <2>1. total'[b] = hcmTotal[b]
    BY <1>3 DEF HcmStep
  <2> QED
    BY <1>1, <1>3, <2>1 DEF HcmStep, BalanceStep, hcmDrift, HcmHasRow
<1>4. CASE Unseen(SystemStep)
  BY <1>2, <1>3, <1>4 DEF Unseen, SystemStep, startJob, QueueStep, recoverOrphan, lockExpires,
     redisForgets, QueueFrame, crash
<1>5. CASE PageStep
  <2>1. ASSUME NEW a \in Balances, push(a)
        PROVE  push(b)
    BY <1>1, <2>1 DEF push, Unseen
  <2> QED
    BY <1>5, <2>1, SentCalls DEF PageStep, fetchRequests, listForEmployee, submit, seed, Unseen,
       create, hcmDrift, clickCancel, clickForceFail, clickApproveOrReject, clickSetup, vars
<1>6. ASSUME NEW c \in BagToSet(calls), CallStep(c)
      PROVE  HcmHasRow(b)'
  <2>1. CASE serveSetup(c)
    <3>1. c.on \in Balances
      BY <2>1 DEF serveSetup, CallsFit, Calls, RequestOps, Decisions
    <3>2. c.op = "setupPush" /\ refreshBalance(c.on, SetupTotal)
      BY <2>1 DEF serveSetup, hcmDrift
    <3> QED
      BY <1>1, <1>6, <3>1, <3>2 DEF SetupsFit, HcmHasRow
  <2> QED
    BY <1>6, <2>1 DEF CallStep, serveDecision, serveForceFail, failCall, approve, reject, cancel,
       transitionWithOutbox, forceFail, vars
<1> QED
  BY <1>4, <1>5, <1>6 DEF ClientNext, clientVars, vars

\* Whatever call a setup is cut off at, and whatever the queue and the workers do, a total
\* gets into the API only for balances the HCM knows, unless an administrator typed it.
THEOREM RowsKnown == ClientSpec => RowsKnownToHcm
<1> DEFINE CInv == IInv /\ CommitsFit /\ CallsFit /\ SetupsFit
<1>1. ClientInit => SetupsFit
  BY DEF ClientInit, SetupsFit, EmptyBag, SetToBag, BagToSet
<1>2. IInv /\ CallsFit /\ SetupsFit /\ [ClientNext]_clientVars => SetupsFit'
  BY SetupsKept DEF IInv
<1>3. CInv /\ [ClientNext]_clientVars =>
        [\A b \in Balances :
           total'[b] # total[b] => HcmHasRow(b)' \/ push(b)]_clientVars
  BY TotalStep
<1>4. ClientSpec => []CInv
  BY <1>1, <1>2, ClientImplementsSaga, CommitsInvariance, CallsInvariance, PTL DEF ClientSpec
<1> QED
  BY <1>3, <1>4, PTL DEF ClientSpec, RowsKnownToHcm

(***************************************************************************)
(* What a page was told is what became of the request                      *)
(***************************************************************************)
EventOf ==
  [approve |-> "CONFIRM_HCM", reject |-> "COMPENSATE_REJECTED", cancel |-> "COMPENSATE_CANCELLED"]

\* A decision that a page was told of is the one in the second entry, which is written once.
ToldFits ==
  /\ told \in [Requests -> SUBSET Decisions]
  /\ \A r \in Requests : ~overlapped[r] =>
       \A op \in told[r] : sent[r] >= 2 /\ event[<<r, 2>>] = EventOf[op]

\* A request that was overlapped remains so.
LEMMA OverlapKept ==
  ASSUME TypeOK, [Next]_vars, NEW r \in Requests, overlapped[r]
  PROVE  overlapped'[r]
<1> USE DEF outboxVars, historyVars, RunFrame
<1>1. CASE UNCHANGED overlapped
  BY <1>1
<1>2. ASSUME NEW e \in Entries, QueueStep(e)
      PROVE  overlapped'[r]
  <2>1. CASE r = e[1]
    BY <1>2, <2>1, Zenon DEF QueueStep, recoverOrphan, lockExpires, redisForgets, TypeOK
  <2>2. CASE r # e[1]
    BY <1>2, <2>2 DEF QueueStep, recoverOrphan, lockExpires, redisForgets, TypeOK
  <2> QED
    BY <2>1, <2>2
<1>3. ASSUME NEW w \in Workers, RunStep(w)
      PROVE  UNCHANGED overlapped
  BY <1>3 DEF RunStep, reserveCall, reserveCommit, failRequest, confirmCheck, confirmCall,
     getBalanceCall, confirmCommit, releaseCheck, releaseCall, compensateCommit, databaseError,
     endJob
<1> QED
  BY <1>1, <1>2, <1>3 DEF Next, ApiStep, create, approve, reject, cancel, transitionWithOutbox,
     forceFail, startJob, BalanceStep, refreshBalance, hcmDrift, crash, vars

\* An entry that is written stays as it is.
LEMMA WrittenKept ==
  ASSUME IInv, [Next]_vars, NEW r \in Requests, sent[r] >= 2
  PROVE  sent'[r] >= 2 /\ event'[<<r, 2>>] = event[<<r, 2>>]
<1>0. TypeOK /\ sent[r] \in Nat
  BY SentTypes DEF IInv
<1> USE DEF outboxVars, RunFrame
<1>1. CASE UNCHANGED <<sent, event>>
  BY <1>1
<1>2. ASSUME NEW q \in Requests, NEW ev, enqueueInTx(q, ev)
      PROVE  sent'[r] >= 2 /\ event'[<<r, 2>>] = event[<<r, 2>>]
  <2>0. sent[q] \in Nat
    BY <1>0, SentTypes
  <2>1. sent'[r] = IF r = q THEN sent[q] + 1 ELSE sent[r]
    BY <1>2, NextEntry
  <2>2. <<r, 2>> \in Entries /\ <<r, 2>> # <<q, sent[q] + 1>>
    BY <1>0, <2>0, SagaAssumption DEF Entries
  <2>3. \A e \in Entries : event'[e] = IF e = <<q, sent[q] + 1>> THEN ev ELSE event[e]
    BY <1>2, NextEntry
  <2> QED
    BY <1>0, <2>0, <2>1, <2>2, <2>3
<1>3. ASSUME NEW q \in Requests, ApiStep(q)
      PROVE  sent'[r] >= 2 /\ event'[<<r, 2>>] = event[<<r, 2>>]
  BY <1>1, <1>2, <1>3 DEF ApiStep, create, approve, reject, cancel, transitionWithOutbox, forceFail
<1>4. ASSUME NEW w \in Workers, RunStep(w)
      PROVE  UNCHANGED <<sent, event>>
  BY <1>4 DEF RunStep, reserveCall, reserveCommit, failRequest, confirmCheck, confirmCall,
     getBalanceCall, confirmCommit, releaseCheck, releaseCall, compensateCommit, databaseError,
     endJob
<1> QED
  BY <1>1, <1>3, <1>4 DEF Next, startJob, QueueStep, recoverOrphan, lockExpires, redisForgets,
     QueueFrame, BalanceStep, refreshBalance, hcmDrift, crash, vars

\* A decision is served to a request that has none, and is the one written.
LEMMA ServedDecision ==
  ASSUME IInv, CallsFit, NEW c \in BagToSet(calls), serveDecision(c), ~overlapped'[c.on]
  PROVE  /\ c.on \in Requests /\ c.op \in Decisions
         /\ sent[c.on] = 1
         /\ sent'[c.on] = 2 /\ event'[<<c.on, 2>>] = EventOf[c.op]
<1>1. c.on \in Requests /\ c.op \in Decisions
  BY DEF CallsFit, Calls, serveDecision, Decisions, RequestOps
<1>2. PICK sg : transitionWithOutbox(c.on, EventOf[c.op], sg)
  BY DEF serveDecision, approve, reject, cancel, EventOf
<1>3. sent[c.on] = 1
  BY <1>1, <1>2 DEF transitionWithOutbox, historyVars, IInv, LedgerInv, DecisionsFit
<1>4. <<c.on, 2>> \in Entries /\ <<c.on, 2>> = <<c.on, sent[c.on] + 1>>
  BY <1>1, <1>3, SagaAssumption DEF Entries
<1> QED
  BY <1>1, <1>2, <1>3, <1>4, NextEntry DEF transitionWithOutbox

LEMMA ToldKept ==
  ASSUME IInv, CallsFit, ToldFits, [ClientNext]_clientVars
  PROVE  ToldFits'
<1>1. CASE UNCHANGED told
  <2>1. ASSUME NEW r \in Requests, ~overlapped'[r], NEW op \in told[r]
        PROVE  sent'[r] >= 2 /\ event'[<<r, 2>>] = EventOf[op]
    <3>1. ~overlapped[r]
      BY <2>1, StepBySystem, OverlapKept DEF IInv
    <3>2. sent[r] >= 2 /\ event[<<r, 2>>] = EventOf[op]
      BY <2>1, <3>1 DEF ToldFits
    <3> QED
      BY <2>1, <3>2, StepBySystem, WrittenKept
  <2> QED
    BY <1>1, <2>1 DEF ToldFits
<1>2. ASSUME NEW c \in BagToSet(calls), serveDecision(c)
      PROVE  ToldFits'
  <2>1. c.on \in Requests /\ c.op \in Decisions
    BY <1>2 DEF CallsFit, Calls, serveDecision, Decisions, RequestOps
  <2>2. told' \in {told, [told EXCEPT ![c.on] = @ \cup {c.op}]}
    BY <1>2 DEF serveDecision
  <2>3. told' \in [Requests -> SUBSET Decisions]
    BY <2>1, <2>2 DEF ToldFits
  <2>4. ASSUME NEW op \in told'[c.on], ~overlapped'[c.on]
        PROVE  sent'[c.on] >= 2 /\ event'[<<c.on, 2>>] = EventOf[op]
    <3>1. sent[c.on] = 1 /\ sent'[c.on] = 2 /\ event'[<<c.on, 2>>] = EventOf[c.op]
      BY <1>2, <2>4, ServedDecision
    <3>2. told[c.on] = {}
      BY <2>1, <2>4, <3>1, StepBySystem, OverlapKept DEF ToldFits, IInv
    <3> QED
      BY <2>1, <2>2, <2>4, <3>1, <3>2 DEF ToldFits
  <2>5. ASSUME NEW r \in Requests, r # c.on, ~overlapped'[r], NEW op \in told'[r]
        PROVE  sent'[r] >= 2 /\ event'[<<r, 2>>] = EventOf[op]
    <3>1. op \in told[r]
      BY <2>2, <2>5 DEF ToldFits
    <3>2. sent[r] >= 2 /\ event[<<r, 2>>] = EventOf[op]
      BY <2>5, <3>1, StepBySystem, OverlapKept DEF ToldFits, IInv
    <3> QED
      BY <2>5, <3>2, StepBySystem, WrittenKept
  <2> QED
    BY <2>3, <2>4, <2>5 DEF ToldFits
<1>3. ASSUME NEW c \in BagToSet(calls), CallStep(c)
      PROVE  ToldFits'
  BY <1>1, <1>2, <1>3 DEF CallStep, serveForceFail, serveSetup, failCall
<1>4. CASE PageStep
  BY <1>1, <1>4 DEF PageStep, fetchRequests, listForEmployee, submit, seed, push, Unseen,
     Send, clickCancel, clickForceFail, clickApproveOrReject, clickSetup
<1> QED
  BY <1>1, <1>3, <1>4 DEF ClientNext, Unseen, clientVars, pageVars

LEMMA ToldInvariance == ClientSpec => []ToldFits
<1>1. ClientInit => ToldFits
  BY DEF ClientInit, ToldFits
<1>2. IInv /\ CallsFit /\ ToldFits /\ [ClientNext]_clientVars => ToldFits'
  BY ToldKept
<1> QED
  BY <1>1, <1>2, ClientImplementsSaga, Invariance, CallsInvariance, PTL DEF ClientSpec

\* Employee and manager may click at the same moment, on rows fetched earlier and more than
\* once: at most one is told that his decision was accepted, and the request ends that way.
THEOREM ToldTheOutcome == ClientSpec => []ToldIsOutcome
<1>1. ToldFits /\ DecisionStands => ToldIsOutcome
  <2> SUFFICES ASSUME ToldFits, DecisionStands, NEW r \in Requests
               PROVE  /\ ~overlapped[r] => Cardinality(told[r]) <= 1
                      /\ \A op \in told[r] :
                           Undisturbed(r) /\ saga[r] = "TERMINAL" => status[r] = OutcomeOf[op]
    BY DEF ToldIsOutcome
  <2>1. told[r] \subseteq Decisions
    BY DEF ToldFits
  <2>2. ASSUME ~overlapped[r]
        PROVE  Cardinality(told[r]) <= 1
    <3>1. CASE told[r] = {}
      BY <3>1, FS_EmptySet
    <3>2. ASSUME NEW op \in told[r]
          PROVE  Cardinality(told[r]) <= 1
      <4>1. ASSUME NEW other \in told[r]
            PROVE  other = op
        <5>1. EventOf[other] = EventOf[op]
          BY <2>2, <3>2, <4>1 DEF ToldFits
        <5> QED
          BY <2>1, <3>2, <4>1, <5>1 DEF Decisions, EventOf
      <4>2. told[r] = {op}
        BY <3>2, <4>1
      <4>3. Cardinality({op}) = 1
        BY FS_Singleton
      <4> QED
        BY <4>2, <4>3
    <3> QED
      BY <3>1, <3>2
  <2>3. ASSUME NEW op \in told[r], Undisturbed(r), saga[r] = "TERMINAL"
        PROVE  status[r] = OutcomeOf[op]
    <3>1. event[<<r, 2>>] = EventOf[op]
      BY <2>3 DEF ToldFits, Undisturbed
    <3>2. DecisionOf(r) = OutcomeOf[op] /\ DecisionOf(r) # "none"
      BY <2>1, <2>3, <3>1
      DEF DecisionOf, EventOf, OutcomeOf, Decisions, IntendedStatus, Compensations
    <3> QED
      BY <2>3, <3>2 DEF DecisionStands
  <2> QED
    BY <2>2, <2>3
<1> QED
  BY <1>1, ClientImplementsSaga, DecisionsStand, ToldInvariance, PTL

(***************************************************************************)
(* The types of what the pages hold                                        *)
(***************************************************************************)
\* The size of a bag is a sum.
LEMMA BagSize == \A B : BagCardinality(B) = SumOf(B, BagToSet(B))
<1> SUFFICES ASSUME NEW B PROVE BagCardinality(B) = SumOf(B, BagToSet(B))
  OBVIOUS
<1>1. BagCardinality(B) = (CHOOSE g : Recurs(g, B, SUBSET BagToSet(B)))[BagToSet(B)]
  BY DEF BagCardinality, BagToSet, Recurs, First
<1> QED
  BY <1>1, SumIsRecursion

\* A bag with finitely many elements.
FiniteBag(B) ==
  IsABag(B) /\ IsFiniteSet(BagToSet(B)) /\ BagCardinality(B) \in Nat

LEMMA BagAddOne ==
  ASSUME NEW B, FiniteBag(B), NEW d
  PROVE  /\ FiniteBag(B (+) SetToBag({d}))
         /\ BagCardinality(B (+) SetToBag({d})) = BagCardinality(B) + 1
<1> DEFINE C == B (+) SetToBag({d})
           S == BagToSet(B)
           many(e) == IF e \in S THEN B[e] ELSE 0
           T == S \cup {d}
           f == [e \in T |-> many(e)]
<1>1. /\ IsFiniteSet(S) /\ \A e \in S : B[e] \in Nat /\ B[e] > 0
      /\ \A e \in T : f[e] \in Nat
  BY DEF FiniteBag, IsABag, BagToSet
<1>2. /\ IsABag(C) /\ BagToSet(C) = T
      /\ \A e \in T : C[e] \in Nat /\ C[e] = IF e = d THEN f[e] + 1 ELSE f[e]
  BY <1>1 DEF IsABag, (+), SetToBag, BagToSet
<1>3. IsFiniteSet(T)
  BY <1>1, FS_AddElement
<1>4. SumOf(C, T) = SumOf(f, T) + 1
  <2>1. \A e \in T : f[e] \in Int /\ C[e] \in Int
    <3> HIDE DEF C, f, T
    <3> QED  BY <1>1, <1>2
  <2>2. \A e \in T \ {d} : f[e] = C[e]
    BY <1>2
  <2>3. SumOf(C, T) = SumOf(f, T) - f[d] + C[d]
    <3> HIDE DEF C, f, T
    <3>1. d \in T
      BY DEF T
    <3> QED  BY <1>3, <2>1, <2>2, <3>1, SumChange
  <2>4. SumOf(f, T) \in Int
    <3> HIDE DEF C, f, T
    <3> QED  BY <1>3, <2>1, SumInt
  <2>5. d \in T /\ f[d] \in Nat /\ C[d] = f[d] + 1
    <3>1. d \in T
      OBVIOUS
    <3> HIDE DEF C, f, T
    <3> QED  BY <1>1, <1>2, <3>1
  <2> HIDE DEF C, f, T
  <2> QED  BY <2>3, <2>4, <2>5
<1>5. SumOf(f, T) = SumOf(B, S)
  <2>1. SumOf(f, S) = SumOf(B, S)
    <3>1. \A e \in S : f[e] = B[e]
      OBVIOUS
    <3> HIDE DEF f, S
    <3> QED  BY <1>1, <3>1, SumSame
  <2>2. CASE d \in S
    <3>1. T = S
      BY <2>2
    <3> QED  BY <2>1, <3>1
  <2>3. CASE d \notin S
    <3>1. f[d] = 0 /\ \A e \in S \cup {d} : f[e] \in Int
      BY <1>1, <2>3
    <3>2. SumOf(f, S) \in Int
      <4> HIDE DEF f, S
      <4> QED  BY <1>1, <3>1, SumInt
    <3>3. SumOf(f, S \cup {d}) = f[d] + SumOf(f, S)
      <4> HIDE DEF f, S
      <4> QED  BY <1>1, <2>3, <3>1, SumAdd
    <3> QED  BY <2>1, <3>1, <3>2, <3>3
  <2> QED  BY <2>2, <2>3
<1>6. BagCardinality(C) = SumOf(C, T) /\ BagCardinality(B) = SumOf(B, S)
  <2> HIDE DEF T, f
  <2> QED  BY <1>2, BagSize
<1> HIDE DEF T, f
<1> QED
  BY <1>2, <1>3, <1>4, <1>5, <1>6 DEF FiniteBag

LEMMA BagRemoveOne ==
  ASSUME NEW B, FiniteBag(B), NEW d \in BagToSet(B)
  PROVE  /\ FiniteBag(B (-) SetToBag({d}))
         /\ BagCardinality(B (-) SetToBag({d})) = BagCardinality(B) - 1
<1> DEFINE C == B (-) SetToBag({d})
           S == BagToSet(B)
           f == [e \in S |-> IF e = d THEN B[e] - 1 ELSE B[e]]
           T == {e \in S : f[e] > 0}
<1>1. /\ IsFiniteSet(S) /\ \A e \in S : B[e] \in Nat /\ B[e] > 0 /\ f[e] \in Nat
      /\ d \in S
  BY DEF FiniteBag, IsABag, BagToSet
<1>2. IsABag(C) /\ BagToSet(C) = T /\ \A e \in T : C[e] = f[e]
  BY <1>1 DEF IsABag, (-), SetToBag, BagToSet
<1>3. IsFiniteSet(T) /\ T \subseteq S
  BY <1>1, FS_Subset
<1>4. SumOf(C, T) = SumOf(f, T)
  <2> HIDE DEF C, f, T
  <2> QED  BY <1>2, <1>3, SumSame
<1>5. SumOf(f, S) = SumOf(B, S) - 1
  <2>1. \A e \in S : f[e] \in Int /\ B[e] \in Int
    BY <1>1
  <2>2. \A e \in S \ {d} : B[e] = f[e]
    OBVIOUS
  <2>3. SumOf(f, S) = SumOf(B, S) - B[d] + f[d] /\ SumOf(B, S) \in Int
    <3> HIDE DEF f, S
    <3> QED  BY <1>1, <2>1, <2>2, SumChange, SumInt
  <2> QED  BY <1>1, <2>3
<1>6. SumOf(f, T) = SumOf(f, S)
  <2>1. CASE T = S
    BY <2>1
  <2>2. CASE T # S
    <3>1. T = S \ {d} /\ f[d] = 0
      BY <1>1, <2>2
    <3>2. \A e \in S : f[e] \in Int
      BY <1>1
    <3>3. SumOf(f, S) = f[d] + SumOf(f, S \ {d}) /\ SumOf(f, S) \in Int
      <4> HIDE DEF f, S
      <4> QED  BY <1>1, <3>2, SumRemove, SumInt
    <3>4. SumOf(f, S \ {d}) \in Int
      <4>1. IsFiniteSet(S \ {d})
        BY <1>1, FS_Subset
      <4> HIDE DEF f, S
      <4> QED  BY <4>1, <3>2, SumInt
    <3> HIDE DEF f, S, T
    <3> QED  BY <3>1, <3>3, <3>4
  <2> QED  BY <2>1, <2>2
<1>7. SumOf(f, T) \in Nat
  <2>1. \A e \in T : f[e] \in Nat
    BY <1>1
  <2> HIDE DEF f, T
  <2> QED  BY <1>3, <2>1, SumNat
<1> QED
  BY <1>2, <1>3, <1>4, <1>5, <1>6, <1>7, BagSize DEF FiniteBag

CallsBounded == FiniteBag(calls) /\ BagCardinality(calls) <= MaxCalls

LEMMA CallsStayBounded ==
  ASSUME CallsBounded, [ClientNext]_clientVars
  PROVE  CallsBounded'
<1>0. MaxCalls \in Nat /\ FiniteBag(calls) /\ BagCardinality(calls) \in Nat
  BY ClientAssumption DEF CallsBounded, FiniteBag
<1>1. CASE UNCHANGED calls
  BY <1>1 DEF CallsBounded
<1>2. ASSUME NEW op, NEW on, NEW left, Send(op, on, left)
      PROVE  CallsBounded'
  <2> DEFINE d == [op |-> op, on |-> on, left |-> left]
  <2>1. FiniteBag(calls (+) SetToBag({d}))
        /\ BagCardinality(calls (+) SetToBag({d})) = BagCardinality(calls) + 1
    <3> HIDE DEF d
    <3> QED
      BY <1>0, BagAddOne
  <2>2. calls' = calls (+) SetToBag({d}) /\ BagCardinality(calls) < MaxCalls
    BY <1>2 DEF Send
  <2> HIDE DEF d
  <2> QED
    BY <1>0, <2>1, <2>2 DEF CallsBounded
<1>3. ASSUME NEW c \in BagToSet(calls), End(c)
      PROVE  CallsBounded'
  BY <1>0, <1>3, BagRemoveOne DEF End, CallsBounded
<1>4. ASSUME NEW c \in BagToSet(calls), NEW d, Continue(c, d)
      PROVE  CallsBounded'
  <2> DEFINE rest == calls (-) SetToBag({c})
  <2>1. FiniteBag(rest) /\ BagCardinality(rest) = BagCardinality(calls) - 1
    BY <1>0, BagRemoveOne
  <2>2. FiniteBag(rest (+) SetToBag({d}))
        /\ BagCardinality(rest (+) SetToBag({d})) = BagCardinality(rest) + 1
    BY <2>1, BagAddOne
  <2> QED
    BY <1>0, <1>4, <2>1, <2>2 DEF Continue, CallsBounded
<1>5. ASSUME NEW c \in BagToSet(calls), CallStep(c)
      PROVE  CallsBounded'
  BY <1>3, <1>4, <1>5 DEF CallStep, serveDecision, serveForceFail, serveSetup, failCall
<1>6. CASE PageStep
  BY <1>1, <1>2, <1>6 DEF PageStep, fetchRequests, listForEmployee, submit, seed, push, Unseen,
     clickCancel, clickForceFail, clickApproveOrReject, clickSetup
<1> QED
  BY <1>1, <1>5, <1>6 DEF ClientNext, Unseen, clientVars, pageVars

\* A step changes the status of one request at most.
LEMMA StatusStep ==
  ASSUME IInv, [Next]_vars
  PROVE  \E q : \A r \in Requests : r # q => status'[r] = status[r]
<1>1. CASE UNCHANGED status
  BY <1>1
<1>2. ASSUME NEW q, NEW st, NEW sg, transition(q, st, sg)
      PROVE  \A r \in Requests : r # q => status'[r] = status[r]
  BY <1>2 DEF transition, IInv, TypeOK
<1>3. ASSUME NEW q \in Requests, ApiStep(q)
      PROVE  \E st, sg : transition(q, st, sg)
  BY <1>3 DEF ApiStep, create, approve, reject, cancel, transitionWithOutbox, forceFail
<1>4. ASSUME NEW w \in Workers, RunStep(w)
      PROVE  UNCHANGED status \/ \E st, sg : transition(RequestOf(w), st, sg)
  BY <1>4 DEF RunStep, reserveCall, reserveCommit, failRequest, confirmCheck, confirmCall,
     getBalanceCall, confirmCommit, releaseCheck, releaseCall, compensateCommit, databaseError,
     endJob, requestVars
<1> QED
  BY <1>1, <1>2, <1>3, <1>4 DEF Next, startJob, QueueStep, recoverOrphan, lockExpires,
     redisForgets, QueueFrame, BalanceStep, refreshBalance, hcmDrift, crash, vars, requestVars

ReadRecords == [first : Int, approved : Nat]

ReadTypes == read \in [Balances -> {NoRead} \cup ReadRecords]

LEMMA WatchTypes ==
  ASSUME IInv, ReadTypes, [Next]_vars, Watch
  PROVE  ReadTypes'
<1> DEFINE Approved(b) == {r \in Requests : BalanceOf[r] = b /\ status[r] # "APPROVED"
                                              /\ status'[r] = "APPROVED"}
<1>1. ASSUME NEW b \in Balances
      PROVE  SumOf(DaysOf, Approved(b)) \in Nat
  <2>1. PICK q : \A r \in Requests : r # q => status'[r] = status[r]
    BY StatusStep
  <2>2. Approved(b) \subseteq {q} /\ IsFiniteSet({q})
    BY <2>1, FS_Singleton
  <2>3. IsFiniteSet(Approved(b)) /\ \A r \in Approved(b) : DaysOf[r] \in Nat
    BY <2>2, FS_Subset, LedgerAssumption
  <2> HIDE DEF Approved
  <2> QED
    BY <2>3, SumNat
<1>2. \A b \in Balances :
        read'[b] = IF read[b] = NoRead THEN NoRead
                   ELSE [read[b] EXCEPT !.approved = @ + SumOf(DaysOf, Approved(b))]
  BY DEF Watch, SumOf
<1>3. ASSUME NEW b \in Balances
      PROVE  read'[b] \in {NoRead} \cup ReadRecords
  <2> DEFINE n == SumOf(DaysOf, Approved(b))
  <2>1. n \in Nat
    BY <1>1
  <2>2. read'[b] = IF read[b] = NoRead THEN NoRead ELSE [read[b] EXCEPT !.approved = @ + n]
    BY <1>2
  <2> HIDE DEF n
  <2>3. ASSUME read[b] \in ReadRecords
        PROVE  [read[b] EXCEPT !.approved = @ + n] \in ReadRecords
    BY <2>1, <2>3 DEF ReadRecords
  <2> QED
    BY <2>2, <2>3 DEF ReadTypes
<1> QED
  BY <1>3 DEF Watch, ReadTypes

(***************************************************************************)
(* What is available                                                       *)
(***************************************************************************)
MoveCounts == [Requests -> [ReservationTypes -> Nat]]

NetDays(m) == [r \in Requests |-> NetOf(m[r], DaysOf[r])]

\* The available days are the total and a sum over the requests of the balance.
LEMMA RawIsSum ==
  ASSUME NEW t, NEW m, NEW b
  PROVE  computeRawAvailable(t, m, b) = t + SumOf(NetDays(m), RequestsOn(b))
<1> DEFINE D == SUBSET RequestsOn(b)
           N == NetDays(m)
           step(g) == [s \in D |-> IF s = {} THEN 0
                                   ELSE NetOf(m[First(s)], DaysOf[First(s)]) + g[s \ {First(s)}]]
<1>1. \A g : step(g) = [s \in D |-> IF s = {} THEN 0 ELSE N[First(s)] + g[s \ {First(s)}]]
  <2>1. \A s \in D : s # {} => N[First(s)] = NetOf(m[First(s)], DaysOf[First(s)])
    BY FirstIsElement DEF RequestsOn, NetDays
  <2> HIDE DEF N
  <2> QED
    BY <2>1
<1> HIDE DEF N
<1>2. \A g : g = step(g) <=> Recurs(g, N, D)
  <2> HIDE DEF D, step
  <2> QED
    BY <1>1 DEF Recurs
<1>3. (CHOOSE g : g = step(g)) = (CHOOSE g : Recurs(g, N, D))
  <2> HIDE DEF D, step
  <2> QED
    BY <1>2, Zenon
<1>4. MapThenSumSet(LAMBDA r : NetOf(m[r], DaysOf[r]), RequestsOn(b))
        = (CHOOSE g : g = step(g))[RequestsOn(b)]
  BY DEF MapThenSumSet, MapThenFoldSet, First
<1>5. SumOf(N, RequestsOn(b)) = (CHOOSE g : g = step(g))[RequestsOn(b)]
  BY <1>3, SumIsRecursion
<1> QED
  BY <1>4, <1>5 DEF computeRawAvailable, RequestsOn, N

LEMMA NetDaysInt ==
  ASSUME NEW m \in MoveCounts, NEW r \in Requests
  PROVE  NetDays(m)[r] \in Int
<1>1. m[r] \in [ReservationTypes -> Nat] /\ DaysOf[r] \in Int
  BY LedgerAssumption DEF MoveCounts
<1>2. m[r]["CONFIRMED"] + m[r]["CANCELLED"] - m[r]["PENDING_RESERVATION"] \in Int
  BY <1>1 DEF ReservationTypes
<1>3. \A i, j \in Int : i * j \in Int
  OBVIOUS
<1> QED
  BY <1>1, <1>2, <1>3 DEF NetDays, NetOf

LEMMA RawInt ==
  ASSUME IsFiniteSet(Requests), NEW m \in MoveCounts, NEW t \in Int, NEW b
  PROVE  /\ IsFiniteSet(RequestsOn(b)) /\ SumOf(NetDays(m), RequestsOn(b)) \in Int
         /\ computeRawAvailable(t, m, b) \in Int /\ computeAvailable(t, m, b) \in Int
<1>1. IsFiniteSet(RequestsOn(b)) /\ RequestsOn(b) \subseteq Requests
  BY FS_Subset DEF RequestsOn
<1>2. SumOf(NetDays(m), RequestsOn(b)) \in Int
  BY <1>1, NetDaysInt, SumInt
<1> QED
  BY <1>1, <1>2, RawIsSum DEF computeAvailable

\* Movements of other balances do not count.
LEMMA RawSame ==
  ASSUME IsFiniteSet(Requests), NEW m, NEW n, NEW b, \A r \in RequestsOn(b) : n[r] = m[r], NEW t
  PROVE  computeRawAvailable(t, n, b) = computeRawAvailable(t, m, b)
<1>1. IsFiniteSet(RequestsOn(b)) /\ RequestsOn(b) \subseteq Requests
  BY FS_Subset DEF RequestsOn
<1>2. \A r \in RequestsOn(b) : NetDays(m)[r] = NetDays(n)[r]
  BY <1>1 DEF NetDays
<1>3. SumOf(NetDays(m), RequestsOn(b)) = SumOf(NetDays(n), RequestsOn(b))
  BY <1>1, <1>2, SumSame
<1> QED
  BY <1>3, RawIsSum

\* A reservation takes the days of its request, any other movement gives them back.
LEMMA RawMoved ==
  ASSUME IsFiniteSet(Requests), NEW m \in MoveCounts, NEW t \in Int,
         NEW q \in Requests, NEW k \in ReservationTypes
  PROVE  LET b == BalanceOf[q]
         IN computeRawAvailable(t, AddMovement(m, q, k), b)
              = computeRawAvailable(t, m, b)
                  + IF k = "PENDING_RESERVATION" THEN 0 - DaysOf[q] ELSE DaysOf[q]
<1> DEFINE b == BalanceOf[q]
           n == AddMovement(m, q, k)
           R == RequestsOn(b)
           d == IF k = "PENDING_RESERVATION" THEN 0 - DaysOf[q] ELSE DaysOf[q]
           f == NetDays(m)
           g == NetDays(n)
<1>1. n \in MoveCounts /\ DaysOf[q] \in Nat /\ q \in R
  BY AddMovementType, LedgerAssumption DEF MoveCounts, RequestsOn
<1>2. IsFiniteSet(R) /\ SumOf(f, R) \in Int /\ \A r \in R : f[r] \in Int /\ g[r] \in Int
  BY <1>1, RawInt, NetDaysInt DEF RequestsOn
<1>3. \A r \in R \ {q} : f[r] = g[r]
  BY DEF NetDays, AddMovement, MoveCounts, RequestsOn
<1>4. g[q] = f[q] + d
  <2> DEFINE x == m[q]["CONFIRMED"] + m[q]["CANCELLED"] - m[q]["PENDING_RESERVATION"]
             y == n[q]["CONFIRMED"] + n[q]["CANCELLED"] - n[q]["PENDING_RESERVATION"]
  <2>1. x \in Int /\ y = IF k = "PENDING_RESERVATION" THEN x - 1 ELSE x + 1
    BY DEF MoveCounts, AddMovement, ReservationTypes
  <2>2. \A c, z \in Int : c * (z + 1) = c * z + c /\ c * (z - 1) = c * z + (0 - c)
    OBVIOUS
  <2>3. f[q] = DaysOf[q] * x /\ g[q] = DaysOf[q] * y
    BY DEF NetDays, NetOf
  <2> HIDE DEF x, y, f, g, n
  <2> QED
    BY <1>1, <2>1, <2>2, <2>3
<1>5. SumOf(g, R) = SumOf(f, R) - f[q] + g[q]
  <2> HIDE DEF f, g, R
  <2> QED
    BY <1>1, <1>2, <1>3, SumChange
<1>6. /\ computeRawAvailable(t, n, b) = t + SumOf(g, R)
      /\ computeRawAvailable(t, m, b) = t + SumOf(f, R)
  BY RawIsSum
<1>7. f[q] \in Int /\ d \in Int
  BY <1>1, <1>2
<1> HIDE DEF f, g, R, n, d
<1>8. computeRawAvailable(t, n, b) = computeRawAvailable(t, m, b) + d
  BY <1>2, <1>4, <1>5, <1>6, <1>7
<1> QED
  BY <1>8 DEF n, d

ShownTypes == shown \in [Balances -> Int \cup {NoRow}]

LEMMA QueryTypes ==
  ASSUME TypeOK, IsFiniteSet(Requests), ReadTypes, ShownTypes, NEW b \in Balances,
         listForEmployee(b)
  PROVE  ReadTypes' /\ ShownTypes'
<1>1. CASE read[b] = NoRead /\ total[b] = NoRow
  BY <1>1 DEF listForEmployee, ReadTypes, ShownTypes
<1>2. CASE read[b] = NoRead /\ total[b] # NoRow
  <2>1. total[b] \in Int
    BY <1>2 DEF TypeOK
  <2>2. [first |-> total[b], approved |-> 0] \in ReadRecords
    BY <2>1 DEF ReadRecords
  <2> QED
    BY <1>2, <2>2 DEF listForEmployee, ReadTypes, ShownTypes
<1>3. CASE read[b] # NoRead
  <2>1. read[b].first \in Int
    BY <1>3 DEF ReadTypes, ReadRecords
  <2>2. computeAvailable(read[b].first, moves, b) \in Int
    BY <2>1, RawInt DEF TypeOK, MoveCounts
  <2> QED
    BY <1>3, <2>2 DEF listForEmployee, ReadTypes, ShownTypes
<1> QED
  BY <1>1, <1>2, <1>3

LEMMA PageTypes ==
  ASSUME IInv, IsFiniteSet(Requests), CallsFit, ReadTypes, ShownTypes, [ClientNext]_clientVars
  PROVE  ReadTypes' /\ ShownTypes'
<1>1. CASE UNCHANGED <<read, shown>>
  BY <1>1 DEF ReadTypes, ShownTypes
<1>2. CASE Watch /\ UNCHANGED shown
  BY <1>2, StepBySystem, WatchTypes DEF ShownTypes
<1>3. CASE \E b \in Balances : listForEmployee(b)
  BY <1>3, QueryTypes DEF IInv
<1>4. ASSUME NEW c \in BagToSet(calls), CallStep(c)
      PROVE  UNCHANGED <<read, shown>> \/ (Watch /\ UNCHANGED shown)
  BY <1>4 DEF CallStep, serveDecision, serveForceFail, serveSetup, failCall
<1>5. CASE PageStep
  BY <1>1, <1>2, <1>3, <1>5 DEF PageStep, fetchRequests, submit, seed, push, Unseen, Send,
     clickCancel, clickForceFail, clickApproveOrReject, clickSetup
<1> QED
  BY <1>1, <1>2, <1>4, <1>5 DEF ClientNext, Unseen, clientVars, pageVars

PagesFit == CallsBounded /\ ReadTypes /\ ShownTypes

LEMMA PageTypesInvariance ==
  ASSUME IsFiniteSet(Requests)
  PROVE  ClientSpec => []PagesFit
<1>1. ClientInit => PagesFit
  <2> SUFFICES ASSUME ClientInit PROVE PagesFit
    OBVIOUS
  <2>1. BagToSet(calls) = {} /\ IsABag(calls)
    BY DEF ClientInit, EmptyBag, SetToBag, BagToSet, IsABag
  <2>2. IsFiniteSet({}) /\ BagCardinality(calls) = 0
    BY <2>1, BagSize, SumEmpty, FS_EmptySet
  <2>3. CallsBounded
    BY <2>1, <2>2, ClientAssumption DEF CallsBounded, FiniteBag
  <2> QED
    BY <2>3 DEF ClientInit, ReadTypes, ShownTypes, PagesFit
<1>2. IInv /\ CallsFit /\ PagesFit /\ [ClientNext]_clientVars => PagesFit'
  BY PageTypes, CallsStayBounded DEF PagesFit
<1> QED
  BY <1>1, <1>2, ClientImplementsSaga, Invariance, CallsInvariance, PTL DEF ClientSpec

\* The pages' variables stay in their types, and no more calls are in flight than the pages
\* may send, for any finite number of requests and any number of balances.
THEOREM ClientTypeCorrect ==
  ASSUME IsFiniteSet(Requests)
  PROVE  ClientSpec => []ClientTypeOK
<1>1. PagesFit /\ CallsFit /\ ButtonsFit /\ ToldFits => ClientTypeOK
  BY DEF ClientTypeOK, PagesFit, CallsBounded, FiniteBag, CallsFit, ButtonsFit, ReadTypes,
     ReadRecords, ShownTypes, ToldFits
<1> QED
  BY <1>1, PageTypesInvariance, CallsInvariance, ToldInvariance, PTL

(***************************************************************************)
(* How a balance of the API lags behind the HCM                            *)
(***************************************************************************)
\* A step of a run touches its own request, and the balance it draws on.
LEMMA RunTouches ==
  ASSUME IInv, NEW w \in Workers, RunStep(w)
  PROVE  LET q == RequestOf(w)
         IN /\ pc[w] # "idle" /\ q \in Requests /\ BalanceOf[q] \in Balances
            /\ UNCHANGED <<event, sent, env, rerun>>
            /\ pc'[w] # "idle" => task'[w] = task[w]
            /\ \A x \in Workers : x # w => pc'[x] = pc[x] /\ task'[x] = task[x] /\ snap'[x] = snap[x]
            /\ \A r \in Requests : r # q =>
                 /\ hold'[r] = hold[r] /\ moves'[r] = moves[r]
                 /\ saga'[r] = saga[r] /\ status'[r] = status[r]
            /\ \A b \in Balances : b # BalanceOf[q] =>
                 total'[b] = total[b] /\ hcmTotal'[b] = hcmTotal[b]
<1> USE DEF RunFrame, outboxVars, channelVars, historyVars, requestVars, hcmVars, GoTo
<1> DEFINE q == RequestOf(w)
<1>1. pc[w] # "idle"
  BY DEF RunStep, reserveCall, reserveCommit, failRequest, confirmCheck, confirmCall,
     getBalanceCall, confirmCommit, releaseCheck, releaseCall, compensateCommit, databaseError,
     endJob
<1>2. task[w] \in Entries /\ q \in Requests /\ BalanceOf[q] \in Balances /\ TypeOK
  BY <1>1, RunTypes DEF IInv
<1> HIDE DEF q
<1>3. UNCHANGED <<event, sent, env, rerun>>
  BY DEF RunStep, reserveCall, reserveCommit, failRequest, confirmCheck, confirmCall,
     getBalanceCall, confirmCommit, releaseCheck, releaseCall, compensateCommit, databaseError,
     endJob
<1>4. /\ pc'[w] # "idle" => task'[w] = task[w]
      /\ \A x \in Workers : x # w => pc'[x] = pc[x] /\ task'[x] = task[x] /\ snap'[x] = snap[x]
  <2>1. CASE \E step : GoTo(w, step)
    BY <1>2, <2>1 DEF TypeOK
  <2>2. CASE getBalanceCall(w)
    BY <1>2, <2>1, <2>2 DEF getBalanceCall, TypeOK
  <2>3. CASE endJob(w)
    BY <1>2, <2>3 DEF endJob, TypeOK
  <2> QED
    BY <2>1, <2>2, <2>3 DEF RunStep, reserveCall, reserveCommit, failRequest, confirmCheck,
       confirmCall, confirmCommit, releaseCheck, releaseCall, compensateCommit, databaseError
<1>5. /\ UNCHANGED moves \/ \E t : createMovement(q, t)
      /\ UNCHANGED requestVars \/ \E st, sg : transition(q, st, sg)
      /\ UNCHANGED total \/ \E t : total' = [total EXCEPT ![BalanceOf[q]] = t]
      /\ \/ UNCHANGED hcmVars
         \/ \E reply : HcmReserve(q, reply) \/ HcmConfirm(q, reply) \/ HcmRelease(q, reply)
  BY DEF q, RunStep, reserveCall, reserveCommit, failRequest, confirmCheck, confirmCall,
     getBalanceCall, confirmCommit, releaseCheck, releaseCall, compensateCommit, databaseError,
     endJob, HcmGetBalance, HcmIsDown
<1>6. \A r \in Requests : r # q => moves'[r] = moves[r]
  BY <1>2, <1>5 DEF createMovement, AddMovement, TypeOK
<1>7. \A r \in Requests : r # q => saga'[r] = saga[r] /\ status'[r] = status[r]
  BY <1>2, <1>5 DEF transition, TypeOK
<1>8. \A b \in Balances : b # BalanceOf[q] => total'[b] = total[b]
  BY <1>2, <1>5 DEF TypeOK
<1>9. /\ \A r \in Requests : r # q => hold'[r] = hold[r]
      /\ \A b \in Balances : b # BalanceOf[q] => hcmTotal'[b] = hcmTotal[b]
  BY <1>2, <1>5 DEF HcmReserve, HcmConfirm, HcmRelease, HcmIsDown, TypeOK, HcmTypeOK
<1> QED
  BY <1>1, <1>2, <1>3, <1>4, <1>6, <1>7, <1>8, <1>9 DEF q

\* The run of a decision that is not repeated works on the second entry, alone.
LEMMA DecisionRun ==
  ASSUME FInv, NEW w \in Workers, pc[w] \in ConfirmSteps \cup ReleaseSteps, ~rerun[RequestOf(w)]
  PROVE  /\ RequestOf(w) \in Requests /\ ConfirmsOnce(RequestOf(w))
         /\ task[w] = <<RequestOf(w), 2>> /\ lock[<<RequestOf(w), 2>>] = w
         /\ pc[w] \in ConfirmSteps => event[<<RequestOf(w), 2>>] = "CONFIRM_HCM"
         /\ pc[w] \in ReleaseSteps => event[<<RequestOf(w), 2>>] \in Compensations
<1> DEFINE q == RequestOf(w)
<1>1. pc[w] \in LiveSteps /\ pc[w] \notin ReserveSteps /\ pc[w] # "idle"
  BY DEF LiveSteps, ReserveSteps, ConfirmSteps, ReleaseSteps
<1>2. q \in Requests /\ \E n \in 1..MaxEntries : task[w] = <<q, n>> /\ n <= sent[q] /\ n # 1
  BY <1>1, RunEntry DEF FInv
<1>3. ConfirmsOnce(q) /\ ~overlapped[q]
  BY <1>2 DEF FInv, OnceInv, ConfirmsOnce
<1>4. sent[q] \in Nat /\ sent[q] <= 2
  BY <1>2, <1>3, SentTypes DEF FInv, IInv, LedgerInv, DecisionsFit
<1>5. task[w] = <<q, 2>>
  BY <1>2, <1>4
<1>6. lock[<<q, 2>>] = w
  BY <1>1, <1>3, <1>5, CalmRun DEF FInv
<1>7. StepFits(pc[w], event[<<q, 2>>])
  BY <1>1, <1>5 DEF FInv, IInv, LedgerInv, RunsFit
<1> QED
  BY <1>2, <1>3, <1>5, <1>6, <1>7 DEF StepFits

\* What a step leaves alone, if it touches nothing of the approval.
LEMMA ApprovalKept ==
  ASSUME NEW r \in Requests, ApprovalFits(r),
         hold'[r] = "confirmed" <=> hold[r] = "confirmed",
         moves'[r]["CONFIRMED"] = moves[r]["CONFIRMED"],
         event'[<<r, 2>>] = event[<<r, 2>>],
         saga'[r] = "COMPENSATING_HCM" => saga[r] = "COMPENSATING_HCM",
         status'[r] = "APPROVED" => status[r] = "APPROVED",
         \A w \in Workers :
           pc'[w] \in {"getBalance", "commit"} /\ RequestOf(w)' = r =>
             pc[w] \in {"getBalance", "commit"} /\ task'[w] = task[w]
  PROVE  ApprovalFits(r)'
<1>1. ASSUME NEW w \in Workers, pc'[w] \in {"getBalance", "commit"}, RequestOf(w)' = r
      PROVE  hold'[r] = "confirmed" /\ moves'[r]["CONFIRMED"] = 0
  BY <1>1 DEF ApprovalFits, RequestOf
<1> QED
  BY <1>1 DEF ApprovalFits

\* A hold is confirmed, and a confirmed total committed, by the one run of the approval.
LEMMA ApprovalRun ==
  ASSUME FInv, ApprovalsInv, NEW w \in Workers, RunStep(w)
  PROVE  ApprovalsInv'
<1> USE DEF RunFrame, outboxVars, channelVars, historyVars, requestVars, GoTo
<1> DEFINE q == RequestOf(w)
<1>0. /\ pc[w] # "idle" /\ q \in Requests /\ UNCHANGED <<event, rerun>>
      /\ pc'[w] # "idle" => task'[w] = task[w]
      /\ \A x \in Workers : x # w => pc'[x] = pc[x] /\ task'[x] = task[x]
      /\ \A r \in Requests : r # q =>
           /\ hold'[r] = hold[r] /\ moves'[r] = moves[r]
           /\ saga'[r] = saga[r] /\ status'[r] = status[r]
  BY RunTouches DEF FInv
<1> SUFFICES ASSUME NEW r \in Requests, ~rerun[r] PROVE ApprovalFits(r)'
  BY <1>0 DEF ApprovalsInv
<1>1. /\ ApprovalFits(r) /\ ConfirmsOnce(r) /\ TypeOK
      /\ pc \in [Workers -> Steps] /\ moves[r] \in [ReservationTypes -> Nat]
      /\ hold \in [Requests -> {"none", "held", "confirmed"}]
      /\ saga \in [Requests -> SagaStates \cup {"none"}]
      /\ status \in [Requests -> RequestStatuses \cup {"none"}]
  BY DEF ApprovalsInv, FInv, OnceInv, IInv, TypeOK, HcmTypeOK
<1>2. moves[r]["CONFIRMED"] \in Nat
  BY <1>1 DEF ReservationTypes
<1>3. CASE q # r
  <2>1. \A x \in Workers :
          pc'[x] \in {"getBalance", "commit"} /\ RequestOf(x)' = r =>
            pc'[x] = pc[x] /\ task'[x] = task[x]
    BY <1>0, <1>3 DEF RequestOf
  <2> QED
    BY <1>0, <1>1, <1>3, <2>1, ApprovalKept
<1>4. ASSUME q = r, UNCHANGED moves, hold'[r] = "confirmed" <=> hold[r] = "confirmed",
             saga'[r] = "COMPENSATING_HCM" => saga[r] = "COMPENSATING_HCM",
             status'[r] = "APPROVED" => status[r] = "APPROVED",
             pc'[w] \in {"getBalance", "commit"} => pc[w] \in {"getBalance", "commit"}
      PROVE  ApprovalFits(r)'
  <2>1. \A x \in Workers :
          pc'[x] \in {"getBalance", "commit"} /\ RequestOf(x)' = r =>
            pc[x] \in {"getBalance", "commit"} /\ task'[x] = task[x]
    BY <1>0, <1>4
  <2> QED
    BY <1>0, <1>1, <1>4, <2>1, ApprovalKept
<1>5. ASSUME q = r, createMovement(r, "CANCELLED"), hold' = hold,
             NEW st, st # "APPROVED", transition(r, st, "TERMINAL"),
             pc' = [pc EXCEPT ![w] = "done"]
      PROVE  ApprovalFits(r)'
  <2>1. moves'[r]["CONFIRMED"] = moves[r]["CONFIRMED"]
    BY <1>1, <1>5 DEF createMovement, AddMovement, TypeOK, ReservationTypes
  <2>2. saga'[r] = "TERMINAL" /\ status'[r] = st
    BY <1>1, <1>5 DEF transition
  <2>3. \A x \in Workers :
          pc'[x] \in {"getBalance", "commit"} /\ RequestOf(x)' = r =>
            pc[x] \in {"getBalance", "commit"} /\ task'[x] = task[x]
    BY <1>0, <1>1, <1>5
  <2> QED
    BY <1>0, <1>1, <1>5, <2>1, <2>2, <2>3, ApprovalKept
<1>6. CASE reserveCall(w) /\ q = r
  <2>1. hold[r] # "confirmed"
    <3>1. pc[w] \in ReserveSteps
      BY <1>6 DEF reserveCall, ReserveSteps
    <3>2. sent[r] = 1
      BY <1>1, <1>6, <3>1 DEF FInv, IInv, LedgerInv, DecisionsFit, ConfirmsOnce
    <3> QED
      BY <1>1, <3>2 DEF ConfirmsOnce
  <2>2. PICK reply : HcmReserve(r, reply)
    BY <1>6 DEF reserveCall
  <2>3. hold'[r] # "confirmed"
    BY <1>1, <2>1, <2>2 DEF HcmReserve, HcmIsDown, hcmVars
  <2>4. pc'[w] \notin {"getBalance", "commit"}
    BY <1>1, <1>6 DEF reserveCall
  <2> QED
    BY <1>4, <1>6, <2>1, <2>3, <2>4 DEF reserveCall
<1>7. CASE reserveCommit(w) /\ q = r
  <2>1. pc'[w] \notin {"getBalance", "commit"} /\ UNCHANGED <<moves, hold>>
    BY <1>1, <1>7 DEF reserveCommit, hcmVars
  <2>2. \/ UNCHANGED <<saga, status>>
        \/ saga'[r] = "AWAITING_APPROVAL" /\ status'[r] = "PENDING_APPROVAL"
    BY <1>1, <1>7 DEF reserveCommit, transition
  <2> QED
    BY <1>4, <1>7, <2>1, <2>2
<1>8. CASE failRequest(w) /\ q = r
  BY <1>5, <1>8 DEF failRequest, hcmVars
<1>9. CASE compensateCommit(w) /\ q = r
  BY <1>5, <1>9 DEF compensateCommit, hcmVars, IntendedStatus
<1>10. CASE confirmCheck(w) /\ q = r
  <2>1. hold[r] # "confirmed"
    BY <1>0, <1>1, <1>10 DEF confirmCheck, ConfirmsOnce
  <2>2. ~(moves[r]["CONFIRMED"] > 0)
    BY <1>1, <2>1 DEF ApprovalFits
  <2>3. pc'[w] = "confirm"
    BY <1>1, <1>10, <2>2 DEF confirmCheck
  <2> QED
    BY <1>4, <1>10, <2>3 DEF confirmCheck, hcmVars
<1>11. CASE confirmCall(w) /\ q = r
  <2>1. pc[w] = "confirm" /\ hold[r] # "confirmed"
    BY <1>0, <1>1, <1>11 DEF confirmCall, ConfirmsOnce
  <2>2. PICK reply \in Replies, got \in Replies :
          /\ HcmConfirm(r, reply) /\ Received(reply, got)
          /\ pc' = [pc EXCEPT ![w] = IF got = "ok" THEN "getBalance" ELSE "threw"]
    BY <1>11 DEF confirmCall
  <2>3. UNCHANGED <<moves, saga, status>>
    BY <1>11 DEF confirmCall
  <2>4. CASE hold' = hold
    <3>1. reply # "ok"
      BY <1>1, <2>1, <2>2, <2>4 DEF HcmConfirm, HcmIsDown
    <3>2. pc'[w] = "threw"
      BY <1>1, <2>2, <3>1 DEF Received
    <3> QED
      BY <1>4, <1>11, <2>3, <2>4, <3>2
  <2>5. CASE hold' = [hold EXCEPT ![r] = "confirmed"]
    <3>1. hold'[r] = "confirmed"
      BY <1>1, <2>5
    <3>2. event[<<r, 2>>] = "CONFIRM_HCM"
      BY <1>11, <2>1, DecisionRun DEF ConfirmSteps
    <3>3. moves[r]["CONFIRMED"] = 0
      BY <1>1, <1>2, <2>1 DEF ApprovalFits
    <3>4. saga[r] # "COMPENSATING_HCM"
      BY <1>1, <3>2 DEF ApprovalFits, Compensations
    <3> QED
      BY <1>0, <1>1, <2>3, <3>1, <3>2, <3>3, <3>4 DEF ApprovalFits
  <2> QED
    BY <2>2, <2>4, <2>5 DEF HcmConfirm, HcmIsDown, hcmVars
<1>12. CASE getBalanceCall(w) /\ q = r
  BY <1>4, <1>12 DEF getBalanceCall, HcmGetBalance, HcmIsDown, hcmVars
<1>13. CASE confirmCommit(w) /\ q = r
  <2>1. CASE pc' = [pc EXCEPT ![w] = "threw"] /\ UNCHANGED <<requestVars, moves>>
    BY <1>1, <1>4, <1>13, <2>1 DEF confirmCommit, hcmVars
  <2>2. CASE /\ createMovement(r, "CONFIRMED") /\ transition(r, "APPROVED", "TERMINAL")
             /\ pc' = [pc EXCEPT ![w] = "done"]
    <3>1. pc[w] = "commit" /\ hold' = hold
      BY <1>13 DEF confirmCommit, hcmVars
    <3>2. hold[r] = "confirmed"
      BY <1>1, <1>13, <3>1 DEF ApprovalFits
    <3>3. moves'[r]["CONFIRMED"] = moves[r]["CONFIRMED"] + 1 /\ moves'[r]["CONFIRMED"] > 0
      BY <1>1, <1>2, <2>2 DEF createMovement, AddMovement, TypeOK, ReservationTypes
    <3>4. saga'[r] = "TERMINAL"
      BY <1>1, <2>2 DEF transition
    <3>5. lock[<<r, 2>>] = w
      BY <1>13, <3>1, DecisionRun DEF ConfirmSteps
    <3>6. ASSUME NEW x \in Workers, pc'[x] \in {"getBalance", "commit"}, RequestOf(x)' = r
          PROVE  FALSE
      <4>1. x # w
        BY <1>1, <2>2, <3>6
      <4>2. pc[x] \in ConfirmSteps /\ RequestOf(x) = r
        BY <1>0, <3>6, <4>1 DEF ConfirmSteps, RequestOf
      <4> QED
        BY <3>5, <4>1, <4>2, DecisionRun
    <3> QED
      BY <1>0, <1>1, <3>1, <3>2, <3>3, <3>4, <3>6 DEF ApprovalFits
  <2> QED
    BY <1>13, <2>1, <2>2 DEF confirmCommit
<1>14. CASE releaseCheck(w) /\ q = r
  BY <1>1, <1>4, <1>14 DEF releaseCheck, hcmVars
<1>15. CASE releaseCall(w) /\ q = r
  <2>1. event[<<r, 2>>] \in Compensations
    BY <1>15, DecisionRun DEF releaseCall, ReleaseSteps
  <2>2. hold[r] # "confirmed"
    BY <1>1, <2>1 DEF ApprovalFits, Compensations
  <2>3. PICK reply : HcmRelease(r, reply)
    BY <1>15 DEF releaseCall
  <2>4. hold'[r] # "confirmed"
    BY <1>1, <2>2, <2>3 DEF HcmRelease, HcmIsDown, hcmVars
  <2>5. pc'[w] \notin {"getBalance", "commit"}
    BY <1>1, <1>15 DEF releaseCall
  <2> QED
    BY <1>4, <1>15, <2>2, <2>4, <2>5 DEF releaseCall
<1>16. CASE databaseError(w) /\ q = r
  BY <1>1, <1>4, <1>16 DEF databaseError, hcmVars
<1>17. CASE endJob(w) /\ q = r
  BY <1>1, <1>4, <1>17 DEF endJob, hcmVars
<1> QED
  BY <1>3, <1>6, <1>7, <1>8, <1>9, <1>10, <1>11, <1>12, <1>13, <1>14, <1>15, <1>16, <1>17
  DEF RunStep

\* A decision writes the second entry, before which nothing was confirmed.
LEMMA ApprovalApi ==
  ASSUME FInv, ApprovalsInv, NEW q \in Requests, ApiStep(q)
  PROVE  ApprovalsInv'
<1> USE DEF runVars, historyVars, hcmVars, outboxVars
<1>1. /\ UNCHANGED <<hold, pc, task, rerun>>
      /\ \A w \in Workers : RequestOf(w)' = RequestOf(w)
  BY DEF ApiStep, create, approve, reject, cancel, forceFail, transitionWithOutbox, RequestOf
<1> SUFFICES ASSUME NEW r \in Requests, ~rerun[r] PROVE ApprovalFits(r)'
  BY <1>1 DEF ApprovalsInv
<1>2. /\ ApprovalFits(r) /\ ConfirmsOnce(r) /\ TypeOK /\ sent[r] \in Nat
      /\ <<r, 2>> \in Entries
  BY SagaAssumption, SentTypes DEF ApprovalsInv, FInv, OnceInv, IInv, Entries
<1>3. ASSUME NEW ev, enqueueInTx(q, ev), NEW st, st # "APPROVED", NEW sg, transition(q, st, sg),
             moves'[r]["CONFIRMED"] = moves[r]["CONFIRMED"],
             q = r => hold[r] # "confirmed",
             q = r => (sg = "COMPENSATING_HCM" => sent[r] = 1 /\ ev \in Compensations)
      PROVE  ApprovalFits(r)'
  <2>1. \A e \in Entries : event'[e] = IF e = <<q, sent[q] + 1>> THEN ev ELSE event[e]
    BY <1>3, NextEntry DEF FInv
  <2>2. CASE q # r
    <3>1. event'[<<r, 2>>] = event[<<r, 2>>]
      BY <1>2, <2>1, <2>2
    <3>2. saga'[r] = saga[r] /\ status'[r] = status[r]
      BY <1>2, <1>3, <2>2 DEF transition, TypeOK
    <3> QED
      BY <1>1, <1>2, <1>3, <3>1, <3>2, ApprovalKept
  <2>3. CASE q = r
    <3>1. hold[r] # "confirmed" /\ saga'[r] = sg /\ status'[r] = st
      BY <1>2, <1>3, <2>3 DEF transition, TypeOK
    <3>2. sg = "COMPENSATING_HCM" => event'[<<r, 2>>] \in Compensations
      BY <1>2, <1>3, <2>1, <2>3
    <3> QED
      BY <1>1, <1>2, <1>3, <3>1, <3>2 DEF ApprovalFits
  <2> QED
    BY <2>2, <2>3
<1>4. CASE create(q)
  <2>1. q = r => sent[r] = 0
    BY <1>4 DEF create, FInv, IInv, LedgerInv, EntriesFit
  <2>2. q = r => hold[r] # "confirmed"
    BY <1>2, <2>1 DEF ConfirmsOnce
  <2>3. moves'[r]["CONFIRMED"] = moves[r]["CONFIRMED"]
    BY <1>2, <1>4 DEF create, createMovement, AddMovement, TypeOK, ReservationTypes
  <2> QED
    BY <1>3, <1>4, <2>2, <2>3 DEF create
<1>5. ASSUME NEW ev, NEW sg, transitionWithOutbox(q, ev, sg),
             sg = "COMPENSATING_HCM" => ev \in Compensations
      PROVE  ApprovalFits(r)'
  <2>1. q = r => sent[r] = 1
    BY <1>2, <1>5 DEF transitionWithOutbox, FInv, IInv, LedgerInv, DecisionsFit, ConfirmsOnce
  <2>2. q = r => hold[r] # "confirmed"
    BY <1>2, <2>1 DEF ConfirmsOnce
  <2> QED
    BY <1>3, <1>5, <2>1, <2>2 DEF transitionWithOutbox
<1>6. CASE approve(q) \/ reject(q) \/ cancel(q)
  BY <1>5, <1>6 DEF approve, reject, cancel, Compensations
<1>7. CASE forceFail(q)
  <2>1. moves'[r]["CONFIRMED"] = moves[r]["CONFIRMED"]
    BY <1>2, <1>7 DEF forceFail, createMovement, AddMovement, TypeOK, ReservationTypes
  <2>2. /\ saga'[r] = saga[r] \/ saga'[r] = "TERMINAL"
        /\ status'[r] = status[r] \/ status'[r] = "FAILED"
    BY <1>2, <1>7 DEF forceFail, transition, TypeOK
  <2> QED
    BY <1>1, <1>2, <1>7, <2>1, <2>2, ApprovalKept DEF forceFail
<1> QED
  BY <1>4, <1>6, <1>7 DEF ApiStep

\* What the history and the disturbances never take back.
LEMMA RerunStays ==
  ASSUME IInv, [Next]_vars
  PROVE  /\ \A r \in Requests : rerun[r] => rerun'[r]
         /\ \A d \in Disturbances : env'[d] = 0 => env[d] = 0
<1> USE DEF historyVars, RunFrame, QueueFrame
<1>1. TypeOK
  BY DEF IInv
<1>2. ASSUME NEW e \in Entries, QueueStep(e)
      PROVE  \A r \in Requests : rerun[r] => rerun'[r]
  <2>1. \E x : rerun' = [rerun EXCEPT ![e[1]] = @ \/ x]
    BY <1>2 DEF QueueStep, recoverOrphan, lockExpires, redisForgets
  <2> QED
    BY <1>1, <2>1, Zenon DEF TypeOK
<1>3. \A r \in Requests : rerun[r] => rerun'[r]
  <2>1. CASE UNCHANGED rerun
    BY <2>1
  <2> QED
    BY <1>2, <2>1 DEF Next, ApiStep, create, approve, reject, cancel, transitionWithOutbox,
       forceFail, startJob, RunStep, reserveCall, reserveCommit, failRequest, confirmCheck,
       confirmCall, getBalanceCall, confirmCommit, releaseCheck, releaseCall, compensateCommit,
       databaseError, endJob, BalanceStep, refreshBalance, hcmDrift, crash, vars
<1>4. UNCHANGED env \/ \E d \in Disturbances : env' = [env EXCEPT ![d] = @ + 1]
  BY DEF Next, ApiStep, create, approve, reject, cancel, transitionWithOutbox,
     forceFail, startJob, RunStep, reserveCall, reserveCommit, failRequest, confirmCheck,
     confirmCall, getBalanceCall, confirmCommit, releaseCheck, releaseCall, compensateCommit,
     databaseError, endJob, BalanceStep, refreshBalance, hcmDrift, crash, vars, QueueStep,
     recoverOrphan, lockExpires, redisForgets, Spend, Disturbances
<1>5. \A d \in Disturbances : env'[d] = 0 => env[d] = 0
  BY <1>1, <1>4 DEF TypeOK
<1> QED
  BY <1>3, <1>5

LEMMA ApprovalsKept ==
  ASSUME FInv, ApprovalsInv, [Next]_vars
  PROVE  ApprovalsInv'
<1>1. CASE \E q \in Requests : ApiStep(q)
  BY <1>1, ApprovalApi
<1>2. CASE \E w \in Workers : RunStep(w)
  BY <1>2, ApprovalRun
<1>3. ASSUME UNCHANGED <<hold, moves, event, saga, status>>,
             \A w \in Workers :
               pc'[w] \in {"getBalance", "commit"} => pc'[w] = pc[w] /\ task'[w] = task[w]
      PROVE  ApprovalsInv'
  <2> SUFFICES ASSUME NEW r \in Requests, ~rerun'[r] PROVE ApprovalFits(r)'
    BY DEF ApprovalsInv
  <2>1. ApprovalFits(r)
    BY RerunStays DEF FInv, ApprovalsInv
  <2> QED
    BY <1>3, <2>1, ApprovalKept
<1> USE DEF requestVars, hcmVars, runVars, outboxVars, QueueFrame
<1>4. ASSUME NEW w \in Workers, NEW e \in Entries, startJob(w, e)
      PROVE  ApprovalsInv'
  <2>1. event[e] \in EventTypes
    BY <1>4, LedgerStart DEF FInv, IInv, TypeOK
  <2>2. FirstStep(event[e]) \notin {"getBalance", "commit"}
    BY <2>1 DEF FirstStep, EventTypes, Compensations
  <2>3. \A x \in Workers :
          pc'[x] \in {"getBalance", "commit"} => pc'[x] = pc[x] /\ task'[x] = task[x]
    BY <1>4, <2>2 DEF startJob, FInv, IInv, TypeOK
  <2> QED
    BY <1>3, <1>4, <2>3 DEF startJob
<1>5. CASE \E e \in Entries : QueueStep(e)
  BY <1>3, <1>5 DEF QueueStep, recoverOrphan, lockExpires, redisForgets
<1>6. CASE BalanceStep
  <2>1. UNCHANGED <<hold, moves, event, saga, status, pc, task>>
    BY <1>6 DEF BalanceStep, refreshBalance, hcmDrift, HcmSeed
  <2> QED
    BY <1>3, <2>1
<1>7. CASE crash
  BY <1>3, <1>7 DEF crash
<1>8. CASE UNCHANGED vars
  <2>1. UNCHANGED <<hold, moves, event, saga, status, pc, task>>
    BY <1>8 DEF vars
  <2> QED
    BY <1>3, <2>1
<1> QED
  BY <1>1, <1>2, <1>4, <1>5, <1>6, <1>7, <1>8 DEF Next

AInv == FInv /\ ApprovalsInv

LEMMA BooksTypes ==
  ASSUME TypeOK
  PROVE  /\ hcmTotal \in [Balances -> Int \cup {NoRow}] /\ total \in [Balances -> Int \cup {NoRow}]
         /\ hold \in [Requests -> {"none", "held", "confirmed"}]
         /\ moves \in MoveCounts /\ saga \in [Requests -> SagaStates \cup {"none"}]
         /\ status \in [Requests -> RequestStatuses \cup {"none"}]
         /\ pc \in [Workers -> Steps] /\ snap \in [Workers -> Int \cup {NoRow}]
         /\ \A r \in Requests : DaysOf[r] \in Nat /\ DaysOf[r] > 0 /\ BalanceOf[r] \in Balances
                                  /\ moves[r]["CONFIRMED"] \in Nat
BY LedgerAssumption DEF TypeOK, HcmTypeOK, MoveCounts, ReservationTypes

\* A deduction of the HCM is not taken back.
LEMMA ConfirmedStays ==
  ASSUME AInv, [Next]_vars, NEW r \in Requests, ~rerun[r], hold[r] = "confirmed"
  PROVE  hold'[r] = "confirmed"
<1> USE DEF requestVars, hcmVars, runVars, outboxVars, QueueFrame, RunFrame
<1>1. /\ ApprovalFits(r) /\ ConfirmsOnce(r)
      /\ hold \in [Requests -> {"none", "held", "confirmed"}]
  BY DEF AInv, FInv, OnceInv, ApprovalsInv, IInv, TypeOK, HcmTypeOK
<1>2. ASSUME NEW w \in Workers, RunStep(w)
      PROVE  hold'[r] = "confirmed"
  <2> DEFINE q == RequestOf(w)
  <2>1. CASE q # r
    BY <1>2, <2>1, RunTouches DEF AInv, FInv
  <2>2. CASE q = r /\ reserveCall(w)
    <3>1. pc[w] \in ReserveSteps
      BY <2>2 DEF reserveCall, ReserveSteps
    <3>2. sent[r] = 1
      BY <1>1, <2>2, <3>1 DEF AInv, FInv, IInv, LedgerInv, DecisionsFit, ConfirmsOnce
    <3> QED
      BY <1>1, <3>2 DEF ConfirmsOnce
  <2>3. CASE q = r /\ releaseCall(w)
    <3>1. event[<<r, 2>>] \in Compensations
      BY <2>3, DecisionRun DEF releaseCall, ReleaseSteps, AInv
    <3> QED
      BY <1>1, <3>1 DEF ApprovalFits, Compensations
  <2>4. CASE q = r /\ confirmCall(w)
    BY <1>1, <2>4 DEF confirmCall, HcmConfirm, HcmIsDown
  <2>5. CASE UNCHANGED hold
    BY <2>5
  <2> QED
    BY <1>2, <2>1, <2>2, <2>3, <2>4, <2>5 DEF RunStep, reserveCommit, failRequest, confirmCheck,
       getBalanceCall, confirmCommit, releaseCheck, compensateCommit, databaseError, endJob,
       HcmGetBalance, HcmIsDown
<1>3. CASE UNCHANGED hold
  BY <1>3
<1> QED
  BY <1>2, <1>3 DEF Next, ApiStep, create, approve, reject, cancel, forceFail,
     transitionWithOutbox, startJob, QueueStep, recoverOrphan, lockExpires, redisForgets,
     BalanceStep, refreshBalance, hcmDrift, HcmSeed, crash, vars

LEMMA OneConfirmedBefore ==
  ASSUME AInv, [Next]_vars, NEW b, OneConfirmed(b)'
  PROVE  OneConfirmed(b)
<1>1. env["refresh"] = 0 /\ env["seed"] = 0
  BY RerunStays DEF OneConfirmed, AInv, FInv, Disturbances
<1>2. \A r \in RequestsOn(b) : r \in Requests /\ ~rerun[r]
  BY RerunStays DEF OneConfirmed, RequestsOn, AInv, FInv
<1>3. \A r \in RequestsOn(b) : hold[r] = "confirmed" => hold'[r] = "confirmed"
  BY <1>2, ConfirmedStays
<1> QED
  BY <1>1, <1>2, <1>3 DEF OneConfirmed

\* What a step leaves alone, if it touches neither totals nor confirmed holds.
LEMMA BooksFrame ==
  ASSUME NEW b, BooksFit(b), total'[b] = total[b], hcmTotal'[b] = hcmTotal[b],
         \A r \in RequestsOn(b) :
           /\ hold'[r] = "confirmed" <=> hold[r] = "confirmed"
           /\ moves'[r]["CONFIRMED"] = moves[r]["CONFIRMED"],
         \A w \in Workers :
           pc'[w] = "commit" /\ BalanceOf[RequestOf(w)'] = b =>
             pc[w] = "commit" /\ task'[w] = task[w] /\ snap'[w] = snap[w],
         (\E r \in RequestsOn(b) : saga'[r] # "none") =>
           computeRawAvailable(total'[b], moves', b) >= 0
  PROVE  BooksFit(b)'
<1>1. HcmHasRow(b)'
  BY DEF BooksFit, HcmHasRow
<1>2. \A r \in RequestsOn(b) : Lag(r)' = Lag(r)
  BY DEF Lag
<1>3. ASSUME NEW w \in Workers, pc'[w] = "commit", BalanceOf[RequestOf(w)'] = b
      PROVE  snap'[w] = hcmTotal'[b]
  <2>1. pc[w] = "commit" /\ BalanceOf[RequestOf(w)] = b /\ snap'[w] = snap[w]
    BY <1>3 DEF RequestOf
  <2> QED
    BY <2>1 DEF BooksFit
<1>4. (\A r \in RequestsOn(b) : hold'[r] # "confirmed") => total'[b] = hcmTotal'[b]
  BY DEF BooksFit
<1>5. \A r \in RequestsOn(b) : hold'[r] = "confirmed" => total'[b] = hcmTotal'[b] + Lag(r)'
  BY <1>2 DEF BooksFit
<1> QED
  BY <1>1, <1>3, <1>4, <1>5 DEF BooksFit

\* The same of a step that moves at most one request, which existed, and gives its days back.
LEMMA BooksMoved ==
  ASSUME TypeOK, IsFiniteSet(Requests), NEW b \in Balances, BooksFit(b), total[b] # NoRow,
         total'[b] = total[b], hcmTotal'[b] = hcmTotal[b],
         \A r \in RequestsOn(b) :
           /\ hold'[r] = "confirmed" <=> hold[r] = "confirmed"
           /\ saga'[r] # "none" => saga[r] # "none",
         \/ moves' = moves
         \/ \E q \in Requests : createMovement(q, "CANCELLED") /\ saga[q] # "none",
         \A w \in Workers :
           pc'[w] = "commit" /\ BalanceOf[RequestOf(w)'] = b =>
             pc[w] = "commit" /\ task'[w] = task[w] /\ snap'[w] = snap[w]
  PROVE  BooksFit(b)'
<1>0. total[b] \in Int /\ moves \in MoveCounts
  BY BooksTypes
<1>1. CASE moves' = moves
  <2>1. computeRawAvailable(total'[b], moves', b) = computeRawAvailable(total[b], moves, b)
    BY <1>1
  <2>2. (\E r \in RequestsOn(b) : saga'[r] # "none") =>
          computeRawAvailable(total'[b], moves', b) >= 0
    BY <2>1 DEF BooksFit
  <2> QED
    BY <1>1, <2>2, BooksFrame
<1>2. ASSUME NEW q \in Requests, createMovement(q, "CANCELLED"), saga[q] # "none"
      PROVE  BooksFit(b)'
  <2>1. moves' = AddMovement(moves, q, "CANCELLED") /\ "CANCELLED" \in ReservationTypes
    BY <1>2 DEF createMovement, ReservationTypes
  <2>2. /\ \A r \in Requests : moves'[r]["CONFIRMED"] = moves[r]["CONFIRMED"]
        /\ \A r \in Requests : r # q => moves'[r] = moves[r]
    BY <1>0, <2>1 DEF AddMovement, MoveCounts, ReservationTypes
  <2>3. (\E r \in RequestsOn(b) : saga'[r] # "none") =>
          computeRawAvailable(total'[b], moves', b) >= 0
    <3> SUFFICES ASSUME \E r \in RequestsOn(b) : saga'[r] # "none"
                 PROVE  computeRawAvailable(total[b], moves', b) >= 0
      OBVIOUS
    <3>1. computeRawAvailable(total[b], moves, b) >= 0
      BY DEF BooksFit
    <3>2. computeRawAvailable(total[b], moves, b) \in Int
      BY <1>0, RawInt
    <3>3. CASE BalanceOf[q] = b
      <4>1. computeRawAvailable(total[b], moves', b)
              = computeRawAvailable(total[b], moves, b) + DaysOf[q]
        BY <1>0, <2>1, <3>3, RawMoved
      <4> QED
        BY <3>1, <3>2, <4>1, BooksTypes
    <3>4. CASE BalanceOf[q] # b
      <4>1. \A r \in RequestsOn(b) : moves'[r] = moves[r]
        BY <2>2, <3>4 DEF RequestsOn
      <4> QED
        BY <3>1, <4>1, RawSame
    <3> QED
      BY <3>3, <3>4
  <2> QED
    BY <2>2, <2>3, BooksFrame DEF RequestsOn
<1> QED
  BY <1>1, <1>2

\* The step of a run on another balance.
LEMMA BooksElsewhere ==
  ASSUME AInv, IsFiniteSet(Requests), NEW w \in Workers, RunStep(w), NEW b \in Balances,
         BalanceOf[RequestOf(w)] # b, BooksFit(b)
  PROVE  BooksFit(b)'
<1>1. /\ total'[b] = total[b] /\ hcmTotal'[b] = hcmTotal[b]
      /\ \A r \in RequestsOn(b) : hold'[r] = hold[r] /\ moves'[r] = moves[r] /\ saga'[r] = saga[r]
  BY RunTouches DEF RequestsOn, AInv, FInv
<1>2. ASSUME NEW x \in Workers, pc'[x] = "commit", BalanceOf[RequestOf(x)'] = b
      PROVE  pc[x] = "commit" /\ task'[x] = task[x] /\ snap'[x] = snap[x]
  <2>1. x # w
    BY <1>2, RunTouches DEF RequestOf, AInv, FInv
  <2> QED
    BY <1>2, <2>1, RunTouches DEF AInv, FInv
<1>3. (\E r \in RequestsOn(b) : saga'[r] # "none") =>
        computeRawAvailable(total'[b], moves', b) >= 0
  <2>1. computeRawAvailable(total[b], moves', b) = computeRawAvailable(total[b], moves, b)
    BY <1>1, RawSame
  <2> QED
    BY <1>1, <2>1 DEF BooksFit
<1> QED
  BY <1>1, <1>2, <1>3, BooksFrame

\* The HCM deducts a request: the API lags behind it by its days.
LEMMA BooksDeducted ==
  ASSUME AInv, NEW w \in Workers, confirmCall(w), NEW b \in Balances,
         BalanceOf[RequestOf(w)] = b, OneConfirmed(b), OneConfirmed(b)', BooksFit(b),
         hold' = [hold EXCEPT ![RequestOf(w)] = "confirmed"],
         hcmTotal' = [hcmTotal EXCEPT ![b] = @ - DaysOf[RequestOf(w)]]
  PROVE  BooksFit(b)'
<1> DEFINE q == RequestOf(w)
<1>0. RunStep(w) /\ pc[w] = "confirm" /\ UNCHANGED <<moves, total, saga, snap>>
      /\ TypeOK
  BY DEF RunStep, confirmCall, GoTo, requestVars, AInv, FInv, IInv
<1>1. q \in RequestsOn(b) /\ ~rerun[q] /\ ConfirmsOnce(q) /\ ApprovalFits(q)
  BY <1>0, RunTouches DEF RequestsOn, OneConfirmed, AInv, FInv, OnceInv, ApprovalsInv
<1>2. hold[q] # "confirmed" /\ moves[q]["CONFIRMED"] = 0
  <2>1. hold[q] # "confirmed"
    BY <1>0, <1>1 DEF ConfirmsOnce
  <2> QED
    BY <1>0, <1>1, <2>1, BooksTypes DEF ApprovalFits, RequestsOn
<1>3. \A r \in RequestsOn(b) : r # q => hold'[r] # "confirmed" /\ hold[r] # "confirmed"
  <2>1. hold'[q] = "confirmed" /\ \A r \in Requests : r # q => hold'[r] = hold[r]
    BY <1>0, <1>1, BooksTypes DEF RequestsOn
  <2>2. \A r \in RequestsOn(b) : hold'[r] = "confirmed" => r = q
    BY <1>1, <2>1 DEF OneConfirmed
  <2> QED
    BY <2>1, <2>2 DEF RequestsOn
<1>4. total[b] = hcmTotal[b] /\ HcmHasRow(b)
  BY <1>2, <1>3 DEF BooksFit
<1>5. hcmTotal[b] \in Int /\ DaysOf[q] \in Nat /\ hcmTotal'[b] = hcmTotal[b] - DaysOf[q]
  BY <1>0, <1>1, <1>4, BooksTypes DEF HcmHasRow, RequestsOn
<1>6. HcmHasRow(b)' /\ hold'[q] = "confirmed"
  BY <1>0, <1>1, <1>5, HcmAssumption, BooksTypes DEF HcmHasRow, RequestsOn
<1>7. \A r \in RequestsOn(b) : r = q => Lag(r)' = DaysOf[q]
  BY <1>0, <1>2, <1>6 DEF Lag
<1>8. ASSUME NEW x \in Workers, pc'[x] = "commit", BalanceOf[RequestOf(x)'] = b PROVE FALSE
  <2>1. x # w
    BY <1>0, <1>8, BooksTypes DEF confirmCall, GoTo
  <2>2. pc[x] = "commit" /\ RequestOf(x) \in RequestsOn(b)
    <3>1. pc[x] = "commit" /\ BalanceOf[RequestOf(x)] = b
      BY <1>0, <1>8, <2>1, RunTouches DEF RequestOf, AInv, FInv
    <3> QED
      BY <1>0, <3>1, RunTypes DEF RequestsOn
  <2>3. ApprovalFits(RequestOf(x)) /\ RequestOf(x) \in Requests
    BY <2>2 DEF OneConfirmed, AInv, ApprovalsInv, RequestsOn
  <2>4. hold[RequestOf(x)] = "confirmed"
    BY <2>2, <2>3 DEF ApprovalFits
  <2> QED
    BY <1>2, <1>3, <2>2, <2>4
<1>9. (\E r \in RequestsOn(b) : saga'[r] # "none") =>
        computeRawAvailable(total'[b], moves', b) >= 0
  BY <1>0 DEF BooksFit
<1>10. \A r \in RequestsOn(b) : hold'[r] = "confirmed" => total'[b] = hcmTotal'[b] + Lag(r)'
  <2>1. ASSUME NEW r \in RequestsOn(b), hold'[r] = "confirmed"
        PROVE  r = q
    BY <1>3, <2>1
  <2>2. total'[b] = hcmTotal'[b] + DaysOf[q]
    BY <1>0, <1>4, <1>5
  <2> QED
    BY <1>7, <2>1, <2>2
<1>11. ~ \A r \in RequestsOn(b) : hold'[r] # "confirmed"
  BY <1>1, <1>6
<1> QED
  BY <1>6, <1>8, <1>9, <1>10, <1>11 DEF BooksFit

\* The approval is committed: the API catches up, and what is available stays the same.
LEMMA BooksCommitted ==
  ASSUME AInv, IsFiniteSet(Requests), NEW w \in Workers, confirmCommit(w), NEW b \in Balances,
         BalanceOf[RequestOf(w)] = b, total[b] # NoRow, OneConfirmed(b), BooksFit(b)
  PROVE  \/ UNCHANGED <<requestVars, moves, total>> /\ BooksFit(b)'
         \/ /\ RequestOf(w) \in RequestsOn(b) /\ status[RequestOf(w)] # "APPROVED"
            /\ total'[b] = total[b] - DaysOf[RequestOf(w)]
            /\ transition(RequestOf(w), "APPROVED", "TERMINAL")
            /\ BooksFit(b)'
<1> DEFINE q == RequestOf(w)
<1>0. RunStep(w) /\ pc[w] = "commit" /\ UNCHANGED <<hold, hcmTotal, snap, task>> /\ TypeOK
  BY DEF RunStep, confirmCommit, GoTo, hcmVars, AInv, FInv, IInv
<1>1. q \in RequestsOn(b) /\ ~rerun[q] /\ ApprovalFits(q)
  BY <1>0, RunTouches DEF RequestsOn, OneConfirmed, AInv, FInv, ApprovalsInv
<1>2. hold[q] = "confirmed" /\ moves[q]["CONFIRMED"] = 0 /\ status[q] # "APPROVED"
  BY <1>0, <1>1 DEF ApprovalFits
<1>3. /\ snap[w] = hcmTotal[b] /\ total[b] = hcmTotal[b] + DaysOf[q]
      /\ hcmTotal[b] \in Int /\ DaysOf[q] \in Nat /\ total[b] \in Int /\ q \in Requests
      /\ HcmHasRow(b) /\ moves \in MoveCounts
  <2>1. Lag(q) = DaysOf[q]
    BY <1>2 DEF Lag
  <2>2. snap[w] = hcmTotal[b] /\ total[b] = hcmTotal[b] + DaysOf[q] /\ HcmHasRow(b)
    BY <1>0, <1>1, <1>2, <2>1 DEF BooksFit
  <2> QED
    BY <1>0, <1>1, <2>2, BooksTypes DEF HcmHasRow, RequestsOn
<1>4. \A x \in Workers : pc'[x] = "commit" => pc[x] = "commit"
  BY <1>0, BooksTypes DEF confirmCommit, GoTo
<1>5. CASE UNCHANGED <<requestVars, moves, total>>
  BY <1>0, <1>4, <1>5, BooksMoved DEF requestVars
<1>6. CASE /\ total' = [total EXCEPT ![b] = snap[w]] /\ createMovement(q, "CONFIRMED")
           /\ transition(q, "APPROVED", "TERMINAL")
  <2>1. total'[b] = hcmTotal[b] /\ total'[b] = total[b] - DaysOf[q]
    BY <1>0, <1>3, <1>6, BooksTypes
  <2>2. \A r \in RequestsOn(b) : hold'[r] = "confirmed" <=> r = q
    BY <1>0, <1>1, <1>2 DEF OneConfirmed
  <2>3. moves' = AddMovement(moves, q, "CONFIRMED") /\ moves'[q]["CONFIRMED"] = 1
    BY <1>2, <1>3, <1>6 DEF createMovement, AddMovement, MoveCounts, ReservationTypes
  <2>4. \A r \in RequestsOn(b) : r = q => Lag(r)' = 0
    BY <2>3 DEF Lag
  <2>5. computeRawAvailable(total'[b], moves', b) >= 0
    <3>1. computeRawAvailable(total[b], moves, b) >= 0
      <4>1. pc[w] \in LiveSteps
        BY <1>0 DEF LiveSteps, ConfirmSteps
      <4>2. saga[q] # "none"
        BY <4>1, RunEntry DEF AInv, FInv
      <4> QED
        BY <1>1, <4>2 DEF BooksFit
    <3>2. computeRawAvailable(total[b], moves', b)
            = computeRawAvailable(total[b], moves, b) + DaysOf[q]
      BY <1>3, <2>3, RawMoved DEF ReservationTypes
    <3>3. /\ computeRawAvailable(total[b], moves', b)
               = total[b] + SumOf(NetDays(moves'), RequestsOn(b))
          /\ computeRawAvailable(total'[b], moves', b)
               = total'[b] + SumOf(NetDays(moves'), RequestsOn(b))
      BY RawIsSum
    <3>4. moves' \in MoveCounts
      BY <1>3, <2>3, AddMovementType DEF MoveCounts, ReservationTypes
    <3>5. SumOf(NetDays(moves'), RequestsOn(b)) \in Int
          /\ computeRawAvailable(total[b], moves, b) \in Int
      BY <1>3, <3>4, RawInt
    <3> QED
      BY <1>3, <2>1, <3>1, <3>2, <3>3, <3>5
  <2>6. ASSUME NEW x \in Workers, pc'[x] = "commit", BalanceOf[RequestOf(x)'] = b
        PROVE  snap'[x] = hcmTotal'[b]
    BY <1>0, <1>4, <2>6 DEF BooksFit, RequestOf
  <2>7. \A r \in RequestsOn(b) : hold'[r] = "confirmed" => total'[b] = hcmTotal'[b] + Lag(r)'
    BY <1>0, <1>3, <2>1, <2>2, <2>4
  <2>8. HcmHasRow(b)'
    BY <1>0, <1>3 DEF HcmHasRow
  <2>9. BooksFit(b)'
    BY <1>1, <2>2, <2>5, <2>6, <2>7, <2>8 DEF BooksFit
  <2> QED
    BY <1>1, <1>2, <1>6, <2>1, <2>9
<1> QED
  BY <1>5, <1>6 DEF confirmCommit

\* The requests of a balance that a step approves.
ApprovedOn(b) == {r \in RequestsOn(b) : status[r] # "APPROVED" /\ status'[r] = "APPROVED"}

\* A step changes the total of the balance by the approval it commits, and not otherwise.
TotalFollows(b) ==
  \/ total'[b] = total[b] /\ ApprovedOn(b) = {}
  \/ \E q \in RequestsOn(b) :
       /\ ApprovedOn(b) = {q} /\ saga'[q] # "none"
       /\ total'[b] = total[b] - DaysOf[q]

LEMMA BooksRun ==
  ASSUME AInv, [Next]_vars, IsFiniteSet(Requests), NEW w \in Workers, RunStep(w), NEW b \in Balances,
         total[b] # NoRow, OneConfirmed(b), OneConfirmed(b)', BooksFit(b)
  PROVE  BooksFit(b)' /\ TotalFollows(b)
<1> USE DEF RunFrame, outboxVars, channelVars, historyVars, requestVars, GoTo
<1> DEFINE q == RequestOf(w)
<1>0. /\ TypeOK /\ pc \in [Workers -> Steps] /\ q \in Requests /\ pc[w] # "idle"
      /\ hold \in [Requests -> {"none", "held", "confirmed"}]
      /\ saga \in [Requests -> SagaStates \cup {"none"}]
      /\ status \in [Requests -> RequestStatuses \cup {"none"}]
  BY RunTouches, BooksTypes DEF AInv, FInv, IInv
<1>1. /\ \A r \in Requests : r # q => status'[r] = status[r]
      /\ \A a \in Balances : a # BalanceOf[q] => total'[a] = total[a]
  BY RunTouches DEF AInv, FInv
<1>2. CASE BalanceOf[q] # b
  <2>1. BooksFit(b)'
    BY <1>2, BooksElsewhere
  <2>2. TotalFollows(b)
    BY <1>1, <1>2 DEF TotalFollows, ApprovedOn, RequestsOn
  <2> QED
    BY <2>1, <2>2
<1>3. ASSUME UNCHANGED <<requestVars, total>>
      PROVE  TotalFollows(b)
  BY <1>3 DEF TotalFollows, ApprovedOn
<1>4. ASSUME NEW st, st # "APPROVED", NEW sg, transition(q, st, sg), UNCHANGED total
      PROVE  TotalFollows(b)
  BY <1>0, <1>4 DEF TotalFollows, ApprovedOn, transition, RequestsOn
<1>5. \A r \in RequestsOn(b) : hold[r] = "confirmed" => hold'[r] = "confirmed"
  BY ConfirmedStays DEF OneConfirmed, RequestsOn
<1>6. ASSUME NEW step, step # "commit", pc' = [pc EXCEPT ![w] = step],
             \A x \in Workers : x # w => task'[x] = task[x] /\ snap'[x] = snap[x],
             UNCHANGED <<total, hcmTotal>>,
             \A r \in RequestsOn(b) : hold'[r] = "confirmed" => hold[r] = "confirmed",
             \/ saga' = saga /\ moves' = moves
             \/ /\ saga[q] # "none"
                /\ moves' = moves \/ createMovement(q, "CANCELLED")
      PROVE  BooksFit(b)'
  <2>1. \A r \in RequestsOn(b) : saga'[r] # "none" => saga[r] # "none"
    BY <1>6, RunTouches DEF RequestsOn, AInv, FInv
  <2>2. \A x \in Workers : pc'[x] = "commit" => pc[x] = "commit" /\ x # w
    BY <1>0, <1>6
  <2>3. moves' = moves \/ \E p \in Requests : createMovement(p, "CANCELLED") /\ saga[p] # "none"
    BY <1>0, <1>6
  <2> QED
    BY <1>0, <1>5, <1>6, <2>1, <2>2, <2>3, BooksMoved
<1>7. pc[w] \in LiveSteps => saga[q] # "none"
  BY RunEntry DEF AInv, FInv
<1> USE DEF LiveSteps, ReserveSteps, ConfirmSteps, ReleaseSteps
<1>8. CASE reserveCall(w)
  <2>1. PICK reply \in Replies, step \in {"reserved", "refused", "threw"} :
          HcmReserve(q, reply) /\ pc' = [pc EXCEPT ![w] = step]
    BY <1>8 DEF reserveCall
  <2>2. /\ UNCHANGED hcmTotal
        /\ \A r \in RequestsOn(b) : hold'[r] = "confirmed" => hold[r] = "confirmed"
    BY <1>0, <2>1 DEF HcmReserve, HcmIsDown, hcmVars, RequestsOn
  <2> QED
    BY <1>3, <1>6, <1>8, <2>1, <2>2 DEF reserveCall
<1>9. CASE reserveCommit(w)
  BY <1>3, <1>4, <1>6, <1>7, <1>9 DEF reserveCommit, hcmVars
<1>10. CASE failRequest(w)
  BY <1>4, <1>6, <1>7, <1>10 DEF failRequest, hcmVars
<1>11. CASE confirmCheck(w)
  BY <1>3, <1>6, <1>11 DEF confirmCheck, hcmVars
<1>12. CASE confirmCall(w) /\ BalanceOf[q] = b
  <2>1. PICK reply \in Replies, step \in {"getBalance", "threw"} :
          HcmConfirm(q, reply) /\ pc' = [pc EXCEPT ![w] = step]
    BY <1>12 DEF confirmCall
  <2>2. CASE UNCHANGED hcmVars
    BY <1>3, <1>6, <1>12, <2>1, <2>2 DEF confirmCall, hcmVars
  <2>3. CASE UNCHANGED hcmVars \/
               (/\ hold' = [hold EXCEPT ![q] = "confirmed"]
                /\ hcmTotal' = [hcmTotal EXCEPT ![b] = @ - DaysOf[q]])
    BY <1>3, <1>12, <2>2, <2>3, BooksDeducted DEF confirmCall
  <2> QED
    BY <1>12, <2>1, <2>3 DEF HcmConfirm, HcmIsDown, BooksFit
<1>13. CASE getBalanceCall(w) /\ BalanceOf[q] = b
  <2>1. TotalFollows(b)
    BY <1>3, <1>13 DEF getBalanceCall
  <2>2. UNCHANGED <<hold, hcmTotal, total, moves, saga, task>>
    BY <1>13 DEF getBalanceCall, HcmGetBalance, HcmIsDown, hcmVars
  <2>3. CASE pc' = [pc EXCEPT ![w] = "threw"] /\ UNCHANGED snap
    BY <1>6, <2>1, <2>2, <2>3
  <2>4. CASE pc' = [pc EXCEPT ![w] = "commit"] /\ snap' = [snap EXCEPT ![w] = hcmTotal[b]]
    <3>1. ASSUME NEW x \in Workers, pc'[x] = "commit", BalanceOf[RequestOf(x)'] = b
          PROVE  snap'[x] = hcmTotal'[b]
      <4>1. CASE x = w
        BY <1>0, <2>2, <2>4, <4>1, BooksTypes
      <4>2. CASE x # w
        <5>1. pc[x] = "commit" /\ BalanceOf[RequestOf(x)] = b /\ snap'[x] = snap[x]
          BY <1>0, <2>2, <2>4, <3>1, <4>2, BooksTypes DEF RequestOf
        <5> QED
          BY <2>2, <5>1 DEF BooksFit
      <4> QED
        BY <4>1, <4>2
    <3>2. \A r \in RequestsOn(b) : Lag(r)' = Lag(r)
      BY <2>2 DEF Lag
    <3> QED
      BY <2>1, <2>2, <3>1, <3>2 DEF BooksFit, HcmHasRow
  <2> QED
    BY <1>13, <2>3, <2>4 DEF getBalanceCall
<1>14. CASE confirmCommit(w) /\ BalanceOf[q] = b
  <2>1. \/ UNCHANGED <<requestVars, moves, total>> /\ BooksFit(b)'
        \/ /\ q \in RequestsOn(b) /\ status[q] # "APPROVED"
           /\ total'[b] = total[b] - DaysOf[q]
           /\ transition(q, "APPROVED", "TERMINAL")
           /\ BooksFit(b)'
    BY <1>14, BooksCommitted
  <2>2. ASSUME q \in RequestsOn(b), status[q] # "APPROVED", transition(q, "APPROVED", "TERMINAL"),
               total'[b] = total[b] - DaysOf[q]
        PROVE  TotalFollows(b)
    <3>1. ApprovedOn(b) = {q} /\ saga'[q] # "none"
      BY <1>0, <1>1, <2>2 DEF ApprovedOn, transition, RequestsOn
    <3> QED
      BY <2>2, <3>1 DEF TotalFollows
  <2> QED
    BY <1>3, <2>1, <2>2
<1>15. CASE releaseCheck(w)
  BY <1>3, <1>6, <1>15 DEF releaseCheck, hcmVars
<1>16. CASE releaseCall(w)
  <2>1. PICK reply \in Replies, step \in {"released", "threw"} :
          HcmRelease(q, reply) /\ pc' = [pc EXCEPT ![w] = step]
    BY <1>16 DEF releaseCall
  <2>2. /\ UNCHANGED hcmTotal
        /\ \A r \in RequestsOn(b) : hold'[r] = "confirmed" => hold[r] = "confirmed"
    BY <1>0, <2>1 DEF HcmRelease, HcmIsDown, hcmVars, RequestsOn
  <2> QED
    BY <1>3, <1>6, <1>16, <2>1, <2>2 DEF releaseCall
<1>17. CASE compensateCommit(w)
  BY <1>4, <1>6, <1>7, <1>17 DEF compensateCommit, hcmVars, IntendedStatus
<1>18. CASE databaseError(w)
  BY <1>3, <1>6, <1>18 DEF databaseError, hcmVars
<1>19. CASE endJob(w)
  <2>1. \A x \in Workers : x # w => task'[x] = task[x] /\ snap'[x] = snap[x]
    BY RunTouches DEF AInv, FInv
  <2> QED
    BY <1>3, <1>6, <1>19, <2>1 DEF endJob, hcmVars
<1> QED
  BY <1>2, <1>8, <1>9, <1>10, <1>11, <1>12, <1>13, <1>14, <1>15, <1>16, <1>17, <1>18, <1>19
  DEF RunStep

\* The operations of the API reserve only what is available, or give days back.
LEMMA BooksApi ==
  ASSUME AInv, IsFiniteSet(Requests), NEW q \in Requests, ApiStep(q), NEW b \in Balances,
         total[b] # NoRow, BooksFit(b)
  PROVE  BooksFit(b)' /\ TotalFollows(b)
<1> USE DEF runVars, historyVars, hcmVars, outboxVars
<1>0. /\ TypeOK /\ moves \in MoveCounts /\ total[b] \in Int
      /\ saga \in [Requests -> SagaStates \cup {"none"}]
      /\ status \in [Requests -> RequestStatuses \cup {"none"}]
      /\ DaysOf[q] \in Nat /\ DaysOf[q] > 0 /\ BalanceOf[q] \in Balances
  BY BooksTypes DEF AInv, FInv, IInv
<1>1. UNCHANGED <<hold, hcmTotal, total, pc, task, snap>>
  BY DEF ApiStep, create, approve, reject, cancel, forceFail, transitionWithOutbox
<1>2. \E st \in {"PENDING_APPROVAL", "FAILED"} : \E sg : transition(q, st, sg)
  BY DEF ApiStep, create, approve, reject, cancel, forceFail, transitionWithOutbox
<1>3. TotalFollows(b)
  BY <1>0, <1>1, <1>2 DEF TotalFollows, ApprovedOn, transition, RequestsOn
<1>4. \A r \in Requests : r # q => saga'[r] = saga[r]
  BY <1>0, <1>2 DEF transition
<1>5. CASE create(q)
  <2>1. moves' = AddMovement(moves, q, "PENDING_RESERVATION")
    BY <1>5 DEF create, createMovement
  <2>2. /\ \A r \in Requests : moves'[r]["CONFIRMED"] = moves[r]["CONFIRMED"]
        /\ \A r \in Requests : r # q => moves'[r] = moves[r]
    BY <1>0, <2>1 DEF AddMovement, MoveCounts, ReservationTypes
  <2>3. (\E r \in RequestsOn(b) : saga'[r] # "none") =>
          computeRawAvailable(total'[b], moves', b) >= 0
    <3>1. CASE BalanceOf[q] = b
      <4>1. DaysOf[q] <= computeAvailable(total[b], moves, b)
        BY <1>5, <3>1 DEF create, assertSufficient
      <4>2. /\ computeRawAvailable(total[b], moves, b) \in Int
            /\ DaysOf[q] <= computeRawAvailable(total[b], moves, b)
        BY <1>0, <4>1, RawInt DEF computeAvailable
      <4>3. computeRawAvailable(total[b], moves', b)
              = computeRawAvailable(total[b], moves, b) + (0 - DaysOf[q])
        BY <1>0, <2>1, <3>1, RawMoved DEF ReservationTypes
      <4> QED
        BY <1>0, <1>1, <4>2, <4>3
    <3>2. CASE BalanceOf[q] # b
      <4>1. \A r \in RequestsOn(b) : moves'[r] = moves[r] /\ saga'[r] = saga[r]
        BY <1>4, <2>2, <3>2 DEF RequestsOn
      <4>2. computeRawAvailable(total[b], moves', b) = computeRawAvailable(total[b], moves, b)
        BY <4>1, RawSame
      <4> QED
        BY <1>1, <4>1, <4>2 DEF BooksFit
    <3> QED
      BY <3>1, <3>2
  <2> QED
    BY <1>1, <1>3, <2>2, <2>3, BooksFrame DEF RequestsOn
<1>6. CASE saga[q] # "none" /\ (moves' = moves \/ createMovement(q, "CANCELLED"))
  <2>1. \A r \in RequestsOn(b) : saga'[r] # "none" => saga[r] # "none"
    BY <1>4, <1>6 DEF RequestsOn
  <2> QED
    BY <1>0, <1>1, <1>3, <1>6, <2>1, BooksMoved
<1> QED
  BY <1>5, <1>6 DEF ApiStep, approve, reject, cancel, forceFail, transitionWithOutbox

LEMMA BooksStep ==
  ASSUME AInv, [Next]_vars, IsFiniteSet(Requests), NEW b \in Balances,
         OneConfirmed(b), OneConfirmed(b)', total[b] # NoRow, BooksFit(b)
  PROVE  BooksFit(b)' /\ TotalFollows(b)
<1> USE DEF requestVars, hcmVars, runVars, outboxVars, QueueFrame
<1>0. TypeOK /\ pc \in [Workers -> Steps]
  BY DEF AInv, FInv, IInv, TypeOK
<1>1. CASE \E q \in Requests : ApiStep(q)
  BY <1>1, BooksApi
<1>2. CASE \E w \in Workers : RunStep(w)
  BY <1>2, BooksRun
<1>3. ASSUME UNCHANGED <<hold, hcmTotal, total, moves, saga, status>>,
             \A w \in Workers :
               pc'[w] = "commit" => pc[w] = "commit" /\ task'[w] = task[w] /\ snap'[w] = snap[w]
      PROVE  BooksFit(b)' /\ TotalFollows(b)
  <2>1. BooksFit(b)'
    BY <1>0, <1>3, BooksMoved
  <2>2. TotalFollows(b)
    BY <1>3 DEF TotalFollows, ApprovedOn
  <2> QED
    BY <2>1, <2>2
<1>4. ASSUME NEW w \in Workers, NEW e \in Entries, startJob(w, e)
      PROVE  BooksFit(b)' /\ TotalFollows(b)
  <2>1. event[e] \in EventTypes
    BY <1>4, LedgerStart DEF AInv, FInv, IInv, TypeOK
  <2>2. FirstStep(event[e]) # "commit"
    BY <2>1 DEF FirstStep, EventTypes, Compensations
  <2>3. \A x \in Workers : pc'[x] = "commit" => pc[x] = "commit" /\ task'[x] = task[x]
    BY <1>0, <1>4, <2>2 DEF startJob, TypeOK
  <2> QED
    BY <1>3, <1>4, <2>3 DEF startJob
<1>5. CASE \E e \in Entries : QueueStep(e)
  <2>1. UNCHANGED <<hold, hcmTotal, total, moves, saga, status, pc, task, snap>>
    BY <1>5 DEF QueueStep, recoverOrphan, lockExpires, redisForgets
  <2> QED
    BY <1>3, <2>1
<1>6. CASE BalanceStep
  <2>1. \E d \in {"refresh", "seed"} : Spend(d)
    BY <1>6 DEF BalanceStep, refreshBalance, hcmDrift
  <2>2. env \in [Disturbances -> Nat] /\ "refresh" \in Disturbances /\ "seed" \in Disturbances
    BY <1>0 DEF TypeOK, Disturbances
  <2>3. env'["refresh"] # 0 \/ env'["seed"] # 0
    BY <2>1, <2>2 DEF Spend
  <2> QED
    BY <2>3 DEF OneConfirmed
<1>7. CASE crash
  BY <1>3, <1>7 DEF crash
<1>8. CASE UNCHANGED vars
  <2>1. UNCHANGED <<hold, hcmTotal, total, moves, saga, status, pc, task, snap>>
    BY <1>8 DEF vars
  <2> QED
    BY <1>3, <2>1
<1> QED
  BY <1>1, <1>2, <1>4, <1>5, <1>6, <1>7, <1>8 DEF Next

\* A balance gets its row from the HCM only by a refresh.
LEMMA RowBefore ==
  ASSUME AInv, [Next]_vars, NEW b \in Balances, OneConfirmed(b)', total'[b] # NoRow
  PROVE  total[b] # NoRow
<1>0. total \in [Balances -> Int \cup {NoRow}] /\ env \in [Disturbances -> Nat]
      /\ "refresh" \in Disturbances
  BY DEF AInv, FInv, IInv, TypeOK, Disturbances
<1>1. CASE total' = total
  BY <1>1
<1>2. ASSUME NEW w \in Workers, confirmCommit(w)
      PROVE  total[b] # NoRow
  BY <1>0, <1>2 DEF confirmCommit
<1>3. ASSUME NEW a, NEW t, refreshBalance(a, t)
      PROVE  total[b] # NoRow
  BY <1>0, <1>3 DEF refreshBalance, Spend, OneConfirmed
<1> QED
  BY <1>1, <1>2, <1>3 DEF Next, ApiStep, create, approve, reject, cancel, forceFail,
     transitionWithOutbox, startJob, QueueStep, recoverOrphan, lockExpires, redisForgets,
     QueueFrame, BalanceStep, hcmDrift, crash, vars, RunStep, reserveCall, reserveCommit,
     failRequest, confirmCheck, confirmCall, getBalanceCall, releaseCheck, releaseCall,
     compensateCommit, databaseError, endJob

LEMMA BooksKept ==
  ASSUME AInv, BooksInv, [Next]_vars, IsFiniteSet(Requests)
  PROVE  BooksInv'
BY RowBefore, OneConfirmedBefore, BooksStep DEF BooksInv

LEMMA BooksInit == Init => ApprovalsInv /\ BooksInv
<1> SUFFICES ASSUME Init PROVE ApprovalsInv /\ BooksInv
  OBVIOUS
<1>1. /\ \A r \in Requests : /\ hold[r] = "none" /\ saga[r] = "none" /\ status[r] = "none"
                              /\ moves[r]["CONFIRMED"] = 0
      /\ \A w \in Workers : pc[w] = "idle"
      /\ \A b \in Balances : total[b] # NoRow => HcmHasRow(b) /\ total[b] = hcmTotal[b]
  BY DEF Init, HcmInit, NoMovements, ReservationTypes, HcmHasRow
<1>2. ApprovalsInv
  BY <1>1 DEF ApprovalsInv, ApprovalFits
<1>3. BooksInv
  BY <1>1 DEF BooksInv, BooksFit, RequestsOn
<1> QED
  BY <1>2, <1>3

LEMMA BooksInvariance ==
  ASSUME IsFiniteSet(Requests)
  PROVE  Spec => [](AInv /\ BooksInv)
<1>1. Init => AInv /\ BooksInv
  BY FundsInit, BooksInit DEF AInv
<1>2. AInv /\ BooksInv /\ [Next]_vars => (AInv /\ BooksInv)'
  BY FundsInductive, ApprovalsKept, BooksKept DEF AInv
<1> QED
  BY <1>1, <1>2, PTL DEF Spec

\* BooksInv always holds: the books of a balance only the saga changes never drift from those
\* of the HCM by more than the one approval it has deducted and the API has not
\* (hcm-saga.processor.ts:164-210).
THEOREM BooksAgree ==
  ASSUME IsFiniteSet(Requests)
  PROVE  Spec => []BooksInv
BY BooksInvariance, PTL

(***************************************************************************)
(* What an employee is shown                                               *)
(***************************************************************************)
\* The total a balance query has read differs from the one of now by what was approved since.
ReadFits(b) ==
  OneConfirmed(b) /\ read[b] # NoRead =>
    /\ total[b] # NoRow
    /\ read[b].first = total[b] + read[b].approved
    /\ read[b].approved # 0 => \E r \in RequestsOn(b) : saga[r] # "none"

ReadsInv == \A b \in Balances : ReadFits(b)

\* No request is forgotten.
LEMMA SagaStays ==
  ASSUME TypeOK, [Next]_vars, NEW r \in Requests, saga[r] # "none"
  PROVE  saga'[r] # "none"
<1> USE DEF requestVars, QueueFrame, vars
<1>1. ASSUME NEW q, NEW st, NEW sg, transition(q, st, sg), sg # "none"
      PROVE  saga'[r] # "none"
  BY <1>1 DEF transition, TypeOK
<1>2. CASE UNCHANGED saga
  BY <1>2
<1> QED
  BY <1>1, <1>2 DEF Next, ApiStep, create, approve, reject, cancel, forceFail,
     transitionWithOutbox, startJob, QueueStep, recoverOrphan, lockExpires, redisForgets,
     BalanceStep, refreshBalance, hcmDrift, crash, RunStep, reserveCall, reserveCommit,
     failRequest, confirmCheck, confirmCall, getBalanceCall, confirmCommit, releaseCheck,
     releaseCall, compensateCommit, databaseError, endJob

LEMMA ReadWatched ==
  ASSUME AInv, BooksInv, IsFiniteSet(Requests), ReadTypes, [Next]_vars, Watch, NEW b \in Balances,
         ReadFits(b), OneConfirmed(b)', read'[b] # NoRead
  PROVE  ReadFits(b)'
<1>0. /\ TypeOK /\ total[b] \in Int \cup {NoRow}
      /\ read[b] \in {NoRead} \cup ReadRecords
      /\ \A r \in Requests : DaysOf[r] \in Nat
  BY BooksTypes DEF AInv, FInv, IInv, ReadTypes
<1>1. /\ read[b] # NoRead
      /\ read'[b] = [read[b] EXCEPT !.approved = @ + SumOf(DaysOf, ApprovedOn(b))]
  <2>1. ApprovedOn(b) = {r \in Requests : BalanceOf[r] = b /\ status[r] # "APPROVED"
                                             /\ status'[r] = "APPROVED"}
    BY DEF ApprovedOn, RequestsOn
  <2>2. read'[b] = IF read[b] = NoRead THEN NoRead
                   ELSE [read[b] EXCEPT !.approved = @ + SumOf(DaysOf, ApprovedOn(b))]
    BY <2>1 DEF Watch, SumOf
  <2> QED
    BY <2>2
<1>2. /\ OneConfirmed(b) /\ total[b] # NoRow /\ total[b] \in Int
      /\ read[b].first = total[b] + read[b].approved
      /\ read[b].approved # 0 => \E r \in RequestsOn(b) : saga[r] # "none"
  BY <1>0, <1>1, OneConfirmedBefore DEF ReadFits
<1>3. TotalFollows(b)
  BY <1>2, BooksStep DEF BooksInv
<1> DEFINE n == SumOf(DaysOf, ApprovedOn(b))
<1>4. CASE total'[b] = total[b] /\ ApprovedOn(b) = {}
  <2>1. n = 0
    BY <1>4, SumEmpty
  <2> HIDE DEF n
  <2>2. read'[b].first = read[b].first /\ read'[b].approved = read[b].approved
    BY <1>0, <1>1, <2>1 DEF ReadRecords, n
  <2> QED
    BY <1>0, <1>2, <1>4, <2>2, SagaStays DEF ReadFits, RequestsOn
<1>5. ASSUME NEW q \in RequestsOn(b), ApprovedOn(b) = {q}, saga'[q] # "none",
             total'[b] = total[b] - DaysOf[q]
      PROVE  ReadFits(b)'
  <2>1. DaysOf[q] \in Nat
    BY <1>0 DEF RequestsOn
  <2>2. n = DaysOf[q]
    BY <1>5, <2>1, SumOne
  <2> HIDE DEF n
  <2>3. /\ read'[b].first = read[b].first /\ read'[b].approved = read[b].approved + DaysOf[q]
        /\ read[b].approved \in Nat
    BY <1>0, <1>1, <2>1, <2>2 DEF ReadRecords, n
  <2>4. total'[b] # NoRow /\ read'[b].first = total'[b] + read'[b].approved
    BY <1>2, <1>5, <2>1, <2>3, HcmAssumption
  <2> QED
    BY <1>5, <2>4 DEF ReadFits
<1> QED
  BY <1>3, <1>4, <1>5 DEF TotalFollows

LEMMA ReadsKept ==
  ASSUME AInv, BooksInv, IsFiniteSet(Requests), CallsFit, ReadTypes, ReadsInv,
         [ClientNext]_clientVars
  PROVE  ReadsInv'
<1>0. [Next]_vars
  BY StepBySystem
<1>1. CASE Watch
  <2> SUFFICES ASSUME NEW b \in Balances, OneConfirmed(b)', read'[b] # NoRead
               PROVE  ReadFits(b)'
    BY DEF ReadsInv, ReadFits
  <2> QED
    BY <1>0, <1>1, ReadWatched DEF ReadsInv
<1>2. ASSUME UNCHANGED vars,
             \A b \in Balances :
               \/ read'[b] \in {read[b], NoRead}
               \/ total[b] # NoRow /\ read'[b] = [first |-> total[b], approved |-> 0]
      PROVE  ReadsInv'
  <2> SUFFICES ASSUME NEW b \in Balances, OneConfirmed(b)', read'[b] # NoRead
               PROVE  ReadFits(b)'
    BY DEF ReadsInv, ReadFits
  <2>1. UNCHANGED <<total, saga, env, rerun, hold>>
    BY <1>2 DEF vars, requestVars, historyVars, hcmVars
  <2>2. OneConfirmed(b) /\ ReadFits(b)
    BY <2>1 DEF OneConfirmed, ReadsInv
  <2>3. CASE read'[b] = read[b]
    BY <2>1, <2>2, <2>3 DEF ReadFits
  <2>4. CASE total[b] # NoRow /\ read'[b] = [first |-> total[b], approved |-> 0]
    <3>1. total[b] \in Int
      BY <2>4, BooksTypes DEF AInv, FInv, IInv
    <3> QED
      BY <2>1, <2>4, <3>1 DEF ReadFits
  <2> QED
    BY <1>2, <2>3, <2>4
<1>3. CASE \E a \in Balances : listForEmployee(a)
  BY <1>2, <1>3 DEF listForEmployee, ReadTypes
<1>4. CASE UNCHANGED <<vars, read>>
  BY <1>2, <1>4
<1>5. ASSUME NEW c \in BagToSet(calls), CallStep(c)
      PROVE  UNCHANGED <<vars, read>> \/ Watch
  BY <1>5 DEF CallStep, serveDecision, serveForceFail, serveSetup, failCall
<1>6. CASE PageStep
  BY <1>1, <1>3, <1>4, <1>6 DEF PageStep, fetchRequests, submit, seed, push, Unseen, Send,
     clickCancel, clickForceFail, clickApproveOrReject, clickSetup
<1> QED
  BY <1>1, <1>4, <1>5, <1>6 DEF ClientNext, Unseen, clientVars, pageVars

\* What the saga states say of the approvals of a balance, the holds say as well.
LEMMA OneApprovalConfirmed ==
  ASSUME AInv, NEW b, OneApproval(b)
  PROVE  OneConfirmed(b)
<1>1. ASSUME NEW r \in RequestsOn(b), hold[r] = "confirmed"
      PROVE  saga[r] \in {"COMMITTING_HCM", "TERMINAL"}
  <2>1. r \in Requests /\ ~rerun[r]
    BY DEF OneApproval, RequestsOn
  <2>2. ConfirmsOnce(r) /\ ApprovalFits(r) /\ saga[r] \in SagaStates \cup {"none"}
    BY <2>1 DEF AInv, FInv, OnceInv, ApprovalsInv, IInv, TypeOK
  <2>3. sent[r] >= 2 /\ sent[r] # 0 /\ sent[r] # 1
    BY <1>1, <2>2 DEF ConfirmsOnce
  <2>4. saga[r] \notin {"none", "RESERVING_HCM", "AWAITING_APPROVAL"}
    BY <2>1, <2>2, <2>3 DEF ConfirmsOnce, AInv, FInv, IInv, LedgerInv, EntriesFit, DecisionsFit
  <2>5. saga[r] # "COMPENSATING_HCM"
    BY <1>1, <2>2 DEF ApprovalFits, Compensations
  <2> QED
    BY <2>2, <2>4, <2>5 DEF SagaStates
<1>2. ASSUME NEW q \in RequestsOn(b), NEW r \in RequestsOn(b)
      PROVE  ~rerun[r] /\ (hold[q] = "confirmed" /\ hold[r] = "confirmed" => q = r)
  <2>1. ~rerun[r] /\ ({saga[q], saga[r]} \subseteq {"COMMITTING_HCM", "TERMINAL"} => q = r)
    BY DEF OneApproval, RequestsOn
  <2> QED
    BY <1>1, <2>1
<1> QED
  BY <1>2 DEF OneApproval, OneConfirmed

LEMMA ShownStep ==
  ASSUME AInv, BooksInv, IsFiniteSet(Requests), ReadTypes, ReadsInv, NEW b \in Balances,
         listForEmployee(b), read[b] # NoRead, OneApproval(b), ShownTypes
  PROVE  shown'[b] - Available(b) \in {0, read[b].approved}
<1> DEFINE raw == computeRawAvailable(total[b], moves, b)
           late == computeRawAvailable(read[b].first, moves, b)
           n == read[b].approved
           S == SumOf(NetDays(moves), RequestsOn(b))
<1>1. OneConfirmed(b)
  BY OneApprovalConfirmed
<1>2. /\ total[b] # NoRow /\ read[b].first = total[b] + n
      /\ n # 0 => \E r \in RequestsOn(b) : saga[r] # "none"
  BY <1>1 DEF ReadsInv, ReadFits
<1>3. total[b] \in Int /\ moves \in MoveCounts /\ n \in Nat
  BY <1>2, BooksTypes DEF AInv, FInv, IInv, ReadTypes, ReadRecords
<1>4. n # 0 => raw >= 0
  BY <1>1, <1>2 DEF BooksInv, BooksFit
<1>5. S \in Int /\ raw = total[b] + S /\ late = read[b].first + S
  BY <1>3, RawInt, RawIsSum
<1>6. /\ shown'[b] = IF late < 0 THEN 0 ELSE late
      /\ Available(b) = IF raw < 0 THEN 0 ELSE raw
  BY DEF listForEmployee, ShownTypes, Available, computeAvailable
<1> HIDE DEF raw, late, S
<1> QED
  BY <1>2, <1>3, <1>4, <1>5, <1>6

\* An employee who asks for his balance while one of his requests is being approved sees what
\* he has, or what he has and the days just approved, and nothing else: the two selects of a
\* query differ by that one commit, however the steps of the run, other requests, crashes and
\* force-fails fall between them (balances.service.ts:15-18, handleConfirm).
THEOREM ShownExplained ==
  ASSUME IsFiniteSet(Requests)
  PROVE  ClientSpec => ShownIsExplained
<1>1. ClientInit => ReadsInv
  BY DEF ClientInit, ReadsInv, ReadFits
<1>2. AInv /\ BooksInv /\ CallsFit /\ ReadTypes /\ ReadsInv /\ [ClientNext]_clientVars => ReadsInv'
  BY ReadsKept
<1>3. AInv /\ BooksInv /\ ReadTypes /\ ShownTypes /\ ReadsInv =>
        [\A b \in Balances :
           listForEmployee(b) /\ read[b] # NoRead /\ OneApproval(b) =>
             shown'[b] - Available(b) \in {0, read[b].approved}]_clientVars
  BY ShownStep
<1>4. PagesFit => ReadTypes /\ ShownTypes
  BY DEF PagesFit
<1> QED
  BY <1>1, <1>2, <1>3, <1>4, ClientImplementsSaga, BooksInvariance, CallsInvariance,
     PageTypesInvariance, PTL DEF ClientSpec, ShownIsExplained
=============================================================================
