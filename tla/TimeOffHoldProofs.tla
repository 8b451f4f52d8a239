-------------------------- MODULE TimeOffHoldProofs --------------------------
(***************************************************************************)
(* Why the hold in the HCM follows the saga although the handlers call the *)
(* HCM outside their transactions, and why all requests of a balance       *)
(* together never take more than the HCM has for it, for any number of     *)
(* requests and slots.                                                     *)
(***************************************************************************)
EXTENDS TimeOffProofs, SumTheorems

(***************************************************************************)
(* The hold of each request                                                *)
(***************************************************************************)

HInv == IInv /\ HoldsInv

\* The saga states in which some handler acts.
Acting == {"RESERVING_HCM", "COMMITTING_HCM", "COMPENSATING_HCM"}

LEMMA ActsIn ==
  ASSUME NEW ev \in EventTypes
  PROVE  /\ ExpectedState(ev) \in Acting
         /\ ExpectedState(ev) = "RESERVING_HCM" <=> ev = "RESERVE_HCM"
         /\ FirstStep(ev) \in LiveSteps
         /\ HoldAt(FirstStep(ev)) = HoldBefore(ev)
BY DEF EventTypes, Compensations, ExpectedState, FirstStep, HoldAt, HoldBefore, Acting,
       LiveSteps, ReserveSteps, ConfirmSteps, ReleaseSteps

\* The entry of a run that holds its lock.
LEMMA CalmRun ==
  ASSUME IInv, NEW w \in Workers, pc[w] # "idle", ~overlapped[RequestOf(w)]
  PROVE  /\ RequestOf(w) \in Requests
         /\ job[task[w]] = "active"
         /\ lock[task[w]] = w
         /\ \E n \in 1..MaxEntries :
              /\ task[w] = <<RequestOf(w), n>>
              /\ n <= sent[RequestOf(w)]
<1>1. task[w] \in Entries /\ RequestOf(w) \in Requests
  BY RunTypes DEF IInv
<1>2. PICK n \in 1..MaxEntries : task[w] = <<RequestOf(w), n>>
  BY <1>1 DEF Entries, RequestOf
<1>3. lock[task[w]] = w
  BY DEF IInv, LedgerInv, RunsFit
<1>4. job[task[w]] = "active"
  BY <1>1, <1>3, SagaAssumption DEF IInv, LedgerInv, LocksFit
<1>5. ~(sent[RequestOf(w)] < n)
  BY <1>1, <1>2, <1>4 DEF IInv, LedgerInv, EntriesFit
<1> QED
  BY <1>1, <1>2, <1>3, <1>4, <1>5, SentTypes DEF IInv

\* A job that is queued or over has an entry that was written.
LEMMA WrittenJob ==
  ASSUME IInv, NEW r \in Requests, NEW n \in 1..MaxEntries, job[<<r, n>>] # "none"
  PROVE  /\ n <= sent[r]
         /\ event[<<r, n>>] \in EventTypes
         /\ event[<<r, n>>] = "RESERVE_HCM" <=> n = 1
<1>1. ~(sent[r] < n) /\ event[<<r, n>>] # "none"
  BY DEF IInv, LedgerInv, EntriesFit
<1>2. event[<<r, n>>] \in EventTypes
  BY <1>1 DEF IInv, TypeOK, Entries
<1>3. event[<<r, n>>] = "RESERVE_HCM" => n = 1
  BY DEF IInv, LedgerInv, EntriesFit
<1>4. event[<<r, 1>>] \in {"none", "RESERVE_HCM"}
  BY DEF IInv, LedgerInv, EntriesFit
<1> QED
  BY <1>1, <1>2, <1>3, <1>4, SentTypes DEF IInv

\* While a run of an undisturbed request goes on no job that waits, or is over, would act.
LEMMA NoSecondJob ==
  ASSUME IInv, NEW w \in Workers, pc[w] \in LiveSteps, Undisturbed(RequestOf(w)),
         NEW n \in 1..MaxEntries, job[<<RequestOf(w), n>>] \in {"queued", "completed"}
  PROVE  saga[RequestOf(w)] # ExpectedState(event[<<RequestOf(w), n>>])
<1> DEFINE r == RequestOf(w)
<1>1. r \in Requests /\ pc[w] # "idle" /\ ~overlapped[r]
  BY RunEntry DEF Undisturbed
<1>2. PICK m \in 1..MaxEntries : task[w] = <<r, m>> /\ m <= sent[r]
  BY <1>1, CalmRun
<1>3. job[<<r, m>>] = "active"
  BY <1>1, <1>2, CalmRun
<1>4. n # m
  BY <1>3
<1>5. /\ n <= sent[r] /\ event[<<r, n>>] \in EventTypes /\ event[<<r, m>>] \in EventTypes
      /\ event[<<r, n>>] = "RESERVE_HCM" <=> n = 1
      /\ event[<<r, m>>] = "RESERVE_HCM" <=> m = 1
  BY <1>1, <1>3, WrittenJob
<1>6. sent[r] \in Nat /\ sent[r] <= 2
  BY <1>1, SentTypes DEF IInv, LedgerInv, DecisionsFit
<1>7. n = 1 <=> m # 1
  BY <1>2, <1>4, <1>5, <1>6
<1>8. saga[r] = ExpectedState(event[<<r, m>>])
  BY <1>2 DEF IInv, LedgerInv, SnapshotsFit
<1> QED
  BY <1>5, <1>7, <1>8, ActsIn

LEMMA HoldInit == Init => HoldsInv
<1> SUFFICES ASSUME Init, NEW r \in Requests PROVE HoldFits(r)
  BY DEF HoldsInv
<1>1. hold[r] = "none" /\ saga[r] = "none"
  BY DEF Init, HcmInit
<1>2. \A w \in Workers : pc[w] = "idle"
  BY DEF Init
<1>3. \A n \in 1..MaxEntries : job[<<r, n>>] = "none"
  BY DEF Init, Channel!ChannelInit, Entries
<1> QED
  BY <1>1, <1>2, <1>3 DEF HoldFits, HoldsOf

\* A step that leaves a request, its hold, its entries and its runs alone, but for runs that
\* give up and jobs that are taken or fail, keeps the hold as it should be.
LEMMA HoldKept ==
  ASSUME HInv, NEW r \in Requests, Calm(r)' => Calm(r),
         saga'[r] = saga[r], status'[r] = status[r], hold'[r] = hold[r],
         \A n \in 1..MaxEntries :
           /\ event'[<<r, n>>] = event[<<r, n>>]
           /\ job'[<<r, n>>] = job[<<r, n>>] \/ job'[<<r, n>>] \notin {"queued", "completed"},
         \A w \in Workers :
           \/ pc'[w] \in {"idle", "threw"}
           \/ RequestOf(w)' # r
           \/ pc'[w] = pc[w] /\ task'[w] = task[w]
  PROVE  Calm(r)' => HoldFits(r)'
<1> SUFFICES ASSUME Calm(r)' PROVE HoldFits(r)'
  OBVIOUS
<1>1. HoldFits(r) /\ ~overlapped[r]
  BY DEF HInv, HoldsInv, Calm, Undisturbed
<1>2. (hold[r] \in HoldsOf(r))'
  BY <1>1 DEF HoldFits, HoldsOf
<1>3. ASSUME NEW w \in Workers, pc'[w] # "idle", RequestOf(w)' = r
      PROVE  /\ pc'[w] \in LiveSteps => hold'[r] = HoldAt(pc'[w])
             /\ pc'[w] = "done" => saga'[r] # ExpectedState(event'[task'[w]])
  <2>1. CASE pc'[w] = "threw"
    BY <2>1 DEF LiveSteps, ReserveSteps, ConfirmSteps, ReleaseSteps
  <2>2. CASE pc'[w] = pc[w] /\ task'[w] = task[w]
    <3>1. RequestOf(w) = r
      BY <1>3, <2>2 DEF RequestOf
    <3>2. /\ pc[w] \in LiveSteps => hold[r] = HoldAt(pc[w])
          /\ pc[w] = "done" => saga[r] # ExpectedState(event[task[w]])
      BY <1>1, <1>3, <2>2, <3>1 DEF HoldFits
    <3>3. pc[w] # "idle" /\ ~overlapped[RequestOf(w)]
      BY <1>1, <1>3, <2>2, <3>1
    <3>4. PICK n \in 1..MaxEntries : task[w] = <<RequestOf(w), n>>
      BY <3>3, CalmRun DEF HInv
    <3>5. event'[task[w]] = event[task[w]]
      BY <3>1, <3>4
    <3> QED
      BY <2>2, <3>2, <3>5
  <2> QED
    BY <1>3, <2>1, <2>2
<1> QED
  BY <1>1, <1>2, <1>3 DEF HoldFits

\* A step of a run under way that may change the saga and the hold of its own request.
LEMMA HoldRunStep ==
  ASSUME HInv, NEW w \in Workers, pc[w] \in LiveSteps,
         NEW step, step # "idle", pc' = [pc EXCEPT ![w] = step],
         UNCHANGED <<task, event, job, forced, overlapped, rerun>>,
         \A q \in Requests : q # RequestOf(w) =>
           saga'[q] = saga[q] /\ status'[q] = status[q] /\ hold'[q] = hold[q],
         Calm(RequestOf(w)) =>
           /\ (hold[RequestOf(w)] \in HoldsOf(RequestOf(w)))'
           /\ step \in LiveSteps => hold'[RequestOf(w)] = HoldAt(step)
           /\ step = "done" => saga'[RequestOf(w)] \notin Acting
           /\ saga'[RequestOf(w)] \in {saga[RequestOf(w)]} \cup (SagaStates \ Acting)
  PROVE  HoldsInv'
<1> DEFINE r == RequestOf(w)
<1>1. /\ \A x \in Workers : pc'[x] = IF x = w THEN step ELSE pc[x]
      /\ \A x \in Workers : RequestOf(x)' = RequestOf(x)
      /\ \A q \in Requests : Calm(q)' = Calm(q)
  BY DEF HInv, IInv, TypeOK, RequestOf, Calm, Undisturbed
<1>2. ASSUME NEW q \in Requests, q # r PROVE Calm(q)' => HoldFits(q)'
  <2>1. \A x \in Workers : RequestOf(x)' # q \/ (pc'[x] = pc[x] /\ task'[x] = task[x])
    BY <1>1, <1>2
  <2> QED
    BY <1>1, <1>2, <2>1, HoldKept
<1>3. ASSUME r \in Requests, Calm(r) PROVE HoldFits(r)'
  <2>1. HoldFits(r) /\ Undisturbed(r)
    BY <1>3 DEF HInv, HoldsInv, Calm
  <2>2. ASSUME NEW x \in Workers, pc'[x] # "idle", RequestOf(x) = r
        PROVE  /\ pc'[x] \in LiveSteps => hold'[r] = HoldAt(pc'[x])
               /\ pc'[x] = "done" => saga'[r] # ExpectedState(event[task[x]])
    <3>1. CASE x = w
      <4>1. event[task[w]] \in EventTypes
        BY RunEntry DEF HInv
      <4> QED
        BY <1>1, <1>3, <3>1, <4>1, ActsIn
    <3>2. CASE x # w
      <4>1. pc'[x] = pc[x] /\ pc[x] \notin LiveSteps
        BY <1>1, <2>1, <2>2, <3>2, AloneUndisturbed DEF HInv
      <4>2. pc[x] = "done" => saga[r] # ExpectedState(event[task[x]])
        BY <2>1, <2>2, <4>1 DEF HoldFits
      <4>3. job[task[x]] = "active" /\ \E n \in 1..MaxEntries : task[x] = <<r, n>>
        BY <2>1, <2>2, <4>1, CalmRun DEF HInv, Undisturbed
      <4>4. event[task[x]] \in EventTypes
        BY <1>3, <4>3, WrittenJob DEF HInv
      <4> QED
        BY <1>3, <4>1, <4>2, <4>4, ActsIn
    <3> QED
      BY <3>1, <3>2
  <2>3. ASSUME NEW n \in 1..MaxEntries, job[<<r, n>>] \in {"queued", "completed"}
        PROVE  saga'[r] # ExpectedState(event[<<r, n>>])
    <3>1. event[<<r, n>>] \in EventTypes
      BY <1>3, <2>3, WrittenJob DEF HInv
    <3>2. saga[r] # ExpectedState(event[<<r, n>>])
      BY <2>1, <2>3, NoSecondJob DEF HInv
    <3> QED
      BY <1>3, <3>1, <3>2, ActsIn
  <2> QED
    BY <1>1, <1>3, <2>2, <2>3 DEF HoldFits
<1> QED
  BY <1>1, <1>2, <1>3 DEF HoldsInv

\* A run under way leaves the requests of the others alone.
LEMMA HoldQuietRun ==
  ASSUME HInv, NEW w \in Workers, pc[w] \in LiveSteps,
         NEW step, step \in LiveSteps \/ step = "threw", pc' = [pc EXCEPT ![w] = step],
         UNCHANGED <<task, event, job, forced, overlapped, rerun, saga, status, hold>>,
         Calm(RequestOf(w)) => step = "threw" \/ HoldAt(step) = HoldAt(pc[w])
  PROVE  HoldsInv'
<1> DEFINE r == RequestOf(w)
<1>1. r \in Requests
  BY RunEntry DEF HInv
<1>2. ASSUME Calm(r)
      PROVE  (hold[r] \in HoldsOf(r))' /\ (step \in LiveSteps => hold'[r] = HoldAt(step))
  <2>1. HoldFits(r) /\ pc[w] # "idle"
    BY <1>1, <1>2 DEF HInv, HoldsInv, LiveSteps, ReserveSteps, ConfirmSteps, ReleaseSteps
  <2>2. (hold[r] \in HoldsOf(r))'
    <3>1. HoldsOf(r)' = HoldsOf(r)
      BY DEF HoldsOf, RequestOf
    <3> QED
      BY <2>1, <3>1 DEF HoldFits, RequestOf
  <2>3. hold[r] = HoldAt(pc[w])
    BY <2>1 DEF HoldFits
  <2>4. "threw" \notin LiveSteps
    BY DEF LiveSteps, ReserveSteps, ConfirmSteps, ReleaseSteps
  <2> QED
    BY <1>2, <2>2, <2>3, <2>4
<1>3. step # "idle" /\ step # "done"
  BY DEF LiveSteps, ReserveSteps, ConfirmSteps, ReleaseSteps
<1> QED
  BY <1>2, <1>3, HoldRunStep

\* What a run of an undisturbed request knows.
LEMMA CalmStep ==
  ASSUME HInv, NEW w \in Workers, pc[w] \in LiveSteps, Calm(RequestOf(w))
  PROVE  /\ hold[RequestOf(w)] = HoldAt(pc[w])
         /\ pc[w] \in ReserveSteps => saga[RequestOf(w)] = "RESERVING_HCM"
         /\ pc[w] \in ConfirmSteps => saga[RequestOf(w)] = "COMMITTING_HCM"
         /\ pc[w] \in ReleaseSteps => saga[RequestOf(w)] = "COMPENSATING_HCM"
         /\ moves[RequestOf(w)]["CONFIRMED"] = 0
         /\ moves[RequestOf(w)]["CANCELLED"] = 0
<1> DEFINE r == RequestOf(w)
<1>1. r \in Requests /\ event[task[w]] \in EventTypes /\ pc[w] # "idle"
  BY RunEntry DEF HInv
<1>2. HoldFits(r) /\ Undisturbed(r)
  BY <1>1 DEF HInv, HoldsInv, Calm
<1>3. saga[r] = ExpectedState(event[task[w]])
  BY <1>2 DEF HInv, IInv, LedgerInv, SnapshotsFit
<1>4. StepFits(pc[w], event[task[w]])
  BY <1>1 DEF HInv, IInv, LedgerInv, RunsFit
<1>5. /\ pc[w] \in ReserveSteps => saga[r] = "RESERVING_HCM"
      /\ pc[w] \in ConfirmSteps => saga[r] = "COMMITTING_HCM"
      /\ pc[w] \in ReleaseSteps => saga[r] = "COMPENSATING_HCM"
  BY <1>3, <1>4 DEF StepFits, ExpectedState, Compensations
<1>6. saga[r] # "TERMINAL"
  BY <1>5 DEF LiveSteps
<1>7. status[r] # "APPROVED"
  BY <1>1, <1>6 DEF HInv, IInv, LedgerInv, StatusMatchesSaga, TerminalStatuses, RequestStatuses
<1>8. moves[r]["CONFIRMED"] = 0 /\ moves[r]["CANCELLED"] = 0
  BY <1>1, <1>2, <1>6, <1>7 DEF HInv, IInv, LedgerInv, LedgerBalanced, Count
<1> QED
  BY <1>1, <1>2, <1>5, <1>8 DEF HoldFits

\* A run that writes the request, having left the hold as the new state wants it.
LEMMA HoldCommit ==
  ASSUME HInv, NEW w \in Workers, pc[w] \in LiveSteps, pc' = [pc EXCEPT ![w] = "done"],
         NEW st \in RequestStatuses, NEW sg \in SagaStates \ Acting,
         transition(RequestOf(w), st, sg),
         UNCHANGED <<task, event, job, forced, overlapped, rerun, hold>>,
         \/ HoldAt(pc[w]) = "held" /\ sg = "AWAITING_APPROVAL"
         \/ HoldAt(pc[w]) = "confirmed" /\ sg = "TERMINAL" /\ st = "APPROVED"
         \/ HoldAt(pc[w]) = "none" /\ sg = "TERMINAL" /\ st # "APPROVED"
  PROVE  HoldsInv'
<1> DEFINE r == RequestOf(w)
<1>1. r \in Requests
  BY RunEntry DEF HInv
<1>2. /\ \A q \in Requests : saga'[q] = IF q = r THEN sg ELSE saga[q]
      /\ \A q \in Requests : status'[q] = IF q = r THEN st ELSE status[q]
  BY <1>1 DEF transition, HInv, IInv, TypeOK
<1>3. RequestOf(w)' = r
  BY DEF RequestOf
<1>4. ASSUME Calm(r) PROVE (hold[RequestOf(w)] \in HoldsOf(RequestOf(w)))'
  <2>1. hold[r] = HoldAt(pc[w])
    BY <1>4, CalmStep
  <2> QED
    BY <1>1, <1>2, <1>3, <2>1 DEF HoldsOf
<1>5. "done" \notin LiveSteps /\ "done" # "idle"
  BY DEF LiveSteps, ReserveSteps, ConfirmSteps, ReleaseSteps
<1> QED
  BY <1>1, <1>2, <1>4, <1>5, HoldRunStep

\* A call of the HCM by a run: the hold of its request is h afterwards.
LEMMA HoldCall ==
  ASSUME HInv, NEW w \in Workers, pc[w] \in LiveSteps,
         NEW step, step \in LiveSteps \/ step = "threw", pc' = [pc EXCEPT ![w] = step],
         UNCHANGED <<task, event, job, forced, overlapped, rerun, saga, status>>,
         NEW h, hold' = [hold EXCEPT ![RequestOf(w)] = h],
         Calm(RequestOf(w)) =>
           h \in HoldsOf(RequestOf(w)) /\ (step \in LiveSteps => h = HoldAt(step))
  PROVE  HoldsInv'
<1> DEFINE r == RequestOf(w)
<1>1. r \in Requests
  BY RunEntry DEF HInv
<1>2. \A q \in Requests : hold'[q] = IF q = r THEN h ELSE hold[q]
  BY DEF HInv, IInv, TypeOK, HcmTypeOK
<1>3. ASSUME Calm(r)
      PROVE  (hold[RequestOf(w)] \in HoldsOf(RequestOf(w)))'
             /\ (step \in LiveSteps => hold'[r] = HoldAt(step))
  <2>1. RequestOf(w)' = r /\ HoldsOf(r)' = HoldsOf(r)
    BY DEF RequestOf, HoldsOf
  <2>2. HoldsOf(RequestOf(w))' = HoldsOf(r)
    BY DEF RequestOf, HoldsOf
  <2> QED
    BY <1>1, <1>2, <1>3, <2>1, <2>2
<1>4. step # "idle" /\ step # "done"
  BY DEF LiveSteps, ReserveSteps, ConfirmSteps, ReleaseSteps
<1> QED
  BY <1>2, <1>3, <1>4, HoldRunStep

\* The calls that may change a hold.
LEMMA HoldReserveCall ==
  ASSUME HInv, NEW w \in Workers, reserveCall(w)
  PROVE  HoldsInv'
<1> DEFINE r == RequestOf(w)
<1>1. PICK reply \in Replies, got \in Replies :
        /\ HcmReserve(r, reply) /\ Received(reply, got)
        /\ GoTo(w, IF got = "ok" THEN "reserved"
                  ELSE IF got \in {"INSUFFICIENT_BALANCE", "INVALID_DIMENSION"} THEN "refused"
                  ELSE "threw")
  BY DEF reserveCall
<1> DEFINE step == IF got = "ok" THEN "reserved"
                   ELSE IF got \in {"INSUFFICIENT_BALANCE", "INVALID_DIMENSION"} THEN "refused"
                   ELSE "threw"
<1>2. /\ pc[w] = "reserve" /\ pc[w] \in LiveSteps
      /\ step \in LiveSteps \/ step = "threw"
      /\ pc' = [pc EXCEPT ![w] = step]
      /\ UNCHANGED <<task, event, job, forced, overlapped, rerun, saga, status>>
  BY <1>1 DEF reserveCall, GoTo, RunFrame, outboxVars, channelVars, historyVars, requestVars,
     LiveSteps, ReserveSteps
<1>3. r \in Requests /\ hold \in [Requests -> {"none", "held", "confirmed"}]
  BY <1>2, RunEntry DEF HInv, IInv, TypeOK, HcmTypeOK
<1>4. Calm(r) => hold[r] = "none" /\ saga[r] = "RESERVING_HCM"
  BY <1>2, CalmStep DEF HoldAt, ReserveSteps
<1>5. CASE reply # "ok"
  <2>1. UNCHANGED hold
    BY <1>1, <1>5 DEF HcmReserve, HcmIsDown, hcmVars
  <2>2. step \in {"refused", "threw"}
    BY <1>1, <1>5 DEF Received
  <2>3. Calm(r) => step = "threw" \/ HoldAt(step) = HoldAt(pc[w])
    BY <1>2, <2>2 DEF HoldAt
  <2> HIDE DEF step
  <2> QED
    BY <1>2, <2>1, <2>3, HoldQuietRun
<1>6. CASE reply = "ok"
  <2>1. hold' = [hold EXCEPT ![r] = "held"]
    BY <1>1, <1>6 DEF HcmReserve, HcmIsDown
  <2>2. step \in {"reserved", "threw"}
    BY <1>1, <1>6 DEF Received
  <2>3. Calm(r) => "held" \in HoldsOf(r) /\ (step \in LiveSteps => "held" = HoldAt(step))
    BY <1>4, <2>2 DEF HoldsOf, HoldAt, LiveSteps, ReserveSteps, ConfirmSteps, ReleaseSteps
  <2> HIDE DEF step
  <2> QED
    BY <1>2, <2>1, <2>3, HoldCall
<1> QED
  BY <1>5, <1>6

LEMMA HoldConfirmCall ==
  ASSUME HInv, NEW w \in Workers, confirmCall(w)
  PROVE  HoldsInv'
<1> DEFINE r == RequestOf(w)
<1>1. PICK reply \in Replies, got \in Replies :
        /\ HcmConfirm(r, reply) /\ Received(reply, got)
        /\ GoTo(w, IF got = "ok" THEN "getBalance" ELSE "threw")
  BY DEF confirmCall
<1> DEFINE step == IF got = "ok" THEN "getBalance" ELSE "threw"
<1>2. /\ pc[w] = "confirm" /\ pc[w] \in LiveSteps
      /\ step \in LiveSteps \/ step = "threw"
      /\ pc' = [pc EXCEPT ![w] = step]
      /\ UNCHANGED <<task, event, job, forced, overlapped, rerun, saga, status>>
  BY <1>1 DEF confirmCall, GoTo, RunFrame, outboxVars, channelVars, historyVars, requestVars,
     LiveSteps, ConfirmSteps
<1>3. Calm(r) => saga[r] = "COMMITTING_HCM"
  BY <1>2, CalmStep DEF ConfirmSteps
<1>4. CASE UNCHANGED hold /\ reply # "ok"
  <2>1. step = "threw"
    BY <1>1, <1>4 DEF Received
  <2> HIDE DEF step
  <2> QED
    BY <1>2, <1>4, <2>1, HoldQuietRun
<1>5. CASE hold' = [hold EXCEPT ![r] = "confirmed"]
  <2>1. Calm(r) => "confirmed" \in HoldsOf(r) /\ (step \in LiveSteps => "confirmed" = HoldAt(step))
    BY <1>3 DEF HoldsOf, HoldAt, LiveSteps, ReserveSteps, ConfirmSteps, ReleaseSteps
  <2> HIDE DEF step
  <2> QED
    BY <1>2, <1>5, <2>1, HoldCall
<1> QED
  BY <1>1, <1>4, <1>5 DEF HcmConfirm, HcmIsDown, hcmVars

LEMMA HoldReleaseCall ==
  ASSUME HInv, NEW w \in Workers, releaseCall(w)
  PROVE  HoldsInv'
<1> DEFINE r == RequestOf(w)
<1>1. PICK reply \in Replies, got \in Replies :
        /\ HcmRelease(r, reply) /\ Received(reply, got)
        /\ GoTo(w, IF got = "unavailable" THEN "threw" ELSE "released")
  BY DEF releaseCall
<1> DEFINE step == IF got = "unavailable" THEN "threw" ELSE "released"
<1>2. /\ pc[w] = "release" /\ pc[w] \in LiveSteps
      /\ step \in LiveSteps \/ step = "threw"
      /\ pc' = [pc EXCEPT ![w] = step]
      /\ UNCHANGED <<task, event, job, forced, overlapped, rerun, saga, status>>
  BY <1>1 DEF releaseCall, GoTo, RunFrame, outboxVars, channelVars, historyVars, requestVars,
     LiveSteps, ReleaseSteps
<1>3. Calm(r) => saga[r] = "COMPENSATING_HCM"
  BY <1>2, CalmStep DEF ReleaseSteps
<1>4. CASE UNCHANGED hold /\ reply = "unavailable"
  <2>1. step = "threw"
    BY <1>1, <1>4 DEF Received
  <2> HIDE DEF step
  <2> QED
    BY <1>2, <1>4, <2>1, HoldQuietRun
<1>5. CASE hold' = [hold EXCEPT ![r] = "none"]
  <2>1. Calm(r) => "none" \in HoldsOf(r) /\ (step \in LiveSteps => "none" = HoldAt(step))
    BY <1>3 DEF HoldsOf, HoldAt, LiveSteps, ReserveSteps, ConfirmSteps, ReleaseSteps
  <2> HIDE DEF step
  <2> QED
    BY <1>2, <1>5, <2>1, HoldCall
<1> QED
  BY <1>1, <1>4, <1>5 DEF HcmRelease, HcmIsDown, hcmVars

\* A job that ends well has moved its saga on.
LEMMA HoldEnd ==
  ASSUME HInv, NEW w \in Workers, endJob(w)
  PROVE  HoldsInv'
<1> SUFFICES ASSUME NEW r \in Requests, Calm(r) PROVE HoldFits(r)'
  BY DEF endJob, historyVars, HoldsInv, Calm, Undisturbed
<1> DEFINE o == IF pc[w] = "done" THEN "completed" ELSE "failed"
<1>1. /\ task[w] \in Entries
      /\ \A e \in Entries : job'[e] = IF e = task[w] /\ lock[task[w]] = w THEN o ELSE job[e]
      /\ \A x \in Workers : pc'[x] = IF x = w THEN "idle" ELSE pc[x]
      /\ \A x \in Workers : x # w => task'[x] = task[x]
      /\ UNCHANGED <<saga, status, hold, event, forced, overlapped, rerun>>
  BY RunTypes DEF endJob, Channel!Settle, HInv, IInv, TypeOK, Channel!ChannelTypeOK,
     requestVars, historyVars, hcmVars
<1>2. Calm(r)' => Calm(r)
  BY <1>1 DEF Calm, Undisturbed
<1>3. HoldFits(r)
  BY DEF HInv, HoldsInv
<1>4. CASE RequestOf(w) # r \/ pc[w] # "done"
  <2>1. ASSUME NEW n \in 1..MaxEntries
        PROVE  job'[<<r, n>>] = job[<<r, n>>] \/ job'[<<r, n>>] \notin {"queued", "completed"}
    <3>1. <<r, n>> \in Entries /\ (<<r, n>> = task[w] => RequestOf(w) = r)
      BY DEF Entries, RequestOf
    <3> QED
      BY <1>1, <1>4, <3>1
  <2>2. \A n \in 1..MaxEntries : event'[<<r, n>>] = event[<<r, n>>]
    BY <1>1
  <2>3. \A x \in Workers : pc'[x] \in {"idle", "threw"} \/ (pc'[x] = pc[x] /\ task'[x] = task[x])
    BY <1>1
  <2>4. Calm(r)'
    BY <1>1 DEF Calm, Undisturbed
  <2> QED
    BY <1>1, <1>2, <2>1, <2>2, <2>3, <2>4, HoldKept
<1>5. CASE RequestOf(w) = r /\ pc[w] = "done"
  <2>1. saga[r] # ExpectedState(event[task[w]])
    BY <1>3, <1>5 DEF HoldFits
  <2>2. ASSUME NEW n \in 1..MaxEntries, job'[<<r, n>>] \in {"queued", "completed"},
               saga[r] = ExpectedState(event[<<r, n>>])
        PROVE  job'[<<r, n>>] = "queued" /\ hold[r] = HoldBefore(event[<<r, n>>])
    <3>1. <<r, n>> # task[w] /\ <<r, n>> \in Entries
      BY <2>1, <2>2 DEF Entries
    <3>2. job'[<<r, n>>] = job[<<r, n>>]
      BY <1>1, <3>1
    <3> QED
      BY <1>3, <2>2, <3>2 DEF HoldFits
  <2>3. ASSUME NEW x \in Workers, pc'[x] # "idle", RequestOf(x)' = r
        PROVE  /\ pc'[x] \in LiveSteps => hold[r] = HoldAt(pc'[x])
               /\ pc'[x] = "done" => saga[r] # ExpectedState(event[task'[x]])
    <3>1. pc'[x] = pc[x] /\ task'[x] = task[x] /\ RequestOf(x) = r
      BY <1>1, <2>3 DEF RequestOf
    <3> QED
      BY <1>3, <2>3, <3>1 DEF HoldFits
  <2>4. (hold[r] \in HoldsOf(r))'
    BY <1>1, <1>3 DEF HoldFits, HoldsOf
  <2> QED
    BY <1>1, <2>2, <2>3, <2>4 DEF HoldFits
<1> QED
  BY <1>4, <1>5

LEMMA HoldRun ==
  ASSUME HInv, NEW w \in Workers, RunStep(w)
  PROVE  HoldsInv'
<1> USE DEF RunFrame, outboxVars, channelVars, historyVars, requestVars, hcmVars, GoTo
<1> DEFINE r == RequestOf(w)
<1>1. CASE reserveCall(w) \/ confirmCall(w) \/ releaseCall(w)
  BY <1>1, HoldReserveCall, HoldConfirmCall, HoldReleaseCall
<1>2. ASSUME NEW step \in LiveSteps \cup {"threw"}, pc[w] \in LiveSteps,
             pc' = [pc EXCEPT ![w] = step], UNCHANGED <<task, requestVars, hold>>, RunFrame,
             Calm(r) => step = "threw" \/ HoldAt(step) = HoldAt(pc[w])
      PROVE  HoldsInv'
  BY <1>2, HoldQuietRun
<1>3. CASE confirmCheck(w)
  <2>1. PICK step \in {"getBalance", "confirm"} :
          /\ pc' = [pc EXCEPT ![w] = step]
          /\ step = "getBalance" => moves[r]["CONFIRMED"] > 0
    BY <1>3 DEF confirmCheck
  <2>2. pc[w] = "confirmCheck" /\ pc[w] \in LiveSteps /\ step \in LiveSteps \cup {"threw"}
    BY <1>3, <2>1 DEF confirmCheck, LiveSteps, ConfirmSteps
  <2>3. Calm(r) => step = "threw" \/ HoldAt(step) = HoldAt(pc[w])
    BY <2>1, <2>2, CalmStep DEF HoldAt
  <2> QED
    BY <1>2, <1>3, <2>1, <2>2, <2>3 DEF confirmCheck
<1>4. CASE releaseCheck(w)
  <2>1. PICK step \in {"released", "release"} :
          /\ pc' = [pc EXCEPT ![w] = step]
          /\ step = "released" => moves[r]["CANCELLED"] > 0
    BY <1>4 DEF releaseCheck
  <2>2. pc[w] = "releaseCheck" /\ pc[w] \in LiveSteps /\ step \in LiveSteps \cup {"threw"}
    BY <1>4, <2>1 DEF releaseCheck, LiveSteps, ReleaseSteps
  <2>3. Calm(r) => step = "threw" \/ HoldAt(step) = HoldAt(pc[w])
    BY <2>1, <2>2, CalmStep DEF HoldAt
  <2> QED
    BY <1>2, <1>4, <2>1, <2>2, <2>3 DEF releaseCheck
<1>5. CASE getBalanceCall(w)
  <2>1. PICK step \in {"commit", "threw"} : pc' = [pc EXCEPT ![w] = step]
    BY <1>5 DEF getBalanceCall
  <2>2. /\ pc[w] = "getBalance" /\ pc[w] \in LiveSteps /\ step \in LiveSteps \cup {"threw"}
        /\ UNCHANGED <<task, requestVars, hold>> /\ RunFrame
    BY <1>5, <2>1 DEF getBalanceCall, HcmGetBalance, HcmIsDown, LiveSteps, ConfirmSteps
  <2>3. step = "threw" \/ HoldAt(step) = HoldAt(pc[w])
    BY <2>1, <2>2 DEF HoldAt
  <2> QED
    BY <1>2, <2>1, <2>2, <2>3
<1>6. CASE databaseError(w)
  <2>1. pc[w] \in LiveSteps
    BY <1>6 DEF databaseError, LiveSteps, ReserveSteps, ConfirmSteps, ReleaseSteps
  <2> QED
    BY <1>2, <1>6, <2>1 DEF databaseError
<1>7. CASE reserveCommit(w)
  <2>1. pc[w] = "reserved" /\ pc[w] \in LiveSteps /\ HoldAt(pc[w]) = "held"
    BY <1>7 DEF reserveCommit, LiveSteps, ReserveSteps, HoldAt
  <2>2. CASE pc' = [pc EXCEPT ![w] = "threw"] /\ UNCHANGED requestVars
    BY <1>2, <1>7, <2>1, <2>2 DEF reserveCommit
  <2>3. CASE /\ pc' = [pc EXCEPT ![w] = "done"]
             /\ transition(r, "PENDING_APPROVAL", "AWAITING_APPROVAL")
    BY <1>7, <2>1, <2>3, HoldCommit DEF reserveCommit, RequestStatuses, SagaStates, Acting
  <2> QED
    BY <1>7, <2>2, <2>3 DEF reserveCommit
<1>8. CASE failRequest(w)
  <2>1. pc[w] = "refused" /\ pc[w] \in LiveSteps /\ HoldAt(pc[w]) = "none"
    BY <1>8 DEF failRequest, LiveSteps, ReserveSteps, HoldAt
  <2> QED
    BY <1>8, <2>1, HoldCommit DEF failRequest, RequestStatuses, SagaStates, Acting
<1>9. CASE confirmCommit(w)
  <2>1. pc[w] = "commit" /\ pc[w] \in LiveSteps /\ HoldAt(pc[w]) = "confirmed"
    BY <1>9 DEF confirmCommit, LiveSteps, ConfirmSteps, HoldAt
  <2>2. CASE pc' = [pc EXCEPT ![w] = "threw"] /\ UNCHANGED requestVars
    BY <1>2, <1>9, <2>1, <2>2 DEF confirmCommit
  <2>3. CASE pc' = [pc EXCEPT ![w] = "done"] /\ transition(r, "APPROVED", "TERMINAL")
    BY <1>9, <2>1, <2>3, HoldCommit DEF confirmCommit, RequestStatuses, SagaStates, Acting
  <2> QED
    BY <1>9, <2>2, <2>3 DEF confirmCommit
<1>10. CASE compensateCommit(w)
  <2>1. pc[w] = "released" /\ pc[w] \in LiveSteps /\ HoldAt(pc[w]) = "none"
    BY <1>10 DEF compensateCommit, LiveSteps, ReleaseSteps, HoldAt
  <2>2. IntendedStatus(event[task[w]]) \in RequestStatuses
        /\ IntendedStatus(event[task[w]]) # "APPROVED"
    BY DEF IntendedStatus, RequestStatuses
  <2> QED
    BY <1>10, <2>1, <2>2, HoldCommit DEF compensateCommit, SagaStates, Acting
<1>11. CASE endJob(w)
  BY <1>11, HoldEnd
<1> QED
  BY <1>1, <1>3, <1>4, <1>5, <1>6, <1>7, <1>8, <1>9, <1>10, <1>11 DEF RunStep

LEMMA HoldStart ==
  ASSUME HInv, NEW w \in Workers, NEW e \in Entries, startJob(w, e)
  PROVE  HoldsInv'
<1> SUFFICES ASSUME NEW r \in Requests, Calm(r), Calm(r)' PROVE HoldFits(r)'
  BY DEF startJob, historyVars, HoldsInv, Calm, Undisturbed
<1> DEFINE first == IF saga[e[1]] = ExpectedState(event[e]) THEN FirstStep(event[e]) ELSE "done"
<1>1. /\ \A f \in Entries : job'[f] = IF f = e THEN "active" ELSE job[f]
      /\ \A x \in Workers : pc'[x] = IF x = w THEN first ELSE pc[x]
      /\ \A x \in Workers : task'[x] = IF x = w THEN e ELSE task[x]
      /\ job[e] = "queued"
      /\ UNCHANGED <<saga, status, hold, event>>
  BY DEF startJob, Channel!Take, HInv, IInv, TypeOK, Channel!ChannelTypeOK,
     requestVars, hcmVars
<1> HIDE DEF first
<1>2. \A n \in 1..MaxEntries :
        job'[<<r, n>>] = job[<<r, n>>] \/ job'[<<r, n>>] \notin {"queued", "completed"}
  BY <1>1 DEF Entries
<1>3. CASE e[1] # r
  <2>1. \A x \in Workers : RequestOf(x)' # r \/ (pc'[x] = pc[x] /\ task'[x] = task[x])
    BY <1>1, <1>3 DEF RequestOf
  <2> QED
    BY <1>1, <1>2, <2>1, HoldKept
<1>4. CASE e[1] = r
  <2>1. HoldFits(r)
    BY DEF HInv, HoldsInv
  <2>2. PICK n \in 1..MaxEntries : e = <<r, n>>
    BY <1>4 DEF Entries
  <2>3. event[e] \in EventTypes
    BY <1>1, <2>2, WrittenJob DEF HInv
  <2>4. first \in LiveSteps => saga[r] = ExpectedState(event[e]) /\ first = FirstStep(event[e])
    BY <1>4 DEF first, LiveSteps, ReserveSteps, ConfirmSteps, ReleaseSteps
  <2>5. first = "done" => saga[r] # ExpectedState(event[e])
    <3>1. FirstStep(event[e]) # "done"
      BY <2>3, ActsIn DEF LiveSteps, ReserveSteps, ConfirmSteps, ReleaseSteps
    <3> QED
      BY <1>4, <3>1 DEF first
  <2>6. first \in LiveSteps => hold[r] = HoldAt(first)
    <3> SUFFICES ASSUME first \in LiveSteps PROVE hold[r] = HoldAt(first)
      OBVIOUS
    <3>1. hold[r] = HoldBefore(event[e])
      BY <1>1, <2>1, <2>2, <2>4 DEF HoldFits
    <3> QED
      BY <2>3, <2>4, <3>1, ActsIn
  <2>7. ASSUME NEW x \in Workers, pc'[x] # "idle", RequestOf(x)' = r
        PROVE  /\ pc'[x] \in LiveSteps => hold[r] = HoldAt(pc'[x])
               /\ pc'[x] = "done" => saga[r] # ExpectedState(event[task'[x]])
    <3>1. CASE x = w
      BY <1>1, <2>5, <2>6, <3>1
    <3>2. CASE x # w
      <4>1. pc'[x] = pc[x] /\ task'[x] = task[x] /\ RequestOf(x) = r
        BY <1>1, <2>7, <3>2 DEF RequestOf
      <4> QED
        BY <2>1, <2>7, <4>1 DEF HoldFits
    <3> QED
      BY <3>1, <3>2
  <2>8. (hold[r] \in HoldsOf(r))'
    BY <1>1, <2>1 DEF HoldFits, HoldsOf
  <2>9. ASSUME NEW m \in 1..MaxEntries, job'[<<r, m>>] \in {"queued", "completed"},
               saga[r] = ExpectedState(event[<<r, m>>])
        PROVE  job'[<<r, m>>] = "queued" /\ hold[r] = HoldBefore(event[<<r, m>>])
    <3>1. job'[<<r, m>>] = job[<<r, m>>]
      BY <1>2, <2>9
    <3> QED
      BY <2>1, <2>9, <3>1 DEF HoldFits
  <2> QED
    BY <1>1, <2>7, <2>8, <2>9 DEF HoldFits
<1> QED
  BY <1>3, <1>4

\* Writing an entry leaves the other requests alone.
LEMMA HoldEnqueue ==
  ASSUME HInv, NEW r \in Requests, NEW ev, enqueueInTx(r, ev),
         NEW st, NEW sg, transition(r, st, sg),
         UNCHANGED <<pc, task, hold, forced, overlapped, rerun>>,
         Calm(r) => HoldFits(r)'
  PROVE  HoldsInv'
<1> SUFFICES ASSUME NEW q \in Requests, Calm(q)' PROVE HoldFits(q)'
  BY DEF HoldsInv
<1>1. Calm(q)
  BY DEF Calm, Undisturbed
<1>2. CASE q = r
  BY <1>1, <1>2
<1>3. CASE q # r
  <2>1. saga'[q] = saga[q] /\ status'[q] = status[q]
    BY <1>3 DEF transition, HInv, IInv, TypeOK
  <2>2. \A n \in 1..MaxEntries :
          event'[<<q, n>>] = event[<<q, n>>] /\ job'[<<q, n>>] = job[<<q, n>>]
    <3>1. \A n \in 1..MaxEntries : <<q, n>> \in Entries /\ <<q, n>> # <<r, sent[r] + 1>>
      BY <1>3 DEF Entries
    <3> QED
      BY <3>1, NextEntry DEF HInv
  <2> QED
    BY <1>1, <2>1, <2>2, HoldKept
<1> QED
  BY <1>2, <1>3

LEMMA HoldCreate ==
  ASSUME HInv, NEW r \in Requests, create(r)
  PROVE  HoldsInv'
<1>1. saga[r] = "none" /\ sent[r] = 0
  BY DEF create, HInv, IInv, LedgerInv, EntriesFit
<1>2. /\ enqueueInTx(r, "RESERVE_HCM")
      /\ transition(r, "PENDING_APPROVAL", "RESERVING_HCM")
      /\ UNCHANGED <<pc, task, hold, forced, overlapped, rerun>>
  BY DEF create, runVars, historyVars, hcmVars
<1>3. ASSUME Calm(r) PROVE HoldFits(r)'
  <2>1. hold'[r] = "none" /\ saga'[r] = "RESERVING_HCM"
    BY <1>1, <1>2, <1>3 DEF HInv, HoldsInv, HoldFits, HoldsOf, transition, IInv, TypeOK
  <2>2. \A w \in Workers : pc'[w] # "idle" => RequestOf(w)' # r
    <3> SUFFICES ASSUME NEW w \in Workers, pc[w] # "idle", RequestOf(w) = r PROVE FALSE
      BY <1>2 DEF RequestOf
    <3>1. ~overlapped[RequestOf(w)]
      BY <1>3 DEF Calm, Undisturbed
    <3>2. PICK n \in 1..MaxEntries : n <= sent[r]
      BY <3>1, CalmRun DEF HInv
    <3> QED
      BY <1>1, <3>2
  <2>3. ASSUME NEW n \in 1..MaxEntries, job'[<<r, n>>] \in {"queued", "completed"}
        PROVE  job'[<<r, n>>] = "queued" /\ event'[<<r, n>>] = "RESERVE_HCM"
    <3>1. <<r, n>> \in Entries
      BY DEF Entries
    <3>2. job[<<r, n>>] = "none"
      <4>1. sent[r] < n
        BY <1>1, SagaAssumption
      <4> QED
        BY <4>1 DEF HInv, IInv, LedgerInv, EntriesFit
    <3>3. \A e \in Entries :
            /\ event'[e] = IF e = <<r, sent[r] + 1>> THEN "RESERVE_HCM" ELSE event[e]
            /\ job'[e] = IF e = <<r, sent[r] + 1>> THEN "queued" ELSE job[e]
      BY <1>2, NextEntry DEF HInv
    <3> QED
      BY <2>3, <3>1, <3>2, <3>3
  <2>4. (hold[r] \in HoldsOf(r))'
    BY <2>1 DEF HoldsOf
  <2> QED
    BY <2>1, <2>2, <2>3, <2>4 DEF HoldFits, HoldBefore
<1> QED
  BY <1>2, <1>3, HoldEnqueue

LEMMA HoldDecision ==
  ASSUME HInv, NEW r \in Requests, NEW ev \in EventTypes \ {"RESERVE_HCM"},
         NEW sg \in {"COMMITTING_HCM", "COMPENSATING_HCM"}, transitionWithOutbox(r, ev, sg)
  PROVE  HoldsInv'
<1> USE DEF transitionWithOutbox, runVars, historyVars, hcmVars
<1>1. enqueueInTx(r, ev) /\ transition(r, "PENDING_APPROVAL", sg)
  OBVIOUS
<1>2. ExpectedState("RESERVE_HCM") = "RESERVING_HCM"
  BY ActsIn DEF EventTypes
<1>3. ASSUME Calm(r) PROVE HoldFits(r)'
  <2>1. HoldFits(r) /\ Undisturbed(r) /\ ~overlapped[r]
    BY <1>3 DEF HInv, HoldsInv, Calm, Undisturbed
  <2>2. hold'[r] = "held" /\ saga'[r] = sg /\ saga[r] = "AWAITING_APPROVAL"
    BY <2>1 DEF HoldFits, HoldsOf, transition, HInv, IInv, TypeOK
  <2>3. sent[r] = 1
    BY <2>1, <2>2 DEF HInv, IInv, LedgerInv, DecisionsFit
  <2>4. ASSUME NEW n \in 1..MaxEntries, job[<<r, n>>] # "none"
        PROVE  n = 1 /\ event[<<r, n>>] = "RESERVE_HCM" /\ event'[<<r, n>>] = "RESERVE_HCM"
    <3>1. n = 1 /\ event[<<r, n>>] = "RESERVE_HCM"
      BY <2>3, <2>4, WrittenJob DEF HInv
    <3>2. <<r, n>> \in Entries /\ <<r, n>> # <<r, sent[r] + 1>>
      BY <2>3, <3>1 DEF Entries
    <3> QED
      BY <1>1, <3>1, <3>2, NextEntry DEF HInv
  <2>5. ASSUME NEW w \in Workers, pc'[w] # "idle", RequestOf(w)' = r
        PROVE  pc'[w] \notin LiveSteps /\ saga'[r] # ExpectedState(event'[task'[w]])
    <3>1. pc[w] # "idle" /\ RequestOf(w) = r /\ task'[w] = task[w] /\ pc'[w] = pc[w]
      BY <2>5 DEF RequestOf
    <3>2. job[task[w]] = "active" /\ \E n \in 1..MaxEntries : task[w] = <<r, n>>
      BY <2>1, <3>1, CalmRun DEF HInv
    <3>3. event'[task[w]] = "RESERVE_HCM" /\ event[task[w]] = "RESERVE_HCM"
      BY <2>4, <3>2
    <3>4. pc[w] \notin LiveSteps
      BY <1>2, <2>1, <2>2, <3>1, <3>3 DEF HInv, IInv, LedgerInv, SnapshotsFit
    <3> QED
      BY <1>2, <2>2, <3>1, <3>3, <3>4
  <2>6. ASSUME NEW n \in 1..MaxEntries, job'[<<r, n>>] \in {"queued", "completed"},
               saga'[r] = ExpectedState(event'[<<r, n>>])
        PROVE  job'[<<r, n>>] = "queued" /\ hold'[r] = HoldBefore(event'[<<r, n>>])
    <3>1. job[<<r, n>>] = "none"
      <4> SUFFICES ASSUME job[<<r, n>>] # "none" PROVE FALSE
        OBVIOUS
      <4>1. event'[<<r, n>>] = "RESERVE_HCM"
        BY <2>4
      <4> QED
        BY <1>2, <2>2, <2>6, <4>1
    <3>2. <<r, n>> \in Entries
      BY DEF Entries
    <3>3. job'[<<r, n>>] = "queued" /\ event'[<<r, n>>] = ev
      BY <1>1, <2>6, <3>1, <3>2, NextEntry DEF HInv
    <3> QED
      BY <2>2, <3>3 DEF HoldBefore
  <2>7. (hold[r] \in HoldsOf(r))'
    BY <2>2 DEF HoldsOf
  <2> QED
    BY <2>5, <2>6, <2>7 DEF HoldFits
<1> QED
  BY <1>1, <1>3, HoldEnqueue

\* A force-fail takes its request out of what the invariant speaks of.
LEMMA HoldForceFail ==
  ASSUME HInv, NEW r \in Requests, forceFail(r)
  PROVE  HoldsInv'
<1> USE DEF forceFail, outboxVars, channelVars, runVars, hcmVars
<1> SUFFICES ASSUME NEW q \in Requests, Calm(q)' PROVE HoldFits(q)'
  BY DEF HoldsInv
<1>1. q # r /\ Calm(q)
  BY DEF Calm, Undisturbed, HInv, IInv, TypeOK
<1>2. saga'[q] = saga[q] /\ status'[q] = status[q]
  BY <1>1 DEF transition, HInv, IInv, TypeOK
<1> QED
  BY <1>1, <1>2, HoldKept

\* A job that is given back after its run was lost takes its request out as well; one that
\* is sent again after it has completed finds the saga moved on.
LEMMA HoldQueue ==
  ASSUME HInv, NEW e \in Entries, QueueStep(e)
  PROVE  HoldsInv'
<1> USE DEF QueueFrame, requestVars, runVars, hcmVars
<1> SUFFICES ASSUME NEW r \in Requests, Calm(r)' PROVE HoldFits(r)'
  BY DEF HoldsInv
<1>1. e[1] \in Requests
  BY DEF Entries
<1>2. /\ UNCHANGED <<saga, status, hold, event, pc, task, forced>>
      /\ \A f \in Entries : f # e => job'[f] = job[f]
      /\ \A q \in Requests : overlapped[q] => overlapped'[q]
      /\ \A q \in Requests : rerun[q] => rerun'[q]
  <2>1. Channel!Stall(e) \/ Channel!Resend(e)
    BY DEF QueueStep, recoverOrphan, lockExpires, redisForgets
  <2>2. \A f \in Entries : f # e => job'[f] = job[f]
    BY <2>1 DEF Channel!Stall, Channel!Resend, HInv, IInv, TypeOK, Channel!ChannelTypeOK
  <2>3. /\ overlapped' = overlapped \/ \E x : overlapped' = [overlapped EXCEPT ![e[1]] = @ \/ x]
        /\ \E x : rerun' = [rerun EXCEPT ![e[1]] = @ \/ x]
        /\ UNCHANGED <<saga, status, hold, event, pc, task, forced>>
    BY DEF QueueStep, recoverOrphan, lockExpires, redisForgets
  <2>4. ASSUME NEW q \in Requests PROVE overlapped[q] => overlapped'[q]
    BY <2>3, Zenon DEF HInv, IInv, TypeOK
  <2>5. ASSUME NEW q \in Requests PROVE rerun[q] => rerun'[q]
    BY <2>3, Zenon DEF HInv, IInv, TypeOK
  <2> QED
    BY <2>2, <2>3, <2>4, <2>5
<1>3. Calm(r) /\ HoldFits(r)
  BY <1>2 DEF Calm, Undisturbed, HInv, HoldsInv
<1>4. CASE e[1] # r
  <2>1. \A n \in 1..MaxEntries : job'[<<r, n>>] = job[<<r, n>>]
    BY <1>2, <1>4 DEF Entries
  <2> QED
    BY <1>2, <1>3, <2>1, HoldKept
<1>5. CASE e[1] = r
  <2>1. PICK n \in 1..MaxEntries : e = <<r, n>>
    BY <1>5 DEF Entries
  <2>2. job[e] \in {"queued", "completed"} /\ job'[e] = "queued"
    <3>1. redisForgets(e) /\ job[e] \notin {"active", "failed"}
      BY <1>1, <1>5 DEF Calm, QueueStep, recoverOrphan, lockExpires, redisForgets,
         HInv, IInv, TypeOK
    <3> QED
      BY <3>1 DEF redisForgets, Channel!Resend, HInv, IInv, TypeOK, Channel!ChannelTypeOK,
         Channel!JobStates
  <2>3. ASSUME NEW m \in 1..MaxEntries, job'[<<r, m>>] \in {"queued", "completed"},
               saga[r] = ExpectedState(event[<<r, m>>])
        PROVE  job'[<<r, m>>] = "queued" /\ hold[r] = HoldBefore(event[<<r, m>>])
    <3>1. <<r, m>> \in Entries
      BY DEF Entries
    <3>2. job[<<r, m>>] \in {"queued", "completed"}
      BY <1>2, <2>2, <2>3, <3>1
    <3>3. job[<<r, m>>] = "queued" /\ hold[r] = HoldBefore(event[<<r, m>>])
      BY <1>3, <2>3, <3>2 DEF HoldFits
    <3> QED
      BY <1>2, <2>2, <3>1, <3>3
  <2>4. (hold[r] \in HoldsOf(r))'
    BY <1>2, <1>3 DEF HoldFits, HoldsOf
  <2>5. ASSUME NEW w \in Workers, pc'[w] # "idle", RequestOf(w)' = r
        PROVE  /\ pc'[w] \in LiveSteps => hold[r] = HoldAt(pc'[w])
               /\ pc'[w] = "done" => saga[r] # ExpectedState(event[task'[w]])
    <3>1. RequestOf(w) = r
      BY <1>2, <2>5 DEF RequestOf
    <3> QED
      BY <1>2, <1>3, <2>5, <3>1 DEF HoldFits
  <2> QED
    BY <1>2, <2>3, <2>4, <2>5 DEF HoldFits
<1> QED
  BY <1>4, <1>5

LEMMA HoldQuiet ==
  ASSUME HInv,
         UNCHANGED <<saga, status, hold, event, job, forced, overlapped, rerun>>,
         \A w \in Workers : pc'[w] = "idle" \/ (pc'[w] = pc[w] /\ task'[w] = task[w])
  PROVE  HoldsInv'
<1> SUFFICES ASSUME NEW r \in Requests PROVE Calm(r)' => HoldFits(r)'
  BY DEF HoldsInv
<1>1. Calm(r)' => Calm(r)
  BY DEF Calm, Undisturbed
<1> QED
  BY <1>1, HoldKept

LEMMA HoldInductive ==
  ASSUME HInv, [Next]_vars
  PROVE  HInv'
<1> USE DEF requestVars, runVars, outboxVars, channelVars, historyVars, hcmVars
<1>1. IInv'
  BY Inductive DEF HInv
<1>2. CASE \E r \in Requests : ApiStep(r)
  <2>1. PICK r \in Requests : ApiStep(r)
    BY <1>2
  <2>2. CASE approve(r)
    BY <1>1, <2>2, HoldDecision DEF approve, EventTypes, HInv
  <2>3. CASE reject(r)
    BY <1>1, <2>3, HoldDecision DEF reject, EventTypes, HInv
  <2>4. CASE cancel(r)
    BY <1>1, <2>4, HoldDecision DEF cancel, EventTypes, HInv
  <2> QED
    BY <1>1, <2>1, <2>2, <2>3, <2>4, HoldCreate, HoldForceFail DEF ApiStep, HInv
<1>3. CASE \E w \in Workers, e \in Entries : startJob(w, e)
  BY <1>1, <1>3, HoldStart DEF HInv
<1>4. CASE \E w \in Workers : RunStep(w)
  BY <1>1, <1>4, HoldRun DEF HInv
<1>5. CASE \E e \in Entries : QueueStep(e)
  BY <1>1, <1>5, HoldQueue DEF HInv
<1>6. CASE BalanceStep
  <2>1. UNCHANGED <<saga, status, hold, event, job, forced, overlapped, rerun, pc, task>>
    BY <1>6 DEF BalanceStep, refreshBalance, hcmDrift, HcmSeed
  <2> QED
    BY <1>1, <2>1, HoldQuiet DEF HInv
<1>7. CASE crash
  <2>1. /\ UNCHANGED <<saga, status, hold, event, job, forced, overlapped, rerun>>
        /\ \A w \in Workers : pc'[w] = "idle"
    BY <1>7 DEF crash, Channel!LoseLocks
  <2> QED
    BY <1>1, <2>1, HoldQuiet DEF HInv
<1>8. CASE UNCHANGED vars
  <2>1. UNCHANGED <<saga, status, hold, event, job, forced, overlapped, rerun, pc, task>>
    BY <1>8 DEF vars
  <2> QED
    BY <1>1, <2>1, HoldQuiet DEF HInv
<1> QED
  BY <1>2, <1>3, <1>4, <1>5, <1>6, <1>7, <1>8 DEF Next

\* The handlers call the HCM and write what follows from its answer later; the hold follows
\* the saga all the same, whatever answers are lost and calls refused, on every request whose
\* jobs were run once and that was not force-failed (handleReserve, handleConfirm and
\* handleCompensate of hcm-saga.processor.ts).
THEOREM HoldsAgree == Spec => []HcmAgrees
<1>1. Init => HInv
  BY TypeInit, LedgerInit, HoldInit DEF HInv, IInv
<1>2. HInv /\ [Next]_vars => HInv'
  BY HoldInductive
<1>3. HInv => HcmAgrees
  BY DEF HInv, HoldsInv, HoldFits, HcmAgrees
<1> QED
  BY <1>1, <1>2, <1>3, PTL DEF Spec

(***************************************************************************)
(* What the HCM holds and has approved fits its total                      *)
(***************************************************************************)
FInv == IInv /\ OnceInv /\ FundsInv

\* What the HCM has left is its total without the sum of the days it holds.
LEMMA AvailableIsRest ==
  \A b \in Balances : HcmAvailable(b) = hcmTotal[b] - SumOf(DaysOf, HeldOn(b))
BY DEF HcmAvailable, SumOf, HeldOn

LEMMA AvailableStaysRest ==
  \A b \in Balances : HcmAvailable(b)' = hcmTotal'[b] - SumOf(DaysOf, HeldOn(b)')
<1>1. (\A b \in Balances : HcmAvailable(b) = hcmTotal[b] - SumOf(DaysOf, HeldOn(b)))'
  BY AvailableIsRest, PTL
<1> QED
  BY <1>1

\* The days held on a balance are finitely many.
LEMMA HeldDays ==
  ASSUME FundsInv, NEW b \in Balances
  PROVE  /\ IsFiniteSet(HeldOn(b))
         /\ \A r \in Requests : DaysOf[r] \in Nat
         /\ SumOf(DaysOf, HeldOn(b)) \in Nat
<1>1. HeldOn(b) \in SUBSET {r \in Requests : hold[r] # "none"}
  BY DEF HeldOn
<1>2. IsFiniteSet(HeldOn(b))
  BY <1>1, FS_Subset DEF FundsInv
<1>3. \A r \in Requests : DaysOf[r] \in Nat
  BY LedgerAssumption
<1>4. \A r \in HeldOn(b) : DaysOf[r] \in Nat
  BY <1>3 DEF HeldOn
<1> QED
  BY <1>2, <1>3, <1>4, SumNat

\* A step that may change the hold of one request leaves finitely many.
LEMMA FewHolds ==
  ASSUME FundsInv, NEW r \in Requests, \A q \in Requests : q # r => hold'[q] = hold[q]
  PROVE  IsFiniteSet({q \in Requests : hold[q] # "none"})'
<1> DEFINE H == {q \in Requests : hold[q] # "none"}
<1>1. IsFiniteSet(H \cup {r})
  BY FS_AddElement DEF FundsInv
<1>2. {q \in Requests : hold'[q] # "none"} \in SUBSET (H \cup {r})
  OBVIOUS
<1> QED
  BY <1>1, <1>2, FS_Subset

\* A run and its job belong to an entry of a kind whose handler acts in some state.
LEMMA RunOfEvent ==
  ASSUME FInv, NEW w \in Workers, pc[w] # "idle", ConfirmsOnce(RequestOf(w))
  PROVE  /\ event[task[w]] \in EventTypes
         /\ ExpectedState(event[task[w]]) \in Acting
         /\ \E n \in 1..MaxEntries : task[w] = <<RequestOf(w), n>> /\ n <= sent[RequestOf(w)]
<1>1. ~overlapped[RequestOf(w)]
  BY DEF ConfirmsOnce
<1>2. RequestOf(w) \in Requests /\ job[task[w]] = "active"
  BY <1>1, CalmRun DEF FInv
<1>3. PICK n \in 1..MaxEntries : task[w] = <<RequestOf(w), n>> /\ n <= sent[RequestOf(w)]
  BY <1>1, CalmRun DEF FInv
<1>4. event[task[w]] \in EventTypes
  BY <1>2, <1>3, WrittenJob DEF FInv
<1> QED
  BY <1>3, <1>4, ActsIn

\* A step that leaves the entries of a request alone, confirms no hold and puts the saga in no
\* state in which a handler acts, on which runs go on, give up or are over.
LEMMA OnceKept ==
  ASSUME FInv, NEW r \in Requests, ConfirmsOnce(r),
         overlapped'[r] = overlapped[r], sent'[r] = sent[r],
         saga'[r] = saga[r] \/ saga'[r] \notin Acting,
         hold'[r] = "confirmed" => hold[r] = "confirmed",
         \A n \in 1..MaxEntries :
           /\ event'[<<r, n>>] = event[<<r, n>>]
           /\ job'[<<r, n>>] = job[<<r, n>>] \/ job'[<<r, n>>] \notin {"queued", "completed"},
         \A w \in Workers :
           \/ pc'[w] = "idle"
           \/ RequestOf(w)' # r
           \/ /\ pc[w] # "idle" /\ task'[w] = task[w]
              /\ pc'[w] \in {"confirmCheck", "confirm"} => pc[w] \in {"confirmCheck", "confirm"}
              /\ pc'[w] = "done" => pc[w] = "done" \/ saga'[r] \notin Acting
  PROVE  ConfirmsOnce(r)'
<1>1. ASSUME NEW w \in Workers, pc'[w] # "idle", RequestOf(w)' = r
      PROVE  /\ pc'[w] \in {"confirmCheck", "confirm"} => hold'[r] # "confirmed"
             /\ pc'[w] = "done" => saga'[r] # ExpectedState(event'[task'[w]])
  <2>1. /\ pc[w] # "idle" /\ task'[w] = task[w] /\ RequestOf(w) = r
        /\ pc'[w] \in {"confirmCheck", "confirm"} => pc[w] \in {"confirmCheck", "confirm"}
        /\ pc'[w] = "done" => pc[w] = "done" \/ saga'[r] \notin Acting
    BY <1>1 DEF RequestOf
  <2>2. event'[task[w]] = event[task[w]] /\ ExpectedState(event[task[w]]) \in Acting
    BY <2>1, RunOfEvent
  <2>3. /\ pc[w] \in {"confirmCheck", "confirm"} => hold[r] # "confirmed"
        /\ pc[w] = "done" => saga[r] # ExpectedState(event[task[w]])
    BY <2>1 DEF ConfirmsOnce
  <2> QED
    BY <2>1, <2>2, <2>3
<1>2. ASSUME NEW n \in 1..MaxEntries, job'[<<r, n>>] \in {"queued", "completed"},
             saga'[r] = ExpectedState(event'[<<r, n>>])
      PROVE  /\ job'[<<r, n>>] = "queued"
             /\ event'[<<r, n>>] = "CONFIRM_HCM" => hold'[r] # "confirmed"
  <2>1. job'[<<r, n>>] = job[<<r, n>>] /\ event'[<<r, n>>] = event[<<r, n>>]
    BY <1>2
  <2>2. event[<<r, n>>] \in EventTypes
    BY <1>2, <2>1, WrittenJob DEF FInv
  <2>3. saga[r] = ExpectedState(event[<<r, n>>])
    BY <1>2, <2>1, <2>2, ActsIn
  <2> QED
    BY <1>2, <2>1, <2>3 DEF ConfirmsOnce
<1> QED
  BY <1>1, <1>2 DEF ConfirmsOnce

\* The same of a step of a run, other than a confirm the HCM accepts.
LEMMA OnceRun ==
  ASSUME FInv, NEW w \in Workers, pc[w] # "idle", NEW step,
         pc' = [pc EXCEPT ![w] = step],
         UNCHANGED <<task, sent, event, job, overlapped, rerun>>,
         \A q \in Requests : q # RequestOf(w) => saga'[q] = saga[q],
         \A q \in Requests : hold'[q] = "confirmed" => hold[q] = "confirmed",
         saga'[RequestOf(w)] = saga[RequestOf(w)] \/ saga'[RequestOf(w)] \notin Acting,
         step \in {"confirmCheck", "confirm"} => pc[w] \in {"confirmCheck", "confirm"},
         step = "done" => saga'[RequestOf(w)] \notin Acting
  PROVE  OnceInv'
<1> SUFFICES ASSUME NEW r \in Requests, ~rerun[r] PROVE ConfirmsOnce(r)'
  BY DEF OnceInv
<1>1. ConfirmsOnce(r)
  BY DEF FInv, OnceInv
<1>2. /\ \A x \in Workers : pc'[x] = IF x = w THEN step ELSE pc[x]
      /\ \A x \in Workers : RequestOf(x)' = RequestOf(x)
  BY DEF FInv, IInv, TypeOK, RequestOf
<1>3. saga'[r] = saga[r] \/ saga'[r] \notin Acting
  OBVIOUS
<1>4. ASSUME NEW x \in Workers, pc'[x] # "idle", RequestOf(x)' = r
      PROVE  /\ pc[x] # "idle" /\ task'[x] = task[x]
             /\ pc'[x] \in {"confirmCheck", "confirm"} => pc[x] \in {"confirmCheck", "confirm"}
             /\ pc'[x] = "done" => pc[x] = "done" \/ saga'[r] \notin Acting
  BY <1>2, <1>4
<1> QED
  BY <1>1, <1>3, <1>4, OnceKept

\* A confirm that marks the hold is the last call of its entry, the only one besides the first.
LEMMA OnceConfirmed ==
  ASSUME FInv, NEW w \in Workers, pc[w] = "confirm", NEW step \in {"getBalance", "threw"},
         pc' = [pc EXCEPT ![w] = step],
         UNCHANGED <<task, sent, event, job, overlapped, rerun, saga>>,
         hold' = [hold EXCEPT ![RequestOf(w)] = "confirmed"]
  PROVE  OnceInv'
<1> DEFINE q == RequestOf(w)
<1> SUFFICES ASSUME NEW r \in Requests, ~rerun[r] PROVE ConfirmsOnce(r)'
  BY DEF OnceInv
<1>1. ConfirmsOnce(r)
  BY DEF FInv, OnceInv
<1>2. /\ \A x \in Workers : pc'[x] = IF x = w THEN step ELSE pc[x]
      /\ \A x \in Workers : RequestOf(x)' = RequestOf(x)
      /\ \A p \in Requests : hold'[p] = IF p = q THEN "confirmed" ELSE hold[p]
  BY DEF FInv, IInv, TypeOK, HcmTypeOK, RequestOf
<1>3. CASE q # r
  BY <1>1, <1>2, <1>3, OnceKept
<1>4. CASE q = r
  <2>1. pc[w] \in LiveSteps /\ pc[w] \notin ReserveSteps
    BY DEF LiveSteps, ReserveSteps, ConfirmSteps
  <2>2. PICK m \in 1..MaxEntries : task[w] = <<r, m>> /\ m <= sent[r] /\ m # 1
    BY <1>4, <2>1, RunEntry DEF FInv
  <2>3. sent[r] \in Nat /\ sent[r] <= 2 /\ ~overlapped[r]
    BY <1>1, SentTypes DEF FInv, IInv, LedgerInv, DecisionsFit, ConfirmsOnce
  <2>4. m = 2 /\ sent[r] = 2
    BY <2>2, <2>3
  <2>5. job[<<r, 2>>] = "active" /\ lock[<<r, 2>>] = w
    BY <1>4, <2>1, <2>2, <2>3, <2>4, CalmRun, RunEntry DEF FInv
  <2>6. ASSUME NEW x \in Workers, pc'[x] # "idle", RequestOf(x) = r
        PROVE  /\ pc'[x] \notin {"confirmCheck", "confirm"}
               /\ pc'[x] = "done" => saga[r] # ExpectedState(event[task[x]])
    <3>1. CASE x = w
      BY <1>2, <3>1
    <3>2. CASE x # w
      <4>1. pc'[x] = pc[x]
        BY <1>2, <3>2
      <4>2. pc[x] = "done" => saga[r] # ExpectedState(event[task[x]])
        BY <1>1, <2>6, <4>1 DEF ConfirmsOnce
      <4>3. ASSUME pc[x] \in ConfirmSteps PROVE FALSE
        <5>1. pc[x] \in LiveSteps /\ pc[x] \notin ReserveSteps
          BY <4>3 DEF LiveSteps, ReserveSteps, ConfirmSteps
        <5>2. PICK k \in 1..MaxEntries : task[x] = <<r, k>> /\ k <= sent[r] /\ k # 1
          BY <2>6, <5>1, RunEntry DEF FInv
        <5>3. k = 2
          BY <2>4, <5>2
        <5>4. lock[<<r, 2>>] = x
          BY <2>3, <2>6, <4>1, <5>2, <5>3, CalmRun DEF FInv
        <5> QED
          BY <2>5, <3>2, <5>4
      <4> QED
        BY <4>1, <4>2, <4>3 DEF ConfirmSteps
    <3> QED
      BY <3>1, <3>2
  <2>7. ASSUME NEW n \in 1..MaxEntries, job[<<r, n>>] \in {"queued", "completed"}
        PROVE  event[<<r, n>>] # "CONFIRM_HCM"
    <3>1. n <= sent[r] /\ (event[<<r, n>>] = "RESERVE_HCM" <=> n = 1)
      BY <2>7, WrittenJob DEF FInv
    <3>2. n # 2
      BY <2>5, <2>7
    <3> QED
      BY <2>4, <3>1, <3>2
  <2>8. ASSUME NEW n \in 1..MaxEntries, job[<<r, n>>] \in {"queued", "completed"},
               saga[r] = ExpectedState(event[<<r, n>>])
        PROVE  job[<<r, n>>] = "queued"
    BY <1>1, <2>8 DEF ConfirmsOnce
  <2> QED
    BY <1>2, <2>3, <2>4, <2>6, <2>7, <2>8 DEF ConfirmsOnce
<1> QED
  BY <1>3, <1>4

\* A run starts from a job that waits, and acts only where its handler expects the saga to be.
LEMMA OnceStart ==
  ASSUME FInv, NEW w \in Workers, NEW e \in Entries, startJob(w, e)
  PROVE  OnceInv'
<1> DEFINE first == IF saga[e[1]] = ExpectedState(event[e]) THEN FirstStep(event[e]) ELSE "done"
<1>1. /\ \A f \in Entries : job'[f] = IF f = e THEN "active" ELSE job[f]
      /\ \A x \in Workers : pc'[x] = IF x = w THEN first ELSE pc[x]
      /\ \A x \in Workers : task'[x] = IF x = w THEN e ELSE task[x]
      /\ job[e] = "queued"
      /\ UNCHANGED <<saga, hold, event, sent, overlapped, rerun>>
  BY DEF startJob, Channel!Take, FInv, IInv, TypeOK, Channel!ChannelTypeOK,
     requestVars, hcmVars, historyVars
<1> SUFFICES ASSUME NEW r \in Requests, ~rerun[r] PROVE ConfirmsOnce(r)'
  BY <1>1 DEF OnceInv
<1>2. ConfirmsOnce(r)
  BY DEF FInv, OnceInv
<1>3. \A n \in 1..MaxEntries :
        job'[<<r, n>>] = job[<<r, n>>] \/ job'[<<r, n>>] \notin {"queued", "completed"}
  BY <1>1 DEF Entries
<1> HIDE DEF first
<1>4. ASSUME NEW x \in Workers, pc'[x] # "idle", RequestOf(x)' = r
      PROVE  /\ pc'[x] \in {"confirmCheck", "confirm"} => hold[r] # "confirmed"
             /\ pc'[x] = "done" => saga[r] # ExpectedState(event[task'[x]])
  <2>1. CASE x # w
    <3>1. pc'[x] = pc[x] /\ task'[x] = task[x] /\ RequestOf(x) = r
      BY <1>1, <1>4, <2>1 DEF RequestOf
    <3> QED
      BY <1>2, <1>4, <3>1 DEF ConfirmsOnce
  <2>2. CASE x = w
    <3>1. e[1] = r /\ task'[x] = e /\ pc'[x] = first
      BY <1>1, <1>4, <2>2 DEF RequestOf
    <3>2. PICK n \in 1..MaxEntries : e = <<r, n>>
      BY <3>1 DEF Entries
    <3>3. event[e] \in EventTypes
      BY <1>1, <3>2, WrittenJob DEF FInv
    <3>4. FirstStep(event[e]) # "done"
          /\ (FirstStep(event[e]) \in {"confirmCheck", "confirm"} => event[e] = "CONFIRM_HCM")
      BY <3>3 DEF FirstStep, EventTypes, Compensations
    <3>5. first = "done" => saga[r] # ExpectedState(event[e])
      BY <3>1, <3>4 DEF first
    <3>6. first \in {"confirmCheck", "confirm"} =>
            saga[r] = ExpectedState(event[e]) /\ event[e] = "CONFIRM_HCM"
      BY <3>1, <3>4 DEF first
    <3>7. first \in {"confirmCheck", "confirm"} => hold[r] # "confirmed"
      BY <1>1, <1>2, <3>2, <3>6 DEF ConfirmsOnce
    <3> QED
      BY <3>1, <3>5, <3>7
  <2> QED
    BY <2>1, <2>2
<1>5. ASSUME NEW n \in 1..MaxEntries, job'[<<r, n>>] \in {"queued", "completed"},
             saga[r] = ExpectedState(event[<<r, n>>])
      PROVE  /\ job'[<<r, n>>] = "queued"
             /\ event[<<r, n>>] = "CONFIRM_HCM" => hold[r] # "confirmed"
  <2>1. job'[<<r, n>>] = job[<<r, n>>]
    BY <1>3, <1>5
  <2> QED
    BY <1>2, <1>5, <2>1 DEF ConfirmsOnce
<1> QED
  BY <1>1, <1>2, <1>4, <1>5 DEF ConfirmsOnce

\* A job that ends well has moved its saga on.
LEMMA OnceEnd ==
  ASSUME FInv, NEW w \in Workers, endJob(w)
  PROVE  OnceInv'
<1> DEFINE o == IF pc[w] = "done" THEN "completed" ELSE "failed"
<1>1. /\ task[w] \in Entries /\ pc[w] \in {"done", "threw"}
      /\ \A e \in Entries : job'[e] = IF e = task[w] /\ lock[task[w]] = w THEN o ELSE job[e]
      /\ \A x \in Workers : pc'[x] = IF x = w THEN "idle" ELSE pc[x]
      /\ \A x \in Workers : x # w => task'[x] = task[x]
      /\ UNCHANGED <<saga, hold, event, sent, overlapped, rerun>>
  BY RunTypes DEF endJob, Channel!Settle, FInv, IInv, TypeOK, Channel!ChannelTypeOK,
     requestVars, historyVars, hcmVars
<1> HIDE DEF o
<1> SUFFICES ASSUME NEW r \in Requests, ~rerun[r] PROVE ConfirmsOnce(r)'
  BY <1>1 DEF OnceInv
<1>2. ConfirmsOnce(r)
  BY DEF FInv, OnceInv
<1>3. ASSUME NEW x \in Workers, pc'[x] # "idle", RequestOf(x)' = r
      PROVE  /\ pc'[x] \in {"confirmCheck", "confirm"} => hold[r] # "confirmed"
             /\ pc'[x] = "done" => saga[r] # ExpectedState(event[task'[x]])
  <2>1. pc'[x] = pc[x] /\ task'[x] = task[x] /\ RequestOf(x) = r
    BY <1>1, <1>3 DEF RequestOf
  <2> QED
    BY <1>2, <1>3, <2>1 DEF ConfirmsOnce
<1>4. ASSUME NEW n \in 1..MaxEntries, job'[<<r, n>>] \in {"queued", "completed"},
             saga[r] = ExpectedState(event[<<r, n>>])
      PROVE  /\ job'[<<r, n>>] = "queued"
             /\ event[<<r, n>>] = "CONFIRM_HCM" => hold[r] # "confirmed"
  <2>1. CASE job'[<<r, n>>] = job[<<r, n>>]
    BY <1>2, <1>4, <2>1 DEF ConfirmsOnce
  <2>2. CASE job'[<<r, n>>] # job[<<r, n>>]
    <3>1. <<r, n>> \in Entries
      BY DEF Entries
    <3>2. <<r, n>> = task[w] /\ job'[<<r, n>>] = o
      BY <1>1, <2>2, <3>1
    <3>3. pc[w] = "done" /\ RequestOf(w) = r
      BY <1>4, <3>2 DEF o, RequestOf
    <3> QED
      BY <1>2, <1>4, <3>2, <3>3 DEF ConfirmsOnce
  <2> QED
    BY <2>1, <2>2
<1> QED
  BY <1>1, <1>2, <1>3, <1>4 DEF ConfirmsOnce

\* A job is taken back or sent again without a rerun only if it waited or has completed.
LEMMA OnceQueue ==
  ASSUME FInv, NEW e \in Entries, QueueStep(e)
  PROVE  OnceInv'
<1> USE DEF QueueFrame, requestVars, runVars, hcmVars
<1>1. e[1] \in Requests
  BY DEF Entries
<1> SUFFICES ASSUME NEW r \in Requests, ~rerun'[r] PROVE ConfirmsOnce(r)'
  BY DEF OnceInv
<1>2. /\ UNCHANGED <<saga, hold, event, sent, pc, task>>
      /\ \A f \in Entries : f # e => job'[f] = job[f]
  BY DEF QueueStep, recoverOrphan, lockExpires, redisForgets, Channel!Stall, Channel!Resend,
     FInv, IInv, TypeOK, Channel!ChannelTypeOK
<1>3. ~rerun[r]
  <2>1. \E x : rerun' = [rerun EXCEPT ![e[1]] = @ \/ x]
    BY DEF QueueStep, recoverOrphan, lockExpires, redisForgets
  <2> QED
    BY <2>1, Zenon DEF FInv, IInv, TypeOK
<1>4. ConfirmsOnce(r)
  BY <1>3 DEF FInv, OnceInv
<1>5. CASE e[1] # r
  <2>1. \A n \in 1..MaxEntries : job'[<<r, n>>] = job[<<r, n>>]
    BY <1>2, <1>5 DEF Entries
  <2>2. overlapped'[r] = overlapped[r]
    BY <1>5 DEF QueueStep, recoverOrphan, lockExpires, redisForgets, FInv, IInv, TypeOK
  <2>3. \A w \in Workers : RequestOf(w)' = RequestOf(w)
    BY <1>2 DEF RequestOf
  <2> QED
    BY <1>2, <1>4, <2>1, <2>2, <2>3, OnceKept
<1>6. CASE e[1] = r
  <2>1. PICK n \in 1..MaxEntries : e = <<r, n>>
    BY <1>6 DEF Entries
  <2>2. redisForgets(e) /\ job[e] \notin {"active", "failed"}
    BY <1>1, <1>6 DEF QueueStep, recoverOrphan, lockExpires, redisForgets, FInv, IInv, TypeOK
  <2>3. job[e] \in {"queued", "completed"} /\ job'[e] = "queued"
    BY <2>2 DEF redisForgets, Channel!Resend, FInv, IInv, TypeOK, Channel!ChannelTypeOK,
       Channel!JobStates
  <2>4. ~LiveRun(e)
    <3> SUFFICES ASSUME NEW w \in Workers, pc[w] # "idle", task[w] = e PROVE FALSE
      BY DEF LiveRun
    <3>1. RequestOf(w) = r /\ ~overlapped[r]
      BY <1>4, <1>6 DEF RequestOf, ConfirmsOnce
    <3>2. job[e] = "active"
      BY <3>1, CalmRun DEF FInv
    <3> QED
      BY <2>3, <3>2
  <2>5. overlapped'[r] = overlapped[r]
    BY <1>6, <2>2, <2>4, Zenon DEF redisForgets, FInv, IInv, TypeOK
  <2>6. ASSUME NEW m \in 1..MaxEntries, job'[<<r, m>>] \in {"queued", "completed"},
               saga[r] = ExpectedState(event[<<r, m>>])
        PROVE  /\ job'[<<r, m>>] = "queued"
               /\ event[<<r, m>>] = "CONFIRM_HCM" => hold[r] # "confirmed"
    <3>1. <<r, m>> \in Entries
      BY DEF Entries
    <3>2. job[<<r, m>>] \in {"queued", "completed"}
      BY <1>2, <2>3, <2>6, <3>1
    <3>3. /\ job[<<r, m>>] = "queued"
          /\ event[<<r, m>>] = "CONFIRM_HCM" => hold[r] # "confirmed"
      BY <1>4, <2>6, <3>2 DEF ConfirmsOnce
    <3> QED
      BY <1>2, <2>3, <3>1, <3>3
  <2>7. \A w \in Workers : RequestOf(w)' = RequestOf(w)
    BY <1>2 DEF RequestOf
  <2> QED
    BY <1>2, <1>4, <2>5, <2>6, <2>7 DEF ConfirmsOnce
<1> QED
  BY <1>5, <1>6

\* A new entry is the first of its kind: nothing was confirmed, and no run of it was over,
\* before the decision that writes it.
LEMMA OnceEnqueue ==
  ASSUME FInv, NEW r \in Requests, NEW ev \in EventTypes, enqueueInTx(r, ev),
         NEW st, NEW sg, transition(r, st, sg), sg = ExpectedState(ev),
         ev = "RESERVE_HCM" <=> sent[r] = 0, ~overlapped[r] => sent[r] <= 1,
         UNCHANGED <<pc, task, hold, overlapped, rerun>>
  PROVE  OnceInv'
<1> SUFFICES ASSUME NEW q \in Requests, ~rerun[q] PROVE ConfirmsOnce(q)'
  BY DEF OnceInv
<1>1. ConfirmsOnce(q)
  BY DEF FInv, OnceInv
<1>2. \A w \in Workers : RequestOf(w)' = RequestOf(w)
  BY DEF RequestOf
<1>3. \A n \in 1..MaxEntries : <<q, n>> \in Entries
  BY DEF Entries
<1>4. /\ \A e \in Entries : event'[e] = IF e = <<r, sent[r] + 1>> THEN ev ELSE event[e]
      /\ \A e \in Entries : job'[e] = IF e = <<r, sent[r] + 1>> THEN "queued" ELSE job[e]
      /\ \A p \in Requests : sent'[p] = IF p = r THEN sent[r] + 1 ELSE sent[p]
  BY NextEntry DEF FInv
<1>5. CASE q # r
  <2>1. saga'[q] = saga[q]
    BY <1>5 DEF transition, FInv, IInv, TypeOK
  <2>2. \A n \in 1..MaxEntries :
          event'[<<q, n>>] = event[<<q, n>>] /\ job'[<<q, n>>] = job[<<q, n>>]
    <3>1. \A n \in 1..MaxEntries : <<q, n>> # <<r, sent[r] + 1>>
      BY <1>5
    <3> QED
      BY <1>3, <1>4, <3>1
  <2>3. sent'[q] = sent[q]
    BY <1>4, <1>5
  <2> QED
    BY <1>1, <1>2, <2>1, <2>2, <2>3, OnceKept
<1>6. CASE q = r
  <2>1. saga'[r] = sg /\ sent[r] \in Nat /\ sent[r] <= 1 /\ sent'[r] = sent[r] + 1
    BY <1>1, <1>4, <1>6, SentTypes DEF transition, FInv, IInv, TypeOK, ConfirmsOnce
  <2>2. hold[r] # "confirmed"
    BY <1>1, <1>6, <2>1 DEF ConfirmsOnce
  <2>3. ASSUME NEW n \in 1..MaxEntries, job[<<r, n>>] # "none"
        PROVE  event'[<<r, n>>] = "RESERVE_HCM" /\ ev # "RESERVE_HCM"
    <3>1. n <= sent[r] /\ (event[<<r, n>>] = "RESERVE_HCM" <=> n = 1)
      BY <2>3, WrittenJob DEF FInv
    <3>2. <<r, n>> \in Entries /\ <<r, n>> # <<r, sent[r] + 1>> /\ event[<<r, n>>] = "RESERVE_HCM"
      BY <1>3, <1>6, <2>1, <3>1
    <3> QED
      BY <1>4, <2>1, <3>1, <3>2
  <2>4. ev # "RESERVE_HCM" => sg # ExpectedState("RESERVE_HCM")
    BY ActsIn DEF EventTypes
  <2>5. ASSUME NEW w \in Workers, pc[w] # "idle", RequestOf(w) = r
        PROVE  pc[w] = "done" => saga'[r] # ExpectedState(event'[task[w]])
    <3>1. job[task[w]] = "active" /\ \E n \in 1..MaxEntries : task[w] = <<r, n>>
      BY <1>1, <1>6, <2>5, CalmRun DEF FInv, ConfirmsOnce
    <3> QED
      BY <2>1, <2>3, <2>4, <3>1
  <2>6. ASSUME NEW n \in 1..MaxEntries, saga'[r] = ExpectedState(event'[<<r, n>>]),
               job'[<<r, n>>] \in {"queued", "completed"}
        PROVE  job'[<<r, n>>] = "queued"
    <3>1. job[<<r, n>>] = "none"
      BY <2>1, <2>3, <2>4, <2>6
    <3> QED
      BY <1>3, <1>4, <1>6, <2>6, <3>1
  <2>7. (hold[r] = "confirmed" => sent[r] >= 2)'
    BY <2>2
  <2> QED
    BY <1>1, <1>2, <1>6, <2>2, <2>5, <2>6, <2>7 DEF ConfirmsOnce
<1> QED
  BY <1>5, <1>6

LEMMA OnceApi ==
  ASSUME FInv, NEW r \in Requests, ApiStep(r)
  PROVE  OnceInv'
<1> USE DEF runVars, historyVars, hcmVars
<1>1. CASE create(r)
  <2>1. sent[r] = 0
    BY <1>1 DEF create, FInv, IInv, LedgerInv, EntriesFit
  <2>2. "RESERVE_HCM" \in EventTypes /\ "RESERVING_HCM" = ExpectedState("RESERVE_HCM")
    BY DEF EventTypes, ExpectedState, Compensations
  <2> QED
    BY <1>1, <2>1, <2>2, OnceEnqueue DEF create
<1>2. ASSUME NEW ev \in EventTypes \ {"RESERVE_HCM"}, NEW sg, sg = ExpectedState(ev),
             transitionWithOutbox(r, ev, sg)
      PROVE  OnceInv'
  <2>1. saga[r] = "AWAITING_APPROVAL"
    BY <1>2 DEF transitionWithOutbox
  <2>2. sent[r] # 0
    BY <2>1 DEF FInv, IInv, LedgerInv, EntriesFit
  <2>3. ~overlapped[r] => sent[r] <= 1
    BY <2>1, SentTypes DEF FInv, IInv, LedgerInv, DecisionsFit
  <2> QED
    BY <1>2, <2>2, <2>3, OnceEnqueue DEF transitionWithOutbox
<1>3. CASE approve(r)
  BY <1>2, <1>3 DEF approve, EventTypes, ExpectedState, Compensations
<1>4. CASE reject(r)
  BY <1>2, <1>4 DEF reject, EventTypes, ExpectedState, Compensations
<1>5. CASE cancel(r)
  BY <1>2, <1>5 DEF cancel, EventTypes, ExpectedState, Compensations
<1>6. CASE forceFail(r)
  <2> SUFFICES ASSUME NEW q \in Requests, ~rerun[q] PROVE ConfirmsOnce(q)'
    BY <1>6 DEF forceFail, OnceInv
  <2>1. ConfirmsOnce(q)
    BY DEF FInv, OnceInv
  <2>2. saga'[q] = saga[q] \/ saga'[q] \notin Acting
    BY <1>6 DEF forceFail, transition, FInv, IInv, TypeOK, Acting
  <2>3. \A w \in Workers : RequestOf(w)' = RequestOf(w)
    BY <1>6 DEF forceFail, RequestOf
  <2> QED
    BY <1>6, <2>1, <2>2, <2>3, OnceKept DEF forceFail, outboxVars, channelVars
<1> QED
  BY <1>1, <1>3, <1>4, <1>5, <1>6 DEF ApiStep

\* A step that takes no part in the HCM takes nothing from it.
LEMMA FundsKept ==
  ASSUME FInv, UNCHANGED hcmVars, env'["seed"] = 0 => env["seed"] = 0,
         \A r \in Requests : rerun[r] => rerun'[r]
  PROVE  FundsInv'
<1>1. hold' = hold /\ hcmTotal' = hcmTotal
  BY DEF hcmVars
<1>2. IsFiniteSet({r \in Requests : hold'[r] # "none"})
  BY <1>1 DEF FInv, FundsInv
<1>3. ASSUME NEW b \in Balances, FundsTracked(b)' PROVE HcmAvailable(b)' >= 0
  <2>1. FundsTracked(b)
    BY <1>1, <1>3 DEF FundsTracked, OnlySagaUses, HcmHasRow
  <2>2. HcmAvailable(b)' = HcmAvailable(b)
    <3>1. HeldOn(b)' = HeldOn(b)
      BY <1>1 DEF HeldOn
    <3> QED
      BY <1>1, <3>1, AvailableIsRest, AvailableStaysRest
  <2> QED
    BY <2>1, <2>2 DEF FInv, FundsInv
<1> QED
  BY <1>2, <1>3 DEF FundsInv

\* A call of a run is on one balance, and leaves the others as they were.
LEMMA FundsCall ==
  ASSUME FInv, NEW r \in Requests, UNCHANGED <<env, rerun>>,
         \A q \in Requests : q # r => hold'[q] = hold[q],
         \A b \in Balances : b # BalanceOf[r] => hcmTotal'[b] = hcmTotal[b],
         HcmHasRow(BalanceOf[r])' => HcmHasRow(BalanceOf[r]),
         FundsTracked(BalanceOf[r]) => HcmAvailable(BalanceOf[r])' >= 0
  PROVE  FundsInv'
<1>1. IsFiniteSet({q \in Requests : hold[q] # "none"})'
  BY FewHolds DEF FInv
<1>2. ASSUME NEW b \in Balances, FundsTracked(b)' PROVE HcmAvailable(b)' >= 0
  <2>1. CASE b = BalanceOf[r]
    BY <1>2, <2>1 DEF FundsTracked, OnlySagaUses
  <2>2. CASE b # BalanceOf[r]
    <3>1. hcmTotal'[b] = hcmTotal[b]
      BY <2>2
    <3>2. HeldOn(b)' = HeldOn(b)
      BY <2>2 DEF HeldOn
    <3>3. FundsTracked(b)
      BY <1>2, <3>1 DEF FundsTracked, OnlySagaUses, HcmHasRow
    <3> QED
      BY <3>1, <3>2, <3>3, AvailableIsRest, AvailableStaysRest DEF FInv, FundsInv
  <2> QED
    BY <2>1, <2>2
<1> QED
  BY <1>1, <1>2 DEF FundsInv

\* What a balance holds after the hold of one of its requests became another.
LEMMA HeldAfter ==
  ASSUME FInv, NEW r \in Requests, NEW h, hold' = [hold EXCEPT ![r] = h]
  PROVE  LET b == BalanceOf[r]
         IN /\ \A q \in Requests : q # r => hold'[q] = hold[q]
            /\ h = "held" => HeldOn(b)' = HeldOn(b) \cup {r}
BY DEF HeldOn, FInv, IInv, TypeOK, HcmTypeOK

\* Reserving takes from what is left only if it fits, once for each request.
LEMMA FundsReserve ==
  ASSUME FInv, NEW r \in Requests, NEW reply, HcmReserve(r, reply), UNCHANGED <<env, rerun>>
  PROVE  FundsInv'
<1> DEFINE b == BalanceOf[r]
<1>1. CASE UNCHANGED hcmVars
  BY <1>1, FundsKept
<1>2. CASE /\ "silent_accept" \in Faults \/ DaysOf[r] <= HcmAvailable(b)
           /\ hold' = [hold EXCEPT ![r] = "held"] /\ UNCHANGED hcmTotal
  <2>1. b \in Balances /\ hcmTotal[b] \in Int \cup {NoRow}
    BY LedgerAssumption DEF FInv, IInv, TypeOK, HcmTypeOK
  <2>2. \A q \in Requests : q # r => hold'[q] = hold[q]
    BY <1>2, HeldAfter
  <2>3. HeldOn(b)' = HeldOn(b) \cup {r}
    BY <1>2, HeldAfter
  <2>4. ASSUME FundsTracked(b) PROVE HcmAvailable(b)' >= 0
    <3>1. HcmAvailable(b) >= 0 /\ DaysOf[r] <= HcmAvailable(b) /\ hcmTotal[b] \in Int
      BY <1>2, <2>1, <2>4 DEF FundsTracked, OnlySagaUses, HcmHasRow, FInv, FundsInv
    <3>2. /\ IsFiniteSet(HeldOn(b)) /\ SumOf(DaysOf, HeldOn(b)) \in Nat /\ DaysOf[r] \in Nat
          /\ \A q \in HeldOn(b) \cup {r} : DaysOf[q] \in Int
      BY <2>1, HeldDays DEF FInv, HeldOn
    <3>3. CASE r \in HeldOn(b)
      <4>1. HeldOn(b)' = HeldOn(b)
        BY <2>3, <3>3
      <4> QED
        BY <1>2, <2>1, <3>1, <4>1, AvailableIsRest, AvailableStaysRest
    <3>4. CASE r \notin HeldOn(b)
      <4>1. SumOf(DaysOf, HeldOn(b) \cup {r}) = DaysOf[r] + SumOf(DaysOf, HeldOn(b))
        BY <3>2, <3>4, SumAdd
      <4>2. HcmAvailable(b) = hcmTotal[b] - SumOf(DaysOf, HeldOn(b))
            /\ HcmAvailable(b)' = hcmTotal[b] - SumOf(DaysOf, HeldOn(b) \cup {r})
        BY <1>2, <2>1, <2>3, AvailableIsRest, AvailableStaysRest
      <4> QED
        BY <3>1, <3>2, <4>1, <4>2
    <3> QED
      BY <3>3, <3>4
  <2>5. HcmHasRow(b)' => HcmHasRow(b)
    BY <1>2 DEF HcmHasRow
  <2> QED
    BY <1>2, <2>2, <2>4, <2>5, FundsCall
<1> QED
  BY <1>1, <1>2 DEF HcmReserve, HcmIsDown

\* Releasing gives back what was held, if anything was.
LEMMA FundsRelease ==
  ASSUME FInv, NEW r \in Requests, NEW reply, HcmRelease(r, reply), UNCHANGED <<env, rerun>>
  PROVE  FundsInv'
<1> DEFINE b == BalanceOf[r]
<1>1. CASE UNCHANGED hcmVars
  BY <1>1, FundsKept
<1>2. CASE hold' = [hold EXCEPT ![r] = "none"] /\ UNCHANGED hcmTotal
  <2>1. b \in Balances /\ hcmTotal[b] \in Int \cup {NoRow}
    BY LedgerAssumption DEF FInv, IInv, TypeOK, HcmTypeOK
  <2>2. \A q \in Requests : q # r => hold'[q] = hold[q]
    BY <1>2, HeldAfter
  <2>3. HeldOn(b)' = HeldOn(b) \ {r}
    BY <1>2 DEF HeldOn, FInv, IInv, TypeOK, HcmTypeOK
  <2>4. ASSUME FundsTracked(b) PROVE HcmAvailable(b)' >= 0
    <3>1. HcmAvailable(b) >= 0 /\ hcmTotal[b] \in Int
      BY <2>1, <2>4 DEF FundsTracked, OnlySagaUses, HcmHasRow, FInv, FundsInv
    <3>2. /\ IsFiniteSet(HeldOn(b)) /\ SumOf(DaysOf, HeldOn(b)) \in Nat /\ DaysOf[r] \in Nat
          /\ \A q \in HeldOn(b) : DaysOf[q] \in Int
      BY <2>1, HeldDays DEF FInv, HeldOn
    <3>3. CASE r \notin HeldOn(b)
      <4>1. HeldOn(b)' = HeldOn(b)
        BY <2>3, <3>3
      <4> QED
        BY <1>2, <2>1, <3>1, <4>1, AvailableIsRest, AvailableStaysRest
    <3>4. CASE r \in HeldOn(b)
      <4>1. SumOf(DaysOf, HeldOn(b)) = DaysOf[r] + SumOf(DaysOf, HeldOn(b) \ {r})
        BY <3>2, <3>4, SumRemove
      <4>2. IsFiniteSet(HeldOn(b) \ {r}) /\ \A q \in HeldOn(b) \ {r} : DaysOf[q] \in Int
        BY <3>2, FS_Subset
      <4>3. SumOf(DaysOf, HeldOn(b) \ {r}) \in Int
        BY <4>2, SumInt
      <4>4. HcmAvailable(b) = hcmTotal[b] - SumOf(DaysOf, HeldOn(b))
            /\ HcmAvailable(b)' = hcmTotal[b] - SumOf(DaysOf, HeldOn(b) \ {r})
        BY <1>2, <2>1, <2>3, AvailableIsRest, AvailableStaysRest
      <4> QED
        BY <3>1, <3>2, <4>1, <4>3, <4>4
    <3> QED
      BY <3>3, <3>4
  <2>5. HcmHasRow(b)' => HcmHasRow(b)
    BY <1>2 DEF HcmHasRow
  <2> QED
    BY <1>2, <2>2, <2>4, <2>5, FundsCall
<1> QED
  BY <1>1, <1>2 DEF HcmRelease, HcmIsDown

\* Confirming turns a hold into a deduction of the same days: what is left stays the same.
LEMMA FundsConfirm ==
  ASSUME FInv, NEW r \in Requests, NEW reply, HcmConfirm(r, reply), UNCHANGED <<env, rerun>>,
         ~rerun[r] => hold[r] # "confirmed"
  PROVE  FundsInv'
<1> DEFINE b == BalanceOf[r]
<1>1. CASE UNCHANGED hcmVars
  BY <1>1, FundsKept
<1>2. CASE /\ hold[r] # "none" /\ hold' = [hold EXCEPT ![r] = "confirmed"]
           /\ hcmTotal' = IF HcmHasRow(b) THEN [hcmTotal EXCEPT ![b] = @ - DaysOf[r]] ELSE hcmTotal
  <2>1. /\ b \in Balances /\ hcmTotal \in [Balances -> Int \cup {NoRow}]
        /\ DaysOf[r] \in Nat /\ hold[r] \in {"none", "held", "confirmed"}
    BY LedgerAssumption DEF FInv, IInv, TypeOK, HcmTypeOK
  <2>2. \A q \in Requests : q # r => hold'[q] = hold[q]
    BY <1>2, HeldAfter
  <2>3. HeldOn(b)' = HeldOn(b) \ {r}
    BY <1>2 DEF HeldOn, FInv, IInv, TypeOK, HcmTypeOK
  <2>4. ASSUME FundsTracked(b) PROVE HcmAvailable(b)' >= 0
    <3>1. HcmAvailable(b) >= 0 /\ HcmHasRow(b) /\ hcmTotal[b] \in Int /\ hold[r] = "held"
      BY <1>2, <2>1, <2>4 DEF FundsTracked, OnlySagaUses, HcmHasRow, FInv, FundsInv
    <3>2. /\ IsFiniteSet(HeldOn(b)) /\ SumOf(DaysOf, HeldOn(b)) \in Nat
          /\ \A q \in HeldOn(b) : DaysOf[q] \in Int
      BY <2>1, HeldDays DEF FInv, HeldOn
    <3>3. r \in HeldOn(b)
      BY <3>1 DEF HeldOn
    <3>4. SumOf(DaysOf, HeldOn(b)) = DaysOf[r] + SumOf(DaysOf, HeldOn(b) \ {r})
      BY <3>2, <3>3, SumRemove
    <3>5. IsFiniteSet(HeldOn(b) \ {r}) /\ \A q \in HeldOn(b) \ {r} : DaysOf[q] \in Int
      BY <3>2, FS_Subset
    <3>6. SumOf(DaysOf, HeldOn(b) \ {r}) \in Int
      BY <3>5, SumInt
    <3>7. HcmAvailable(b) = hcmTotal[b] - SumOf(DaysOf, HeldOn(b))
          /\ HcmAvailable(b)' = hcmTotal'[b] - SumOf(DaysOf, HeldOn(b) \ {r})
      BY <2>1, <2>3, AvailableIsRest, AvailableStaysRest
    <3>8. hcmTotal'[b] = hcmTotal[b] - DaysOf[r]
      BY <1>2, <2>1, <3>1
    <3> QED
      BY <2>1, <3>1, <3>2, <3>4, <3>6, <3>7, <3>8
  <2>5. HcmHasRow(b)' => HcmHasRow(b)
    BY <1>2 DEF HcmHasRow
  <2>6. \A c \in Balances : c # b => hcmTotal'[c] = hcmTotal[c]
    BY <1>2, <2>1
  <2> QED
    BY <2>2, <2>4, <2>5, <2>6, FundsCall
<1> QED
  BY <1>1, <1>2 DEF HcmConfirm, HcmIsDown

\* A step of a run that does not call the HCM.
LEMMA FundsQuietRun ==
  ASSUME FInv, NEW w \in Workers, pc[w] # "idle", NEW step, pc' = [pc EXCEPT ![w] = step],
         UNCHANGED <<task, sent, event, job, overlapped, rerun, env, hcmVars>>,
         step \in {"confirmCheck", "confirm"} => pc[w] = "confirmCheck",
         \/ saga' = saga /\ step # "done"
         \/ \E sg \in SagaStates \ Acting : saga' = [saga EXCEPT ![RequestOf(w)] = sg]
  PROVE  OnceInv' /\ FundsInv'
<1> DEFINE r == RequestOf(w)
<1>1. r \in Requests
  BY RunTypes DEF FInv, IInv
<1>2. /\ \A q \in Requests : q # r => saga'[q] = saga[q]
      /\ saga'[r] = saga[r] \/ saga'[r] \notin Acting
      /\ step = "done" => saga'[r] \notin Acting
  BY <1>1 DEF FInv, IInv, TypeOK
<1>3. hold' = hold
  BY DEF hcmVars
<1>4. OnceInv'
  BY <1>2, <1>3, OnceRun
<1>5. FundsInv'
  BY FundsKept
<1> QED
  BY <1>4, <1>5

\* The calls of the HCM.
LEMMA FundsCallRun ==
  ASSUME FInv, NEW w \in Workers, reserveCall(w) \/ confirmCall(w) \/ releaseCall(w)
  PROVE  OnceInv' /\ FundsInv'
<1> USE DEF RunFrame, outboxVars, channelVars, historyVars, requestVars, GoTo, hcmVars
<1> DEFINE r == RequestOf(w)
<1>1. pc[w] # "idle" /\ r \in Requests
  <2>1. pc[w] # "idle"
    BY DEF reserveCall, confirmCall, releaseCall
  <2> QED
    BY <2>1, RunTypes DEF FInv, IInv
<1>2. hold \in [Requests -> {"none", "held", "confirmed"}]
  BY DEF FInv, IInv, TypeOK, HcmTypeOK
<1>3. ASSUME NEW step, step \notin {"confirmCheck", "confirm", "done"},
             pc' = [pc EXCEPT ![w] = step],
             \A q \in Requests : hold'[q] = "confirmed" => hold[q] = "confirmed",
             UNCHANGED <<task, sent, event, job, overlapped, rerun, saga>>
      PROVE  OnceInv'
  BY <1>1, <1>3, OnceRun
<1>4. CASE reserveCall(w)
  <2>1. PICK reply \in Replies, step \in {"reserved", "refused", "threw"} :
          HcmReserve(r, reply) /\ pc' = [pc EXCEPT ![w] = step]
    BY <1>4 DEF reserveCall
  <2>2. \A q \in Requests : hold'[q] = "confirmed" => hold[q] = "confirmed"
    BY <1>2, <2>1 DEF HcmReserve, HcmIsDown
  <2>3. OnceInv'
    BY <1>3, <1>4, <2>1, <2>2 DEF reserveCall
  <2>4. FundsInv'
    BY <1>1, <1>4, <2>1, FundsReserve DEF reserveCall
  <2> QED
    BY <2>3, <2>4
<1>5. CASE releaseCall(w)
  <2>1. PICK reply \in Replies, step \in {"released", "threw"} :
          HcmRelease(r, reply) /\ pc' = [pc EXCEPT ![w] = step]
    BY <1>5 DEF releaseCall
  <2>2. \A q \in Requests : hold'[q] = "confirmed" => hold[q] = "confirmed"
    BY <1>2, <2>1 DEF HcmRelease, HcmIsDown
  <2>3. OnceInv'
    BY <1>3, <1>5, <2>1, <2>2 DEF releaseCall
  <2>4. FundsInv'
    BY <1>1, <1>5, <2>1, FundsRelease DEF releaseCall
  <2> QED
    BY <2>3, <2>4
<1>6. CASE confirmCall(w)
  <2>1. PICK reply \in Replies, step \in {"getBalance", "threw"} :
          HcmConfirm(r, reply) /\ pc' = [pc EXCEPT ![w] = step]
    BY <1>6 DEF confirmCall
  <2>2. ASSUME hold' = hold PROVE OnceInv'
    BY <1>3, <1>6, <2>1, <2>2 DEF confirmCall
  <2>3. ASSUME hold' = [hold EXCEPT ![r] = "confirmed"] PROVE OnceInv'
    BY <1>6, <2>1, <2>3, OnceConfirmed DEF confirmCall
  <2>4. OnceInv'
    BY <2>1, <2>2, <2>3 DEF HcmConfirm, HcmIsDown
  <2>5. ~rerun[r] => hold[r] # "confirmed"
    BY <1>1, <1>6 DEF confirmCall, FInv, OnceInv, ConfirmsOnce
  <2>6. FundsInv'
    BY <1>1, <1>6, <2>1, <2>5, FundsConfirm DEF confirmCall
  <2> QED
    BY <2>4, <2>6
<1> QED
  BY <1>4, <1>5, <1>6

LEMMA FundsRun ==
  ASSUME FInv, NEW w \in Workers, RunStep(w)
  PROVE  OnceInv' /\ FundsInv'
<1> USE DEF RunFrame, outboxVars, channelVars, historyVars, requestVars, GoTo
<1> DEFINE r == RequestOf(w)
<1>1. ASSUME pc[w] # "idle", NEW step, pc' = [pc EXCEPT ![w] = step],
             UNCHANGED <<task, hcmVars>>, RunFrame,
             step \in {"confirmCheck", "confirm"} => pc[w] = "confirmCheck",
             \/ UNCHANGED requestVars /\ step # "done"
             \/ \E sg \in SagaStates \ Acting : \E st : transition(r, st, sg)
      PROVE  OnceInv' /\ FundsInv'
  BY <1>1, FundsQuietRun DEF transition
<1>2. CASE confirmCheck(w)
  BY <1>1, <1>2 DEF confirmCheck
<1>3. CASE releaseCheck(w)
  BY <1>1, <1>3 DEF releaseCheck
<1>4. CASE getBalanceCall(w)
  <2>1. PICK step \in {"commit", "threw"} : pc' = [pc EXCEPT ![w] = step]
    BY <1>4 DEF getBalanceCall
  <2> QED
    BY <1>1, <1>4, <2>1 DEF getBalanceCall, HcmGetBalance, HcmIsDown
<1>5. CASE databaseError(w)
  BY <1>1, <1>5 DEF databaseError
<1>6. "AWAITING_APPROVAL" \in SagaStates \ Acting /\ "TERMINAL" \in SagaStates \ Acting
  BY DEF SagaStates, Acting
<1>7. CASE reserveCommit(w)
  BY <1>1, <1>6, <1>7 DEF reserveCommit
<1>8. CASE failRequest(w)
  BY <1>1, <1>6, <1>8 DEF failRequest
<1>9. CASE confirmCommit(w)
  BY <1>1, <1>6, <1>9 DEF confirmCommit
<1>10. CASE compensateCommit(w)
  BY <1>1, <1>6, <1>10 DEF compensateCommit
<1>11. CASE endJob(w)
  <2>1. FundsInv'
    BY <1>11, FundsKept DEF endJob
  <2> QED
    BY <1>11, <2>1, OnceEnd
<1> QED
  BY <1>2, <1>3, <1>4, <1>5, <1>7, <1>8, <1>9, <1>10, <1>11, FundsCallRun DEF RunStep

\* Only a change by the HCM itself counts as one.
LEMMA SeedSpent ==
  ASSUME FInv, NEW d \in Disturbances, Spend(d)
  PROVE  /\ env'["seed"] = 0 => env["seed"] = 0
         /\ d = "seed" => env'["seed"] # 0
<1>1. env \in [Disturbances -> Nat] /\ "seed" \in Disturbances
  BY DEF FInv, IInv, TypeOK, Disturbances
<1>2. env' = [env EXCEPT ![d] = @ + 1]
  BY DEF Spend
<1>3. env[d] \in Nat /\ env[d] + 1 # 0
  BY <1>1
<1> QED
  BY <1>1, <1>2, <1>3

LEMMA FundsInductive ==
  ASSUME FInv, [Next]_vars
  PROVE  FInv'
<1> USE DEF requestVars, runVars, outboxVars, channelVars, historyVars, QueueFrame
<1>1. IInv'
  BY Inductive DEF FInv
<1>2. CASE \E r \in Requests : ApiStep(r)
  <2>1. PICK r \in Requests : ApiStep(r)
    BY <1>2
  <2>2. UNCHANGED <<hcmVars, rerun>> /\ (env'["seed"] = 0 => env["seed"] = 0)
    <3>1. env' = env \/ Spend("forceFail")
      BY <2>1 DEF ApiStep, create, approve, reject, cancel, transitionWithOutbox, forceFail
    <3>2. env'["seed"] = 0 => env["seed"] = 0
      BY <3>1, SeedSpent DEF Disturbances
    <3> QED
      BY <2>1, <3>2 DEF ApiStep, create, approve, reject, cancel, transitionWithOutbox, forceFail
  <2> QED
    BY <1>1, <2>1, <2>2, OnceApi, FundsKept DEF FInv
<1>3. CASE \E w \in Workers, e \in Entries : startJob(w, e)
  <2>1. UNCHANGED <<hcmVars, rerun, env>>
    BY <1>3 DEF startJob
  <2> QED
    BY <1>1, <1>3, <2>1, OnceStart, FundsKept DEF FInv
<1>4. CASE \E w \in Workers : RunStep(w)
  BY <1>1, <1>4, FundsRun DEF FInv
<1>5. CASE \E e \in Entries : QueueStep(e)
  <2>1. PICK e \in Entries : QueueStep(e)
    BY <1>5
  <2>2. UNCHANGED hcmVars /\ (env'["seed"] = 0 => env["seed"] = 0)
    <3>1. UNCHANGED hcmVars /\ (env' = env \/ Spend("stall") \/ Spend("resend"))
      BY <2>1 DEF QueueStep, recoverOrphan, lockExpires, redisForgets
    <3> QED
      BY <3>1, SeedSpent DEF Disturbances
  <2>3. \A r \in Requests : rerun[r] => rerun'[r]
    <3>1. \E x : rerun' = [rerun EXCEPT ![e[1]] = @ \/ x]
      BY <2>1 DEF QueueStep, recoverOrphan, lockExpires, redisForgets
    <3> QED
      BY <3>1, Zenon DEF FInv, IInv, TypeOK
  <2> QED
    BY <1>1, <2>1, <2>2, <2>3, OnceQueue, FundsKept DEF FInv
<1>6. ASSUME UNCHANGED <<saga, hold, event, job, sent, overlapped, rerun>>,
             \A w \in Workers : pc'[w] = "idle" \/ (pc'[w] = pc[w] /\ task'[w] = task[w])
      PROVE  OnceInv'
  <2> SUFFICES ASSUME NEW r \in Requests, ~rerun[r] PROVE ConfirmsOnce(r)'
    BY <1>6 DEF OnceInv
  <2>1. ConfirmsOnce(r)
    BY DEF FInv, OnceInv
  <2>2. \A w \in Workers : pc'[w] = "idle" \/ (pc[w] # "idle" /\ RequestOf(w)' = RequestOf(w))
    BY <1>6 DEF RequestOf
  <2> QED
    BY <1>6, <2>1, <2>2, OnceKept
<1>7. CASE BalanceStep
  <2>1. UNCHANGED <<saga, hold, event, job, sent, overlapped, rerun, pc, task>>
    BY <1>7 DEF BalanceStep, refreshBalance, hcmDrift, HcmSeed, hcmVars
  <2>2. CASE \E b \in Balances : \E t : refreshBalance(b, t)
    <3>1. UNCHANGED hcmVars /\ (env'["seed"] = 0 => env["seed"] = 0)
      BY <2>2, SeedSpent DEF refreshBalance, Disturbances
    <3> QED
      BY <2>1, <3>1, <1>1, <1>6, FundsKept DEF FInv
  <2>3. CASE \E b \in Balances : \E t : hcmDrift(b, t)
    <3>1. env'["seed"] # 0
      BY <2>3, SeedSpent DEF hcmDrift, Disturbances
    <3>2. IsFiniteSet({q \in Requests : hold'[q] # "none"})
      BY <2>1 DEF FInv, FundsInv
    <3>3. FundsInv'
      BY <3>1, <3>2 DEF FundsInv, FundsTracked, OnlySagaUses
    <3> QED
      BY <1>1, <1>6, <2>1, <3>3 DEF FInv
  <2> QED
    BY <1>7, <2>2, <2>3 DEF BalanceStep
<1>8. CASE crash
  <2>1. /\ UNCHANGED <<saga, hold, event, job, sent, overlapped, rerun, hcmVars>>
        /\ \A w \in Workers : pc'[w] = "idle"
        /\ env'["seed"] = 0 => env["seed"] = 0
    BY <1>8, SeedSpent DEF crash, Channel!LoseLocks, hcmVars, Disturbances
  <2> QED
    BY <1>1, <1>6, <2>1, FundsKept DEF FInv
<1>9. CASE UNCHANGED vars
  <2>1. UNCHANGED <<saga, hold, event, job, sent, overlapped, rerun, pc, task, env, hcmVars>>
    BY <1>9 DEF vars, hcmVars
  <2> QED
    BY <1>1, <1>6, <2>1, FundsKept DEF FInv
<1> QED
  BY <1>2, <1>3, <1>4, <1>5, <1>7, <1>8, <1>9 DEF Next

LEMMA FundsInit ==
  ASSUME Init
  PROVE  FInv
<1>1. IInv
  BY TypeInit, LedgerInit DEF IInv
<1>2. /\ \A r \in Requests : hold[r] = "none" /\ saga[r] = "none" /\ ~overlapped[r]
      /\ \A w \in Workers : pc[w] = "idle"
      /\ \A e \in Entries : job[e] = "none"
  BY DEF Init, HcmInit, Channel!ChannelInit
<1>3. OnceInv
  <2>1. \A r \in Requests, n \in 1..MaxEntries : job[<<r, n>>] = "none"
    BY <1>2 DEF Entries
  <2> QED
    BY <1>2, <2>1 DEF OnceInv, ConfirmsOnce
<1>4. {r \in Requests : hold[r] # "none"} = {}
  BY <1>2
<1>5. ASSUME NEW b \in Balances, FundsTracked(b) PROVE HcmAvailable(b) >= 0
  <2>1. hcmTotal[b] \in Nat
    BY <1>5 DEF Init, HcmInit, FundsTracked, OnlySagaUses, HcmHasRow
  <2>2. HeldOn(b) = {}
    BY <1>2 DEF HeldOn
  <2>3. HcmAvailable(b) = hcmTotal[b] - 0
    BY <2>2, AvailableIsRest, SumEmpty
  <2> QED
    BY <2>1, <2>3
<1>6. FundsInv
  BY <1>4, <1>5, FS_EmptySet DEF FundsInv
<1> QED
  BY <1>1, <1>3, <1>6 DEF FInv

\* The days approved on a balance, all requests together, never exceed what the HCM has for it,
\* and neither do the days it holds besides, although each handler looks at one request only:
\* reserve checks what is left once, confirm checks nothing and deducts each time it is called
\* (hcm.service.ts, handleConfirm of hcm-saga.processor.ts).
THEOREM NeverOverdrawn ==
  ASSUME InitialTotals \subseteq Nat \cup {NoRow}
  PROVE  Spec => []HcmNeverOverdrawn
<1>1. Init => FInv
  BY FundsInit
<1>2. FInv /\ [Next]_vars => FInv'
  BY FundsInductive
<1>3. FInv => HcmNeverOverdrawn
  <2> SUFFICES ASSUME FInv, NEW b \in Balances, FundsTracked(b) PROVE hcmTotal[b] >= 0
    BY DEF HcmNeverOverdrawn, FundsTracked
  <2>1. hcmTotal[b] \in Int /\ HcmAvailable(b) >= 0
    BY DEF FInv, IInv, TypeOK, HcmTypeOK, FundsTracked, OnlySagaUses, HcmHasRow, FundsInv
  <2> QED
    BY <2>1, HeldDays, AvailableIsRest DEF FInv
<1> QED
  BY <1>1, <1>2, <1>3, PTL DEF Spec
=============================================================================
