---------------------------- MODULE TimeOffProofs ----------------------------
(***************************************************************************)
(* Theorems about TimeOffSaga for any number of requests, balances, slots  *)
(* and disturbances: that every action keeps the variables in their types, *)
(* the ledger invariant, and the refinement of RequestLifecycle.           *)
(***************************************************************************)
EXTENDS TimeOffInvariant, TLAPS

USE DEF Disturbances

(***************************************************************************)
(* Type correctness                                                        *)
(***************************************************************************)
\* A movement more keeps the ledger in its type.
LEMMA AddMovementType ==
  ASSUME NEW m \in [Requests -> [ReservationTypes -> Nat]],
         NEW r \in Requests, NEW t \in ReservationTypes
  PROVE  AddMovement(m, r, t) \in [Requests -> [ReservationTypes -> Nat]]
BY DEF AddMovement

\* Every operation of the HCM keeps its store in its type.
LEMMA HcmTypes ==
  ASSUME HcmTypeOK, NEW r \in Requests, NEW b \in Balances, NEW reply,
         \/ HcmReserve(r, reply) \/ HcmConfirm(r, reply) \/ HcmRelease(r, reply)
         \/ HcmGetBalance(b, reply) \/ (\E t \in Totals : HcmSeed(b, t))
         \/ UNCHANGED hcmVars
  PROVE  HcmTypeOK'
<1> USE LedgerAssumption, SagaAssumption DEF HcmTypeOK, hcmVars
<1>1. CASE HcmReserve(r, reply)
  BY <1>1 DEF HcmReserve, HcmIsDown
<1>2. CASE HcmConfirm(r, reply)
  BY <1>2 DEF HcmConfirm, HcmIsDown, HcmHasRow
<1>3. CASE HcmRelease(r, reply)
  BY <1>3 DEF HcmRelease, HcmIsDown
<1>4. CASE HcmGetBalance(b, reply)
  BY <1>4 DEF HcmGetBalance, HcmIsDown
<1>5. CASE \E t \in Totals : HcmSeed(b, t)
  BY <1>5 DEF HcmSeed
<1> QED
  BY <1>1, <1>2, <1>3, <1>4, <1>5

\* Every operation of the channel keeps jobs, locks and stall counts in their types.
LEMMA ChannelTypes ==
  ASSUME Channel!ChannelTypeOK, NEW e \in Entries,
         \/ Channel!Enqueue(e)
         \/ \E w \in Workers : Channel!Take(w, e)
         \/ \E w \in Workers, o \in {"completed", "failed"} : Channel!Settle(w, e, o)
         \/ Channel!Stall(e)
         \/ Channel!Resend(e)
  PROVE  Channel!ChannelTypeOK'
<1> USE SagaAssumption DEF Channel!ChannelTypeOK, Channel!JobStates
<1>1. CASE Channel!Enqueue(e)
  BY <1>1 DEF Channel!Enqueue
<1>2. CASE \E w \in Workers : Channel!Take(w, e)
  BY <1>2 DEF Channel!Take
<1>3. CASE \E w \in Workers, o \in {"completed", "failed"} : Channel!Settle(w, e, o)
  BY <1>3 DEF Channel!Settle
<1>4. CASE Channel!Stall(e)
  BY <1>4 DEF Channel!Stall
<1>5. CASE Channel!Resend(e)
  BY <1>5 DEF Channel!Resend
<1> QED
  BY <1>1, <1>2, <1>3, <1>4, <1>5

\* An outbox entry more keeps the outbox and the channel in their types.
LEMMA EnqueueTypes ==
  ASSUME TypeOK, NEW r \in Requests, NEW ev \in EventTypes, enqueueInTx(r, ev)
  PROVE  /\ sent' \in [Requests -> 0..MaxEntries]
         /\ event' \in [Entries -> EventTypes \cup {"none"}]
         /\ Channel!ChannelTypeOK'
<1>1. <<r, sent[r] + 1>> \in Entries
  BY SagaAssumption DEF TypeOK, enqueueInTx, Entries
<1>2. Channel!ChannelTypeOK'
  BY <1>1, ChannelTypes DEF TypeOK, enqueueInTx, Channel!Enqueue, Channel!ChannelTypeOK,
     Channel!JobStates
<1>3. event' \in [Entries -> EventTypes \cup {"none"}]
  BY <1>1 DEF TypeOK, enqueueInTx
<1>4. sent' \in [Requests -> 0..MaxEntries]
  BY SagaAssumption DEF TypeOK, enqueueInTx
<1> QED
  BY <1>2, <1>3, <1>4

\* Counting a disturbance stays within the budget.
LEMMA SpendTypes ==
  ASSUME TypeOK, NEW d \in Disturbances, Spend(d)
  PROVE  env' \in [Disturbances -> Nat] /\ \A x \in Disturbances : env'[x] <= Budget[x]
BY SagaAssumption DEF TypeOK, Spend

\* A transition writes a status and a saga state.
LEMMA TransitionTypes ==
  ASSUME TypeOK, NEW r \in Requests, NEW st \in RequestStatuses, NEW sg \in SagaStates,
         transition(r, st, sg)
  PROVE  /\ status' \in [Requests -> RequestStatuses \cup {"none"}]
         /\ saga' \in [Requests -> SagaStates \cup {"none"}]
BY DEF TypeOK, transition

\* The request a run works on.
LEMMA RunTypes ==
  ASSUME TypeOK, NEW w \in Workers, pc[w] # "idle"
  PROVE  /\ task[w] \in Entries
         /\ RequestOf(w) \in Requests
         /\ BalanceOf[RequestOf(w)] \in Balances
BY LedgerAssumption, SagaAssumption DEF TypeOK, RequestOf, Entries

LEMMA TypeInit == Init => TypeOK
<1> SUFFICES ASSUME Init PROVE TypeOK
  OBVIOUS
<1>1. HcmTypeOK
  BY SagaAssumption DEF Init, HcmInit, HcmTypeOK
<1>2. Channel!ChannelTypeOK
  BY SagaAssumption DEF Init, Channel!ChannelInit, Channel!ChannelTypeOK, Channel!JobStates
<1>3. total \in [Balances -> Int \cup {NoRow}]
  BY SagaAssumption DEF Init
<1>4. moves \in [Requests -> [ReservationTypes -> Nat]]
  BY DEF Init, NoMovements
<1>5. env \in [Disturbances -> Nat] /\ \A d \in Disturbances : env[d] <= Budget[d]
  BY SagaAssumption DEF Init
<1> QED
  BY <1>1, <1>2, <1>3, <1>4, <1>5, SagaAssumption DEF Init, TypeOK, Steps

\* The API operations, each with what it leaves alone.
LEMMA TypeApi ==
  ASSUME TypeOK, NEW r \in Requests, ApiStep(r)
  PROVE  TypeOK'
<1> USE DEF requestVars, channelVars, outboxVars, runVars, historyVars, hcmVars
<1>1. CASE create(r)
  <2>1. saga' \in [Requests -> SagaStates \cup {"none"}]
        /\ status' \in [Requests -> RequestStatuses \cup {"none"}]
    BY <1>1, TransitionTypes DEF create, RequestStatuses, SagaStates
  <2>2. moves' \in [Requests -> [ReservationTypes -> Nat]]
    BY <1>1, AddMovementType DEF create, createMovement, TypeOK, ReservationTypes
  <2>3. /\ sent' \in [Requests -> 0..MaxEntries]
        /\ event' \in [Entries -> EventTypes \cup {"none"}]
        /\ Channel!ChannelTypeOK'
    BY <1>1, EnqueueTypes DEF create, EventTypes
  <2> QED
    BY <1>1, <2>1, <2>2, <2>3 DEF create, TypeOK, HcmTypeOK
<1>2. ASSUME NEW ev \in EventTypes, NEW sg \in SagaStates, transitionWithOutbox(r, ev, sg)
      PROVE  TypeOK'
  <2>1. saga' \in [Requests -> SagaStates \cup {"none"}]
        /\ status' \in [Requests -> RequestStatuses \cup {"none"}]
    BY <1>2, TransitionTypes DEF transitionWithOutbox, RequestStatuses
  <2>2. /\ sent' \in [Requests -> 0..MaxEntries]
        /\ event' \in [Entries -> EventTypes \cup {"none"}]
        /\ Channel!ChannelTypeOK'
    BY <1>2, EnqueueTypes DEF transitionWithOutbox
  <2> QED
    BY <1>2, <2>1, <2>2 DEF transitionWithOutbox, TypeOK, HcmTypeOK
<1>3. CASE approve(r) \/ reject(r) \/ cancel(r)
  BY <1>2, <1>3 DEF approve, reject, cancel, EventTypes, SagaStates
<1>4. CASE forceFail(r)
  <2>1. saga' \in [Requests -> SagaStates \cup {"none"}]
        /\ status' \in [Requests -> RequestStatuses \cup {"none"}]
    BY <1>4, TransitionTypes DEF forceFail, RequestStatuses, SagaStates
  <2>2. moves' \in [Requests -> [ReservationTypes -> Nat]]
    BY <1>4, AddMovementType DEF forceFail, createMovement, TypeOK, ReservationTypes
  <2>3. env' \in [Disturbances -> Nat] /\ \A x \in Disturbances : env'[x] <= Budget[x]
    BY <1>4, SpendTypes DEF forceFail
  <2> QED
    BY <1>4, <2>1, <2>2, <2>3
    DEF forceFail, TypeOK, HcmTypeOK, Channel!ChannelTypeOK
<1> QED
  BY <1>1, <1>3, <1>4 DEF ApiStep

\* Going to a step other than "idle" keeps the slots in their types.
LEMMA GoToTypes ==
  ASSUME TypeOK, NEW w \in Workers, NEW step \in Steps \ {"idle"},
         pc[w] # "idle", GoTo(w, step)
  PROVE  /\ pc' \in [Workers -> Steps]
         /\ task' \in [Workers -> Entries \cup {NoEntry}]
         /\ snap' \in [Workers -> Int \cup {NoRow}]
         /\ \A x \in Workers : pc'[x] = "idle" <=> task'[x] = NoEntry
BY DEF TypeOK, GoTo

\* A step of a run that only talks to the HCM or only throws.
LEMMA TypeQuietStep ==
  ASSUME TypeOK, NEW w \in Workers, pc[w] # "idle", NEW step \in Steps \ {"idle"},
         GoTo(w, step), HcmTypeOK', RunFrame, UNCHANGED <<requestVars, moves, total>>
  PROVE  TypeOK'
<1> USE DEF requestVars, channelVars, outboxVars, runVars, historyVars, RunFrame
<1>1. Channel!ChannelTypeOK'
  BY DEF TypeOK, Channel!ChannelTypeOK
<1> QED
  BY <1>1, GoToTypes DEF TypeOK

\* A step of a run that ends its saga: one movement and one transition.
LEMMA TypeEndingStep ==
  ASSUME TypeOK, NEW w \in Workers, pc[w] # "idle", GoTo(w, "done"),
         NEW t \in ReservationTypes, createMovement(RequestOf(w), t),
         NEW st \in RequestStatuses, NEW sg \in SagaStates, transition(RequestOf(w), st, sg),
         total' \in [Balances -> Int \cup {NoRow}],
         RunFrame, UNCHANGED hcmVars
  PROVE  TypeOK'
<1> USE DEF channelVars, outboxVars, runVars, historyVars, hcmVars, RunFrame
<1>1. Channel!ChannelTypeOK' /\ HcmTypeOK'
  BY DEF TypeOK, Channel!ChannelTypeOK, HcmTypeOK
<1>2. moves' \in [Requests -> [ReservationTypes -> Nat]]
  BY RunTypes, AddMovementType DEF createMovement, TypeOK
<1>3. saga' \in [Requests -> SagaStates \cup {"none"}]
      /\ status' \in [Requests -> RequestStatuses \cup {"none"}]
  BY RunTypes, TransitionTypes
<1>4. /\ pc' \in [Workers -> Steps]
      /\ task' \in [Workers -> Entries \cup {NoEntry}]
      /\ snap' \in [Workers -> Int \cup {NoRow}]
      /\ \A x \in Workers : pc'[x] = "idle" <=> task'[x] = NoEntry
  BY GoToTypes DEF Steps
<1> QED
  BY <1>1, <1>2, <1>3, <1>4 DEF TypeOK

LEMMA TypeRun ==
  ASSUME TypeOK, NEW w \in Workers, RunStep(w)
  PROVE  TypeOK'
<1> USE DEF hcmVars
<1> DEFINE r == RequestOf(w)
           b == BalanceOf[r]
<1>1. CASE reserveCall(w)
  <2>1. PICK reply \in Replies, got \in Replies :
          /\ HcmReserve(r, reply)
          /\ GoTo(w, IF got = "ok" THEN "reserved"
                     ELSE IF got \in {"INSUFFICIENT_BALANCE", "INVALID_DIMENSION"} THEN "refused"
                     ELSE "threw")
    BY <1>1 DEF reserveCall
  <2>2. pc[w] # "idle"
    BY <1>1 DEF reserveCall
  <2>3. HcmTypeOK'
    BY <2>1, <2>2, RunTypes, HcmTypes DEF TypeOK
  <2>4. PICK step \in Steps \ {"idle"} : GoTo(w, step)
    BY <2>1 DEF Steps
  <2> QED
    BY <1>1, <2>2, <2>3, <2>4, TypeQuietStep DEF reserveCall
<1>2. CASE reserveCommit(w)
  <2>1. pc[w] # "idle"
    BY <1>2 DEF reserveCommit
  <2>2. CASE GoTo(w, "threw") /\ UNCHANGED requestVars
    <3>1. HcmTypeOK'
      BY <1>2 DEF reserveCommit, TypeOK, HcmTypeOK
    <3> QED
      BY <1>2, <2>1, <2>2, <3>1, TypeQuietStep DEF reserveCommit, Steps
  <2>3. CASE GoTo(w, "done") /\ transition(r, "PENDING_APPROVAL", "AWAITING_APPROVAL")
    <3> USE DEF channelVars, outboxVars, runVars, historyVars, RunFrame
    <3>1. saga' \in [Requests -> SagaStates \cup {"none"}]
          /\ status' \in [Requests -> RequestStatuses \cup {"none"}]
      BY <2>1, <2>3, RunTypes, TransitionTypes DEF RequestStatuses, SagaStates
    <3>2. Channel!ChannelTypeOK' /\ HcmTypeOK'
      BY <1>2 DEF reserveCommit, TypeOK, Channel!ChannelTypeOK, HcmTypeOK
    <3>3. /\ pc' \in [Workers -> Steps]
          /\ task' \in [Workers -> Entries \cup {NoEntry}]
          /\ snap' \in [Workers -> Int \cup {NoRow}]
          /\ \A x \in Workers : pc'[x] = "idle" <=> task'[x] = NoEntry
      BY <2>1, <2>3, GoToTypes DEF Steps
    <3> QED
      BY <1>2, <3>1, <3>2, <3>3 DEF reserveCommit, TypeOK
  <2> QED
    BY <1>2, <2>2, <2>3 DEF reserveCommit
<1>3. CASE failRequest(w)
  <2>1. total' \in [Balances -> Int \cup {NoRow}]
    BY <1>3 DEF failRequest, TypeOK
  <2> QED
    BY <1>3, <2>1, TypeEndingStep DEF failRequest, RequestStatuses, SagaStates, ReservationTypes
<1>4. CASE confirmCheck(w)
  <2>1. PICK step \in Steps \ {"idle"} : GoTo(w, step)
    BY <1>4 DEF confirmCheck, Steps
  <2>2. HcmTypeOK'
    BY <1>4 DEF confirmCheck, TypeOK, HcmTypeOK
  <2> QED
    BY <1>4, <2>1, <2>2, TypeQuietStep DEF confirmCheck
<1>5. CASE confirmCall(w)
  <2>1. PICK reply \in Replies, got \in Replies :
          HcmConfirm(r, reply) /\ GoTo(w, IF got = "ok" THEN "getBalance" ELSE "threw")
    BY <1>5 DEF confirmCall
  <2>2. pc[w] # "idle"
    BY <1>5 DEF confirmCall
  <2>3. HcmTypeOK'
    BY <2>1, <2>2, RunTypes, HcmTypes DEF TypeOK
  <2>4. PICK step \in Steps \ {"idle"} : GoTo(w, step)
    BY <2>1 DEF Steps
  <2> QED
    BY <1>5, <2>2, <2>3, <2>4, TypeQuietStep DEF confirmCall
<1>6. CASE getBalanceCall(w)
  <2>1. PICK reply \in Replies, got \in Replies :
          /\ HcmGetBalance(b, reply)
          /\ Received(reply, got)
          /\ IF got = "ok"
               THEN /\ pc' = [pc EXCEPT ![w] = "commit"]
                    /\ snap' = [snap EXCEPT ![w] = hcmTotal[b]]
                    /\ UNCHANGED task
               ELSE GoTo(w, "threw")
    BY <1>6 DEF getBalanceCall
  <2>2. pc[w] # "idle"
    BY <1>6 DEF getBalanceCall
  <2>3. HcmTypeOK'
    BY <2>1, <2>2, RunTypes, HcmTypes DEF TypeOK
  <2>4. CASE got # "ok"
    BY <1>6, <2>1, <2>2, <2>3, <2>4, TypeQuietStep DEF getBalanceCall, Steps
  <2>5. CASE got = "ok"
    <3> USE DEF requestVars, channelVars, outboxVars, historyVars, RunFrame
    <3>1. snap' \in [Workers -> Int \cup {NoRow}]
      <4>1. hcmTotal[b] \in Int \cup {NoRow}
        BY <2>2, RunTypes DEF TypeOK, HcmTypeOK
      <4> QED
        BY <2>1, <2>5, <4>1 DEF TypeOK
    <3>2. Channel!ChannelTypeOK'
      BY <1>6 DEF getBalanceCall, TypeOK, Channel!ChannelTypeOK
    <3>3. /\ pc' \in [Workers -> Steps]
          /\ task' \in [Workers -> Entries \cup {NoEntry}]
          /\ \A x \in Workers : pc'[x] = "idle" <=> task'[x] = NoEntry
      BY <2>1, <2>2, <2>5 DEF TypeOK, Steps
    <3> QED
      BY <1>6, <2>3, <3>1, <3>2, <3>3 DEF getBalanceCall, TypeOK
  <2> QED
    BY <2>4, <2>5
<1>7. CASE confirmCommit(w)
  <2>1. pc[w] # "idle"
    BY <1>7 DEF confirmCommit
  <2>2. CASE total[b] = NoRow
    <3>1. HcmTypeOK'
      BY <1>7 DEF confirmCommit, TypeOK, HcmTypeOK
    <3> QED
      BY <1>7, <2>1, <2>2, <3>1, TypeQuietStep DEF confirmCommit, Steps
  <2>3. CASE total[b] # NoRow
    <3>1. total' \in [Balances -> Int \cup {NoRow}]
      BY <1>7, <2>1, <2>3, RunTypes DEF confirmCommit, TypeOK
    <3> QED
      BY <1>7, <2>1, <2>3, <3>1, TypeEndingStep
      DEF confirmCommit, RequestStatuses, SagaStates, ReservationTypes
  <2> QED
    BY <2>2, <2>3
<1>8. CASE releaseCheck(w)
  <2>1. PICK step \in Steps \ {"idle"} : GoTo(w, step)
    BY <1>8 DEF releaseCheck, Steps
  <2>2. HcmTypeOK'
    BY <1>8 DEF releaseCheck, TypeOK, HcmTypeOK
  <2> QED
    BY <1>8, <2>1, <2>2, TypeQuietStep DEF releaseCheck
<1>9. CASE releaseCall(w)
  <2>1. PICK reply \in Replies, got \in Replies :
          HcmRelease(r, reply) /\ GoTo(w, IF got = "unavailable" THEN "threw" ELSE "released")
    BY <1>9 DEF releaseCall
  <2>2. pc[w] # "idle"
    BY <1>9 DEF releaseCall
  <2>3. HcmTypeOK'
    BY <2>1, <2>2, RunTypes, HcmTypes DEF TypeOK
  <2>4. PICK step \in Steps \ {"idle"} : GoTo(w, step)
    BY <2>1 DEF Steps
  <2> QED
    BY <1>9, <2>2, <2>3, <2>4, TypeQuietStep DEF releaseCall
<1>10. CASE compensateCommit(w)
  <2>1. total' \in [Balances -> Int \cup {NoRow}]
    BY <1>10 DEF compensateCommit, TypeOK
  <2>2. IntendedStatus(event[task[w]]) \in RequestStatuses
    BY DEF IntendedStatus, RequestStatuses
  <2> QED
    BY <1>10, <2>1, <2>2, TypeEndingStep DEF compensateCommit, SagaStates, ReservationTypes
<1>11. CASE databaseError(w)
  <2>1. HcmTypeOK'
    BY <1>11 DEF databaseError, TypeOK, HcmTypeOK
  <2> QED
    BY <1>11, <2>1, TypeQuietStep DEF databaseError, Steps
<1>12. CASE endJob(w)
  <2>1. task[w] \in Entries
    BY <1>12, RunTypes DEF endJob
  <2>2. Channel!ChannelTypeOK'
    BY <1>12, <2>1, ChannelTypes DEF endJob, TypeOK
  <2> QED
    BY <1>12, <2>2 DEF endJob, requestVars, historyVars, TypeOK, HcmTypeOK, Steps
<1> QED
  BY <1>1, <1>2, <1>3, <1>4, <1>5, <1>6, <1>7, <1>8, <1>9, <1>10, <1>11, <1>12 DEF RunStep

\* The first step of the handler an event calls for.
LEMMA FirstStepType ==
  ASSUME NEW ev \in EventTypes
  PROVE  FirstStep(ev) \in LiveSteps /\ StepFits(FirstStep(ev), ev)
BY DEF EventTypes, Compensations, FirstStep, StepFits, LiveSteps, ReserveSteps, ConfirmSteps,
       ReleaseSteps

LEMMA LiveStepsAreSteps == LiveSteps \subseteq Steps \ {"idle", "done", "threw"}
BY DEF LiveSteps, ReserveSteps, ConfirmSteps, ReleaseSteps, Steps

LEMMA TypeStart ==
  ASSUME TypeOK, NEW w \in Workers, NEW e \in Entries, startJob(w, e), event[e] # "none"
  PROVE  TypeOK'
<1> USE DEF requestVars, historyVars, hcmVars
<1>1. Channel!ChannelTypeOK' /\ HcmTypeOK'
  BY ChannelTypes DEF startJob, TypeOK, HcmTypeOK
<1>2. FirstStep(event[e]) \in Steps \ {"idle"}
  BY FirstStepType, LiveStepsAreSteps DEF TypeOK
<1>3. /\ pc' \in [Workers -> Steps]
      /\ task' \in [Workers -> Entries \cup {NoEntry}]
      /\ \A x \in Workers : pc'[x] = "idle" <=> task'[x] = NoEntry
  BY <1>2, SagaAssumption DEF startJob, TypeOK, Steps
<1> QED
  BY <1>1, <1>3 DEF startJob, TypeOK

LEMMA TypeQueue ==
  ASSUME TypeOK, NEW e \in Entries, QueueStep(e)
  PROVE  TypeOK'
<1> USE DEF requestVars, runVars, hcmVars, QueueFrame
<1>1. Channel!ChannelTypeOK'
  <2>1. Channel!Stall(e) \/ Channel!Resend(e)
    BY DEF QueueStep, recoverOrphan, lockExpires, redisForgets
  <2> QED
    BY <2>1, ChannelTypes DEF TypeOK
<1>2. e[1] \in Requests
  BY DEF Entries
<1>3. /\ env' \in [Disturbances -> Nat]
      /\ \A d \in Disturbances : env'[d] <= Budget[d]
  BY SpendTypes DEF QueueStep, recoverOrphan, lockExpires, redisForgets, TypeOK
<1>4. rerun' \in [Requests -> BOOLEAN]
  <2>1. PICK v \in BOOLEAN : rerun' = [rerun EXCEPT ![e[1]] = v]
    <3>1. (rerun[e[1]] \/ job[e] # "completed") \in BOOLEAN
      BY <1>2 DEF TypeOK
    <3> QED
      BY <3>1, ZenonT(30) DEF QueueStep, recoverOrphan, lockExpires, redisForgets
  <2> QED
    BY <2>1, <1>2 DEF TypeOK
<1>5. overlapped' \in [Requests -> BOOLEAN]
  <2>1. (overlapped[e[1]] \/ LiveRun(e)) \in BOOLEAN
    BY <1>2 DEF TypeOK
  <2>2. overlapped' = overlapped \/ \E v \in BOOLEAN : overlapped' = [overlapped EXCEPT ![e[1]] = v]
    BY <2>1, ZenonT(30) DEF QueueStep, recoverOrphan, lockExpires, redisForgets
  <2> QED
    BY <2>2, <1>2 DEF TypeOK
<1> QED
  BY <1>1, <1>3, <1>4, <1>5
  DEF QueueStep, recoverOrphan, lockExpires, redisForgets, TypeOK, HcmTypeOK

LEMMA TypeBalance ==
  ASSUME TypeOK, BalanceStep
  PROVE  TypeOK'
<1> USE DEF requestVars, channelVars, outboxVars, runVars, historyVars, hcmVars
<1>1. PICK b \in Balances : \/ \E t \in Totals \cup {hcmTotal[b]} : refreshBalance(b, t)
                            \/ \E t \in Totals : hcmDrift(b, t)
  BY DEF BalanceStep
<1>2. Channel!ChannelTypeOK'
  BY <1>1 DEF refreshBalance, hcmDrift, TypeOK, Channel!ChannelTypeOK
<1>3. /\ env' \in [Disturbances -> Nat]
      /\ \A d \in Disturbances : env'[d] <= Budget[d]
  BY <1>1, SpendTypes DEF refreshBalance, hcmDrift
<1>4. HcmTypeOK' /\ total' \in [Balances -> Int \cup {NoRow}]
  <2>1. ASSUME NEW t \in Totals \cup {hcmTotal[b]}, refreshBalance(b, t)
        PROVE  HcmTypeOK' /\ total' \in [Balances -> Int \cup {NoRow}]
    BY <2>1, SagaAssumption DEF refreshBalance, TypeOK, HcmTypeOK
  <2>2. ASSUME NEW t \in Totals, hcmDrift(b, t)
        PROVE  HcmTypeOK' /\ total' \in [Balances -> Int \cup {NoRow}]
    BY <2>2, SagaAssumption DEF hcmDrift, HcmSeed, TypeOK, HcmTypeOK
  <2> QED
    BY <1>1, <2>1, <2>2
<1> QED
  BY <1>1, <1>2, <1>3, <1>4 DEF refreshBalance, hcmDrift, TypeOK

LEMMA TypeCrash ==
  ASSUME TypeOK, crash
  PROVE  TypeOK'
<1> USE DEF requestVars, historyVars, hcmVars
<1>1. Channel!ChannelTypeOK'
  BY DEF crash, Channel!LoseLocks, TypeOK, Channel!ChannelTypeOK
<1>2. /\ env' \in [Disturbances -> Nat]
      /\ \A d \in Disturbances : env'[d] <= Budget[d]
  BY SpendTypes DEF crash
<1> QED
  BY <1>1, <1>2 DEF crash, TypeOK, HcmTypeOK, Steps

LEMMA TypeStutter ==
  ASSUME TypeOK, UNCHANGED vars
  PROVE  TypeOK'
BY DEF vars, requestVars, channelVars, outboxVars, runVars, historyVars, hcmVars, TypeOK,
       HcmTypeOK, Channel!ChannelTypeOK

(***************************************************************************)
(* The ledger invariant                                                    *)
(***************************************************************************)
IInv == TypeOK /\ LedgerInv

\* The number of entries of a request is a natural number.
LEMMA SentTypes ==
  ASSUME TypeOK, NEW r \in Requests
  PROVE  sent[r] \in Nat
BY SagaAssumption DEF TypeOK

\* A run under way has an entry that was written, of the kind its step belongs to.
LEMMA RunEntry ==
  ASSUME IInv, NEW w \in Workers, pc[w] \in LiveSteps
  PROVE  /\ pc[w] # "idle"
         /\ RequestOf(w) \in Requests
         /\ event[task[w]] \in EventTypes
         /\ saga[RequestOf(w)] # "none"
         /\ \E n \in 1..MaxEntries :
              /\ task[w] = <<RequestOf(w), n>>
              /\ n <= sent[RequestOf(w)]
              /\ pc[w] \in ReserveSteps <=> n = 1
<1>1. pc[w] # "idle"
  BY DEF LiveSteps, ReserveSteps, ConfirmSteps, ReleaseSteps
<1>2. task[w] \in Entries /\ RequestOf(w) \in Requests
  BY <1>1, RunTypes DEF IInv
<1>3. PICK n \in 1..MaxEntries : task[w] = <<RequestOf(w), n>>
  BY <1>2 DEF Entries, RequestOf
<1>4. StepFits(pc[w], event[task[w]])
  BY <1>1 DEF IInv, LedgerInv, RunsFit
<1>5. event[task[w]] \in EventTypes
  BY <1>4 DEF StepFits, LiveSteps, EventTypes, Compensations
<1>6. event[task[w]] # "none"
  BY <1>5 DEF EventTypes
<1>7. n <= sent[RequestOf(w)]
  <2>1. ~(sent[RequestOf(w)] < n)
    <3>1. event[<<RequestOf(w), n>>] # "none"
      BY <1>3, <1>6
    <3> QED
      BY <1>2, <3>1 DEF IInv, LedgerInv, EntriesFit
  <2> QED
    BY <1>2, <2>1, SentTypes DEF IInv
<1>8. saga[RequestOf(w)] # "none"
  <2>1. sent[RequestOf(w)] # 0
    BY <1>2, <1>7, SentTypes DEF IInv
  <2> QED
    BY <1>2, <2>1 DEF IInv, LedgerInv, EntriesFit
<1>9. pc[w] \in ReserveSteps <=> n = 1
  <2>1. pc[w] \in ReserveSteps <=> event[task[w]] = "RESERVE_HCM"
    BY <1>4 DEF StepFits, LiveSteps, Compensations
  <2>2. event[<<RequestOf(w), n>>] = "RESERVE_HCM" => n = 1
    BY <1>2 DEF IInv, LedgerInv, EntriesFit
  <2>3. event[<<RequestOf(w), 1>>] \in {"none", "RESERVE_HCM"}
    BY <1>2 DEF IInv, LedgerInv, EntriesFit
  <2>4. task[w] = <<RequestOf(w), n>>
    BY <1>3
  <2> HIDE DEF RequestOf
  <2> QED
    BY <1>6, <2>1, <2>2, <2>3, <2>4
<1> QED
  BY <1>1, <1>2, <1>3, <1>5, <1>7, <1>8, <1>9

\* Two runs of the reservation of a request do not go on at once.
LEMMA AloneReserving ==
  ASSUME IInv, NEW w \in Workers, NEW x \in Workers,
         pc[w] \in ReserveSteps, pc[x] \in ReserveSteps,
         RequestOf(w) = RequestOf(x), ~overlapped[RequestOf(w)]
  PROVE  w = x
<1>1. pc[w] \in LiveSteps /\ pc[x] \in LiveSteps
  BY DEF LiveSteps
<1>2. task[w] = task[x]
  BY <1>1, RunEntry
<1>3. lock[task[w]] = w /\ lock[task[x]] = x
  BY <1>1, RunEntry DEF IInv, LedgerInv, RunsFit
<1> QED
  BY <1>2, <1>3

\* Two runs of an undisturbed request do not go on at once.
LEMMA AloneUndisturbed ==
  ASSUME IInv, NEW w \in Workers, NEW x \in Workers,
         pc[w] \in LiveSteps, pc[x] \in LiveSteps,
         RequestOf(w) = RequestOf(x), Undisturbed(RequestOf(w))
  PROVE  w = x
<1> DEFINE r == RequestOf(w)
<1>1. PICK n \in 1..MaxEntries :
        task[w] = <<r, n>> /\ n <= sent[r] /\ (pc[w] \in ReserveSteps <=> n = 1)
  BY RunEntry
<1>2. PICK m \in 1..MaxEntries :
        task[x] = <<r, m>> /\ m <= sent[r] /\ (pc[x] \in ReserveSteps <=> m = 1)
  BY RunEntry
<1>3. r \in Requests /\ sent[r] \in Nat /\ sent[r] <= 2
  <2>1. r \in Requests
    BY RunEntry
  <2> QED
    BY <2>1, SentTypes DEF IInv, LedgerInv, DecisionsFit, Undisturbed
<1>4. pc[w] \in ReserveSteps <=> pc[x] \in ReserveSteps
  <2>1. saga[r] = ExpectedState(event[task[w]]) /\ saga[r] = ExpectedState(event[task[x]])
    BY DEF IInv, LedgerInv, SnapshotsFit
  <2>2. /\ StepFits(pc[w], event[task[w]]) /\ StepFits(pc[x], event[task[x]])
        /\ event[task[w]] \in EventTypes /\ event[task[x]] \in EventTypes
    BY RunEntry DEF IInv, LedgerInv, RunsFit
  <2>3. \A ev \in EventTypes : ExpectedState(ev) = "RESERVING_HCM" <=> ev = "RESERVE_HCM"
    BY DEF EventTypes, ExpectedState, Compensations
  <2>4. event[task[w]] = "RESERVE_HCM" <=> event[task[x]] = "RESERVE_HCM"
    BY <2>1, <2>2, <2>3
  <2> QED
    BY <2>2, <2>4 DEF StepFits, LiveSteps, Compensations
<1>5. n = m
  BY <1>1, <1>2, <1>3, <1>4
<1>6. lock[task[w]] = w /\ lock[task[x]] = x
  BY RunEntry DEF IInv, LedgerInv, RunsFit, Undisturbed
<1> QED
  BY <1>1, <1>2, <1>5, <1>6

LEMMA LedgerInit == Init => LedgerInv
<1> SUFFICES ASSUME Init PROVE LedgerInv
  OBVIOUS
<1>1. EntriesFit
  BY SagaAssumption DEF Init, Channel!ChannelInit, EntriesFit, Entries
<1>2. LocksFit
  BY DEF Init, Channel!ChannelInit, LocksFit
<1>3. RunsFit /\ SnapshotsFit /\ DecisionsFit
  BY DEF Init, RunsFit, SnapshotsFit, DecisionsFit, LiveSteps, ReserveSteps, ConfirmSteps,
     ReleaseSteps
<1>4. StatusMatchesSaga
  BY DEF Init, StatusMatchesSaga, TerminalStatuses, RequestStatuses
<1>5. LedgerBalanced
  BY DEF Init, LedgerBalanced, NoMovements, ReservationTypes, Count
<1> QED
  BY <1>1, <1>2, <1>3, <1>4, <1>5 DEF LedgerInv

\* What a step that leaves the requests, the ledger and the outbox alone does not disturb.
LEMMA LedgerFrame ==
  ASSUME LedgerInv,
         UNCHANGED <<status, saga, moves, sent, event, job, lock, forced, overlapped>>
  PROVE  /\ EntriesFit' /\ LocksFit' /\ StatusMatchesSaga' /\ LedgerBalanced'
         /\ \A r \in Requests : Undisturbed(r)' = Undisturbed(r)
<1>1. EntriesFit' /\ LocksFit'
  BY DEF LedgerInv, EntriesFit, LocksFit
<1>2. StatusMatchesSaga'
  BY DEF LedgerInv, StatusMatchesSaga
<1>3. \A r \in Requests : Undisturbed(r)' = Undisturbed(r)
  BY DEF Undisturbed
<1>4. LedgerBalanced'
  BY <1>3 DEF LedgerInv, LedgerBalanced
<1> QED
  BY <1>1, <1>2, <1>3, <1>4

\* A run that goes to a step of its own handler still fits its entry.
LEMMA RunsGoOn ==
  ASSUME IInv, NEW w \in Workers, pc[w] # "idle", NEW step,
         pc' = [pc EXCEPT ![w] = step], StepFits(step, event[task[w]]),
         UNCHANGED <<task, event, lock, overlapped>>
  PROVE  RunsFit'
<1>1. /\ \A x \in Workers : pc'[x] = IF x = w THEN step ELSE pc[x]
      /\ \A x \in Workers : RequestOf(x)' = RequestOf(x)
  BY DEF IInv, TypeOK, RequestOf
<1> QED
  BY <1>1 DEF IInv, LedgerInv, RunsFit, StepFits

\* A step of a run that changes nothing but where the run is.
LEMMA LedgerQuietRun ==
  ASSUME IInv, NEW w \in Workers, pc[w] # "idle", NEW step \in Steps \ {"idle"},
         pc' = [pc EXCEPT ![w] = step], StepFits(step, event[task[w]]),
         step \in LiveSteps => pc[w] \in LiveSteps,
         UNCHANGED <<task, status, saga, moves, sent, event, job, lock, forced, overlapped>>
  PROVE  LedgerInv'
<1>1. /\ EntriesFit' /\ LocksFit' /\ StatusMatchesSaga' /\ LedgerBalanced'
      /\ \A r \in Requests : Undisturbed(r)' = Undisturbed(r)
  BY LedgerFrame DEF IInv
<1>2. /\ \A x \in Workers : pc'[x] = IF x = w THEN step ELSE pc[x]
      /\ \A x \in Workers : RequestOf(x)' = RequestOf(x)
  BY DEF IInv, TypeOK, RequestOf
<1>3. RunsFit'
  BY RunsGoOn
<1>4. step \in ReserveSteps => pc[w] \in ReserveSteps
  BY DEF StepFits, IInv, LedgerInv, RunsFit, LiveSteps, Compensations
<1>5. DecisionsFit'
  BY <1>2, <1>4 DEF IInv, LedgerInv, DecisionsFit
<1>6. SnapshotsFit'
  <2> SUFFICES ASSUME NEW x \in Workers, pc'[x] \in LiveSteps, Undisturbed(RequestOf(x))'
               PROVE  saga[RequestOf(x)] = ExpectedState(event[task[x]])
    BY <1>2 DEF SnapshotsFit, ExpectedState
  <2>1. pc[x] \in LiveSteps
    BY <1>2
  <2>2. Undisturbed(RequestOf(x))
    BY <1>2 DEF Undisturbed
  <2> QED
    BY <2>1, <2>2 DEF IInv, LedgerInv, SnapshotsFit
<1> QED
  BY <1>1, <1>3, <1>5, <1>6 DEF LedgerInv

\* The step that ends a saga: the movement of the right type, the final status, TERMINAL.
LEMMA LedgerEndingRun ==
  ASSUME IInv, NEW w \in Workers, pc[w] \in LiveSteps, pc' = [pc EXCEPT ![w] = "done"],
         NEW t \in {"CONFIRMED", "CANCELLED"}, createMovement(RequestOf(w), t),
         NEW st \in TerminalStatuses, t = "CONFIRMED" <=> st = "APPROVED",
         transition(RequestOf(w), st, "TERMINAL"),
         UNCHANGED <<task, sent, event, job, lock, forced, overlapped>>
  PROVE  LedgerInv'
<1> DEFINE q == RequestOf(w)
<1>1. q \in Requests /\ saga[q] # "none" /\ event[task[w]] \in EventTypes
  BY RunEntry
<1>2. /\ \A r \in Requests : saga'[r] = IF r = q THEN "TERMINAL" ELSE saga[r]
      /\ \A r \in Requests : status'[r] = IF r = q THEN st ELSE status[r]
      /\ \A r \in Requests : moves'[r] =
           IF r = q THEN [moves[q] EXCEPT ![t] = moves[q][t] + 1] ELSE moves[r]
  BY <1>1 DEF transition, createMovement, AddMovement, IInv, TypeOK
<1>3. /\ \A x \in Workers : pc'[x] = IF x = w THEN "done" ELSE pc[x]
      /\ \A x \in Workers : RequestOf(x)' = RequestOf(x)
      /\ \A r \in Requests : Undisturbed(r)' = Undisturbed(r)
  BY DEF IInv, TypeOK, RequestOf, Undisturbed
<1>4. EntriesFit' /\ LocksFit'
  BY <1>1, <1>2 DEF IInv, LedgerInv, EntriesFit, LocksFit
<1>5. RunsFit'
  <2>1. StepFits("done", event[task[w]])
    BY DEF StepFits, ReserveSteps, ConfirmSteps, ReleaseSteps
  <2> QED
    BY <1>1, <2>1, RunEntry, RunsGoOn
<1>6. StatusMatchesSaga'
  BY <1>2 DEF IInv, LedgerInv, StatusMatchesSaga, TerminalStatuses, RequestStatuses
<1>7. DecisionsFit'
  <2>1. \A r \in Requests : ~overlapped[r] =>
          /\ sent[r] <= 2
          /\ saga'[r] \in {"RESERVING_HCM", "AWAITING_APPROVAL"} => sent[r] = 1
    BY <1>2 DEF IInv, LedgerInv, DecisionsFit
  <2>2. ASSUME NEW x \in Workers, pc'[x] \in ReserveSteps, ~overlapped[RequestOf(x)]
        PROVE  sent[RequestOf(x)] = 1 /\ saga'[RequestOf(x)] \in {"RESERVING_HCM", "TERMINAL"}
    <3>1. x # w /\ pc[x] \in ReserveSteps
      BY <1>3, <2>2 DEF ReserveSteps
    <3>2. RequestOf(x) \in Requests
      BY <3>1, RunEntry DEF LiveSteps
    <3> QED
      BY <1>2, <2>2, <3>1, <3>2 DEF IInv, LedgerInv, DecisionsFit
  <2> QED
    BY <1>3, <2>1, <2>2 DEF DecisionsFit
<1>8. SnapshotsFit'
  <2> SUFFICES ASSUME NEW x \in Workers, pc'[x] \in LiveSteps, Undisturbed(RequestOf(x))'
               PROVE  saga'[RequestOf(x)] = ExpectedState(event[task[x]])
    BY <1>3 DEF SnapshotsFit, ExpectedState
  <2>1. x # w /\ pc[x] \in LiveSteps
    BY <1>3 DEF LiveSteps, ReserveSteps, ConfirmSteps, ReleaseSteps
  <2>2. RequestOf(x) \in Requests /\ Undisturbed(RequestOf(x))
    BY <1>3, <2>1, RunEntry DEF Undisturbed
  <2>3. RequestOf(x) # q
    BY <2>1, <2>2, AloneUndisturbed
  <2> QED
    BY <1>2, <2>1, <2>2, <2>3 DEF IInv, LedgerInv, SnapshotsFit
<1>9. LedgerBalanced'
  <2>1. ASSUME Undisturbed(q)
        PROVE  /\ moves'[q]["PENDING_RESERVATION"] = 1
               /\ moves'[q]["CONFIRMED"] = Count(st = "APPROVED")
               /\ moves'[q]["CANCELLED"] = Count(st # "APPROVED")
    <3>1. saga[q] = ExpectedState(event[task[w]])
      BY <2>1 DEF IInv, LedgerInv, SnapshotsFit
    <3>2. saga[q] # "TERMINAL"
      BY <1>1, <3>1 DEF EventTypes, ExpectedState, Compensations
    <3>3. status[q] # "APPROVED"
      BY <1>1, <3>2 DEF IInv, LedgerInv, StatusMatchesSaga, TerminalStatuses, RequestStatuses
    <3>4. /\ moves[q]["PENDING_RESERVATION"] = 1
          /\ moves[q]["CONFIRMED"] = 0
          /\ moves[q]["CANCELLED"] = 0
      BY <1>1, <2>1, <3>2, <3>3 DEF IInv, LedgerInv, LedgerBalanced, Count
    <3>5. moves'[q] = [moves[q] EXCEPT ![t] = moves[q][t] + 1]
          /\ moves[q] \in [ReservationTypes -> Nat]
      BY <1>1, <1>2 DEF IInv, TypeOK
    <3> QED
      BY <3>4, <3>5 DEF Count, ReservationTypes
  <2>2. ASSUME NEW r \in Requests, r # q, Undisturbed(r)
        PROVE  /\ moves'[r]["PENDING_RESERVATION"] = Count(saga'[r] # "none")
               /\ moves'[r]["CONFIRMED"] = Count(status'[r] = "APPROVED")
               /\ moves'[r]["CANCELLED"] = Count(saga'[r] = "TERMINAL" /\ status'[r] # "APPROVED")
    BY <1>2, <2>2 DEF IInv, LedgerInv, LedgerBalanced
  <2>3. Count(saga'[q] # "none") = 1 /\ saga'[q] = "TERMINAL" /\ status'[q] = st
    BY <1>1, <1>2 DEF Count
  <2>4. Count(saga'[q] = "TERMINAL" /\ status'[q] # "APPROVED") = Count(st # "APPROVED")
    BY <2>3 DEF Count
  <2> SUFFICES ASSUME NEW r \in Requests, Undisturbed(r)
        PROVE  /\ moves'[r]["PENDING_RESERVATION"] = Count(saga'[r] # "none")
               /\ moves'[r]["CONFIRMED"] = Count(status'[r] = "APPROVED")
               /\ moves'[r]["CANCELLED"] = Count(saga'[r] = "TERMINAL" /\ status'[r] # "APPROVED")
    BY <1>3 DEF LedgerBalanced, Count
  <2> QED
    BY <2>1, <2>2, <2>3, <2>4
<1> QED
  BY <1>4, <1>5, <1>6, <1>7, <1>8, <1>9 DEF LedgerInv

\* The reservation is in place: the request waits for a decision.
LEMMA LedgerReserved ==
  ASSUME IInv, NEW w \in Workers, pc[w] \in ReserveSteps, pc' = [pc EXCEPT ![w] = "done"],
         transition(RequestOf(w), "PENDING_APPROVAL", "AWAITING_APPROVAL"),
         UNCHANGED <<moves, task, sent, event, job, lock, forced, overlapped>>
  PROVE  LedgerInv'
<1> DEFINE q == RequestOf(w)
<1>1. pc[w] \in LiveSteps /\ q \in Requests /\ saga[q] # "none" /\ event[task[w]] \in EventTypes
  BY RunEntry DEF LiveSteps
<1>2. /\ \A r \in Requests : saga'[r] = IF r = q THEN "AWAITING_APPROVAL" ELSE saga[r]
      /\ \A r \in Requests : status'[r] = IF r = q THEN "PENDING_APPROVAL" ELSE status[r]
  BY <1>1 DEF transition, IInv, TypeOK
<1>3. /\ \A x \in Workers : pc'[x] = IF x = w THEN "done" ELSE pc[x]
      /\ \A x \in Workers : RequestOf(x)' = RequestOf(x)
      /\ \A r \in Requests : Undisturbed(r)' = Undisturbed(r)
  BY DEF IInv, TypeOK, RequestOf, Undisturbed
<1>4. EntriesFit' /\ LocksFit'
  BY <1>1, <1>2 DEF IInv, LedgerInv, EntriesFit, LocksFit
<1>5. RunsFit'
  <2>1. StepFits("done", event[task[w]])
    BY DEF StepFits, ReserveSteps, ConfirmSteps, ReleaseSteps
  <2> QED
    BY <1>1, <2>1, RunEntry, RunsGoOn
<1>6. StatusMatchesSaga'
  BY <1>2 DEF IInv, LedgerInv, StatusMatchesSaga, TerminalStatuses, RequestStatuses
<1>7. DecisionsFit'
  <2>1. \A r \in Requests : ~overlapped[r] =>
          /\ sent[r] <= 2
          /\ saga'[r] \in {"RESERVING_HCM", "AWAITING_APPROVAL"} => sent[r] = 1
    BY <1>2 DEF IInv, LedgerInv, DecisionsFit
  <2>2. ASSUME NEW x \in Workers, pc'[x] \in ReserveSteps, ~overlapped[RequestOf(x)]
        PROVE  sent[RequestOf(x)] = 1 /\ saga'[RequestOf(x)] \in {"RESERVING_HCM", "TERMINAL"}
    <3>1. x # w /\ pc[x] \in ReserveSteps
      BY <1>3, <2>2 DEF ReserveSteps
    <3>2. RequestOf(x) \in Requests
      BY <3>1, RunEntry DEF LiveSteps
    <3>3. RequestOf(x) # q
      BY <2>2, <3>1, AloneReserving
    <3> QED
      BY <1>2, <2>2, <3>1, <3>2, <3>3 DEF IInv, LedgerInv, DecisionsFit
  <2> QED
    BY <1>3, <2>1, <2>2 DEF DecisionsFit
<1>8. SnapshotsFit'
  <2> SUFFICES ASSUME NEW x \in Workers, pc'[x] \in LiveSteps, Undisturbed(RequestOf(x))'
               PROVE  saga'[RequestOf(x)] = ExpectedState(event[task[x]])
    BY <1>3 DEF SnapshotsFit, ExpectedState
  <2>1. x # w /\ pc[x] \in LiveSteps
    BY <1>3 DEF LiveSteps, ReserveSteps, ConfirmSteps, ReleaseSteps
  <2>2. RequestOf(x) \in Requests /\ Undisturbed(RequestOf(x))
    BY <1>3, <2>1, RunEntry DEF Undisturbed
  <2>3. RequestOf(x) # q
    BY <1>1, <2>1, <2>2, AloneUndisturbed
  <2> QED
    BY <1>2, <2>1, <2>2, <2>3 DEF IInv, LedgerInv, SnapshotsFit
<1>9. LedgerBalanced'
  <2>1. ASSUME Undisturbed(q)
        PROVE  saga[q] # "TERMINAL" /\ status[q] # "APPROVED"
    <3>1. saga[q] = ExpectedState(event[task[w]])
      BY <1>1, <2>1 DEF IInv, LedgerInv, SnapshotsFit
    <3>2. saga[q] # "TERMINAL"
      BY <1>1, <3>1 DEF EventTypes, ExpectedState, Compensations
    <3> QED
      BY <1>1, <3>2 DEF IInv, LedgerInv, StatusMatchesSaga, TerminalStatuses, RequestStatuses
  <2> QED
    BY <1>1, <1>2, <1>3, <2>1 DEF IInv, LedgerInv, LedgerBalanced, Count
<1> QED
  BY <1>4, <1>5, <1>6, <1>7, <1>8, <1>9 DEF LedgerInv

\* The entry that will be written next.
LEMMA NextEntry ==
  ASSUME IInv, NEW r \in Requests, NEW ev, enqueueInTx(r, ev)
  PROVE  /\ sent[r] + 1 \in 1..MaxEntries
         /\ event[<<r, sent[r] + 1>>] = "none"
         /\ lock[<<r, sent[r] + 1>>] = NoWorker
         /\ \A q \in Requests : sent'[q] = IF q = r THEN sent[r] + 1 ELSE sent[q]
         /\ \A e \in Entries : event'[e] = IF e = <<r, sent[r] + 1>> THEN ev ELSE event[e]
         /\ \A e \in Entries : job'[e] = IF e = <<r, sent[r] + 1>> THEN "queued" ELSE job[e]
         /\ lock' = lock
<1>1. sent[r] \in Nat /\ sent[r] + 1 \in 1..MaxEntries
  BY SagaAssumption DEF IInv, TypeOK, enqueueInTx
<1>2. <<r, sent[r] + 1>> \in Entries
  BY <1>1 DEF Entries
<1>3. event[<<r, sent[r] + 1>>] = "none" /\ job[<<r, sent[r] + 1>>] = "none"
  <2>1. PICK n \in 1..MaxEntries : n = sent[r] + 1
    BY <1>1
  <2>2. sent[r] < n
    BY <1>1, <2>1
  <2>3. event[<<r, n>>] = "none" /\ job[<<r, n>>] = "none"
    BY <2>2 DEF IInv, LedgerInv, EntriesFit
  <2> QED
    BY <2>1, <2>3
<1>4. lock[<<r, sent[r] + 1>>] = NoWorker
  BY <1>2, <1>3 DEF IInv, LedgerInv, LocksFit
<1>5. \A q \in Requests : sent'[q] = IF q = r THEN sent[r] + 1 ELSE sent[q]
  BY DEF enqueueInTx, IInv, TypeOK
<1>6. /\ \A e \in Entries : event'[e] = IF e = <<r, sent[r] + 1>> THEN ev ELSE event[e]
      /\ \A e \in Entries : job'[e] = IF e = <<r, sent[r] + 1>> THEN "queued" ELSE job[e]
      /\ lock' = lock
  BY <1>2 DEF enqueueInTx, Channel!Enqueue, IInv, TypeOK, Channel!ChannelTypeOK
<1> QED
  BY <1>1, <1>3, <1>4, <1>5, <1>6

\* Writing an entry: the queue and the runs under way keep their invariants.
LEMMA LedgerEnqueue ==
  ASSUME IInv, NEW r \in Requests, NEW ev \in EventTypes, enqueueInTx(r, ev),
         ev = "RESERVE_HCM" <=> sent[r] = 0,
         NEW st, NEW sg \in SagaStates, transition(r, st, sg),
         UNCHANGED <<pc, task, overlapped>>
  PROVE  /\ EntriesFit' /\ LocksFit' /\ RunsFit'
         /\ \A w \in Workers : pc[w] \in LiveSteps => event'[task[w]] = event[task[w]]
<1>1. sent[r] \in Nat
  BY SentTypes DEF IInv
<1>2. saga' = [saga EXCEPT ![r] = sg] /\ sg # "none"
  BY DEF transition, SagaStates
<1>3. EntriesFit'
  <2> SUFFICES ASSUME NEW q \in Requests
               PROVE  /\ saga'[q] = "none" <=> sent'[q] = 0
                      /\ \A n \in 1..MaxEntries :
                           /\ job'[<<q, n>>] = "none" <=> sent'[q] < n
                           /\ event'[<<q, n>>] = "none" <=> sent'[q] < n
                           /\ event'[<<q, n>>] = "RESERVE_HCM" => n = 1
                      /\ event'[<<q, 1>>] \in {"none", "RESERVE_HCM"}
    BY DEF EntriesFit
  <2>1. saga'[q] = "none" <=> sent'[q] = 0
    <3>1. saga'[q] = IF q = r THEN sg ELSE saga[q]
      BY <1>2 DEF IInv, TypeOK
    <3>2. sent'[q] = IF q = r THEN sent[r] + 1 ELSE sent[q]
      BY NextEntry
    <3>3. saga[q] = "none" <=> sent[q] = 0
      BY DEF IInv, LedgerInv, EntriesFit
    <3> QED
      BY <1>1, <1>2, <3>1, <3>2, <3>3
  <2>2. ASSUME NEW n \in 1..MaxEntries
        PROVE  /\ job'[<<q, n>>] = "none" <=> sent'[q] < n
               /\ event'[<<q, n>>] = "none" <=> sent'[q] < n
               /\ event'[<<q, n>>] = "RESERVE_HCM" => n = 1
    <3>1. <<q, n>> \in Entries
      BY DEF Entries
    <3>2. CASE <<q, n>> = <<r, sent[r] + 1>>
      <4>1. q = r /\ n = sent[r] + 1
        BY <3>2
      <4>2. job'[<<q, n>>] = "queued" /\ event'[<<q, n>>] = ev /\ sent'[q] = sent[r] + 1
        BY <3>1, <3>2, <4>1, NextEntry
      <4> QED
        BY <1>1, <4>1, <4>2 DEF EventTypes
    <3>3. CASE <<q, n>> # <<r, sent[r] + 1>>
      <4>1. job'[<<q, n>>] = job[<<q, n>>] /\ event'[<<q, n>>] = event[<<q, n>>]
        BY <3>1, <3>3, NextEntry
      <4>2. /\ job[<<q, n>>] = "none" <=> sent[q] < n
            /\ event[<<q, n>>] = "none" <=> sent[q] < n
            /\ event[<<q, n>>] = "RESERVE_HCM" => n = 1
        BY DEF IInv, LedgerInv, EntriesFit
      <4>3. sent'[q] < n <=> sent[q] < n
        <5>1. CASE q = r
          <6>1. n # sent[r] + 1 /\ sent'[q] = sent[r] + 1
            BY <3>3, <5>1, NextEntry
          <6> QED
            BY <1>1, <5>1, <6>1
        <5>2. CASE q # r
          <6>1. sent'[q] = sent[q]
            BY <5>2, NextEntry
          <6> QED
            BY <6>1
        <5> QED
          BY <5>1, <5>2
      <4> QED
        BY <4>1, <4>2, <4>3
    <3> QED
      BY <3>2, <3>3
  <2>3. event'[<<q, 1>>] \in {"none", "RESERVE_HCM"}
    <3>1. <<q, 1>> \in Entries
      BY SagaAssumption DEF Entries
    <3>2. CASE <<q, 1>> = <<r, sent[r] + 1>>
      <4>1. sent[r] = 0
        BY <1>1, <3>2
      <4> QED
        BY <3>1, <3>2, <4>1, NextEntry
    <3>3. CASE <<q, 1>> # <<r, sent[r] + 1>>
      <4>1. event'[<<q, 1>>] = event[<<q, 1>>]
        BY <3>1, <3>3, NextEntry
      <4>2. event[<<q, 1>>] \in {"none", "RESERVE_HCM"}
        BY DEF IInv, LedgerInv, EntriesFit
      <4> QED
        BY <4>1, <4>2
    <3> QED
      BY <3>2, <3>3
  <2> QED
    BY <2>1, <2>2, <2>3
<1>4. LocksFit'
  <2> SUFFICES ASSUME NEW e \in Entries, lock'[e] # NoWorker PROVE job'[e] = "active"
    BY DEF LocksFit
  <2>1. lock[e] # NoWorker /\ e # <<r, sent[r] + 1>>
    BY NextEntry
  <2> QED
    BY <2>1, NextEntry DEF IInv, LedgerInv, LocksFit
<1>5. ASSUME NEW w \in Workers, pc[w] \in LiveSteps
      PROVE  event'[task[w]] = event[task[w]]
  <2>1. task[w] \in Entries /\ event[task[w]] # "none"
    BY <1>5, RunEntry, RunTypes DEF IInv, EventTypes
  <2> QED
    BY <2>1, NextEntry
<1>6. RunsFit'
  <2> SUFFICES ASSUME NEW w \in Workers, pc[w] # "idle"
               PROVE  /\ ~overlapped[RequestOf(w)] => lock[task[w]] = w
                      /\ StepFits(pc[w], event'[task[w]])
    BY NextEntry DEF RunsFit, RequestOf, StepFits
  <2>1. StepFits(pc[w], event'[task[w]])
    <3>1. CASE pc[w] \in LiveSteps
      BY <1>5, <3>1 DEF IInv, LedgerInv, RunsFit
    <3>2. CASE pc[w] \notin LiveSteps
      BY <3>2 DEF StepFits, LiveSteps
    <3> QED
      BY <3>1, <3>2
  <2> QED
    BY <2>1 DEF IInv, LedgerInv, RunsFit
<1> QED
  BY <1>3, <1>4, <1>5, <1>6

LEMMA LedgerCreate ==
  ASSUME IInv, NEW r \in Requests, create(r)
  PROVE  LedgerInv'
<1> USE DEF create, runVars, historyVars
<1>1. sent[r] = 0 /\ saga[r] = "none"
  BY DEF IInv, LedgerInv, EntriesFit
<1>2. ASSUME NEW w \in Workers, pc[w] \in LiveSteps
      PROVE  RequestOf(w) \in Requests /\ RequestOf(w) # r
  BY <1>1, <1>2, RunEntry
<1>3. /\ \A q \in Requests : saga'[q] = IF q = r THEN "RESERVING_HCM" ELSE saga[q]
      /\ \A q \in Requests : status'[q] = IF q = r THEN "PENDING_APPROVAL" ELSE status[q]
      /\ \A q \in Requests : moves'[q] =
           IF q = r THEN [moves[r] EXCEPT !["PENDING_RESERVATION"] = @ + 1] ELSE moves[q]
  BY DEF transition, createMovement, AddMovement, IInv, TypeOK
<1>4. /\ EntriesFit' /\ LocksFit' /\ RunsFit'
      /\ \A w \in Workers : pc[w] \in LiveSteps => event'[task[w]] = event[task[w]]
  BY <1>1, LedgerEnqueue DEF EventTypes, SagaStates
<1>5. /\ \A w \in Workers : RequestOf(w)' = RequestOf(w)
      /\ \A q \in Requests : Undisturbed(q)' = Undisturbed(q)
  BY DEF RequestOf, Undisturbed
<1>6. StatusMatchesSaga'
  BY <1>3 DEF IInv, LedgerInv, StatusMatchesSaga, TerminalStatuses, RequestStatuses
<1>7. DecisionsFit'
  <2>1. \A q \in Requests : sent'[q] = IF q = r THEN 1 ELSE sent[q]
    <3>1. \A q \in Requests : sent'[q] = IF q = r THEN sent[r] + 1 ELSE sent[q]
      BY NextEntry
    <3> QED
      BY <1>1, <3>1
  <2>2. \A q \in Requests : ~overlapped[q] =>
          /\ sent'[q] <= 2
          /\ saga'[q] \in {"RESERVING_HCM", "AWAITING_APPROVAL"} => sent'[q] = 1
    BY <1>3, <2>1 DEF IInv, LedgerInv, DecisionsFit
  <2>3. ASSUME NEW w \in Workers, pc[w] \in ReserveSteps, ~overlapped[RequestOf(w)]
        PROVE  sent'[RequestOf(w)] = 1 /\ saga'[RequestOf(w)] \in {"RESERVING_HCM", "TERMINAL"}
    BY <1>2, <1>3, <2>1, <2>3 DEF IInv, LedgerInv, DecisionsFit, LiveSteps
  <2> QED
    BY <1>5, <2>2, <2>3 DEF DecisionsFit
<1>8. SnapshotsFit'
  <2> SUFFICES ASSUME NEW w \in Workers, pc[w] \in LiveSteps, Undisturbed(RequestOf(w))'
               PROVE  saga'[RequestOf(w)] = ExpectedState(event'[task[w]])
    BY <1>5 DEF SnapshotsFit, ExpectedState
  <2>1. Undisturbed(RequestOf(w)) /\ saga'[RequestOf(w)] = saga[RequestOf(w)]
    BY <1>2, <1>3, <1>5 DEF Undisturbed
  <2> QED
    BY <1>4, <2>1 DEF IInv, LedgerInv, SnapshotsFit
<1>9. LedgerBalanced'
  <2>1. status[r] = "none"
    BY <1>1 DEF IInv, LedgerInv, StatusMatchesSaga
  <2>2. Undisturbed(r) =>
          /\ moves[r]["PENDING_RESERVATION"] = 0
          /\ moves[r]["CONFIRMED"] = 0
          /\ moves[r]["CANCELLED"] = 0
    BY <1>1, <2>1 DEF IInv, LedgerInv, LedgerBalanced, Count
  <2>3. moves[r] \in [ReservationTypes -> Nat]
    BY DEF IInv, TypeOK
  <2>4. Undisturbed(r) =>
          /\ moves'[r]["PENDING_RESERVATION"] = 1
          /\ moves'[r]["CONFIRMED"] = 0
          /\ moves'[r]["CANCELLED"] = 0
    BY <1>3, <2>2, <2>3 DEF ReservationTypes
  <2> QED
    BY <1>3, <1>5, <2>4 DEF IInv, LedgerInv, LedgerBalanced, Count
<1> QED
  BY <1>4, <1>6, <1>7, <1>8, <1>9 DEF LedgerInv

LEMMA LedgerDecision ==
  ASSUME IInv, NEW r \in Requests, NEW ev \in EventTypes \ {"RESERVE_HCM"},
         NEW sg \in {"COMMITTING_HCM", "COMPENSATING_HCM"}, transitionWithOutbox(r, ev, sg)
  PROVE  LedgerInv'
<1> USE DEF transitionWithOutbox, runVars, historyVars
<1>1. sent[r] \in Nat /\ sent[r] # 0
  BY SentTypes DEF IInv, LedgerInv, EntriesFit
<1>2. /\ \A q \in Requests : saga'[q] = IF q = r THEN sg ELSE saga[q]
      /\ \A q \in Requests : status'[q] = IF q = r THEN "PENDING_APPROVAL" ELSE status[q]
  BY DEF transition, IInv, TypeOK
<1>3. /\ EntriesFit' /\ LocksFit' /\ RunsFit'
      /\ \A w \in Workers : pc[w] \in LiveSteps => event'[task[w]] = event[task[w]]
  BY <1>1, LedgerEnqueue DEF SagaStates
<1>4. /\ \A w \in Workers : RequestOf(w)' = RequestOf(w)
      /\ \A q \in Requests : Undisturbed(q)' = Undisturbed(q)
  BY DEF RequestOf, Undisturbed
<1>5. StatusMatchesSaga'
  BY <1>2 DEF IInv, LedgerInv, StatusMatchesSaga, TerminalStatuses, RequestStatuses
<1>6. DecisionsFit'
  <2>1. \A q \in Requests : sent'[q] = IF q = r THEN sent[r] + 1 ELSE sent[q]
    BY NextEntry
  <2>2. \A q \in Requests : ~overlapped[q] =>
          /\ sent'[q] <= 2
          /\ saga'[q] \in {"RESERVING_HCM", "AWAITING_APPROVAL"} => sent'[q] = 1
    BY <1>2, <2>1 DEF IInv, LedgerInv, DecisionsFit
  <2>3. ASSUME NEW w \in Workers, pc[w] \in ReserveSteps, ~overlapped[RequestOf(w)]
        PROVE  sent'[RequestOf(w)] = 1 /\ saga'[RequestOf(w)] \in {"RESERVING_HCM", "TERMINAL"}
    <3>1. sent[RequestOf(w)] = 1 /\ saga[RequestOf(w)] \in {"RESERVING_HCM", "TERMINAL"}
      BY <2>3 DEF IInv, LedgerInv, DecisionsFit
    <3>2. RequestOf(w) \in Requests /\ RequestOf(w) # r
      BY <2>3, <3>1, RunEntry DEF LiveSteps
    <3> QED
      BY <1>2, <2>1, <3>1, <3>2
  <2> QED
    BY <1>4, <2>2, <2>3 DEF DecisionsFit
<1>7. SnapshotsFit'
  <2> SUFFICES ASSUME NEW w \in Workers, pc[w] \in LiveSteps, Undisturbed(RequestOf(w))'
               PROVE  saga'[RequestOf(w)] = ExpectedState(event'[task[w]])
    BY <1>4 DEF SnapshotsFit, ExpectedState
  <2>1. RequestOf(w) \in Requests /\ event[task[w]] \in EventTypes
    BY RunEntry
  <2>2. saga[RequestOf(w)] = ExpectedState(event[task[w]])
    BY <1>4, <2>1 DEF IInv, LedgerInv, SnapshotsFit
  <2>3. saga[RequestOf(w)] # "AWAITING_APPROVAL"
    BY <2>1, <2>2 DEF EventTypes, ExpectedState, Compensations
  <2> QED
    BY <1>2, <1>3, <2>1, <2>2, <2>3
<1>8. LedgerBalanced'
  <2>1. status[r] # "APPROVED"
    BY DEF IInv, LedgerInv, StatusMatchesSaga, TerminalStatuses, RequestStatuses
  <2> QED
    BY <1>2, <1>4, <2>1 DEF IInv, LedgerInv, LedgerBalanced, Count
<1> QED
  BY <1>3, <1>5, <1>6, <1>7, <1>8 DEF LedgerInv

LEMMA LedgerForceFail ==
  ASSUME IInv, NEW r \in Requests, forceFail(r)
  PROVE  LedgerInv'
<1> USE DEF forceFail, runVars, outboxVars, channelVars
<1>1. /\ \A q \in Requests : saga'[q] = IF q = r THEN "TERMINAL" ELSE saga[q]
      /\ \A q \in Requests : status'[q] = IF q = r THEN "FAILED" ELSE status[q]
      /\ \A q \in Requests : q # r => moves'[q] = moves[q]
  BY DEF transition, createMovement, AddMovement, IInv, TypeOK
<1>2. /\ \A w \in Workers : RequestOf(w)' = RequestOf(w)
      /\ \A q \in Requests : Undisturbed(q)' <=> q # r /\ Undisturbed(q)
  BY DEF RequestOf, Undisturbed, IInv, TypeOK
<1>3. EntriesFit' /\ LocksFit' /\ RunsFit'
  BY <1>1, <1>2 DEF IInv, LedgerInv, EntriesFit, LocksFit, RunsFit, StepFits
<1>4. StatusMatchesSaga'
  BY <1>1 DEF IInv, LedgerInv, StatusMatchesSaga, TerminalStatuses, RequestStatuses
<1>5. DecisionsFit'
  <2>1. \A q \in Requests : ~overlapped[q] =>
          /\ sent[q] <= 2
          /\ saga'[q] \in {"RESERVING_HCM", "AWAITING_APPROVAL"} => sent[q] = 1
    BY <1>1 DEF IInv, LedgerInv, DecisionsFit
  <2>2. ASSUME NEW w \in Workers, pc[w] \in ReserveSteps, ~overlapped[RequestOf(w)]
        PROVE  sent[RequestOf(w)] = 1 /\ saga'[RequestOf(w)] \in {"RESERVING_HCM", "TERMINAL"}
    <3>1. RequestOf(w) \in Requests
      BY <2>2, RunEntry DEF LiveSteps
    <3> QED
      BY <1>1, <2>2, <3>1 DEF IInv, LedgerInv, DecisionsFit
  <2> QED
    BY <1>2, <2>1, <2>2 DEF DecisionsFit
<1>6. SnapshotsFit'
  <2> SUFFICES ASSUME NEW w \in Workers, pc[w] \in LiveSteps, Undisturbed(RequestOf(w))'
               PROVE  saga'[RequestOf(w)] = ExpectedState(event[task[w]])
    BY <1>2 DEF SnapshotsFit, ExpectedState
  <2>1. RequestOf(w) \in Requests
    BY RunEntry
  <2>2. RequestOf(w) # r /\ Undisturbed(RequestOf(w))
    BY <1>2, <2>1
  <2> QED
    BY <1>1, <2>1, <2>2 DEF IInv, LedgerInv, SnapshotsFit
<1>7. LedgerBalanced'
  BY <1>1, <1>2 DEF IInv, LedgerInv, LedgerBalanced
<1> QED
  BY <1>3, <1>4, <1>5, <1>6, <1>7 DEF LedgerInv

LEMMA LedgerStart ==
  ASSUME IInv, NEW w \in Workers, NEW e \in Entries, startJob(w, e)
  PROVE  LedgerInv' /\ event[e] # "none"
<1> USE DEF startJob, Channel!Take, requestVars, historyVars
<1> DEFINE q == e[1]
<1>1. PICK n \in 1..MaxEntries : q \in Requests /\ e = <<q, n>>
  BY DEF Entries
<1>2. event[e] # "none" /\ event[e] \in EventTypes
  <2>1. event[<<q, n>>] # "none"
    BY <1>1 DEF IInv, LedgerInv, EntriesFit
  <2> QED
    BY <1>1, <2>1 DEF IInv, TypeOK
<1>3. lock[e] = NoWorker
  BY DEF IInv, LedgerInv, LocksFit
<1> DEFINE step == IF saga[q] = ExpectedState(event[e]) THEN FirstStep(event[e]) ELSE "done"
<1>4. StepFits(step, event[e])
  BY <1>2, FirstStepType DEF StepFits, ReserveSteps, ConfirmSteps, ReleaseSteps
<1>5. step \in LiveSteps => saga[q] = ExpectedState(event[e])
  BY DEF LiveSteps, ReserveSteps, ConfirmSteps, ReleaseSteps
<1>6. /\ \A x \in Workers : pc'[x] = IF x = w THEN step ELSE pc[x]
      /\ \A x \in Workers : task'[x] = IF x = w THEN e ELSE task[x]
      /\ \A x \in Workers : RequestOf(x)' = IF x = w THEN q ELSE RequestOf(x)
      /\ \A f \in Entries : lock'[f] = IF f = e THEN w ELSE lock[f]
      /\ \A f \in Entries : job'[f] = IF f = e THEN "active" ELSE job[f]
      /\ \A r \in Requests : Undisturbed(r)' = Undisturbed(r)
  BY DEF IInv, TypeOK, Channel!ChannelTypeOK, RequestOf, Undisturbed
<1>7. EntriesFit'
  <2>1. ASSUME NEW r \in Requests, NEW m \in 1..MaxEntries
        PROVE  job'[<<r, m>>] = "none" <=> sent[r] < m
    <3>1. <<r, m>> \in Entries
      BY DEF Entries
    <3>2. job[<<r, m>>] = "none" <=> sent[r] < m
      BY DEF IInv, LedgerInv, EntriesFit
    <3> QED
      BY <1>6, <3>1, <3>2
  <2>2. EntriesFit
    BY DEF IInv, LedgerInv
  <2>3. UNCHANGED <<saga, sent, event>>
    OBVIOUS
  <2> HIDE DEF startJob
  <2> QED
    BY <2>1, <2>2, <2>3 DEF EntriesFit
<1>8. LocksFit'
  BY <1>6 DEF IInv, LedgerInv, LocksFit
<1>9. RunsFit'
  <2> SUFFICES ASSUME NEW x \in Workers, pc'[x] # "idle"
               PROVE  /\ ~overlapped[RequestOf(x)'] => lock'[task'[x]] = x
                      /\ StepFits(pc'[x], event[task'[x]])
    BY DEF RunsFit, StepFits, RequestOf
  <2>1. CASE x = w
    BY <1>4, <1>6, <2>1
  <2>2. CASE x # w
    <3>1. pc[x] # "idle" /\ task[x] \in Entries
      BY <1>6, <2>2, RunTypes DEF IInv
    <3>2. ~overlapped[RequestOf(x)] => lock[task[x]] = x
      BY <3>1 DEF IInv, LedgerInv, RunsFit
    <3>3. ~overlapped[RequestOf(x)] => task[x] # e
      BY <1>3, <3>2, SagaAssumption
    <3>4. StepFits(pc[x], event[task[x]])
      BY <3>1 DEF IInv, LedgerInv, RunsFit
    <3> QED
      BY <1>6, <2>2, <3>1, <3>2, <3>3, <3>4
  <2> QED
    BY <2>1, <2>2
<1>10. DecisionsFit'
  <2>1. ASSUME NEW x \in Workers, pc'[x] \in ReserveSteps, ~overlapped[RequestOf(x)']
        PROVE  sent[RequestOf(x)'] = 1 /\ saga[RequestOf(x)'] \in {"RESERVING_HCM", "TERMINAL"}
    <3>1. CASE x = w
      <4>1. pc'[w] = step /\ RequestOf(w)' = q /\ step \in ReserveSteps
        BY <1>6, <2>1, <3>1
      <4>2. event[e] = "RESERVE_HCM"
        BY <1>4, <4>1 DEF StepFits
      <4>3. saga[q] = "RESERVING_HCM"
        <5>1. step \in LiveSteps
          BY <4>1 DEF LiveSteps
        <5>2. saga[q] = ExpectedState(event[e])
          BY <1>5, <5>1
        <5>3. ExpectedState("RESERVE_HCM") = "RESERVING_HCM"
          BY DEF ExpectedState, Compensations
        <5> QED
          BY <4>2, <5>2, <5>3
      <4> QED
        BY <1>1, <2>1, <3>1, <4>1, <4>3 DEF IInv, LedgerInv, DecisionsFit
    <3>2. CASE x # w
      BY <1>6, <2>1, <3>2 DEF IInv, LedgerInv, DecisionsFit
    <3> QED
      BY <3>1, <3>2
  <2>2. \A r \in Requests : ~overlapped[r] =>
          /\ sent[r] <= 2
          /\ saga[r] \in {"RESERVING_HCM", "AWAITING_APPROVAL"} => sent[r] = 1
    BY DEF IInv, LedgerInv, DecisionsFit
  <2> QED
    BY <2>1, <2>2 DEF DecisionsFit, RequestOf
<1>11. SnapshotsFit'
  <2> SUFFICES ASSUME NEW x \in Workers, pc'[x] \in LiveSteps, Undisturbed(RequestOf(x))'
               PROVE  saga[RequestOf(x)'] = ExpectedState(event[task'[x]])
    BY DEF SnapshotsFit, ExpectedState, RequestOf
  <2>1. CASE x = w
    BY <1>5, <1>6, <2>1
  <2>2. CASE x # w
    <3>1. pc[x] \in LiveSteps /\ task'[x] = task[x] /\ RequestOf(x)' = RequestOf(x)
      BY <1>6, <2>2
    <3>2. Undisturbed(RequestOf(x))
      BY <3>1 DEF Undisturbed
    <3> QED
      BY <3>1, <3>2 DEF IInv, LedgerInv, SnapshotsFit
  <2> QED
    BY <2>1, <2>2
<1>12. StatusMatchesSaga'
  BY DEF IInv, LedgerInv, StatusMatchesSaga
<1>13. LedgerBalanced'
  BY <1>6 DEF IInv, LedgerInv, LedgerBalanced
<1> QED
  BY <1>2, <1>7, <1>8, <1>9, <1>10, <1>11, <1>12, <1>13 DEF LedgerInv

\* Steps of the queue or of the process that may end runs and unlock or move jobs: enough
\* that every run that goes on without its lock belongs to a request marked as overlapped.
LEMMA LedgerQueueMoves ==
  ASSUME IInv,
         UNCHANGED <<status, saga, moves, sent, event, forced>>,
         \A w \in Workers : pc'[w] # "idle" => pc'[w] = pc[w] /\ task'[w] = task[w],
         \A r \in Requests : overlapped[r] => overlapped'[r],
         \A e \in Entries : job'[e] = "none" <=> job[e] = "none",
         LocksFit',
         \A w \in Workers : pc'[w] # "idle" /\ ~overlapped'[RequestOf(w)] => lock'[task[w]] = w
  PROVE  LedgerInv'
<1>1. \A r \in Requests : Undisturbed(r)' => Undisturbed(r)
  BY DEF Undisturbed
<1>2. ASSUME NEW w \in Workers, pc'[w] # "idle"
      PROVE  /\ pc'[w] = pc[w] /\ task'[w] = task[w] /\ RequestOf(w)' = RequestOf(w)
             /\ RequestOf(w) \in Requests
  BY <1>2, RunTypes DEF IInv, RequestOf
<1>3. EntriesFit'
  <2> SUFFICES ASSUME NEW r \in Requests, NEW m \in 1..MaxEntries
               PROVE  job'[<<r, m>>] = "none" <=> sent[r] < m
    BY DEF EntriesFit, IInv, LedgerInv
  <2>1. <<r, m>> \in Entries
    BY DEF Entries
  <2>2. job[<<r, m>>] = "none" <=> sent[r] < m
    BY DEF IInv, LedgerInv, EntriesFit
  <2> QED
    BY <2>1, <2>2
<1>4. RunsFit'
  <2> SUFFICES ASSUME NEW w \in Workers, pc'[w] # "idle"
               PROVE  /\ ~overlapped'[RequestOf(w)'] => lock'[task'[w]] = w
                      /\ StepFits(pc'[w], event[task'[w]])
    BY DEF RunsFit, StepFits, RequestOf
  <2> QED
    BY <1>2 DEF IInv, LedgerInv, RunsFit
<1>5. DecisionsFit'
  <2>1. ASSUME NEW w \in Workers, pc'[w] \in ReserveSteps, ~overlapped'[RequestOf(w)']
        PROVE  sent[RequestOf(w)'] = 1 /\ saga[RequestOf(w)'] \in {"RESERVING_HCM", "TERMINAL"}
    <3>1. pc'[w] # "idle"
      BY <2>1 DEF ReserveSteps
    <3> QED
      BY <1>2, <2>1, <3>1 DEF IInv, LedgerInv, DecisionsFit
  <2>2. \A r \in Requests : ~overlapped'[r] =>
          /\ sent[r] <= 2
          /\ saga[r] \in {"RESERVING_HCM", "AWAITING_APPROVAL"} => sent[r] = 1
    BY DEF IInv, LedgerInv, DecisionsFit
  <2> QED
    BY <2>1, <2>2 DEF DecisionsFit, RequestOf
<1>6. SnapshotsFit'
  <2> SUFFICES ASSUME NEW w \in Workers, pc'[w] \in LiveSteps, Undisturbed(RequestOf(w))'
               PROVE  saga[RequestOf(w)'] = ExpectedState(event[task'[w]])
    BY DEF SnapshotsFit, ExpectedState, RequestOf
  <2>1. pc'[w] # "idle"
    BY DEF LiveSteps, ReserveSteps, ConfirmSteps, ReleaseSteps
  <2>2. Undisturbed(RequestOf(w))
    BY <1>1, <1>2, <2>1 DEF Undisturbed
  <2> QED
    BY <1>2, <2>1, <2>2 DEF IInv, LedgerInv, SnapshotsFit
<1>7. StatusMatchesSaga'
  BY DEF IInv, LedgerInv, StatusMatchesSaga
<1>8. LedgerBalanced'
  BY <1>1 DEF IInv, LedgerInv, LedgerBalanced
<1> QED
  BY <1>3, <1>4, <1>5, <1>6, <1>7, <1>8 DEF LedgerInv

LEMMA LedgerEnd ==
  ASSUME IInv, NEW w \in Workers, endJob(w)
  PROVE  LedgerInv'
<1> USE DEF endJob, Channel!Settle, requestVars, historyVars
<1>1. task[w] \in Entries
  BY RunTypes DEF IInv
<1> DEFINE o == IF pc[w] = "done" THEN "completed" ELSE "failed"
           own == lock[task[w]] = w
<1>2. /\ \A e \in Entries : job'[e] = IF e = task[w] /\ own THEN o ELSE job[e]
      /\ \A e \in Entries : lock'[e] = IF e = task[w] /\ own THEN NoWorker ELSE lock[e]
  BY <1>1 DEF IInv, TypeOK, Channel!ChannelTypeOK
<1>3. /\ \A x \in Workers : pc'[x] # "idle" => x # w /\ pc'[x] = pc[x] /\ task'[x] = task[x]
  BY DEF IInv, TypeOK
<1>4. own => job[task[w]] = "active"
  BY <1>1, SagaAssumption DEF IInv, LedgerInv, LocksFit
<1>5. \A e \in Entries : job'[e] = "none" <=> job[e] = "none"
  BY <1>2, <1>4
<1>6. LocksFit'
  BY <1>2 DEF IInv, LedgerInv, LocksFit
<1>7. ASSUME NEW x \in Workers, pc'[x] # "idle", ~overlapped'[RequestOf(x)]
      PROVE  lock'[task[x]] = x
  <2>1. x # w /\ pc[x] # "idle" /\ task[x] \in Entries
    BY <1>3, <1>7, RunTypes DEF IInv
  <2>2. lock[task[x]] = x
    BY <1>7, <2>1 DEF IInv, LedgerInv, RunsFit
  <2> QED
    BY <1>2, <2>1, <2>2
<1> QED
  BY <1>3, <1>5, <1>6, <1>7, LedgerQueueMoves

LEMMA LedgerQueue ==
  ASSUME IInv, NEW e \in Entries, QueueStep(e)
  PROVE  LedgerInv'
<1> USE DEF requestVars, runVars, QueueFrame
<1>1. Channel!Stall(e) \/ Channel!Resend(e)
  BY DEF QueueStep, recoverOrphan, lockExpires, redisForgets
<1>2. /\ \A f \in Entries : f # e => job'[f] = job[f]
      /\ \A f \in Entries : lock'[f] = IF f = e THEN NoWorker ELSE lock[f]
      /\ job[e] # "none" /\ job'[e] # "none"
  BY <1>1 DEF Channel!Stall, Channel!Resend, IInv, TypeOK, Channel!ChannelTypeOK
<1>3. UNCHANGED <<status, saga, moves, sent, event, forced, pc, task>>
  BY DEF QueueStep, recoverOrphan, lockExpires, redisForgets
<1>4. LocksFit'
  BY <1>2 DEF IInv, LedgerInv, LocksFit
<1>5. e[1] \in Requests
  BY DEF Entries
<1>6. \/ UNCHANGED overlapped /\ ~LiveRun(e)
      \/ overlapped' = [overlapped EXCEPT ![e[1]] = TRUE]
  <2>1. CASE recoverOrphan(e)
    BY <2>1 DEF recoverOrphan
  <2>2. CASE lockExpires(e)
    BY <2>2 DEF lockExpires
  <2>3. CASE redisForgets(e)
    <3>1. CASE LiveRun(e)
      <4>1. (overlapped[e[1]] \/ LiveRun(e)) = TRUE
        BY <3>1
      <4> QED
        BY <2>3, <4>1 DEF redisForgets
    <3>2. CASE ~LiveRun(e)
      <4>1. (overlapped[e[1]] \/ LiveRun(e)) = overlapped[e[1]]
        BY <3>2, <1>5, Zenon DEF IInv, TypeOK
      <4>2. [overlapped EXCEPT ![e[1]] = overlapped[e[1]]] = overlapped
        BY <1>5 DEF IInv, TypeOK
      <4> QED
        BY <2>3, <3>2, <4>1, <4>2 DEF redisForgets
    <3> QED
      BY <3>1, <3>2
  <2> QED
    BY <2>1, <2>2, <2>3 DEF QueueStep
<1>7. \A r \in Requests : overlapped[r] => overlapped'[r]
  BY <1>6 DEF IInv, TypeOK
<1>8. ASSUME NEW w \in Workers, pc[w] # "idle", ~overlapped'[RequestOf(w)]
      PROVE  lock'[task[w]] = w
  <2>1. task[w] \in Entries /\ RequestOf(w) \in Requests
    BY <1>8, RunTypes DEF IInv
  <2>2. lock[task[w]] = w
    BY <1>7, <1>8, <2>1 DEF IInv, LedgerInv, RunsFit
  <2>3. task[w] # e
    <3>1. CASE ~LiveRun(e)
      BY <1>8, <3>1 DEF LiveRun
    <3>2. CASE overlapped' = [overlapped EXCEPT ![e[1]] = TRUE]
      BY <1>5, <1>8, <2>1, <3>2 DEF RequestOf, IInv, TypeOK
    <3> QED
      BY <1>6, <3>1, <3>2
  <2> QED
    BY <1>2, <2>1, <2>2, <2>3
<1>9. \A f \in Entries : job'[f] = "none" <=> job[f] = "none"
  BY <1>2
<1> QED
  BY <1>3, <1>4, <1>7, <1>8, <1>9, LedgerQueueMoves

LEMMA LedgerCrash ==
  ASSUME IInv, crash
  PROVE  LedgerInv'
<1> USE DEF crash, Channel!LoseLocks, requestVars, historyVars
<1>1. LocksFit'
  BY DEF LocksFit
<1>2. \A w \in Workers : pc'[w] = "idle"
  OBVIOUS
<1> QED
  BY <1>1, <1>2, LedgerQueueMoves

LEMMA LedgerQuiet ==
  ASSUME IInv,
         UNCHANGED <<status, saga, moves, sent, event, job, lock, pc, task, forced, overlapped>>
  PROVE  LedgerInv'
<1>1. LocksFit'
  BY DEF IInv, LedgerInv, LocksFit
<1>2. \A w \in Workers : pc[w] # "idle" /\ ~overlapped[RequestOf(w)] => lock[task[w]] = w
  BY DEF IInv, LedgerInv, RunsFit
<1> QED
  BY <1>1, <1>2, LedgerQueueMoves

LEMMA LedgerRun ==
  ASSUME IInv, NEW w \in Workers, RunStep(w)
  PROVE  LedgerInv'
<1> USE DEF requestVars, channelVars, outboxVars, historyVars, RunFrame
<1> DEFINE r == RequestOf(w)
           ev == event[task[w]]
<1>1. ASSUME pc[w] # "idle", NEW step \in Steps \ {"idle"}, GoTo(w, step),
             StepFits(step, ev), step \in LiveSteps => pc[w] \in LiveSteps,
             RunFrame, UNCHANGED <<requestVars, moves>>
      PROVE  LedgerInv'
  BY <1>1, LedgerQuietRun DEF GoTo
<1>2. pc[w] # "idle" => StepFits(pc[w], ev)
  BY DEF IInv, LedgerInv, RunsFit
<1>3. StepFits("threw", ev) /\ "threw" \notin LiveSteps /\ "threw" \in Steps \ {"idle"}
  BY DEF StepFits, Steps, LiveSteps, ReserveSteps, ConfirmSteps, ReleaseSteps
<1>4. ReserveSteps \subseteq LiveSteps /\ ConfirmSteps \subseteq LiveSteps
        /\ ReleaseSteps \subseteq LiveSteps /\ LiveSteps \subseteq Steps \ {"idle"}
  BY LiveStepsAreSteps DEF LiveSteps
<1>5. CASE reserveCall(w)
  <2>1. PICK step \in {"reserved", "refused", "threw"} : GoTo(w, step)
    BY <1>5 DEF reserveCall
  <2>2. StepFits("reserve", ev)
    BY <1>2, <1>5 DEF reserveCall
  <2>3. StepFits(step, ev) /\ step \in Steps \ {"idle"}
    BY <1>3, <2>2 DEF StepFits, Steps, ReserveSteps, ConfirmSteps, ReleaseSteps
  <2>4. pc[w] \in LiveSteps /\ pc[w] # "idle"
    BY <1>4, <1>5 DEF reserveCall, ReserveSteps
  <2> QED
    BY <1>1, <1>5, <2>1, <2>3, <2>4 DEF reserveCall
<1>6. CASE reserveCommit(w)
  <2>1. pc[w] \in ReserveSteps /\ pc[w] # "idle"
    BY <1>6 DEF reserveCommit, ReserveSteps
  <2>2. CASE GoTo(w, "threw") /\ UNCHANGED requestVars
    BY <1>1, <1>3, <1>6, <2>1, <2>2 DEF reserveCommit
  <2>3. CASE GoTo(w, "done") /\ transition(r, "PENDING_APPROVAL", "AWAITING_APPROVAL")
    BY <1>6, <2>1, <2>3, LedgerReserved DEF reserveCommit, GoTo
  <2> QED
    BY <1>6, <2>2, <2>3 DEF reserveCommit
<1>7. CASE failRequest(w)
  <2>1. pc[w] \in LiveSteps
    BY <1>4, <1>7 DEF failRequest, ReserveSteps
  <2> QED
    BY <1>7, <2>1, LedgerEndingRun DEF failRequest, GoTo, TerminalStatuses, RequestStatuses
<1>8. CASE confirmCheck(w)
  <2>1. PICK step \in {"getBalance", "confirm"} : GoTo(w, step)
    BY <1>8 DEF confirmCheck
  <2>2. StepFits("confirmCheck", ev)
    BY <1>2, <1>8 DEF confirmCheck
  <2>3. StepFits(step, ev) /\ step \in Steps \ {"idle"}
    BY <2>2 DEF StepFits, Steps, ReserveSteps, ConfirmSteps, ReleaseSteps
  <2>4. pc[w] \in LiveSteps /\ pc[w] # "idle"
    BY <1>4, <1>8 DEF confirmCheck, ConfirmSteps
  <2> QED
    BY <1>1, <1>8, <2>1, <2>3, <2>4 DEF confirmCheck
<1>9. CASE confirmCall(w)
  <2>1. PICK step \in {"getBalance", "threw"} : GoTo(w, step)
    BY <1>9 DEF confirmCall
  <2>2. StepFits("confirm", ev)
    BY <1>2, <1>9 DEF confirmCall
  <2>3. StepFits(step, ev) /\ step \in Steps \ {"idle"}
    BY <1>3, <2>2 DEF StepFits, Steps, ReserveSteps, ConfirmSteps, ReleaseSteps
  <2>4. pc[w] \in LiveSteps /\ pc[w] # "idle"
    BY <1>4, <1>9 DEF confirmCall, ConfirmSteps
  <2> QED
    BY <1>1, <1>9, <2>1, <2>3, <2>4 DEF confirmCall
<1>10. CASE getBalanceCall(w)
  <2>1. PICK step \in {"commit", "threw"} : pc' = [pc EXCEPT ![w] = step] /\ UNCHANGED task
    BY <1>10 DEF getBalanceCall, GoTo
  <2>2. StepFits("getBalance", ev)
    BY <1>2, <1>10 DEF getBalanceCall
  <2>3. StepFits(step, ev) /\ step \in Steps \ {"idle"}
    BY <1>3, <2>2 DEF StepFits, Steps, ReserveSteps, ConfirmSteps, ReleaseSteps
  <2>4. pc[w] \in LiveSteps /\ pc[w] # "idle"
    BY <1>4, <1>10 DEF getBalanceCall, ConfirmSteps
  <2> QED
    BY <1>10, <2>1, <2>3, <2>4, LedgerQuietRun DEF getBalanceCall
<1>11. CASE confirmCommit(w)
  <2>1. pc[w] \in LiveSteps /\ pc[w] # "idle"
    BY <1>4, <1>11 DEF confirmCommit, ConfirmSteps
  <2>2. CASE total[BalanceOf[r]] = NoRow
    BY <1>1, <1>3, <1>11, <2>1, <2>2 DEF confirmCommit
  <2>3. CASE total[BalanceOf[r]] # NoRow
    BY <1>11, <2>1, <2>3, LedgerEndingRun
    DEF confirmCommit, GoTo, TerminalStatuses, RequestStatuses
  <2> QED
    BY <2>2, <2>3
<1>12. CASE releaseCheck(w)
  <2>1. PICK step \in {"released", "release"} : GoTo(w, step)
    BY <1>12 DEF releaseCheck
  <2>2. StepFits("releaseCheck", ev)
    BY <1>2, <1>12 DEF releaseCheck
  <2>3. StepFits(step, ev) /\ step \in Steps \ {"idle"}
    BY <2>2 DEF StepFits, Steps, ReserveSteps, ConfirmSteps, ReleaseSteps
  <2>4. pc[w] \in LiveSteps /\ pc[w] # "idle"
    BY <1>4, <1>12 DEF releaseCheck, ReleaseSteps
  <2> QED
    BY <1>1, <1>12, <2>1, <2>3, <2>4 DEF releaseCheck
<1>13. CASE releaseCall(w)
  <2>1. PICK step \in {"released", "threw"} : GoTo(w, step)
    BY <1>13 DEF releaseCall
  <2>2. StepFits("release", ev)
    BY <1>2, <1>13 DEF releaseCall
  <2>3. StepFits(step, ev) /\ step \in Steps \ {"idle"}
    BY <1>3, <2>2 DEF StepFits, Steps, ReserveSteps, ConfirmSteps, ReleaseSteps
  <2>4. pc[w] \in LiveSteps /\ pc[w] # "idle"
    BY <1>4, <1>13 DEF releaseCall, ReleaseSteps
  <2> QED
    BY <1>1, <1>13, <2>1, <2>3, <2>4 DEF releaseCall
<1>14. CASE compensateCommit(w)
  <2>1. pc[w] \in LiveSteps
    BY <1>4, <1>14 DEF compensateCommit, ReleaseSteps
  <2>2. PICK st \in TerminalStatuses \ {"APPROVED"} : st = IntendedStatus(ev)
    BY DEF IntendedStatus, TerminalStatuses, RequestStatuses
  <2> QED
    BY <1>14, <2>1, <2>2, LedgerEndingRun DEF compensateCommit, GoTo
<1>15. CASE databaseError(w)
  <2>1. pc[w] # "idle"
    BY <1>15 DEF databaseError
  <2> QED
    BY <1>1, <1>3, <1>15, <2>1 DEF databaseError
<1>16. CASE endJob(w)
  BY <1>16, LedgerEnd
<1> QED
  BY <1>5, <1>6, <1>7, <1>8, <1>9, <1>10, <1>11, <1>12, <1>13, <1>14, <1>15, <1>16 DEF RunStep

(***************************************************************************)
(* The theorems                                                            *)
(***************************************************************************)
\* Every step, and every stutter, keeps the invariant.
LEMMA Inductive ==
  ASSUME IInv, [Next]_vars
  PROVE  IInv'
<1>1. CASE \E r \in Requests : ApiStep(r)
  <2>1. PICK r \in Requests : ApiStep(r)
    BY <1>1
  <2>2. TypeOK'
    BY <2>1, TypeApi DEF IInv
  <2>3. LedgerInv'
    <3>1. CASE create(r)
      BY <3>1, LedgerCreate
    <3>2. CASE approve(r)
      BY <3>2, LedgerDecision DEF approve, EventTypes
    <3>3. CASE reject(r)
      BY <3>3, LedgerDecision DEF reject, EventTypes
    <3>4. CASE cancel(r)
      BY <3>4, LedgerDecision DEF cancel, EventTypes
    <3>5. CASE forceFail(r)
      BY <3>5, LedgerForceFail
    <3> QED
      BY <2>1, <3>1, <3>2, <3>3, <3>4, <3>5 DEF ApiStep
  <2> QED
    BY <2>2, <2>3 DEF IInv
<1>2. CASE \E w \in Workers, e \in Entries : startJob(w, e)
  <2>1. PICK w \in Workers, e \in Entries : startJob(w, e)
    BY <1>2
  <2>2. LedgerInv' /\ event[e] # "none"
    BY <2>1, LedgerStart
  <2> QED
    BY <2>1, <2>2, TypeStart DEF IInv
<1>3. CASE \E w \in Workers : RunStep(w)
  BY <1>3, TypeRun, LedgerRun DEF IInv
<1>4. CASE \E e \in Entries : QueueStep(e)
  BY <1>4, TypeQueue, LedgerQueue DEF IInv
<1>5. CASE BalanceStep
  <2>1. UNCHANGED <<status, saga, moves, sent, event, job, lock, pc, task, forced, overlapped>>
    BY <1>5 DEF BalanceStep, refreshBalance, hcmDrift, requestVars, channelVars, outboxVars,
                runVars, historyVars
  <2> QED
    BY <1>5, <2>1, TypeBalance, LedgerQuiet DEF IInv
<1>6. CASE crash
  BY <1>6, TypeCrash, LedgerCrash DEF IInv
<1>7. CASE UNCHANGED vars
  <2>1. UNCHANGED <<status, saga, moves, sent, event, job, lock, pc, task, forced, overlapped>>
    BY <1>7 DEF vars, requestVars, channelVars, outboxVars, runVars, historyVars
  <2> QED
    BY <1>7, <2>1, TypeStutter, LedgerQuiet DEF IInv
<1> QED
  BY <1>1, <1>2, <1>3, <1>4, <1>5, <1>6, <1>7 DEF Next

\* The invariant holds in every reachable state.
THEOREM Invariance == Spec => []IInv
<1>1. Init => IInv
  BY TypeInit, LedgerInit DEF IInv
<1>2. IInv /\ [Next]_vars => IInv'
  BY Inductive
<1> QED
  BY <1>1, <1>2, PTL DEF Spec

\* Every variable stays in its type, whatever the number of requests, slots and disturbances.
THEOREM TypeCorrect == Spec => []TypeOK
<1>1. IInv => TypeOK
  BY DEF IInv
<1> QED
  BY <1>1, Invariance, PTL

\* The inductive invariant that the runs check on small instances.
THEOREM LedgerInvariance == Spec => []LedgerInv
<1>1. IInv => LedgerInv
  BY DEF IInv
<1> QED
  BY <1>1, Invariance, PTL

\* status and sagaState agree on whether a request is over (transition() in
\* request.repository.ts and its callers).
THEOREM StatusAgreement == Spec => []StatusMatchesSaga
<1>1. IInv => StatusMatchesSaga
  BY DEF IInv, LedgerInv
<1> QED
  BY <1>1, Invariance, PTL

\* A request that was not force-failed and had no job running twice at once releases its
\* reservation exactly once, and not before its saga ends (the transactions of
\* hcm-saga.processor.ts).
THEOREM LedgerBalance == Spec => []LedgerBalanced
<1>1. IInv => LedgerBalanced
  BY DEF IInv, LedgerInv
<1> QED
  BY <1>1, Invariance, PTL

\* At most one of approve, reject and cancel succeeds (transitionWithOutbox).
THEOREM SingleDecision == Spec => []OneDecision
<1>1. IInv => OneDecision
  BY DEF IInv, LedgerInv, DecisionsFit, OneDecision
<1> QED
  BY <1>1, Invariance, PTL

\* A run that writes a request which is over finds it disturbed.
LEMMA RunSparesTerminal ==
  ASSUME IInv, NEW w \in Workers, pc[w] \in LiveSteps, Undisturbed(RequestOf(w))
  PROVE  saga[RequestOf(w)] # "TERMINAL"
<1>1. saga[RequestOf(w)] = ExpectedState(event[task[w]]) /\ event[task[w]] \in EventTypes
  BY RunEntry DEF IInv, LedgerInv, SnapshotsFit
<1> QED
  BY <1>1 DEF EventTypes, ExpectedState, Compensations

\* Nothing but an administrator's force-fail writes to a request that is over and that had
\* no job running twice at once: not a late run, a job delivered again or a second decision.
THEOREM TerminalStays == Spec => TerminalIsFinal
<1> DEFINE Kept(r) == saga'[r] = saga[r] /\ status'[r] = status[r]
<1>1. IInv /\ [Next]_vars => [TerminalKept]_vars
  <2> SUFFICES ASSUME IInv, Next, NEW r \in Requests,
                      saga[r] = "TERMINAL", Undisturbed(r), ~forced'[r]
               PROVE  Kept(r)
    BY DEF TerminalKept
  <2> USE DEF requestVars, QueueFrame
  <2>1. ASSUME NEW q \in Requests, NEW st, NEW sg, transition(q, st, sg), q # r
        PROVE  Kept(r)
    BY <2>1 DEF transition, IInv, TypeOK
  <2>2. ASSUME NEW q \in Requests, ApiStep(q) PROVE Kept(r)
    <3>1. CASE create(q)
      <4>1. q # r /\ transition(q, "PENDING_APPROVAL", "RESERVING_HCM")
        BY <3>1 DEF create
      <4> QED
        BY <2>1, <4>1
    <3>2. CASE approve(q) \/ reject(q) \/ cancel(q)
      <4>1. PICK sg \in SagaStates : q # r /\ transition(q, "PENDING_APPROVAL", sg)
        BY <3>2 DEF approve, reject, cancel, transitionWithOutbox, SagaStates
      <4> QED
        BY <2>1, <4>1
    <3>3. CASE forceFail(q)
      <4>1. q # r /\ transition(q, "FAILED", "TERMINAL")
        BY <3>3 DEF forceFail, IInv, TypeOK
      <4> QED
        BY <2>1, <4>1
    <3> QED
      BY <2>2, <3>1, <3>2, <3>3 DEF ApiStep
  <2>3. ASSUME NEW w \in Workers, RunStep(w) PROVE Kept(r)
    <3>1. UNCHANGED requestVars \/ (pc[w] \in {"reserved", "refused", "commit", "released"} /\
                                     \E st, sg : transition(RequestOf(w), st, sg))
      BY <2>3 DEF RunStep, reserveCall, reserveCommit, failRequest, confirmCheck, confirmCall,
           getBalanceCall, confirmCommit, releaseCheck, releaseCall, compensateCommit,
           databaseError, endJob
    <3>2. CASE UNCHANGED requestVars
      BY <3>2
    <3>3. CASE pc[w] \in {"reserved", "refused", "commit", "released"} /\
                 \E st, sg : transition(RequestOf(w), st, sg)
      <4>1. pc[w] \in LiveSteps
        BY <3>3 DEF LiveSteps, ReserveSteps, ConfirmSteps, ReleaseSteps
      <4>2. RequestOf(w) \in Requests /\ RequestOf(w) # r
        BY <4>1, RunEntry, RunSparesTerminal
      <4> QED
        BY <2>1, <3>3, <4>2
    <3> QED
      BY <3>1, <3>2, <3>3
  <2>4. CASE \E w \in Workers, e \in Entries : startJob(w, e)
    BY <2>4 DEF startJob
  <2>5. CASE \E e \in Entries : QueueStep(e)
    BY <2>5 DEF QueueStep, recoverOrphan, lockExpires, redisForgets
  <2>6. CASE BalanceStep
    BY <2>6 DEF BalanceStep, refreshBalance, hcmDrift
  <2>7. CASE crash
    BY <2>7 DEF crash
  <2> QED
    BY <2>2, <2>3, <2>4, <2>5, <2>6, <2>7 DEF Next
<1> QED
  BY <1>1, Invariance, PTL DEF Spec, TerminalIsFinal

(***************************************************************************)
(* The saga implements RequestLifecycle                                    *)
(***************************************************************************)
\* A step that writes no second entry, no status and no history is invisible to users.
LEMMA Invisible ==
  ASSUME UNCHANGED <<status, saga, forced, overlapped>>,
         \A r \in Requests : event'[<<r, 2>>] = event[<<r, 2>>]
  PROVE  UNCHANGED Lifecycle!vars
<1>1. \A r \in Requests : DecisionOf(r)' = DecisionOf(r) /\ Undisturbed(r)' = Undisturbed(r)
  BY DEF DecisionOf, Undisturbed, IntendedStatus
<1> QED
  BY <1>1 DEF Lifecycle!vars

\* A step that touches the state of one request, which is disturbed afterwards.
LEMMA Voided ==
  ASSUME NEW r \in Requests, ~Undisturbed(r)',
         \A q \in Requests : q # r =>
           /\ saga'[q] = saga[q] /\ status'[q] = status[q]
           /\ event'[<<q, 2>>] = event[<<q, 2>>]
           /\ forced'[q] = forced[q] /\ overlapped'[q] = overlapped[q]
  PROVE  Lifecycle!Next
<1>1. \A q \in Requests : q # r =>
        DecisionOf(q)' = DecisionOf(q) /\ Undisturbed(q)' = Undisturbed(q)
  BY DEF DecisionOf, Undisturbed, IntendedStatus
<1>2. [q \in Requests |-> ~Undisturbed(q)]'
        = [[q \in Requests |-> ~Undisturbed(q)] EXCEPT ![r] = TRUE]
  BY <1>1
<1>3. \A q \in Requests \ {r} :
        [x \in Requests |-> DecisionOf(x)]'[q] = [x \in Requests |-> DecisionOf(x)][q]
  BY <1>1
<1>4. Lifecycle!Void(r)
  BY <1>2, <1>3 DEF Lifecycle!Void, Lifecycle!OnlyAt
<1> QED
  BY <1>4 DEF Lifecycle!Next

\* A run of an undisturbed request has its decision in the second entry.
LEMMA DecisionOfRun ==
  ASSUME IInv, NEW w \in Workers, pc[w] \in LiveSteps \ ReserveSteps, Undisturbed(RequestOf(w))
  PROVE  event[<<RequestOf(w), 2>>] = event[task[w]]
<1>1. RequestOf(w) \in Requests
  BY RunEntry
<1>2. PICK n \in 1..MaxEntries : task[w] = <<RequestOf(w), n>> /\ n <= sent[RequestOf(w)] /\ n # 1
  BY RunEntry
<1>3. sent[RequestOf(w)] <= 2
  BY <1>1 DEF IInv, LedgerInv, DecisionsFit, Undisturbed
<1>4. n = 2
  BY <1>1, <1>2, <1>3, SentTypes DEF IInv
<1> QED
  BY <1>2, <1>4

\* A step of a run that writes the request is a step of the state machine, or strikes a
\* request for which nothing is promised any more.
LEMMA RunMoves ==
  ASSUME IInv, NEW w \in Workers, pc[w] \in LiveSteps,
         NEW r \in Requests, r = RequestOf(w), NEW st, NEW sg, transition(r, st, sg),
         UNCHANGED <<event, forced, overlapped>>,
         \/ pc[w] = "reserved" /\ sg = "AWAITING_APPROVAL" /\ st = "PENDING_APPROVAL"
         \/ pc[w] = "refused" /\ sg = "TERMINAL" /\ st = "FAILED"
         \/ pc[w] = "commit" /\ sg = "TERMINAL" /\ st = "APPROVED"
         \/ pc[w] = "released" /\ sg = "TERMINAL" /\ st = IntendedStatus(event[task[w]])
  PROVE  Lifecycle!Next
<1> DEFINE ev == event[task[w]]
<1>1. ev \in EventTypes /\ pc[w] # "idle"
  BY RunEntry
<1>2. /\ saga' = [saga EXCEPT ![r] = sg] /\ status' = [status EXCEPT ![r] = st]
      /\ \A q \in Requests : Undisturbed(q)' = Undisturbed(q) /\ DecisionOf(q)' = DecisionOf(q)
  BY DEF transition, Undisturbed, DecisionOf, IntendedStatus
<1>3. CASE ~Undisturbed(r)
  <2>1. ~Undisturbed(r)'
    BY <1>1, <1>2, <1>3
  <2>2. \A q \in Requests : q # r => saga'[q] = saga[q] /\ status'[q] = status[q]
    BY <1>2 DEF IInv, TypeOK
  <2> QED
    BY <1>1, <2>1, <2>2, Voided
<1>4. CASE Undisturbed(r)
  <2>1. saga[r] = ExpectedState(ev) /\ StepFits(pc[w], ev)
    BY <1>1, <1>4 DEF IInv, LedgerInv, SnapshotsFit, RunsFit
  <2>2. /\ [q \in Requests |-> DecisionOf(q)]' = [q \in Requests |-> DecisionOf(q)]
        /\ [q \in Requests |-> ~Undisturbed(q)]' = [q \in Requests |-> ~Undisturbed(q)]
    BY <1>2
  <2>3. CASE pc[w] = "reserved" /\ sg = "AWAITING_APPROVAL" /\ st = "PENDING_APPROVAL"
    <3>1. saga[r] = "RESERVING_HCM"
      BY <2>1, <2>3 DEF StepFits, ReserveSteps, ExpectedState, Compensations
    <3>2. Lifecycle!hcm_reserve_ok(r)
      BY <1>2, <2>2, <2>3, <3>1 DEF Lifecycle!hcm_reserve_ok, Lifecycle!Goto,
         Lifecycle!canTransition, Lifecycle!Allowed
    <3> QED
      BY <1>1, <3>2 DEF Lifecycle!Next
  <2>4. CASE pc[w] = "refused" /\ sg = "TERMINAL" /\ st = "FAILED"
    <3>1. saga[r] = "RESERVING_HCM"
      BY <2>1, <2>4 DEF StepFits, ReserveSteps, ExpectedState, Compensations
    <3>2. Lifecycle!hcm_reserve_4xx(r)
      BY <1>2, <2>2, <2>4, <3>1 DEF Lifecycle!hcm_reserve_4xx, Lifecycle!Goto,
         Lifecycle!canTransition, Lifecycle!Allowed
    <3> QED
      BY <1>1, <3>2 DEF Lifecycle!Next
  <2>5. CASE /\ pc[w] \in {"commit", "released"} /\ sg = "TERMINAL"
             /\ pc[w] = "commit" => st = "APPROVED"
             /\ pc[w] = "released" => st = IntendedStatus(ev)
    <3>1. saga[r] \in {"COMMITTING_HCM", "COMPENSATING_HCM"}
      BY <2>1, <2>5 DEF StepFits, ConfirmSteps, ReleaseSteps, ExpectedState, Compensations
    <3>2. event[<<r, 2>>] = ev
      BY <1>4, <2>5, DecisionOfRun DEF LiveSteps, ReserveSteps, ConfirmSteps, ReleaseSteps
    <3>3. [q \in Requests |-> DecisionOf(q)][r] = st
      <4>1. DecisionOf(r) = st
        BY <2>1, <2>5, <3>2 DEF DecisionOf, StepFits, ConfirmSteps, ReleaseSteps, Compensations
      <4> QED
        BY <1>1, <4>1
    <3>4. Lifecycle!Settled(r)
      BY <1>2, <2>2, <2>5, <3>1, <3>3 DEF Lifecycle!Settled, Lifecycle!Goto,
         Lifecycle!canTransition, Lifecycle!Allowed
    <3> QED
      BY <1>1, <3>4 DEF Lifecycle!Next
  <2> QED
    BY <2>3, <2>4, <2>5
<1> QED
  BY <1>3, <1>4

LEMMA CreateMoves ==
  ASSUME IInv, NEW r \in Requests, create(r)
  PROVE  Lifecycle!Next
<1>1. sent[r] = 0 /\ saga[r] = "none"
  BY DEF create, IInv, LedgerInv, EntriesFit
<1>2. enqueueInTx(r, "RESERVE_HCM") /\ UNCHANGED <<forced, overlapped>>
  BY DEF create, historyVars
<1>3. ASSUME NEW q \in Requests PROVE event'[<<q, 2>>] = event[<<q, 2>>]
  <2>1. <<q, 2>> \in Entries /\ <<q, 2>> # <<r, sent[r] + 1>>
    BY <1>1, SagaAssumption DEF Entries
  <2>2. \A e \in Entries : event'[e] = IF e = <<r, sent[r] + 1>> THEN "RESERVE_HCM" ELSE event[e]
    BY <1>2, NextEntry
  <2> QED
    BY <2>1, <2>2
<1>4. /\ [q \in Requests |-> DecisionOf(q)]' = [q \in Requests |-> DecisionOf(q)]
      /\ [q \in Requests |-> ~Undisturbed(q)]' = [q \in Requests |-> ~Undisturbed(q)]
  BY <1>2, <1>3 DEF DecisionOf, Undisturbed, IntendedStatus
<1>5. Lifecycle!Create(r)
  BY <1>1, <1>4 DEF Lifecycle!Create, create, transition
<1> QED
  BY <1>5 DEF Lifecycle!Next

LEMMA DecisionMoves ==
  ASSUME IInv, NEW r \in Requests, NEW ev \in EventTypes \ {"RESERVE_HCM"}, NEW sg,
         \/ ev = "CONFIRM_HCM" /\ sg = "COMMITTING_HCM"
         \/ ev \in Compensations /\ sg = "COMPENSATING_HCM",
         transitionWithOutbox(r, ev, sg)
  PROVE  Lifecycle!Next
<1>1. /\ enqueueInTx(r, ev) /\ UNCHANGED <<forced, overlapped>> /\ saga[r] = "AWAITING_APPROVAL"
      /\ saga' = [saga EXCEPT ![r] = sg] /\ status' = [status EXCEPT ![r] = "PENDING_APPROVAL"]
  BY DEF transitionWithOutbox, historyVars, transition
<1>2. ASSUME NEW q \in Requests, q # r PROVE event'[<<q, 2>>] = event[<<q, 2>>]
  <2>1. <<q, 2>> \in Entries /\ <<q, 2>> # <<r, sent[r] + 1>>
    BY <1>2, SagaAssumption DEF Entries
  <2> QED
    BY <1>1, <2>1, NextEntry
<1>3. CASE ~Undisturbed(r)
  <2>1. ~Undisturbed(r)'
    BY <1>1, <1>3 DEF Undisturbed
  <2>2. \A q \in Requests : q # r => saga'[q] = saga[q] /\ status'[q] = status[q]
    BY <1>1 DEF IInv, TypeOK
  <2> QED
    BY <1>1, <1>2, <2>1, <2>2, Voided
<1>4. CASE Undisturbed(r)
  <2>1. sent[r] = 1
    BY <1>1, <1>4 DEF IInv, LedgerInv, DecisionsFit, Undisturbed
  <2>2. event'[<<r, 2>>] = ev
    <3>1. <<r, 2>> \in Entries /\ <<r, 2>> = <<r, sent[r] + 1>>
      BY <2>1, SagaAssumption DEF Entries
    <3> QED
      BY <1>1, <3>1, NextEntry
  <2> DEFINE outcome == IF ev = "CONFIRM_HCM" THEN "APPROVED" ELSE IntendedStatus(ev)
  <2>3. DecisionOf(r)' = outcome
    BY <2>2 DEF DecisionOf, Compensations, IntendedStatus
  <2>4. \A q \in Requests : /\ Undisturbed(q)' = Undisturbed(q)
                            /\ q # r => DecisionOf(q)' = DecisionOf(q)
    BY <1>1, <1>2 DEF Undisturbed, DecisionOf, IntendedStatus
  <2>5. [q \in Requests |-> DecisionOf(q)]' = [[q \in Requests |-> DecisionOf(q)] EXCEPT ![r] = outcome]
    BY <2>3, <2>4
  <2>6. [q \in Requests |-> ~Undisturbed(q)]' = [q \in Requests |-> ~Undisturbed(q)]
    BY <2>4
  <2>7. Lifecycle!Decide(r, sg, outcome)
    BY <1>1, <2>5, <2>6 DEF Lifecycle!Decide, Lifecycle!Goto, Lifecycle!canTransition,
       Lifecycle!Allowed
  <2>8. \/ sg = "COMMITTING_HCM" /\ outcome = "APPROVED"
        \/ sg = "COMPENSATING_HCM" /\ outcome \in {"REJECTED", "CANCELLED"}
    BY DEF Compensations, IntendedStatus
  <2> HIDE DEF outcome
  <2> QED
    BY <2>7, <2>8 DEF Lifecycle!Next
<1> QED
  BY <1>3, <1>4

LEMMA ApiMoves ==
  ASSUME IInv, NEW r \in Requests, ApiStep(r)
  PROVE  Lifecycle!Next
<1>1. CASE approve(r) \/ reject(r) \/ cancel(r)
  <2>1. CASE approve(r)
    <3>1. transitionWithOutbox(r, "CONFIRM_HCM", "COMMITTING_HCM")
      BY <2>1 DEF approve
    <3>2. "CONFIRM_HCM" \in EventTypes \ {"RESERVE_HCM"}
      BY DEF EventTypes
    <3> QED
      BY <3>1, <3>2, DecisionMoves
  <2>2. CASE reject(r)
    BY <2>2, DecisionMoves DEF reject, EventTypes, Compensations
  <2>3. CASE cancel(r)
    BY <2>3, DecisionMoves DEF cancel, EventTypes, Compensations
  <2> QED
    BY <1>1, <2>1, <2>2, <2>3
<1>2. CASE forceFail(r)
  <2>1. /\ \A q \in Requests : q # r => saga'[q] = saga[q] /\ status'[q] = status[q]
        /\ \A q \in Requests : q # r => forced'[q] = forced[q]
        /\ UNCHANGED <<event, overlapped>>
    BY <1>2 DEF forceFail, transition, outboxVars, IInv, TypeOK
  <2>2. ~Undisturbed(r)'
    BY <1>2 DEF forceFail, Undisturbed, IInv, TypeOK
  <2> QED
    BY <2>1, <2>2, Voided
<1> QED
  BY <1>1, <1>2, CreateMoves DEF ApiStep

LEMMA RunStepMoves ==
  ASSUME IInv, NEW w \in Workers, RunStep(w)
  PROVE  Lifecycle!Next \/ UNCHANGED Lifecycle!vars
<1> USE DEF RunFrame, outboxVars, historyVars, requestVars
<1>1. UNCHANGED <<event, forced, overlapped>>
  BY DEF RunStep, reserveCall, reserveCommit, failRequest, confirmCheck, confirmCall,
     getBalanceCall, confirmCommit, releaseCheck, releaseCall, compensateCommit,
     databaseError, endJob
<1>2. CASE UNCHANGED requestVars
  BY <1>1, <1>2, Invisible
<1>3. ASSUME pc[w] \in LiveSteps, NEW st, NEW sg, transition(RequestOf(w), st, sg),
             \/ pc[w] = "reserved" /\ sg = "AWAITING_APPROVAL" /\ st = "PENDING_APPROVAL"
             \/ pc[w] = "refused" /\ sg = "TERMINAL" /\ st = "FAILED"
             \/ pc[w] = "commit" /\ sg = "TERMINAL" /\ st = "APPROVED"
             \/ pc[w] = "released" /\ sg = "TERMINAL" /\ st = IntendedStatus(event[task[w]])
      PROVE  Lifecycle!Next
  <2>1. PICK r \in Requests : r = RequestOf(w)
    BY <1>3, RunEntry
  <2>2. transition(r, st, sg)
    BY <1>3, <2>1
  <2> QED
    BY <1>1, <1>3, <2>1, <2>2, RunMoves
<1>4. CASE reserveCommit(w) /\ ~UNCHANGED requestVars
  BY <1>3, <1>4 DEF reserveCommit, LiveSteps, ReserveSteps
<1>5. CASE failRequest(w)
  BY <1>3, <1>5 DEF failRequest, LiveSteps, ReserveSteps
<1>6. CASE confirmCommit(w) /\ ~UNCHANGED requestVars
  BY <1>3, <1>6 DEF confirmCommit, LiveSteps, ConfirmSteps
<1>7. CASE compensateCommit(w)
  BY <1>3, <1>7 DEF compensateCommit, LiveSteps, ReleaseSteps
<1> QED
  BY <1>2, <1>4, <1>5, <1>6, <1>7 DEF RunStep, reserveCall, confirmCheck, confirmCall,
     getBalanceCall, releaseCheck, releaseCall, databaseError, endJob

LEMMA QueueMoves ==
  ASSUME IInv, NEW e \in Entries, QueueStep(e)
  PROVE  Lifecycle!Next \/ UNCHANGED Lifecycle!vars
<1> USE DEF QueueFrame, requestVars
<1>1. e[1] \in Requests
  BY DEF Entries
<1>2. UNCHANGED <<saga, status, event, forced>>
  BY DEF QueueStep, recoverOrphan, lockExpires, redisForgets
<1>3. \A q \in Requests : q # e[1] => overlapped'[q] = overlapped[q]
  BY DEF QueueStep, recoverOrphan, lockExpires, redisForgets, IInv, TypeOK
<1>4. CASE overlapped'[e[1]]
  BY <1>1, <1>2, <1>3, <1>4, Voided DEF Undisturbed
<1>5. CASE ~overlapped'[e[1]]
  <2>1. ASSUME NEW q \in Requests PROVE Undisturbed(q)' = Undisturbed(q)
    <3>1. ~overlapped[e[1]]
      BY <1>1, <1>5, Zenon DEF QueueStep, recoverOrphan, lockExpires, redisForgets, IInv, TypeOK
    <3> QED
      BY <1>2, <1>3, <1>5, <3>1 DEF Undisturbed
  <2>2. \A q \in Requests : DecisionOf(q)' = DecisionOf(q)
    BY <1>2 DEF DecisionOf, IntendedStatus
  <2> QED
    BY <1>2, <2>1, <2>2 DEF Lifecycle!vars
<1> QED
  BY <1>4, <1>5

\* A decision, once taken, is the way the request ends, whatever workers crash, throw and
\* start over (canTransition and nextStatus of domain/saga-state-machine.ts, which the
\* handlers of hcm-saga.processor.ts and requests.service.ts do not consult).
THEOREM SagaIsLifecycle == Spec => LifecycleSpec
<1>1. Init => Lifecycle!Init
  <2> SUFFICES ASSUME Init PROVE Lifecycle!Init
    OBVIOUS
  <2>1. \A r \in Requests : DecisionOf(r) = "none"
    <3>1. \A r \in Requests : event[<<r, 2>>] = "none"
      BY SagaAssumption DEF Init, Entries
    <3> QED
      BY <3>1 DEF DecisionOf, Compensations
  <2>2. \A r \in Requests : Undisturbed(r)
    BY DEF Init, Undisturbed
  <2> QED
    BY <2>1, <2>2 DEF Init, Lifecycle!Init
<1>2. IInv /\ [Next]_vars => [Lifecycle!Next]_(Lifecycle!vars)
  <2> SUFFICES ASSUME IInv, [Next]_vars PROVE Lifecycle!Next \/ UNCHANGED Lifecycle!vars
    OBVIOUS
  <2> USE DEF requestVars, outboxVars, historyVars
  <2>1. CASE \E r \in Requests : ApiStep(r)
    BY <2>1, ApiMoves
  <2>2. CASE \E w \in Workers : RunStep(w)
    BY <2>2, RunStepMoves
  <2>3. CASE \E e \in Entries : QueueStep(e)
    BY <2>3, QueueMoves
  <2>4. CASE \E w \in Workers, e \in Entries : startJob(w, e)
    BY <2>4, Invisible DEF startJob
  <2>5. CASE BalanceStep
    BY <2>5, Invisible DEF BalanceStep, refreshBalance, hcmDrift
  <2>6. CASE crash
    BY <2>6, Invisible DEF crash
  <2>7. CASE UNCHANGED vars
    BY <2>7, Invisible DEF vars
  <2> QED
    BY <2>1, <2>2, <2>3, <2>4, <2>5, <2>6, <2>7 DEF Next
<1> QED
  BY <1>1, <1>2, Invariance, PTL DEF Spec, LifecycleSpec, Lifecycle!Spec

\* A request that ends after a decision ends as the decision says, whichever of the handlers
\* of hcm-saga.processor.ts ends it and however often it was started over.
DecisionStands ==
  \A r \in Requests :
    Undisturbed(r) /\ DecisionOf(r) # "none" =>
      /\ saga[r] \in {"COMMITTING_HCM", "COMPENSATING_HCM", "TERMINAL"}
      /\ saga[r] = "TERMINAL" => status[r] = DecisionOf(r)

\* It is a promise of RequestLifecycle, and so of whatever implements it.
LEMMA LifecycleKeepsDecisions ==
  ASSUME TypeOK, DecisionStands, [Lifecycle!Next]_(Lifecycle!vars)
  PROVE  DecisionStands'
<1> DEFINE decided == [r \in Requests |-> DecisionOf(r)]
           void == [r \in Requests |-> ~Undisturbed(r)]
           Stands(sg, st, d, v) ==
             \A r \in Requests :
               ~v[r] /\ d[r] # "none" =>
                 /\ sg[r] \in {"COMMITTING_HCM", "COMPENSATING_HCM", "TERMINAL"}
                 /\ sg[r] = "TERMINAL" => st[r] = d[r]
<1>1. Stands(saga, status, decided, void)
  BY DEF DecisionStands
<1>2. /\ DOMAIN saga = Requests /\ DOMAIN status = Requests
      /\ DOMAIN decided = Requests /\ DOMAIN void = Requests
  BY DEF TypeOK
<1>3. SUFFICES Stands(saga', status', decided', void')
  BY DEF DecisionStands
<1> HIDE DEF decided, void
<1>4. ASSUME NEW r \in Requests,
             Lifecycle!hcm_reserve_ok(r) \/ Lifecycle!hcm_reserve_4xx(r) \/ Lifecycle!Create(r)
               \/ Lifecycle!Settled(r)
      PROVE  Stands(saga', status', decided', void')
  BY <1>1, <1>2, <1>4
  DEF Lifecycle!hcm_reserve_ok, Lifecycle!hcm_reserve_4xx, Lifecycle!Create, Lifecycle!Settled,
      Lifecycle!Goto, Lifecycle!canTransition, Lifecycle!Allowed, decided, void
<1>5. ASSUME NEW r \in Requests, NEW sg \in {"COMMITTING_HCM", "COMPENSATING_HCM"}, NEW outcome,
             Lifecycle!Decide(r, sg, outcome)
      PROVE  Stands(saga', status', decided', void')
  BY <1>1, <1>2, <1>5
  DEF Lifecycle!Decide, Lifecycle!Goto, decided, void
<1>6. ASSUME NEW r \in Requests, Lifecycle!Void(r)
      PROVE  Stands(saga', status', decided', void')
  BY <1>1, <1>2, <1>6 DEF Lifecycle!Void, Lifecycle!OnlyAt, decided, void
<1>7. CASE UNCHANGED Lifecycle!vars
  BY <1>1, <1>7 DEF Lifecycle!vars, decided, void
<1> QED
  BY <1>4, <1>5, <1>6, <1>7 DEF Lifecycle!Next

\* Hence it holds of the saga: whoever was let to decide has decided.
THEOREM DecisionsStand == Spec => []DecisionStands
<1>1. Init => DecisionStands
  <2>1. Init => \A r \in Requests : event[<<r, 2>>] = "none"
    BY SagaAssumption DEF Init, Entries
  <2> QED
    BY <2>1 DEF DecisionStands, DecisionOf, Compensations
<1>2. TypeOK /\ DecisionStands /\ [Lifecycle!Next]_(Lifecycle!vars) => DecisionStands'
  BY LifecycleKeepsDecisions
<1> QED
  BY <1>1, <1>2, SagaIsLifecycle, TypeCorrect, PTL DEF Spec, LifecycleSpec, Lifecycle!Spec
=============================================================================
