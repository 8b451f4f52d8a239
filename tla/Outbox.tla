------------------------------- MODULE Outbox -------------------------------
(***************************************************************************)
(* The transactional outbox: the OutboxEntry table, the dispatcher and     *)
(* reaper of outbox-dispatcher.ts, which run in the worker process, and    *)
(* the BullMQ queue "hcm-saga" in Redis that they feed.  It carries out    *)
(* what JobChannel promises.                                               *)
(*                                                                         *)
(* Time is counted in polls: a row that was dispatched StuckAfter polls    *)
(* ago is older than OUTBOX_STUCK_MS.                                      *)
(***************************************************************************)
EXTENDS Integers, Sequences, FiniteSets, SequencesExt

CONSTANTS
  Entries,       \* outbox entry ids, which are the job ids
  Workers,       \* concurrency slots of the worker process
  NoWorker,      \* nobody holds the lock of a job
  NoEntry,       \* the run of an idle slot
  MaxStalled,    \* BullMQ's maxStalledCount
  BatchLimit,    \* rows claimed by one tick
  StuckAfter,    \* polls after which a dispatched row is re-armed
  MaxCompleted,  \* removeOnComplete: completed jobs that Redis keeps
  Budget         \* bound: how many disturbances may happen

Disturbances == {"overrun", "addFails", "crash", "stall", "redisLoss"}

ASSUME OutboxAssumption ==
  /\ NoWorker \notin Workers
  /\ NoEntry \notin Entries
  /\ MaxStalled \in Nat
  /\ BatchLimit \in Nat \ {0}
  /\ StuckAfter \in Nat
  /\ MaxCompleted \in Nat \ {0}
  /\ Budget \in Nat

VARIABLES
  row,      \* OutboxEntry.status, "none" before the row exists
  order,    \* the rows by nextAttemptAt, which is never changed after the insert
  age,      \* polls since updatedAt, as far as the reaper tells them apart
  batch,    \* rows claimed by the tick that is running and not added yet
  job,      \* the job's state in Redis, "absent" when Redis does not know the id
  wait,     \* BullMQ's waiting list, the next job first
  done,     \* BullMQ's completed set, the oldest first
  lock,     \* the slot that holds the lock of an active job
  stalls,   \* how often the job was found stalled
  runs,     \* the entry each slot is working on
  last,     \* history: what became of the job before Redis forgot it
  env       \* disturbances used up so far

tableVars == <<row, order, age>>
redisVars == <<job, wait, done, lock, stalls>>
vars == <<tableVars, batch, redisVars, runs, last, env>>

RowStates == {"none", "PENDING", "DISPATCHED"}
RedisStates == {"absent", "waiting", "active", "completed", "failed"}

Init ==
  /\ row = [e \in Entries |-> "none"]
  /\ order = <<>>
  /\ age = [e \in Entries |-> 0]
  /\ batch = {}
  /\ job = [e \in Entries |-> "absent"]
  /\ wait = <<>>
  /\ done = <<>>
  /\ lock = [e \in Entries |-> NoWorker]
  /\ stalls = [e \in Entries |-> 0]
  /\ runs = [w \in Workers |-> NoEntry]
  /\ last = [e \in Entries |-> "queued"]
  /\ env = [d \in Disturbances |-> 0]

Spend(d) ==
  /\ MapThenSumSet(LAMBDA x : env[x], Disturbances) < Budget
  /\ env' = [env EXCEPT ![d] = @ + 1]

(***************************************************************************)
(* The table                                                               *)
(***************************************************************************)
\* The insert of enqueueInTx, at the commit of the transaction it belongs to.
create(e) ==
  /\ row[e] = "none"
  /\ row' = [row EXCEPT ![e] = "PENDING"]
  /\ order' = Append(order, e)
  /\ UNCHANGED <<age, batch, redisVars, runs, last, env>>

Before(d, e) == \E i, j \in DOMAIN order : i < j /\ order[i] = d /\ order[j] = e

Due == {e \in Entries : row[e] = "PENDING"}

\* Mutant: the newest rows first.
ClaimedNewest == {e \in Due : Cardinality({d \in Due : Before(e, d)}) < BatchLimit}

Claimed == {e \in Due : Cardinality({d \in Due : Before(d, e)}) < BatchLimit}

\* One poll interval passes, except for the rows that are written.
Older(written) ==
  age' = [e \in Entries |->
            IF e \in written THEN 0
            ELSE IF row[e] = "DISPATCHED" /\ age[e] < StuckAfter THEN age[e] + 1
            ELSE age[e]]

\* The timer fires: the oldest due rows are marked DISPATCHED in one transaction.
claimBatch ==
  /\ batch = {}
  /\ batch' = Claimed
  /\ row' = [e \in Entries |-> IF e \in Claimed THEN "DISPATCHED" ELSE row[e]]
  /\ Older(Claimed)
  /\ UNCHANGED <<order, redisVars, runs, last, env>>

\* The timer fires while the tick before it is still adding jobs.
tickOverrun ==
  /\ batch # {}
  /\ Spend("overrun")
  /\ Older({})
  /\ UNCHANGED <<row, order, batch, redisVars, runs, last>>

\* Mutant: no age is asked for.
StuckAtOnce(e) == row[e] = "DISPATCHED"

Stuck(e) == row[e] = "DISPATCHED" /\ age[e] = StuckAfter

\* Rows are never marked as finished, so those of finished jobs are re-armed too.
reapStuckDispatched ==
  /\ \E e \in Entries : Stuck(e)
  /\ row' = [e \in Entries |-> IF Stuck(e) THEN "PENDING" ELSE row[e]]
  /\ age' = [e \in Entries |-> IF Stuck(e) THEN 0 ELSE age[e]]
  /\ UNCHANGED <<order, batch, redisVars, runs, last, env>>

(***************************************************************************)
(* The queue                                                               *)
(***************************************************************************)
\* Mutant: the job is added under an id of its own.
AddJobAnew(e) ==
  /\ job' = [job EXCEPT ![e] = "waiting"]
  /\ wait' = Append(wait, e)
  /\ stalls' = [stalls EXCEPT ![e] = 0]
  /\ UNCHANGED <<done, lock>>

\* An id that Redis knows is not added again, whatever state its job is in.
AddJob(e) ==
  /\ IF job[e] = "absent"
       THEN /\ job' = [job EXCEPT ![e] = "waiting"]
            /\ wait' = Append(wait, e)
            /\ stalls' = [stalls EXCEPT ![e] = 0]
       ELSE UNCHANGED <<job, wait, stalls>>
  /\ UNCHANGED <<done, lock>>

\* The tick awaits one add after the other, the oldest row first.
AddsNext(e) == e \in batch /\ \A d \in batch : ~Before(d, e)

addNext(e) ==
  /\ AddsNext(e)
  /\ AddJob(e)
  /\ batch' = batch \ {e}
  /\ UNCHANGED <<tableVars, runs, last, env>>

\* An add that rejects, its job added or not, ends the tick: the other rows stay DISPATCHED.
addFails(e) ==
  /\ AddsNext(e)
  /\ Spend("addFails")
  /\ AddJob(e) \/ UNCHANGED redisVars
  /\ batch' = {}
  /\ UNCHANGED <<tableVars, runs, last>>

Take(w) ==
  /\ runs[w] = NoEntry
  /\ wait # <<>>
  /\ LET e == Head(wait)
     IN /\ runs' = [runs EXCEPT ![w] = e]
        /\ job' = [job EXCEPT ![e] = "active"]
        /\ lock' = [lock EXCEPT ![e] = w]
  /\ wait' = Tail(wait)
  /\ UNCHANGED <<tableVars, batch, done, stalls, last, env>>

\* The job is kept among the completed ones, from which the oldest falls out.
Complete(e) ==
  LET kept == Append(done, e)
      evicted == IF Len(kept) > MaxCompleted THEN {Head(kept)} ELSE {}
  IN /\ done' = IF evicted = {} THEN kept ELSE Tail(kept)
     /\ job' = [x \in Entries |-> IF x \in evicted THEN "absent"
                                  ELSE IF x = e THEN "completed" ELSE job[x]]
     /\ last' = [x \in Entries |-> IF x \in evicted THEN "completed" ELSE last[x]]

\* The handler returned or threw; a run that has lost the lock settles nothing.
settle(w) ==
  LET e == runs[w]
  IN /\ e # NoEntry
     /\ runs' = [runs EXCEPT ![w] = NoEntry]
     /\ \/ /\ lock[e] = w
           /\ Complete(e)
           /\ lock' = [lock EXCEPT ![e] = NoWorker]
        \/ /\ lock[e] = w
           /\ job' = [job EXCEPT ![e] = "failed"]
           /\ lock' = [lock EXCEPT ![e] = NoWorker]
           /\ UNCHANGED <<done, last>>
        \/ /\ lock[e] # w
           /\ UNCHANGED <<job, done, lock, last>>
     /\ UNCHANGED <<tableVars, batch, wait, stalls, env>>

\* A stalled job goes to the front of the waiting list, or fails the second time.
MoveStalled(e) ==
  /\ job[e] = "active"
  /\ lock' = [lock EXCEPT ![e] = NoWorker]
  /\ IF stalls[e] < MaxStalled
       THEN /\ job' = [job EXCEPT ![e] = "waiting"]
            /\ wait' = <<e>> \o wait
            /\ stalls' = [stalls EXCEPT ![e] = @ + 1]
       ELSE /\ job' = [job EXCEPT ![e] = "failed"]
            /\ UNCHANGED <<wait, stalls>>
  /\ UNCHANGED <<tableVars, batch, done, runs, last>>

recoverOrphan(e) ==
  /\ lock[e] = NoWorker
  /\ MoveStalled(e)
  /\ UNCHANGED env

lockExpires(e) ==
  /\ lock[e] # NoWorker
  /\ Spend("stall")
  /\ MoveStalled(e)

\* The worker process dies, and with it the tick that is running and every run.
crash ==
  /\ Spend("crash")
  /\ batch' = {}
  /\ runs' = [w \in Workers |-> NoEntry]
  /\ lock' = [e \in Entries |-> NoWorker]
  /\ UNCHANGED <<tableVars, job, wait, done, stalls, last>>

\* Where the job of an entry is, for those who see the outbox as a channel.
JobOf(e) ==
  CASE row[e] = "none" -> "none"
    [] row[e] # "none" /\ job[e] = "absent" -> last[e]
    [] row[e] # "none" /\ job[e] = "waiting" -> "queued"
    [] OTHER -> job[e]

\* Redis comes back empty; the runs of the worker go on.
redisLoss ==
  /\ Spend("redisLoss")
  /\ job' = [e \in Entries |-> "absent"]
  /\ wait' = <<>>
  /\ done' = <<>>
  /\ lock' = [e \in Entries |-> NoWorker]
  /\ last' = [e \in Entries |-> IF row[e] = "none" THEN "queued" ELSE JobOf(e)]
  /\ UNCHANGED <<tableVars, batch, stalls, runs>>

(***************************************************************************)
(* The specification                                                       *)
(***************************************************************************)
Tick == claimBatch \/ \E e \in Entries : addNext(e)

Next ==
  \/ \E e \in Entries : create(e) \/ addFails(e) \/ recoverOrphan(e) \/ lockExpires(e)
  \/ Tick \/ tickOverrun
  \/ reapStuckDispatched
  \/ \E w \in Workers : Take(w) \/ settle(w)
  \/ crash \/ redisLoss

Spec == Init /\ [][Next]_vars

\* The timers of the dispatcher fire, a slot that is free takes the next job, a handler
\* returns or throws, and BullMQ looks for stalled jobs.
Fairness ==
  /\ WF_vars(Tick)
  /\ WF_vars(reapStuckDispatched)
  /\ \A w \in Workers : WF_vars(Take(w)) /\ WF_vars(settle(w))
  /\ \A e \in Entries : WF_vars(recoverOrphan(e))

FairSpec == Spec /\ Fairness
=============================================================================
