--------------------------- MODULE Reconciliation ---------------------------
(***************************************************************************)
(* How the local balance rows follow the HCM: the realtime webhook, which  *)
(* the API applies at once, the batch webhook, which becomes RECONCILE     *)
(* jobs of the worker (reconciliation.service.ts, reconciliation-merger.ts *)
(* and handleReconcile), and the total that a confirm run reads from the   *)
(* HCM and writes later (hcm-saga.processor.ts).                           *)
(*                                                                         *)
(* A snapshot is a total with the time of the change that made it; a row   *)
(* of a push is a snapshot of one balance.  Each row is merged in one      *)
(* transaction, whose version guard therefore never refuses.               *)
(*                                                                         *)
(* The chunks wait in the BullMQ queue as the jobs of JobChannel; they do  *)
(* not pass through the outbox, so nothing adds one a second time.         *)
(***************************************************************************)
EXTENDS Integers, Sequences, FiniteSets, SequencesExt

CONSTANTS
  Balances,    \* (employee, location) pairs
  NoRow,       \* a balance for which no row exists
  NoSync,      \* no confirm run has read the balance
  Totals,      \* totals the HCM may have
  FirstTotals, \* those it may start with
  ChunkSize,   \* rows of a batch per job
  Workers,     \* concurrency slots of the worker process
  NoWorker,    \* nobody holds the lock of a job
  NoJob,       \* the task of an idle slot
  MaxStalled,  \* BullMQ's maxStalledCount
  MaxChanges,  \* bound: changes the HCM makes
  Changing,    \* bound: the balances it changes and pushes one by one
  Orders,      \* bound: the orders in which a batch lists balances
  MaxBatches,  \* bound: batches sent
  Budget       \* bound: how many disturbances may happen

Disturbances ==
  {"lost", "duplicate", "dbError", "stall", "crash", "enqueueFails", "resend", "sync"}

ASSUME ReconciliationAssumption ==
  /\ IsFiniteSet(Balances)
  /\ Totals \subseteq Int /\ FirstTotals \subseteq Totals
  /\ ChunkSize \in Nat \ {0} /\ MaxStalled \in Nat
  /\ MaxChanges \in Nat /\ MaxBatches \in Nat /\ Budget \in Nat

ASSUME BatchAssumption ==
  /\ Changing \subseteq Balances
  /\ \A order \in Orders : order \in Seq(Balances) /\ Len(order) <= Cardinality(Balances)

Snapshots == [total : Totals, ts : 0..MaxChanges]

Rows == [bal : Balances, snap : Snapshots]

\* The id of a job is that of its batch with the place of its first row.
Jobs == (1..MaxBatches) \X (1..Cardinality(Balances))

ASSUME SentinelAssumption ==
  /\ NoRow \notin Snapshots /\ NoSync \notin Snapshots
  /\ NoWorker \notin Workers /\ NoJob \notin Jobs

VARIABLES
  now,        \* the time of the HCM's last change, in milliseconds that saw one
  changes,    \* changes of the HCM so far
  hcm,        \* the snapshot the HCM has of each balance
  local,      \* Balance.totalDays and hcmLastSeenAt
  refreshed,  \* the sum of the HCM_REFRESH movements of each balance
  refreshes,  \* their number
  inflight,   \* realtime pushes on the way
  batches,    \* batches sent
  chunk,      \* the rows of each job, empty when it was not added
  job, lock, stalls,   \* see JobChannel
  task,       \* the job each slot works on
  next,       \* the row it applies next
  sync,       \* the snapshot a confirm run has read
  snaps,      \* history: every snapshot the HCM has had
  applied,    \* history: every row that went through the merge
  synced,     \* history: what confirm runs have added to the local total
  since,      \* history: rows merged since a confirm last wrote an older snapshot over theirs
  before,     \* history: the HCM_REFRESH movements of each balance until then
  env         \* disturbances used up so far

Channel == INSTANCE JobChannel WITH Entries <- Jobs

hcmVars == <<now, changes, hcm, snaps>>
localVars == <<local, refreshed, refreshes, applied, since>>
channelVars == <<job, lock, stalls>>
runVars == <<task, next>>
jobVars == <<chunk, channelVars, runVars>>
syncVars == <<sync, synced, before>>
vars == <<hcmVars, localVars, inflight, batches, jobVars, syncVars, env>>

Init ==
  /\ now = 0
  /\ changes = 0
  /\ hcm \in [Balances -> [total : FirstTotals, ts : {0}]]
  /\ local = [b \in Balances |-> NoRow]
  /\ refreshed = [b \in Balances |-> 0]
  /\ refreshes = [b \in Balances |-> 0]
  /\ inflight = {}
  /\ batches = 0
  /\ chunk = [j \in Jobs |-> <<>>]
  /\ Channel!ChannelInit
  /\ task = [w \in Workers |-> NoJob]
  /\ next = [w \in Workers |-> 1]
  /\ sync = [b \in Balances |-> NoSync]
  /\ snaps = [b \in Balances |-> {hcm[b]}]
  /\ applied = {}
  /\ synced = [b \in Balances |-> 0]
  /\ since = {}
  /\ before = [b \in Balances |-> 0]
  /\ env = [d \in Disturbances |-> 0]

Spend(D) ==
  /\ MapThenSumSet(LAMBDA d : env[d], Disturbances) + Cardinality(D) <= Budget
  /\ env' = [d \in Disturbances |-> IF d \in D THEN env[d] + 1 ELSE env[d]]

RowOf(b) == [bal |-> b, snap |-> hcm[b]]

(***************************************************************************)
(* The HCM                                                                 *)
(***************************************************************************)
\* A confirm, or a change of the HCM's own; two changes may share a millisecond.
hcmChange(b, t) ==
  /\ b \in Changing /\ changes < MaxChanges
  /\ changes' = changes + 1
  /\ t # hcm[b].total
  /\ now' \in {now, now + 1}
  /\ hcm' = [hcm EXCEPT ![b] = [total |-> t, ts |-> now']]
  /\ snaps' = [snaps EXCEPT ![b] = @ \cup {hcm'[b]}]
  /\ UNCHANGED <<localVars, inflight, batches, jobVars, syncVars, env>>

\* Pushes that are repeated are those of applyRealtime.
pushRealtime(b) ==
  /\ b \in Changing /\ RowOf(b) \notin inflight \cup applied
  /\ inflight' = inflight \cup {RowOf(b)}
  /\ UNCHANGED <<hcmVars, localVars, batches, jobVars, syncVars, env>>

(***************************************************************************)
(* The merge                                                               *)
(***************************************************************************)
\* Mutants: rows as old as the local one are taken; only equal ones are refused.
shouldUpdateSameAge(row, current) == current = NoRow \/ row.snap.ts >= current.ts
shouldUpdateAnyOther(row, current) == current = NoRow \/ row.snap.ts # current.ts

shouldUpdate(row, current) == current = NoRow \/ row.snap.ts > current.ts

\* Mutant: the delta is the whole total even when a row exists.
deltaDaysWhole(row, current) == row.snap.total

deltaDays(row, current) ==
  IF current = NoRow THEN row.snap.total ELSE row.snap.total - current.total

\* One transaction: the balance row and its HCM_REFRESH movement, or nothing.
applyRow(row) ==
  LET b == row.bal
  IN /\ applied' = applied \cup {row}
     /\ since' = since \cup {row}
     /\ IF shouldUpdate(row, local[b])
          THEN /\ local' = [local EXCEPT ![b] = row.snap]
               /\ refreshed' = [refreshed EXCEPT ![b] = @ + deltaDays(row, local[b])]
               /\ refreshes' = [refreshes EXCEPT ![b] = @ + 1]
          ELSE UNCHANGED <<local, refreshed, refreshes>>

\* The realtime webhook; the HCM may send the same push again.
applyRealtime(row) ==
  /\ row \in inflight
  /\ applyRow(row)
  /\ \/ inflight' = inflight \ {row} /\ UNCHANGED env
     \/ Spend({"duplicate"}) /\ UNCHANGED inflight
  /\ UNCHANGED <<hcmVars, batches, jobVars, syncVars>>

\* The push is lost, or the transaction fails and the HCM is told so.
realtimeLost(row) ==
  /\ row \in inflight
  /\ Spend({"lost"})
  /\ inflight' = inflight \ {row}
  /\ UNCHANGED <<hcmVars, localVars, batches, jobVars, syncVars>>

(***************************************************************************)
(* Batches                                                                 *)
(***************************************************************************)
\* Mutant: a slice that includes its end.
SliceInclusive(rows, first) ==
  SubSeq(rows, first, IF first + ChunkSize < Len(rows) THEN first + ChunkSize ELSE Len(rows))

Slice(rows, first) ==
  SubSeq(rows, first, IF first + ChunkSize - 1 < Len(rows) THEN first + ChunkSize - 1
                      ELSE Len(rows))

Firsts(rows) == {i \in DOMAIN rows : (i - 1) % ChunkSize = 0}

\* The chunks are added side by side, and some may be in the queue when another add fails.  A
\* batch after the first, under job ids of its own, counts as a disturbance.
enqueueBatch(rows) ==
  /\ batches < MaxBatches
  /\ batches' = batches + 1
  /\ \E added \in SUBSET Firsts(rows) :
       /\ Spend((IF added = Firsts(rows) THEN {} ELSE {"enqueueFails"})
                  \cup (IF batches = 0 THEN {} ELSE {"resend"}))
       /\ chunk' = [j \in Jobs |-> IF j[1] = batches' /\ j[2] \in added
                                     THEN Slice(rows, j[2]) ELSE chunk[j]]
       /\ job' = [j \in Jobs |-> IF j[1] = batches' /\ j[2] \in added THEN "queued" ELSE job[j]]
  /\ UNCHANGED <<hcmVars, localVars, inflight, lock, stalls, runVars, syncVars>>

sendBatch ==
  \E order \in Orders :
    enqueueBatch([i \in DOMAIN order |-> RowOf(order[i])])

(***************************************************************************)
(* The runs of the jobs                                                    *)
(***************************************************************************)
\* Mutant: a job that was found stalled goes on after its first row.
startChunkResuming(w, j) ==
  /\ task[w] = NoJob
  /\ Channel!Take(w, j)
  /\ task' = [task EXCEPT ![w] = j]
  /\ next' = [next EXCEPT ![w] = IF stalls[j] > 0 THEN 2 ELSE 1]
  /\ UNCHANGED <<hcmVars, localVars, inflight, batches, chunk, syncVars, env>>

\* A slot takes the job, for the first time or again, and starts with its first row.
startChunk(w, j) ==
  /\ task[w] = NoJob
  /\ Channel!Take(w, j)
  /\ task' = [task EXCEPT ![w] = j]
  /\ next' = [next EXCEPT ![w] = 1]
  /\ UNCHANGED <<hcmVars, localVars, inflight, batches, chunk, syncVars, env>>

HasNext(w) == task[w] # NoJob /\ next[w] <= Len(chunk[task[w]])

\* The rows are applied one by one, each in a transaction of its own.
applyChunk(w) ==
  /\ HasNext(w)
  /\ applyRow(chunk[task[w]][next[w]])
  /\ next' = [next EXCEPT ![w] = @ + 1]
  /\ UNCHANGED <<hcmVars, inflight, batches, chunk, channelVars, task, syncVars, env>>

endRun(w, outcome) ==
  /\ Channel!Settle(w, task[w], outcome)
  /\ task' = [task EXCEPT ![w] = NoJob]
  /\ next' = [next EXCEPT ![w] = 1]
  /\ UNCHANGED <<hcmVars, localVars, inflight, batches, chunk, syncVars>>

\* The handler returns after the last row.
chunkEnds(w) ==
  /\ task[w] # NoJob /\ ~HasNext(w)
  /\ endRun(w, "completed")
  /\ UNCHANGED env

\* Mutant: the error of a row is swallowed, and the job counts as done.
chunkFailsSwallowing(w) == HasNext(w) /\ Spend({"dbError"}) /\ endRun(w, "completed")

\* A transaction fails: so does the job, for good, and the rows after it are not applied.
chunkFails(w) == HasNext(w) /\ Spend({"dbError"}) /\ endRun(w, "failed")

\* The lock of a job expires under a run that goes on: back to the queue, where another slot
\* takes it beside the first, or failed for good.
lockExpires(j) ==
  /\ lock[j] # NoWorker
  /\ Spend({"stall"})
  /\ Channel!Stall(j)
  /\ UNCHANGED <<hcmVars, localVars, inflight, batches, chunk, runVars, syncVars>>

\* The worker process dies, and the confirm runs with it.
crash ==
  /\ Spend({"crash"})
  /\ Channel!LoseLocks
  /\ task' = [w \in Workers |-> NoJob]
  /\ next' = [w \in Workers |-> 1]
  /\ sync' = [b \in Balances |-> NoSync]
  /\ UNCHANGED <<hcmVars, localVars, inflight, batches, chunk, synced, before>>

\* A job whose worker died is found stalled.
recoverOrphan(j) ==
  /\ lock[j] = NoWorker
  /\ Channel!Stall(j)
  /\ UNCHANGED <<hcmVars, localVars, inflight, batches, chunk, runVars, syncVars, env>>

(***************************************************************************)
(* The synchronisation after a confirm                                     *)
(***************************************************************************)
getBalance(b) ==
  /\ sync[b] = NoSync
  /\ Spend({"sync"})
  /\ sync' = [sync EXCEPT ![b] = hcm[b]]
  /\ UNCHANGED <<hcmVars, localVars, inflight, batches, jobVars, synced, before>>

\* The rows of the balance merged before do not bind the ones merged after.
turnBack(b) ==
  IF sync[b].ts < local[b].ts
    THEN /\ since' = {row \in since : row.bal # b}
         /\ before' = [before EXCEPT ![b] = refreshes[b]]
    ELSE UNCHANGED <<since, before>>

\* Mutant: the total is written without its time.
confirmCommitTotalOnly(b) ==
  /\ sync[b] # NoSync
  /\ sync' = [sync EXCEPT ![b] = NoSync]
  /\ IF local[b] = NoRow
       THEN UNCHANGED <<local, synced, since, before>>
       ELSE /\ local' = [local EXCEPT ![b].total = sync[b].total]
            /\ synced' = [synced EXCEPT ![b] = @ + sync[b].total - local[b].total]
            /\ turnBack(b)
  /\ UNCHANGED <<hcmVars, refreshed, refreshes, applied, inflight, batches, jobVars, env>>

\* The snapshot read before is written whatever has been written since, without a movement;
\* without a balance row the run throws.
confirmCommit(b) ==
  /\ sync[b] # NoSync
  /\ sync' = [sync EXCEPT ![b] = NoSync]
  /\ IF local[b] = NoRow
       THEN UNCHANGED <<local, synced, since, before>>
       ELSE /\ local' = [local EXCEPT ![b] = sync[b]]
            /\ synced' = [synced EXCEPT ![b] = @ + sync[b].total - local[b].total]
            /\ turnBack(b)
  /\ UNCHANGED <<hcmVars, refreshed, refreshes, applied, inflight, batches, jobVars, env>>

(***************************************************************************)
(* The specification                                                       *)
(***************************************************************************)
Next ==
  \/ \E b \in Balances :
       \/ \E t \in Totals : hcmChange(b, t)
       \/ pushRealtime(b) \/ getBalance(b) \/ confirmCommit(b)
  \/ \E row \in inflight : applyRealtime(row) \/ realtimeLost(row)
  \/ sendBatch
  \/ \E w \in Workers :
       \/ \E j \in Jobs : startChunk(w, j)
       \/ applyChunk(w) \/ chunkEnds(w) \/ chunkFails(w)
  \/ \E j \in Jobs : lockExpires(j) \/ recoverOrphan(j)
  \/ crash

Spec == Init /\ [][Next]_vars
=============================================================================
