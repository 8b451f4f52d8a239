-------------------------- MODULE OutboxProperties --------------------------
(***************************************************************************)
(* The correctness properties of Outbox.                                   *)
(***************************************************************************)
EXTENDS Outbox

\* Every variable stays in its type; the rows under way in a tick exist, and BullMQ's two
\* lists hold exactly the jobs in their state, each once.
TypeOK ==
  /\ row \in [Entries -> RowStates]
  /\ IsInjective(order) /\ ToSet(order) = {e \in Entries : row[e] # "none"}
  /\ age \in [Entries -> 0..StuckAfter]
  /\ batch \subseteq ToSet(order) /\ Cardinality(batch) <= BatchLimit
  /\ job \in [Entries -> RedisStates]
  /\ IsInjective(wait) /\ ToSet(wait) = {e \in Entries : job[e] = "waiting"}
  /\ IsInjective(done) /\ ToSet(done) = {e \in Entries : job[e] = "completed"}
  /\ Len(done) <= MaxCompleted
  /\ lock \in [Entries -> Workers \cup {NoWorker}]
  /\ stalls \in [Entries -> 0..MaxStalled]
  /\ runs \in [Workers -> Entries \cup {NoEntry}]
  /\ last \in [Entries -> {"queued", "active", "completed", "failed"}]
  /\ env \in [Disturbances -> Nat]

\* Redis has been given the job of an entry, as far as its memory was not lost.
Added(e) == job[e] # "absent" \/ last[e] # "queued"

\* Entries reach the queue in the order of their commit (orderBy nextAttemptAt in
\* claimBatch): a re-armed or a late row overtakes none, until a tick dies between its claim
\* and its adds.
OldestFirst ==
  env["addFails"] + env["crash"] + env["redisLoss"] = 0
    => \A i, j \in DOMAIN order : i < j /\ Added(order[j]) => Added(order[i])

\* The re-arming of rows whose job is over is harmless as long as Redis knows the job: what
\* has completed is not run again before MaxCompleted other jobs have, or Redis is emptied
\* (jobId and removeOnComplete of queue.add).
CompletedNotRepeated ==
  [][\A e \in Entries :
       job[e] = "completed" =>
         \/ job'[e] = "completed"
         \/ job'[e] = "absent" /\ Len(done') = MaxCompleted
         \/ env'["redisLoss"] > env["redisLoss"]]_vars

\* The table, the timers and the queue together are the channel that the saga relies on:
\* committed entries only, one holder of a job at a time, at least one delivery.
Channel == INSTANCE JobChannel WITH job <- [e \in Entries |-> JobOf(e)]

ChannelSpec == Channel!ChannelSpec

\* Whatever dies between commit and handler, every committed entry is run to an end: the
\* reaper brings back what a tick or Redis has lost.  New rows are not starved by old ones as
\* long as the rows fit into the ticks between two re-armings.
EntriesSettle ==
  \A e \in Entries : row[e] # "none" ~> JobOf(e) \in {"completed", "failed"}
=============================================================================
