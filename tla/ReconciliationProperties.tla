---------------------- MODULE ReconciliationProperties ----------------------
(***************************************************************************)
(* The correctness properties of Reconciliation.                           *)
(***************************************************************************)
EXTENDS Reconciliation

\* Every variable stays in its type; a run is within the rows of its job or just past them,
\* and what the HCM has now is one of what it had.
TypeOK ==
  /\ changes \in 0..MaxChanges /\ now \in 0..changes
  /\ hcm \in [Balances -> Snapshots]
  /\ local \in [Balances -> Snapshots \cup {NoRow}]
  /\ refreshed \in [Balances -> Int]
  /\ refreshes \in [Balances -> Nat] /\ before \in [Balances -> Nat]
  /\ inflight \subseteq Rows
  /\ batches \in 0..MaxBatches
  /\ chunk \in [Jobs -> BoundedSeq(Rows, ChunkSize)]
  /\ Channel!ChannelTypeOK
  /\ task \in [Workers -> Jobs \cup {NoJob}]
  /\ next \in [Workers -> Nat \ {0}]
  /\ \A w \in Workers : task[w] # NoJob => next[w] <= Len(chunk[task[w]]) + 1
  /\ sync \in [Balances -> Snapshots \cup {NoSync}]
  /\ \A b \in Balances : hcm[b] \in snaps[b] /\ snaps[b] \subseteq [total : Totals, ts : 0..now]
  /\ applied \subseteq Rows /\ since \subseteq applied
  /\ synced \in [Balances -> Int]
  /\ env \in [Disturbances -> Nat]

\* Whatever wrote a balance row last, webhook, batch or confirm, its total and its
\* hcmLastSeenAt belong together: they are a state the HCM was in, never a mixture of two.
LocalIsSnapshot ==
  \A b \in Balances : local[b] # NoRow => local[b] \in snaps[b]

\* The audit trail explains the total (README "Drift handling"): the HCM_REFRESH movements
\* and what the confirms have synchronised add up to it, in any order of arrival.
RefreshesExplainTotal ==
  \A b \in Balances :
    refreshed[b] + synced[b] = IF local[b] = NoRow THEN 0 ELSE local[b].total

\* A push that is delivered again, whose batch is sent again under new job ids, or whose
\* chunk is run again from its first row, beside a run or after one, leaves no second
\* HCM_REFRESH movement.  A confirm that turns the row's time back makes the pushes merged
\* until then count anew, each once.
OneRefreshPerPush ==
  \A b \in Balances :
    refreshes[b] - before[b] <= Cardinality({row \in since : row.bal = b})

\* The newest push wins, whatever the order in which realtime pushes, batches and their
\* repetitions arrive, before and after it: from then on the local row is what the HCM has,
\* or had within the same millisecond.  A confirm that writes an older snapshot undoes that,
\* until the next time a push of the newest one is merged.
NewestWins ==
  \A b \in Balances :
    RowOf(b) \in since => local[b] \in {s \in snaps[b] : s.ts = hcm[b].ts}

\* A job that BullMQ shows as completed has merged each of its rows, whichever of its runs
\* was cut off, lost its lock or ran beside another, and whatever transaction failed.
FinishedChunksMerged ==
  \A j \in Jobs : job[j] = "completed" => ToSet(chunk[j]) \subseteq applied
=============================================================================
