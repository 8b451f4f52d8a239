------------------------- MODULE ReconciliationProofs -------------------------
(***************************************************************************)
(* Proofs of the properties of Reconciliation, for any finite set of       *)
(* balances, any totals, chunk size, number of changes, batches and        *)
(* worker slots, and any number of disturbances.                           *)
(***************************************************************************)
EXTENDS ReconciliationProperties, FiniteSetTheorems, SequenceTheorems, TLAPS

(***************************************************************************)
(* The inductive invariant                                                 *)
(***************************************************************************)
Known(row) == row.snap \in snaps[row.bal]

\* The HCM's last snapshot is its newest.
HcmInv ==
  /\ changes \in 0..MaxChanges /\ now \in 0..changes
  /\ hcm \in [Balances -> Snapshots]
  /\ DOMAIN snaps = Balances
  /\ \A b \in Balances :
       /\ hcm[b] \in snaps[b] /\ snaps[b] \subseteq [total : Totals, ts : 0..now]
       /\ \A s \in snaps[b] : s.ts <= hcm[b].ts

\* No row that was merged is newer than the local one, since a confirm last turned that back.
Merged(b) ==
  \A row \in since : row.bal = b => local[b] # NoRow /\ row.snap.ts <= local[b].ts

LocalInv ==
  /\ local \in [Balances -> Snapshots \cup {NoRow}]
  /\ refreshed \in [Balances -> Int]
  /\ refreshes \in [Balances -> Nat] /\ before \in [Balances -> Nat]
  /\ applied \subseteq Rows /\ since \subseteq applied /\ IsFiniteSet(since)
  /\ LocalIsSnapshot
  /\ RefreshesExplainTotal
  /\ \A b \in Balances : Merged(b)
  /\ OneRefreshPerPush

PushInv == inflight \subseteq Rows /\ \A row \in inflight : Known(row)

SyncInv ==
  /\ sync \in [Balances -> Snapshots \cup {NoSync}]
  /\ \A b \in Balances : sync[b] # NoSync => sync[b] \in snaps[b]
  /\ synced \in [Balances -> Int]

\* A batch that was not sent has no jobs, and a job that was not added no run.
JobInv ==
  /\ batches \in 0..MaxBatches
  /\ chunk \in [Jobs -> Seq(Rows)]
  /\ Channel!ChannelTypeOK
  /\ task \in [Workers -> Jobs \cup {NoJob}]
  /\ next \in [Workers -> Nat \ {0}]
  /\ \A j \in Jobs :
       /\ Len(chunk[j]) <= ChunkSize
       /\ j[1] > batches => job[j] = "none"
       /\ \A i \in 1..Len(chunk[j]) : Known(chunk[j][i])

\* What a run has passed by is merged.
RunInv ==
  \A w \in Workers : task[w] # NoJob =>
    /\ job[task[w]] # "none"
    /\ next[w] <= Len(chunk[task[w]]) + 1
    /\ \A i \in 1..Len(chunk[task[w]]) : i < next[w] => chunk[task[w]][i] \in applied

DoneInv ==
  \A j \in Jobs : job[j] = "completed" => \A i \in 1..Len(chunk[j]) : chunk[j][i] \in applied

EnvInv == env \in [Disturbances -> Nat]

Inv == HcmInv /\ LocalInv /\ PushInv /\ SyncInv /\ JobInv /\ RunInv /\ DoneInv /\ EnvInv

LEMMA SnapshotTypes ==
  ASSUME NEW s \in Snapshots
  PROVE  s.ts \in Nat /\ s.total \in Int
<1>1. s.total \in Totals /\ s.ts \in 0..MaxChanges
  BY DEF Snapshots
<1>2. Totals \subseteq Int
  BY ReconciliationAssumption
<1>3. MaxChanges \in Nat
  BY ReconciliationAssumption
<1>4. s.ts \in Nat
  BY <1>1, <1>3
<1> QED  BY <1>1, <1>2, <1>4

LEMMA InitInv == Init => Inv
<1> SUFFICES ASSUME Init PROVE Inv
  OBVIOUS
<1> USE ReconciliationAssumption
<1>1. hcm \in [Balances -> [total : Totals, ts : {0}]]
  BY DEF Init
<1>2. HcmInv
  BY <1>1 DEF Init, HcmInv, Snapshots
<1>3. LocalInv
  <2>1. IsFiniteSet({}) /\ Cardinality({}) = 0
    BY FS_EmptySet
  <2>2. OneRefreshPerPush
    <3>1. since = {} /\ \A b \in Balances : refreshes[b] = 0 /\ before[b] = 0
      BY DEF Init
    <3>2. \A b \in Balances : {row \in since : row.bal = b} = {}
      BY <3>1
    <3> QED  BY <2>1, <3>1, <3>2 DEF OneRefreshPerPush
  <2> QED  BY <2>1, <2>2 DEF Init, LocalInv, LocalIsSnapshot, RefreshesExplainTotal, Merged
<1>4. PushInv /\ SyncInv
  BY DEF Init, PushInv, SyncInv
<1>5. JobInv
  <2>1. chunk \in [Jobs -> Seq(Rows)] /\ \A j \in Jobs : chunk[j] = <<>> /\ Len(chunk[j]) = 0
    BY DEF Init
  <2>2. Channel!ChannelTypeOK /\ \A j \in Jobs : job[j] = "none"
    BY DEF Init, Channel!ChannelInit, Channel!ChannelTypeOK, Channel!JobStates
  <2> QED  BY <2>1, <2>2 DEF Init, JobInv
<1>6. RunInv /\ DoneInv /\ EnvInv
  <2>1. \A j \in Jobs : job[j] = "none"
    BY DEF Init, Channel!ChannelInit
  <2> QED  BY <2>1 DEF Init, RunInv, DoneInv, EnvInv
<1> QED  BY <1>2, <1>3, <1>4, <1>5, <1>6 DEF Inv

(***************************************************************************)
(* Frames                                                                  *)
(***************************************************************************)
LEMMA Monotone ==
  ASSUME Inv, \A b \in Balances : snaps[b] \subseteq snaps'[b]
  PROVE  /\ UNCHANGED <<localVars, synced, before>> => LocalInv'
         /\ UNCHANGED inflight => PushInv'
         /\ UNCHANGED <<sync, synced>> => SyncInv'
         /\ UNCHANGED <<batches, jobVars>> => JobInv'
<1>1. ASSUME UNCHANGED <<localVars, synced, before>> PROVE LocalInv'
  BY <1>1 DEF Inv, LocalInv, localVars, LocalIsSnapshot, RefreshesExplainTotal, Merged,
              OneRefreshPerPush
<1>2. ASSUME UNCHANGED inflight PROVE PushInv'
  BY <1>2 DEF Inv, PushInv, Known, Rows
<1>3. ASSUME UNCHANGED <<sync, synced>> PROVE SyncInv'
  BY <1>3 DEF Inv, SyncInv
<1>4. ASSUME UNCHANGED <<batches, jobVars>> PROVE JobInv'
  <2>1. \A j \in Jobs : \A i \in 1..Len(chunk[j]) : chunk[j][i] \in Rows
    BY DEF Inv, JobInv
  <2>2. UNCHANGED <<batches, chunk, job, lock, stalls, task, next>>
    BY <1>4 DEF jobVars, channelVars, runVars
  <2> QED  BY <2>1, <2>2 DEF Inv, JobInv, Known, Rows, Channel!ChannelTypeOK
<1> QED  BY <1>1, <1>2, <1>3, <1>4

\* Jobs and runs keep what they have merged when more is merged and none of them moves.
LEMMA RunFrame ==
  ASSUME Inv, applied \subseteq applied', UNCHANGED jobVars
  PROVE  RunInv' /\ DoneInv'
BY DEF Inv, RunInv, DoneInv, jobVars, channelVars, runVars

LEMMA EnvFrame ==
  ASSUME Inv, UNCHANGED env \/ \E D \in SUBSET Disturbances : Spend(D)
  PROVE  EnvInv'
<1>1. env \in [Disturbances -> Nat]
  BY DEF Inv, EnvInv
<1>2. ASSUME NEW D \in SUBSET Disturbances, Spend(D) PROVE env' \in [Disturbances -> Nat]
  BY <1>1, <1>2 DEF Spend
<1> QED  BY <1>1, <1>2 DEF EnvInv

LEMMA HcmFrame ==
  ASSUME Inv, UNCHANGED hcmVars
  PROVE  HcmInv' /\ \A b \in Balances : snaps[b] \subseteq snaps'[b]
BY DEF Inv, HcmInv, hcmVars

(***************************************************************************)
(* The HCM                                                                 *)
(***************************************************************************)
LEMMA HcmChangeInv ==
  ASSUME Inv, NEW b \in Balances, NEW t \in Totals, hcmChange(b, t)
  PROVE  Inv'
<1> USE ReconciliationAssumption
<1> DEFINE s == [total |-> t, ts |-> now']
<1>1. /\ now \in Nat /\ now' \in {now, now + 1} /\ changes < MaxChanges /\ changes' = changes + 1
      /\ hcm' = [hcm EXCEPT ![b] = s] /\ snaps' = [snaps EXCEPT ![b] = @ \cup {hcm'[b]}]
  BY DEF hcmChange, Inv, HcmInv
<1>2. changes' \in 0..MaxChanges /\ now' \in 0..changes' /\ now <= now'
  BY <1>1 DEF Inv, HcmInv
<1>3. s \in Snapshots /\ s \in [total : Totals, ts : 0..now']
  BY <1>1, <1>2 DEF Snapshots, Inv, HcmInv
<1>4. hcm' \in [Balances -> Snapshots] /\ hcm'[b] = s
  BY <1>1, <1>3 DEF Inv, HcmInv
<1>5. /\ DOMAIN snaps' = Balances /\ snaps'[b] = snaps[b] \cup {s}
      /\ \A c \in Balances \ {b} : snaps'[c] = snaps[c] /\ hcm'[c] = hcm[c]
  BY <1>1, <1>4 DEF Inv, HcmInv
<1>6. \A c \in Balances : snaps[c] \subseteq [total : Totals, ts : 0..now']
  BY <1>1, <1>2 DEF Inv, HcmInv
<1> HIDE DEF s
<1>7. s.ts = now'
  BY DEF s
<1>8. HcmInv'
  <2>1. ASSUME NEW c \in Balances
        PROVE  /\ hcm'[c] \in snaps'[c] /\ snaps'[c] \subseteq [total : Totals, ts : 0..now']
               /\ \A x \in snaps'[c] : x.ts <= hcm'[c].ts
    <3>1. CASE c = b
      <4>1. \A x \in snaps[b] : x.ts \in 0..now
        BY DEF Inv, HcmInv
      <4> QED  BY <1>1, <1>2, <1>3, <1>4, <1>5, <1>6, <1>7, <3>1, <4>1
    <3>2. CASE c # b
      BY <1>5, <1>6, <3>2 DEF Inv, HcmInv
    <3> QED  BY <3>1, <3>2
  <2> QED  BY <1>2, <1>4, <1>5, <2>1 DEF HcmInv
<1>9. \A c \in Balances : snaps[c] \subseteq snaps'[c]
  BY <1>5
<1>10. RunInv' /\ DoneInv' /\ EnvInv'
  BY RunFrame, EnvFrame DEF hcmChange, localVars
<1> QED  BY <1>8, <1>9, <1>10, Monotone DEF Inv, hcmChange, localVars, syncVars

LEMMA PushRealtimeInv ==
  ASSUME Inv, NEW b \in Balances, pushRealtime(b)
  PROVE  Inv'
<1>1. RowOf(b) \in Rows /\ Known(RowOf(b))
  BY DEF RowOf, Rows, Known, Inv, HcmInv
<1>2. PushInv'
  BY <1>1 DEF pushRealtime, hcmVars, Inv, PushInv, Known
<1>3. RunInv' /\ DoneInv' /\ EnvInv'
  BY RunFrame, EnvFrame DEF pushRealtime, localVars
<1> QED
  BY <1>2, <1>3, HcmFrame, Monotone DEF Inv, pushRealtime, localVars, syncVars

LEMMA GetBalanceInv ==
  ASSUME Inv, NEW b \in Balances, getBalance(b)
  PROVE  Inv'
<1>1. SyncInv'
  BY DEF getBalance, hcmVars, Inv, SyncInv, HcmInv
<1>2. RunInv' /\ DoneInv' /\ EnvInv'
  BY RunFrame, EnvFrame DEF getBalance, localVars, Disturbances
<1> QED
  BY <1>1, <1>2, HcmFrame, Monotone DEF Inv, getBalance, localVars

(***************************************************************************)
(* The merge                                                               *)
(***************************************************************************)
\* A row that was merged before is not newer than the local row, and is not taken again.
LEMMA ApplyRowInv ==
  ASSUME Inv, NEW row \in Rows, Known(row), applyRow(row),
         UNCHANGED <<hcmVars, synced, before>>
  PROVE  LocalInv' /\ applied \subseteq applied'
<1> USE ReconciliationAssumption, SentinelAssumption
<1> DEFINE b == row.bal
<1>1. /\ b \in Balances /\ row.snap \in Snapshots /\ row.snap \in snaps[b]
      /\ row.snap.ts \in Nat /\ row.snap.total \in Int /\ row.snap # NoRow
  <2>1. b \in Balances /\ row.snap \in Snapshots /\ row.snap \in snaps[b]
    BY DEF Rows, Known
  <2>2. row.snap # NoRow
    BY <2>1
  <2>3. row.snap.ts \in Nat /\ row.snap.total \in Int
    BY <2>1, SnapshotTypes
  <2> QED  BY <2>1, <2>2, <2>3
<1>2. /\ applied' = applied \cup {row} /\ since' = since \cup {row}
      /\ applied' \subseteq Rows /\ since' \subseteq applied' /\ IsFiniteSet(since')
      /\ Cardinality({r \in since : r.bal = b}) \in Nat
  <2>1. IsFiniteSet({r \in since : r.bal = b})
    BY FS_Subset DEF Inv, LocalInv
  <2> QED  BY <2>1, FS_AddElement, FS_CardinalityType DEF applyRow, Inv, LocalInv
<1>3. \A c \in Balances : /\ local[c] # NoRow => local[c].ts \in Nat /\ local[c].total \in Int
                          /\ refreshed[c] \in Int /\ refreshes[c] \in Nat /\ synced[c] \in Int
                          /\ before[c] \in Nat
  <2>1. ASSUME NEW c \in Balances, local[c] # NoRow
        PROVE  local[c].ts \in Nat /\ local[c].total \in Int
    <3>1. local[c] \in Snapshots
      BY <2>1 DEF Inv, LocalInv
    <3> QED  BY <3>1, SnapshotTypes
  <2>2. /\ refreshed \in [Balances -> Int] /\ refreshes \in [Balances -> Nat]
        /\ synced \in [Balances -> Int] /\ before \in [Balances -> Nat]
    BY DEF Inv, LocalInv, SyncInv
  <2> QED  BY <2>1, <2>2
<1>4. \A c \in Balances \ {b} :
        {r \in since' : r.bal = c} = {r \in since : r.bal = c}
  BY <1>2
<1>5. CASE shouldUpdate(row, local[b])
  <2>1. /\ local' = [local EXCEPT ![b] = row.snap]
        /\ refreshed' = [refreshed EXCEPT ![b] = @ + deltaDays(row, local[b])]
        /\ refreshes' = [refreshes EXCEPT ![b] = @ + 1]
    BY <1>5 DEF applyRow
  <2>2. /\ local'[b] = row.snap /\ refreshes'[b] = refreshes[b] + 1
        /\ refreshed'[b] = refreshed[b] + deltaDays(row, local[b]) /\ deltaDays(row, local[b]) \in Int
        /\ \A c \in Balances \ {b} : local'[c] = local[c] /\ refreshed'[c] = refreshed[c]
                                       /\ refreshes'[c] = refreshes[c]
    BY <1>1, <1>3, <2>1 DEF Inv, LocalInv, deltaDays
  <2>3. /\ local' \in [Balances -> Snapshots \cup {NoRow}]
        /\ refreshed' \in [Balances -> Int] /\ refreshes' \in [Balances -> Nat]
    BY <1>1, <1>3, <2>1, <2>2 DEF Inv, LocalInv
  <2>4. LocalIsSnapshot'
    BY <1>1, <2>2 DEF Inv, LocalInv, LocalIsSnapshot, hcmVars
  <2>5. RefreshesExplainTotal'
    <3>1. refreshed[b] + synced[b] = IF local[b] = NoRow THEN 0 ELSE local[b].total
      BY <1>1 DEF Inv, LocalInv, RefreshesExplainTotal
    <3>2. refreshed'[b] + synced'[b] = row.snap.total
      <4>1. CASE local[b] = NoRow
        BY <1>1, <1>3, <2>2, <3>1, <4>1 DEF deltaDays
      <4>2. CASE local[b] # NoRow
        BY <1>1, <1>3, <2>2, <3>1, <4>2 DEF deltaDays
      <4> QED  BY <4>1, <4>2
    <3>3. local'[b] = row.snap /\ local'[b] # NoRow
      BY <1>1, <2>2
    <3> QED  BY <2>2, <3>2, <3>3 DEF Inv, LocalInv, RefreshesExplainTotal
  <2>6. \A c \in Balances : Merged(c)'
    <3>1. Merged(b)'
      BY <1>1, <1>2, <1>3, <1>5, <2>2 DEF Inv, LocalInv, Merged, shouldUpdate, Rows, Snapshots
    <3>2. ASSUME NEW c \in Balances, c # b PROVE Merged(c)'
      BY <1>2, <2>2, <3>2 DEF Inv, LocalInv, Merged
    <3> QED  BY <3>1, <3>2
  <2>7. OneRefreshPerPush'
    <3>1. refreshes'[b] - before[b] <= Cardinality({r \in since' : r.bal = b})
      <4>1. row \notin since
        BY <1>1, <1>3, <1>5 DEF Inv, LocalInv, Merged, shouldUpdate
      <4>2. {r \in since' : r.bal = b} = {r \in since : r.bal = b} \cup {row}
        BY <1>2
      <4>3. IsFiniteSet({r \in since : r.bal = b})
        BY FS_Subset DEF Inv, LocalInv
      <4>4. Cardinality({r \in since' : r.bal = b})
              = Cardinality({r \in since : r.bal = b}) + 1
        BY <4>1, <4>2, <4>3, FS_AddElement
      <4>5. refreshes[b] - before[b] <= Cardinality({r \in since : r.bal = b})
        BY <1>1 DEF Inv, LocalInv, OneRefreshPerPush
      <4> QED  BY <1>1, <1>2, <1>3, <2>2, <4>4, <4>5
    <3>2. ASSUME NEW c \in Balances \ {b}
          PROVE  refreshes'[c] - before[c] <= Cardinality({r \in since' : r.bal = c})
      BY <1>4, <2>2, <3>2 DEF Inv, LocalInv, OneRefreshPerPush
    <3>3. before' = before
      OBVIOUS
    <3> HIDE DEF b
    <3> QED  BY <3>1, <3>2, <3>3 DEF OneRefreshPerPush
  <2> QED  BY <1>2, <2>3, <2>4, <2>5, <2>6, <2>7 DEF Inv, LocalInv
<1>6. CASE ~shouldUpdate(row, local[b])
  <2>1. UNCHANGED <<local, refreshed, refreshes>>
    BY <1>6 DEF applyRow
  <2>2. local[b] # NoRow /\ row.snap.ts <= local[b].ts
    BY <1>1, <1>3, <1>6 DEF shouldUpdate
  <2>3. LocalIsSnapshot' /\ RefreshesExplainTotal'
    BY <2>1 DEF Inv, LocalInv, LocalIsSnapshot, RefreshesExplainTotal, hcmVars
  <2>4. \A c \in Balances : Merged(c)'
    BY <1>2, <2>1, <2>2 DEF Inv, LocalInv, Merged
  <2>5. OneRefreshPerPush'
    <3>1. Cardinality({r \in since : r.bal = b}) <= Cardinality({r \in since' : r.bal = b})
            /\ Cardinality({r \in since' : r.bal = b}) \in Nat
      <4>1. IsFiniteSet({r \in since' : r.bal = b})
        BY <1>2, FS_Subset
      <4>2. {r \in since : r.bal = b} \subseteq {r \in since' : r.bal = b}
        BY <1>2
      <4> QED  BY <4>1, <4>2, FS_Subset, FS_CardinalityType
    <3>2. refreshes'[b] - before[b] <= Cardinality({r \in since' : r.bal = b})
      <4>1. refreshes[b] - before[b] <= Cardinality({r \in since : r.bal = b})
        BY <1>1 DEF Inv, LocalInv, OneRefreshPerPush
      <4> QED  BY <1>1, <1>2, <1>3, <2>1, <3>1, <4>1
    <3>3. ASSUME NEW c \in Balances \ {b}
          PROVE  refreshes'[c] - before[c] <= Cardinality({r \in since' : r.bal = c})
      BY <1>4, <2>1, <3>3 DEF Inv, LocalInv, OneRefreshPerPush
    <3>4. before' = before
      OBVIOUS
    <3> HIDE DEF b
    <3> QED  BY <3>2, <3>3, <3>4 DEF OneRefreshPerPush
  <2> QED  BY <1>2, <2>1, <2>3, <2>4, <2>5 DEF Inv, LocalInv
<1> QED  BY <1>5, <1>6

LEMMA ApplyRealtimeInv ==
  ASSUME Inv, NEW row \in inflight, applyRealtime(row)
  PROVE  Inv'
<1>1. row \in Rows /\ Known(row) /\ UNCHANGED hcmVars /\ UNCHANGED syncVars
  BY DEF Inv, PushInv, applyRealtime
<1>2. LocalInv' /\ applied \subseteq applied'
  BY <1>1, ApplyRowInv DEF applyRealtime, syncVars
<1>3. HcmInv' /\ \A b \in Balances : snaps[b] \subseteq snaps'[b]
  BY <1>1, HcmFrame
<1>4. SyncInv' /\ JobInv'
  BY <1>3, Monotone DEF applyRealtime, syncVars
<1>5. PushInv'
  BY <1>1 DEF applyRealtime, hcmVars, Inv, PushInv, Known
<1>6. RunInv' /\ DoneInv'
  BY <1>2, RunFrame DEF applyRealtime
<1>7. EnvInv'
  BY EnvFrame DEF applyRealtime, Disturbances
<1> QED  BY <1>2, <1>3, <1>4, <1>5, <1>6, <1>7 DEF Inv

LEMMA RealtimeLostInv ==
  ASSUME Inv, NEW row \in inflight, realtimeLost(row)
  PROVE  Inv'
<1>1. HcmInv' /\ \A b \in Balances : snaps[b] \subseteq snaps'[b]
  BY HcmFrame DEF realtimeLost
<1>2. LocalInv' /\ SyncInv' /\ JobInv'
  BY <1>1, Monotone DEF realtimeLost, syncVars
<1>3. PushInv'
  BY DEF realtimeLost, hcmVars, Inv, PushInv, Known
<1>4. RunInv' /\ DoneInv' /\ EnvInv'
  BY RunFrame, EnvFrame DEF realtimeLost, localVars, Disturbances
<1> QED  BY <1>1, <1>2, <1>3, <1>4 DEF Inv

(***************************************************************************)
(* The synchronisation after a confirm                                     *)
(***************************************************************************)
\* A confirm that does not turn the row back leaves it as new as it was.
LEMMA ConfirmCommitInv ==
  ASSUME Inv, NEW b \in Balances, confirmCommit(b)
  PROVE  Inv'
<1> USE SentinelAssumption
<1>1. /\ sync[b] \in Snapshots /\ sync[b] \in snaps[b] /\ sync[b] # NoRow
      /\ sync' = [sync EXCEPT ![b] = NoSync] /\ UNCHANGED hcmVars
  BY DEF confirmCommit, Inv, SyncInv
<1>2. HcmInv' /\ \A c \in Balances : snaps[c] \subseteq snaps'[c]
  BY <1>1, HcmFrame
<1>3. PushInv' /\ JobInv' /\ EnvInv'
  BY <1>2, Monotone, EnvFrame DEF confirmCommit
<1>4. RunInv' /\ DoneInv'
  BY RunFrame DEF confirmCommit
<1>5. CASE local[b] = NoRow
  <2>1. UNCHANGED <<localVars, synced, before>>
    BY <1>5 DEF confirmCommit, localVars
  <2>2. SyncInv'
    BY <1>1, <2>1 DEF hcmVars, Inv, SyncInv
  <2> QED  BY <1>2, <1>3, <1>4, <2>1, <2>2, Monotone DEF Inv
<1>6. CASE local[b] # NoRow
  <2>1. /\ local' = [local EXCEPT ![b] = sync[b]]
        /\ synced' = [synced EXCEPT ![b] = @ + sync[b].total - local[b].total]
        /\ turnBack(b)
        /\ UNCHANGED <<refreshed, refreshes, applied>>
    BY <1>6 DEF confirmCommit
  <2>2. /\ local \in [Balances -> Snapshots \cup {NoRow}]
        /\ synced \in [Balances -> Int] /\ refreshed \in [Balances -> Int]
        /\ refreshes \in [Balances -> Nat] /\ before \in [Balances -> Nat]
        /\ since \subseteq applied /\ IsFiniteSet(since) /\ applied \subseteq Rows
    BY DEF Inv, LocalInv, SyncInv
  <2>3. local[b] \in Snapshots
    BY <1>6, <2>2
  <2>4. /\ sync[b].ts \in Nat /\ sync[b].total \in Int
        /\ local[b].ts \in Nat /\ local[b].total \in Int
    BY <1>1, <2>3, SnapshotTypes
  <2>5. local'[b] = sync[b] /\ synced'[b] = synced[b] + sync[b].total - local[b].total
    BY <2>1, <2>2
  <2>6. \A c \in Balances \ {b} : local'[c] = local[c] /\ synced'[c] = synced[c]
    BY <2>1, <2>2
  <2>7. local' \in [Balances -> Snapshots \cup {NoRow}] /\ synced' \in [Balances -> Int]
    BY <1>1, <2>1, <2>2, <2>4
  <2>8. /\ since' \subseteq since /\ IsFiniteSet(since') /\ before' \in [Balances -> Nat]
        /\ \A c \in Balances \ {b} :
             /\ {row \in since' : row.bal = c} = {row \in since : row.bal = c}
             /\ before'[c] = before[c]
    BY <2>1, <2>2, FS_Subset DEF turnBack
  <2>9. LocalIsSnapshot'
    BY <1>1, <2>5, <2>6 DEF hcmVars, Inv, LocalInv, LocalIsSnapshot
  <2>10. RefreshesExplainTotal'
    <3>1. refreshed[b] + synced[b] = local[b].total /\ refreshed[b] \in Int /\ synced[b] \in Int
      BY <1>6, <2>2 DEF Inv, LocalInv, RefreshesExplainTotal
    <3>2. refreshed'[b] + synced'[b] = sync[b].total
      BY <2>1, <2>4, <2>5, <3>1
    <3> QED  BY <1>1, <2>1, <2>5, <2>6, <3>2 DEF Inv, LocalInv, RefreshesExplainTotal
  <2>11. \A c \in Balances : Merged(c)'
    <3>1. ASSUME NEW row \in since', row.bal = b PROVE row.snap.ts <= sync[b].ts
      <4>1. local[b].ts <= sync[b].ts /\ row \in since
        BY <2>1, <2>4, <3>1 DEF turnBack
      <4>2. row.snap.ts <= local[b].ts
        BY <3>1, <4>1 DEF Inv, LocalInv, Merged
      <4>3. row.snap.ts \in Nat
        <5>1. row.snap \in Snapshots
          BY <2>2, <4>1 DEF Rows
        <5> QED  BY <5>1, SnapshotTypes
      <4> QED  BY <2>4, <4>1, <4>2, <4>3
    <3>2. Merged(b)'
      BY <1>1, <2>5, <3>1 DEF Merged
    <3>3. ASSUME NEW c \in Balances \ {b} PROVE Merged(c)'
      BY <2>6, <2>8 DEF Inv, LocalInv, Merged
    <3> QED  BY <3>2, <3>3
  <2>12. OneRefreshPerPush'
    <3>1. refreshes'[b] - before'[b] <= Cardinality({row \in since' : row.bal = b})
      <4>1. CASE sync[b].ts < local[b].ts
        <5>1. {row \in since' : row.bal = b} = {} /\ before'[b] = refreshes[b]
          BY <2>1, <2>2, <4>1 DEF turnBack
        <5>2. refreshes'[b] - before'[b] = 0
          BY <2>1, <2>2, <5>1
        <5>3. Cardinality({row \in since' : row.bal = b}) = 0
          BY <5>1, FS_EmptySet
        <5> QED  BY <5>2, <5>3
      <4>2. CASE ~(sync[b].ts < local[b].ts)
        BY <2>1, <4>2 DEF turnBack, Inv, LocalInv, OneRefreshPerPush
      <4> QED  BY <4>1, <4>2
    <3>2. ASSUME NEW c \in Balances \ {b}
          PROVE  refreshes'[c] - before'[c] <= Cardinality({row \in since' : row.bal = c})
      BY <2>1, <2>8, <3>2 DEF Inv, LocalInv, OneRefreshPerPush
    <3> QED  BY <3>1, <3>2 DEF OneRefreshPerPush
  <2>13. LocalInv'
    BY <2>1, <2>2, <2>7, <2>8, <2>9, <2>10, <2>11, <2>12 DEF LocalInv
  <2>14. SyncInv'
    BY <1>1, <2>7 DEF hcmVars, Inv, SyncInv
  <2> QED  BY <1>2, <1>3, <1>4, <2>13, <2>14 DEF Inv
<1> QED  BY <1>5, <1>6

(***************************************************************************)
(* Batches                                                                 *)
(***************************************************************************)
LEMMA OrderedRows ==
  ASSUME Inv, NEW order \in Orders
  PROVE  LET rows == [i \in DOMAIN order |-> RowOf(order[i])]
         IN  /\ rows \in Seq(Rows)
             /\ \A i \in 1..Len(rows) : Known(rows[i])
<1> DEFINE rows == [i \in DOMAIN order |-> RowOf(order[i])]
           n == Len(order)
<1>1. n \in Nat
  BY BatchAssumption, LenProperties
<1>2. /\ order \in Seq(Balances) /\ Len(order) \in Nat /\ DOMAIN order = 1..Len(order)
      /\ order \in [1..Len(order) -> Balances]
  BY BatchAssumption, LenProperties
<1>3. \A c \in Balances : RowOf(c) \in Rows /\ Known(RowOf(c))
  BY DEF RowOf, Rows, Known, Inv, HcmInv
<1>4. rows \in [1..n -> Rows] /\ \A i \in 1..n : Known(rows[i])
  BY <1>2, <1>3
<1>5. rows \in Seq(Rows) /\ Len(rows) = n
  <2>1. rows \in Seq(Rows)
    BY <1>1, <1>4, SeqDef
  <2>2. Len(rows) \in Nat /\ DOMAIN rows = 1..Len(rows) /\ DOMAIN rows = 1..n
    BY <1>4, <2>1, LenProperties
  <2>3. Len(rows) = n
    BY <1>1, <2>2
  <2> QED  BY <2>1, <2>3
<1> QED  BY <1>4, <1>5

\* A slice has at most ChunkSize rows, all of the batch.
LEMMA SliceRows ==
  ASSUME NEW rows \in Seq(Rows), NEW first \in 1..Len(rows)
  PROVE  /\ Slice(rows, first) \in Seq(Rows)
         /\ Len(Slice(rows, first)) <= ChunkSize
         /\ \A i \in 1..Len(Slice(rows, first)) :
              \E k \in 1..Len(rows) : Slice(rows, first)[i] = rows[k]
<1> DEFINE last == IF first + ChunkSize - 1 < Len(rows) THEN first + ChunkSize - 1 ELSE Len(rows)
<1>1. ChunkSize \in Nat \ {0}
  BY ReconciliationAssumption
<1>2. Len(rows) \in Nat /\ last \in Int /\ last <= Len(rows) /\ first <= last
        /\ last - first + 1 <= ChunkSize
  BY <1>1
<1>3. Slice(rows, first) = SubSeq(rows, first, last)
  BY DEF Slice
<1> HIDE DEF last
<1>4. \A i \in first..last : rows[i] \in Rows
  BY <1>2, ElementOfSeq
<1>5. /\ SubSeq(rows, first, last) \in Seq(Rows)
      /\ Len(SubSeq(rows, first, last)) = last - first + 1
      /\ \A i \in 1..(last - first + 1) : SubSeq(rows, first, last)[i] = rows[first + i - 1]
  BY <1>2, <1>4, SubSeqProperties
<1>6. ASSUME NEW i \in 1..(last - first + 1)
      PROVE  first + i - 1 \in 1..Len(rows)
  BY <1>2
<1> QED  BY <1>2, <1>3, <1>5, <1>6

LEMMA SendBatchInv ==
  ASSUME Inv, sendBatch
  PROVE  Inv'
<1>1. PICK order \in Orders :
        enqueueBatch([i \in DOMAIN order |-> RowOf(order[i])])
  BY DEF sendBatch
<1> DEFINE rows == [i \in DOMAIN order |-> RowOf(order[i])]
<1>2. rows \in Seq(Rows) /\ \A i \in 1..Len(rows) : Known(rows[i])
  BY OrderedRows
<1>3. enqueueBatch(rows)
  BY <1>1
<1> HIDE DEF rows
<1>4. PICK added \in SUBSET Firsts(rows) :
        /\ Spend((IF added = Firsts(rows) THEN {} ELSE {"enqueueFails"})
                   \cup (IF batches = 0 THEN {} ELSE {"resend"}))
        /\ chunk' = [j \in Jobs |-> IF j[1] = batches' /\ j[2] \in added
                                      THEN Slice(rows, j[2]) ELSE chunk[j]]
        /\ job' = [j \in Jobs |-> IF j[1] = batches' /\ j[2] \in added THEN "queued" ELSE job[j]]
  BY <1>3 DEF enqueueBatch
<1>5. /\ batches < MaxBatches /\ batches' = batches + 1
      /\ UNCHANGED <<inflight, lock, stalls, task, next>>
      /\ UNCHANGED hcmVars /\ UNCHANGED localVars /\ UNCHANGED syncVars
  BY <1>3 DEF enqueueBatch, runVars
<1>6. HcmInv' /\ \A b \in Balances : snaps[b] \subseteq snaps'[b]
  BY <1>5, HcmFrame
<1>7. LocalInv' /\ PushInv' /\ SyncInv' /\ EnvInv'
  <2>1. EnvInv'
    BY <1>4, EnvFrame DEF Disturbances
  <2> QED  BY <1>5, <1>6, <2>1, Monotone DEF syncVars
<1>8. batches' \in 0..MaxBatches /\ batches \in Nat
  BY <1>5, ReconciliationAssumption DEF Inv, JobInv
<1>9. ASSUME NEW j \in Jobs
      PROVE  \/ chunk'[j] = chunk[j] /\ job'[j] = job[j]
             \/ /\ job[j] = "none" /\ job'[j] = "queued"
                /\ j[1] = batches' /\ chunk'[j] \in Seq(Rows) /\ Len(chunk'[j]) <= ChunkSize
                /\ \A i \in 1..Len(chunk'[j]) : Known(chunk'[j][i])
  <2>1. CASE j[1] = batches' /\ j[2] \in added
    <3>1. j[2] \in 1..Len(rows)
      BY <1>2, <2>1 DEF Firsts
    <3>2. chunk'[j] = Slice(rows, j[2]) /\ job'[j] = "queued"
      BY <1>4, <2>1
    <3>3. job[j] = "none"
      BY <1>5, <1>8, <2>1 DEF Inv, JobInv
    <3>4. /\ chunk'[j] \in Seq(Rows) /\ Len(chunk'[j]) <= ChunkSize
          /\ \A i \in 1..Len(chunk'[j]) : \E k \in 1..Len(rows) : chunk'[j][i] = rows[k]
      <4>1. /\ Slice(rows, j[2]) \in Seq(Rows) /\ Len(Slice(rows, j[2])) <= ChunkSize
            /\ \A i \in 1..Len(Slice(rows, j[2])) :
                 \E k \in 1..Len(rows) : Slice(rows, j[2])[i] = rows[k]
        BY <1>2, <3>1, SliceRows
      <4> QED  BY <3>2, <4>1
    <3> QED  BY <1>2, <2>1, <3>2, <3>3, <3>4
  <2>2. CASE ~(j[1] = batches' /\ j[2] \in added)
    BY <1>4, <2>2
  <2> QED  BY <2>1, <2>2
<1>10. JobInv'
  <2>1. ASSUME NEW j \in Jobs
        PROVE  /\ chunk'[j] \in Seq(Rows) /\ Len(chunk'[j]) <= ChunkSize
               /\ job'[j] \in Channel!JobStates
               /\ j[1] > batches' => job'[j] = "none"
               /\ \A i \in 1..Len(chunk'[j]) : Known(chunk'[j][i])
    <3>1. /\ chunk[j] \in Seq(Rows) /\ Len(chunk[j]) <= ChunkSize
          /\ job[j] \in Channel!JobStates
          /\ j[1] > batches => job[j] = "none"
          /\ \A i \in 1..Len(chunk[j]) : Known(chunk[j][i])
      BY DEF Inv, JobInv, Channel!ChannelTypeOK
    <3>2. j[1] > batches' => j[1] > batches /\ j[1] # batches'
      BY <1>5, <1>8 DEF Jobs
    <3>3. CASE chunk'[j] = chunk[j] /\ job'[j] = job[j]
      BY <3>1, <3>2, <3>3
    <3>4. CASE ~(chunk'[j] = chunk[j] /\ job'[j] = job[j])
      <4>1. /\ j[1] = batches' /\ chunk'[j] \in Seq(Rows) /\ job'[j] = "queued"
            /\ Len(chunk'[j]) <= ChunkSize
            /\ \A i \in 1..Len(chunk'[j]) : Known(chunk'[j][i])
        BY <1>9, <3>4
      <4>2. ~(j[1] > batches')
        BY <1>5, <1>8, <4>1
      <4> QED  BY <4>1, <4>2 DEF Channel!JobStates
    <3> QED  BY <3>3, <3>4
  <2>2. chunk' \in [Jobs -> Seq(Rows)] /\ job' \in [Jobs -> Channel!JobStates]
    <3>1. chunk' = [j \in Jobs |-> chunk'[j]] /\ job' = [j \in Jobs |-> job'[j]]
      BY <1>4
    <3> QED  BY <2>1, <3>1
  <2>3. /\ task' \in [Workers -> Jobs \cup {NoJob}] /\ next' \in [Workers -> Nat \ {0}]
        /\ lock' \in [Jobs -> Workers \cup {NoWorker}] /\ stalls' \in [Jobs -> 0..MaxStalled]
    BY <1>5 DEF Inv, JobInv, Channel!ChannelTypeOK
  <2>4. snaps' = snaps
    BY <1>5 DEF hcmVars
  <2> QED  BY <1>8, <2>1, <2>2, <2>3, <2>4 DEF JobInv, Known, Channel!ChannelTypeOK
<1>11. RunInv'
  <2>1. ASSUME NEW w \in Workers, task[w] # NoJob
        PROVE  chunk'[task[w]] = chunk[task[w]] /\ job'[task[w]] = job[task[w]]
    <3>1. task[w] \in Jobs /\ job[task[w]] # "none"
      BY <2>1 DEF Inv, JobInv, RunInv
    <3> QED  BY <1>9, <3>1
  <2> QED  BY <1>5, <2>1 DEF Inv, RunInv, localVars
<1>12. DoneInv'
  BY <1>5, <1>9 DEF Inv, DoneInv, localVars
<1> QED  BY <1>6, <1>7, <1>10, <1>11, <1>12 DEF Inv

(***************************************************************************)
(* The runs of the jobs                                                    *)
(***************************************************************************)
\* A job that is taken, settled or found stalled stays a job; no other moves.
LEMMA QueueStep ==
  ASSUME Inv, NEW j \in Jobs, job[j] # "none",
         \/ \E w \in Workers : Channel!Take(w, j)
         \/ \E w \in Workers, o \in {"completed", "failed"} : Channel!Settle(w, j, o)
         \/ Channel!Stall(j)
  PROVE  /\ Channel!ChannelTypeOK'
         /\ job'[j] # "none"
         /\ \A k \in Jobs \ {j} : job'[k] = job[k]
         /\ \/ job'[j] = "completed" => job[j] = "completed"
            \/ \E w \in Workers : Channel!Settle(w, j, "completed")
<1> USE ReconciliationAssumption DEF Channel!ChannelTypeOK, Channel!JobStates
<1>0. Channel!ChannelTypeOK
  BY DEF Inv, JobInv
<1>1. CASE \E w \in Workers : Channel!Take(w, j)
  BY <1>0, <1>1 DEF Channel!Take
<1>2. ASSUME NEW w \in Workers, NEW o \in {"completed", "failed"}, Channel!Settle(w, j, o)
      PROVE  /\ Channel!ChannelTypeOK'
             /\ job'[j] # "none"
             /\ \A k \in Jobs \ {j} : job'[k] = job[k]
             /\ o = "failed" => (job'[j] = "completed" => job[j] = "completed")
  BY <1>0, <1>2 DEF Channel!Settle
<1>3. CASE Channel!Stall(j)
  BY <1>0, <1>3 DEF Channel!Stall
<1> QED  BY <1>1, <1>2, <1>3

LEMMA JobFrame ==
  ASSUME Inv, Channel!ChannelTypeOK', \A j \in Jobs : job[j] = "none" => job'[j] = "none",
         task' \in [Workers -> Jobs \cup {NoJob}], next' \in [Workers -> Nat \ {0}],
         UNCHANGED <<batches, chunk>>, UNCHANGED hcmVars
  PROVE  JobInv'
BY DEF Inv, JobInv, Known, hcmVars

LEMMA Task ==
  ASSUME Inv, NEW w \in Workers, task[w] # NoJob
  PROVE  /\ task[w] \in Jobs /\ job[task[w]] # "none"
         /\ Len(chunk[task[w]]) \in Nat /\ next[w] \in Nat \ {0}
         /\ HasNext(w) => /\ next[w] \in 1..Len(chunk[task[w]])
                          /\ chunk[task[w]][next[w]] \in Rows
                          /\ Known(chunk[task[w]][next[w]])
<1>1. task[w] \in Jobs /\ job[task[w]] # "none" /\ next[w] \in Nat \ {0}
  BY DEF Inv, JobInv, RunInv
<1>2. chunk[task[w]] \in Seq(Rows)
  BY <1>1 DEF Inv, JobInv
<1>3. Len(chunk[task[w]]) \in Nat
  BY <1>2, LenProperties
<1>4. ASSUME HasNext(w) PROVE next[w] \in 1..Len(chunk[task[w]])
  BY <1>1, <1>3, <1>4 DEF HasNext
<1>5. ASSUME HasNext(w)
      PROVE  chunk[task[w]][next[w]] \in Rows /\ Known(chunk[task[w]][next[w]])
  BY <1>1, <1>2, <1>4, <1>5, ElementOfSeq DEF Inv, JobInv
<1> QED  BY <1>1, <1>3, <1>4, <1>5

LEMMA StartChunkInv ==
  ASSUME Inv, NEW w \in Workers, NEW j \in Jobs, startChunk(w, j)
  PROVE  Inv'
<1>1. /\ Channel!Take(w, j) /\ task' = [task EXCEPT ![w] = j] /\ next' = [next EXCEPT ![w] = 1]
      /\ job[j] # "none"
      /\ UNCHANGED hcmVars /\ UNCHANGED localVars /\ UNCHANGED syncVars
      /\ UNCHANGED <<inflight, batches, chunk, env>>
  BY DEF startChunk, Channel!Take
<1>2. HcmInv' /\ \A b \in Balances : snaps[b] \subseteq snaps'[b]
  BY <1>1, HcmFrame
<1>3. LocalInv' /\ PushInv' /\ SyncInv' /\ EnvInv'
  BY <1>1, <1>2, Monotone, EnvFrame DEF syncVars
<1>4. /\ task' \in [Workers -> Jobs \cup {NoJob}] /\ next' \in [Workers -> Nat \ {0}]
      /\ task'[w] = j /\ next'[w] = 1
      /\ \A v \in Workers \ {w} : task'[v] = task[v] /\ next'[v] = next[v]
  BY <1>1 DEF Inv, JobInv
<1>5. /\ Channel!ChannelTypeOK' /\ \A k \in Jobs : job'[k] = "none" => job[k] = "none"
      /\ \A k \in Jobs : job[k] = "none" => job'[k] = "none"
      /\ \A k \in Jobs : job'[k] = "completed" => job[k] = "completed"
  <2>1. Channel!ChannelTypeOK' /\ job'[j] # "none" /\ \A k \in Jobs \ {j} : job'[k] = job[k]
    BY <1>1, QueueStep
  <2>2. job'[j] = "active"
    BY <1>1 DEF Channel!Take, Inv, JobInv, Channel!ChannelTypeOK
  <2> QED  BY <1>1, <2>1, <2>2
<1>6. JobInv'
  BY <1>1, <1>4, <1>5, JobFrame
<1>7. RunInv'
  <2>1. Len(chunk[j]) \in Nat
    <3>1. chunk[j] \in Seq(Rows)
      BY DEF Inv, JobInv
    <3> QED  BY <3>1, LenProperties
  <2>2. ASSUME NEW v \in Workers, task'[v] # NoJob
        PROVE  /\ job'[task'[v]] # "none" /\ next'[v] <= Len(chunk'[task'[v]]) + 1
               /\ \A i \in 1..Len(chunk'[task'[v]]) :
                    i < next'[v] => chunk'[task'[v]][i] \in applied'
    <3>1. CASE v = w
      BY <1>1, <1>4, <1>5, <2>1, <3>1
    <3>2. CASE v # w
      <4>1. task'[v] = task[v] /\ next'[v] = next[v] /\ task[v] \in Jobs
        BY <1>4, <2>2, <3>2 DEF Inv, JobInv
      <4> QED  BY <1>1, <1>5, <2>2, <4>1 DEF Inv, RunInv, localVars
    <3> QED  BY <3>1, <3>2
  <2> QED  BY <2>2 DEF RunInv
<1>8. DoneInv'
  BY <1>1, <1>5 DEF Inv, DoneInv, localVars
<1> QED  BY <1>2, <1>3, <1>6, <1>7, <1>8 DEF Inv

LEMMA ApplyChunkInv ==
  ASSUME Inv, NEW w \in Workers, applyChunk(w)
  PROVE  Inv'
<1> DEFINE row == chunk[task[w]][next[w]]
<1>1. /\ task[w] # NoJob /\ task[w] \in Jobs /\ next[w] \in 1..Len(chunk[task[w]])
      /\ next[w] \in Nat \ {0} /\ Len(chunk[task[w]]) \in Nat /\ row \in Rows /\ Known(row)
  BY Task DEF applyChunk, HasNext
<1>2. /\ applyRow(row) /\ next' = [next EXCEPT ![w] = next[w] + 1]
      /\ UNCHANGED <<inflight, batches, chunk, job, lock, stalls, task, env>>
      /\ UNCHANGED hcmVars /\ UNCHANGED syncVars
  BY DEF applyChunk, channelVars
<1>3. applied' = applied \cup {row}
  BY <1>2 DEF applyRow
<1>4. UNCHANGED <<hcmVars, synced, before>>
  BY <1>2 DEF syncVars
<1> HIDE DEF row
<1>5. LocalInv'
  BY <1>1, <1>2, <1>4, ApplyRowInv
<1>6. HcmInv' /\ \A b \in Balances : snaps[b] \subseteq snaps'[b]
  BY <1>2, HcmFrame
<1>7. PushInv' /\ SyncInv' /\ EnvInv'
  BY <1>2, <1>6, Monotone, EnvFrame DEF syncVars
<1>8. /\ next' \in [Workers -> Nat \ {0}] /\ next'[w] = next[w] + 1
      /\ \A v \in Workers \ {w} : next'[v] = next[v]
  BY <1>1, <1>2 DEF Inv, JobInv
<1>9. JobInv'
  BY <1>2, <1>8, JobFrame DEF Inv, JobInv, Channel!ChannelTypeOK
<1>10. RunInv'
  <2>1. ASSUME NEW v \in Workers, task[v] # NoJob
        PROVE  /\ job[task[v]] # "none" /\ next'[v] <= Len(chunk[task[v]]) + 1
               /\ \A i \in 1..Len(chunk[task[v]]) :
                    i < next'[v] => chunk[task[v]][i] \in applied'
    <3>1. /\ job[task[v]] # "none" /\ next[v] <= Len(chunk[task[v]]) + 1
          /\ \A i \in 1..Len(chunk[task[v]]) : i < next[v] => chunk[task[v]][i] \in applied
      BY <2>1 DEF Inv, RunInv
    <3>2. CASE v = w
      <4>1. \A i \in 1..Len(chunk[task[w]]) : i < next'[w] => i < next[w] \/ i = next[w]
        BY <1>1, <1>8
      <4> QED  BY <1>1, <1>3, <1>8, <3>1, <3>2, <4>1 DEF row
    <3>3. CASE v # w
      BY <1>3, <1>8, <3>1, <3>3
    <3> QED  BY <3>2, <3>3
  <2> QED  BY <1>2, <2>1 DEF RunInv
<1>11. DoneInv'
  BY <1>2, <1>3 DEF Inv, DoneInv
<1> QED  BY <1>5, <1>6, <1>7, <1>9, <1>10, <1>11 DEF Inv

\* The end of a run leaves the other runs alone; a job that completes has merged its rows.
LEMMA EndRunInv ==
  ASSUME Inv, NEW w \in Workers, task[w] # NoJob, NEW o \in {"completed", "failed"},
         endRun(w, o), UNCHANGED env \/ \E D \in SUBSET Disturbances : Spend(D),
         o = "completed" => ~HasNext(w)
  PROVE  Inv'
<1> DEFINE j == task[w]
<1>1. /\ Channel!Settle(w, j, o)
      /\ task' = [task EXCEPT ![w] = NoJob] /\ next' = [next EXCEPT ![w] = 1]
      /\ UNCHANGED hcmVars /\ UNCHANGED localVars /\ UNCHANGED syncVars
      /\ UNCHANGED <<inflight, batches, chunk>>
  BY DEF endRun
<1>2. j \in Jobs /\ job[j] # "none" /\ Len(chunk[j]) \in Nat /\ next[w] \in Nat \ {0}
  BY Task
<1>3. ASSUME o = "completed" PROVE \A i \in 1..Len(chunk[j]) : chunk[j][i] \in applied
  <2>1. ~(next[w] <= Len(chunk[j]))
    BY <1>3 DEF HasNext
  <2> QED  BY <1>2, <2>1 DEF Inv, RunInv
<1>4. /\ Channel!ChannelTypeOK' /\ job'[j] # "none"
      /\ \A k \in Jobs \ {j} : job'[k] = job[k]
  BY <1>1, <1>2, QueueStep
<1>5. job'[j] = "completed" => job[j] = "completed" \/ o = "completed"
  BY <1>1, <1>2 DEF Channel!Settle, Inv, JobInv, Channel!ChannelTypeOK
<1> HIDE DEF j
<1>6. HcmInv' /\ \A b \in Balances : snaps[b] \subseteq snaps'[b]
  BY <1>1, HcmFrame
<1>7. LocalInv' /\ PushInv' /\ SyncInv' /\ EnvInv'
  BY <1>1, <1>6, Monotone, EnvFrame DEF syncVars
<1>8. /\ task' \in [Workers -> Jobs \cup {NoJob}] /\ next' \in [Workers -> Nat \ {0}]
      /\ task'[w] = NoJob
      /\ \A v \in Workers \ {w} : task'[v] = task[v] /\ next'[v] = next[v]
  BY <1>1 DEF Inv, JobInv
<1>9. JobInv'
  BY <1>1, <1>2, <1>4, <1>8, JobFrame
<1>10. RunInv'
  <2>1. ASSUME NEW v \in Workers, task'[v] # NoJob
        PROVE  /\ task'[v] = task[v] /\ next'[v] = next[v]
               /\ task[v] \in Jobs /\ job'[task[v]] # "none"
    <3>1. v # w /\ task'[v] = task[v] /\ next'[v] = next[v] /\ task[v] # NoJob
      BY <1>8, <2>1
    <3>2. task[v] \in Jobs /\ job[task[v]] # "none"
      BY <3>1, Task
    <3> QED  BY <1>4, <3>1, <3>2
  <2> QED  BY <1>1, <2>1 DEF Inv, RunInv, localVars
<1>11. DoneInv'
  BY <1>1, <1>3, <1>4, <1>5 DEF Inv, DoneInv, localVars
<1> QED  BY <1>6, <1>7, <1>9, <1>10, <1>11 DEF Inv

LEMMA StalledInv ==
  ASSUME Inv, NEW j \in Jobs, lockExpires(j) \/ recoverOrphan(j)
  PROVE  Inv'
<1>1. /\ Channel!Stall(j) /\ UNCHANGED hcmVars /\ UNCHANGED localVars /\ UNCHANGED syncVars
      /\ UNCHANGED <<inflight, batches, chunk, task, next>>
      /\ UNCHANGED env \/ \E D \in SUBSET Disturbances : Spend(D)
      /\ job[j] # "none" /\ job'[j] # "completed"
  <2>1. Channel!Stall(j)
    BY DEF lockExpires, recoverOrphan
  <2>2. job[j] # "none" /\ job'[j] # "completed"
    BY <2>1 DEF Channel!Stall, Inv, JobInv, Channel!ChannelTypeOK
  <2> QED  BY <2>1, <2>2 DEF lockExpires, recoverOrphan, runVars, Disturbances
<1>2. HcmInv' /\ \A b \in Balances : snaps[b] \subseteq snaps'[b]
  BY <1>1, HcmFrame
<1>3. LocalInv' /\ PushInv' /\ SyncInv' /\ EnvInv'
  BY <1>1, <1>2, Monotone, EnvFrame DEF syncVars
<1>4. Channel!ChannelTypeOK' /\ job'[j] # "none" /\ \A k \in Jobs \ {j} : job'[k] = job[k]
  BY <1>1, QueueStep
<1>5. JobInv'
  BY <1>1, <1>4, JobFrame DEF Inv, JobInv
<1>6. RunInv'
  <2>1. \A w \in Workers : task[w] # NoJob => task[w] \in Jobs /\ job'[task[w]] # "none"
    BY <1>4, Task
  <2> QED  BY <1>1, <2>1 DEF Inv, RunInv, localVars
<1>7. DoneInv'
  BY <1>1, <1>4 DEF Inv, DoneInv, localVars
<1> QED  BY <1>2, <1>3, <1>5, <1>6, <1>7 DEF Inv

LEMMA CrashInv ==
  ASSUME Inv, crash
  PROVE  Inv'
<1>1. /\ task' = [w \in Workers |-> NoJob] /\ next' = [w \in Workers |-> 1]
      /\ sync' = [b \in Balances |-> NoSync] /\ lock' = [j \in Jobs |-> NoWorker]
      /\ UNCHANGED hcmVars /\ UNCHANGED localVars
      /\ UNCHANGED <<inflight, batches, chunk, job, stalls, synced, before>>
      /\ Spend({"crash"})
  BY DEF crash, Channel!LoseLocks
<1>2. HcmInv' /\ \A b \in Balances : snaps[b] \subseteq snaps'[b]
  BY <1>1, HcmFrame
<1>3. LocalInv' /\ PushInv' /\ EnvInv'
  BY <1>1, <1>2, Monotone, EnvFrame DEF Disturbances
<1>4. SyncInv'
  BY <1>1 DEF Inv, SyncInv
<1>5. JobInv'
  BY <1>1, JobFrame DEF Inv, JobInv, Channel!ChannelTypeOK
<1>6. RunInv' /\ DoneInv'
  BY <1>1 DEF Inv, RunInv, DoneInv, localVars
<1> QED  BY <1>2, <1>3, <1>4, <1>5, <1>6 DEF Inv

(***************************************************************************)
(* The theorems                                                            *)
(***************************************************************************)
LEMMA NextInv == Inv /\ [Next]_vars => Inv'
<1> SUFFICES ASSUME Inv, [Next]_vars PROVE Inv'
  OBVIOUS
<1>1. ASSUME NEW b \in Balances, NEW t \in Totals, hcmChange(b, t) PROVE Inv'
  BY <1>1, HcmChangeInv
<1>2. ASSUME NEW b \in Balances, pushRealtime(b) \/ getBalance(b) \/ confirmCommit(b)
      PROVE  Inv'
  BY <1>2, PushRealtimeInv, GetBalanceInv, ConfirmCommitInv
<1>3. ASSUME NEW row \in inflight, applyRealtime(row) \/ realtimeLost(row) PROVE Inv'
  BY <1>3, ApplyRealtimeInv, RealtimeLostInv
<1>4. ASSUME sendBatch PROVE Inv'
  BY <1>4, SendBatchInv
<1>5. ASSUME NEW w \in Workers, NEW j \in Jobs, startChunk(w, j) PROVE Inv'
  BY <1>5, StartChunkInv
<1>6. ASSUME NEW w \in Workers, applyChunk(w) PROVE Inv'
  BY <1>6, ApplyChunkInv
<1>7. ASSUME NEW w \in Workers, chunkEnds(w) \/ chunkFails(w) PROVE Inv'
  BY <1>7, EndRunInv DEF chunkEnds, chunkFails, HasNext, Disturbances
<1>8. ASSUME NEW j \in Jobs, lockExpires(j) \/ recoverOrphan(j) PROVE Inv'
  BY <1>8, StalledInv
<1>9. ASSUME UNCHANGED vars PROVE Inv'
  <2>1. UNCHANGED hcmVars /\ UNCHANGED localVars /\ UNCHANGED jobVars /\ UNCHANGED syncVars
          /\ UNCHANGED <<inflight, batches, env>>
    BY <1>9 DEF vars
  <2>2. HcmInv' /\ \A b \in Balances : snaps[b] \subseteq snaps'[b]
    BY <2>1, HcmFrame
  <2>3. RunInv' /\ DoneInv' /\ EnvInv'
    BY <2>1, RunFrame, EnvFrame DEF localVars
  <2> QED  BY <2>1, <2>2, <2>3, Monotone DEF Inv, syncVars, localVars
<1> QED  BY <1>1, <1>2, <1>3, <1>4, <1>5, <1>6, <1>7, <1>8, <1>9, CrashInv DEF Next

LEMMA Invariance == Spec => []Inv
<1> QED  BY InitInv, NextInv, PTL DEF Spec

LEMMA InvImpliesTypeOK == Inv => TypeOK
<1> SUFFICES ASSUME Inv PROVE TypeOK
  OBVIOUS
<1>1. chunk \in [Jobs -> BoundedSeq(Rows, ChunkSize)]
  <2>1. ASSUME NEW j \in Jobs PROVE chunk[j] \in BoundedSeq(Rows, ChunkSize)
    <3>1. chunk[j] \in Seq(Rows) /\ Len(chunk[j]) <= ChunkSize
      BY DEF Inv, JobInv
    <3>2. Len(chunk[j]) \in Nat /\ chunk[j] \in [1..Len(chunk[j]) -> Rows]
      BY <3>1, LenProperties
    <3>3. ChunkSize \in Nat
      BY ReconciliationAssumption
    <3>4. Len(chunk[j]) \in 0..ChunkSize
      BY <3>1, <3>2, <3>3
    <3> QED  BY <3>2, <3>4 DEF BoundedSeq, SeqOf
  <2> QED  BY <2>1 DEF Inv, JobInv
<1>2. task \in [Workers -> Jobs \cup {NoJob}] /\ next \in [Workers -> Nat \ {0}]
        /\ \A w \in Workers : task[w] # NoJob => next[w] <= Len(chunk[task[w]]) + 1
  BY DEF Inv, JobInv, RunInv
<1> QED
  BY <1>1, <1>2 DEF Inv, HcmInv, LocalInv, PushInv, SyncInv, JobInv, EnvInv, TypeOK

\* Every variable keeps its type.
THEOREM ReconciliationTypeCorrect == Spec => []TypeOK
<1> QED  BY Invariance, InvImpliesTypeOK, PTL

\* The total and the hcmLastSeenAt of a balance row are one state of the HCM, whichever of
\* the webhook, the batches and the confirms wrote them.
THEOREM RowIsOneSnapshot == Spec => []LocalIsSnapshot
<1>1. Inv => LocalIsSnapshot
  BY DEF Inv, LocalInv
<1> QED  BY <1>1, Invariance, PTL

\* The HCM_REFRESH movements and what the confirms synchronised add up to the local total.
THEOREM AuditTrailAddsUp == Spec => []RefreshesExplainTotal
<1>1. Inv => RefreshesExplainTotal
  BY DEF Inv, LocalInv
<1> QED  BY <1>1, Invariance, PTL

\* A push that is merged again leaves no second movement, until a confirm turns the row back
\* and again after that.
THEOREM PushesAreIdempotent == Spec => []OneRefreshPerPush
<1>1. Inv => OneRefreshPerPush
  BY DEF Inv, LocalInv
<1> QED  BY <1>1, Invariance, PTL

\* Once the HCM's newest push was merged, the local row is what the HCM has or had in the
\* same millisecond, until a confirm turns it back: a merged row is not newer than the local
\* one, and no snapshot is newer than the HCM's.
THEOREM NewestPushWins == Spec => []NewestWins
<1>1. ASSUME Inv, NEW b \in Balances, RowOf(b) \in since
      PROVE  local[b] \in {s \in snaps[b] : s.ts = hcm[b].ts}
  <2>1. local[b] # NoRow /\ hcm[b].ts <= local[b].ts
    BY <1>1 DEF Inv, LocalInv, Merged, RowOf
  <2>2. local[b] \in snaps[b] /\ local[b] \in Snapshots
    BY <1>1, <2>1 DEF Inv, LocalInv, LocalIsSnapshot
  <2>3. local[b].ts <= hcm[b].ts /\ hcm[b] \in Snapshots
    BY <1>1, <2>2 DEF Inv, HcmInv
  <2>4. local[b].ts = hcm[b].ts
    BY <2>1, <2>2, <2>3, SnapshotTypes
  <2> QED  BY <2>2, <2>4
<1>2. Inv => NewestWins
  BY <1>1 DEF NewestWins
<1> QED  BY <1>2, Invariance, PTL

\* A job that BullMQ shows as completed has merged every row of its chunk, over crashes, lost
\* locks, overlapping runs and failed transactions.
THEOREM NoRowLeftOut == Spec => []FinishedChunksMerged
<1>1. ASSUME Inv, NEW j \in Jobs, job[j] = "completed"
      PROVE  ToSet(chunk[j]) \subseteq applied
  <2>1. \A i \in 1..Len(chunk[j]) : chunk[j][i] \in applied
    BY <1>1 DEF Inv, DoneInv
  <2>2. DOMAIN chunk[j] = 1..Len(chunk[j])
    <3>1. chunk[j] \in Seq(Rows)
      BY <1>1 DEF Inv, JobInv
    <3> QED  BY <3>1, LenProperties
  <2> QED  BY <2>1, <2>2 DEF ToSet
<1>2. Inv => FinishedChunksMerged
  BY <1>1 DEF FinishedChunksMerged
<1> QED  BY <1>2, Invariance, PTL
=============================================================================
