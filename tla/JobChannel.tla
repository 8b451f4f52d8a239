----------------------------- MODULE JobChannel -----------------------------
(***************************************************************************)
(* What the rest of the system may rely on between the commit of an outbox *)
(* entry and the run of its handler: the entry is handed to a worker at    *)
(* least once.  The outbox table, its dispatcher and reaper and the BullMQ *)
(* queue "hcm-saga" are seen here as one channel of jobs.                  *)
(*                                                                         *)
(* "queued" stands for every place a job waits in: the PENDING row, the    *)
(* row claimed but not yet added, the waiting list of BullMQ.              *)
(***************************************************************************)
EXTENDS Naturals

CONSTANTS
  Entries,      \* outbox entry ids, which are the job ids
  Workers,      \* concurrency slots of the worker process
  NoWorker,     \* nobody holds the lock of a job
  MaxStalled    \* BullMQ's maxStalledCount

VARIABLES
  job,      \* where each job is
  lock,     \* the slot that holds the lock of an active job
  stalls    \* how often the job was found stalled

channelVars == <<job, lock, stalls>>

JobStates == {"none", "queued", "active", "completed", "failed"}

ChannelTypeOK ==
  /\ job \in [Entries -> JobStates]
  /\ lock \in [Entries -> Workers \cup {NoWorker}]
  /\ stalls \in [Entries -> 0..MaxStalled]

ChannelInit ==
  /\ job = [e \in Entries |-> "none"]
  /\ lock = [e \in Entries |-> NoWorker]
  /\ stalls = [e \in Entries |-> 0]

Enqueue(e) ==
  /\ job[e] = "none"
  /\ job' = [job EXCEPT ![e] = "queued"]
  /\ UNCHANGED <<lock, stalls>>

Take(w, e) ==
  /\ job[e] = "queued"
  /\ job' = [job EXCEPT ![e] = "active"]
  /\ lock' = [lock EXCEPT ![e] = w]
  /\ UNCHANGED stalls

\* The handler returned or threw.  No attempts are configured, so a job that threw is
\* failed for good; a run that has lost the lock settles nothing.
Settle(w, e, outcome) ==
  /\ IF lock[e] = w
       THEN /\ job' = [job EXCEPT ![e] = outcome]
            /\ lock' = [lock EXCEPT ![e] = NoWorker]
       ELSE UNCHANGED <<job, lock>>
  /\ UNCHANGED stalls

\* The lock of an active job expired: back to the queue once, then failed.
Stall(e) ==
  /\ job[e] = "active"
  /\ lock' = [lock EXCEPT ![e] = NoWorker]
  /\ IF stalls[e] < MaxStalled
       THEN /\ job' = [job EXCEPT ![e] = "queued"]
            /\ stalls' = [stalls EXCEPT ![e] = @ + 1]
       ELSE /\ job' = [job EXCEPT ![e] = "failed"]
            /\ UNCHANGED stalls

\* Redis no longer knows the job (evicted, or its memory was lost) and the reaper
\* re-arms the entry, which is never marked as finished.
Resend(e) ==
  /\ job[e] # "none"
  /\ job' = [job EXCEPT ![e] = "queued"]
  /\ lock' = [lock EXCEPT ![e] = NoWorker]
  /\ stalls' = [stalls EXCEPT ![e] = 0]

\* The worker process died, or Redis lost its memory: nobody holds a lock any more.
LoseLocks ==
  /\ lock' = [e \in Entries |-> NoWorker]
  /\ UNCHANGED <<job, stalls>>

ChannelNext ==
  \/ \E e \in Entries : Enqueue(e) \/ Stall(e) \/ Resend(e)
  \/ \E e \in Entries, w \in Workers :
       Take(w, e) \/ \E outcome \in {"completed", "failed"} : Settle(w, e, outcome)
  \/ LoseLocks

ChannelSpec == ChannelInit /\ [][ChannelNext]_channelVars
=============================================================================
