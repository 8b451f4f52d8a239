---------------------------- MODULE OutboxProofs ----------------------------
(***************************************************************************)
(* Proofs that Outbox keeps its types, repeats no completed job that Redis *)
(* remembers and implements JobChannel, for any entries, any number of     *)
(* slots, any limits and any number of disturbances.                       *)
(***************************************************************************)
EXTENDS OutboxProperties, FiniteSetTheorems, SequenceTheorems, TLAPS

(***************************************************************************)
(* Lists without repetition                                                *)
(***************************************************************************)
Lists(s, S) == s \in Seq(Entries) /\ IsInjective(s) /\ ToSet(s) = S

LEMMA ListsFacts ==
  ASSUME NEW s, NEW S, Lists(s, S)
  PROVE  /\ Len(s) \in Nat /\ DOMAIN s = 1..Len(s) /\ S \subseteq Entries
         /\ \A i \in 1..Len(s) : s[i] \in S
         /\ \A x \in S : \E i \in 1..Len(s) : s[i] = x
         /\ \A i, j \in 1..Len(s) : s[i] = s[j] => i = j
<1>1. Len(s) \in Nat /\ DOMAIN s = 1..Len(s) /\ s \in [1..Len(s) -> Entries]
  BY LenProperties DEF Lists
<1> QED  BY <1>1 DEF Lists, ToSet, IsInjective

LEMMA ToSetIs ==
  ASSUME NEW s, NEW S, \A i \in DOMAIN s : s[i] \in S, \A x \in S : \E i \in DOMAIN s : s[i] = x
  PROVE  ToSet(s) = S
BY DEF ToSet

LEMMA EmptyLists == Lists(<<>>, {})
<1>1. <<>> \in Seq(Entries) /\ Len(<<>>) = 0 /\ DOMAIN <<>> = {}
  BY EmptySeq
<1> QED  BY <1>1 DEF Lists, IsInjective, ToSet

LEMMA AppendLists ==
  ASSUME NEW s, NEW S, Lists(s, S), NEW e \in Entries, e \notin S
  PROVE  Lists(Append(s, e), S \cup {e}) /\ Len(Append(s, e)) = Len(s) + 1
<1> DEFINE t == Append(s, e)
<1>1. /\ t \in Seq(Entries) /\ Len(t) = Len(s) + 1 /\ t[Len(s) + 1] = e
      /\ \A i \in 1..Len(s) : t[i] = s[i]
  BY AppendProperties DEF Lists
<1> HIDE DEF t
<1>2. DOMAIN t = 1..(Len(s) + 1)
  BY <1>1, LenProperties
<1>3. Len(s) \in Nat /\ \A i \in 1..Len(s) : t[i] \in S
  BY <1>1, ListsFacts
<1>4. IsInjective(t)
  <2>1. ASSUME NEW i \in 1..(Len(s) + 1), NEW j \in 1..(Len(s) + 1), t[i] = t[j]
        PROVE  i = j
    <3>1. CASE i \in 1..Len(s) /\ j \in 1..Len(s)
      BY <1>1, <2>1, <3>1, ListsFacts
    <3>2. CASE i = Len(s) + 1 \/ j = Len(s) + 1
      BY <1>1, <1>3, <2>1, <3>2
    <3> QED  BY <1>3, <3>1, <3>2
  <2> QED  BY <1>2, <2>1 DEF IsInjective
<1>5. ToSet(t) = S \cup {e}
  <2>1. ASSUME NEW x \in S PROVE \E i \in 1..(Len(s) + 1) : t[i] = x
    <3>1. PICK i \in 1..Len(s) : s[i] = x
      BY ListsFacts
    <3> QED  BY <1>1, <1>3, <3>1
  <2>2. \A i \in 1..(Len(s) + 1) : t[i] \in S \cup {e}
    BY <1>1, <1>3
  <2>3. Len(s) + 1 \in 1..(Len(s) + 1)
    BY <1>3
  <2> QED  BY <1>1, <1>2, <2>1, <2>2, <2>3 DEF ToSet
<1> QED  BY <1>1, <1>4, <1>5 DEF Lists, t

LEMMA TailLists ==
  ASSUME NEW s, NEW S, Lists(s, S), s # <<>>
  PROVE  /\ Head(s) \in S /\ Head(s) = s[1]
         /\ Lists(Tail(s), S \ {Head(s)}) /\ Len(Tail(s)) = Len(s) - 1
<1> DEFINE t == Tail(s)
<1>1. /\ t \in Seq(Entries) /\ Len(t) = Len(s) - 1
      /\ \A i \in 1..Len(t) : t[i] = s[i + 1]
      /\ Len(s) \in Nat \ {0} /\ Head(s) = s[1]
  BY HeadTailProperties, EmptySeq DEF Lists
<1> HIDE DEF t
<1>2. DOMAIN t = 1..(Len(s) - 1)
  BY <1>1, LenProperties
<1>3. 1 \in 1..Len(s) /\ s[1] \in S
  BY <1>1, ListsFacts
<1>4. ASSUME NEW i \in 1..(Len(s) - 1)
      PROVE  i + 1 \in 1..Len(s) /\ t[i] = s[i + 1] /\ t[i] \in S \ {s[1]}
  <2>1. i + 1 \in 1..Len(s) /\ i + 1 # 1
    BY <1>1
  <2> QED  BY <1>1, <1>3, <2>1, ListsFacts
<1>5. IsInjective(t)
  <2>1. ASSUME NEW i \in 1..(Len(s) - 1), NEW j \in 1..(Len(s) - 1), t[i] = t[j]
        PROVE  i = j
    <3>1. i + 1 = j + 1
      BY <1>4, <2>1, ListsFacts
    <3> QED  BY <3>1
  <2> QED  BY <1>2, <2>1 DEF IsInjective
<1>6. ToSet(t) = S \ {s[1]}
  <2>1. ASSUME NEW x \in S \ {s[1]} PROVE \E i \in 1..(Len(s) - 1) : t[i] = x
    <3>1. PICK k \in 1..Len(s) : s[k] = x
      BY ListsFacts
    <3>2. k - 1 \in 1..(Len(s) - 1) /\ (k - 1) + 1 = k
      BY <1>1, <2>1, <3>1
    <3>3. t[k - 1] = s[(k - 1) + 1]
      BY <1>4, <3>2
    <3> QED  BY <3>1, <3>2, <3>3
  <2>2. \A i \in DOMAIN t : t[i] \in S \ {s[1]}
    BY <1>2, <1>4
  <2>3. \A x \in S \ {s[1]} : \E i \in DOMAIN t : t[i] = x
    BY <1>2, <2>1
  <2> QED  BY <2>2, <2>3, ToSetIs
<1> QED  BY <1>1, <1>3, <1>5, <1>6 DEF Lists, t

LEMMA ConsLists ==
  ASSUME NEW s, NEW S, Lists(s, S), NEW e \in Entries, e \notin S
  PROVE  Lists(<<e>> \o s, S \cup {e})
<1> DEFINE t == <<e>> \o s
<1>1. <<e>> \in Seq(Entries) /\ Len(<<e>>) = 1 /\ <<e>>[1] = e
  OBVIOUS
<1>2. Len(s) \in Nat /\ s \in Seq(Entries)
  BY ListsFacts DEF Lists
<1>3. /\ t \in Seq(Entries) /\ Len(t) = 1 + Len(s)
      /\ \A i \in 1..(1 + Len(s)) : t[i] = IF i <= 1 THEN <<e>>[i] ELSE s[i - 1]
  BY <1>1, <1>2, ConcatProperties
<1> HIDE DEF t
<1>4. DOMAIN t = 1..(1 + Len(s)) /\ t[1] = e
  BY <1>1, <1>2, <1>3, LenProperties
<1>5. ASSUME NEW i \in 2..(1 + Len(s))
      PROVE  i - 1 \in 1..Len(s) /\ t[i] = s[i - 1] /\ t[i] \in S
  <2>1. i - 1 \in 1..Len(s) /\ i \in 1..(1 + Len(s)) /\ ~(i <= 1)
    BY <1>2
  <2> QED  BY <1>3, <2>1, ListsFacts
<1>6. IsInjective(t)
  <2>1. ASSUME NEW i \in 1..(1 + Len(s)), NEW j \in 1..(1 + Len(s)), t[i] = t[j]
        PROVE  i = j
    <3>1. CASE i \in 2..(1 + Len(s)) /\ j \in 2..(1 + Len(s))
      <4>1. i - 1 = j - 1
        BY <1>5, <2>1, <3>1, ListsFacts
      <4> QED  BY <4>1
    <3>2. CASE i = 1 \/ j = 1
      <4>1. \A k \in 1..(1 + Len(s)) : k = 1 \/ k \in 2..(1 + Len(s))
        BY <1>2
      <4> QED  BY <1>4, <1>5, <2>1, <3>2, <4>1
    <3> QED  BY <1>2, <3>1, <3>2
  <2> QED  BY <1>4, <2>1 DEF IsInjective
<1>7. ToSet(t) = S \cup {e}
  <2>1. ASSUME NEW x \in S PROVE \E i \in 1..(1 + Len(s)) : t[i] = x
    <3>1. PICK k \in 1..Len(s) : s[k] = x
      BY ListsFacts
    <3>2. k + 1 \in 2..(1 + Len(s)) /\ (k + 1) - 1 = k /\ k + 1 \in 1..(1 + Len(s))
      BY <1>2
    <3>3. t[k + 1] = s[(k + 1) - 1]
      BY <1>5, <3>2
    <3> QED  BY <3>1, <3>2, <3>3
  <2>2. \A i \in 1..(1 + Len(s)) : i = 1 \/ i \in 2..(1 + Len(s))
    BY <1>2
  <2>3. 1 \in 1..(1 + Len(s))
    BY <1>2
  <2>4. \A i \in 1..(1 + Len(s)) : t[i] \in S \cup {e}
    BY <1>4, <1>5, <2>2
  <2>5. \A x \in S \cup {e} : \E i \in 1..(1 + Len(s)) : t[i] = x
    BY <1>4, <2>1, <2>3
  <2> QED  BY <1>4, <2>4, <2>5, ToSetIs
<1> QED  BY <1>3, <1>6, <1>7 DEF Lists, t

\* The entries of a list are finitely many.
LEMMA ListsFinite ==
  ASSUME NEW s, NEW S, Lists(s, S)
  PROVE  IsFiniteSet(S)
<1>1. Len(s) \in Nat /\ s \in [1..Len(s) -> S] /\ \A x \in S : \E i \in 1..Len(s) : s[i] = x
  BY ListsFacts, LenProperties DEF Lists
<1>2. s \in Surjection(1..Len(s), S)
  BY <1>1 DEF Surjection
<1>3. IsFiniteSet(1..Len(s))
  BY <1>1, FS_Interval
<1> QED  BY <1>2, <1>3, FS_Surjection

(***************************************************************************)
(* The inductive invariant                                                 *)
(***************************************************************************)
Committed == {e \in Entries : row[e] # "none"}

TableInv ==
  /\ row \in [Entries -> RowStates]
  /\ Lists(order, Committed)
  /\ age \in [Entries -> 0..StuckAfter]
  /\ batch \subseteq Committed /\ Cardinality(batch) <= BatchLimit

\* Who holds a lock is working on an active job.
RedisInv ==
  /\ job \in [Entries -> RedisStates]
  /\ Lists(wait, {e \in Entries : job[e] = "waiting"})
  /\ Lists(done, {e \in Entries : job[e] = "completed"})
  /\ Len(done) <= MaxCompleted
  /\ lock \in [Entries -> Workers \cup {NoWorker}]
  /\ stalls \in [Entries -> 0..MaxStalled]
  /\ \A e \in Entries : lock[e] # NoWorker => job[e] = "active"

\* Redis has never heard of an entry that is not committed.
FreshInv ==
  \A e \in Entries : row[e] = "none" => job[e] = "absent" /\ last[e] = "queued" /\ stalls[e] = 0

HistoryInv ==
  /\ runs \in [Workers -> Entries \cup {NoEntry}]
  /\ last \in [Entries -> {"queued", "active", "completed", "failed"}]
  /\ env \in [Disturbances -> Nat]

Inv == TableInv /\ RedisInv /\ FreshInv /\ HistoryInv

LEMMA InitInv == Init => Inv
<1> SUFFICES ASSUME Init PROVE Inv
  OBVIOUS
<1> USE OutboxAssumption
<1>1. /\ Committed = {} /\ {e \in Entries : job[e] = "waiting"} = {}
      /\ {e \in Entries : job[e] = "completed"} = {}
  BY DEF Init, Committed
<1>2. TableInv
  BY <1>1, EmptyLists, FS_EmptySet DEF Init, TableInv, RowStates
<1>3. RedisInv
  <2>1. Len(<<>>) = 0
    OBVIOUS
  <2>2. Len(done) <= MaxCompleted
    BY <2>1 DEF Init
  <2>3. /\ Lists(wait, {e \in Entries : job[e] = "waiting"})
        /\ Lists(done, {e \in Entries : job[e] = "completed"})
    BY <1>1, EmptyLists DEF Init
  <2> QED  BY <2>2, <2>3 DEF Init, RedisInv, RedisStates
<1>4. FreshInv /\ HistoryInv
  BY DEF Init, FreshInv, HistoryInv
<1> QED  BY <1>2, <1>3, <1>4 DEF Inv

(***************************************************************************)
(* The table                                                               *)
(***************************************************************************)
LEMMA Frames ==
  ASSUME Inv
  PROVE  /\ UNCHANGED <<row, order, age, batch>> => TableInv'
         /\ UNCHANGED <<job, wait, done, lock, stalls>> => RedisInv'
         /\ UNCHANGED <<row, job, last, stalls>> => FreshInv'
         /\ UNCHANGED <<runs, last, env>> => HistoryInv'
<1>1. ASSUME UNCHANGED <<row, order, age, batch>> PROVE TableInv'
  BY <1>1 DEF Inv, TableInv, Committed
<1>2. ASSUME UNCHANGED <<job, wait, done, lock, stalls>> PROVE RedisInv'
  BY <1>2 DEF Inv, RedisInv
<1>3. ASSUME UNCHANGED <<row, job, last, stalls>> PROVE FreshInv'
  BY <1>3 DEF Inv, FreshInv
<1>4. ASSUME UNCHANGED <<runs, last, env>> PROVE HistoryInv'
  BY <1>4 DEF Inv, HistoryInv
<1> QED  BY <1>1, <1>2, <1>3, <1>4

LEMMA SpendEnv ==
  ASSUME Inv, NEW d \in Disturbances, Spend(d)
  PROVE  env' \in [Disturbances -> Nat]
BY DEF Inv, HistoryInv, Spend

LEMMA CreateInv ==
  ASSUME Inv, NEW e \in Entries, create(e)
  PROVE  Inv'
<1>1. /\ row[e] = "none" /\ row' = [row EXCEPT ![e] = "PENDING"] /\ order' = Append(order, e)
      /\ UNCHANGED <<age, batch>> /\ UNCHANGED <<job, wait, done, lock, stalls>>
      /\ UNCHANGED <<runs, last, env>>
  BY DEF create, redisVars
<1>2. row' \in [Entries -> RowStates]
  BY <1>1 DEF Inv, TableInv, RowStates
<1>3. Committed' = Committed \cup {e} /\ e \notin Committed
  BY <1>1 DEF Inv, TableInv, Committed
<1>4. Lists(order, Committed)
  BY DEF Inv, TableInv
<1>5. Lists(order', Committed')
  BY <1>1, <1>3, <1>4, AppendLists
<1>6. TableInv'
  <2>1. age' \in [Entries -> 0..StuckAfter] /\ batch' \subseteq Committed'
          /\ Cardinality(batch') <= BatchLimit
    BY <1>1, <1>3 DEF Inv, TableInv
  <2> QED  BY <1>2, <1>5, <2>1 DEF TableInv
<1>7. FreshInv'
  BY <1>1 DEF Inv, TableInv, FreshInv
<1> QED  BY <1>1, <1>6, <1>7, Frames DEF Inv

OlderDue(e) == {d \in Due : Before(d, e)}

LEMMA OlderDueFinite ==
  ASSUME Inv, NEW e
  PROVE  IsFiniteSet(OlderDue(e)) /\ Cardinality(OlderDue(e)) \in Nat
<1>1. Due \subseteq Committed /\ Lists(order, Committed)
  BY DEF Due, Committed, Inv, TableInv
<1>2. IsFiniteSet(Due)
  BY <1>1, ListsFinite, FS_Subset
<1>3. OlderDue(e) \in SUBSET Due
  BY DEF OlderDue
<1> QED  BY <1>2, <1>3, FS_Subset, FS_CardinalityType

\* A row that is due has fewer older ones than those that come after it.
LEMMA OlderDueGrows ==
  ASSUME Inv, NEW d \in Due, NEW e, Before(d, e)
  PROVE  Cardinality(OlderDue(d)) < Cardinality(OlderDue(e))
<1>1. DOMAIN order = 1..Len(order) /\ Len(order) \in Nat
        /\ \A i, j \in 1..Len(order) : order[i] = order[j] => i = j
  BY ListsFacts DEF Inv, TableInv
<1>2. ~Before(d, d) /\ \A x \in Due : Before(x, d) => Before(x, e)
  BY <1>1 DEF Before
<1>3. d \notin OlderDue(d) /\ OlderDue(d) \cup {d} \in SUBSET OlderDue(e)
  BY <1>2 DEF OlderDue
<1>4. IsFiniteSet(OlderDue(d)) /\ IsFiniteSet(OlderDue(e))
        /\ Cardinality(OlderDue(d)) \in Nat /\ Cardinality(OlderDue(e)) \in Nat
  BY OlderDueFinite
<1>5. Cardinality(OlderDue(d) \cup {d}) = Cardinality(OlderDue(d)) + 1
  BY <1>3, <1>4, FS_AddElement
<1>6. Cardinality(OlderDue(d) \cup {d}) <= Cardinality(OlderDue(e))
  BY <1>3, <1>4, FS_Subset
<1> QED  BY <1>4, <1>5, <1>6

\* The rank of a row among those that are due tells it from the others.
LEMMA ClaimedFits ==
  ASSUME Inv
  PROVE  Claimed \subseteq Committed /\ Cardinality(Claimed) <= BatchLimit
<1> DEFINE rank == [e \in Claimed |-> Cardinality(OlderDue(e))]
<1>1. Due \subseteq Committed /\ Claimed \subseteq Due
  BY DEF Due, Claimed, Committed
<1>2. Lists(order, Committed) /\ BatchLimit \in Nat \ {0}
  BY OutboxAssumption DEF Inv, TableInv
<1>3. ASSUME NEW d \in Claimed, NEW e \in Claimed, d # e
      PROVE  Before(d, e) \/ Before(e, d)
  <2>1. d \in Committed /\ e \in Committed
    BY <1>1
  <2>2. PICK i \in 1..Len(order) : order[i] = d
    BY <1>2, <2>1, ListsFacts
  <2>3. PICK j \in 1..Len(order) : order[j] = e
    BY <1>2, <2>1, ListsFacts
  <2>4. i < j \/ j < i
    BY <1>3, <2>2, <2>3
  <2>5. DOMAIN order = 1..Len(order)
    BY <1>2, ListsFacts
  <2> QED  BY <2>2, <2>3, <2>4, <2>5 DEF Before
<1>4. rank \in Injection(Claimed, 0..(BatchLimit - 1))
  <2>1. \A e \in Claimed : Cardinality(OlderDue(e)) \in 0..(BatchLimit - 1)
    <3> TAKE e \in Claimed
    <3>1. Cardinality(OlderDue(e)) < BatchLimit
      BY DEF Claimed, OlderDue
    <3>2. Cardinality(OlderDue(e)) \in Nat
      BY OlderDueFinite
    <3> QED  BY <1>2, <3>1, <3>2
  <2>2. ASSUME NEW d \in Claimed, NEW e \in Claimed, rank[d] = rank[e]
        PROVE  d = e
    <3>1. Cardinality(OlderDue(d)) = Cardinality(OlderDue(e))
      BY <2>2
    <3>2. Cardinality(OlderDue(d)) \in Nat
      BY OlderDueFinite
    <3> QED  BY <1>1, <1>3, <3>1, <3>2, OlderDueGrows
  <2>3. rank \in [Claimed -> 0..(BatchLimit - 1)]
    BY <2>1
  <2>4. IsInjective(rank)
    BY <2>2 DEF IsInjective
  <2> QED  BY <2>3, <2>4 DEF Injection
<1>5. IsFiniteSet(0..(BatchLimit - 1)) /\ Cardinality(0..(BatchLimit - 1)) = BatchLimit
  BY <1>2, FS_Interval
<1>6. Cardinality(Claimed) <= BatchLimit
  <2> HIDE DEF rank
  <2> QED  BY <1>4, <1>5, FS_Injection
<1> QED  BY <1>1, <1>6

LEMMA OlderAge ==
  ASSUME Inv, NEW W, Older(W)
  PROVE  age' \in [Entries -> 0..StuckAfter]
<1>1. \A e \in Entries : age[e] \in 0..StuckAfter
  BY DEF Inv, TableInv
<1> QED  BY <1>1, OutboxAssumption DEF Older

LEMMA ClaimBatchInv ==
  ASSUME Inv, claimBatch
  PROVE  Inv'
<1>1. /\ batch' = Claimed /\ UNCHANGED order /\ UNCHANGED <<runs, last, env>>
      /\ row' = [e \in Entries |-> IF e \in Claimed THEN "DISPATCHED" ELSE row[e]]
      /\ UNCHANGED <<job, wait, done, lock, stalls>>
  BY DEF claimBatch, redisVars
<1>2. Claimed \subseteq Committed /\ Cardinality(Claimed) <= BatchLimit
  BY ClaimedFits
<1> HIDE DEF Claimed
<1>3. row' \in [Entries -> RowStates] /\ Committed' = Committed
  BY <1>1, <1>2 DEF Inv, TableInv, RowStates, Committed
<1>4. TableInv'
  BY <1>1, <1>2, <1>3, OlderAge DEF claimBatch, Inv, TableInv
<1>5. FreshInv'
  BY <1>1 DEF Inv, FreshInv
<1> QED  BY <1>1, <1>4, <1>5, Frames DEF Inv

LEMMA TickOverrunInv ==
  ASSUME Inv, tickOverrun
  PROVE  Inv'
<1>1. /\ UNCHANGED <<row, order, batch, runs, last>>
      /\ UNCHANGED <<job, wait, done, lock, stalls>>
  BY DEF tickOverrun, redisVars
<1>2. TableInv'
  <2>1. age' \in [Entries -> 0..StuckAfter]
    BY OlderAge DEF tickOverrun
  <2> QED  BY <1>1, <2>1 DEF Inv, TableInv, Committed
<1>3. HistoryInv'
  BY <1>1, SpendEnv DEF tickOverrun, Disturbances, Inv, HistoryInv
<1> QED  BY <1>1, <1>2, <1>3, Frames DEF Inv

LEMMA ReapInv ==
  ASSUME Inv, reapStuckDispatched
  PROVE  Inv'
<1>1. /\ row' = [e \in Entries |-> IF Stuck(e) THEN "PENDING" ELSE row[e]]
      /\ age' = [e \in Entries |-> IF Stuck(e) THEN 0 ELSE age[e]]
      /\ UNCHANGED <<order, batch, runs, last, env>>
      /\ UNCHANGED <<job, wait, done, lock, stalls>>
  BY DEF reapStuckDispatched, redisVars
<1>2. row' \in [Entries -> RowStates] /\ Committed' = Committed
  BY <1>1 DEF Inv, TableInv, RowStates, Committed, Stuck
<1>3. age' \in [Entries -> 0..StuckAfter]
  BY <1>1, OutboxAssumption DEF Inv, TableInv
<1>4. TableInv'
  BY <1>1, <1>2, <1>3 DEF Inv, TableInv
<1>5. FreshInv'
  BY <1>1 DEF Inv, FreshInv
<1> QED  BY <1>1, <1>4, <1>5, Frames DEF Inv

(***************************************************************************)
(* The queue                                                               *)
(***************************************************************************)
\* The two lists follow the states of the jobs.
LEMMA Waiting ==
  ASSUME Inv
  PROVE  /\ Lists(wait, {e \in Entries : job[e] = "waiting"})
         /\ Lists(done, {e \in Entries : job[e] = "completed"})
         /\ job \in [Entries -> RedisStates]
BY DEF Inv, RedisInv

LEMMA AddJobInv ==
  ASSUME Inv, NEW e \in Committed, AddJob(e), UNCHANGED <<row, last>>
  PROVE  RedisInv' /\ FreshInv'
<1>1. e \in Entries /\ UNCHANGED <<done, lock>>
  BY DEF Committed, AddJob
<1>2. CASE job[e] = "absent"
  <2>1. /\ job' = [job EXCEPT ![e] = "waiting"] /\ wait' = Append(wait, e)
        /\ stalls' = [stalls EXCEPT ![e] = 0]
    BY <1>2 DEF AddJob
  <2>2. /\ job' \in [Entries -> RedisStates] /\ stalls' \in [Entries -> 0..MaxStalled]
    <3>1. 0 \in 0..MaxStalled
      BY OutboxAssumption
    <3> QED  BY <1>1, <2>1, <3>1 DEF Inv, RedisInv, RedisStates
  <2>3. {x \in Entries : job'[x] = "waiting"} = {x \in Entries : job[x] = "waiting"} \cup {e}
    BY <1>1, <2>1, Waiting
  <2>4. {x \in Entries : job'[x] = "completed"} = {x \in Entries : job[x] = "completed"}
    BY <1>1, <1>2, <2>1, Waiting
  <2>5. Lists(wait', {x \in Entries : job'[x] = "waiting"})
    BY <1>1, <1>2, <2>1, <2>3, Waiting, AppendLists
  <2>6. \A x \in Entries : lock'[x] # NoWorker => job'[x] = "active"
    BY <1>1, <1>2, <2>1 DEF Inv, RedisInv
  <2>7. RedisInv'
    BY <1>1, <2>2, <2>4, <2>5, <2>6 DEF Inv, RedisInv
  <2>8. FreshInv'
    BY <2>1 DEF Inv, FreshInv, Committed
  <2> QED  BY <2>7, <2>8
<1>3. CASE job[e] # "absent"
  BY <1>1, <1>3, Frames DEF AddJob
<1> QED  BY <1>2, <1>3

LEMMA AddNextInv ==
  ASSUME Inv, NEW e \in Entries, addNext(e)
  PROVE  Inv'
<1>1. /\ e \in batch /\ AddJob(e) /\ batch' = batch \ {e}
      /\ UNCHANGED <<row, order, age>> /\ UNCHANGED <<runs, last, env>>
  BY DEF addNext, AddsNext, tableVars
<1>2. e \in Committed
  BY <1>1 DEF Inv, TableInv
<1>3. RedisInv' /\ FreshInv'
  BY <1>1, <1>2, AddJobInv
<1>4. TableInv'
  <2>1. IsFiniteSet(batch)
    BY ListsFinite, FS_Subset DEF Inv, TableInv
  <2>2. batch' \in SUBSET batch
    BY <1>1
  <2>3. IsFiniteSet(batch') /\ Cardinality(batch') <= Cardinality(batch)
    BY <2>1, <2>2, FS_Subset
  <2>4. Cardinality(batch') <= BatchLimit
    BY <2>1, <2>3, FS_CardinalityType, OutboxAssumption DEF Inv, TableInv
  <2> QED  BY <1>1, <2>2, <2>4 DEF Inv, TableInv, Committed
<1> QED  BY <1>1, <1>3, <1>4, Frames DEF Inv

\* A tick that ends or dies leaves no batch.
LEMMA NoBatch ==
  ASSUME Inv, batch' = {}, UNCHANGED <<row, order, age>>
  PROVE  TableInv'
<1>1. Cardinality({}) <= BatchLimit
  BY FS_EmptySet, OutboxAssumption
<1> QED  BY <1>1 DEF Inv, TableInv, Committed

LEMMA AddFailsInv ==
  ASSUME Inv, NEW e \in Entries, addFails(e)
  PROVE  Inv'
<1>1. /\ e \in batch /\ batch' = {} /\ (AddJob(e) \/ UNCHANGED redisVars)
      /\ UNCHANGED <<row, order, age>> /\ UNCHANGED <<runs, last>>
  BY DEF addFails, AddsNext, tableVars
<1>2. e \in Committed
  BY <1>1 DEF Inv, TableInv
<1>3. RedisInv' /\ FreshInv'
  <2>1. CASE AddJob(e)
    BY <1>1, <1>2, <2>1, AddJobInv
  <2>2. CASE UNCHANGED redisVars
    BY <1>1, <2>2, Frames DEF redisVars
  <2> QED  BY <1>1, <2>1, <2>2
<1>4. HistoryInv'
  BY <1>1, SpendEnv DEF addFails, Disturbances, Inv, HistoryInv
<1> QED  BY <1>1, <1>3, <1>4, NoBatch DEF Inv

LEMMA TakeInv ==
  ASSUME Inv, NEW w \in Workers, Take(w)
  PROVE  Inv'
<1> DEFINE e == Head(wait)
<1>1. /\ wait # <<>> /\ runs' = [runs EXCEPT ![w] = e] /\ job' = [job EXCEPT ![e] = "active"]
      /\ lock' = [lock EXCEPT ![e] = w] /\ wait' = Tail(wait)
      /\ UNCHANGED <<row, order, age, batch>> /\ UNCHANGED <<done, stalls, last, env>>
  BY DEF Take, tableVars
<1>2. e \in Entries /\ job[e] = "waiting"
        /\ Lists(Tail(wait), {x \in Entries : job[x] = "waiting"} \ {e})
  <2>1. Lists(wait, {x \in Entries : job[x] = "waiting"})
    BY Waiting
  <2>2. e \in {x \in Entries : job[x] = "waiting"}
          /\ Lists(Tail(wait), {x \in Entries : job[x] = "waiting"} \ {e})
    BY <1>1, <2>1, TailLists
  <2> QED  BY <2>2
<1> HIDE DEF e
<1>3. row[e] # "none"
  BY <1>2 DEF Inv, FreshInv
<1>4. /\ {x \in Entries : job'[x] = "waiting"} = {x \in Entries : job[x] = "waiting"} \ {e}
      /\ {x \in Entries : job'[x] = "completed"} = {x \in Entries : job[x] = "completed"}
  BY <1>1, <1>2, Waiting
<1>5. /\ job' \in [Entries -> RedisStates] /\ lock' \in [Entries -> Workers \cup {NoWorker}]
      /\ runs' \in [Workers -> Entries \cup {NoEntry}]
      /\ \A x \in Entries : lock'[x] # NoWorker => job'[x] = "active"
  BY <1>1, <1>2 DEF Inv, RedisInv, HistoryInv, RedisStates
<1>6. RedisInv'
  BY <1>1, <1>2, <1>4, <1>5 DEF Inv, RedisInv
<1>7. FreshInv'
  BY <1>1, <1>3 DEF Inv, FreshInv
<1>8. HistoryInv'
  BY <1>1, <1>5 DEF Inv, HistoryInv
<1> QED  BY <1>1, <1>6, <1>7, <1>8, Frames DEF Inv

Completed == {x \in Entries : job[x] = "completed"}

\* Only a full set of completed jobs loses one, and not the one that has just completed.
LEMMA CompleteFacts ==
  ASSUME Inv, NEW e \in Entries, job[e] = "active", Complete(e)
  PROVE  \E evicted \in SUBSET Completed :
           /\ job' = [x \in Entries |-> IF x \in evicted THEN "absent"
                                        ELSE IF x = e THEN "completed" ELSE job[x]]
           /\ last' = [x \in Entries |-> IF x \in evicted THEN "completed" ELSE last[x]]
           /\ Lists(done', (Completed \cup {e}) \ evicted)
           /\ Len(done') <= MaxCompleted
           /\ evicted # {} => Len(done') = MaxCompleted
<1> DEFINE kept == Append(done, e)
           evicted == IF Len(kept) > MaxCompleted THEN {Head(kept)} ELSE {}
<1>1. Lists(done, Completed) /\ Len(done) <= MaxCompleted /\ e \notin Completed
  BY DEF Inv, RedisInv, Completed
<1>2. Lists(kept, Completed \cup {e}) /\ Len(kept) = Len(done) + 1
  BY <1>1, AppendLists
<1>3. /\ done' = IF evicted = {} THEN kept ELSE Tail(kept)
      /\ job' = [x \in Entries |-> IF x \in evicted THEN "absent"
                                   ELSE IF x = e THEN "completed" ELSE job[x]]
      /\ last' = [x \in Entries |-> IF x \in evicted THEN "completed" ELSE last[x]]
  BY DEF Complete
<1>4. Len(done) \in Nat /\ MaxCompleted \in Nat \ {0}
  BY <1>1, ListsFacts, OutboxAssumption
<1>5. CASE Len(kept) > MaxCompleted
  <2>1. evicted = {Head(kept)} /\ evicted # {} /\ Len(done) = MaxCompleted /\ done # <<>>
    BY <1>1, <1>2, <1>4, <1>5
  <2>2. kept # <<>>
    BY <1>1, AppendProperties DEF Lists
  <2>3. /\ Lists(Tail(kept), (Completed \cup {e}) \ {Head(kept)})
        /\ Len(Tail(kept)) = Len(kept) - 1
    BY <1>2, <2>2, TailLists
  <2>4. Head(kept) = Head(done)
    BY <1>1, <2>1, HeadTailAppend DEF Lists
  <2>5. Head(done) \in Completed
    BY <1>1, <2>1, TailLists
  <2> HIDE DEF kept, evicted
  <2>6. evicted \in SUBSET Completed
    BY <2>1, <2>4, <2>5
  <2>7. done' = Tail(kept) /\ Len(done') = MaxCompleted
    BY <1>2, <1>3, <1>4, <2>1, <2>3
  <2>8. Lists(done', (Completed \cup {e}) \ evicted)
    BY <2>1, <2>3, <2>7
  <2>9. Len(done') <= MaxCompleted
    BY <1>4, <2>7
  <2> WITNESS evicted \in SUBSET Completed
  <2> QED  BY <1>3, <2>7, <2>8, <2>9
<1>6. CASE ~(Len(kept) > MaxCompleted)
  <2>1. evicted = {} /\ Len(kept) <= MaxCompleted
    BY <1>2, <1>4, <1>6
  <2> HIDE DEF kept, evicted
  <2>2. evicted \in SUBSET Completed /\ (Completed \cup {e}) \ evicted = Completed \cup {e}
    BY <2>1
  <2>3. done' = kept
    BY <1>3, <2>1
  <2> QED  BY <1>2, <1>3, <2>1, <2>2, <2>3
<1> QED  BY <1>5, <1>6

LEMMA HolderActive ==
  ASSUME Inv, NEW w \in Workers, NEW e \in Entries, lock[e] = w
  PROVE  job[e] = "active" /\ row[e] # "none"
BY OutboxAssumption DEF Inv, RedisInv, FreshInv

LEMMA SettleInv ==
  ASSUME Inv, NEW w \in Workers, settle(w)
  PROVE  Inv'
<1> DEFINE e == runs[w]
<1>1. /\ e \in Entries /\ runs' = [runs EXCEPT ![w] = NoEntry]
      /\ UNCHANGED <<row, order, age, batch>> /\ UNCHANGED <<wait, stalls, env>>
  BY DEF settle, tableVars, Inv, HistoryInv
<1>2. runs' \in [Workers -> Entries \cup {NoEntry}]
  BY <1>1 DEF Inv, HistoryInv
<1>3. CASE lock[e] = w /\ Complete(e) /\ lock' = [lock EXCEPT ![e] = NoWorker]
  <2>1. job[e] = "active" /\ row[e] # "none"
    BY <1>1, <1>3, HolderActive
  <2>2. PICK evicted \in SUBSET Completed :
          /\ job' = [x \in Entries |-> IF x \in evicted THEN "absent"
                                       ELSE IF x = e THEN "completed" ELSE job[x]]
          /\ last' = [x \in Entries |-> IF x \in evicted THEN "completed" ELSE last[x]]
          /\ Lists(done', (Completed \cup {e}) \ evicted)
          /\ Len(done') <= MaxCompleted
    BY <1>1, <1>3, <2>1, CompleteFacts
  <2> HIDE DEF e
  <2>3. \A x \in evicted : x \in Entries /\ job[x] = "completed" /\ row[x] # "none" /\ x # e
    BY <2>1 DEF Completed, Inv, FreshInv
  <2>4. /\ {x \in Entries : job'[x] = "waiting"} = {x \in Entries : job[x] = "waiting"}
        /\ {x \in Entries : job'[x] = "completed"} = (Completed \cup {e}) \ evicted
    BY <1>1, <2>1, <2>2, <2>3 DEF Completed
  <2>5. /\ job' \in [Entries -> RedisStates] /\ lock' \in [Entries -> Workers \cup {NoWorker}]
        /\ last' \in [Entries -> {"queued", "active", "completed", "failed"}]
    BY <1>3, <2>2 DEF Inv, RedisInv, HistoryInv, RedisStates
  <2>6. \A x \in Entries : lock'[x] # NoWorker => job'[x] = "active"
    BY <1>3, <2>2, <2>3 DEF Inv, RedisInv
  <2>7. RedisInv'
    BY <1>1, <2>2, <2>4, <2>5, <2>6 DEF Inv, RedisInv
  <2>8. FreshInv'
    BY <1>1, <2>1, <2>2, <2>3 DEF Inv, FreshInv
  <2>9. HistoryInv'
    BY <1>1, <1>2, <2>5 DEF Inv, HistoryInv
  <2> QED  BY <1>1, <2>7, <2>8, <2>9, Frames DEF Inv
<1>4. CASE /\ lock[e] = w /\ job' = [job EXCEPT ![e] = "failed"]
           /\ lock' = [lock EXCEPT ![e] = NoWorker] /\ UNCHANGED <<done, last>>
  <2>1. job[e] = "active" /\ row[e] # "none"
    BY <1>1, <1>4, HolderActive
  <2> HIDE DEF e
  <2>2. /\ {x \in Entries : job'[x] = "waiting"} = {x \in Entries : job[x] = "waiting"}
        /\ {x \in Entries : job'[x] = "completed"} = {x \in Entries : job[x] = "completed"}
    BY <1>1, <1>4, <2>1, Waiting
  <2>3. /\ job' \in [Entries -> RedisStates] /\ lock' \in [Entries -> Workers \cup {NoWorker}]
    BY <1>4 DEF Inv, RedisInv, RedisStates
  <2>4. \A x \in Entries : lock'[x] # NoWorker => job'[x] = "active"
    BY <1>1, <1>4 DEF Inv, RedisInv
  <2>5. RedisInv'
    BY <1>1, <1>4, <2>2, <2>3, <2>4 DEF Inv, RedisInv
  <2>6. FreshInv'
    BY <1>1, <1>4, <2>1 DEF Inv, FreshInv
  <2>7. HistoryInv'
    BY <1>1, <1>2, <1>4 DEF Inv, HistoryInv
  <2> QED  BY <1>1, <2>5, <2>6, <2>7, Frames DEF Inv
<1>5. CASE UNCHANGED <<job, done, lock, last>>
  <2>1. HistoryInv'
    BY <1>1, <1>2, <1>5 DEF Inv, HistoryInv
  <2> QED  BY <1>1, <1>5, <2>1, Frames DEF Inv
<1> QED  BY <1>3, <1>4, <1>5 DEF settle

LEMMA MoveStalledInv ==
  ASSUME Inv, NEW e \in Entries, MoveStalled(e)
  PROVE  TableInv' /\ RedisInv' /\ FreshInv'
<1>1. /\ job[e] = "active" /\ lock' = [lock EXCEPT ![e] = NoWorker]
      /\ UNCHANGED <<row, order, age, batch>> /\ UNCHANGED <<done, runs, last>>
  BY DEF MoveStalled, tableVars
<1>2. TableInv' /\ row[e] # "none" /\ lock' \in [Entries -> Workers \cup {NoWorker}]
  BY <1>1, Frames DEF Inv, RedisInv, FreshInv
<1>3. CASE stalls[e] < MaxStalled
  <2>1. /\ job' = [job EXCEPT ![e] = "waiting"] /\ wait' = <<e>> \o wait
        /\ stalls' = [stalls EXCEPT ![e] = @ + 1]
    BY <1>3 DEF MoveStalled
  <2>2. /\ {x \in Entries : job'[x] = "waiting"} = {x \in Entries : job[x] = "waiting"} \cup {e}
        /\ {x \in Entries : job'[x] = "completed"} = {x \in Entries : job[x] = "completed"}
    BY <1>1, <2>1, Waiting
  <2>3. Lists(wait', {x \in Entries : job'[x] = "waiting"})
    BY <1>1, <2>1, <2>2, Waiting, ConsLists
  <2>4. stalls' \in [Entries -> 0..MaxStalled]
    <3>1. stalls[e] + 1 \in 0..MaxStalled
      BY <1>3, OutboxAssumption DEF Inv, RedisInv
    <3> QED  BY <2>1, <3>1 DEF Inv, RedisInv
  <2>5. job' \in [Entries -> RedisStates]
    BY <2>1 DEF Inv, RedisInv, RedisStates
  <2>6. \A x \in Entries : lock'[x] # NoWorker => job'[x] = "active"
    BY <1>1, <2>1 DEF Inv, RedisInv
  <2>7. RedisInv'
    BY <1>1, <1>2, <2>2, <2>3, <2>4, <2>5, <2>6 DEF Inv, RedisInv
  <2>8. FreshInv'
    BY <1>1, <1>2, <2>1 DEF Inv, FreshInv
  <2> QED  BY <1>2, <2>7, <2>8
<1>4. CASE ~(stalls[e] < MaxStalled)
  <2>1. job' = [job EXCEPT ![e] = "failed"] /\ UNCHANGED <<wait, stalls>>
    BY <1>4 DEF MoveStalled
  <2>2. /\ {x \in Entries : job'[x] = "waiting"} = {x \in Entries : job[x] = "waiting"}
        /\ {x \in Entries : job'[x] = "completed"} = {x \in Entries : job[x] = "completed"}
    BY <1>1, <2>1, Waiting
  <2>3. job' \in [Entries -> RedisStates]
    BY <2>1 DEF Inv, RedisInv, RedisStates
  <2>4. \A x \in Entries : lock'[x] # NoWorker => job'[x] = "active"
    BY <1>1, <2>1 DEF Inv, RedisInv
  <2>5. RedisInv'
    BY <1>1, <1>2, <2>1, <2>2, <2>3, <2>4 DEF Inv, RedisInv
  <2>6. FreshInv'
    BY <1>1, <1>2, <2>1 DEF Inv, FreshInv
  <2> QED  BY <1>2, <2>5, <2>6
<1> QED  BY <1>3, <1>4

LEMMA StallInv ==
  ASSUME Inv, NEW e \in Entries, recoverOrphan(e) \/ lockExpires(e)
  PROVE  Inv'
<1>1. MoveStalled(e)
  BY DEF recoverOrphan, lockExpires
<1>2. HistoryInv'
  <2>1. env' \in [Disturbances -> Nat]
    BY SpendEnv DEF recoverOrphan, lockExpires, Disturbances, Inv, HistoryInv
  <2> QED  BY <1>1, <2>1 DEF MoveStalled, Inv, HistoryInv
<1> QED  BY <1>1, <1>2, MoveStalledInv DEF Inv

LEMMA CrashInv ==
  ASSUME Inv, crash
  PROVE  Inv'
<1>1. /\ batch' = {} /\ runs' = [w \in Workers |-> NoEntry]
      /\ lock' = [e \in Entries |-> NoWorker]
      /\ UNCHANGED <<row, order, age>> /\ UNCHANGED <<job, wait, done, stalls, last>>
  BY DEF crash, tableVars
<1>2. RedisInv'
  BY <1>1 DEF Inv, RedisInv
<1>3. HistoryInv'
  BY <1>1, SpendEnv DEF crash, Disturbances, Inv, HistoryInv
<1> QED  BY <1>1, <1>2, <1>3, NoBatch, Frames DEF Inv

LEMMA RedisLossInv ==
  ASSUME Inv, redisLoss
  PROVE  Inv'
<1>1. /\ job' = [e \in Entries |-> "absent"] /\ wait' = <<>> /\ done' = <<>>
      /\ lock' = [e \in Entries |-> NoWorker]
      /\ last' = [e \in Entries |-> IF row[e] = "none" THEN "queued" ELSE JobOf(e)]
      /\ UNCHANGED <<row, order, age, batch>> /\ UNCHANGED <<stalls, runs>>
  BY DEF redisLoss, tableVars
<1>2. /\ {x \in Entries : job'[x] = "waiting"} = {}
      /\ {x \in Entries : job'[x] = "completed"} = {}
  BY <1>1
<1>3. RedisInv'
  <2>1. Len(done') <= MaxCompleted
    <3>1. Len(<<>>) = 0
      OBVIOUS
    <3> QED  BY <1>1, <3>1, OutboxAssumption
  <2>2. Lists(wait', {}) /\ Lists(done', {})
    BY <1>1, EmptyLists
  <2>3. job' \in [Entries -> RedisStates] /\ lock' \in [Entries -> Workers \cup {NoWorker}]
    BY <1>1 DEF RedisStates
  <2> QED  BY <1>1, <1>2, <2>1, <2>2, <2>3 DEF Inv, RedisInv
<1>4. \A e \in Entries : row[e] # "none" =>
        JobOf(e) \in {"queued", "active", "completed", "failed"}
  BY DEF JobOf, Inv, RedisInv, HistoryInv, RedisStates
<1>5. HistoryInv'
  <2>1. last' \in [Entries -> {"queued", "active", "completed", "failed"}]
    BY <1>1, <1>4
  <2> QED  BY <1>1, <2>1, SpendEnv DEF redisLoss, Disturbances, Inv, HistoryInv
<1>6. FreshInv'
  BY <1>1 DEF Inv, FreshInv
<1> QED  BY <1>1, <1>3, <1>5, <1>6, Frames DEF Inv

LEMMA NextInv == Inv /\ [Next]_vars => Inv'
<1> SUFFICES ASSUME Inv, [Next]_vars PROVE Inv'
  OBVIOUS
<1>1. ASSUME NEW e \in Entries, create(e) \/ addFails(e) \/ addNext(e) PROVE Inv'
  BY <1>1, CreateInv, AddFailsInv, AddNextInv
<1>2. ASSUME NEW e \in Entries, recoverOrphan(e) \/ lockExpires(e) PROVE Inv'
  BY <1>2, StallInv
<1>3. ASSUME claimBatch \/ tickOverrun \/ reapStuckDispatched PROVE Inv'
  BY <1>3, ClaimBatchInv, TickOverrunInv, ReapInv
<1>4. ASSUME NEW w \in Workers, Take(w) \/ settle(w) PROVE Inv'
  BY <1>4, TakeInv, SettleInv
<1>5. ASSUME crash \/ redisLoss PROVE Inv'
  BY <1>5, CrashInv, RedisLossInv
<1>6. ASSUME UNCHANGED vars PROVE Inv'
  BY <1>6, Frames DEF vars, tableVars, redisVars, Inv
<1> QED  BY <1>1, <1>2, <1>3, <1>4, <1>5, <1>6 DEF Next, Tick

LEMMA Invariance == Spec => []Inv
<1> QED  BY InitInv, NextInv, PTL DEF Spec

(***************************************************************************)
(* The order of commits                                                    *)
(***************************************************************************)
Quiet == env["addFails"] + env["crash"] + env["redisLoss"] = 0

Touched(e) == Added(e) \/ e \in batch

\* Rows are claimed in their order, and those that never were are still PENDING.
OrderInv ==
  Quiet => /\ \A i, j \in DOMAIN order : i < j /\ Touched(order[j]) => Touched(order[i])
           /\ \A i, j \in DOMAIN order : i < j /\ Added(order[j]) => Added(order[i])
           /\ \A e \in Committed : ~Touched(e) => row[e] = "PENDING"

LEMMA QuietBefore ==
  ASSUME Inv, env' = env \/ \E d \in Disturbances : Spend(d), Quiet'
  PROVE  Quiet /\ \A d \in {"addFails", "crash", "redisLoss"} : ~Spend(d)
<1>1. env \in [Disturbances -> Nat] /\ {"addFails", "crash", "redisLoss"} \subseteq Disturbances
  BY DEF Inv, HistoryInv, Disturbances
<1>2. env' \in [Disturbances -> Nat]
  BY <1>1, SpendEnv
<1>3. \A d \in Disturbances : env[d] <= env'[d]
  <2>1. CASE env' = env
    BY <1>1, <2>1
  <2>2. CASE \E d \in Disturbances : Spend(d)
    <3>1. PICK d \in Disturbances : env' = [env EXCEPT ![d] = @ + 1]
      BY <2>2 DEF Spend
    <3>2. \A x \in Disturbances : env'[x] = IF x = d THEN env[x] + 1 ELSE env[x]
      BY <1>1, <3>1
    <3> QED  BY <1>1, <3>2
  <2> QED  BY <2>1, <2>2
<1>4. \A d \in Disturbances : Spend(d) => env'[d] = env[d] + 1
  BY <1>1 DEF Spend
<1>5. env'["addFails"] = 0 /\ env'["crash"] = 0 /\ env'["redisLoss"] = 0
  BY <1>1, <1>2 DEF Quiet
<1> QED  BY <1>1, <1>3, <1>4, <1>5 DEF Quiet

\* Nothing is lost or gained when the order, the batch and what was added stay.
LEMMA OrderFrame ==
  ASSUME Inv, OrderInv, Quiet' => Quiet, UNCHANGED <<order, batch>>, Committed' = Committed,
         \A e \in Entries : Added(e)' <=> Added(e),
         \A e \in Entries : row[e] = "PENDING" => row'[e] = "PENDING"
  PROVE  OrderInv'
<1>1. \A i \in DOMAIN order : order[i] \in Entries
  BY ListsFacts DEF Inv, TableInv
<1>2. \A e \in Entries : Touched(e)' <=> Touched(e)
  BY DEF Touched
<1>3. Committed \subseteq Entries
  BY DEF Committed
<1>4. ASSUME Quiet', NEW i \in DOMAIN order, NEW j \in DOMAIN order, i < j
      PROVE  /\ Touched(order[j])' => Touched(order[i])'
             /\ Added(order[j])' => Added(order[i])'
  <2>1. PICK d \in Entries, e \in Entries : d = order[i] /\ e = order[j]
    BY <1>1
  <2>2. (Touched(e) => Touched(d)) /\ (Added(e) => Added(d))
    BY <1>4, <2>1 DEF OrderInv
  <2>3. (Touched(e)' => Touched(d)') /\ (Added(e)' => Added(d)')
    BY <1>2, <2>2
  <2>4. order' = order
    OBVIOUS
  <2> QED  BY <2>1, <2>3, <2>4 DEF Touched, Added
<1>5. ASSUME Quiet', NEW e \in Committed, ~Touched(e)' PROVE row'[e] = "PENDING"
  BY <1>2, <1>3, <1>5 DEF OrderInv
<1> QED  BY <1>4, <1>5 DEF OrderInv

LEMMA CreateOrder ==
  ASSUME Inv, OrderInv, NEW e \in Entries, create(e)
  PROVE  OrderInv'
<1>1. /\ row[e] = "none" /\ row' = [row EXCEPT ![e] = "PENDING"] /\ order' = Append(order, e)
      /\ UNCHANGED <<job, last, batch, env>>
  BY DEF create, redisVars
<1>2. /\ order \in Seq(Entries) /\ Len(order) \in Nat /\ DOMAIN order = 1..Len(order)
      /\ \A i \in 1..Len(order) : order[i] \in Entries
  BY ListsFacts, ElementOfSeq DEF Inv, TableInv, Lists
<1>3. /\ DOMAIN order' = 1..(Len(order) + 1) /\ order'[Len(order) + 1] = e
      /\ \A i \in 1..Len(order) : order'[i] = order[i]
  <2>1. /\ order' \in Seq(Entries) /\ Len(order') = Len(order) + 1
        /\ order'[Len(order) + 1] = e /\ \A i \in 1..Len(order) : order'[i] = order[i]
    BY <1>1, <1>2, AppendProperties
  <2> QED  BY <2>1, LenProperties
<1>4. ~Touched(e) /\ Committed' = Committed \cup {e}
  BY <1>1 DEF Touched, Added, Inv, FreshInv, TableInv, Committed
<1>5. \A x \in Entries : (Touched(x)' <=> Touched(x)) /\ (Added(x)' <=> Added(x))
  BY <1>1 DEF Touched, Added
<1>6. ASSUME Quiet, NEW i \in 1..(Len(order) + 1), NEW j \in 1..(Len(order) + 1), i < j
      PROVE  /\ Touched(order'[j]) => Touched(order'[i])
             /\ Added(order'[j]) => Added(order'[i])
  <2>1. CASE j = Len(order) + 1
    BY <1>3, <1>4, <2>1 DEF Touched
  <2>2. CASE j # Len(order) + 1
    <3>1. i \in 1..Len(order) /\ j \in 1..Len(order)
      BY <1>2, <1>6, <2>2
    <3> QED  BY <1>2, <1>3, <1>6, <3>1 DEF OrderInv
  <2> QED  BY <2>1, <2>2
<1>7. ASSUME Quiet, NEW x \in Committed', ~Touched(x)' PROVE row'[x] = "PENDING"
  <2>1. CASE x = e
    BY <1>1, <2>1 DEF Inv, TableInv
  <2>2. CASE x # e
    BY <1>1, <1>4, <1>5, <1>7, <2>2 DEF OrderInv, Committed, Inv, TableInv
  <2> QED  BY <2>1, <2>2
<1>8. Quiet' <=> Quiet
  BY <1>1 DEF Quiet
<1>9. /\ \A x : Touched(x) <=> (job'[x] # "absent" \/ last'[x] # "queued" \/ x \in batch')
      /\ \A x : Added(x) <=> (job'[x] # "absent" \/ last'[x] # "queued")
  BY <1>1 DEF Touched, Added
<1> QED  BY <1>3, <1>6, <1>7, <1>8, <1>9 DEF OrderInv, Touched, Added

\* A row that is claimed leaves no older one behind that is due.
LEMMA ClaimOrder ==
  ASSUME Inv, OrderInv, claimBatch
  PROVE  OrderInv'
<1>1. /\ batch = {} /\ batch' = Claimed /\ UNCHANGED <<order, job, last, env>>
      /\ row' = [e \in Entries |-> IF e \in Claimed THEN "DISPATCHED" ELSE row[e]]
  BY DEF claimBatch, redisVars
<1>2. \A i \in DOMAIN order : order[i] \in Committed
  BY ListsFacts DEF Inv, TableInv
<1>3. \A x : /\ Added(x) <=> (job'[x] # "absent" \/ last'[x] # "queued")
             /\ Touched(x) <=> Added(x)
  BY <1>1 DEF Added, Touched
<1>4. ASSUME NEW d \in Due, NEW e \in Claimed, Before(d, e) PROVE d \in Claimed
  <2>1. Cardinality(OlderDue(d)) < Cardinality(OlderDue(e))
    BY <1>4, OlderDueGrows
  <2>2. Cardinality(OlderDue(e)) < BatchLimit
    BY DEF Claimed, OlderDue
  <2>3. Cardinality(OlderDue(d)) \in Nat /\ Cardinality(OlderDue(e)) \in Nat
    BY OlderDueFinite
  <2>4. Cardinality(OlderDue(d)) < BatchLimit
    BY <2>1, <2>2, <2>3, OutboxAssumption
  <2> QED  BY <2>4 DEF Claimed, OlderDue
<1> HIDE DEF Claimed
<1>5. ASSUME Quiet, NEW i \in DOMAIN order, NEW j \in DOMAIN order, i < j,
             Added(order[j]) \/ order[j] \in Claimed
      PROVE  Added(order[i]) \/ order[i] \in Claimed
  <2>1. CASE Added(order[j])
    BY <1>5, <2>1 DEF OrderInv
  <2>2. CASE order[j] \in Claimed /\ ~Added(order[i])
    <3>1. order[i] \in Due
      BY <1>2, <1>3, <1>5, <2>2 DEF OrderInv, Due, Committed
    <3>2. Before(order[i], order[j])
      BY <1>5 DEF Before
    <3> QED  BY <1>4, <2>2, <3>1, <3>2
  <2> QED  BY <1>5, <2>1, <2>2
<1>6. ASSUME Quiet, NEW e \in Committed', ~(Added(e) \/ e \in Claimed)
      PROVE  row'[e] = "PENDING"
  <2>1. e \in Committed
    <3>1. Claimed \subseteq Committed
      BY ClaimedFits
    <3> QED  BY <1>1, <1>6, <3>1 DEF Committed
  <2> QED  BY <1>1, <1>3, <1>6, <2>1 DEF OrderInv, Committed
<1>7. Quiet' <=> Quiet
  BY <1>1 DEF Quiet
<1>8. ASSUME Quiet, NEW i \in DOMAIN order, NEW j \in DOMAIN order, i < j, Added(order[j])
      PROVE  Added(order[i])
  BY <1>8 DEF OrderInv
<1>9. \A x : Touched(x)' <=> (Added(x) \/ x \in Claimed)
  BY <1>1, <1>3 DEF Touched, Added
<1> QED  BY <1>1, <1>3, <1>5, <1>6, <1>7, <1>8 DEF OrderInv, Touched, Added

\* The oldest row of the batch is added when all rows before it have been.
LEMMA AddNextOrder ==
  ASSUME Inv, OrderInv, NEW e \in Entries, addNext(e)
  PROVE  OrderInv'
<1>1. /\ e \in batch /\ \A d \in batch : ~Before(d, e)
      /\ AddJob(e) /\ batch' = batch \ {e} /\ UNCHANGED <<row, order, last, env>>
  BY DEF addNext, AddsNext, tableVars
<1>2. \A i \in DOMAIN order : order[i] \in Entries
  BY ListsFacts DEF Inv, TableInv
<1>3. \A x \in Entries : Added(x)' <=> Added(x) \/ x = e
  <2>1. \/ UNCHANGED job /\ job[e] # "absent"
        \/ job' = [job EXCEPT ![e] = "waiting"]
    BY <1>1 DEF AddJob
  <2> QED  BY <1>1, <2>1, Waiting DEF Added
<1>4. \A x \in Entries : Touched(x)' <=> Touched(x)
  BY <1>1, <1>3 DEF Touched
<1>5. Quiet' <=> Quiet
  BY <1>1 DEF Quiet
<1>6. ASSUME Quiet, NEW i \in DOMAIN order, NEW j \in DOMAIN order, i < j
      PROVE  /\ Touched(order[j])' => Touched(order[i])'
             /\ Added(order[j])' => Added(order[i])'
  <2>1. PICK d \in Entries, x \in Entries : d = order[i] /\ x = order[j]
    BY <1>2
  <2>2. (Touched(x) => Touched(d)) /\ (Added(x) => Added(d)) /\ Before(d, x)
    BY <1>6, <2>1 DEF OrderInv, Before
  <2>3. Touched(x)' => Touched(d)'
    BY <1>4, <2>2
  <2>4. Added(x)' => Added(d)'
    <3>1. CASE x = e
      BY <1>1, <1>3, <2>2, <3>1 DEF Touched
    <3>2. CASE x # e
      BY <1>3, <2>2, <3>2
    <3> QED  BY <3>1, <3>2
  <2>5. order' = order
    BY <1>1
  <2> QED  BY <2>1, <2>3, <2>4, <2>5 DEF Touched, Added
<1>7. ASSUME Quiet, NEW x \in Committed', ~Touched(x)' PROVE row'[x] = "PENDING"
  BY <1>1, <1>4, <1>7 DEF OrderInv, Committed
<1> QED  BY <1>1, <1>5, <1>6, <1>7 DEF OrderInv

LEMMA QuietSteps ==
  ASSUME Inv, OrderInv,
         \/ tickOverrun \/ reapStuckDispatched
         \/ \E e \in Entries : recoverOrphan(e) \/ lockExpires(e)
         \/ \E w \in Workers : Take(w) \/ settle(w)
  PROVE  OrderInv'
<1>1. UNCHANGED <<order, batch>> /\ (env' = env \/ \E d \in Disturbances : Spend(d))
  BY DEF tickOverrun, reapStuckDispatched, recoverOrphan, lockExpires, MoveStalled, Take,
         settle, tableVars, Disturbances
<1>2. \A e \in Entries : /\ row'[e] = "none" <=> row[e] = "none"
                         /\ row[e] = "PENDING" => row'[e] = "PENDING"
  BY DEF tickOverrun, reapStuckDispatched, recoverOrphan, lockExpires, MoveStalled, Take,
         settle, tableVars, Stuck
<1>3. \A e \in Entries : Added(e)' <=> Added(e)
  <2>1. CASE tickOverrun \/ reapStuckDispatched
    BY <2>1 DEF tickOverrun, reapStuckDispatched, redisVars, Added
  <2>2. CASE \E e \in Entries : recoverOrphan(e) \/ lockExpires(e)
    <3>1. PICK e \in Entries : MoveStalled(e)
      BY <2>2 DEF recoverOrphan, lockExpires
    <3>2. /\ job[e] = "active" /\ UNCHANGED last
          /\ \E s \in {"waiting", "failed"} : job' = [job EXCEPT ![e] = s]
      BY <3>1 DEF MoveStalled
    <3> QED  BY <3>2, Waiting DEF Added
  <2>3. CASE \E w \in Workers : Take(w)
    <3>1. PICK e \in Entries : job[e] = "waiting" /\ job' = [job EXCEPT ![e] = "active"]
      <4>1. Lists(wait, {x \in Entries : job[x] = "waiting"})
        BY Waiting
      <4>2. wait # <<>> /\ job' = [job EXCEPT ![Head(wait)] = "active"]
        BY <2>3 DEF Take
      <4>3. Head(wait) \in {x \in Entries : job[x] = "waiting"}
        BY <4>1, <4>2, TailLists
      <4> QED  BY <4>2, <4>3
    <3>2. UNCHANGED last
      BY <2>3 DEF Take
    <3> QED  BY <3>1, <3>2, Waiting DEF Added
  <2>4. CASE \E w \in Workers : settle(w)
    <3>1. PICK w \in Workers, e \in Entries : settle(w) /\ e = runs[w]
      BY <2>4 DEF settle, Inv, HistoryInv
    <3>2. CASE lock[e] = w /\ Complete(e)
      <4>1. job[e] = "active"
        BY <3>1, <3>2, HolderActive
      <4>2. PICK evicted \in SUBSET Completed :
              /\ job' = [x \in Entries |-> IF x \in evicted THEN "absent"
                                           ELSE IF x = e THEN "completed" ELSE job[x]]
              /\ last' = [x \in Entries |-> IF x \in evicted THEN "completed" ELSE last[x]]
        BY <3>1, <3>2, <4>1, CompleteFacts
      <4> QED  BY <4>1, <4>2 DEF Added, Completed
    <3>3. CASE lock[e] = w /\ job' = [job EXCEPT ![e] = "failed"] /\ UNCHANGED last
      <4>1. job[e] = "active"
        BY <3>1, <3>3, HolderActive
      <4> QED  BY <3>3, <4>1, Waiting DEF Added
    <3>4. CASE UNCHANGED <<job, last>>
      BY <3>4 DEF Added
    <3> QED  BY <3>1, <3>2, <3>3, <3>4 DEF settle
  <2> QED  BY <2>1, <2>2, <2>3, <2>4
<1>4. Quiet' => Quiet
  BY <1>1, QuietBefore
<1>5. Committed' = Committed
  BY <1>2 DEF Committed
<1> QED  BY <1>1, <1>2, <1>3, <1>4, <1>5, OrderFrame

LEMMA OrderInvariance == Spec => []OrderInv
<1>1. Init => OrderInv
  <2> SUFFICES ASSUME Init PROVE OrderInv
    OBVIOUS
  <2>1. DOMAIN order = {} /\ Committed = {}
    BY DEF Init, Committed
  <2> QED  BY <2>1 DEF OrderInv
<1>2. Inv /\ OrderInv /\ [Next]_vars => OrderInv'
  <2> SUFFICES ASSUME Inv, OrderInv, [Next]_vars PROVE OrderInv'
    OBVIOUS
  <2>1. ASSUME NEW e \in Entries, create(e) \/ addNext(e) PROVE OrderInv'
    BY <2>1, CreateOrder, AddNextOrder
  <2>2. ASSUME \/ \E e \in Entries : addFails(e)
               \/ crash \/ redisLoss
        PROVE  OrderInv'
    <3>1. \E d \in {"addFails", "crash", "redisLoss"} : Spend(d)
      BY <2>2 DEF addFails, crash, redisLoss
    <3>2. ~Quiet'
      BY <3>1, QuietBefore DEF Disturbances
    <3> QED  BY <3>2 DEF OrderInv
  <2>3. ASSUME \/ tickOverrun \/ reapStuckDispatched
               \/ \E e \in Entries : recoverOrphan(e) \/ lockExpires(e)
               \/ \E w \in Workers : Take(w) \/ settle(w)
        PROVE  OrderInv'
    BY <2>3, QuietSteps
  <2>4. ASSUME claimBatch PROVE OrderInv'
    BY <2>4, ClaimOrder
  <2>5. ASSUME UNCHANGED vars PROVE OrderInv'
    BY <2>5 DEF OrderInv, Quiet, Touched, Added, Committed, vars, tableVars, redisVars
  <2> QED  BY <2>1, <2>2, <2>3, <2>4, <2>5 DEF Next, Tick
<1> QED  BY <1>1, <1>2, Invariance, PTL DEF Spec

(***************************************************************************)
(* The outbox is a channel of jobs                                         *)
(***************************************************************************)
Jobs == [e \in Entries |-> JobOf(e)]

LEMMA JobsStep ==
  ASSUME NEW e \in Entries, NEW s, JobOf(e)' = s,
         \A x \in Entries \ {e} : JobOf(x)' = JobOf(x)
  PROVE  Jobs' = [Jobs EXCEPT ![e] = s]
BY DEF Jobs

LEMMA JobsStay ==
  ASSUME \A x \in Entries : JobOf(x)' = JobOf(x)
  PROVE  Jobs' = Jobs
BY DEF Jobs

LEMMA JobOfFrame ==
  ASSUME NEW x, row'[x] = "none" <=> row[x] = "none", job'[x] = job[x], last'[x] = last[x]
  PROVE  JobOf(x)' = JobOf(x)
BY DEF JobOf

\* The steps of the channel, with the jobs as the outbox has them.
LEMMA ChannelSteps ==
  ASSUME NEW e \in Entries
  PROVE  /\ Channel!Enqueue(e) <=> /\ Jobs[e] = "none" /\ Jobs' = [Jobs EXCEPT ![e] = "queued"]
                                   /\ UNCHANGED <<lock, stalls>>
         /\ Channel!Resend(e) <=> /\ Jobs[e] # "none" /\ Jobs' = [Jobs EXCEPT ![e] = "queued"]
                                  /\ lock' = [lock EXCEPT ![e] = NoWorker]
                                  /\ stalls' = [stalls EXCEPT ![e] = 0]
         /\ Channel!LoseLocks <=> /\ lock' = [x \in Entries |-> NoWorker]
                                  /\ UNCHANGED <<Jobs, stalls>>
BY DEF Channel!Enqueue, Channel!Resend, Channel!LoseLocks, Jobs

LEMMA CreateStep ==
  ASSUME Inv, NEW e \in Entries, create(e)
  PROVE  Channel!Enqueue(e)
<1>1. /\ row[e] = "none" /\ row' = [row EXCEPT ![e] = "PENDING"]
      /\ UNCHANGED <<job, last, lock, stalls>>
  BY DEF create, redisVars
<1>2. job[e] = "absent" /\ last[e] = "queued" /\ row'[e] = "PENDING"
  BY <1>1 DEF Inv, FreshInv, TableInv
<1>3. Jobs[e] = "none" /\ JobOf(e)' = "queued"
  BY <1>1, <1>2 DEF Jobs, JobOf
<1>4. \A x \in Entries \ {e} : JobOf(x)' = JobOf(x)
  <2> TAKE x \in Entries \ {e}
  <2>1. row'[x] = row[x]
    BY <1>1 DEF Inv, TableInv
  <2> QED  BY <1>1, <2>1, JobOfFrame
<1> QED  BY <1>1, <1>3, <1>4, JobsStep, ChannelSteps

LEMMA AddJobStep ==
  ASSUME Inv, NEW e \in Committed, AddJob(e), UNCHANGED <<row, last>>
  PROVE  Channel!Resend(e) \/ UNCHANGED <<Jobs, lock, stalls>>
<1>1. e \in Entries /\ row[e] # "none" /\ UNCHANGED lock
  BY DEF Committed, AddJob
<1>2. CASE job[e] = "absent"
  <2>1. /\ job' = [job EXCEPT ![e] = "waiting"] /\ stalls' = [stalls EXCEPT ![e] = 0]
    BY <1>2 DEF AddJob
  <2>2. job'[e] = "waiting" /\ \A x \in Entries \ {e} : job'[x] = job[x]
    BY <1>1, <2>1 DEF Inv, RedisInv
  <2>3. JobOf(e)' = "queued" /\ JobOf(e) # "none"
    BY <1>1, <1>2, <2>2 DEF JobOf, Inv, HistoryInv
  <2>4. \A x \in Entries \ {e} : JobOf(x)' = JobOf(x)
    BY <2>2, JobOfFrame
  <2>5. lock' = [lock EXCEPT ![e] = NoWorker]
    <3>1. lock[e] = NoWorker /\ lock \in [Entries -> Workers \cup {NoWorker}]
      BY <1>1, <1>2 DEF Inv, RedisInv
    <3> QED  BY <1>1, <3>1
  <2>6. Jobs' = [Jobs EXCEPT ![e] = "queued"] /\ Jobs[e] # "none"
    BY <1>1, <2>3, <2>4, JobsStep DEF Jobs
  <2> QED  BY <1>1, <2>1, <2>5, <2>6, ChannelSteps
<1>3. CASE job[e] # "absent"
  BY <1>1, <1>3, JobsStay, JobOfFrame DEF AddJob
<1> QED  BY <1>2, <1>3

LEMMA TakeStep ==
  ASSUME Inv, NEW w \in Workers, Take(w)
  PROVE  \E e \in Entries : Channel!Take(w, e)
<1>1. PICK e \in Entries :
        /\ e = Head(wait) /\ job[e] = "waiting" /\ job' = [job EXCEPT ![e] = "active"]
        /\ lock' = [lock EXCEPT ![e] = w] /\ UNCHANGED <<row, stalls, last>>
  <2>1. Lists(wait, {x \in Entries : job[x] = "waiting"}) /\ wait # <<>>
    BY Waiting DEF Take
  <2>2. Head(wait) \in {x \in Entries : job[x] = "waiting"}
    BY <2>1, TailLists
  <2> QED  BY <2>2 DEF Take, tableVars
<1>2. row[e] # "none" /\ job'[e] = "active" /\ \A x \in Entries \ {e} : job'[x] = job[x]
  BY <1>1 DEF Inv, FreshInv, RedisInv
<1>3. JobOf(e) = "queued" /\ JobOf(e)' = "active"
  BY <1>1, <1>2 DEF JobOf
<1>4. \A x \in Entries \ {e} : JobOf(x)' = JobOf(x)
  BY <1>1, <1>2, JobOfFrame
<1>5. Jobs' = [Jobs EXCEPT ![e] = "active"] /\ Jobs[e] = "queued"
  BY <1>3, <1>4, JobsStep DEF Jobs
<1>6. Channel!Take(w, e)
  BY <1>1, <1>5 DEF Channel!Take, Jobs
<1> QED  BY <1>6

LEMMA SettleStep ==
  ASSUME Inv, NEW w \in Workers, settle(w)
  PROVE  \E e \in Entries, outcome \in {"completed", "failed"} : Channel!Settle(w, e, outcome)
<1>1. PICK e \in Entries : e = runs[w] /\ UNCHANGED <<row, stalls>>
  BY DEF settle, tableVars, Inv, HistoryInv
<1>2. CASE lock[e] = w /\ Complete(e) /\ lock' = [lock EXCEPT ![e] = NoWorker]
  <2>1. job[e] = "active" /\ row[e] # "none"
    BY <1>1, <1>2, HolderActive
  <2>2. PICK evicted \in SUBSET Completed :
          /\ job' = [x \in Entries |-> IF x \in evicted THEN "absent"
                                       ELSE IF x = e THEN "completed" ELSE job[x]]
          /\ last' = [x \in Entries |-> IF x \in evicted THEN "completed" ELSE last[x]]
    BY <1>1, <1>2, <2>1, CompleteFacts
  <2>3. \A x \in evicted : x \in Entries /\ job[x] = "completed" /\ row[x] # "none" /\ x # e
    BY <2>1 DEF Completed, Inv, FreshInv
  <2>4. JobOf(e)' = "completed"
    BY <1>1, <2>1, <2>2, <2>3 DEF JobOf
  <2>5. \A x \in Entries \ {e} : JobOf(x)' = JobOf(x)
    <3> TAKE x \in Entries \ {e}
    <3>1. CASE x \in evicted
      <4>1. job'[x] = "absent" /\ last'[x] = "completed" /\ row'[x] # "none"
        BY <1>1, <2>2, <2>3, <3>1
      <4> QED  BY <2>3, <3>1, <4>1 DEF JobOf
    <3>2. CASE x \notin evicted
      BY <1>1, <2>2, <3>2, JobOfFrame
    <3> QED  BY <3>1, <3>2
  <2>6. Jobs' = [Jobs EXCEPT ![e] = "completed"]
    BY <1>1, <2>4, <2>5, JobsStep
  <2>7. Channel!Settle(w, e, "completed")
    BY <1>1, <1>2, <2>6 DEF Channel!Settle, Jobs
  <2> QED  BY <1>1, <2>7
<1>3. CASE /\ lock[e] = w /\ job' = [job EXCEPT ![e] = "failed"]
           /\ lock' = [lock EXCEPT ![e] = NoWorker] /\ UNCHANGED <<done, last>>
  <2>1. job[e] = "active" /\ row[e] # "none"
    BY <1>1, <1>3, HolderActive
  <2>2. job'[e] = "failed" /\ \A x \in Entries \ {e} : job'[x] = job[x]
    BY <1>1, <1>3 DEF Inv, RedisInv
  <2>3. JobOf(e)' = "failed"
    BY <1>1, <2>1, <2>2 DEF JobOf
  <2>4. \A x \in Entries \ {e} : JobOf(x)' = JobOf(x)
    BY <1>1, <1>3, <2>2, JobOfFrame
  <2>5. Jobs' = [Jobs EXCEPT ![e] = "failed"]
    BY <1>1, <2>3, <2>4, JobsStep
  <2>6. Channel!Settle(w, e, "failed")
    BY <1>1, <1>3, <2>5 DEF Channel!Settle, Jobs
  <2> QED  BY <1>1, <2>6
<1>4. CASE lock[e] # w /\ UNCHANGED <<job, done, lock, last>>
  <2>1. Jobs' = Jobs
    BY <1>1, <1>4, JobOfFrame, JobsStay
  <2>2. Channel!Settle(w, e, "failed")
    BY <1>1, <1>4, <2>1 DEF Channel!Settle, Jobs
  <2> QED  BY <1>1, <2>2
<1> QED  BY <1>1, <1>2, <1>3, <1>4 DEF settle

LEMMA StallStep ==
  ASSUME Inv, NEW e \in Entries, MoveStalled(e)
  PROVE  Channel!Stall(e)
<1>1. /\ job[e] = "active" /\ lock' = [lock EXCEPT ![e] = NoWorker]
      /\ UNCHANGED <<row, last>>
  BY DEF MoveStalled, tableVars
<1>2. row[e] # "none" /\ JobOf(e) = "active"
  BY <1>1 DEF Inv, FreshInv, JobOf
<1>3. ASSUME NEW s \in {"waiting", "failed"}, job' = [job EXCEPT ![e] = s]
      PROVE  Jobs' = [Jobs EXCEPT ![e] = IF s = "waiting" THEN "queued" ELSE "failed"]
  <2>1. job'[e] = s /\ \A x \in Entries \ {e} : job'[x] = job[x]
    BY <1>3 DEF Inv, RedisInv
  <2>2. JobOf(e)' = IF s = "waiting" THEN "queued" ELSE "failed"
    BY <1>1, <1>2, <1>3, <2>1 DEF JobOf
  <2>3. \A x \in Entries \ {e} : JobOf(x)' = JobOf(x)
    BY <1>1, <2>1, JobOfFrame
  <2> QED  BY <2>2, <2>3, JobsStep
<1>4. Jobs[e] = "active"
  BY <1>2 DEF Jobs
<1>5. CASE stalls[e] < MaxStalled
  <2>1. Jobs' = [Jobs EXCEPT ![e] = "queued"] /\ stalls' = [stalls EXCEPT ![e] = @ + 1]
    BY <1>3, <1>5 DEF MoveStalled
  <2> QED  BY <1>1, <1>4, <1>5, <2>1 DEF Channel!Stall, Jobs
<1>6. CASE ~(stalls[e] < MaxStalled)
  <2>1. Jobs' = [Jobs EXCEPT ![e] = "failed"] /\ UNCHANGED stalls
    BY <1>3, <1>6 DEF MoveStalled
  <2> QED  BY <1>1, <1>4, <1>6, <2>1 DEF Channel!Stall, Jobs
<1> QED  BY <1>5, <1>6

\* The timers write rows that exist, and the channel sees none of it.
LEMMA TimersStep ==
  ASSUME Inv, claimBatch \/ tickOverrun \/ reapStuckDispatched
  PROVE  UNCHANGED <<Jobs, lock, stalls>>
<1>1. UNCHANGED <<job, last, lock, stalls>>
  BY DEF claimBatch, tickOverrun, reapStuckDispatched, redisVars
<1>2. \A x \in Entries : row'[x] = "none" <=> row[x] = "none"
  BY DEF claimBatch, tickOverrun, reapStuckDispatched, Claimed, Due, Stuck
<1> QED  BY <1>1, <1>2, JobOfFrame, JobsStay

LEMMA LossStep ==
  ASSUME Inv, crash \/ redisLoss
  PROVE  Channel!LoseLocks
<1>1. lock' = [e \in Entries |-> NoWorker] /\ UNCHANGED <<row, stalls>>
  BY DEF crash, redisLoss, tableVars
<1>2. CASE crash
  <2>1. UNCHANGED <<row, job, last>>
    BY <1>2 DEF crash, tableVars
  <2>2. Jobs' = Jobs
    BY <2>1, JobOfFrame, JobsStay
  <2> QED  BY <1>1, <2>2 DEF Channel!LoseLocks, Jobs
<1>3. CASE redisLoss
  <2>1. /\ job' = [e \in Entries |-> "absent"]
        /\ last' = [e \in Entries |-> IF row[e] = "none" THEN "queued" ELSE JobOf(e)]
    BY <1>3 DEF redisLoss
  <2>2. ASSUME NEW x \in Entries PROVE JobOf(x)' = JobOf(x)
    <3>1. CASE row[x] = "none"
      BY <1>1, <3>1 DEF JobOf
    <3>2. CASE row[x] # "none"
      <4>1. job'[x] = "absent" /\ last'[x] = JobOf(x) /\ row'[x] # "none"
        BY <1>1, <2>1, <3>2
      <4>2. JobOf(x)' = last'[x]
        BY <4>1 DEF JobOf
      <4> QED  BY <4>1, <4>2
    <3> QED  BY <3>1, <3>2
  <2>3. Jobs' = Jobs
    BY <2>2, JobsStay
  <2> QED  BY <1>1, <2>3 DEF Channel!LoseLocks, Jobs
<1> QED  BY <1>2, <1>3

(***************************************************************************)
(* The theorems                                                            *)
(***************************************************************************)
\* Every variable keeps its type; BullMQ's lists hold the jobs in their state, each once.
THEOREM OutboxTypeCorrect == Spec => []TypeOK
<1>1. Inv => TypeOK
  BY DEF Inv, TableInv, RedisInv, HistoryInv, Lists, Committed, TypeOK
<1> QED  BY <1>1, Invariance, PTL

\* Entries reach the queue in the order of their commits, until a tick dies.
THEOREM OldestAddedFirst == Spec => []OldestFirst
<1>1. OrderInv => OldestFirst
  BY DEF OrderInv, OldestFirst, Quiet
<1> QED  BY <1>1, OrderInvariance, PTL

\* A completed job is not queued again before MaxCompleted others have completed, or Redis
\* is emptied, however often the reaper re-arms its row.
THEOREM CompletedStays == Spec => CompletedNotRepeated
<1> DEFINE Kept == \A e \in Entries :
                     job[e] = "completed" =>
                       \/ job'[e] = "completed"
                       \/ job'[e] = "absent" /\ Len(done') = MaxCompleted
                       \/ env'["redisLoss"] > env["redisLoss"]
<1>1. Inv /\ [Next]_vars => Kept
  <2> SUFFICES ASSUME Inv, [Next]_vars, NEW e \in Entries, job[e] = "completed"
               PROVE  \/ job'[e] = "completed"
                      \/ job'[e] = "absent" /\ Len(done') = MaxCompleted
                      \/ env'["redisLoss"] > env["redisLoss"]
    OBVIOUS
  <2>1. ASSUME NEW x \in Entries, create(x) \/ addFails(x) \/ addNext(x)
        PROVE  job'[e] = "completed"
    <3>1. \/ UNCHANGED job
          \/ job[x] = "absent" /\ job' = [job EXCEPT ![x] = "waiting"]
      BY <2>1 DEF create, addFails, addNext, AddJob, redisVars
    <3> QED  BY <3>1, Waiting
  <2>2. ASSUME NEW x \in Entries, recoverOrphan(x) \/ lockExpires(x)
        PROVE  job'[e] = "completed"
    <3>1. /\ job[x] = "active"
          /\ \E s \in {"waiting", "failed"} : job' = [job EXCEPT ![x] = s]
      BY <2>2 DEF recoverOrphan, lockExpires, MoveStalled
    <3> QED  BY <3>1, Waiting
  <2>3. ASSUME claimBatch \/ tickOverrun \/ reapStuckDispatched \/ crash \/ UNCHANGED vars
        PROVE  job'[e] = "completed"
    BY <2>3 DEF claimBatch, tickOverrun, reapStuckDispatched, crash, vars, redisVars
  <2>4. ASSUME NEW w \in Workers, Take(w) PROVE job'[e] = "completed"
    <3>1. Lists(wait, {x \in Entries : job[x] = "waiting"}) /\ wait # <<>>
      BY <2>4, Waiting DEF Take
    <3>2. Head(wait) \in {x \in Entries : job[x] = "waiting"}
      BY <3>1, TailLists
    <3>3. job' = [job EXCEPT ![Head(wait)] = "active"]
      BY <2>4 DEF Take
    <3> QED  BY <3>2, <3>3
  <2>5. ASSUME NEW w \in Workers, settle(w)
        PROVE  \/ job'[e] = "completed"
               \/ job'[e] = "absent" /\ Len(done') = MaxCompleted
    <3>1. runs[w] \in Entries
      BY <2>5 DEF settle, Inv, HistoryInv
    <3>2. CASE lock[runs[w]] = w /\ Complete(runs[w])
      <4>1. job[runs[w]] = "active"
        BY <3>1, <3>2, HolderActive
      <4>2. PICK evicted \in SUBSET Completed :
              /\ job' = [x \in Entries |-> IF x \in evicted THEN "absent"
                                           ELSE IF x = runs[w] THEN "completed" ELSE job[x]]
              /\ evicted # {} => Len(done') = MaxCompleted
        BY <3>1, <3>2, <4>1, CompleteFacts
      <4> QED  BY <4>2
    <3>3. CASE lock[runs[w]] = w /\ job' = [job EXCEPT ![runs[w]] = "failed"]
      <4>1. job[runs[w]] = "active"
        BY <3>1, <3>3, HolderActive
      <4> QED  BY <3>3, <4>1
    <3>4. CASE UNCHANGED job
      BY <3>4
    <3> QED  BY <2>5, <3>2, <3>3, <3>4 DEF settle
  <2>6. ASSUME redisLoss PROVE env'["redisLoss"] > env["redisLoss"]
    <3>1. env' = [env EXCEPT !["redisLoss"] = @ + 1] /\ env \in [Disturbances -> Nat]
      BY <2>6 DEF redisLoss, Spend, Inv, HistoryInv
    <3>2. "redisLoss" \in Disturbances
      BY DEF Disturbances
    <3> QED  BY <3>1, <3>2
  <2> QED  BY <2>1, <2>2, <2>3, <2>4, <2>5, <2>6 DEF Next, Tick
<1> QED  BY <1>1, Invariance, PTL DEF Spec, CompletedNotRepeated

\* The table, the timers and the queue together do what the saga relies on: every step of
\* the outbox is a step of JobChannel or leaves it alone.
THEOREM OutboxIsChannel == Spec => ChannelSpec
<1> USE DEF Channel!channelVars
<1>1. Init => Channel!ChannelInit
  BY DEF Init, Channel!ChannelInit, JobOf
<1>2. Inv /\ [Next]_vars => [Channel!ChannelNext]_(Channel!channelVars)
  <2> SUFFICES ASSUME Inv, [Next]_vars
               PROVE  Channel!ChannelNext \/ UNCHANGED <<Jobs, lock, stalls>>
    BY DEF Jobs
  <2>1. ASSUME NEW e \in Entries, create(e) PROVE Channel!ChannelNext
    BY <2>1, CreateStep DEF Channel!ChannelNext
  <2>2. ASSUME NEW e \in Entries, addFails(e) \/ addNext(e)
        PROVE  Channel!ChannelNext \/ UNCHANGED <<Jobs, lock, stalls>>
    <3>1. e \in Committed /\ UNCHANGED <<row, last>>
      BY <2>2 DEF addFails, addNext, AddsNext, tableVars, Inv, TableInv
    <3>2. CASE AddJob(e)
      BY <3>1, <3>2, AddJobStep DEF Channel!ChannelNext, Committed
    <3>3. CASE UNCHANGED redisVars
      BY <3>1, <3>3, JobOfFrame, JobsStay DEF redisVars
    <3> QED  BY <2>2, <3>2, <3>3 DEF addFails, addNext
  <2>3. ASSUME NEW e \in Entries, recoverOrphan(e) \/ lockExpires(e) PROVE Channel!ChannelNext
    BY <2>3, StallStep DEF recoverOrphan, lockExpires, Channel!ChannelNext
  <2>4. ASSUME NEW w \in Workers, Take(w) PROVE Channel!ChannelNext
    BY <2>4, TakeStep DEF Channel!ChannelNext
  <2>5. ASSUME NEW w \in Workers, settle(w) PROVE Channel!ChannelNext
    BY <2>5, SettleStep DEF Channel!ChannelNext
  <2>6. ASSUME claimBatch \/ tickOverrun \/ reapStuckDispatched
        PROVE  UNCHANGED <<Jobs, lock, stalls>>
    BY <2>6, TimersStep
  <2>7. ASSUME crash \/ redisLoss PROVE Channel!ChannelNext
    BY <2>7, LossStep DEF Channel!ChannelNext
  <2>8. ASSUME UNCHANGED vars PROVE UNCHANGED <<Jobs, lock, stalls>>
    BY <2>8, JobOfFrame, JobsStay DEF vars, tableVars, redisVars
  <2> QED  BY <2>1, <2>2, <2>3, <2>4, <2>5, <2>6, <2>7, <2>8 DEF Next, Tick
<1> QED  BY <1>1, <1>2, Invariance, PTL DEF Spec, ChannelSpec, Channel!ChannelSpec
=============================================================================
