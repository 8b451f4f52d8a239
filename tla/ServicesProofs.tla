---------------------------- MODULE ServicesProofs ----------------------------
(***************************************************************************)
(* Theorems about Services, for any constants: the mock with its queue of  *)
(* failures implements the HCM the saga is modelled with, a readiness call *)
(* reports Redis down for a reason, and the in-memory adapter that stands  *)
(* in for the mock keeps what it keeps and answers what it answers.        *)
(***************************************************************************)
EXTENDS ServicesProperties, SumTheorems, SequenceTheorems

FaultsOfKinds == Kinds \subseteq Faults

\* A call of the mock is a call of the HCM in which the failure struck is one of the faults.
LEMMA CallIsHcmCall ==
  ASSUME FaultsOfKinds, NEW op \in Ops, NEW r \in Requests, NEW reply, StoreCall(op, r, reply)
  PROVE  HcmCall(op, r, reply)
<1>0. Kinds \subseteq Faults
  BY DEF FaultsOfKinds
<1>1. CASE op = "reserve"
  <2>1. storeReserve(r, reply)
    BY <1>1 DEF StoreCall
  <2>2. HcmReserve(r, reply)
    BY <1>0, <2>1 DEF storeReserve, reserveOrThrow, Refuse, Hold, HcmReserve, HcmIsDown, Kinds,
                      hcmVars
  <2> QED  BY <1>1, <2>2 DEF HcmCall
<1>2. CASE op = "confirm"
  <2>1. storeConfirm(r, reply)
    BY <1>2 DEF StoreCall
  <2>2. HcmConfirm(r, reply)
    BY <1>0, <2>1 DEF storeConfirm, Refuse, HcmConfirm, HcmIsDown, Kinds, hcmVars
  <2> QED  BY <1>2, <2>2 DEF HcmCall
<1>3. CASE op = "release"
  <2>1. storeRelease(r, reply)
    BY <1>3 DEF StoreCall
  <2>2. HcmRelease(r, reply)
    BY <1>0, <2>1 DEF storeRelease, Refuse, HcmRelease, HcmIsDown, Kinds, hcmVars
  <2> QED  BY <1>3, <2>2 DEF HcmCall
<1>4. CASE op = "getBalance"
  <2>1. storeGetBalance(BalanceOf[r], reply)
    BY <1>4 DEF StoreCall
  <2>2. HcmGetBalance(BalanceOf[r], reply)
    BY <1>0, <2>1 DEF storeGetBalance, Refuse, HcmGetBalance, HcmIsDown, Kinds, hcmVars
  <2> QED  BY <1>4, <2>2 DEF HcmCall
<1> QED  BY <1>1, <1>2, <1>3, <1>4 DEF Ops

\* Whatever has been queued and however calls, seeds, resets and readiness calls interleave,
\* the mock does what the model of the saga lets its HCM do (hcm.service.ts).
THEOREM MockIsHcm ==
  ASSUME FaultsOfKinds
  PROVE  ServicesSpec => StoreImplementsHcm
<1>1. \A op \in Ops, r \in Requests, reply \in Replies :
        StoreCall(op, r, reply) => HcmCall(op, r, reply)
  BY CallIsHcmCall
<1> QED  BY <1>1, PTL DEF ServicesSpec, StoreImplementsHcm

(***************************************************************************)
(* Redis is not down for nothing                                           *)
(***************************************************************************)
ClientStates == {"wait", "connecting", "ready", "reconnecting"}

ProbeTypes ==
  /\ client \in ClientStates
  /\ DOMAIN redis = Probes /\ DOMAIN db = Probes
  /\ DOMAIN steady = Probes /\ DOMAIN crossed = Probes

\* A call that needs no excuse: Redis has been there all the time and nobody was connecting.
Plain(p) == Active(p) /\ steady[p] /\ ~crossed[p]

\* Such a call waits for the connection it has asked for, or pings over one that stands.
PlainFits(p) ==
  /\ Active(p) /\ steady[p] => reach
  /\ Plain(p) => /\ redis[p] = "connect" => client = "connecting"
                 /\ redis[p] \in {"ping", "pinging"} => client = "ready"
                 /\ redis[p] # "down"
  /\ ~Active(p) => redis[p] = "idle"

ProbeInv == ProbeTypes /\ \A p \in Probes : PlainFits(p)

LEMMA ProbeInvInit == ServicesInit => ProbeInv
  BY DEF ServicesInit, HealthInit, ProbeInv, ProbeTypes, PlainFits, Plain, Active, ClientStates

\* A step that leaves the client and the readiness calls alone keeps the invariant.
LEMMA ProbeInvFrame ==
  ASSUME ProbeInv, UNCHANGED <<client, reach, db, redis, steady, crossed>>
  PROVE  ProbeInv'
  BY DEF ProbeInv, ProbeTypes, PlainFits, Plain, Active

LEMMA ProbeInvProbe ==
  ASSUME ProbeInv, NEW q \in Probes, ProbeStep(q)
  PROVE  ProbeInv'
<1> USE DEF ProbeInv, ProbeTypes, PlainFits, Plain, Active, ClientStates
<1>1. CASE readiness(q)
  BY <1>1 DEF readiness
<1>2. CASE ping(q)
  BY <1>2 DEF ping
<1>3. CASE pong(q)
  BY <1>3 DEF pong
<1>4. CASE timeout(q)
  BY <1>4 DEF timeout
<1>5. CASE checkDb(q)
  BY <1>5 DEF checkDb, Results
<1>6. CASE checkHcm(q)
  BY <1>6 DEF checkHcm
<1>7. CASE report(q)
  BY <1>7 DEF report, Results
<1> QED  BY <1>1, <1>2, <1>3, <1>4, <1>5, <1>6, <1>7 DEF ProbeStep

LEMMA ProbeInvClient ==
  ASSUME ProbeInv, ClientStep
  PROVE  ProbeInv'
<1> USE DEF ProbeInv, ProbeTypes, PlainFits, Plain, Active, ClientStates, RedisFrame, Settled
<1>1. CASE clientConnects
  BY <1>1 DEF clientConnects
<1>2. CASE clientLoses
  BY <1>2 DEF clientLoses
<1>3. CASE clientRetries
  BY <1>3 DEF clientRetries
<1>4. CASE redisComesOrGoes
  BY <1>4 DEF redisComesOrGoes
<1> QED  BY <1>1, <1>2, <1>3, <1>4 DEF ClientStep

LEMMA ProbeInvNext == ProbeInv /\ [ServicesNext]_serviceVars => ProbeInv'
<1> SUFFICES ASSUME ProbeInv, [ServicesNext]_serviceVars
             PROVE  ProbeInv'
  OBVIOUS
<1>1. ASSUME NEW op \in Ops, NEW r \in Requests, callBoth(op, r)
      PROVE  ProbeInv'
  BY <1>1, ProbeInvFrame DEF callBoth, healthVars, checkVars
<1>2. ASSUME NEW b \in Balances, NEW t \in Totals, seedBoth(b, t)
      PROVE  ProbeInv'
  BY <1>2, ProbeInvFrame DEF seedBoth, healthVars, checkVars
<1>3. CASE resetBoth
  BY <1>3, ProbeInvFrame DEF resetBoth, healthVars, checkVars
<1>4. ASSUME NEW spec \in FailureSpecs, injectBoth(spec)
      PROVE  ProbeInv'
  BY <1>4, ProbeInvFrame DEF injectBoth, healthVars, checkVars
<1>5. ASSUME NEW p \in Probes, probeStep(p)
      PROVE  ProbeInv'
  BY <1>5, ProbeInvProbe DEF probeStep
<1>6. CASE clientStep
  BY <1>6, ProbeInvClient DEF clientStep
<1>7. CASE UNCHANGED serviceVars
  BY <1>7, ProbeInvFrame DEF serviceVars, healthVars, checkVars
<1> QED  BY <1>1, <1>2, <1>3, <1>4, <1>5, <1>6, <1>7 DEF ServicesNext

\* Whatever Redis does and however many readiness calls share the client, one that finds
\* Redis down by an error met a Redis that was gone or a client that was connecting.
THEOREM RedisDownHasCause == ServicesSpec => []DownHasCause
<1>1. ProbeInv => DownHasCause
  BY DEF ProbeInv, PlainFits, Plain, DownHasCause, Active
<1> QED  BY <1>1, ProbeInvInit, ProbeInvNext, PTL DEF ServicesSpec

(***************************************************************************)
(* Queues of failures and what keeps two of them in step                   *)
(***************************************************************************)
\* The queues of failures.
Queues == Seq(FailureSpecs)

\* The first position of an operation in a queue.
IsFirst(i, queue, op) ==
  i \in Positions(queue, op) /\ \A k \in Positions(queue, op) : i <= k

\* What findFailure finds is the first position of the operation, or 0 when there is none.
LEMMA Found ==
  ASSUME NEW queue \in Queues, NEW op
  PROVE  \/ findFailure(queue, op) = 0 /\ Positions(queue, op) = {}
         \/ IsFirst(findFailure(queue, op), queue, op)
<1> DEFINE I == {i \in 1..Len(queue) : queue[i].op = op}
<1>1. findFailure(queue, op) = IF I # {} THEN Min(I) ELSE 0
  BY DEF findFailure, SelectInSeq
<1>2. CASE I = {}
  BY <1>1, <1>2 DEF Positions
<1>3. CASE I # {}
  <2>1. I \subseteq Nat
    BY LenProperties DEF Queues
  <2>2. PICK n \in I : \A m \in Nat : m < n => m \notin I
    <3> HIDE DEF I
    <3> QED  BY <1>3, <2>1, LeastNumber
  <2>3. \A m \in I : n <= m
    <3> HIDE DEF I
    <3> QED  BY <2>1, <2>2
  <2>4. Min(I) \in I /\ \A m \in I : Min(I) <= m
    <3> HIDE DEF I
    <3> QED  BY <2>2, <2>3 DEF Min
  <2> QED
    BY <1>1, <1>3, <2>4 DEF Positions, IsFirst
<1> QED
  BY <1>2, <1>3

\* Where an element is before the one at i is removed.
Up(i, k) == IF k < i THEN k ELSE k + 1

\* The queue without its element at i.
LEMMA Removed ==
  ASSUME NEW queue \in Queues, NEW i \in 1..Len(queue)
  PROVE  /\ RemoveAt(queue, i) \in Queues
         /\ Len(RemoveAt(queue, i)) = Len(queue) - 1
         /\ \A k \in 1..(Len(queue) - 1) : RemoveAt(queue, i)[k] = queue[Up(i, k)]
<1> DEFINE before == SubSeq(queue, 1, i - 1)
           after == SubSeq(queue, i + 1, Len(queue))
<1>1. Len(queue) \in Nat /\ i \in Int /\ \A k \in 1..Len(queue) : queue[k] \in FailureSpecs
  BY LenProperties, ElementOfSeq DEF Queues
<1>2. /\ before \in Queues /\ Len(before) = i - 1
      /\ \A k \in 1..(i - 1) : before[k] = queue[k]
  <2>1. \A k \in 1..(i - 1) : queue[k] \in FailureSpecs
    BY <1>1
  <2>2. before \in Seq(FailureSpecs) /\ Len(before) = IF 1 <= i - 1 THEN (i - 1) - 1 + 1 ELSE 0
    BY <1>1, <2>1, SubSeqProperties
  <2>3. \A k \in 1..((i - 1) - 1 + 1) : before[k] = queue[1 + k - 1]
    BY <1>1, <2>1, SubSeqProperties
  <2> QED
    BY <1>1, <2>2, <2>3 DEF Queues
<1>3. /\ after \in Queues /\ Len(after) = Len(queue) - i
      /\ \A k \in 1..(Len(queue) - i) : after[k] = queue[i + k]
  <2>1. \A k \in (i + 1)..Len(queue) : queue[k] \in FailureSpecs
    BY <1>1
  <2>2. /\ after \in Seq(FailureSpecs)
        /\ Len(after) = IF i + 1 <= Len(queue) THEN Len(queue) - (i + 1) + 1 ELSE 0
    BY <1>1, <2>1, SubSeqProperties
  <2>3. \A k \in 1..(Len(queue) - (i + 1) + 1) : after[k] = queue[(i + 1) + k - 1]
    BY <1>1, <2>1, SubSeqProperties
  <2> QED
    BY <1>1, <2>2, <2>3 DEF Queues
<1> HIDE DEF before, after
<1>4. /\ before \o after \in Queues
      /\ Len(before \o after) = Len(before) + Len(after)
      /\ \A k \in 1..(Len(before) + Len(after)) :
           (before \o after)[k] = IF k <= Len(before) THEN before[k] ELSE after[k - Len(before)]
  BY <1>2, <1>3, ConcatProperties DEF Queues
<1>5. RemoveAt(queue, i) = before \o after
  BY DEF RemoveAt, before, after
<1>6. ASSUME NEW k \in 1..(Len(queue) - 1)
      PROVE  (before \o after)[k] = queue[Up(i, k)]
  <2>1. CASE k < i
    BY <1>1, <1>2, <1>3, <1>4, <2>1 DEF Up
  <2>2. CASE ~(k < i)
    <3>1. (before \o after)[k] = after[k - (i - 1)]
      BY <1>1, <1>2, <1>3, <1>4, <2>2
    <3>2. k - (i - 1) \in 1..(Len(queue) - i) /\ i + (k - (i - 1)) = k + 1
      BY <1>1, <2>2
    <3> QED
      BY <1>3, <2>2, <3>1, <3>2 DEF Up
  <2> QED
    BY <2>1, <2>2
<1>7. Len(before \o after) = Len(queue) - 1
  BY <1>1, <1>2, <1>3, <1>4
<1>8. \A k \in 1..(Len(queue) - 1) : (before \o after)[k] = queue[Up(i, k)]
  BY <1>6
<1> QED
  BY <1>4, <1>5, <1>7, <1>8

\* The positions of an operation after a removal are the others of before, moved up.
LEMMA RemovedPositions ==
  ASSUME NEW queue \in Queues, NEW i \in 1..Len(queue), NEW op
  PROVE  /\ \A k \in Positions(RemoveAt(queue, i), op) :
              /\ k \in Nat /\ Up(i, k) \in Positions(queue, op) \ {i}
              /\ RemoveAt(queue, i)[k] = queue[Up(i, k)]
         /\ \A p \in Positions(queue, op) \ {i} :
              \E k \in Positions(RemoveAt(queue, i), op) : p = Up(i, k)
<1>1. Len(queue) \in Nat /\ i \in Nat
  BY LenProperties DEF Queues
<1>2. /\ Len(RemoveAt(queue, i)) = Len(queue) - 1
      /\ \A k \in 1..(Len(queue) - 1) : RemoveAt(queue, i)[k] = queue[Up(i, k)]
  BY Removed
<1>3. ASSUME NEW k \in Positions(RemoveAt(queue, i), op)
      PROVE  /\ k \in Nat /\ Up(i, k) \in Positions(queue, op) \ {i}
             /\ RemoveAt(queue, i)[k] = queue[Up(i, k)]
  BY <1>1, <1>2 DEF Positions, Up
<1>4. ASSUME NEW p \in Positions(queue, op) \ {i}
      PROVE  \E k \in Positions(RemoveAt(queue, i), op) : p = Up(i, k)
  <2> DEFINE k == IF p < i THEN p ELSE p - 1
  <2>1. k \in 1..(Len(queue) - 1) /\ Up(i, k) = p
    BY <1>1 DEF Positions, Up
  <2> HIDE DEF k
  <2>2. RemoveAt(queue, i)[k] = queue[p]
    BY <1>2, <2>1
  <2>3. k \in Positions(RemoveAt(queue, i), op)
    BY <1>2, <2>1, <2>2 DEF Positions
  <2> QED
    BY <2>1, <2>3
<1> QED
  BY <1>3, <1>4

\* A removal keeps the order.
LEMMA UpMonotonic ==
  ASSUME NEW i \in Nat, NEW k \in Nat, NEW l \in Nat
  PROVE  k < l <=> Up(i, k) < Up(i, l)
BY DEF Up

\* A match of the failures of an operation in two queues.
Matches(match, queue, other, op) ==
  /\ match \subseteq Positions(queue, op) \X Positions(other, op)
  /\ \A i \in Positions(queue, op) : \E j \in Positions(other, op) : <<i, j>> \in match
  /\ \A j \in Positions(other, op) : \E i \in Positions(queue, op) : <<i, j>> \in match
  /\ \A p, q \in match : p[1] < q[1] <=> p[2] < q[2]
  /\ \A p \in match : queue[p[1]].kind = other[p[2]].kind

\* Two queues are in step when something matches them.
LEMMA InStepIsMatch ==
  ASSUME NEW queue, NEW other, NEW op
  PROVE  InStep(queue, other, op) <=> \E match : Matches(match, queue, other, op)
BY DEF InStep, Matches

\* To be in step is mutual.
LEMMA InStepSymmetric ==
  ASSUME NEW queue, NEW other, NEW op, InStep(queue, other, op)
  PROVE  InStep(other, queue, op)
<1>1. PICK match : Matches(match, queue, other, op)
  BY InStepIsMatch
<1> DEFINE turned == {p \in Positions(other, op) \X Positions(queue, op) : <<p[2], p[1]>> \in match}
<1>2. /\ turned \subseteq Positions(other, op) \X Positions(queue, op)
      /\ \A i \in Positions(other, op) : \E j \in Positions(queue, op) : <<i, j>> \in turned
      /\ \A j \in Positions(queue, op) : \E i \in Positions(other, op) : <<i, j>> \in turned
  BY <1>1 DEF Matches
<1>3. \A p, q \in turned : p[1] < q[1] <=> p[2] < q[2]
  BY <1>1 DEF Matches
<1>4. \A p \in turned : other[p[1]].kind = queue[p[2]].kind
  BY <1>1 DEF Matches
<1>5. Matches(turned, other, queue, op)
  BY <1>2, <1>3, <1>4 DEF Matches
<1> QED
  BY <1>5, InStepIsMatch

\* A failure of another operation is removed from one of the queues.
LEMMA RemoveOther ==
  ASSUME NEW queue \in Queues, NEW other, NEW op, InStep(queue, other, op),
         NEW i \in 1..Len(queue), queue[i].op # op
  PROVE  InStep(RemoveAt(queue, i), other, op)
<1>1. PICK match : Matches(match, queue, other, op)
  BY InStepIsMatch
<1> DEFINE rest == RemoveAt(queue, i)
           P == Positions(queue, op)
           R == Positions(rest, op)
           J == Positions(other, op)
           moved == {p \in R \X J : <<Up(i, p[1]), p[2]>> \in match}
<1>2. i \notin P /\ i \in Nat
  BY DEF Positions
<1>3. /\ \A k \in R : k \in Nat /\ Up(i, k) \in P /\ rest[k] = queue[Up(i, k)]
      /\ \A p \in P : \E k \in R : p = Up(i, k)
  BY <1>2, RemovedPositions
<1>4. /\ match \subseteq P \X J
      /\ \A p \in P : \E j \in J : <<p, j>> \in match
      /\ \A j \in J : \E p \in P : <<p, j>> \in match
      /\ \A p, q \in match : p[1] < q[1] <=> p[2] < q[2]
      /\ \A p \in match : queue[p[1]].kind = other[p[2]].kind
  BY <1>1 DEF Matches
<1> HIDE DEF rest, P, R, J
<1>5. /\ moved \subseteq R \X J
      /\ \A k \in R : \E j \in J : <<k, j>> \in moved
      /\ \A j \in J : \E k \in R : <<k, j>> \in moved
  BY <1>3, <1>4
<1>6. ASSUME NEW p \in moved, NEW q \in moved
      PROVE  p[1] < q[1] <=> p[2] < q[2]
  <2>1. p[1] \in Nat /\ q[1] \in Nat
    BY <1>3
  <2>2. Up(i, p[1]) < Up(i, q[1]) <=> p[2] < q[2]
    <3>1. <<Up(i, p[1]), p[2]>> \in match /\ <<Up(i, q[1]), q[2]>> \in match
      OBVIOUS
    <3> QED
      BY <1>4, <3>1
  <2> QED
    BY <1>2, <2>1, <2>2, UpMonotonic
<1>7. ASSUME NEW p \in moved
      PROVE  rest[p[1]].kind = other[p[2]].kind
  <2>1. <<Up(i, p[1]), p[2]>> \in match /\ p[1] \in R
    OBVIOUS
  <2> QED
    BY <1>3, <1>4, <2>1
<1>8. Matches(moved, rest, other, op)
  BY <1>5, <1>6, <1>7 DEF Matches, R, J
<1> QED
  BY <1>8, InStepIsMatch DEF rest

\* Both queues lose their first failure of the operation: the two are of one kind, since a
\* match that keeps the order pairs the first with the first.
LEMMA RemoveFirsts ==
  ASSUME NEW queue \in Queues, NEW other \in Queues, NEW op, InStep(queue, other, op),
         NEW i, NEW j, IsFirst(i, queue, op), IsFirst(j, other, op)
  PROVE  /\ InStep(RemoveAt(queue, i), RemoveAt(other, j), op)
         /\ queue[i].kind = other[j].kind
<1>1. PICK match : Matches(match, queue, other, op)
  BY InStepIsMatch
<1> DEFINE rest == RemoveAt(queue, i)
           last == RemoveAt(other, j)
           P == Positions(queue, op)
           O == Positions(other, op)
           R == Positions(rest, op)
           L == Positions(last, op)
           moved == {p \in R \X L : <<Up(i, p[1]), Up(j, p[2])>> \in match}
<1>2. i \in 1..Len(queue) /\ j \in 1..Len(other) /\ i \in Nat /\ j \in Nat
  BY DEF Positions, IsFirst
<1>3. /\ \A k \in R : k \in Nat /\ Up(i, k) \in P \ {i} /\ rest[k] = queue[Up(i, k)]
      /\ \A p \in P \ {i} : \E k \in R : p = Up(i, k)
  BY <1>2, RemovedPositions
<1>4. /\ \A k \in L : k \in Nat /\ Up(j, k) \in O \ {j} /\ last[k] = other[Up(j, k)]
      /\ \A p \in O \ {j} : \E k \in L : p = Up(j, k)
  BY <1>2, RemovedPositions
<1>5. /\ match \subseteq P \X O
      /\ \A p \in P : \E o \in O : <<p, o>> \in match
      /\ \A o \in O : \E p \in P : <<p, o>> \in match
      /\ \A p, q \in match : p[1] < q[1] <=> p[2] < q[2]
      /\ \A p \in match : queue[p[1]].kind = other[p[2]].kind
  BY <1>1 DEF Matches
<1>6. P \subseteq Nat /\ O \subseteq Nat
  BY LenProperties DEF P, O, Positions, Queues
<1>7. i \in P /\ j \in O /\ (\A p \in P : i <= p) /\ (\A o \in O : j <= o)
  BY DEF IsFirst
<1> HIDE DEF rest, last, P, O, R, L
<1>8. \A p \in P, o \in O : <<p, o>> \in match => (p = i <=> o = j)
  <2> SUFFICES ASSUME NEW p \in P, NEW o \in O, <<p, o>> \in match
               PROVE  p = i <=> o = j
    OBVIOUS
  <2>1. PICK a \in O : <<i, a>> \in match
    BY <1>5, <1>7
  <2>2. PICK b \in P : <<b, j>> \in match
    BY <1>5, <1>7
  <2>3. i < p <=> a < o
    BY <1>5, <2>1
  <2>4. b < p <=> j < o
    BY <1>5, <2>2
  <2>5. b < i <=> j < a
    BY <1>5, <2>1, <2>2
  <2>6. i < b <=> a < j
    BY <1>5, <2>1, <2>2
  <2> QED
    BY <1>6, <1>7, <2>3, <2>4, <2>5, <2>6
<1>9. <<i, j>> \in match
  BY <1>5, <1>7, <1>8
<1>10. /\ moved \subseteq R \X L
       /\ \A k \in R : \E l \in L : <<k, l>> \in moved
       /\ \A l \in L : \E k \in R : <<k, l>> \in moved
  <2>1. ASSUME NEW k \in R
        PROVE  \E l \in L : <<k, l>> \in moved
    <3>1. PICK o \in O : <<Up(i, k), o>> \in match
      BY <1>3, <1>5
    <3>2. o # j
      BY <1>3, <1>8, <3>1
    <3>3. PICK l \in L : o = Up(j, l)
      BY <1>4, <3>2
    <3> QED
      BY <3>1, <3>3
  <2>2. ASSUME NEW l \in L
        PROVE  \E k \in R : <<k, l>> \in moved
    <3>1. PICK p \in P : <<p, Up(j, l)>> \in match
      BY <1>4, <1>5
    <3>2. p # i
      BY <1>4, <1>8, <3>1
    <3>3. PICK k \in R : p = Up(i, k)
      BY <1>3, <3>2
    <3> QED
      BY <3>1, <3>3
  <2> QED
    BY <2>1, <2>2
<1>11. ASSUME NEW p \in moved, NEW q \in moved
       PROVE  p[1] < q[1] <=> p[2] < q[2]
  <2>1. p[1] \in Nat /\ q[1] \in Nat /\ p[2] \in Nat /\ q[2] \in Nat
    BY <1>3, <1>4
  <2>2. Up(i, p[1]) < Up(i, q[1]) <=> Up(j, p[2]) < Up(j, q[2])
    <3>1. <<Up(i, p[1]), Up(j, p[2])>> \in match /\ <<Up(i, q[1]), Up(j, q[2])>> \in match
      OBVIOUS
    <3> QED
      BY <1>5, <3>1
  <2>3. p[1] < q[1] <=> Up(i, p[1]) < Up(i, q[1])
    BY <1>2, <2>1, UpMonotonic
  <2>4. p[2] < q[2] <=> Up(j, p[2]) < Up(j, q[2])
    BY <1>2, <2>1, UpMonotonic
  <2> QED
    BY <2>2, <2>3, <2>4
<1>12. ASSUME NEW p \in moved
       PROVE  rest[p[1]].kind = last[p[2]].kind
  <2>1. <<Up(i, p[1]), Up(j, p[2])>> \in match /\ p[1] \in R /\ p[2] \in L
    OBVIOUS
  <2> QED
    BY <1>3, <1>4, <1>5, <2>1
<1>13. Matches(moved, rest, last, op)
  BY <1>10, <1>11, <1>12 DEF Matches, R, L
<1>14. queue[i].kind = other[j].kind
  BY <1>5, <1>9
<1> QED
  BY <1>13, <1>14, InStepIsMatch DEF rest, last

\* Both queues get the same failure.
LEMMA AppendBoth ==
  ASSUME NEW queue \in Queues, NEW other \in Queues, NEW op, InStep(queue, other, op),
         NEW spec \in FailureSpecs
  PROVE  InStep(Append(queue, spec), Append(other, spec), op)
<1>1. PICK match : Matches(match, queue, other, op)
  BY InStepIsMatch
<1> DEFINE m == Len(queue) + 1
           n == Len(other) + 1
           P == Positions(queue, op)
           O == Positions(other, op)
           longer == Append(queue, spec)
           wider == Append(other, spec)
           more == IF spec.op = op THEN match \cup {<<m, n>>} ELSE match
<1>2. /\ m \in Nat /\ n \in Nat
      /\ \A k \in P : k \in Nat /\ k < m /\ longer[k] = queue[k]
      /\ \A k \in O : k \in Nat /\ k < n /\ wider[k] = other[k]
      /\ longer[m] = spec /\ wider[n] = spec
  BY LenProperties DEF Queues, Positions
<1>3. /\ Positions(longer, op) = IF spec.op = op THEN P \cup {m} ELSE P
      /\ Positions(wider, op) = IF spec.op = op THEN O \cup {n} ELSE O
  BY LenProperties DEF Queues, Positions
<1>4. /\ match \subseteq P \X O
      /\ \A p \in P : \E o \in O : <<p, o>> \in match
      /\ \A o \in O : \E p \in P : <<p, o>> \in match
      /\ \A p, q \in match : p[1] < q[1] <=> p[2] < q[2]
      /\ \A p \in match : queue[p[1]].kind = other[p[2]].kind
  BY <1>1 DEF Matches
<1> HIDE DEF P, O, m, n, longer, wider
<1>5. Matches(more, longer, wider, op)
  <2>1. CASE spec.op # op
    BY <1>2, <1>3, <1>4, <2>1 DEF Matches
  <2>2. CASE spec.op = op
    <3>1. /\ Positions(longer, op) = P \cup {m} /\ Positions(wider, op) = O \cup {n}
          /\ more = match \cup {<<m, n>>}
      BY <1>3, <2>2
    <3>2. more \subseteq Positions(longer, op) \X Positions(wider, op)
      BY <1>4, <3>1
    <3>3. ASSUME NEW p \in Positions(longer, op)
          PROVE  \E o \in Positions(wider, op) : <<p, o>> \in more
      <4>1. CASE p \in P
        BY <1>4, <3>1, <4>1
      <4>2. CASE p = m
        BY <3>1, <4>2
      <4> QED  BY <3>1, <4>1, <4>2
    <3>4. ASSUME NEW o \in Positions(wider, op)
          PROVE  \E p \in Positions(longer, op) : <<p, o>> \in more
      <4>1. CASE o \in O
        BY <1>4, <3>1, <4>1
      <4>2. CASE o = n
        BY <3>1, <4>2
      <4> QED  BY <3>1, <4>1, <4>2
    <3>5. ASSUME NEW p \in more, NEW q \in more
          PROVE  p[1] < q[1] <=> p[2] < q[2]
      BY <1>2, <1>4, <2>2
    <3>6. ASSUME NEW p \in more
          PROVE  longer[p[1]].kind = wider[p[2]].kind
      BY <1>2, <1>4, <2>2
    <3> QED
      BY <3>2, <3>3, <3>4, <3>5, <3>6 DEF Matches
  <2> QED
    BY <2>1, <2>2
<1> QED
  BY <1>5, InStepIsMatch DEF longer, wider

\* A pop yields a queue.
LEMMA Popped ==
  ASSUME NEW queue \in Queues, NEW op
  PROVE  popFailure(queue, op) \in Queues
<1>1. findFailure(queue, op) = 0 \/ findFailure(queue, op) \in 1..Len(queue)
  BY Found DEF IsFirst, Positions
<1> QED
  BY <1>1, Removed DEF popFailure

\* A pop of another operation from one of the queues.
LEMMA PopOther ==
  ASSUME NEW queue \in Queues, NEW other, NEW op, NEW a, a # op, InStep(queue, other, op)
  PROVE  InStep(popFailure(queue, a), other, op)
<1> DEFINE i == findFailure(queue, a)
<1>1. i = 0 \/ (i \in 1..Len(queue) /\ queue[i].op # op)
  BY Found DEF IsFirst, Positions
<1>2. CASE i = 0
  BY <1>2 DEF popFailure
<1>3. CASE i # 0
  <2>1. 0 \notin 1..Len(queue)
    BY LenProperties DEF Queues
  <2>2. popFailure(queue, a) = RemoveAt(queue, i)
    BY <1>3 DEF popFailure
  <2> HIDE DEF i
  <2> QED
    BY <1>1, <1>3, <2>2, RemoveOther
<1> QED
  BY <1>2, <1>3

\* Both queues lose their first failure of an operation, which strikes alike.
LEMMA PopSame ==
  ASSUME NEW queue \in Queues, NEW other \in Queues, NEW op, InStep(queue, other, op)
  PROVE  /\ InStep(popFailure(queue, op), popFailure(other, op), op)
         /\ Struck(queue, op) = Struck(other, op)
<1> DEFINE i == findFailure(queue, op)
           j == findFailure(other, op)
<1>1. /\ (i = 0 /\ Positions(queue, op) = {}) \/ IsFirst(i, queue, op)
      /\ (j = 0 /\ Positions(other, op) = {}) \/ IsFirst(j, other, op)
  BY Found
<1>2. Positions(queue, op) = {} <=> Positions(other, op) = {}
  BY DEF InStep
<1>3. 0 \notin Positions(queue, op) /\ 0 \notin Positions(other, op)
  BY LenProperties DEF Positions, Queues
<1>4. /\ popFailure(queue, op) = IF i = 0 THEN queue ELSE RemoveAt(queue, i)
      /\ popFailure(other, op) = IF j = 0 THEN other ELSE RemoveAt(other, j)
      /\ Struck(queue, op) = IF i = 0 THEN "none" ELSE queue[i].kind
      /\ Struck(other, op) = IF j = 0 THEN "none" ELSE other[j].kind
  BY DEF popFailure, Struck
<1> HIDE DEF i, j
<1>5. CASE i = 0 /\ j = 0
  BY <1>4, <1>5
<1>6. CASE IsFirst(i, queue, op) /\ IsFirst(j, other, op)
  <2>1. i # 0 /\ j # 0
    BY <1>3, <1>6 DEF IsFirst
  <2> QED
    BY <1>4, <1>6, <2>1, RemoveFirsts
<1> QED
  BY <1>1, <1>2, <1>3, <1>5, <1>6 DEF IsFirst

\* A pop of the same operation from both queues keeps them in step for every operation.
LEMMA PopBoth ==
  ASSUME NEW queue \in Queues, NEW other \in Queues, NEW op, NEW a, InStep(queue, other, op)
  PROVE  InStep(popFailure(queue, a), popFailure(other, a), op)
<1>1. CASE a = op
  BY <1>1, PopSame
<1>2. CASE a # op
  <2>1. InStep(other, popFailure(queue, a), op)
    BY <1>2, PopOther, InStepSymmetric
  <2> QED
    BY <1>2, <2>1, PopOther, InStepSymmetric
<1> QED
  BY <1>1, <1>2

(***************************************************************************)
(* Types                                                                   *)
(***************************************************************************)
\* What the mock, the adapter and the readiness calls keep, apart from one another.
StoreTypes == HcmTypeOK /\ failures \in Queues

MemTypes ==
  /\ memTotal \in [Balances -> Int \cup {NoRow}]
  /\ memHold \in [Requests -> {"none", "held", "confirmed"}]
  /\ memFailures \in Queues

CheckTypes ==
  /\ client \in {"wait", "connecting", "ready", "reconnecting"}
  /\ reach \in BOOLEAN
  /\ db \in [Probes -> CheckStates]
  /\ redis \in [Probes -> Results \cup {"idle", "connect", "ping", "pinging", "late"}]
  /\ hcm \in [Probes -> CheckStates]
  /\ \A p \in Probes : {db[p], redis[p], hcm[p]} = {"idle"} \/ "idle" \notin {db[p], redis[p], hcm[p]}
  /\ steady \in [Probes -> BOOLEAN]
  /\ crossed \in [Probes -> BOOLEAN]

HistoryTypes == astray \in BOOLEAN /\ eaten \in BOOLEAN

\* The types of the whole are those of the parts.
LEMMA TypesApart ==
  ServicesTypeOK <=> StoreTypes /\ MemTypes /\ CheckTypes /\ HistoryTypes
BY DEF ServicesTypeOK, StoreTypes, MemTypes, CheckTypes, HistoryTypes, Queues

\* What the constants are, for the provers.
LEMMA DaysAreInt == /\ \A r \in Requests : BalanceOf[r] \in Balances /\ DaysOf[r] \in Nat
                    /\ \A t \in Int : t # NoRow
BY LedgerAssumption, HcmAssumption

\* Everything starts in its type.
LEMMA ServicesTypesInit == ServicesInit => ServicesTypeOK
<1> SUFFICES ASSUME ServicesInit PROVE ServicesTypeOK
  OBVIOUS
<1>1. failures = <<>> /\ memFailures = <<>> /\ <<>> \in Seq(FailureSpecs)
  BY DEF ServicesInit, StoreInit, MemInit
<1>2. StoreTypes
  BY <1>1 DEF ServicesInit, StoreInit, HcmInit, HcmTypeOK, StoreTypes, Queues
<1>3. MemTypes
  BY <1>1, <1>2 DEF ServicesInit, MemInit, HcmTypeOK, StoreTypes, MemTypes, Queues
<1>4. CheckTypes
  BY DEF ServicesInit, HealthInit, CheckTypes, CheckStates, Results
<1>5. HistoryTypes
  BY DEF ServicesInit, HistoryTypes
<1> QED
  BY <1>2, <1>3, <1>4, <1>5, TypesApart

\* A call takes the first failure of its operation, whatever it does then.
LEMMA CallTypes ==
  ASSUME StoreTypes, NEW op \in Ops, NEW r \in Requests, NEW reply, StoreCall(op, r, reply)
  PROVE  StoreTypes' /\ failures' = popFailure(failures, op)
<1>1. CASE op = "reserve"
  <2>1. storeReserve(r, reply)
    BY <1>1 DEF StoreCall
  <2>2. HcmTypeOK' /\ failures' = popFailure(failures, op)
    BY <1>1, <2>1 DEF storeReserve, reserveOrThrow, Refuse, Hold, hcmVars, HcmTypeOK, StoreTypes
  <2> QED  BY <2>2, Popped DEF StoreTypes
<1>2. CASE op = "confirm"
  <2>1. storeConfirm(r, reply)
    BY <1>2 DEF StoreCall
  <2>2. HcmTypeOK' /\ failures' = popFailure(failures, op)
    BY <1>2, <2>1, DaysAreInt DEF storeConfirm, Refuse, hcmVars, HcmHasRow, HcmTypeOK, StoreTypes
  <2> QED  BY <2>2, Popped DEF StoreTypes
<1>3. CASE op = "release"
  <2>1. storeRelease(r, reply)
    BY <1>3 DEF StoreCall
  <2>2. HcmTypeOK' /\ failures' = popFailure(failures, op)
    BY <1>3, <2>1 DEF storeRelease, Refuse, hcmVars, HcmTypeOK, StoreTypes
  <2> QED  BY <2>2, Popped DEF StoreTypes
<1>4. CASE op = "getBalance"
  <2>1. storeGetBalance(BalanceOf[r], reply)
    BY <1>4 DEF StoreCall
  <2>2. HcmTypeOK' /\ failures' = popFailure(failures, op)
    BY <1>4, <2>1 DEF storeGetBalance, Refuse, hcmVars, HcmTypeOK, StoreTypes
  <2> QED  BY <2>2, Popped DEF StoreTypes
<1> QED  BY <1>1, <1>2, <1>3, <1>4 DEF Ops

\* The same for the adapter.
LEMMA MemCallTypes ==
  ASSUME MemTypes, NEW op \in Ops, NEW r \in Requests, NEW reply, MemCall(op, r, reply)
  PROVE  MemTypes' /\ memFailures' = popFailure(memFailures, op)
<1> DEFINE Kept == /\ memTotal' \in [Balances -> Int \cup {NoRow}]
                   /\ memHold' \in [Requests -> {"none", "held", "confirmed"}]
                   /\ memFailures' = popFailure(memFailures, op)
<1>1. CASE op = "reserve"
  <2>1. memReserve(r, reply)
    BY <1>1 DEF MemCall
  <2> QED  BY <1>1, <2>1, Popped DEF memReserve, Throw, MemHold, MemTypes
<1>2. CASE op = "confirm"
  <2>1. memConfirm(r, reply)
    BY <1>2 DEF MemCall
  <2>2. Kept
    BY <1>2, <2>1, DaysAreInt DEF memConfirm, Throw, MemHasRow, MemTypes
  <2> QED  BY <2>2, Popped DEF MemTypes
<1>3. CASE op = "release"
  <2>1. memRelease(r, reply)
    BY <1>3 DEF MemCall
  <2> QED  BY <1>3, <2>1, Popped DEF memRelease, Throw, MemTypes
<1>4. CASE op = "getBalance"
  <2>1. memGetBalance(BalanceOf[r], reply)
    BY <1>4 DEF MemCall
  <2> QED  BY <1>4, <2>1, Popped DEF memGetBalance, Throw, MemTypes
<1> QED  BY <1>1, <1>2, <1>3, <1>4 DEF Ops

\* A step of a readiness call keeps the types and changes the mock's failures at most.
LEMMA ProbeTypesKept ==
  ASSUME CheckTypes, StoreTypes, NEW q \in Probes, ProbeStep(q)
  PROVE  CheckTypes' /\ StoreTypes' /\ UNCHANGED hcmVars
         /\ (failures' = failures \/ failures' = popFailure(failures, "getBalance"))
<1>1. ASSUME UNCHANGED storeVars
      PROVE  StoreTypes' /\ UNCHANGED hcmVars /\ failures' = failures
  BY <1>1 DEF storeVars, hcmVars, StoreTypes, HcmTypeOK
<1> USE DEF CheckTypes, CheckStates, Results
<1>2. CASE readiness(q)
  BY <1>1, <1>2 DEF readiness, Active
<1>3. CASE ping(q)
  BY <1>1, <1>3 DEF ping
<1>4. CASE pong(q)
  BY <1>1, <1>4 DEF pong
<1>5. CASE timeout(q)
  BY <1>1, <1>5 DEF timeout
<1>6. CASE checkDb(q)
  BY <1>1, <1>6 DEF checkDb
<1>7. CASE checkHcm(q)
  <2>1. CheckTypes'
    BY <1>7 DEF checkHcm
  <2>2. UNCHANGED hcmVars /\ (failures' = failures \/ failures' = popFailure(failures, "getBalance"))
    BY <1>7 DEF checkHcm
  <2>3. StoreTypes'
    BY <2>2, Popped DEF StoreTypes, HcmTypeOK, hcmVars
  <2> QED  BY <2>1, <2>2, <2>3
<1>8. CASE report(q)
  BY <1>1, <1>8 DEF report
<1> QED  BY <1>2, <1>3, <1>4, <1>5, <1>6, <1>7, <1>8 DEF ProbeStep

\* A step of the Redis client or of Redis keeps the types.
LEMMA ClientTypesKept ==
  ASSUME CheckTypes, StoreTypes, ClientStep
  PROVE  CheckTypes' /\ StoreTypes'
<1>1. StoreTypes'
  BY DEF ClientStep, clientConnects, clientLoses, clientRetries, redisComesOrGoes, RedisFrame,
         storeVars, hcmVars, StoreTypes, HcmTypeOK
<1> USE DEF CheckTypes, CheckStates, Results, RedisFrame, Settled
<1>2. CASE clientConnects
  BY <1>1, <1>2 DEF clientConnects
<1>3. CASE clientLoses
  BY <1>1, <1>3 DEF clientLoses
<1>4. CASE clientRetries
  BY <1>1, <1>4 DEF clientRetries
<1>5. CASE redisComesOrGoes
  BY <1>1, <1>5 DEF redisComesOrGoes
<1> QED  BY <1>1, <1>2, <1>3, <1>4, <1>5 DEF ClientStep

\* Seeding both keeps the types.
LEMMA SeedTypes ==
  ASSUME StoreTypes, MemTypes, NEW b \in Balances, NEW t \in Totals, seedBoth(b, t)
  PROVE  StoreTypes' /\ MemTypes'
<1>1. t \in Int
  BY ServicesAssumption
<1> QED
  BY <1>1 DEF seedBoth, storeSeed, HcmSeed, memSeed, StoreTypes, MemTypes, HcmTypeOK

\* So does emptying both ...
LEMMA ResetTypes ==
  ASSUME StoreTypes, MemTypes, resetBoth
  PROVE  StoreTypes' /\ MemTypes'
<1>1. failures' = <<>> /\ memFailures' = <<>> /\ <<>> \in Queues
  BY DEF resetBoth, storeReset, memReset, Queues
<1> QED
  BY <1>1 DEF resetBoth, storeReset, HcmReset, memReset, StoreTypes, MemTypes, HcmTypeOK

\* ... and injecting a failure.
LEMMA InjectTypes ==
  ASSUME StoreTypes, MemTypes, NEW spec \in FailureSpecs, injectBoth(spec)
  PROVE  StoreTypes' /\ MemTypes'
<1>1. /\ UNCHANGED <<hcmVars, memTotal, memHold>>
      /\ failures' = Append(failures, spec) /\ memFailures' = Append(memFailures, spec)
  BY DEF injectBoth, injectFailure, memInjectFailure
<1>2. failures' \in Queues /\ memFailures' \in Queues
  BY <1>1, AppendProperties DEF StoreTypes, MemTypes, Queues
<1> QED
  BY <1>1, <1>2 DEF hcmVars, StoreTypes, MemTypes, HcmTypeOK

\* Every step keeps the types.
LEMMA ServicesTypesNext == ServicesTypeOK /\ [ServicesNext]_serviceVars => ServicesTypeOK'
<1> SUFFICES ASSUME ServicesTypeOK, [ServicesNext]_serviceVars PROVE ServicesTypeOK'
  OBVIOUS
<1>0. StoreTypes /\ MemTypes /\ CheckTypes /\ HistoryTypes
  BY TypesApart
<1>1. (StoreTypes /\ MemTypes /\ CheckTypes /\ HistoryTypes)' => ServicesTypeOK'
  BY TypesApart, PTL
<1>2. UNCHANGED healthVars => CheckTypes'
  BY <1>0 DEF CheckTypes, healthVars, checkVars
<1>3. UNCHANGED memVars => MemTypes'
  BY <1>0 DEF MemTypes, memVars
<1>4. ASSUME NEW op \in Ops, NEW r \in Requests, callBoth(op, r)
      PROVE  ServicesTypeOK'
  <2>1. PICK x : StoreCall(op, r, x)
    BY <1>4 DEF callBoth
  <2>2. PICK y : MemCall(op, r, y)
    BY <1>4 DEF callBoth
  <2>3. StoreTypes' /\ MemTypes'
    BY <1>0, <2>1, <2>2, CallTypes, MemCallTypes
  <2>4. CheckTypes' /\ HistoryTypes'
    BY <1>0, <1>2, <1>4 DEF callBoth, HistoryTypes
  <2> QED  BY <1>1, <2>3, <2>4
<1>5. ASSUME NEW b \in Balances, NEW t \in Totals, seedBoth(b, t)
      PROVE  ServicesTypeOK'
  <2>1. CheckTypes' /\ HistoryTypes'
    BY <1>0, <1>2, <1>5 DEF seedBoth, HistoryTypes
  <2> QED  BY <1>0, <1>1, <1>5, <2>1, SeedTypes
<1>6. CASE resetBoth
  <2>1. CheckTypes' /\ HistoryTypes'
    BY <1>0, <1>2, <1>6 DEF resetBoth, HistoryTypes
  <2> QED  BY <1>0, <1>1, <1>6, <2>1, ResetTypes
<1>7. ASSUME NEW spec \in FailureSpecs, injectBoth(spec)
      PROVE  ServicesTypeOK'
  <2>1. CheckTypes' /\ HistoryTypes'
    BY <1>0, <1>2, <1>7 DEF injectBoth, HistoryTypes
  <2> QED  BY <1>0, <1>1, <1>7, <2>1, InjectTypes
<1>8. ASSUME NEW p \in Probes, probeStep(p)
      PROVE  ServicesTypeOK'
  <2>1. CheckTypes' /\ StoreTypes'
    BY <1>0, <1>8, ProbeTypesKept DEF probeStep
  <2>2. MemTypes' /\ HistoryTypes'
    BY <1>0, <1>3, <1>8 DEF probeStep, HistoryTypes
  <2> QED  BY <1>1, <2>1, <2>2
<1>9. CASE clientStep
  <2>1. CheckTypes' /\ StoreTypes'
    BY <1>0, <1>9, ClientTypesKept DEF clientStep
  <2>2. MemTypes' /\ HistoryTypes'
    BY <1>0, <1>3, <1>9 DEF clientStep, HistoryTypes
  <2> QED  BY <1>1, <2>1, <2>2
<1>10. CASE UNCHANGED serviceVars
  <2>1. CheckTypes' /\ MemTypes' /\ HistoryTypes'
    BY <1>0, <1>2, <1>3, <1>10 DEF serviceVars, HistoryTypes
  <2>2. StoreTypes'
    BY <1>0, <1>10 DEF serviceVars, storeVars, hcmVars, StoreTypes, HcmTypeOK
  <2> QED  BY <1>1, <2>1, <2>2
<1> QED  BY <1>4, <1>5, <1>6, <1>7, <1>8, <1>9, <1>10 DEF ServicesNext

\* Whatever calls, failures, seeds, resets and readiness calls there are, every variable stays
\* in its type and no check of a readiness call throws (hcm.store.ts, hcm-in-memory.adapter.ts,
\* health.controller.ts).
THEOREM ServicesTypeCorrect == ServicesSpec => []ServicesTypeOK
BY ServicesTypesInit, ServicesTypesNext, PTL DEF ServicesSpec

(***************************************************************************)
(* The adapter is a twin of the mock                                       *)
(***************************************************************************)
\* The requests the mock knows.
Known == {r \in Requests : hold[r] # "none"}

\* Unless the mock has gone astray the two keep the same, and what is held has a row.
SameStores ==
  /\ memTotal = hcmTotal /\ memHold = hold
  /\ \A r \in Requests : hold[r] # "none" => HcmHasRow(BalanceOf[r])

SameQueues == \A op \in Ops : (op = "getBalance" /\ eaten) \/ InStep(failures, memFailures, op)

TwinInv == ServicesTypeOK /\ IsFiniteSet(Known) /\ (~astray => SameStores) /\ SameQueues

\* Two empty queues are in step.
LEMMA EmptyInStep == \A op : InStep(<<>>, <<>>, op)
<1> SUFFICES ASSUME NEW op PROVE InStep(<<>>, <<>>, op)
  OBVIOUS
<1>1. Positions(<<>>, op) = {}
  BY DEF Positions
<1>2. Matches({}, <<>>, <<>>, op)
  BY <1>1 DEF Matches
<1> QED  BY <1>2, InStepIsMatch

\* The two start out the same.
LEMMA TwinInvInit == ServicesInit => TwinInv
<1> SUFFICES ASSUME ServicesInit PROVE TwinInv
  OBVIOUS
<1>1. ServicesTypeOK
  BY ServicesTypesInit
<1>2. Known = {} /\ IsFiniteSet(Known)
  BY FS_EmptySet DEF ServicesInit, StoreInit, HcmInit, Known
<1>3. SameStores
  BY <1>2 DEF ServicesInit, MemInit, SameStores, Known
<1>4. SameQueues
  BY EmptyInStep DEF ServicesInit, StoreInit, MemInit, SameQueues
<1> QED  BY <1>1, <1>2, <1>3, <1>4 DEF TwinInv

\* What strikes is one of the kinds, or nothing.
LEMMA StruckKinds ==
  ASSUME NEW queue \in Queues, NEW op
  PROVE  Struck(queue, op) \in Kinds \cup {"none"}
<1> DEFINE i == findFailure(queue, op)
<1>1. i = 0 \/ i \in 1..Len(queue)
  BY Found DEF IsFirst, Positions
<1>2. \A k \in 1..Len(queue) : queue[k].kind \in Kinds
  <2>1. \A k \in 1..Len(queue) : queue[k] \in FailureSpecs
    BY ElementOfSeq DEF Queues
  <2>2. \A spec \in FailureSpecs : spec.kind \in Kinds
    BY DEF FailureSpecs
  <2> QED  BY <2>1, <2>2
<1>3. Struck(queue, op) = IF i = 0 THEN "none" ELSE queue[i].kind
  BY DEF Struck
<1> HIDE DEF i
<1> QED  BY <1>1, <1>2, <1>3

\* What is available is the same for both, and a number.
LEMMA SameAvailable ==
  ASSUME TwinInv, ~astray, NEW b \in Balances, HcmHasRow(b)
  PROVE  MemHasRow(b) /\ MemAvailable(b) = HcmAvailable(b) /\ HcmAvailable(b) \in Int
<1> DEFINE H == {r \in Requests : hold[r] = "held" /\ BalanceOf[r] = b}
<1>1. memTotal = hcmTotal /\ memHold = hold /\ hcmTotal[b] \in Int
  BY DEF TwinInv, SameStores, ServicesTypeOK, HcmTypeOK, HcmHasRow
<1>2. IsFiniteSet(H)
  <2>1. H \subseteq Known
    BY DEF Known
  <2> QED  BY <2>1, FS_Subset DEF TwinInv
<1>3. SumOf(DaysOf, H) \in Int
  <2>1. \A r \in H : DaysOf[r] \in Int
    BY DaysAreInt
  <2> HIDE DEF H
  <2> QED  BY <1>2, <2>1, SumInt
<1>4. HcmAvailable(b) = hcmTotal[b] - SumOf(DaysOf, H)
  BY DEF HcmAvailable, SumOf
<1>5. MemAvailable(b) = memTotal[b] - SumOf(DaysOf, {r \in Requests : memHold[r] = "held" /\ BalanceOf[r] = b})
  BY DEF MemAvailable, SumOf
<1>6. {r \in Requests : memHold[r] = "held" /\ BalanceOf[r] = b} = H
  BY <1>1
<1>7. MemHasRow(b)
  BY <1>1 DEF MemHasRow, HcmHasRow
<1> HIDE DEF H
<1> QED  BY <1>1, <1>3, <1>4, <1>5, <1>6, <1>7

\* The same failure strikes both.
LEMMA SameStruck ==
  ASSUME TwinInv, NEW op \in Ops, op = "getBalance" => ~eaten
  PROVE  Struck(memFailures, op) = Struck(failures, op)
BY PopSame DEF TwinInv, SameQueues, ServicesTypeOK, Queues

\* A call changes one hold at most.
LEMMA KnownFinite ==
  ASSUME TwinInv, NEW op \in Ops, NEW r \in Requests, NEW x, StoreCall(op, r, x)
  PROVE  IsFiniteSet(Known')
<1>1. \A s \in Requests : s # r => hold'[s] = hold[s]
  BY DEF TwinInv, ServicesTypeOK, HcmTypeOK, StoreCall, Ops, storeReserve, reserveOrThrow, Hold,
         Refuse, storeConfirm, storeRelease, storeGetBalance, hcmVars
<1>2. Known' \subseteq Known \cup {r}
  BY <1>1 DEF Known
<1>3. IsFiniteSet(Known \cup {r})
  BY FS_AddElement DEF TwinInv
<1> QED  BY <1>2, <1>3, FS_Subset

\* A reservation: the two part only over a balance without a row.
LEMMA SameReserve ==
  ASSUME TwinInv, ~astray, NEW r \in Requests, NEW x, NEW y,
         storeReserve(r, x), memReserve(r, y)
  PROVE  /\ ~SilentlyAccepts("reserve", r) => SameStores'
         /\ HcmHasRow(BalanceOf[r]) => x = y
<1> DEFINE b == BalanceOf[r]
           kind == Struck(failures, "reserve")
           D == DaysOf[r]
<1>1. b \in Balances /\ D \in Nat
  BY DaysAreInt
<1>2. Struck(memFailures, "reserve") = kind
  BY SameStruck DEF Ops
<1>3. kind \in Kinds \cup {"none"}
  BY StruckKinds DEF TwinInv, ServicesTypeOK, Queues
<1>4. SameStores /\ hold \in [Requests -> {"none", "held", "confirmed"}]
  BY DEF TwinInv, ServicesTypeOK, HcmTypeOK
<1>5. /\ MemHasRow(b) <=> HcmHasRow(b)
      /\ HcmHasRow(b) => MemAvailable(b) = HcmAvailable(b) /\ HcmAvailable(b) \in Int
  <2>1. MemHasRow(b) <=> HcmHasRow(b)
    BY <1>4 DEF SameStores, MemHasRow, HcmHasRow
  <2> QED  BY <1>1, <2>1, SameAvailable
<1>6. CASE x = y /\ UNCHANGED <<hcmTotal, hold, memTotal, memHold>>
  BY <1>4, <1>6 DEF SameStores, HcmHasRow
<1>7. CASE /\ x = y /\ HcmHasRow(b) /\ UNCHANGED <<hcmTotal, memTotal>>
           /\ hold' = [hold EXCEPT ![r] = "held"] /\ memHold' = [memHold EXCEPT ![r] = "held"]
  BY <1>4, <1>7 DEF SameStores, HcmHasRow
<1>8. CASE ~HcmHasRow(b) /\ UNCHANGED <<hcmTotal, hold, memTotal, memHold>>
  BY <1>4, <1>8 DEF SameStores, HcmHasRow
<1>9. CASE ~HcmHasRow(b) /\ kind = "silent_accept"
  BY <1>9 DEF SilentlyAccepts
<1> HIDE DEF b, kind, D
<1>10. CASE kind = "unavailable"
  BY <1>2, <1>6, <1>10 DEF storeReserve, memReserve, Refuse, Throw, hcmVars, kind
<1>11. CASE kind = "invalid"
  BY <1>2, <1>6, <1>11 DEF storeReserve, memReserve, Refuse, Throw, hcmVars, kind
<1>12. CASE kind = "silent_accept"
  BY <1>2, <1>5, <1>7, <1>9, <1>12 DEF storeReserve, memReserve, Hold, MemHold, Throw, kind, b
<1>13. CASE kind = "insufficient"
  BY <1>2, <1>5, <1>6, <1>8, <1>13 DEF storeReserve, memReserve, Refuse, Throw, hcmVars, kind, b
<1>14. CASE kind = "none"
  <2>1. reserveOrThrow(r, x)
    BY <1>14 DEF storeReserve, kind
  <2>2. \/ ~MemHasRow(b) /\ Throw(y, "INVALID_DIMENSION")
        \/ MemHasRow(b) /\ D > MemAvailable(b) /\ Throw(y, "INSUFFICIENT_BALANCE")
        \/ MemHasRow(b) /\ ~(D > MemAvailable(b)) /\ MemHold(r, y)
    BY <1>2, <1>14 DEF memReserve, kind, b, D
  <2>3. CASE ~HcmHasRow(b)
    BY <1>5, <1>8, <2>1, <2>2, <2>3 DEF reserveOrThrow, Refuse, Throw, hcmVars, b
  <2>4. CASE HcmHasRow(b) /\ D > HcmAvailable(b)
    BY <1>1, <1>5, <1>6, <2>1, <2>2, <2>4 DEF reserveOrThrow, Refuse, Throw, hcmVars, b, D
  <2>5. CASE HcmHasRow(b) /\ ~(D > HcmAvailable(b))
    BY <1>1, <1>5, <1>7, <2>1, <2>2, <2>5 DEF reserveOrThrow, Hold, MemHold, hcmVars, b, D
  <2> QED  BY <2>3, <2>4, <2>5
<1> QED
  BY <1>3, <1>10, <1>11, <1>12, <1>13, <1>14 DEF Kinds

\* A confirmation: what is held has a row, so neither ends in an error of the store.
LEMMA SameConfirm ==
  ASSUME TwinInv, ~astray, NEW r \in Requests, NEW x, NEW y,
         storeConfirm(r, x), memConfirm(r, y)
  PROVE  SameStores' /\ x = y
<1>1. BalanceOf[r] \in Balances /\ \A t \in Int : t - DaysOf[r] \in Int /\ t - DaysOf[r] # NoRow
  BY DaysAreInt
<1>2. Struck(memFailures, "confirm") = Struck(failures, "confirm")
  BY SameStruck DEF Ops
<1>3. SameStores /\ HcmTypeOK
  BY DEF TwinInv, ServicesTypeOK
<1>4. MemHasRow(BalanceOf[r]) <=> HcmHasRow(BalanceOf[r])
  BY <1>3 DEF SameStores, MemHasRow, HcmHasRow
<1>5. CASE x = y /\ UNCHANGED <<hcmTotal, hold, memTotal, memHold>>
  BY <1>3, <1>5 DEF SameStores, HcmHasRow
<1>6. CASE Struck(failures, "confirm") = "unavailable"
  BY <1>2, <1>5, <1>6 DEF storeConfirm, memConfirm, Refuse, Throw, hcmVars
<1>7. CASE Struck(failures, "confirm") # "unavailable" /\ hold[r] = "none"
  BY <1>2, <1>3, <1>5, <1>7 DEF storeConfirm, memConfirm, Refuse, Throw, hcmVars, SameStores
<1>8. CASE Struck(failures, "confirm") # "unavailable" /\ hold[r] # "none"
  <2>1. HcmHasRow(BalanceOf[r]) /\ MemHasRow(BalanceOf[r]) /\ memHold[r] # "none"
    BY <1>3, <1>4, <1>8 DEF SameStores
  <2>2. /\ x = "ok" /\ hold' = [hold EXCEPT ![r] = "confirmed"]
        /\ hcmTotal' = [hcmTotal EXCEPT ![BalanceOf[r]] = @ - DaysOf[r]]
    BY <1>8, <2>1 DEF storeConfirm
  <2>3. /\ y = "ok" /\ memHold' = [memHold EXCEPT ![r] = "confirmed"]
        /\ memTotal' = [memTotal EXCEPT ![BalanceOf[r]] = @ - DaysOf[r]]
    BY <1>2, <1>8, <2>1 DEF memConfirm
  <2>4. \A b \in Balances : HcmHasRow(b) => hcmTotal'[b] # NoRow
    BY <1>1, <1>3, <2>2 DEF HcmTypeOK, HcmHasRow
  <2>5. \A s \in Requests : hold'[s] # "none" => HcmHasRow(BalanceOf[s])
    BY <1>3, <2>1, <2>2 DEF SameStores, HcmTypeOK
  <2>6. \A s \in Requests : BalanceOf[s] \in Balances
    BY DaysAreInt
  <2> QED  BY <1>3, <2>2, <2>3, <2>4, <2>5, <2>6 DEF SameStores, HcmHasRow
<1> QED  BY <1>6, <1>7, <1>8

\* A release.
LEMMA SameRelease ==
  ASSUME TwinInv, ~astray, NEW r \in Requests, NEW x, NEW y,
         storeRelease(r, x), memRelease(r, y)
  PROVE  SameStores' /\ x = y
<1>1. Struck(memFailures, "release") = Struck(failures, "release")
  BY SameStruck DEF Ops
<1>2. SameStores /\ HcmTypeOK
  BY DEF TwinInv, ServicesTypeOK
<1>3. CASE Struck(failures, "release") = "unavailable"
  BY <1>1, <1>2, <1>3 DEF storeRelease, memRelease, Refuse, Throw, hcmVars, SameStores, HcmHasRow
<1>4. CASE Struck(failures, "release") # "unavailable"
  BY <1>1, <1>2, <1>4
     DEF storeRelease, memRelease, Refuse, Throw, hcmVars, SameStores, HcmHasRow, HcmTypeOK
<1> QED  BY <1>3, <1>4

\* A read.
LEMMA SameGetBalance ==
  ASSUME TwinInv, ~astray, NEW r \in Requests, NEW x, NEW y,
         storeGetBalance(BalanceOf[r], x), memGetBalance(BalanceOf[r], y)
  PROVE  SameStores' /\ (~eaten => x = y)
<1>1. SameStores
  BY DEF TwinInv
<1>2. MemHasRow(BalanceOf[r]) <=> HcmHasRow(BalanceOf[r])
  BY <1>1 DEF SameStores, MemHasRow, HcmHasRow
<1>3. SameStores'
  BY <1>1 DEF storeGetBalance, memGetBalance, Refuse, Throw, hcmVars, SameStores, HcmHasRow
<1>4. ASSUME ~eaten PROVE x = y
  <2>1. Struck(memFailures, "getBalance") = Struck(failures, "getBalance")
    BY <1>4, SameStruck DEF Ops
  <2> QED  BY <1>2, <2>1 DEF storeGetBalance, memGetBalance, Refuse, Throw
<1> QED  BY <1>3, <1>4

\* A call of both.
LEMMA SameCall ==
  ASSUME TwinInv, ~astray, NEW op \in Ops, NEW r \in Requests, NEW x, NEW y,
         StoreCall(op, r, x), MemCall(op, r, y)
  PROVE  /\ ~SilentlyAccepts(op, r) => SameStores'
         /\ (op = "getBalance" => ~eaten) => x = y \/ (op = "reserve" /\ ~HcmHasRow(BalanceOf[r]))
<1>1. CASE op = "reserve"
  <2>1. storeReserve(r, x) /\ memReserve(r, y)
    BY <1>1 DEF StoreCall, MemCall
  <2> QED  BY <1>1, <2>1, SameReserve
<1>2. CASE op = "confirm"
  <2>1. storeConfirm(r, x) /\ memConfirm(r, y)
    BY <1>2 DEF StoreCall, MemCall
  <2> QED  BY <1>2, <2>1, SameConfirm
<1>3. CASE op = "release"
  <2>1. storeRelease(r, x) /\ memRelease(r, y)
    BY <1>3 DEF StoreCall, MemCall
  <2> QED  BY <1>3, <2>1, SameRelease
<1>4. CASE op = "getBalance"
  <2>1. storeGetBalance(BalanceOf[r], x) /\ memGetBalance(BalanceOf[r], y)
    BY <1>4 DEF StoreCall, MemCall
  <2> QED  BY <1>4, <2>1, SameGetBalance
<1> QED  BY <1>1, <1>2, <1>3, <1>4 DEF Ops

\* Every step keeps the invariant.
LEMMA TwinInvNext == TwinInv /\ [ServicesNext]_serviceVars => TwinInv'
<1> SUFFICES ASSUME TwinInv, [ServicesNext]_serviceVars PROVE TwinInv'
  OBVIOUS
<1>0. /\ ServicesTypeOK /\ IsFiniteSet(Known) /\ (~astray => SameStores) /\ SameQueues
      /\ failures \in Queues /\ memFailures \in Queues
  BY TypesApart DEF TwinInv, StoreTypes, MemTypes
<1>1. ServicesTypeOK'
  BY <1>0, ServicesTypesNext
<1>2. ASSUME UNCHANGED <<hcmTotal, hold, memTotal, memHold>>, astray' = astray
      PROVE  IsFiniteSet(Known') /\ (~astray' => SameStores')
  <2>1. Known' = Known
    BY <1>2 DEF Known
  <2>2. SameStores => SameStores'
    BY <1>2 DEF SameStores, HcmHasRow
  <2> QED  BY <1>0, <1>2, <2>1, <2>2
<1>3. ASSUME UNCHANGED <<failures, memFailures, eaten>>
      PROVE  SameQueues'
  BY <1>0, <1>3 DEF SameQueues
<1>4. ASSUME NEW op \in Ops, NEW r \in Requests, callBoth(op, r)
      PROVE  TwinInv'
  <2>1. PICK x : StoreCall(op, r, x)
    BY <1>4 DEF callBoth
  <2>2. PICK y : MemCall(op, r, y)
    BY <1>4 DEF callBoth
  <2>3. eaten' = eaten /\ astray' = (astray \/ SilentlyAccepts(op, r))
    BY <1>4 DEF callBoth
  <2>4. ~astray' => SameStores'
    BY <2>1, <2>2, <2>3, SameCall
  <2>5. IsFiniteSet(Known')
    BY <2>1, KnownFinite
  <2>6. SameQueues'
    <3>1. failures' = popFailure(failures, op) /\ memFailures' = popFailure(memFailures, op)
      BY <1>0, <2>1, <2>2, CallTypes, MemCallTypes, TypesApart
    <3> QED  BY <1>0, <2>3, <3>1, PopBoth DEF SameQueues
  <2> QED  BY <1>1, <2>4, <2>5, <2>6 DEF TwinInv
<1>5. ASSUME NEW b \in Balances, NEW t \in Totals, seedBoth(b, t)
      PROVE  TwinInv'
  <2>1. /\ hcmTotal' = [hcmTotal EXCEPT ![b] = t] /\ memTotal' = [memTotal EXCEPT ![b] = t]
        /\ UNCHANGED <<hold, memHold, failures, memFailures, astray, eaten>>
    BY <1>5 DEF seedBoth, storeSeed, HcmSeed, memSeed
  <2>2. t # NoRow /\ \A r \in Requests : BalanceOf[r] \in Balances
    BY DaysAreInt, ServicesAssumption
  <2>3. SameStores => SameStores'
    BY <1>0, <2>1, <2>2 DEF SameStores, HcmHasRow, ServicesTypeOK, HcmTypeOK
  <2>4. Known' = Known
    BY <2>1 DEF Known
  <2> QED  BY <1>0, <1>1, <1>3, <2>1, <2>3, <2>4 DEF TwinInv
<1>6. CASE resetBoth
  <2>1. /\ hcmTotal' = memTotal' /\ hold' = [r \in Requests |-> "none"] /\ memHold' = hold'
        /\ failures' = <<>> /\ memFailures' = <<>>
    BY <1>6 DEF resetBoth, storeReset, HcmReset, memReset
  <2>2. Known' = {} /\ IsFiniteSet(Known')
    BY <2>1, FS_EmptySet DEF Known
  <2>3. SameStores'
    BY <2>1 DEF SameStores
  <2>4. SameQueues'
    BY <2>1, EmptyInStep DEF SameQueues
  <2> QED  BY <1>1, <2>2, <2>3, <2>4 DEF TwinInv
<1>7. ASSUME NEW spec \in FailureSpecs, injectBoth(spec)
      PROVE  TwinInv'
  <2>1. /\ UNCHANGED <<hcmTotal, hold, memTotal, memHold, astray, eaten>>
        /\ failures' = Append(failures, spec) /\ memFailures' = Append(memFailures, spec)
    BY <1>7 DEF injectBoth, injectFailure, memInjectFailure, hcmVars
  <2>2. SameQueues'
    BY <1>0, <2>1, AppendBoth DEF SameQueues
  <2> QED  BY <1>1, <1>2, <2>1, <2>2 DEF TwinInv
<1>8. ASSUME NEW p \in Probes, probeStep(p)
      PROVE  TwinInv'
  <2>1. /\ UNCHANGED hcmVars
        /\ failures' = failures \/ failures' = popFailure(failures, "getBalance")
    BY <1>0, <1>8, ProbeTypesKept, TypesApart DEF probeStep
  <2>2. /\ UNCHANGED <<hcmTotal, hold, memTotal, memHold, memFailures, astray>>
        /\ eaten' = (eaten \/ failures' # failures)
    BY <1>8, <2>1 DEF probeStep, hcmVars, memVars
  <2>3. ASSUME NEW op \in Ops, ~(op = "getBalance" /\ eaten')
        PROVE  InStep(failures', memFailures', op)
    <3>1. CASE failures' = failures
      BY <1>0, <2>2, <2>3, <3>1 DEF SameQueues
    <3>2. CASE failures' # failures
      <4>1. op # "getBalance" /\ failures' = popFailure(failures, "getBalance")
        BY <2>1, <2>2, <2>3, <3>2
      <4> QED  BY <1>0, <2>2, <4>1, PopOther DEF SameQueues
    <3> QED  BY <3>1, <3>2
  <2>4. SameQueues'
    BY <2>3 DEF SameQueues
  <2> QED  BY <1>1, <1>2, <2>2, <2>4 DEF TwinInv
<1>9. CASE clientStep
  <2>1. UNCHANGED <<hcmTotal, hold, failures, memTotal, memHold, memFailures, astray, eaten>>
    BY <1>9 DEF clientStep, ClientStep, clientConnects, clientLoses, clientRetries,
                redisComesOrGoes, RedisFrame, storeVars, hcmVars, memVars
  <2> QED  BY <1>1, <1>2, <1>3, <2>1 DEF TwinInv
<1>10. CASE UNCHANGED serviceVars
  BY <1>1, <1>2, <1>3, <1>10 DEF TwinInv, serviceVars, storeVars, hcmVars, memVars
<1> QED  BY <1>4, <1>5, <1>6, <1>7, <1>8, <1>9, <1>10 DEF ServicesNext

\* So the invariant always holds.
LEMMA TwinInvInvariant == ServicesSpec => []TwinInv
BY TwinInvInit, TwinInvNext, PTL DEF ServicesSpec

\* However calls, failures, seeds and resets are mixed, for any number of requests, balances and
\* queued failures, the adapter keeps the totals, the holds and the failures to come of the mock,
\* up to the two differences TwinsAgree names (hcm-in-memory.adapter.ts against hcm.service.ts).
THEOREM TwinsAlwaysAgree == ServicesSpec => []TwinsAgree
<1>1. TwinInv => TwinsAgree
  BY DEF TwinInv, SameStores, SameQueues, TwinsAgree
<1> QED  BY <1>1, TwinInvInvariant, PTL

\* The adapter gives every call the mock's answer, but for a reservation on a balance without a
\* row, any call after such a reservation was silently accepted (astray), and getBalance once a
\* readiness call has used up one of its failures (eaten), until a reset.
THEOREM TwinsAnswerAlike == ServicesSpec => SameAnswers
<1> DEFINE Alike == \A op \in Ops, r \in Requests, x \in Replies :
             StoreCall(op, r, x) /\ ~astray /\ (op = "getBalance" => ~eaten) =>
               \A y \in MemReplies :
                 MemCall(op, r, y) => x = y \/ (op = "reserve" /\ ~HcmHasRow(BalanceOf[r]))
<1>1. TwinInv => Alike
  BY SameCall
<1>2. TwinInv => [UNCHANGED healthVars => Alike]_serviceVars
  BY <1>1
<1> QED  BY <1>2, TwinInvInvariant, PTL DEF SameAnswers
=============================================================================
