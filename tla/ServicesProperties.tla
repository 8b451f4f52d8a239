-------------------------- MODULE ServicesProperties --------------------------
(***************************************************************************)
(* The correctness properties of HcmStore, HcmInMemory and Health.         *)
(***************************************************************************)
EXTENDS Services

CheckStates == Results \cup {"idle", "asked"}

\* Every variable stays in its type; the three checks of a readiness call are under way
\* together, and none of them throws.
ServicesTypeOK ==
  /\ HcmTypeOK
  /\ failures \in Seq(FailureSpecs)
  /\ memTotal \in [Balances -> Int \cup {NoRow}]
  /\ memHold \in [Requests -> {"none", "held", "confirmed"}]
  /\ memFailures \in Seq(FailureSpecs)
  /\ client \in {"wait", "connecting", "ready", "reconnecting"}
  /\ reach \in BOOLEAN
  /\ db \in [Probes -> CheckStates]
  /\ redis \in [Probes -> Results \cup {"idle", "connect", "ping", "pinging", "late"}]
  /\ hcm \in [Probes -> CheckStates]
  /\ \A p \in Probes : {db[p], redis[p], hcm[p]} = {"idle"} \/ "idle" \notin {db[p], redis[p], hcm[p]}
  /\ steady \in [Probes -> BOOLEAN]
  /\ crossed \in [Probes -> BOOLEAN]
  /\ astray \in BOOLEAN
  /\ eaten \in BOOLEAN

(***************************************************************************)
(* The adapter that stands in for the mock                                 *)
(***************************************************************************)
Positions(queue, op) == {i \in 1..Len(queue) : queue[i].op = op}

\* Two queues hold the same failures of an operation in the same order: they match one to one.
InStep(queue, other, op) ==
  \E match \in SUBSET (Positions(queue, op) \X Positions(other, op)) :
    /\ \A i \in Positions(queue, op) : \E j \in Positions(other, op) : <<i, j>> \in match
    /\ \A j \in Positions(other, op) : \E i \in Positions(queue, op) : <<i, j>> \in match
    /\ \A p, q \in match : p[1] < q[1] <=> p[2] < q[2]
    /\ \A p \in match : queue[p[1]].kind = other[p[2]].kind

\* However calls, injected failures, seeds and resets are mixed, a test that passes with the
\* in-memory adapter has seen the totals, the holds and the failures to come of the mock.
\* The two part only where the mock accepts silently on a balance it does not have, until
\* the next reset, and where a readiness check has used up a failure of getBalance.
TwinsAgree ==
  ~astray =>
    /\ memTotal = hcmTotal
    /\ memHold = hold
    /\ \A op \in Ops :
         (op = "getBalance" /\ eaten) \/ InStep(failures, memFailures, op)

\* The two give the same answer to the same call, but for a reservation on a balance without
\* a row, which an injected failure makes the mock refuse otherwise or accept.  Nothing is said
\* of any call once the mock has accepted one so (astray), nor of getBalance once a readiness
\* call has used up one of the mock's failures (eaten), until both are reset.
SameAnswers ==
  [][UNCHANGED healthVars =>
       \A op \in Ops, r \in Requests, x \in Replies :
         StoreCall(op, r, x) /\ ~astray /\ (op = "getBalance" => ~eaten) =>
           \A y \in MemReplies :
             MemCall(op, r, y) => x = y \/ (op = "reserve" /\ ~HcmHasRow(BalanceOf[r]))]_serviceVars

(***************************************************************************)
(* The mock implements the HCM of the saga                                 *)
(***************************************************************************)
HcmCall(op, r, reply) ==
  CASE op = "reserve"    -> HcmReserve(r, reply)
    [] op = "confirm"    -> HcmConfirm(r, reply)
    [] op = "release"    -> HcmRelease(r, reply)
    [] op = "getBalance" -> HcmGetBalance(BalanceOf[r], reply)

\* Whatever failures are queued, the mock answers and changes its totals and holds as the
\* HCM of the saga's model may, in which any of the faults may strike any call.
StoreImplementsHcm ==
  [][UNCHANGED healthVars =>
       \A op \in Ops, r \in Requests, reply \in Replies :
         StoreCall(op, r, reply) => HcmCall(op, r, reply)]_serviceVars

(***************************************************************************)
(* The readiness check                                                     *)
(***************************************************************************)
\* Redis is not reported down by an error while it could be reached all the time, unless the
\* call came while the client that all calls share was connecting for another one
\* (health.controller.ts:61-65).
DownHasCause ==
  \A p \in Probes : redis[p] = "down" /\ steady[p] => crossed[p]

\* Every readiness call is answered: a Redis that hangs or refuses, an HCM that hangs and
\* calls that share the client keep no other call waiting.
ProbeAnswered ==
  \A p \in Probes : Active(p) ~> ~Active(p)
=============================================================================
