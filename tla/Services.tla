------------------------------- MODULE Services -------------------------------
(***************************************************************************)
(* What surrounds the API: the hcm-mock application, the adapter that      *)
(* stands in for it in tests, given the same calls, and the readiness      *)
(* check, which asks the mock but not the adapter.                         *)
(***************************************************************************)
EXTENDS HcmInMemory, Health

CONSTANTS
  Exhausted,    \* bound: totals from which nothing is confirmed
  Totals,       \* totals a balance is seeded with
  Scopes        \* bound: [calls, failures, queued, probes], what happens together

ASSUME ServicesAssumption == Totals \subseteq Int

VARIABLES
  scope,
  astray,  \* history: the mock has accepted a reservation on a balance it does not have
  eaten    \* history: a readiness check has used up an injected failure

serviceVars == <<storeVars, memVars, healthVars, scope, astray, eaten>>

ServicesInit ==
  /\ StoreInit({NoRow})
  /\ MemInit
  /\ HealthInit
  /\ scope \in Scopes
  /\ astray = FALSE
  /\ eaten = FALSE

\* A call for a request, and what the mock and the adapter answer.
StoreCall(op, r, reply) ==
  CASE op = "reserve"    -> storeReserve(r, reply)
    [] op = "confirm"    -> storeConfirm(r, reply)
    [] op = "release"    -> storeRelease(r, reply)
    [] op = "getBalance" -> storeGetBalance(BalanceOf[r], reply)

MemCall(op, r, reply) ==
  CASE op = "reserve"    -> memReserve(r, reply)
    [] op = "confirm"    -> memConfirm(r, reply)
    [] op = "release"    -> memRelease(r, reply)
    [] op = "getBalance" -> memGetBalance(BalanceOf[r], reply)

SilentlyAccepts(op, r) ==
  op = "reserve" /\ Struck(failures, op) = "silent_accept" /\ ~HcmHasRow(BalanceOf[r])

callBoth(op, r) ==
  /\ op \in scope.calls
  /\ op = "confirm" => {hcmTotal[BalanceOf[r]], memTotal[BalanceOf[r]]} \cap Exhausted = {}
  /\ \E reply \in Replies : StoreCall(op, r, reply)
  /\ \E reply \in MemReplies : MemCall(op, r, reply)
  /\ astray' = (astray \/ SilentlyAccepts(op, r))
  /\ UNCHANGED <<healthVars, scope, eaten>>

seedBoth(b, t) ==
  /\ scope.calls # {}
  /\ storeSeed(b, t) /\ memSeed(b, t)
  /\ UNCHANGED <<healthVars, scope, astray, eaten>>

resetBoth ==
  /\ scope.calls # {}
  /\ storeReset /\ memReset
  /\ astray' = FALSE /\ eaten' = FALSE
  /\ UNCHANGED <<healthVars, scope>>

injectBoth(spec) ==
  /\ spec \in scope.failures
  /\ Len(failures) < scope.queued /\ Len(memFailures) < scope.queued
  /\ injectFailure(spec) /\ memInjectFailure(spec)
  /\ UNCHANGED <<healthVars, scope, astray, eaten>>

probeStep(p) ==
  /\ p \in scope.probes
  /\ ProbeStep(p)
  /\ eaten' = (eaten \/ failures' # failures)
  /\ UNCHANGED <<memVars, scope, astray>>

clientStep ==
  /\ scope.probes # {}
  /\ ClientStep
  /\ UNCHANGED <<memVars, scope, astray, eaten>>

ServicesNext ==
  \/ \E op \in Ops, r \in Requests : callBoth(op, r)
  \/ \E b \in Balances, t \in Totals : seedBoth(b, t)
  \/ resetBoth
  \/ \E spec \in FailureSpecs : injectBoth(spec)
  \/ \E p \in Probes : probeStep(p)
  \/ clientStep

ServicesSpec == ServicesInit /\ [][ServicesNext]_serviceVars

\* The timers run out, the process goes on with what has come in, and the database, which
\* is asked without a timer, is assumed to answer.  Redis owes nothing.
ServicesFairness ==
  \A p \in Probes :
    /\ WF_serviceVars(probeStep(p) /\ timeout(p))
    /\ WF_serviceVars(probeStep(p) /\ checkDb(p))
    /\ WF_serviceVars(probeStep(p) /\ checkHcm(p))
    /\ WF_serviceVars(probeStep(p) /\ report(p))

FairServicesSpec == ServicesSpec /\ ServicesFairness
=============================================================================
