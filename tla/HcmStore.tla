------------------------------- MODULE HcmStore -------------------------------
(***************************************************************************)
(* The hcm-mock application in detail: hcm.service.ts over hcm.store.ts,   *)
(* with the queue of injected failures that HcmMock abstracts to a set of  *)
(* faults.  A failure is consumed by the first call of its operation,      *)
(* whether or not its kind means anything to that operation.               *)
(***************************************************************************)
EXTENDS HcmMock, SequencesExt

VARIABLE failures  \* HcmStore.failures, oldest first

Ops == {"reserve", "confirm", "release", "getBalance"}
Kinds == {"unavailable", "insufficient", "invalid", "silent_accept"}
FailureSpecs == [op : Ops, kind : Kinds]

storeVars == <<hcmVars, failures>>

findFailure(queue, op) == SelectInSeq(queue, LAMBDA f : f.op = op)

\* The kind of failure that strikes the next call of an operation.
Struck(queue, op) ==
  LET i == findFailure(queue, op) IN IF i = 0 THEN "none" ELSE queue[i].kind

popFailure(queue, op) ==
  LET i == findFailure(queue, op) IN IF i = 0 THEN queue ELSE RemoveAt(queue, i)

StoreInit(totals) ==
  /\ HcmInit(totals)
  /\ failures = <<>>

Refuse(reply, code) == reply = code /\ UNCHANGED hcmVars

Hold(r, reply) ==
  /\ reply = "ok"
  /\ hold' = [hold EXCEPT ![r] = "held"]
  /\ UNCHANGED hcmTotal

reserveOrThrow(r, reply) ==
  LET b == BalanceOf[r]
  IN \/ ~HcmHasRow(b) /\ Refuse(reply, "INVALID_DIMENSION")
     \/ HcmHasRow(b) /\ DaysOf[r] > HcmAvailable(b) /\ Refuse(reply, "INSUFFICIENT_BALANCE")
     \/ HcmHasRow(b) /\ DaysOf[r] <= HcmAvailable(b) /\ Hold(r, reply)

storeReserve(r, reply) ==
  LET kind == Struck(failures, "reserve")
  IN /\ failures' = popFailure(failures, "reserve")
     /\ \/ kind = "unavailable" /\ Refuse(reply, "unavailable")
        \/ kind = "invalid" /\ Refuse(reply, "INVALID_DIMENSION")
        \/ kind = "silent_accept" /\ Hold(r, reply)
        \/ kind = "insufficient" /\ Refuse(reply, "INSUFFICIENT_BALANCE")
        \/ kind = "none" /\ reserveOrThrow(r, reply)

\* Mutant: a reservation that is confirmed already is not deducted again.
storeConfirmOnce(r, reply) ==
  /\ failures' = popFailure(failures, "confirm")
  /\ \/ Struck(failures, "confirm") = "unavailable" /\ Refuse(reply, "unavailable")
     \/ /\ Struck(failures, "confirm") # "unavailable"
        /\ \/ hold[r] = "none" /\ Refuse(reply, "NOT_FOUND")
           \/ hold[r] = "confirmed" /\ Refuse(reply, "ok")
           \/ /\ hold[r] = "held" /\ HcmHasRow(BalanceOf[r])
              /\ hold' = [hold EXCEPT ![r] = "confirmed"]
              /\ reply = "ok" /\ hcmTotal' = [hcmTotal EXCEPT ![BalanceOf[r]] = @ - DaysOf[r]]

storeConfirm(r, reply) ==
  LET b == BalanceOf[r]
      deduct == IF HcmHasRow(b) THEN [hcmTotal EXCEPT ![b] = @ - DaysOf[r]] ELSE hcmTotal
  IN /\ failures' = popFailure(failures, "confirm")
     /\ \/ Struck(failures, "confirm") = "unavailable" /\ Refuse(reply, "unavailable")
        \/ /\ Struck(failures, "confirm") # "unavailable"
           /\ hold[r] = "none" /\ Refuse(reply, "NOT_FOUND")
        \/ /\ Struck(failures, "confirm") # "unavailable"
           /\ hold[r] # "none"
           /\ hold' = [hold EXCEPT ![r] = "confirmed"]
           /\ hcmTotal' = deduct
           /\ reply = IF HcmHasRow(b) THEN "ok" ELSE "unavailable"

storeRelease(r, reply) ==
  /\ failures' = popFailure(failures, "release")
  /\ \/ Struck(failures, "release") = "unavailable" /\ Refuse(reply, "unavailable")
     \/ /\ Struck(failures, "release") # "unavailable"
        /\ reply = "ok"
        /\ hold' = [hold EXCEPT ![r] = "none"]
        /\ UNCHANGED hcmTotal

storeGetBalance(b, reply) ==
  /\ failures' = popFailure(failures, "getBalance")
  /\ Refuse(reply, IF Struck(failures, "getBalance") = "unavailable" THEN "unavailable"
                   ELSE IF HcmHasRow(b) THEN "ok" ELSE "NOT_FOUND")

\* The endpoints under _admin.
storeSeed(b, t) == HcmSeed(b, t) /\ UNCHANGED failures

storeReset == HcmReset /\ failures' = <<>>

injectFailure(spec) == failures' = Append(failures, spec) /\ UNCHANGED hcmVars
=============================================================================
