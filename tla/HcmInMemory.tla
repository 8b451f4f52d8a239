----------------------------- MODULE HcmInMemory -----------------------------
(***************************************************************************)
(* HcmInMemoryAdapter, which stands in for the hcm-mock application when   *)
(* the API is tested in one process (hcm-in-memory.adapter.ts).  It keeps  *)
(* totals, reservations and failures of its own.                           *)
(***************************************************************************)
EXTENDS HcmStore

VARIABLES memTotal, memHold, memFailures

memVars == <<memTotal, memHold, memFailures>>

\* A reservation on a balance the adapter does not have ends in an error of the adapter itself.
MemReplies == Replies \cup {"TypeError"}

MemHasRow(b) == memTotal[b] # NoRow

MemAvailable(b) ==
  memTotal[b] - MapThenSumSet(LAMBDA r : DaysOf[r],
                              {r \in Requests : memHold[r] = "held" /\ BalanceOf[r] = b})

MemInit ==
  /\ memTotal = hcmTotal
  /\ memHold = hold
  /\ memFailures = <<>>

Throw(reply, code) == reply = code /\ UNCHANGED <<memTotal, memHold>>

MemHold(r, reply) ==
  /\ reply = "ok"
  /\ memHold' = [memHold EXCEPT ![r] = "held"]
  /\ UNCHANGED memTotal

\* Mutants: an acceptance that records nothing; the sufficiency check before the acceptance.
memReserveForgetful(r, reply) ==
  LET kind == Struck(memFailures, "reserve")
      b == BalanceOf[r]
  IN /\ memFailures' = popFailure(memFailures, "reserve")
     /\ \/ kind = "unavailable" /\ Throw(reply, "unavailable")
        \/ kind = "invalid" /\ Throw(reply, "INVALID_DIMENSION")
        \/ kind \notin {"unavailable", "invalid"} /\ ~MemHasRow(b) /\ Throw(reply, "INVALID_DIMENSION")
        \/ kind = "silent_accept" /\ MemHasRow(b) /\ Throw(reply, "ok")
        \/ kind = "insufficient" /\ MemHasRow(b) /\ Throw(reply, "INSUFFICIENT_BALANCE")
        \/ /\ kind = "none" /\ MemHasRow(b)
           /\ IF DaysOf[r] > MemAvailable(b) THEN Throw(reply, "INSUFFICIENT_BALANCE")
              ELSE MemHold(r, reply)

memReserveStrict(r, reply) ==
  LET kind == Struck(memFailures, "reserve")
      b == BalanceOf[r]
      refused == DaysOf[r] > MemAvailable(b) \/ kind = "insufficient"
  IN /\ memFailures' = popFailure(memFailures, "reserve")
     /\ \/ kind = "unavailable" /\ Throw(reply, "unavailable")
        \/ kind = "invalid" /\ Throw(reply, "INVALID_DIMENSION")
        \/ kind \notin {"unavailable", "invalid"} /\ ~MemHasRow(b) /\ Throw(reply, "INVALID_DIMENSION")
        \/ /\ kind \notin {"unavailable", "invalid"} /\ MemHasRow(b)
           /\ IF refused THEN Throw(reply, "INSUFFICIENT_BALANCE") ELSE MemHold(r, reply)

\* Unlike the mock it looks for the balance before it accepts silently or finds it wanting.
memReserve(r, reply) ==
  LET kind == Struck(memFailures, "reserve")
      b == BalanceOf[r]
      gone == kind \in {"unavailable", "invalid"}
      refused == DaysOf[r] > MemAvailable(b) \/ kind = "insufficient"
  IN /\ memFailures' = popFailure(memFailures, "reserve")
     /\ \/ kind = "unavailable" /\ Throw(reply, "unavailable")
        \/ (kind = "invalid" \/ (~gone /\ ~MemHasRow(b))) /\ Throw(reply, "INVALID_DIMENSION")
        \/ kind = "silent_accept" /\ MemHasRow(b) /\ MemHold(r, reply)
        \/ /\ ~gone /\ kind # "silent_accept" /\ MemHasRow(b)
           /\ IF refused THEN Throw(reply, "INSUFFICIENT_BALANCE") ELSE MemHold(r, reply)

\* A reservation without a balance would end in a TypeError, the API's 500.
memConfirm(r, reply) ==
  LET b == BalanceOf[r]
      kind == Struck(memFailures, "confirm")
  IN /\ memFailures' = popFailure(memFailures, "confirm")
     /\ \/ kind = "unavailable" /\ Throw(reply, "unavailable")
        \/ kind # "unavailable" /\ memHold[r] = "none" /\ Throw(reply, "NOT_FOUND")
        \/ /\ kind # "unavailable" /\ memHold[r] # "none"
           /\ memHold' = [memHold EXCEPT ![r] = "confirmed"]
           /\ IF MemHasRow(b)
                THEN reply = "ok" /\ memTotal' = [memTotal EXCEPT ![b] = @ - DaysOf[r]]
                ELSE reply = "TypeError" /\ UNCHANGED memTotal

memRelease(r, reply) ==
  LET kind == Struck(memFailures, "release")
  IN /\ memFailures' = popFailure(memFailures, "release")
     /\ \/ kind = "unavailable" /\ Throw(reply, "unavailable")
        \/ /\ kind # "unavailable"
           /\ reply = "ok"
           /\ memHold' = [memHold EXCEPT ![r] = "none"]
           /\ UNCHANGED memTotal

memGetBalance(b, reply) ==
  /\ memFailures' = popFailure(memFailures, "getBalance")
  /\ Throw(reply, IF Struck(memFailures, "getBalance") = "unavailable" THEN "unavailable"
                  ELSE IF MemHasRow(b) THEN "ok" ELSE "NOT_FOUND")

memSeed(b, t) ==
  /\ memTotal' = [memTotal EXCEPT ![b] = t]
  /\ UNCHANGED <<memHold, memFailures>>

memReset ==
  /\ memTotal' = [b \in Balances |-> NoRow]
  /\ memHold' = [r \in Requests |-> "none"]
  /\ memFailures' = <<>>

memInjectFailure(spec) ==
  /\ memFailures' = Append(memFailures, spec)
  /\ UNCHANGED <<memTotal, memHold>>
=============================================================================
