------------------------------- MODULE HcmMock -------------------------------
(***************************************************************************)
(* The HCM: the system of record for balances, as implemented by the       *)
(* hcm-mock application (hcm.store.ts, hcm.service.ts) and reached through *)
(* hcm-http.adapter.ts.  An operation is one step of the HCM and yields    *)
(* the reply its caller is given; the caller is another module.            *)
(*                                                                         *)
(* A reservation id is the id of its request, so a hold is kept per        *)
(* request.  The queue of injected failures is abstracted to a set of      *)
(* faults, any of which may strike any call.                               *)
(***************************************************************************)
EXTENDS Ledger

CONSTANTS
  Faults,   \* the failures that may strike a call
  NoRow     \* a balance for which no row exists

ASSUME HcmAssumption ==
  /\ Faults \subseteq {"unavailable", "invalid", "insufficient", "silent_accept",
                       "lost", "db"}
  /\ NoRow \notin Int

VARIABLES
  hcmTotal,  \* HcmStore.balances: the total of each balance
  hold       \* HcmStore.reservations: "none", "held" or "confirmed"

hcmVars == <<hcmTotal, hold>>

Replies == {"ok", "INSUFFICIENT_BALANCE", "INVALID_DIMENSION", "NOT_FOUND",
            "unavailable"}

HcmTypeOK ==
  /\ hcmTotal \in [Balances -> Int \cup {NoRow}]
  /\ hold \in [Requests -> {"none", "held", "confirmed"}]

HcmInit(totals) ==
  /\ hcmTotal \in [Balances -> totals]
  /\ hold = [r \in Requests |-> "none"]

\* Mutant: holds are not subtracted.
HcmAvailableBlind(b) == hcmTotal[b]

\* Total minus the unconfirmed holds, an earlier hold of the same request included.
HcmAvailable(b) ==
  hcmTotal[b] - MapThenSumSet(LAMBDA r : DaysOf[r],
                              {r \in Requests : hold[r] = "held" /\ BalanceOf[r] = b})

HcmHasRow(b) == hcmTotal[b] # NoRow

HcmIsDown(reply) ==
  /\ "unavailable" \in Faults
  /\ reply = "unavailable"
  /\ UNCHANGED hcmVars

HcmReserve(r, reply) ==
  LET b == BalanceOf[r]
      fits == HcmHasRow(b) /\ DaysOf[r] <= HcmAvailable(b)
  IN \/ HcmIsDown(reply)
     \/ /\ "invalid" \in Faults \/ ~HcmHasRow(b)
        /\ reply = "INVALID_DIMENSION"
        /\ UNCHANGED hcmVars
     \/ /\ "insufficient" \in Faults \/ (HcmHasRow(b) /\ ~fits)
        /\ reply = "INSUFFICIENT_BALANCE"
        /\ UNCHANGED hcmVars
     \/ /\ "silent_accept" \in Faults \/ fits
        /\ reply = "ok"
        /\ hold' = [hold EXCEPT ![r] = "held"]
        /\ UNCHANGED hcmTotal

\* Confirming deducts the days every time, whether or not the hold was confirmed before;
\* without a balance row the store fails after it has marked the hold, a 500 to the caller.
HcmConfirm(r, reply) ==
  LET b == BalanceOf[r]
  IN \/ HcmIsDown(reply)
     \/ /\ hold[r] = "none"
        /\ reply = "NOT_FOUND"
        /\ UNCHANGED hcmVars
     \/ /\ hold[r] # "none"
        /\ hold' = [hold EXCEPT ![r] = "confirmed"]
        /\ IF HcmHasRow(b)
             THEN reply = "ok" /\ hcmTotal' = [hcmTotal EXCEPT ![b] = @ - DaysOf[r]]
             ELSE reply = "unavailable" /\ UNCHANGED hcmTotal

HcmRelease(r, reply) ==
  \/ HcmIsDown(reply)
  \/ /\ reply = "ok"
     /\ hold' = [hold EXCEPT ![r] = "none"]
     /\ UNCHANGED hcmTotal

HcmGetBalance(b, reply) ==
  \/ HcmIsDown(reply)
  \/ /\ reply = IF HcmHasRow(b) THEN "ok" ELSE "NOT_FOUND"
     /\ UNCHANGED hcmVars

\* The HCM changes a balance on its own: anniversary credits, year-start resets.
HcmSeed(b, t) ==
  /\ hcmTotal' = [hcmTotal EXCEPT ![b] = t]
  /\ UNCHANGED hold

\* The mock is emptied, between two tests.
HcmReset ==
  /\ hcmTotal' = [b \in Balances |-> NoRow]
  /\ hold' = [r \in Requests |-> "none"]

\* What the adapter hands to its caller: the reply, or HcmUnavailableError when the
\* answer is lost on the way although the HCM has acted.
Received(reply, got) ==
  \/ got = reply
  \/ "lost" \in Faults /\ got = "unavailable"
=============================================================================
