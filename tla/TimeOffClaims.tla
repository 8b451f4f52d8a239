---------------------------- MODULE TimeOffClaims ----------------------------
(***************************************************************************)
(* What the documents, comments and tests of the repository say of the     *)
(* saga, as it stands there, where the code of TimeOffSaga does otherwise. *)
(***************************************************************************)
EXTENDS TimeOffSaga

\* "TERMINAL is sticky" (saga-state-machine.spec.ts:13): no saga leaves TERMINAL.
TerminalIsSticky ==
  [][\A r \in Requests : saga[r] = "TERMINAL" => saga'[r] = "TERMINAL"]_vars

\* "Every non-approved terminal path writes a CANCELLED movement that offsets the original
\* PENDING_RESERVATION" (README.md:111): what was refused, rejected, cancelled or failed
\* nets to zero in the ledger.
EndedRequestsNetToZero ==
  \A r \in Requests :
    saga[r] = "TERMINAL" /\ status[r] # "APPROVED" => NetOf(moves[r], DaysOf[r]) = 0

\* "Safe on replay" (README.md:110; the comment at hcm-saga.processor.ts:155-158): a handler
\* that runs again after a crash does not make the HCM deduct the days again.
ConfirmDeductsOnce ==
  \A b \in Balances :
    hcmTotal[b] + MapThenSumSet(LAMBDA r : DaysOf[r],
                                {r \in Requests : hold[r] = "confirmed" /\ BalanceOf[r] = b})
      \in InitialTotals

\* "BullMQ retries with exponential backoff" (README.md:112): a job that failed because the
\* HCM was unavailable is run again.
OutageIsRetried ==
  \A e \in Entries : job[e] = "failed" ~> job[e] # "failed"

\* "Update local balance.totalDays to match what HCM reports after deduction. WHERE version
\* = ? guards against concurrent writers" (hcm-saga.processor.ts:186-187): once no job and no
\* run is left, the local total is the total of the HCM.
SettledTotalsAgree ==
  (\A e \in Entries : job[e] \in {"none", "completed"}) =>
    \A b \in Balances : total[b] \in {hcmTotal[b], NoRow}
=============================================================================
