------------------------------- MODULE Ledger -------------------------------
(***************************************************************************)
(* The movement ledger and the balance arithmetic over it: balance-        *)
(* calculator.ts and the sufficiency check of request-validator.ts.        *)
(*                                                                         *)
(* Every movement of a request carries its days, negated in the            *)
(* PENDING_RESERVATION and positive in the others, so the rows of a        *)
(* request are kept as the number of rows of each type.  HCM_REFRESH rows  *)
(* belong to no request and do not take part in the sum.                   *)
(***************************************************************************)
EXTENDS Integers, FiniteSetsExt

CONSTANTS
  Requests,    \* request ids, one for each idempotency key a client may use
  Balances,    \* (employee, location) pairs
  BalanceOf,   \* the balance a request draws on
  DaysOf       \* the number of days a request asks for

ASSUME LedgerAssumption ==
  /\ BalanceOf \in [Requests -> Balances]
  /\ DaysOf \in [Requests -> Nat \ {0}]

ReservationTypes == {"PENDING_RESERVATION", "CONFIRMED", "CANCELLED"}

NoMovements == [t \in ReservationTypes |-> 0]

\* The ledger after one more row of type t for request r.
AddMovement(moves, r, t) == [moves EXCEPT ![r][t] = @ + 1]

\* Sum of the deltas of the rows of one request.
NetOf(mv, days) ==
  days * (mv["CONFIRMED"] + mv["CANCELLED"] - mv["PENDING_RESERVATION"])

computeRawAvailable(total, moves, b) ==
  total + MapThenSumSet(LAMBDA r : NetOf(moves[r], DaysOf[r]),
                        {r \in Requests : BalanceOf[r] = b})

computeAvailable(total, moves, b) ==
  LET raw == computeRawAvailable(total, moves, b) IN IF raw < 0 THEN 0 ELSE raw

assertSufficient(available, days) == days <= available
=============================================================================
