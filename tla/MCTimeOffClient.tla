--------------------------- MODULE MCTimeOffClient ---------------------------
(* An instance of TimeOffClient: one request, one balance, two calls in flight. *)
EXTENDS TimeOffClientProperties

CONSTANTS b1, r1

MCBalanceOf == [r \in Requests |-> b1]
MCDaysOf == [r \in Requests |-> 1]
MCBudget == [d \in Disturbances |-> IF d \in {"forceFail", "seed", "refresh"} THEN 1 ELSE 0]
=============================================================================
