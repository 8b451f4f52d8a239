---------------------------- MODULE MCTimeOffSaga ----------------------------
(* Instances of TimeOffSaga: two requests on one balance, two worker slots. *)
EXTENDS TimeOffInvariant, TimeOffClaims, TLC

CONSTANTS b1, r1, r2, r3, w1, w2

MCBalanceOf == [r \in Requests |-> b1]
MCDaysOf == [r \in Requests |-> IF r = r1 THEN 1 ELSE 2]

Once(ds) == [d \in Disturbances |-> IF d \in ds THEN 1 ELSE 0]

AnyDisturbance == Once(Disturbances)
CrashBudget == Once({"crash"})
ForceBudget == Once({"crash", "forceFail", "seed"})

WorkerSymmetry == Permutations({w1, w2})
=============================================================================
