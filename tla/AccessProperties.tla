-------------------------- MODULE AccessProperties --------------------------
(***************************************************************************)
(* The correctness properties of Access.                                   *)
(***************************************************************************)
EXTENDS Access

Stages == {"none", "reserving", "awaiting", "approved", "rejected", "cancelled", "failed"}

\* Every variable stays in its type, and a request has an owner exactly once it exists.
TypeOK ==
  /\ known \in [People -> {"notYet", "yes", "deleted"}]
  /\ role \in [People -> Roles]
  /\ manager \in [People -> People \cup {Nobody}]
  /\ session \in [People -> Roles \cup {"none"}]
  /\ stage \in [Requests -> Stages]
  /\ \A r \in Requests : IF stage[r] = "none" THEN owner[r] = Nobody ELSE owner[r] \in People
  /\ \A c \in Calls : call[c] # NoCall =>
       /\ call[c].by \in People /\ call[c].as \in RolesOf[call[c].op]
       /\ call[c].step \in {"findRequest", "findOwner", "findTarget", "act"}
  /\ entitled \in [Calls -> BOOLEAN]
  /\ writes \in 0..MaxWrites

\* Who decided was entitled to (README "RBAC model"): a manager was the manager of the owner
\* at some moment of the call, a request is cancelled by its owner and failed by an
\* administrator, whatever happened to employees, roles and managers between the checks of
\* the call and its act.
DecidedByEntitled ==
  \A r \in Requests :
    LET d == decider[r]
    IN /\ stage[r] \in {"approved", "rejected"} =>
            d.as = "admin" \/ (d.as = "manager" /\ d.entitled)
       /\ stage[r] = "cancelled" => d.by = owner[r]
       /\ stage[r] = "failed" => d.as = "admin"

\* Teams are made of employees (onDelete: SetNull in schema.prisma): nobody reports to a
\* person who is gone, whichever call was under way when the manager was deleted.
TeamsIntact ==
  \A p \in People : known[p] = "yes" /\ manager[p] # Nobody => known[manager[p]] = "yes"
=============================================================================
