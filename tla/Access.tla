------------------------------- MODULE Access -------------------------------
(***************************************************************************)
(* Who may decide a request: the controllers of requests and employees     *)
(* with the guards in front of them (trusted-headers.guard.ts,             *)
(* roles.guard.ts).  A call checks in several steps, each a database read, *)
(* and acts in a last one, while other calls change the employees, their   *)
(* managers and the requests.                                              *)
(*                                                                         *)
(* The way of a request through the saga is shortened to the stages that   *)
(* the decisions depend on; module TimeOffSaga has the whole of it.        *)
(***************************************************************************)
EXTENDS Naturals, FiniteSets

CONSTANTS
  People,     \* employee ids, those to be given out later included
  Nobody,     \* no manager, no owner
  Requests,   \* request ids
  Calls,      \* calls that may be under way at the same time
  NoCall,     \* a call that is not under way
  Founders,   \* the employees the seeder creates
  MaxWrites   \* bound: changes made to the employees

Roles == {"employee", "manager", "admin"}

ASSUME AccessAssumption ==
  /\ Nobody \notin People
  /\ Founders \in [{"admin", "manager", "report"} -> People]
  /\ MaxWrites \in Nat

VARIABLES
  known,      \* whether the Employee row exists: "notYet", "yes", "deleted"
  role,       \* Employee.role
  manager,    \* Employee.managerId
  session,    \* the role in the headers of each person's browser, "none" when logged out
  stage,      \* the stage of each request
  owner,      \* TimeOffRequest.employeeId
  call,       \* the calls under way
  decider,    \* history: who decided a request, in which role, entitled or not
  entitled,   \* history: calls whose caller was at some moment of it the owner's manager
  writes      \* changes made to the employees so far

employeeVars == <<known, role, manager>>
requestVars == <<stage, owner, decider>>
vars == <<employeeVars, session, requestVars, call, entitled, writes>>

Decisions == {"approve", "reject", "cancel", "forceFail"}

StageAfter ==
  [approve |-> "approved", reject |-> "rejected", cancel |-> "cancelled", forceFail |-> "failed"]

\* @Roles of each endpoint.
RolesOf ==
  [create |-> {"employee"}, approve |-> {"manager", "admin"}, reject |-> {"manager", "admin"},
   cancel |-> {"employee"}, forceFail |-> {"admin"}, hire |-> {"admin"}, update |-> {"admin"},
   delete |-> {"admin"}]

Exists(p) == p # Nobody /\ known[p] = "yes"

\* The organisation of employee-seeder.service.ts: an administrator, a manager, a report.
Init ==
  LET staff == {Founders[f] : f \in DOMAIN Founders}
  IN /\ known = [p \in People |-> IF p \in staff THEN "yes" ELSE "notYet"]
     /\ role = [p \in People |-> IF p = Founders["admin"] THEN "admin"
                                 ELSE IF p = Founders["manager"] THEN "manager" ELSE "employee"]
     /\ manager = [p \in People |-> IF p = Founders["report"] THEN Founders["manager"] ELSE Nobody]
     /\ session = [p \in People |-> "none"]
     /\ stage = [r \in Requests |-> "none"]
     /\ owner = [r \in Requests |-> Nobody]
     /\ call = [c \in Calls |-> NoCall]
     /\ decider = [r \in Requests |-> [by |-> Nobody, as |-> "none", entitled |-> FALSE]]
     /\ entitled = [c \in Calls |-> FALSE]
     /\ writes = 0

(***************************************************************************)
(* Sessions and the start of a call                                        *)
(***************************************************************************)
\* The identity picked from the directory stays in the browser as it was; a logout, which
\* only takes calls away, is left out.
pickIdentity(p) ==
  /\ Exists(p) /\ session[p] # role[p]
  /\ session' = [session EXCEPT ![p] = role[p]]
  /\ UNCHANGED <<employeeVars, requestVars, call, writes>>

\* Only managers and owners are looked into; administrators act at once.
FirstStep(op, as) ==
  IF op = "cancel" \/ (op \in {"approve", "reject"} /\ as = "manager") THEN "findRequest"
  ELSE IF op \in {"update", "delete"} THEN "findTarget"
  ELSE "act"

Begin(c, p, op, subject) ==
  /\ call[c] = NoCall
  /\ session[p] \in RolesOf[op]
  /\ call' = [call EXCEPT ![c] = [op |-> op, by |-> p, as |-> session[p], on |-> subject,
                                  step |-> FirstStep(op, session[p])]]
  /\ UNCHANGED <<employeeVars, session, requestVars, writes>>

beginOnRequest(c, p) ==
  \E op \in Decisions \cup {"create"}, r \in Requests : Begin(c, p, op, r)

beginOnEmployee(c, p) ==
  \/ \E op \in {"update", "delete"}, q \in People : Begin(c, p, op, q)
  \/ Begin(c, p, "hire", Nobody)

(***************************************************************************)
(* The checks                                                              *)
(***************************************************************************)
On(c, step) == call[c] # NoCall /\ call[c].step = step

Return(c) == call' = [call EXCEPT ![c] = NoCall]

GoOn(c, step) == call' = [call EXCEPT ![c].step = step]

CheckFrame == UNCHANGED <<employeeVars, session, requestVars, writes>>

\* svc.findById: 404 without a request; a cancellation by another than the owner is 403.
findRequest(c) ==
  /\ On(c, "findRequest")
  /\ LET r == call[c].on
     IN IF stage[r] = "none" \/ (call[c].op = "cancel" /\ owner[r] # call[c].by)
          THEN Return(c)
          ELSE GoOn(c, IF call[c].op = "cancel" THEN "act" ELSE "findOwner")
  /\ CheckFrame

\* Mutant: that the owner has a manager is enough.
findOwnerAnyManager(c) ==
  /\ On(c, "findOwner")
  /\ LET p == owner[call[c].on]
     IN IF Exists(p) /\ manager[p] # Nobody THEN GoOn(c, "act") ELSE Return(c)
  /\ CheckFrame

\* employees.findById: 403 unless the owner is an employee whose manager is the caller.
findOwner(c) ==
  /\ On(c, "findOwner")
  /\ LET p == owner[call[c].on]
     IN IF Exists(p) /\ manager[p] = call[c].by THEN GoOn(c, "act") ELSE Return(c)
  /\ CheckFrame

\* repo.findById before an update or a delete.
findTarget(c) ==
  /\ On(c, "findTarget")
  /\ IF Exists(call[c].on) THEN GoOn(c, "act") ELSE Return(c)
  /\ CheckFrame

(***************************************************************************)
(* The acts                                                                *)
(***************************************************************************)
\* The employee id comes from the headers; that there is such an employee is not asked.
createRequest(c) ==
  /\ On(c, "act") /\ call[c].op = "create"
  /\ LET r == call[c].on
     IN IF stage[r] = "none"
          THEN /\ stage' = [stage EXCEPT ![r] = "reserving"]
               /\ owner' = [owner EXCEPT ![r] = call[c].by]
          ELSE UNCHANGED <<stage, owner>>
  /\ Return(c)
  /\ UNCHANGED <<employeeVars, session, decider, writes>>

\* The reserve handler of the worker.
reserved(r) ==
  /\ stage[r] = "reserving"
  /\ stage' = [stage EXCEPT ![r] = "awaiting"]
  /\ UNCHANGED <<employeeVars, session, owner, decider, call, writes>>

\* The service checks the stage again in its transaction, but not the manager.
decide(c) ==
  /\ On(c, "act") /\ call[c].op \in Decisions
  /\ LET r == call[c].on
     IN IF stage[r] = "awaiting" \/ (call[c].op = "forceFail" /\ stage[r] # "none")
          THEN /\ stage' = [stage EXCEPT ![r] = StageAfter[call[c].op]]
               /\ decider' = [decider EXCEPT ![r] =
                    [by |-> call[c].by, as |-> call[c].as, entitled |-> entitled[c]]]
          ELSE UNCHANGED <<stage, decider>>
  /\ Return(c)
  /\ UNCHANGED <<employeeVars, session, owner, writes>>

Write ==
  /\ writes < MaxWrites
  /\ writes' = writes + 1
  /\ UNCHANGED <<session, requestVars>>

\* The foreign key: a manager is an employee, at the moment of the write.
ValidManager(m) == m = Nobody \/ Exists(m)

\* The new employee gets an id that was never given out.
hire(c) ==
  /\ On(c, "act") /\ call[c].op = "hire"
  /\ \E q \in People, as \in Roles, m \in People \cup {Nobody} :
       /\ known[q] = "notYet" /\ ValidManager(m)
       /\ known' = [known EXCEPT ![q] = "yes"]
       /\ role' = [role EXCEPT ![q] = as]
       /\ manager' = [manager EXCEPT ![q] = m]
  /\ Return(c) /\ Write

\* A patch of an employee deleted since the check throws.
update(c) ==
  /\ On(c, "act") /\ call[c].op = "update" /\ Exists(call[c].on)
  /\ \E as \in Roles, m \in People \cup {Nobody} :
       /\ ValidManager(m)
       /\ role' = [role EXCEPT ![call[c].on] = as]
       /\ manager' = [manager EXCEPT ![call[c].on] = m]
  /\ Return(c) /\ Write /\ UNCHANGED known

\* Mutant: the reports keep their manager.
deleteAlone(c) ==
  /\ On(c, "act") /\ call[c].op = "delete" /\ Exists(call[c].on)
  /\ known' = [known EXCEPT ![call[c].on] = "deleted"]
  /\ manager' = [manager EXCEPT ![call[c].on] = Nobody]
  /\ Return(c) /\ Write /\ UNCHANGED role

\* Mutant: the requests of the employee lose their owner.
deleteOrphaning(c) ==
  /\ On(c, "act") /\ call[c].op = "delete" /\ Exists(call[c].on)
  /\ LET p == call[c].on
     IN /\ known' = [known EXCEPT ![p] = "deleted"]
        /\ manager' = [q \in People |-> IF q = p \/ manager[q] = p THEN Nobody ELSE manager[q]]
        /\ owner' = [r \in Requests |-> IF owner[r] = p THEN Nobody ELSE owner[r]]
  /\ writes < MaxWrites /\ writes' = writes + 1
  /\ Return(c) /\ UNCHANGED <<role, session, stage, decider>>

\* ON DELETE SET NULL; the requests of the employee stay.
delete(c) ==
  /\ On(c, "act") /\ call[c].op = "delete" /\ Exists(call[c].on)
  /\ known' = [known EXCEPT ![call[c].on] = "deleted"]
  /\ manager' = [p \in People |-> IF p = call[c].on \/ manager[p] = call[c].on
                                    THEN Nobody ELSE manager[p]]
  /\ Return(c) /\ Write /\ UNCHANGED role

\* A hire whose email or manager is refused, a write to an employee who is gone.
writeFails(c) ==
  /\ On(c, "act") /\ call[c].op \in {"hire", "update", "delete"}
  /\ Return(c)
  /\ CheckFrame

(***************************************************************************)
(* The specification                                                       *)
(***************************************************************************)
\* The caller is the manager of the owner of the request the call is about.
ManagesOwner(c) ==
  /\ call[c] # NoCall /\ call[c].op \in Decisions
  /\ Exists(owner[call[c].on])
  /\ manager[owner[call[c].on]] = call[c].by

Step ==
  \/ \E p \in People : pickIdentity(p)
  \/ \E c \in Calls, p \in People : beginOnRequest(c, p) \/ beginOnEmployee(c, p)
  \/ \E c \in Calls :
       \/ findRequest(c) \/ findOwner(c) \/ findTarget(c)
       \/ createRequest(c) \/ decide(c)
       \/ hire(c) \/ update(c) \/ delete(c) \/ writeFails(c)
  \/ \E r \in Requests : reserved(r)

Next ==
  /\ Step
  /\ entitled' = [c \in Calls |-> call'[c] # NoCall /\ (entitled[c] \/ ManagesOwner(c)')]

Spec == Init /\ [][Next]_vars
=============================================================================
