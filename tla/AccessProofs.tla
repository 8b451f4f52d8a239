----------------------------- MODULE AccessProofs -----------------------------
(***************************************************************************)
(* Proofs of the properties of Access, for any number of people, requests, *)
(* calls under way and changes of the employees.                           *)
(***************************************************************************)
EXTENDS AccessProperties, TLAPS

Ops == Decisions \cup {"create", "hire", "update", "delete"}

CallRecords ==
  [op : Ops, by : People, as : Roles, on : People \cup Requests \cup {Nobody},
   step : {"findRequest", "findOwner", "findTarget", "act"}]

(***************************************************************************)
(* The inductive invariant                                                 *)
(***************************************************************************)
EmployeeTypes ==
  /\ known \in [People -> {"notYet", "yes", "deleted"}]
  /\ role \in [People -> Roles]
  /\ manager \in [People -> People \cup {Nobody}]
  /\ session \in [People -> Roles \cup {"none"}]
  /\ writes \in 0..MaxWrites

RequestTypes ==
  /\ stage \in [Requests -> Stages]
  /\ owner \in [Requests -> People \cup {Nobody}]
  /\ \A r \in Requests : stage[r] = "none" <=> owner[r] = Nobody
  /\ DOMAIN decider = Requests

CallTypes ==
  /\ call \in [Calls -> CallRecords \cup {NoCall}]
  /\ entitled \in [Calls -> BOOLEAN]

\* How far a call has come says what it has found out.
CallFits(c) ==
  call[c] # NoCall =>
    /\ call[c].as \in RolesOf[call[c].op]
    /\ call[c].op \in Decisions \cup {"create"} => call[c].on \in Requests
    /\ call[c].op \in {"update", "delete"} => call[c].on \in People
    /\ call[c].step = "findRequest" => call[c].op \in {"approve", "reject", "cancel"}
    /\ call[c].step = "findOwner" => call[c].op \in {"approve", "reject"}
    /\ call[c].step = "findTarget" => call[c].op \in {"update", "delete"}
    /\ call[c].step = "act" =>
         /\ call[c].op \in {"approve", "reject"} /\ call[c].as = "manager" => entitled[c]
         /\ call[c].op = "cancel" => owner[call[c].on] = call[c].by

CallsFit == \A c \in Calls : CallFits(c)

Inv ==
  /\ EmployeeTypes
  /\ RequestTypes
  /\ CallTypes
  /\ CallsFit
  /\ DecidedByEntitled
  /\ TeamsIntact

EntitledStep ==
  entitled' = [c \in Calls |-> call'[c] # NoCall /\ (entitled[c] \/ ManagesOwner(c)')]

LEMMA InitInv == Init => Inv
<1> SUFFICES ASSUME Init PROVE Inv
  OBVIOUS
<1> USE AccessAssumption
<1>1. EmployeeTypes
  BY DEF Init, EmployeeTypes, Roles
<1>2. RequestTypes
  BY DEF Init, RequestTypes, Stages
<1>3. CallTypes /\ CallsFit
  BY DEF Init, CallTypes, CallsFit, CallFits
<1>4. DecidedByEntitled
  BY DEF Init, DecidedByEntitled
<1>5. TeamsIntact
  <2> SUFFICES ASSUME NEW p \in People, known[p] = "yes", manager[p] # Nobody
               PROVE  known[manager[p]] = "yes"
    BY DEF TeamsIntact
  <2>1. manager[p] = Founders["manager"] /\ Founders["manager"] \in People
    BY DEF Init
  <2> QED  BY <2>1 DEF Init
<1> QED  BY <1>1, <1>2, <1>3, <1>4, <1>5 DEF Inv

(***************************************************************************)
(* Steps of a call                                                         *)
(***************************************************************************)
\* A call that ends leaves the others as they were, and takes nothing from them.
LEMMA ReturnFits ==
  ASSUME Inv, NEW c \in Calls, Return(c), EntitledStep,
         \A r \in Requests : owner'[r] = owner[r] \/ owner[r] = Nobody
  PROVE  CallTypes' /\ CallsFit'
<1>1. CallTypes'
  BY DEF Inv, CallTypes, Return, EntitledStep
<1>2. ASSUME NEW d \in Calls, (call[d] # NoCall)'
      PROVE  CallFits(d)'
  <2>1. d # c /\ call'[d] = call[d] /\ call[d] # NoCall
    BY <1>2 DEF Inv, CallTypes, Return
  <2>2. entitled[d] => entitled'[d]
    BY <2>1 DEF Inv, CallTypes, EntitledStep
  <2>3. CallFits(d) /\ call[d] \in CallRecords
    BY <2>1 DEF Inv, CallTypes, CallsFit
  <2>4. call[d].by # Nobody
    BY <2>3, AccessAssumption DEF CallRecords
  <2> QED  BY <2>1, <2>2, <2>3, <2>4 DEF CallFits, Decisions
<1> QED  BY <1>1, <1>2 DEF CallsFit, CallFits

\* A call that starts or goes on to its next step leaves the others as they were.
LEMMA AdvanceFits ==
  ASSUME Inv, NEW c \in Calls, NEW rec \in CallRecords, call' = [call EXCEPT ![c] = rec],
         EntitledStep, UNCHANGED owner, CallFits(c)'
  PROVE  CallTypes' /\ CallsFit'
<1>1. CallTypes'
  BY DEF Inv, CallTypes, EntitledStep
<1>2. ASSUME NEW d \in Calls, d # c, (call[d] # NoCall)'
      PROVE  CallFits(d)'
  <2>1. call'[d] = call[d] /\ call[d] # NoCall
    BY <1>2 DEF Inv, CallTypes
  <2>2. entitled[d] => entitled'[d]
    BY <2>1 DEF Inv, CallTypes, EntitledStep
  <2> QED  BY <2>1, <2>2 DEF Inv, CallsFit, CallFits
<1> QED  BY <1>1, <1>2 DEF CallsFit, CallFits

LEMMA BeginInv ==
  ASSUME Inv, NEW c \in Calls, NEW p \in People, NEW op \in Ops,
         NEW subject \in People \cup Requests \cup {Nobody}, Begin(c, p, op, subject),
         op \in Decisions \cup {"create"} => subject \in Requests,
         op \in {"update", "delete"} => subject \in People, EntitledStep
  PROVE  Inv'
<1> DEFINE rec == [op |-> op, by |-> p, as |-> session[p], on |-> subject,
                   step |-> FirstStep(op, session[p])]
<1>1. session[p] \in Roles
  <2>1. \A o \in Ops : "none" \notin RolesOf[o]
    BY DEF Ops, Decisions, RolesOf
  <2> QED  BY <2>1 DEF Inv, EmployeeTypes, Begin
<1>2. rec \in CallRecords
  BY <1>1 DEF CallRecords, FirstStep
<1>3. call'[c] = rec
  BY DEF Begin, Inv, CallTypes
<1>4. CallFits(c)'
  BY <1>3 DEF CallFits, Begin, FirstStep, RolesOf, Decisions
<1>5. CallTypes' /\ CallsFit'
  BY <1>2, <1>4, AdvanceFits DEF Begin, requestVars
<1>6. EmployeeTypes' /\ RequestTypes' /\ DecidedByEntitled' /\ TeamsIntact'
  BY DEF Begin, Inv, EmployeeTypes, RequestTypes, DecidedByEntitled, TeamsIntact,
         employeeVars, requestVars
<1> QED  BY <1>5, <1>6 DEF Inv

\* The checks write nothing but the call.
LEMMA CheckInv ==
  ASSUME Inv, CheckFrame, CallTypes', CallsFit'
  PROVE  Inv'
BY DEF CheckFrame, Inv, EmployeeTypes, RequestTypes, DecidedByEntitled, TeamsIntact,
       employeeVars, requestVars

LEMMA ReturnInv ==
  ASSUME Inv, NEW c \in Calls, Return(c), EntitledStep, CheckFrame
  PROVE  Inv'
BY ReturnFits, CheckInv DEF CheckFrame, requestVars

LEMMA GoOnInv ==
  ASSUME Inv, NEW c \in Calls, NEW step \in {"findOwner", "act"}, call[c] # NoCall,
         GoOn(c, step), EntitledStep, CheckFrame, CallFits(c)'
  PROVE  Inv'
<1>1. call[c] \in CallRecords
  BY DEF Inv, CallTypes
<1>2. [call[c] EXCEPT !.step = step] \in CallRecords
  BY <1>1 DEF CallRecords
<1>3. call' = [call EXCEPT ![c] = [call[c] EXCEPT !.step = step]]
  BY DEF GoOn
<1> QED  BY <1>2, <1>3, AdvanceFits, CheckInv DEF CheckFrame, requestVars

LEMMA FindRequestInv ==
  ASSUME Inv, NEW c \in Calls, findRequest(c), EntitledStep
  PROVE  Inv'
<1>1. CASE Return(c)
  BY <1>1, ReturnInv DEF findRequest
<1>2. CASE ~Return(c)
  <2> DEFINE step == IF call[c].op = "cancel" THEN "act" ELSE "findOwner"
  <2>1. /\ call[c] # NoCall /\ call[c].step = "findRequest" /\ GoOn(c, step) /\ CheckFrame
        /\ call[c].op = "cancel" => owner[call[c].on] = call[c].by
    BY <1>2 DEF findRequest, On
  <2>2. call[c] \in CallRecords /\ CallFits(c)
    BY <2>1 DEF Inv, CallTypes, CallsFit
  <2>3. call'[c] = [call[c] EXCEPT !.step = step]
    BY <2>1 DEF GoOn, Inv, CallTypes
  <2>4. CallFits(c)'
    BY <2>1, <2>2, <2>3 DEF CallFits, CallRecords, CheckFrame, requestVars
  <2> HIDE DEF step
  <2>5. step \in {"findOwner", "act"}
    BY DEF step
  <2> QED  BY <2>1, <2>4, <2>5, GoOnInv
<1> QED  BY <1>1, <1>2

\* The caller was found to be the manager of the owner: he is at this moment.
LEMMA FindOwnerInv ==
  ASSUME Inv, NEW c \in Calls, findOwner(c), EntitledStep
  PROVE  Inv'
<1>1. CASE Return(c)
  BY <1>1, ReturnInv DEF findOwner
<1>2. CASE ~Return(c)
  <2> DEFINE p == owner[call[c].on]
  <2>1. /\ call[c] # NoCall /\ call[c].step = "findOwner" /\ GoOn(c, "act") /\ CheckFrame
        /\ Exists(p) /\ manager[p] = call[c].by
    BY <1>2 DEF findOwner, On
  <2>2. call[c] \in CallRecords /\ CallFits(c)
    BY <2>1 DEF Inv, CallTypes, CallsFit
  <2>3. call'[c] = [call[c] EXCEPT !.step = "act"]
    BY <2>1 DEF GoOn, Inv, CallTypes
  <2>4. CASE call'[c] = NoCall
    <3>1. CallFits(c)'
      BY <2>4 DEF CallFits
    <3> QED  BY <2>1, <3>1, GoOnInv
  <2>5. CASE call'[c] # NoCall
    <3>1. call[c].op \in {"approve", "reject"}
      BY <2>1, <2>2 DEF CallFits
    <3>2. ManagesOwner(c)'
      BY <2>1, <2>2, <2>3, <2>5, <3>1
         DEF ManagesOwner, Decisions, CallRecords, CheckFrame, requestVars, employeeVars, Exists
    <3>3. entitled'[c]
      BY <2>5, <3>2 DEF EntitledStep
    <3>4. CallFits(c)'
      BY <2>1, <2>2, <2>3, <3>1, <3>3 DEF CallFits, CallRecords, CheckFrame, requestVars
    <3> QED  BY <2>1, <3>4, GoOnInv
  <2> QED  BY <2>4, <2>5
<1> QED  BY <1>1, <1>2

LEMMA FindTargetInv ==
  ASSUME Inv, NEW c \in Calls, findTarget(c), EntitledStep
  PROVE  Inv'
<1>1. CASE Return(c)
  BY <1>1, ReturnInv DEF findTarget
<1>2. CASE ~Return(c)
  <2>1. call[c] # NoCall /\ call[c].step = "findTarget" /\ GoOn(c, "act") /\ CheckFrame
    BY <1>2 DEF findTarget, On
  <2>2. call[c] \in CallRecords /\ CallFits(c)
    BY <2>1 DEF Inv, CallTypes, CallsFit
  <2>3. call'[c] = [call[c] EXCEPT !.step = "act"]
    BY <2>1 DEF GoOn, Inv, CallTypes
  <2>4. CallFits(c)'
    BY <2>1, <2>2, <2>3 DEF CallFits, CallRecords, CheckFrame, requestVars, Decisions
  <2> QED  BY <2>1, <2>4, GoOnInv
<1> QED  BY <1>1, <1>2

(***************************************************************************)
(* Acts                                                                    *)
(***************************************************************************)
LEMMA CreateRequestInv ==
  ASSUME Inv, NEW c \in Calls, createRequest(c), EntitledStep
  PROVE  Inv'
<1> DEFINE r == call[c].on
<1>1. call[c] \in CallRecords /\ CallFits(c) /\ call[c].op = "create" /\ Return(c)
  BY DEF Inv, CallTypes, CallsFit, createRequest, On
<1>2. r \in Requests /\ call[c].by \in People /\ call[c].by # Nobody
  BY <1>1, AccessAssumption DEF CallFits, CallRecords, createRequest, On
<1>3. \/ UNCHANGED <<stage, owner>>
      \/ /\ stage[r] = "none"
         /\ stage' = [stage EXCEPT ![r] = "reserving"]
         /\ owner' = [owner EXCEPT ![r] = call[c].by]
  BY DEF createRequest
<1> HIDE DEF r
<1>4. RequestTypes' /\ (\A q \in Requests : owner'[q] = owner[q] \/ owner[q] = Nobody)
  BY <1>2, <1>3 DEF Inv, RequestTypes, Stages, createRequest
<1>5. DecidedByEntitled'
  BY <1>2, <1>3, <1>4 DEF Inv, RequestTypes, DecidedByEntitled, createRequest
<1>6. CallTypes' /\ CallsFit'
  BY <1>1, <1>4, ReturnFits
<1>7. EmployeeTypes' /\ TeamsIntact'
  BY DEF createRequest, Inv, EmployeeTypes, TeamsIntact, employeeVars
<1> QED  BY <1>4, <1>5, <1>6, <1>7 DEF Inv

LEMMA DecideInv ==
  ASSUME Inv, NEW c \in Calls, decide(c), EntitledStep
  PROVE  Inv'
<1> DEFINE r == call[c].on  op == call[c].op
           by == [by |-> call[c].by, as |-> call[c].as, entitled |-> entitled[c]]
<1>1. /\ call[c] \in CallRecords /\ CallFits(c) /\ call[c] # NoCall /\ call[c].step = "act"
      /\ op \in Decisions /\ Return(c)
  BY DEF Inv, CallTypes, CallsFit, decide, On
<1>2. r \in Requests /\ call[c].as \in RolesOf[op]
  BY <1>1 DEF CallFits
<1>3. \/ UNCHANGED <<stage, decider>>
      \/ /\ stage[r] # "none"
         /\ stage' = [stage EXCEPT ![r] = StageAfter[op]]
         /\ decider' = [decider EXCEPT ![r] = by]
  BY DEF decide
<1>4. StageAfter[op] \in Stages \ {"none"}
  BY <1>1 DEF Decisions, StageAfter, Stages
<1>5. RequestTypes'
  BY <1>2, <1>3, <1>4 DEF Inv, RequestTypes, decide
<1>6. ASSUME stage' = [stage EXCEPT ![r] = StageAfter[op]],
             decider' = [decider EXCEPT ![r] = by]
      PROVE  DecidedByEntitled'
  <2>1. /\ StageAfter[op] \in {"approved", "rejected"} =>
             by.as = "admin" \/ (by.as = "manager" /\ by.entitled)
        /\ StageAfter[op] = "cancelled" => by.by = owner[r]
        /\ StageAfter[op] = "failed" => by.as = "admin"
    BY <1>1, <1>2 DEF CallFits, Decisions, StageAfter, RolesOf
  <2>2. decider'[r] = by /\ stage'[r] = StageAfter[op] /\ owner' = owner
    BY <1>2, <1>6 DEF Inv, RequestTypes, decide
  <2>3. \A q \in Requests \ {r} : decider'[q] = decider[q] /\ stage'[q] = stage[q]
    BY <1>6 DEF Inv, RequestTypes
  <2> HIDE DEF r, op, by
  <2> QED  BY <2>1, <2>2, <2>3 DEF Inv, DecidedByEntitled
<1>7. DecidedByEntitled'
  <2>1. CASE UNCHANGED <<stage, decider>>
    BY <2>1 DEF Inv, DecidedByEntitled, decide
  <2> QED  BY <1>3, <1>6, <2>1
<1>8. CallTypes' /\ CallsFit'
  BY <1>1, ReturnFits DEF decide
<1>9. EmployeeTypes' /\ TeamsIntact'
  BY DEF decide, Inv, EmployeeTypes, TeamsIntact, employeeVars
<1> QED  BY <1>5, <1>7, <1>8, <1>9 DEF Inv

\* What a write to the employees leaves to show.
LEMMA WriteInv ==
  ASSUME Inv, NEW c \in Calls, Return(c), Write, EntitledStep, TeamsIntact',
         known' \in [People -> {"notYet", "yes", "deleted"}], role' \in [People -> Roles],
         manager' \in [People -> People \cup {Nobody}]
  PROVE  Inv'
<1>1. CallTypes' /\ CallsFit'
  BY ReturnFits DEF Write, requestVars
<1>2. EmployeeTypes'
  BY AccessAssumption DEF Write, Inv, EmployeeTypes
<1>3. RequestTypes' /\ DecidedByEntitled'
  BY DEF Write, requestVars, Inv, RequestTypes, DecidedByEntitled
<1> QED  BY <1>1, <1>2, <1>3 DEF Inv

\* The new employee is nobody's manager yet, and reports to one who is there.
LEMMA HireInv ==
  ASSUME Inv, NEW c \in Calls, hire(c), EntitledStep
  PROVE  Inv'
<1>1. PICK q \in People, as \in Roles, m \in People \cup {Nobody} :
        /\ known[q] = "notYet" /\ ValidManager(m)
        /\ known' = [known EXCEPT ![q] = "yes"]
        /\ role' = [role EXCEPT ![q] = as]
        /\ manager' = [manager EXCEPT ![q] = m]
  BY DEF hire
<1>2. /\ known' \in [People -> {"notYet", "yes", "deleted"}]
      /\ role' \in [People -> Roles] /\ manager' \in [People -> People \cup {Nobody}]
  BY <1>1 DEF Inv, EmployeeTypes
<1>3. ASSUME NEW p \in People, known'[p] = "yes", manager'[p] # Nobody
      PROVE  known'[manager'[p]] = "yes"
  <2>1. CASE p = q
    <3>1. manager'[p] = m /\ m # Nobody /\ m \in People /\ known[m] = "yes"
      BY <1>1, <1>3, <2>1 DEF Inv, EmployeeTypes, ValidManager, Exists
    <3> QED  BY <1>1, <3>1 DEF Inv, EmployeeTypes
  <2>2. CASE p # q
    <3>1. manager'[p] = manager[p] /\ manager[p] \in People /\ known[manager[p]] = "yes"
      BY <1>1, <1>3, <2>2 DEF Inv, EmployeeTypes, TeamsIntact
    <3> QED  BY <1>1, <3>1 DEF Inv, EmployeeTypes
  <2> QED  BY <2>1, <2>2
<1> QED  BY <1>2, <1>3, WriteInv DEF hire, TeamsIntact

LEMMA UpdateInv ==
  ASSUME Inv, NEW c \in Calls, update(c), EntitledStep
  PROVE  Inv'
<1> USE DEF Inv, EmployeeTypes, TeamsIntact, ValidManager, Exists
<1>1. TeamsIntact' /\ known' \in [People -> {"notYet", "yes", "deleted"}]
        /\ role' \in [People -> Roles] /\ manager' \in [People -> People \cup {Nobody}]
  BY DEF update
<1> QED  BY <1>1, WriteInv DEF update

\* Whoever reported to the employee who goes reports to nobody.
LEMMA DeleteInv ==
  ASSUME Inv, NEW c \in Calls, delete(c), EntitledStep
  PROVE  Inv'
<1> USE DEF Inv, EmployeeTypes, TeamsIntact, Exists
<1>1. TeamsIntact' /\ known' \in [People -> {"notYet", "yes", "deleted"}]
        /\ role' \in [People -> Roles] /\ manager' \in [People -> People \cup {Nobody}]
  BY DEF delete
<1> QED  BY <1>1, WriteInv DEF delete

(***************************************************************************)
(* Every step                                                              *)
(***************************************************************************)
LEMMA OtherInv ==
  ASSUME Inv, EntitledStep,
         (\E p \in People : pickIdentity(p)) \/ (\E r \in Requests : reserved(r))
  PROVE  Inv'
<1>1. call' = call /\ owner' = owner /\ employeeVars' = employeeVars
  BY DEF pickIdentity, reserved, requestVars
<1>2. CallTypes' /\ CallsFit'
  <2>1. \A d \in Calls : call[d] # NoCall /\ entitled[d] => entitled'[d]
    BY <1>1 DEF EntitledStep
  <2> QED  BY <1>1, <2>1 DEF Inv, CallTypes, CallsFit, CallFits, EntitledStep
<1>3. ASSUME NEW p \in People, pickIdentity(p)
      PROVE  Inv'
  <2>1. RequestTypes' /\ DecidedByEntitled' /\ EmployeeTypes' /\ TeamsIntact'
    BY <1>3 DEF pickIdentity, Inv, RequestTypes, DecidedByEntitled, EmployeeTypes, TeamsIntact,
                requestVars, employeeVars
  <2> QED  BY <1>2, <2>1 DEF Inv
<1>4. ASSUME NEW r \in Requests, reserved(r)
      PROVE  Inv'
  <2>1. RequestTypes' /\ DecidedByEntitled' /\ EmployeeTypes' /\ TeamsIntact'
    BY <1>4 DEF reserved, Inv, RequestTypes, Stages, DecidedByEntitled, EmployeeTypes,
                TeamsIntact, employeeVars
  <2> QED  BY <1>2, <2>1 DEF Inv
<1> QED  BY <1>3, <1>4

LEMMA NextInv == Inv /\ [Next]_vars => Inv'
<1> SUFFICES ASSUME Inv, [Next]_vars PROVE Inv'
  OBVIOUS
<1>1. CASE UNCHANGED vars
  BY <1>1 DEF vars, employeeVars, requestVars, Inv, EmployeeTypes, RequestTypes, CallTypes,
              CallsFit, CallFits, DecidedByEntitled, TeamsIntact
<1>2. CASE Next
  <2>0. EntitledStep /\ Step
    BY <1>2 DEF Next, EntitledStep
  <2>1. ASSUME NEW c \in Calls, NEW p \in People, beginOnRequest(c, p) \/ beginOnEmployee(c, p)
        PROVE  Inv'
    BY <2>0, <2>1, BeginInv DEF beginOnRequest, beginOnEmployee, Ops, Decisions
  <2>2. ASSUME NEW c \in Calls,
               \/ findRequest(c) \/ findOwner(c) \/ findTarget(c)
               \/ createRequest(c) \/ decide(c)
               \/ hire(c) \/ update(c) \/ delete(c) \/ writeFails(c)
        PROVE  Inv'
    BY <2>0, <2>2, FindRequestInv, FindOwnerInv, FindTargetInv, CreateRequestInv, DecideInv,
       HireInv, UpdateInv, DeleteInv, ReturnInv DEF writeFails
  <2> QED  BY <2>0, <2>1, <2>2, OtherInv DEF Step
<1> QED  BY <1>1, <1>2

LEMMA Invariance == Spec => []Inv
BY InitInv, NextInv, PTL DEF Spec

\* Every variable stays in its type, a request has an owner exactly once it exists, and a
\* call under way has passed the role list of its endpoint.
THEOREM AccessTypeCorrect == Spec => []TypeOK
<1>1. Inv => TypeOK
  BY DEF Inv, EmployeeTypes, RequestTypes, CallTypes, CallsFit, CallFits, CallRecords, TypeOK
<1> QED  BY <1>1, Invariance, PTL

\* Whatever happens to employees, roles, managers and requests between the checks of a call
\* and its act, who decides was entitled to (requests.controller.ts).
THEOREM DecisionsEntitled == Spec => []DecidedByEntitled
BY Invariance, PTL DEF Inv

\* Nobody reports to a person who is gone (schema.prisma, onDelete: SetNull).
THEOREM TeamsStayIntact == Spec => []TeamsIntact
BY Invariance, PTL DEF Inv
=============================================================================
