---------------------------- MODULE TimeOffClient ----------------------------
(***************************************************************************)
(* The pages of the frontend (Employee.tsx, Manager.tsx, Admin.tsx) beside *)
(* the system they show: what a page displays was fetched earlier, a call  *)
(* it sends is served later, possibly not at all, and its answer may get   *)
(* lost.  The server's side of a call is an operation of TimeOffSaga.      *)
(*                                                                         *)
(* Every employee has one balance, at the location the pages default to,   *)
(* and his page is named after it.  A call is served and answered in one   *)
(* step: an answer on its way only keeps a button disabled a while longer. *)
(***************************************************************************)
EXTENDS TimeOffSaga, Bags

CONSTANTS
  ManagerPage, AdminPage,
  MaxCalls,    \* bound: calls in flight at a time
  NoRead,      \* no balance query is under way
  SetupTotal   \* the days the one-click setup gives everybody

Pages == Balances \cup {ManagerPage, AdminPage}

ASSUME ClientAssumption ==
  /\ {ManagerPage, AdminPage} \cap Balances = {}
  /\ ManagerPage # AdminPage
  /\ MaxCalls \in Nat
  /\ SetupTotal \in Totals
  /\ NoRead \notin [first : Int, approved : Nat]

VARIABLES
  buttons,  \* requests each page offers its buttons for, as of its last fetch
  calls,    \* the calls in flight, a bag
  read,     \* the balance query of each employee page, between its two selects
  shown,    \* the available days each employee page displays
  told      \* history: the decisions a page was told had been accepted

pageVars == <<buttons, calls, read, shown, told>>
clientVars == <<vars, pageVars>>

Decisions == {"approve", "reject", "cancel"}
RequestOps == Decisions \cup {"forceFail"}

\* What the available days of an employee really are.
Available(b) == computeAvailable(total[b], moves, b)

ClientInit ==
  /\ Init
  /\ buttons = [p \in Pages |-> {}]
  /\ calls = EmptyBag
  /\ read = [b \in Balances |-> NoRead]
  /\ shown = [b \in Balances |-> NoRow]
  /\ told = [r \in Requests |-> {}]

(***************************************************************************)
(* The system's own steps                                                  *)
(***************************************************************************)
\* History: the days whose approval is committed while a balance query is under way.
Watch ==
  read' = [b \in Balances |->
    IF read[b] = NoRead THEN NoRead
    ELSE [read[b] EXCEPT !.approved = @ + MapThenSumSet(LAMBDA r : DaysOf[r],
            {r \in Requests : BalanceOf[r] = b /\ status[r] # "APPROVED"
                                              /\ status'[r] = "APPROVED"})]]

Unseen(A) == A /\ Watch /\ UNCHANGED <<buttons, calls, shown, told>>

(***************************************************************************)
(* What the pages fetch                                                    *)
(***************************************************************************)
Awaiting == {r \in Requests : status[r] = "PENDING_APPROVAL" /\ saga[r] = "AWAITING_APPROVAL"}

\* The rows a page offers buttons for: approve and reject, force-fail, cancel.
Offered(p) ==
  CASE p = ManagerPage -> Awaiting
    [] p = AdminPage   -> {r \in Requests : saga[r] \notin {"none", "TERMINAL"}}
    [] OTHER           -> {r \in Awaiting : BalanceOf[r] = p}

\* Every page fetches its list anew every two seconds and after each of its own calls.
fetchRequests(p) ==
  /\ buttons' = [buttons EXCEPT ![p] = Offered(p)]
  /\ UNCHANGED <<vars, calls, read, shown, told>>

\* Mutant: the movements are selected first.
listForEmployeeSwapped(b) ==
  /\ \/ /\ read[b] = NoRead /\ total[b] # NoRow
        /\ read' = [read EXCEPT ![b] = [first |-> computeRawAvailable(0, moves, b),
                                        approved |-> 0]]
        /\ UNCHANGED shown
     \/ /\ read[b] # NoRead
        /\ shown' = [shown EXCEPT ![b] = Max({0, total[b] + read[b].first})]
        /\ read' = [read EXCEPT ![b] = NoRead]
  /\ UNCHANGED <<vars, buttons, calls, told>>

\* The balance query selects the rows of the employee's balances first and their movements
\* later, in no common transaction; without rows it is over after the first select.
listForEmployee(b) ==
  /\ \/ /\ read[b] = NoRead /\ total[b] = NoRow
        /\ shown' = [shown EXCEPT ![b] = NoRow]
        /\ UNCHANGED read
     \/ /\ read[b] = NoRead /\ total[b] # NoRow
        /\ read' = [read EXCEPT ![b] = [first |-> total[b], approved |-> 0]]
        /\ UNCHANGED shown
     \/ /\ read[b] # NoRead
        /\ shown' = [shown EXCEPT ![b] = computeAvailable(read[b].first, moves, b)]
        /\ read' = [read EXCEPT ![b] = NoRead]
  /\ UNCHANGED <<vars, buttons, calls, told>>

(***************************************************************************)
(* What the pages send                                                     *)
(***************************************************************************)
Pending(op, on) == \E c \in BagToSet(calls) : c.op = op /\ c.on \in on

Send(op, on, left) ==
  /\ BagCardinality(calls) < MaxCalls
  /\ calls' = calls (+) SetToBag({[op |-> op, on |-> on, left |-> left]})
  /\ UNCHANGED <<vars, buttons, read, shown, told>>

\* Nothing keeps the cancel and the force-fail button from being clicked twice.
clickCancel(r) == r \in buttons[BalanceOf[r]] /\ Send("cancel", r, {})

clickForceFail(r) == r \in buttons[AdminPage] /\ Send("forceFail", r, {})

clickApproveOrReject(r, op) ==
  /\ op \in {"approve", "reject"}
  /\ r \in buttons[ManagerPage]
  /\ ~Pending(op, Requests)
  /\ Send(op, r, {})

clickSetup(b) ==
  /\ \A op \in {"setupSeed", "setupPush"} : ~Pending(op, Balances)
  /\ Send("setupSeed", b, Balances \ {b})

(***************************************************************************)
(* What becomes of a call                                                  *)
(***************************************************************************)
End(c) == calls' = calls (-) SetToBag({c})

\* Mutant: the next call is not awaited.
ContinueUnawaited(c, d) == calls' = calls (+) SetToBag({d})

Continue(c, d) == calls' = (calls (-) SetToBag({c})) (+) SetToBag({d})

\* A decision is served; its page is told so, unless the answer is lost.
serveDecision(c) ==
  /\ \/ c.op = "approve" /\ approve(c.on)
     \/ c.op = "reject" /\ reject(c.on)
     \/ c.op = "cancel" /\ cancel(c.on)
  /\ told' \in {told, [told EXCEPT ![c.on] = @ \cup {c.op}]}
  /\ End(c)
  /\ Watch /\ UNCHANGED <<buttons, shown>>

serveForceFail(c) ==
  /\ c.op = "forceFail"
  /\ forceFail(c.on)
  /\ End(c)
  /\ Watch /\ UNCHANGED <<buttons, shown, told>>

\* Mutant: the setup pushes a balance to the API before it seeds the HCM.
serveSetupPushFirst(c) ==
  /\ \/ /\ c.op = "setupSeed"
        /\ refreshBalance(c.on, SetupTotal)
        /\ Continue(c, [c EXCEPT !.op = "setupPush"])
     \/ /\ c.op = "setupPush"
        /\ hcmDrift(c.on, SetupTotal)
        /\ End(c)
  /\ Watch /\ UNCHANGED <<buttons, shown, told>>

\* The one-click setup seeds the HCM and pushes the total, one employee after the other.
serveSetup(c) ==
  /\ \/ /\ c.op = "setupSeed"
        /\ hcmDrift(c.on, SetupTotal)
        /\ Continue(c, [c EXCEPT !.op = "setupPush"])
     \/ /\ c.op = "setupPush"
        /\ refreshBalance(c.on, SetupTotal)
        /\ IF c.left = {} THEN End(c)
           ELSE \E b \in c.left :
                  Continue(c, [op |-> "setupSeed", on |-> b, left |-> c.left \ {b}])
  /\ Watch /\ UNCHANGED <<buttons, shown, told>>

\* The server refuses the call or skips it as stale, or it never gets there; a setup ends.
failCall(c) ==
  /\ End(c)
  /\ UNCHANGED <<vars, buttons, read, shown, told>>

\* The forms use nothing the pages have fetched, so their calls are served when they are
\* sent.  Every submission of a request has an idempotency key of its own and so is a new
\* one, also the one that repeats a submission whose answer was lost.
submit(r) == Unseen(create(r))

\* Any total may be typed.
seed(b) == Unseen(\E t \in Totals : hcmDrift(b, t))

push(b) == Unseen(\E t \in Totals : refreshBalance(b, t))

(***************************************************************************)
(* The specification                                                       *)
(***************************************************************************)
\* What an administrator types is a call of his page; the HCM itself pushes what it has.
HcmStep == BalanceStep /\ \A b \in Balances : total'[b] \in {total[b], hcmTotal[b]}

SystemStep ==
  \/ \E w \in Workers, e \in Entries : startJob(w, e)
  \/ \E w \in Workers : RunStep(w)
  \/ \E e \in Entries : QueueStep(e)
  \/ HcmStep
  \/ crash

PageStep ==
  \/ \E p \in Pages : fetchRequests(p)
  \/ \E b \in Balances : listForEmployee(b)
  \/ \E r \in Requests :
       \/ submit(r) \/ clickCancel(r) \/ clickForceFail(r)
       \/ \E op \in Decisions : clickApproveOrReject(r, op)
  \/ \E b \in Balances : clickSetup(b) \/ seed(b) \/ push(b)

CallStep(c) == serveDecision(c) \/ serveForceFail(c) \/ serveSetup(c) \/ failCall(c)

ClientNext ==
  \/ Unseen(SystemStep)
  \/ PageStep
  \/ \E c \in BagToSet(calls) : CallStep(c)

ClientSpec == ClientInit /\ [][ClientNext]_clientVars
=============================================================================
