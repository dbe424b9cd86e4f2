--------------------------- MODULE ReasoningEngine ---------------------------
(***************************************************************************)
(* agentwright/runtime/reasoning_engine.py: runs of an agent, with the     *)
(* gateway's budget check and the rows of the system database they leave.  *)
(*                                                                         *)
(* A run has one await, the approval of a tool call; what lies between two *)
(* awaits is cut here at every gateway call and every tool call.  Runs may *)
(* then interleave more than they do, which only adds behaviours.  The     *)
(* approval flow is the one Approvals promises.                            *)
(*                                                                         *)
(* A database call is a statement and a commit, and either may raise.  If  *)
(* the commit does, the row stays in the transaction of the one connection *)
(* that all runs share, where the next commit makes it permanent: row,     *)
(* ledger and audit have it.  SystemFile has the transactions.             *)
(***************************************************************************)
EXTENDS Policy, FiniteSets

CONSTANTS
  Runs,           \* calls of ReasoningEngine.run, each with a run_id of its own
  TimedRuns,      \* those whose approval_timeout is not None
  LedgerRuns,     \* those the gateway finds in a system_db, which it need not have
  Executors,      \* the actions the caller passed an executor for
  Completions,    \* the sequences of tool calls a completion may ask for
  Costs,          \* what the provider may charge for a call, in cost units
  Budget,         \* max_cost_per_run_usd, in cost units
  MaxIterations,  \* loop.max_iterations
  ToolCallLimit   \* loop.tool_call_limit

ASSUME EngineAssumption ==
         /\ TimedRuns \subseteq Runs
         /\ LedgerRuns \subseteq Runs
         /\ Executors \subseteq Actions
         /\ Completions \subseteq Seq(Actions) \ {<<>>}
         /\ Costs \subseteq Nat
         /\ Budget \in Nat
         /\ MaxIterations \in Nat \ {0}
         /\ ToolCallLimit \in Nat \ {0}

VARIABLES
  pc,          \* where each run is
  iterations,  \* gateway calls it has made
  pending,     \* tool calls of the last completion still to process
  calls,       \* all_tool_calls
  stop,        \* stop_reason
  row,         \* its row in table runs
  ledger,      \* the sum of its rows in table cost_ledger
  audit,       \* its rows in table action_audit, and of which call each is
  billed,      \* what the provider has charged (external, history)
  executed,    \* numbers of the calls whose executor was invoked (history)
  status,      \* of its requests for approval (Approvals)
  decided      \* the decisions given about them (Approvals)

local == <<pc, iterations, pending, calls, stop>>
db    == <<row, ledger, audit>>
appr  == <<status, decided>>
vars  == <<local, db, billed, executed, appr>>

\* A request for approval is named by its run and the number of the call.
ApprovalIds == Runs \X (1..ToolCallLimit)
Decisions   == {"approved", "rejected"}

Ap == INSTANCE Approvals WITH Ids <- ApprovalIds

Outcomes    == {"success", "failed", "denied", "approval_pending"}
StopReasons == {"done", "budget_exceeded", "iteration_limit", "human_required"}
Row == [status : {"none", "running", "done", "failed"},
        stop : StopReasons \cup {"none"}, cost : Nat]

NoRow == [status |-> "none", stop |-> "none", cost |-> 0]

AuditRow == [call : 1..ToolCallLimit, action : Actions, outcome : Outcomes]

TypeOK ==
  /\ pc \in [Runs -> {"idle", "loop", "calls", "approval", "ending",
                      "returned", "raised"}]
  /\ iterations \in [Runs -> 0..MaxIterations]
  /\ pending \in [Runs -> Seq(Actions)]
  /\ calls \in [Runs -> Seq(Actions)]
  /\ stop \in [Runs -> StopReasons]
  /\ row \in [Runs -> Row]
  /\ ledger \in [Runs -> Nat]
  /\ audit \in [Runs -> Seq(AuditRow)]
  /\ billed \in [Runs -> Nat]
  /\ executed \in [Runs -> SUBSET (1..ToolCallLimit)]
  /\ Ap!AbsTypeOK

Init ==
  /\ pc = [r \in Runs |-> "idle"]
  /\ iterations = [r \in Runs |-> 0]
  /\ pending = [r \in Runs |-> <<>>]
  /\ calls = [r \in Runs |-> <<>>]
  /\ stop = [r \in Runs |-> "iteration_limit"]
  /\ row = [r \in Runs |-> NoRow]
  /\ ledger = [r \in Runs |-> 0]
  /\ audit = [r \in Runs |-> <<>>]
  /\ billed = [r \in Runs |-> 0]
  /\ executed = [r \in Runs |-> {}]
  /\ Ap!AbsInit
-----------------------------------------------------------------------------
(* run: the loop over gateway calls *)

\* start_run writes the row or raises; then the context is assembled, and the
\* memory it is recalled from may raise.
Start(r) ==
  /\ pc[r] = "idle"
  /\ \/ /\ row' = [row EXCEPT ![r].status = "running"]
        /\ \E to \in {"loop", "raised"} : pc' = [pc EXCEPT ![r] = to]
     \/ pc' = [pc EXCEPT ![r] = "raised"] /\ UNCHANGED row
  /\ UNCHANGED <<iterations, pending, calls, stop, ledger, audit, billed,
                 executed, appr>>

\* The run leaves its loop for a reason; End follows without an await.
StopFor(r, reason) == /\ stop' = [stop EXCEPT ![r] = reason]
                      /\ pc' = [pc EXCEPT ![r] = "ending"]

\* Mutants, for the runs: M_Definition is Definition with a bug.
M_Remaining(r) == Budget         \* forgets what was spent

Remaining(r) == Budget - ledger[r]

M_Iterate(r) ==                  \* one iteration too many
  /\ pc[r] = "loop"
  /\ iterations[r] <= MaxIterations
  /\ iterations' = [iterations EXCEPT ![r] = @ + 1]

Iterate(r) == /\ pc[r] = "loop"
              /\ iterations[r] < MaxIterations
              /\ iterations' = [iterations EXCEPT ![r] = @ + 1]

\* The gateway refuses to call the provider when nothing is left.
NoBudget(r) ==
  /\ Iterate(r)
  /\ Remaining(r) <= 0
  /\ StopFor(r, "budget_exceeded")
  /\ UNCHANGED <<pending, calls, db, billed, executed, appr>>

\* The provider answers, and charges more than was left: the gateway drops
\* the answer and writes nothing to the ledger.
OverBudget(r) ==
  /\ Iterate(r)
  /\ Remaining(r) > 0
  /\ \E c \in Costs : /\ c > Remaining(r)
                      /\ billed' = [billed EXCEPT ![r] = @ + c]
  /\ StopFor(r, "budget_exceeded")
  /\ UNCHANGED <<pending, calls, db, executed, appr>>

\* The provider answers within the budget; the gateway writes the ledger, if it has
\* a system_db that knows the run.
Completed(r) ==
  /\ Iterate(r)
  /\ Remaining(r) > 0
  /\ \E c \in Costs :
       /\ c <= Remaining(r)
       /\ billed' = [billed EXCEPT ![r] = @ + c]
       /\ ledger' = IF r \in LedgerRuns THEN [ledger EXCEPT ![r] = @ + c]
                                        ELSE ledger

FinalAnswer(r) ==
  /\ Completed(r)
  /\ StopFor(r, "done")
  /\ UNCHANGED <<pending, calls, row, audit, executed, appr>>

ToolUse(r) ==
  /\ Completed(r)
  /\ \E s \in Completions : pending' = [pending EXCEPT ![r] = s]
  /\ pc' = [pc EXCEPT ![r] = "calls"]
  /\ UNCHANGED <<calls, stop, row, audit, executed, appr>>

\* The provider fails on every attempt: complete raises, and so does run.
GatewayRaises(r) ==
  /\ Iterate(r)
  /\ Remaining(r) > 0
  /\ pc' = [pc EXCEPT ![r] = "raised"]
  /\ UNCHANGED <<pending, calls, stop, db, billed, executed, appr>>

\* The provider has charged, and get_run or record_cost raises, the latter perhaps
\* at its commit; run raises with it.
LedgerRaises(r) ==
  /\ Iterate(r)
  /\ Remaining(r) > 0
  /\ \E c \in Costs :
       /\ c <= Remaining(r)
       /\ billed' = [billed EXCEPT ![r] = @ + c]
       /\ \/ r \in LedgerRuns /\ ledger' = [ledger EXCEPT ![r] = @ + c]
          \/ UNCHANGED ledger
  /\ pc' = [pc EXCEPT ![r] = "raised"]
  /\ UNCHANGED <<pending, calls, stop, row, audit, executed, appr>>

\* The for loop ends: stop_reason is still the one it started with.
Exhausted(r) ==
  /\ pc[r] = "loop"
  /\ iterations[r] = MaxIterations
  /\ pc' = [pc EXCEPT ![r] = "ending"]
  /\ UNCHANGED <<iterations, pending, calls, stop, db, billed, executed, appr>>

M_End(r) ==                      \* a run that needs a human did its work
  /\ pc[r] = "ending"
  /\ row' = [row EXCEPT ![r] =
               [status |-> IF stop[r] \in {"done", "human_required"}
                           THEN "done" ELSE "failed",
                stop |-> stop[r], cost |-> ledger[r]]]
  /\ pc' = [pc EXCEPT ![r] = "returned"]
  /\ UNCHANGED <<iterations, pending, calls, stop, ledger, audit, billed,
                 executed, appr>>

\* end_run closes the row with the cost the ledger has, or raises; after it the
\* transcript and the memory are written, and either may raise as well.
End(r) ==
  /\ pc[r] = "ending"
  /\ \/ /\ row' = [row EXCEPT ![r] =
                     [status |-> IF stop[r] = "done" THEN "done" ELSE "failed",
                      stop |-> stop[r], cost |-> ledger[r]]]
        /\ \E to \in {"returned", "raised"} : pc' = [pc EXCEPT ![r] = to]
     \/ pc' = [pc EXCEPT ![r] = "raised"] /\ UNCHANGED row
  /\ UNCHANGED <<iterations, pending, calls, stop, ledger, audit, billed,
                 executed, appr>>
-----------------------------------------------------------------------------
(* _execute_tool, and the loop over the calls of a completion *)

Number(r) == Len(calls[r])          \* of the call being processed
Id(r)     == <<r, Number(r)>>       \* of its request for approval

\* The next call a is taken from the completion, and is within the limit.
NextCall(r, a) ==
  /\ pc[r] = "calls"
  /\ a = Head(pending[r])
  /\ Len(calls[r]) < ToolCallLimit
  /\ calls' = [calls EXCEPT ![r] = Append(@, a)]

OverLimit(r) ==
  /\ pc[r] = "calls"
  /\ Len(calls[r]) >= ToolCallLimit
  /\ calls' = [calls EXCEPT ![r] = Append(@, Head(pending[r]))]
  /\ StopFor(r, "iteration_limit")
  /\ UNCHANGED <<iterations, pending, db, billed, executed, appr>>

\* On to the next call, or to the next iteration.
Proceed(r) == /\ pending' = [pending EXCEPT ![r] = Tail(@)]
              /\ pc' = [pc EXCEPT ![r] = IF Tail(pending[r]) = <<>>
                                         THEN "loop" ELSE "calls"]

Record(r, n, a, outcome) ==
  audit' = [audit EXCEPT ![r] = Append(@, [call |-> n, action |-> a, outcome |-> outcome])]

Raises(r) == pc' = [pc EXCEPT ![r] = "raised"] /\ UNCHANGED pending

\* record_action raises (a locked or full database, inputs json cannot write) before
\* its row is inserted or after, and so does run.
RecordRaises(r, n, a, outcome) == /\ Raises(r)
                                  /\ UNCHANGED audit \/ Record(r, n, a, outcome)

Denied(r, a) ==
  /\ NextCall(r, a)
  /\ Evaluate(a) = "deny"
  /\ \/ Record(r, Number(r) + 1, a, "denied") /\ Proceed(r)
     \/ RecordRaises(r, Number(r) + 1, a, "denied")
  /\ UNCHANGED <<iterations, stop, row, ledger, billed, executed, appr>>

\* The success row was inserted and its commit raised: a failed row follows it.
RecordBoth(r, n, a) ==
  audit' = [audit EXCEPT ![r] = Append(Append(@,
                [call |-> n, action |-> a, outcome |-> "success"]),
                [call |-> n, action |-> a, outcome |-> "failed"])]

\* The executor of call n is invoked.  What it raises and what the record of its
\* success raises is caught, and recorded as a failure, which may raise in its turn.
\* A result that json cannot write makes run raise after its record.
Invoke(r, a, n) ==
  /\ a \in Executors
  /\ executed' = [executed EXCEPT ![r] = @ \cup {n}]
  /\ \/ Record(r, n, a, "success") /\ (Proceed(r) \/ Raises(r))
     \/ Record(r, n, a, "failed") /\ Proceed(r)
     \/ RecordBoth(r, n, a) /\ (Proceed(r) \/ Raises(r))
     \/ RecordRaises(r, n, a, "failed")

NoExecutor(r, a, n) ==
  /\ a \notin Executors
  /\ \/ Record(r, n, a, "failed") /\ Proceed(r)
     \/ RecordRaises(r, n, a, "failed")
  /\ UNCHANGED executed

Allowed(r, a) ==
  /\ NextCall(r, a)
  /\ Evaluate(a) = "allow"
  /\ LET n == Number(r) + 1 IN Invoke(r, a, n) \/ NoExecutor(r, a, n)
  /\ UNCHANGED <<iterations, stop, row, ledger, billed, appr>>

\* The call needs an approval: request_approval, the one await of a run.
Escalate(r, a) ==
  /\ NextCall(r, a)
  /\ Evaluate(a) = "require_approval"
  /\ pc' = [pc EXCEPT ![r] = "approval"]
  /\ Ap!Open(<<r, Number(r) + 1>>)
  /\ UNCHANGED <<iterations, pending, stop, db, billed, executed>>

M_ApprovedAny(r) ==              \* does not look at the decision
  /\ pc[r] = "approval"
  /\ Ap!Close(Id(r))
  /\ LET a == Head(pending[r]) IN Invoke(r, a, Number(r)) \/ NoExecutor(r, a, Number(r))
  /\ UNCHANGED <<iterations, calls, stop, row, ledger, billed>>

M_ApprovedLate(r) ==             \* acts on a decision whenever it comes
  /\ pc[r] \in {"approval", "ending"}
  /\ pending[r] # <<>>
  /\ "approved" \in decided[Id(r)]
  /\ LET a == Head(pending[r]) IN Invoke(r, a, Number(r)) \/ NoExecutor(r, a, Number(r))
  /\ UNCHANGED <<iterations, calls, stop, row, ledger, billed, appr>>

Approved(r) ==
  /\ pc[r] = "approval"
  /\ Ap!Close(Id(r)) /\ status'[Id(r)] = "approved"
  /\ LET a == Head(pending[r]) IN Invoke(r, a, Number(r)) \/ NoExecutor(r, a, Number(r))
  /\ UNCHANGED <<iterations, calls, stop, row, ledger, billed>>

M_Halt(r) ==                     \* leaves no trace of the call
  /\ StopFor(r, "human_required")
  /\ UNCHANGED <<iterations, pending, calls, db, billed, executed>>

\* A refusal and a timeout leave the same audit row, and both halt the run.
Halt(r) ==
  /\ \/ /\ Record(r, Number(r), Head(pending[r]), "approval_pending")
        /\ StopFor(r, "human_required")
        /\ UNCHANGED pending
     \/ /\ RecordRaises(r, Number(r), Head(pending[r]), "approval_pending")
        /\ UNCHANGED stop
  /\ UNCHANGED <<iterations, calls, row, ledger, billed, executed>>

Rejected(r) ==
  /\ pc[r] = "approval"
  /\ Ap!Close(Id(r)) /\ status'[Id(r)] = "rejected"
  /\ Halt(r)

M_TimedOut(r) ==                 \* the TimeoutError is swallowed
  /\ r \in TimedRuns
  /\ pc[r] = "approval"
  /\ Ap!Expire(Id(r))
  /\ UNCHANGED <<local, db, billed, executed>>

TimedOut(r) == /\ r \in TimedRuns
               /\ pc[r] = "approval"
               /\ Ap!Expire(Id(r))
               /\ Halt(r)

\* The task of the run is cancelled while it waits: nothing is recorded.
Cancelled(r) ==
  /\ pc[r] = "approval"
  /\ Ap!Abandon(Id(r))
  /\ pc' = [pc EXCEPT ![r] = "raised"]
  /\ UNCHANGED <<iterations, pending, calls, stop, db, billed, executed>>

\* Approvers, outside the repository.
Decide(id, d) == Ap!Decide(id, d) /\ UNCHANGED <<local, db, billed, executed>>
-----------------------------------------------------------------------------
Gateway(r) == \/ NoBudget(r) \/ OverBudget(r) \/ FinalAnswer(r) \/ ToolUse(r)
              \/ GatewayRaises(r) \/ LedgerRaises(r)

Tool(r) == \/ OverLimit(r)
           \/ \E a \in Actions : Denied(r, a) \/ Allowed(r, a) \/ Escalate(r, a)

Next == \/ \E r \in Runs : \/ Start(r) \/ Gateway(r) \/ Exhausted(r) \/ End(r)
                           \/ Tool(r)
                           \/ Approved(r) \/ Rejected(r) \/ TimedOut(r)
                           \/ Cancelled(r)
        \/ \E id \in ApprovalIds, d \in Decisions : Decide(id, d)

Spec == Init /\ [][Next]_vars

\* Between its awaits a run goes on.  Nothing is asked of the approvers, nor of the
\* bus: that it hands over a decision, or that the timeout fires, is not assumed.
Fair == \A r \in Runs : WF_vars(Gateway(r) \/ Exhausted(r) \/ End(r) \/ Tool(r))

FairSpec == Spec /\ Fair
-----------------------------------------------------------------------------
(* Properties *)

Closed(r) == row[r].status \in {"done", "failed"}

\* Every tool call is gated (runtime/README.md:69-71): an executor is invoked
\* only for an action the policy allows, or whose policy asks for approval and
\* for which an approver approved this very call of this very run.
NeverUngated ==
  \A r \in Runs : \A n \in executed[r] :
    LET a == calls[r][n]
    IN  \/ Evaluate(a) = "allow"
        \/ Evaluate(a) = "require_approval" /\ "approved" \in decided[<<r, n>>]

\* Every call has its audit row, in order and with an outcome that agrees with
\* what was done; only the last call may have none, while it waits for its
\* approval, beyond the limit, or when the run raised over it.  A call has a second
\* row only after one that says it succeeded (reasoning_engine.py:267-270).
Rowed(rows) == {rows[i].call : i \in 1..Len(rows)}

Audited ==
  \A r \in Runs :
    LET rows  == audit[r]
        taken == 1..Len(calls[r])
    IN  /\ \/ Rowed(rows) = taken
           \/ /\ Rowed(rows) = taken \ {Len(calls[r])}
              /\ \/ pc[r] \in {"approval", "raised"}
                 \/ stop[r] = "iteration_limit" /\ Len(calls[r]) > ToolCallLimit
        /\ \A i \in 1..Len(rows) :
             /\ rows[i].action = calls[r][rows[i].call]
             /\ rows[i].call \in executed[r] <=>
                  rows[i].action \in Executors /\ rows[i].outcome \in {"success", "failed"}
        /\ \A i, j \in 1..Len(rows) : i < j =>
             \/ rows[i].call < rows[j].call
             \/ /\ rows[i].call = rows[j].call
                /\ rows[i].outcome = "success" /\ rows[j].outcome = "failed"

\* A run's ledger never exceeds its budget, over all its calls.  It lacks what the
\* provider charged only for a run that was stopped by the budget or by an error, or
\* that the gateway does not find in its system_db (real_backends.py:244-250); the
\* latter's ledger stays empty, and nothing is deducted from its budget.
BudgetKept ==
  \A r \in Runs :
    /\ ledger[r] <= Budget
    /\ billed[r] # ledger[r] =>
         stop[r] = "budget_exceeded" \/ pc[r] = "raised" \/ r \notin LedgerRuns
    /\ r \notin LedgerRuns => ledger[r] = 0

\* The row of a run that is over tells the truth for ever: done exactly if the
\* model finished, and the cost of its ledger, which grows no more.
RowAgrees ==
  \A r \in Runs :
    /\ Closed(r) => /\ row[r].status = "done" <=> stop[r] = "done"
                    /\ row[r].stop = stop[r]
                    /\ row[r].cost = ledger[r]
    /\ pc[r] = "returned" => Closed(r)

\* "A missing approval halts" (reasoning_engine.py:257): once a run has left its
\* loop, for whatever reason, no late decision or remaining call makes it call
\* a tool or the provider, or write to the database again, but to close its row.
HaltIsFinal ==
  [][\A r \in Runs :
       pc[r] \in {"ending", "returned", "raised"} =>
         /\ UNCHANGED <<executed[r], billed[r], ledger[r], audit[r], calls[r]>>
         /\ pc[r] # "ending" => row'[r] = row[r]]_vars

\* Whatever the model asks for and whatever raises, a run that was started returns or
\* raises, or waits for ever for an approval that the bus keeps open; once the bus
\* has ended the request, also by the timeout, the run goes on to its end.
EveryRunEnds ==
  \A r \in Runs :
    pc[r] = "loop" ~> \/ pc[r] \in {"returned", "raised"}
                      \/ [](pc[r] = "approval" /\ status[Id(r)] = "open")

\* The inductive invariant behind NeverUngated and BudgetKept: a run that has
\* calls to process has one in hand; one that waits for an approval waits for the
\* last call it took; what has been invoked is among the calls it took; and the
\* provider is ahead of the ledger only of a run that will not call it again.
AtWork ==
  \A r \in Runs :
    /\ pc[r] \in {"calls", "approval"} => pending[r] # <<>>
    /\ pc[r] = "approval" =>
         /\ Number(r) \in 1..ToolCallLimit
         /\ calls[r][Number(r)] = Head(pending[r])
         /\ Evaluate(Head(pending[r])) = "require_approval"

InvokedTaken == \A r \in Runs : executed[r] \subseteq 1..Number(r)

BilledAhead ==
  \A r \in LedgerRuns :
    billed[r] # ledger[r] =>
      \/ stop[r] = "budget_exceeded" /\ pc[r] \in {"ending", "returned"}
      \/ pc[r] = "raised"

IInv == /\ TypeOK /\ AtWork /\ InvokedTaken /\ NeverUngated
        /\ BudgetKept /\ BilledAhead

\* The inductive invariants behind Audited and RowAgrees, run by run.  The rows are
\* those of all calls but for a last one that waits, was beyond the limit or was
\* raised over; they agree with the calls and with what was invoked, and are in order;
\* and only a run that raised may have invoked a call that has no row.
InStep(p, s, rowed, n) ==
  \/ rowed = 1..n /\ p # "approval"
  \/ /\ n > 0 /\ rowed = 1..(n - 1)
     /\ \/ p \in {"approval", "raised"}
        \/ /\ p \in {"ending", "returned"}
           /\ s = "iteration_limit" /\ n > ToolCallLimit

RowsTrue(rows, cs, done) ==
  \A i \in 1..Len(rows) :
    /\ rows[i].action = cs[rows[i].call]
    /\ rows[i].call \in done <=>
         rows[i].action \in Executors /\ rows[i].outcome \in {"success", "failed"}

RowsInOrder(rows) ==
  \A i, j \in 1..Len(rows) : i < j =>
    \/ rows[i].call < rows[j].call
    \/ /\ rows[i].call = rows[j].call
       /\ rows[i].outcome = "success" /\ rows[j].outcome = "failed"

AuditOf(r) == /\ InStep(pc[r], stop[r], Rowed(audit[r]), Len(calls[r]))
              /\ RowsTrue(audit[r], calls[r], executed[r])
              /\ RowsInOrder(audit[r])
              /\ pc[r] # "raised" => executed[r] \subseteq Rowed(audit[r])

AuditInv == \A r \in Runs : AuditOf(r)

\* A closed row is the row of a run that is over.
RowOf(r) == /\ Closed(r) => /\ pc[r] \in {"returned", "raised"}
                            /\ row[r].status = "done" <=> stop[r] = "done"
                            /\ row[r].stop = stop[r]
                            /\ row[r].cost = ledger[r]
            /\ pc[r] = "returned" => Closed(r)

RowInv == \A r \in Runs : RowOf(r)

\* What a run still has before it: gateway calls, tool calls, of which the one
\* beyond the limit is the last, and the way to its end.  Every step of a run
\* uses some of it up, and nothing else any: why EveryRunEnds holds.
Way(p) == CASE p = "idle"                  -> 4
            [] p = "approval"              -> 3
            [] p \in {"loop", "calls"}     -> 2
            [] p = "ending"                -> 1
            [] p \in {"returned", "raised"} -> 0

StepsLeft(r) == (MaxIterations - iterations[r])
                  + 2 * (ToolCallLimit + 1 - Len(calls[r])) + Way(pc[r])

LimitKept ==
  \A r \in Runs :
    Len(calls[r]) <= IF pc[r] \in {"ending", "returned", "raised"}
                     THEN ToolCallLimit + 1 ELSE ToolCallLimit

RunsWearOut ==
  [][ \/ \E r \in Runs : /\ StepsLeft(r)' < StepsLeft(r)
                         /\ \A q \in Runs \ {r} : StepsLeft(q)' = StepsLeft(q)
      \/ UNCHANGED <<local, db, billed, executed, status>> ]_vars
=============================================================================
