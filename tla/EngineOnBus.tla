------------------------------ MODULE EngineOnBus ------------------------------
(***************************************************************************)
(* Runs of the reasoning engine on the event bus itself: what Approvals    *)
(* promises to ReasoningEngine is here what the queues and tasks of        *)
(* EventBus do.  A run that asks for an approval (_execute_tool in         *)
(* runtime/reasoning_engine.py) is inside request_approval, where it takes *)
(* resolutions that are for other runs, late ones and double ones too.     *)
(*                                                                         *)
(* status and decided are history variables: what Approvals makes of the   *)
(* bus.  EngineOnBus implements ReasoningEngine.                           *)
(***************************************************************************)
EXTENDS ReasoningEngine

CONSTANTS None,         \* no resolution taken
          MaxAnswers    \* bound: resolutions the approvers publish in all

VARIABLES requested, resolved, place, held, seen, log    \* EventBus, place is its pc

busVars == <<requested, resolved, place, held, seen, log>>

\* A run has at most one request at a time.
Bus == INSTANCE EventBus WITH Ids <- ApprovalIds,
                              Timed <- TimedRuns \X (1..ToolCallLimit),
                              MaxConcurrent <- Cardinality(Runs), pc <- place

ASSUME OnBusAssumption == /\ IsFiniteSet(Runs) /\ Runs # {}
                          /\ MaxAnswers \in Nat
                          /\ None \notin Bus!Resolution

OnBusInit == Init /\ Bus!Init
-----------------------------------------------------------------------------
Follow == status' = Bus!statusBar' /\ decided' = Bus!decidedBar'

\* What a run does without the bus.
Alone(r) == /\ \/ Start(r) \/ Gateway(r) \/ Exhausted(r) \/ End(r) \/ OverLimit(r)
               \/ \E a \in Actions : Denied(r, a) \/ Allowed(r, a)
            /\ UNCHANGED busVars

BusEscalate(r, a) ==
  /\ NextCall(r, a)
  /\ Evaluate(a) = "require_approval"
  /\ Bus!Request(<<r, Number(r) + 1>>)
  /\ pc' = [pc EXCEPT ![r] = "approval"]
  /\ Follow
  /\ UNCHANGED <<iterations, pending, stop, db, billed, executed>>

\* The task of the run goes round in request_approval.
Round(r) ==
  /\ pc[r] = "approval"
  /\ Bus!Take(Id(r)) \/ Bus!Requeue(Id(r)) \/ Bus!Resume(Id(r))
  /\ UNCHANGED vars

\* Mutants, for the runs: M_Definition is Definition with a bug.
M_BusApproved(r) ==              \* does not look at the decision
  /\ pc[r] = "approval"
  /\ Bus!Match(Id(r))
  /\ LET a == Head(pending[r]) IN Invoke(r, a, Number(r)) \/ NoExecutor(r, a, Number(r))
  /\ Follow
  /\ UNCHANGED <<iterations, calls, stop, row, ledger, billed>>

\* request_approval returns, and the run goes on with the decision.
BusApproved(r) ==
  /\ pc[r] = "approval"
  /\ Bus!Match(Id(r)) /\ held[Id(r)].decision = "approved"
  /\ LET a == Head(pending[r]) IN Invoke(r, a, Number(r)) \/ NoExecutor(r, a, Number(r))
  /\ Follow
  /\ UNCHANGED <<iterations, calls, stop, row, ledger, billed>>

BusRejected(r) ==
  /\ pc[r] = "approval"
  /\ Bus!Match(Id(r)) /\ held[Id(r)].decision # "approved"
  /\ Halt(r)
  /\ Follow

\* request_approval raises: nobody answered in time, or the task was cancelled.
BusTimedOut(r) == pc[r] = "approval" /\ Bus!Timeout(Id(r)) /\ Halt(r) /\ Follow

BusCancelled(r) ==
  /\ pc[r] = "approval"
  /\ Bus!Cancel(Id(r))
  /\ pc' = [pc EXCEPT ![r] = "raised"]
  /\ Follow
  /\ UNCHANGED <<iterations, pending, calls, stop, db, billed, executed>>

\* Approvers, outside the repository.
Approver == /\ Bus!See \/ \E id \in ApprovalIds, d \in Decisions : Bus!Answer(id, d)
            /\ Follow
            /\ UNCHANGED <<local, db, billed, executed>>
-----------------------------------------------------------------------------
OnBusNext == \/ \E r \in Runs : \/ Alone(r) \/ Round(r)
                                \/ \E a \in Actions : BusEscalate(r, a)
                                \/ BusApproved(r) \/ BusRejected(r)
                                \/ BusTimedOut(r) \/ BusCancelled(r)
             \/ Approver

OnBusSpec == OnBusInit /\ [][OnBusNext]_<<vars, busVars>>
-----------------------------------------------------------------------------
(* Properties *)

\* Runs on the bus are runs of ReasoningEngine: however resolutions pass from task to
\* task, are late or come twice, a run sees no more of them than Approvals promises,
\* so that it is gated, audited and within its budget as that module has it.
\* (event_bus.py:43-56, reasoning_engine.py:233-257)
ImplementsEngine == Spec

\* Why, as an inductive invariant with those of the two modules.  A request is
\* pending on the bus exactly while its run waits for it: no task consumes
\* resolutions for a run that went on or is over, and no run waits for a request
\* that has ended.
WaitsOnBus ==
  \A r \in Runs, n \in 1..ToolCallLimit :
    Bus!Open(<<r, n>>) <=> pc[r] = "approval" /\ n = Number(r)

\* A request for a call the run has not taken yet is not made.
NotYetAsked ==
  \A r \in Runs, n \in 1..ToolCallLimit :
    n > Number(r) => place[<<r, n>>] = "idle"

\* The history variables are what Approvals makes of the bus.
Following == status = Bus!statusBar /\ decided = Bus!decidedBar

OnBusInv == IInv /\ Bus!IInv /\ WaitsOnBus /\ NotYetAsked /\ Following
=============================================================================
