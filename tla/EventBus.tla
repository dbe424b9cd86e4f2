------------------------------- MODULE EventBus -------------------------------
(***************************************************************************)
(* agentwright/runtime/event_bus.py: the in-process event bus, and the     *)
(* approval flow over its two queues "approval.requested" and              *)
(* "approval.resolved".                                                    *)
(*                                                                         *)
(* Several tasks sit in request_approval at once, each for its own id, and *)
(* all of them consume the one queue of resolutions.  The steps below are  *)
(* the stretches between two points where another task may run.  Tasks are *)
(* scheduled in any order here; EventLoop adds the order asyncio uses.     *)
(*                                                                         *)
(* On Python 3.11 wait_for runs queue.get() in a task of its own, so other *)
(* tasks may run between Take and Match or Requeue; on 3.12 and later, or  *)
(* with timeout=None, these are one step, a behaviour this module has too. *)
(***************************************************************************)
EXTENDS Naturals, Sequences, FiniteSets, SequencesExt

CONSTANTS Ids,            \* approval ids: one task in request_approval for each
          None,           \* no resolution taken
          Timed,          \* those whose caller passes a timeout
          MaxConcurrent,  \* how many requests the application has open at a time
          MaxAnswers      \* bound: resolutions the approvers publish in all

ASSUME EventBusAssumption ==
         /\ IsFiniteSet(Ids)
         /\ Timed \subseteq Ids
         /\ MaxConcurrent \in Nat \ {0}
         /\ MaxAnswers \in Nat

Decisions  == {"approved", "rejected"}
Resolution == [id : Ids, decision : Decisions]

ASSUME NoneAssumption == None \notin Resolution

VARIABLES
  requested,  \* the queue "approval.requested", as the ids of its payloads
  resolved,   \* the queue "approval.resolved"
  pc,         \* where the task of each id is
  held,       \* what consume returned to it last
  seen,       \* requests an approver has consumed (external)
  log         \* every resolution the approvers published, in order (history)

vars == <<requested, resolved, pc, held, seen, log>>

\* The task of an id is not started; inside consume; has been handed a
\* resolution; in sleep(0); or has left request_approval.
Pending == {"waiting", "taken", "yielded"}
Left    == {"returned", "timedout", "cancelled"}
Place   == {"idle"} \cup Pending \cup Left

Open(id) == pc[id] \in Pending

TypeOK == /\ requested \in Seq(Ids)
          /\ resolved \in Seq(Resolution)
          /\ pc \in [Ids -> Place]
          /\ held \in [Ids -> Resolution \cup {None}]
          /\ seen \in SUBSET Ids
          /\ log \in Seq(Resolution)

Init == /\ requested = <<>>
        /\ resolved  = <<>>
        /\ pc   = [id \in Ids |-> "idle"]
        /\ held = [id \in Ids |-> None]
        /\ seen = {}
        /\ log  = <<>>
-----------------------------------------------------------------------------
(* request_approval *)

\* Mutants, for the runs: M_Definition is Definition with a bug.
M_Match(id) ==           \* takes whatever comes
  /\ pc[id] = "taken"
  /\ pc' = [pc EXCEPT ![id] = "returned"]
  /\ UNCHANGED <<requested, resolved, held, seen, log>>

M_RequeueDrops(id) ==    \* throws away what is another's
  /\ pc[id] = "taken"
  /\ held[id].id # id
  /\ held' = [held EXCEPT ![id] = None]
  /\ pc' = [pc EXCEPT ![id] = "yielded"]
  /\ UNCHANGED <<requested, resolved, seen, log>>

M_RequeueInFront(id) ==  \* puts it back where it came from
  /\ pc[id] = "taken"
  /\ held[id].id # id
  /\ resolved' = <<held[id]>> \o resolved
  /\ held' = [held EXCEPT ![id] = None]
  /\ pc' = [pc EXCEPT ![id] = "yielded"]
  /\ UNCHANGED <<requested, seen, log>>

M_TimeoutUnseen(id) ==   \* not once an approver is at work
  /\ id \in Timed \ seen
  /\ pc[id] = "waiting"
  /\ pc' = [pc EXCEPT ![id] = "timedout"]
  /\ UNCHANGED <<requested, resolved, held, seen, log>>

\* Publishes the request and calls consume for the first time.
Request(id) ==
  /\ pc[id] = "idle"
  /\ Cardinality({i \in Ids : Open(i)}) < MaxConcurrent
  /\ requested' = Append(requested, id)
  /\ pc' = [pc EXCEPT ![id] = "waiting"]
  /\ UNCHANGED <<resolved, held, seen, log>>

\* consume: queue.get() removes the head of the queue, whoever it is for.
Take(id) ==
  /\ pc[id] = "waiting"
  /\ resolved # <<>>
  /\ held' = [held EXCEPT ![id] = Head(resolved)]
  /\ resolved' = Tail(resolved)
  /\ pc' = [pc EXCEPT ![id] = "taken"]
  /\ UNCHANGED <<requested, seen, log>>

\* The resolution is the task's own: request_approval returns it.
Match(id) ==
  /\ pc[id] = "taken"
  /\ held[id].id = id
  /\ pc' = [pc EXCEPT ![id] = "returned"]
  /\ UNCHANGED <<requested, resolved, held, seen, log>>

\* It is another's: it goes to the tail of the queue, and the task sleeps(0).
Requeue(id) ==
  /\ pc[id] = "taken"
  /\ held[id].id # id
  /\ resolved' = Append(resolved, held[id])
  /\ held' = [held EXCEPT ![id] = None]
  /\ pc' = [pc EXCEPT ![id] = "yielded"]
  /\ UNCHANGED <<requested, seen, log>>

\* After sleep(0) the loop calls consume again, with the full timeout again.
Resume(id) ==
  /\ pc[id] = "yielded"
  /\ pc' = [pc EXCEPT ![id] = "waiting"]
  /\ UNCHANGED <<requested, resolved, held, seen, log>>

\* consume raises TimeoutError.  A resolution already handed over wins.
Timeout(id) ==
  /\ id \in Timed
  /\ pc[id] = "waiting"
  /\ pc' = [pc EXCEPT ![id] = "timedout"]
  /\ UNCHANGED <<requested, resolved, held, seen, log>>

\* The caller cancels the task at one of its awaits.  (With a resolution
\* already handed over, wait_for returns it instead of the cancellation.)
Cancel(id) ==
  /\ pc[id] \in {"waiting", "yielded"}
  /\ pc' = [pc EXCEPT ![id] = "cancelled"]
  /\ UNCHANGED <<requested, resolved, held, seen, log>>
-----------------------------------------------------------------------------
(* Approvers: outside the repository; they consume requests and publish     *)
(* resolutions at their own pace, also about requests that have ended, and  *)
(* more than once about the same request.                                   *)

See == /\ requested # <<>>
       /\ seen' = seen \cup {Head(requested)}
       /\ requested' = Tail(requested)
       /\ UNCHANGED <<resolved, pc, held, log>>

Answer(id, d) ==
  /\ id \in seen
  /\ Len(log) < MaxAnswers
  /\ LET r == [id |-> id, decision |-> d]
     IN  /\ resolved' = Append(resolved, r)
         /\ log' = Append(log, r)
  /\ UNCHANGED <<requested, pc, held, seen>>
-----------------------------------------------------------------------------
Step(id) == Take(id) \/ Match(id) \/ Requeue(id) \/ Resume(id)

Next == \/ \E id \in Ids : Request(id) \/ Step(id) \/ Timeout(id) \/ Cancel(id)
        \/ See
        \/ \E id \in Ids, d \in Decisions : Answer(id, d)

Spec == Init /\ [][Next]_vars
-----------------------------------------------------------------------------
(* Properties *)

Occurrences(s, r) == Cardinality({i \in DOMAIN s : s[i] = r})

\* Requests never steal, lose or duplicate a resolution: however often the
\* tasks pass resolutions around, each one published is in the queue, in the
\* hands of one task, or was returned by one request, and no other exists.
\* (event_bus.py:51-56)
Conservation ==
  \A r \in Resolution :
    Occurrences(log, r) = Occurrences(resolved, r)
                          + Cardinality({id \in Ids : held[id] = r})

\* The abstract state: what has become of each request, and which decisions
\* have been published about it.
statusBar ==
  [id \in Ids |-> IF pc[id] \in Pending THEN "open"
                  ELSE IF pc[id] = "returned" THEN held[id].decision
                  ELSE pc[id]]
decidedBar ==
  [id \in Ids |-> {r.decision : r \in {q \in ToSet(log) : q.id = id}}]

Abs == INSTANCE Approvals WITH status <- statusBar, decided <- decidedBar

\* The bus implements Approvals: a request is decided by an approver of that
\* request or ends undecided, and its outcome never changes afterwards.
ImplementsApprovals == Abs!AbsSpec

\* Why the bus implements Approvals, as an inductive invariant: what is in the
\* queue or in a task's hands was published, what a request returns has its id,
\* and approvers only know of requests that were made.
QueuePublished == ToSet(resolved) \subseteq ToSet(log)
HandsPublished == \A id \in Ids : pc[id] \in {"taken", "returned"}
                                    => held[id] \in ToSet(log)
HandsEmpty     == \A id \in Ids : pc[id] \notin {"taken", "returned"}
                                    => held[id] = None
OwnAnswer      == \A id \in Ids : pc[id] = "returned" => held[id].id = id
KnownMade      == \A id \in ToSet(requested) \cup seen : pc[id] # "idle"
LogMade        == \A r \in ToSet(log) : r.id \in seen

IInv == /\ TypeOK /\ QueuePublished /\ HandsPublished /\ HandsEmpty
        /\ OwnAnswer /\ KnownMade /\ LogMade
=============================================================================
