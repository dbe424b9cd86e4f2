------------------------------ MODULE EventLoop ------------------------------
(***************************************************************************)
(* EventBus as asyncio runs it: one thread, a FIFO queue of ready tasks,   *)
(* and asyncio.Queue's FIFO of suspended getters, of which every put wakes *)
(* the first.  The loop and the queue are Python's, modelled from how      *)
(* event_bus.py uses them; each step below is a step of EventBus or leaves *)
(* its state alone, so what holds of EventBus holds here, and here it can  *)
(* be asked whether requests end.                                          *)
(***************************************************************************)
EXTENDS EventBus

CONSTANT Inline   \* the ids for which queue.get() runs in the caller's own task:
                  \* all on 3.12 and later, those without a timeout on 3.11

ASSUME EventLoopAssumption == /\ Inline \subseteq Ids /\ Ids \ Timed \subseteq Inline
                              /\ None \notin Ids

VARIABLES
  ready,     \* tasks that can run, in the order they will
  getters,   \* tasks suspended in queue.get(), the one to wake first in front
  current    \* the task that goes on running, None between two tasks

loopVars == <<ready, getters, current>>
allVars  == <<vars, loopVars>>

QueuesTyped == /\ ready \in Seq(Ids)
               /\ getters \in Seq(Ids)
               /\ current \in Ids \cup {None}

LoopTypeOK == TypeOK /\ QueuesTyped

LoopInit == Init /\ ready = <<>> /\ getters = <<>> /\ current = None

\* It is the turn of the task of id; Rest is the ready queue without it.
Turn(id) == IF current = None THEN ready # <<>> /\ Head(ready) = id
                              ELSE current = id
Rest     == IF current = None THEN Tail(ready) ELSE ready

\* Mutants, for the runs: M_Definition is Definition with a bug.
M_NotWoken == getters            \* the getter woken stays among the suspended

M_GoOn(id, rest) ==              \* the wrong task is queued
  current' = None /\ ready' = Append(rest, current)

M_Drop(id) ==                    \* the wake-up of a dropped getter is lost
  /\ ready' = RemoveFirst(ready, id)
  /\ getters' = RemoveFirst(getters, id)
  /\ UNCHANGED current

\* A put wakes the first getter.
Woken     == IF getters = <<>> THEN <<>> ELSE <<Head(getters)>>
NotWoken  == IF getters = <<>> THEN <<>> ELSE Tail(getters)

\* The task of id goes on with queue.get() or with what it returned: at once,
\* or when the task wait_for made has had its turn.
GoOn(id, rest) == IF id \in Inline
                  THEN current' = id   /\ ready' = rest
                  ELSE current' = None /\ ready' = Append(rest, id)
-----------------------------------------------------------------------------
LoopRequest(id) == /\ current = None
                   /\ Request(id)
                   /\ GoOn(id, ready)
                   /\ UNCHANGED getters

LoopTake(id) == /\ Turn(id)
                /\ Take(id)
                /\ GoOn(id, Rest)
                /\ UNCHANGED getters

\* queue.get() finds the queue empty: the task suspends, also when it had been
\* woken and another task took the item first.
LoopSuspend(id) == /\ Turn(id)
                   /\ pc[id] = "waiting"
                   /\ resolved = <<>>
                   /\ getters' = Append(getters, id)
                   /\ ready' = Rest
                   /\ current' = None
                   /\ UNCHANGED vars

LoopMatch(id) == /\ Turn(id)
                 /\ Match(id)
                 /\ ready' = Rest
                 /\ current' = None
                 /\ UNCHANGED getters

LoopRequeue(id) == /\ Turn(id)
                   /\ Requeue(id)
                   /\ ready' = Append(Rest \o Woken, id)
                   /\ getters' = NotWoken
                   /\ current' = None

LoopResume(id) == /\ Turn(id)
                  /\ Resume(id)
                  /\ GoOn(id, Rest)
                  /\ UNCHANGED getters

\* A suspended getter can be interrupted.  One that was woken takes the item
\* first if it is in a task of its own; else it passes the wake-up on.
Interruptible(id) == pc[id] = "waiting" => Contains(getters, id) \/ id \in Inline

Drop(id) ==
  LET passOn == pc[id] = "waiting" /\ Contains(ready, id) /\ resolved # <<>>
  IN  /\ ready' = RemoveFirst(ready, id) \o (IF passOn THEN Woken ELSE <<>>)
      /\ getters' = IF passOn THEN NotWoken ELSE RemoveFirst(getters, id)
      /\ UNCHANGED current

LoopTimeout(id) == current = None /\ Interruptible(id) /\ Timeout(id) /\ Drop(id)
LoopCancel(id)  == current = None /\ Interruptible(id) /\ Cancel(id) /\ Drop(id)

LoopSee == current = None /\ See /\ UNCHANGED loopVars

LoopAnswer(id, d) == /\ current = None
                     /\ Answer(id, d)
                     /\ ready' = ready \o Woken
                     /\ getters' = NotWoken
                     /\ UNCHANGED current
-----------------------------------------------------------------------------
LoopStep(id) == LoopTake(id) \/ LoopSuspend(id) \/ LoopMatch(id)
                \/ LoopRequeue(id) \/ LoopResume(id)

LoopNext == \/ \E id \in Ids : LoopRequest(id) \/ LoopStep(id)
                               \/ LoopTimeout(id) \/ LoopCancel(id)
            \/ LoopSee
            \/ \E id \in Ids, d \in Decisions : LoopAnswer(id, d)

LoopSpec == LoopInit /\ [][LoopNext]_allVars

\* The loop runs ready tasks, and a timer that is running out fires.  Nothing
\* is asked of the approvers, nor of the tasks that cancel others.
LoopFair == /\ WF_allVars(\E id \in Ids : LoopStep(id))
            /\ \A id \in Ids : WF_allVars(LoopTimeout(id))

FairLoopSpec == LoopSpec /\ LoopFair
-----------------------------------------------------------------------------
(* Properties *)

Answered(id) == \E i \in DOMAIN log : log[i].id = id

\* Every open request has one task, which is in one place once: the ready
\* queue, the getters, or running; no task is there for any other request.
OneTaskEach ==
  \A id \in Ids :
    Occurrences(ready, id) + Occurrences(getters, id)
      + (IF current = id THEN 1 ELSE 0) = IF Open(id) THEN 1 ELSE 0

\* While a resolution lies in the queue and a request is suspended, some task
\* is on its way to the queue: no request sleeps through its own answer
\* because the wake-up for it went to a task that gave up or was overtaken.
NoLostWakeup ==
  resolved # <<>> /\ getters # <<>> =>
    \E id \in Ids : pc[id] = "waiting" /\ ~Contains(getters, id)

\* Why, as an inductive invariant: only requests inside consume are suspended, and
\* while any is, at least as many others are on their way to the queue as there
\* are resolutions in it.
Suspended == \A id \in Ids : Occurrences(getters, id) # 0 => pc[id] = "waiting"
OnTheWay  == {id \in Ids : pc[id] = "waiting" /\ Occurrences(getters, id) = 0}
Enough    == getters # <<>> => Len(resolved) <= Cardinality(OnTheWay)

LoopInv == QueuesTyped /\ OneTaskEach /\ Suspended /\ Enough

\* "Resolutions for other ids are re-queued so concurrent approvals don't
\* steal each other's answers" (event_bus.py:45-47): a request that an
\* approver has answered does not stay open for ever.
AnsweredEnds ==
  \A id \in Ids : (Answered(id) /\ Open(id)) ~> ~Open(id)

\* The parts that the code keeps, for a request that is the only one open.
Alone(id)   == \A i \in Ids \ {id} : ~Open(i)
Foreign(id) == \E i \in DOMAIN resolved : resolved[i].id # id

\* It returns if it was answered, whatever answers to earlier requests lie in its way.
AnsweredEndsAlone ==
  \A id \in Ids :
    (Answered(id) /\ Open(id)) ~> (~Open(id) \/ ~Alone(id))

\* "No approver responded in time -> the run halts" (reasoning_engine.py:245): with a
\* timeout it ends, unless a resolution that is not for it lies in the queue, which it
\* then takes and puts back for ever, each time with the whole timeout before it.
TimeoutEndsAlone ==
  \A id \in Timed : Open(id) ~> (~Open(id) \/ ~Alone(id) \/ Foreign(id))
=============================================================================
