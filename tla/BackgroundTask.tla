---------------------------- MODULE BackgroundTask ----------------------------
(***************************************************************************)
(* The start and stop that WriteWorker (document_store.py) and Scheduler   *)
(* (scheduler.py) share to the letter: a handle on the task that is to     *)
(* serve a queue for ever.  stop awaits the task it cancels, so other      *)
(* calls of start and stop may come in between.                            *)
(***************************************************************************)
EXTENDS Naturals, FiniteSets

CONSTANTS MaxTasks,   \* bound: tasks start creates in all
          Stops,      \* callers of stop
          NoTask      \* the handle is None; a caller is not awaiting a task

Tasks == 1..MaxTasks

ASSUME TaskAssumption == MaxTasks \in Nat \ {0} /\ NoTask \notin Tasks

VARIABLES
  handle,     \* self._task or self._worker
  task,       \* the tasks created so far
  awaiting,   \* the task a caller of stop awaits
  overlapped  \* has start or stop been at work within a stop? (history)

taskVars == <<handle, task, awaiting, overlapped>>

\* A task runs, has been cancelled but has not noticed, is over because it was
\* cancelled, or is over because of an exception.
TaskTypeOK ==
  /\ handle \in Tasks \cup {NoTask}
  /\ task \in [Tasks -> {"none", "running", "cancelling", "cancelled", "died"}]
  /\ awaiting \in [Stops -> Tasks \cup {NoTask}]
  /\ overlapped \in BOOLEAN

TaskInit == /\ handle = NoTask
            /\ task = [t \in Tasks |-> "none"]
            /\ awaiting = [s \in Stops |-> NoTask]
            /\ overlapped = FALSE

Alive(t) == task[t] \in {"running", "cancelling"}
Stopping == \E s \in Stops : awaiting[s] # NoTask
-----------------------------------------------------------------------------
\* start creates a task unless the handle has one that is not over.
Start ==
  /\ handle # NoTask => ~Alive(handle)
  /\ \E t \in Tasks : /\ task[t] = "none"
                      /\ \A u \in 1..(t - 1) : task[u] # "none"
                      /\ task' = [task EXCEPT ![t] = "running"]
                      /\ handle' = t
  /\ overlapped' = (overlapped \/ Stopping)
  /\ UNCHANGED awaiting

\* stop cancels the task and awaits its end.  If it is over already the handle
\* is reset at once; if it died, stop raises its exception and changes nothing.
Stop(s) ==
  /\ awaiting[s] = NoTask
  /\ handle # NoTask
  /\ \/ /\ Alive(handle)
        /\ task' = [task EXCEPT ![handle] = "cancelling"]
        /\ awaiting' = [awaiting EXCEPT ![s] = handle]
        /\ UNCHANGED handle
     \/ /\ task[handle] = "cancelled"
        /\ handle' = NoTask
        /\ UNCHANGED <<task, awaiting>>
  /\ overlapped' = (overlapped \/ Stopping)

\* The cancelled task gets its turn and is over.
TaskCancelled(t) == /\ task[t] = "cancelling"
                    /\ task' = [task EXCEPT ![t] = "cancelled"]
                    /\ UNCHANGED <<handle, awaiting, overlapped>>

\* A mutant, for the runs: stop does not wait for the end of the task.
M_StopReturns(s) == /\ awaiting[s] # NoTask
                    /\ awaiting' = [awaiting EXCEPT ![s] = NoTask]
                    /\ handle' = NoTask
                    /\ UNCHANGED <<task, overlapped>>

\* The task is over: stop goes on, and resets whatever the handle has by now.
StopReturns(s) == /\ awaiting[s] # NoTask
                  /\ ~Alive(awaiting[s])
                  /\ awaiting' = [awaiting EXCEPT ![s] = NoTask]
                  /\ handle' = NoTask
                  /\ UNCHANGED <<task, overlapped>>
-----------------------------------------------------------------------------
\* Unless start and stop were called within a stop, there is one task at a time,
\* and the handle names it: whoever stops the service stops all of it.
OneTask == ~overlapped => \A t \in Tasks : Alive(t) => handle = t

\* With OneTask, an inductive invariant: one stop waits, for the task of the handle.
OneStop ==
  ~overlapped =>
    \A s, u \in Stops : awaiting[s] # NoTask =>
      awaiting[s] = handle /\ (awaiting[u] # NoTask => u = s)
=============================================================================
