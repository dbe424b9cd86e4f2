------------------------------ MODULE WriteWorker ------------------------------
(***************************************************************************)
(* agentwright/runtime/document_store.py, class WriteWorker: callers of    *)
(* submit queue their writes and wait; one task applies them in order.     *)
(*                                                                         *)
(* A worker task applies what is in the queue without an await in between; *)
(* here it is cut after every write, which only adds behaviours.           *)
(***************************************************************************)
EXTENDS BackgroundTask, SequencesExt

CONSTANTS Writes,    \* calls of submit, each with a write of its own
          Failing    \* the writes that raise

ASSUME WriteAssumption == Failing \subseteq Writes

VARIABLES
  queue,      \* the writes queued
  future,     \* what submit awaits
  caller,     \* where the caller of submit is
  submitted,  \* the writes queued so far, in order (history)
  applied     \* the writes the worker has called, in order (history)

writeVars == <<queue, future, caller, submitted, applied>>
vars      == <<writeVars, taskVars>>

TypeOK == /\ TaskTypeOK
          /\ queue \in Seq(Writes)
          /\ future \in [Writes -> {"none", "pending", "result", "exception",
                                    "cancelled"}]
          /\ caller \in [Writes -> {"idle", "waiting", "returned", "raised",
                                    "cancelled"}]
          /\ submitted \in Seq(Writes)
          /\ applied \in Seq(Writes)

Init == /\ TaskInit
        /\ queue = <<>>
        /\ future = [w \in Writes |-> "none"]
        /\ caller = [w \in Writes |-> "idle"]
        /\ submitted = <<>>
        /\ applied = <<>>
-----------------------------------------------------------------------------
Submit(w) ==
  /\ caller[w] = "idle"
  /\ caller' = [caller EXCEPT ![w] = "waiting"]
  /\ future' = [future EXCEPT ![w] = "pending"]
  /\ queue' = Append(queue, w)
  /\ submitted' = Append(submitted, w)
  /\ UNCHANGED <<applied, taskVars>>

\* Mutants, for the runs: M_Definition is Definition with a bug.
M_ApplyLast(t) ==        \* applies the latest write first
  /\ task[t] = "running"
  /\ queue # <<>>
  /\ LET w == queue[Len(queue)]
     IN  /\ queue' = SubSeq(queue, 1, Len(queue) - 1)
         /\ applied' = Append(applied, w)
         /\ future' = [future EXCEPT ![w] = "result"]
  /\ UNCHANGED <<task, caller, submitted, handle, awaiting, overlapped>>

M_ApplySwallows(t) ==    \* a write that raises is nobody's business
  /\ task[t] = "running"
  /\ queue # <<>>
  /\ LET w == Head(queue)
     IN  /\ queue' = Tail(queue)
         /\ applied' = Append(applied, w)
         /\ future' = IF w \in Failing THEN future
                      ELSE [future EXCEPT ![w] = "result"]
  /\ UNCHANGED <<task, caller, submitted, handle, awaiting, overlapped>>

\* The worker takes a write, calls it, and sets the future of its caller.  If
\* the caller was cancelled, so is the future: set_result raises, and so does
\* the set_exception that is to report it, and the worker dies of it.
Apply(t) ==
  /\ task[t] = "running"
  /\ queue # <<>>
  /\ LET w == Head(queue)
     IN  /\ queue' = Tail(queue)
         /\ applied' = Append(applied, w)
         /\ IF future[w] = "cancelled"
            THEN task' = [task EXCEPT ![t] = "died"] /\ UNCHANGED future
            ELSE /\ future' = [future EXCEPT
                                 ![w] = IF w \in Failing THEN "exception" ELSE "result"]
                 /\ UNCHANGED task
  /\ UNCHANGED <<caller, submitted, handle, awaiting, overlapped>>

M_Return(w) ==           \* the caller's state is its future's
  /\ caller[w] = "waiting"
  /\ future[w] # "pending"
  /\ caller' = [caller EXCEPT ![w] = future[w]]
  /\ UNCHANGED <<queue, future, submitted, applied, taskVars>>

\* The caller goes on with what its future has.
Return(w) ==
  /\ caller[w] = "waiting"
  /\ \/ future[w] = "result"    /\ caller' = [caller EXCEPT ![w] = "returned"]
     \/ future[w] = "exception" /\ caller' = [caller EXCEPT ![w] = "raised"]
  /\ UNCHANGED <<queue, future, submitted, applied, taskVars>>

\* The caller's task is cancelled, and with it the future it awaits.  The write
\* stays in the queue.
CancelCaller(w) ==
  /\ caller[w] = "waiting"
  /\ caller' = [caller EXCEPT ![w] = "cancelled"]
  /\ future' = [future EXCEPT ![w] = IF @ = "pending" THEN "cancelled" ELSE @]
  /\ UNCHANGED <<queue, submitted, applied, taskVars>>
-----------------------------------------------------------------------------
Task == \/ Start
        \/ \E s \in Stops : Stop(s) \/ StopReturns(s)
        \/ \E t \in Tasks : TaskCancelled(t)

Next == \/ \E w \in Writes : Submit(w) \/ Return(w) \/ CancelCaller(w)
        \/ \E t \in Tasks : Apply(t)
        \/ Task /\ UNCHANGED writeVars

Spec == Init /\ [][Next]_vars

\* The event loop runs a worker that has something to do and a caller that has
\* its answer.  Nobody has to call start, stop or submit.
Fair == /\ WF_vars(\E t \in Tasks : Apply(t))
        /\ \A w \in Writes : WF_vars(Return(w))

FairSpec == Spec /\ Fair
-----------------------------------------------------------------------------
(* Properties *)

\* Every write submitted is called once and in the order of submission, or still
\* queued: none is lost, repeated or overtaken when workers stop, die and start.
\* (document_store.py:104, "wait until it has been applied")
InOrder == submitted = applied \o queue

\* A caller is told the truth: submit returns only when its write was applied and
\* raises only when it failed, and a caller that still waits has its write in the
\* queue or its answer ready, so a worker is all it takes.
ToldTheTruth ==
  \A w \in Writes :
    /\ caller[w] = "returned" => w \in ToSet(applied) \ Failing
    /\ caller[w] = "raised" => w \in ToSet(applied) \cap Failing
    /\ caller[w] = "waiting" =>
         IF w \in ToSet(queue) THEN future[w] = "pending"
         ELSE future[w] \in {"result", "exception"}

\* The inductive invariant behind these: a write is queued or called once, by a
\* caller that did submit, and its future is as far as the write is.
QueuedOnce ==
  /\ \A i, j \in DOMAIN queue : queue[i] = queue[j] => i = j
  /\ \A w \in ToSet(queue) : w \notin ToSet(applied)
  /\ \A w \in ToSet(queue) \cup ToSet(applied) : caller[w] # "idle"

FutureKept ==
  \A w \in Writes :
    /\ w \in ToSet(queue) => future[w] \in {"pending", "cancelled"}
    /\ future[w] = "pending" => w \in ToSet(queue)
    /\ future[w] = "result" => w \in ToSet(applied) \ Failing
    /\ future[w] = "exception" => w \in ToSet(applied) \cap Failing
    /\ caller[w] = "idle" => future[w] = "none"
    /\ caller[w] = "waiting" => future[w] \in {"pending", "result", "exception"}
    /\ caller[w] = "returned" => future[w] = "result"
    /\ caller[w] = "raised" => future[w] = "exception"

IInv == TypeOK /\ QueuedOnce /\ FutureKept /\ InOrder

Sub == INSTANCE Submissions

\* The worker implements Submissions: which task applies a write, and how many were
\* stopped or died of a cancelled caller before it, changes neither the order of the
\* writes nor what their callers are told, and when.
\* (document_store.py:104, "wait until it has been applied")
ImplementsSubmissions == Sub!SubSpec

\* A caller does not wait for ever while a worker runs.
AnsweredWhileRunning ==
  \A w \in Writes :
    caller[w] = "waiting" ~>
      caller[w] # "waiting" \/ \A t \in Tasks : task[t] # "running"

\* "wait until it has been applied" (document_store.py:104): with a worker that
\* was started and is not stopped, a caller does not wait for ever.
SubmitEnds ==
  \A w \in Writes :
    caller[w] = "waiting" /\ handle # NoTask ~> caller[w] # "waiting"
=============================================================================
