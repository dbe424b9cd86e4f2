------------------------------ MODULE Scheduler ------------------------------
(***************************************************************************)
(* agentwright/runtime/scheduler.py: cron and delayed jobs in a heap, and  *)
(* the task that pops the earliest, sleeps until it is due and fires it.   *)
(*                                                                         *)
(* Time is the wall clock in ticks; a cron expression is its period.  The  *)
(* sleep runs by another clock: the wall clock may be set meanwhile.  What *)
(* a firing publishes is in no queue here, EventBus models those.          *)
(***************************************************************************)
EXTENDS BackgroundTask, Sequences

CONSTANTS Ids,      \* job ids
          Periods,  \* of cron expressions
          Delays,   \* of delayed jobs
          MaxJobs,  \* bound: calls of add_cron and add_delayed
          MaxTime   \* bound: the clock

ASSUME SchedulerAssumption == /\ Periods \subseteq Nat \ {0}
                              /\ Delays \subseteq Nat
                              /\ MaxJobs \in Nat
                              /\ MaxTime \in Nat

VARIABLES
  now,        \* time.time()
  setBack,    \* has the clock been set back? (history)
  job,        \* the jobs added so far; a job is known by its number
  listed,     \* self._jobs: the number of the job of an id, 0 if it has none
  cancelled,  \* self._cancelled
  heap,       \* self._queue
  count,      \* self._counter
  held,       \* the entry a task has popped and sleeps on
  popped,     \* self._counter when it popped that entry (history)
  left,       \* how long it is still going to sleep
  last,       \* the occurrence a job has fired for last, 0 if none (history)
  lost,       \* the jobs whose entry was in the hands of a cancelled task (history)
  withdrawn   \* the jobs that were there when their id was cancelled (history)

jobVars  == <<job, listed, cancelled, withdrawn>>
heapVars == <<heap, count>>
timeVars == <<now, setBack>>
handVars == <<held, popped>>
vars     == <<timeVars, jobVars, heapVars, handVars, left, last, lost, taskVars>>

\* A job whose cron expression does not parse is listed all the same.
Job   == [id : Ids, kind : {"cron"}, period : Periods]
           \cup [id : Ids, kind : {"delayed", "malformed"}]
Entry == [at : Nat \ {0}, seq : Nat, job : 1..MaxJobs]
NoEntry == [job |-> 0]

TypeOK == /\ TaskTypeOK
          /\ now \in Nat \ {0}
          /\ setBack \in BOOLEAN
          /\ job \in Seq(Job) /\ Len(job) <= MaxJobs
          /\ listed \in [Ids -> 0..MaxJobs]
          /\ cancelled \subseteq Ids
          /\ heap \subseteq Entry
          /\ count \in Nat
          /\ held \in [Tasks -> Entry \cup {NoEntry}]
          /\ popped \in [Tasks -> Nat]
          /\ left \in [Tasks -> Nat]
          /\ last \in [1..MaxJobs -> Nat]
          /\ lost \subseteq 1..MaxJobs
          /\ withdrawn \subseteq 1..MaxJobs

Init == /\ TaskInit
        /\ now = 1
        /\ setBack = FALSE
        /\ job = <<>>
        /\ listed = [id \in Ids |-> 0]
        /\ cancelled = {}
        /\ heap = {}
        /\ count = 0
        /\ held = [t \in Tasks |-> NoEntry]
        /\ popped = [t \in Tasks |-> 0]
        /\ left = [t \in Tasks |-> 0]
        /\ last = [j \in 1..MaxJobs |-> 0]
        /\ lost = {}
        /\ withdrawn = {}

M_NextCron(period) == ((now + period - 1) \div period) * period   \* now included

\* The next multiple of the period after now.
NextCron(period) == (now \div period + 1) * period

\* Of two entries the worker pops the one due earlier, or queued earlier.
Before(e, f) == e.at < f.at \/ (e.at = f.at /\ e.seq < f.seq)

Earliest(e) == e \in heap /\ \A f \in heap \ {e} : Before(e, f)
-----------------------------------------------------------------------------
M_List(j) == /\ Len(job) < MaxJobs       \* does not lift the cancellation
             /\ job' = Append(job, j)
             /\ listed' = [listed EXCEPT ![j.id] = Len(job')]
             /\ UNCHANGED <<cancelled, withdrawn, timeVars, handVars, left, last, lost,
                            taskVars>>

\* What add_cron and add_delayed do first: the id stands for the new job.
List(j) == /\ Len(job) < MaxJobs
           /\ job' = Append(job, j)
           /\ listed' = [listed EXCEPT ![j.id] = Len(job')]
           /\ cancelled' = cancelled \ {j.id}
           /\ UNCHANGED <<withdrawn, timeVars, handVars, left, last, lost, taskVars>>

Enqueue(at) == /\ heap' = heap \cup {[at |-> at, seq |-> count, job |-> Len(job')]}
               /\ count' = count + 1

AddCron(id, period) == /\ List([id |-> id, kind |-> "cron", period |-> period])
                       /\ Enqueue(NextCron(period))

\* next_cron raises; the job stays listed.
AddBadCron(id) == /\ List([id |-> id, kind |-> "malformed"])
                  /\ UNCHANGED heapVars

AddDelayed(id, delay) == /\ List([id |-> id, kind |-> "delayed"])
                         /\ Enqueue(now + delay)

\* The entry stays in the heap.
Cancel(id) == /\ cancelled' = cancelled \cup {id}
              /\ listed' = [listed EXCEPT ![id] = 0]
              /\ withdrawn' = withdrawn \cup {j \in 1..Len(job) : job[j].id = id}
              /\ UNCHANGED <<timeVars, job, heapVars, handVars, left, last, lost, taskVars>>
-----------------------------------------------------------------------------
\* Entry e, popped from the heap, fires, and a cron job is queued again; rest is
\* what the heap holds besides.
Fire(e, rest) ==
  LET j == job[e.job]
  IN  /\ last' = [last EXCEPT ![e.job] = e.at]
      /\ IF j.kind = "cron"
         THEN /\ heap' = rest \cup {[at |-> NextCron(j.period), seq |-> count,
                                     job |-> e.job]}
              /\ count' = count + 1
         ELSE heap' = rest /\ UNCHANGED count

\* The end of _fire_due: e is skipped if its id is cancelled by now.
Surface(e, rest) ==
  IF job[e.job].id \in cancelled
  THEN heap' = rest /\ UNCHANGED <<count, last>>
  ELSE Fire(e, rest)

Free(t) == task[t] = "running" /\ held[t] = NoEntry

\* The earliest entry is due: it is popped and surfaces without an await that
\* suspends.
FireNow(t) ==
  /\ Free(t)
  /\ \E e \in heap : /\ Earliest(e)
                     /\ e.at <= now
                     /\ Surface(e, heap \ {e})
  /\ UNCHANGED <<timeVars, jobVars, handVars, left, lost, taskVars>>

Pop(t, e) == /\ heap' = heap \ {e}
             /\ held' = [held EXCEPT ![t] = e]
             /\ popped' = [popped EXCEPT ![t] = count]
             /\ left' = [left EXCEPT ![t] = e.at - now]

LetGo(t) == /\ held' = [held EXCEPT ![t] = NoEntry]
            /\ popped' = [popped EXCEPT ![t] = 0]

\* Mutants, for the runs: M_Definition is Definition with a bug.
M_SleepFirst(t) ==        \* a queue that is no heap: the entry queued first
  /\ Free(t)
  /\ \E e \in heap : /\ \A f \in heap \ {e} : e.seq < f.seq
                     /\ e.at > now
                     /\ Pop(t, e)
  /\ UNCHANGED <<timeVars, jobVars, count, last, lost, taskVars>>

M_SleepAnyway(t) ==       \* without the test of delay > 0
  /\ Free(t)
  /\ \E e \in heap : /\ Earliest(e)
                     /\ Pop(t, e)
  /\ UNCHANGED <<timeVars, jobVars, count, last, lost, taskVars>>

\* The earliest entry is not due: the task pops it and sleeps.
Sleep(t) ==
  /\ Free(t)
  /\ \E e \in heap : /\ Earliest(e)
                     /\ e.at > now
                     /\ Pop(t, e)
  /\ UNCHANGED <<timeVars, jobVars, count, last, lost, taskVars>>

M_WakeUnchecked(t) ==     \* cancellation is checked before the sleep only
  /\ task[t] = "running"
  /\ held[t] # NoEntry
  /\ left[t] = 0
  /\ Fire(held[t], heap)
  /\ LetGo(t)
  /\ UNCHANGED <<timeVars, jobVars, left, lost, taskVars>>

M_WakeKeeps(t) ==         \* the entry was not popped, only read
  /\ task[t] = "running"
  /\ held[t] # NoEntry
  /\ left[t] = 0
  /\ Surface(held[t], heap \cup {held[t]})
  /\ LetGo(t)
  /\ UNCHANGED <<timeVars, jobVars, left, lost, taskVars>>

\* The sleep is over.
Wake(t) ==
  /\ task[t] = "running"
  /\ held[t] # NoEntry
  /\ left[t] = 0
  /\ Surface(held[t], heap)
  /\ LetGo(t)
  /\ UNCHANGED <<timeVars, jobVars, left, lost, taskVars>>

\* A task cancelled in its sleep takes the entry with it.
CancelSleep(t) ==
  /\ TaskCancelled(t)
  /\ LetGo(t)
  /\ left' = [left EXCEPT ![t] = 0]
  /\ lost' = IF held[t] = NoEntry THEN lost ELSE lost \cup {held[t].job}
  /\ UNCHANGED <<timeVars, jobVars, heapVars, last>>
-----------------------------------------------------------------------------
\* Time passes, for the clock and for the sleepers.
Tick == /\ now < MaxTime
        /\ now' = now + 1
        /\ left' = [t \in Tasks |-> IF left[t] = 0 THEN 0 ELSE left[t] - 1]
        /\ UNCHANGED <<setBack, jobVars, heapVars, handVars, last, lost, taskVars>>

\* The clock is set: forward, or back, which the model allows once.
SetClock == /\ \/ now < MaxTime /\ now' = now + 1 /\ UNCHANGED setBack
               \/ now > 1 /\ ~setBack /\ now' = now - 1 /\ setBack' = TRUE
            /\ UNCHANGED <<jobVars, heapVars, handVars, left, last, lost, taskVars>>

Calls == \E id \in Ids : \/ \E period \in Periods : AddCron(id, period)
                         \/ \E delay \in Delays : AddDelayed(id, delay)
                         \/ AddBadCron(id)
                         \/ Cancel(id)

Work == \E t \in Tasks : FireNow(t) \/ Sleep(t) \/ Wake(t) \/ CancelSleep(t)

StartStop == /\ Start \/ \E s \in Stops : Stop(s) \/ StopReturns(s)
             /\ UNCHANGED <<timeVars, jobVars, heapVars, handVars, left, last, lost>>

Next == Calls \/ Work \/ StartStop \/ Tick \/ SetClock

Spec == Init /\ [][Next]_vars

\* An event loop that is never late: time passes only when no task has anything
\* to do, and the clock is not set.
Busy == \E t \in Tasks : \/ task[t] = "cancelling"
                         \/ Free(t) /\ heap # {}
                         \/ task[t] = "running" /\ held[t] # NoEntry /\ left[t] = 0

PromptSpec == Init /\ [][Calls \/ Work \/ StartStop \/ (~Busy /\ Tick)]_vars
-----------------------------------------------------------------------------
(* Properties *)

\* The task whose entry e a job has in its hands.
InHands(j) == {t \in Tasks : held[t].job = j}

\* A job is never twice in the heap and the hands of tasks together, whatever is
\* added again, cancelled, stopped and restarted, and however many workers there
\* are: nothing fires twice for being queued twice.
OneEntry ==
  /\ \A e, f \in heap : e.job = f.job => e = f
  /\ \A e \in heap : InHands(e.job) = {}
  /\ \A t, u \in Tasks : held[t] # NoEntry /\ held[t].job = held[u].job => t = u

\* A job is in the heap or in the hands of a task, or was delayed and has fired,
\* or did not parse, or stop came while a worker slept on it.
AccountedFor(j) == \/ \E e \in heap : e.job = j
                   \/ InHands(j) # {}
                   \/ job[j].kind = "delayed" /\ last[j] # 0
                   \/ job[j].kind = "malformed"
                   \/ j \in lost

\* What list_jobs lists is going to fire, but for these exceptions.
NeverForgotten == \A id \in Ids : listed[id] # 0 => AccountedFor(listed[id])

\* A job fires once for an occurrence, and not before it, unless the clock was set
\* back: what is still to fire for a job is later than what it has fired for, and
\* that is over.
OncePerOccurrence ==
  ~setBack =>
    \A j \in 1..MaxJobs :
      /\ last[j] <= now
      /\ last[j] # 0 => /\ \A e \in heap : e.job = j => last[j] < e.at
                        /\ \A t \in InHands(j) : last[j] < held[t].at

\* The entry a task sleeps on may be overtaken only by one that was queued after
\* it was popped: while it was in the heap, none that goes before it was passed over.
EarliestFirst ==
  \A t \in Tasks : held[t] # NoEntry =>
    \A e \in heap : Before(e, held[t]) => e.seq >= popped[t]

\* The inductive invariant behind these: entries and ids belong to jobs that were
\* added, an id is listed or cancelled, never both, and who sleeps wakes in time.
Known ==
  /\ \A e \in heap : e.job <= Len(job) /\ e.seq < count
  /\ \A t \in Tasks : held[t] # NoEntry =>
       held[t].job <= Len(job) /\ held[t].seq < count /\ popped[t] <= count
  /\ \A j \in 1..MaxJobs : last[j] # 0 => j <= Len(job)

ListedLast ==
  /\ \A id \in Ids : listed[id] # 0 =>
       /\ listed[id] <= Len(job)
       /\ job[listed[id]].id = id
       /\ id \notin cancelled
  /\ \A j \in 1..Len(job) : job[j].id \notin cancelled => listed[job[j].id] >= j

InTime == ~setBack => \A t \in Tasks : held[t] # NoEntry => held[t].at <= now + left[t]

IInv == /\ TypeOK /\ Known /\ ListedLast /\ InTime
        /\ OneEntry /\ NeverForgotten /\ OncePerOccurrence /\ EarliestFirst

\* The abstract state: the entries wherever they are, and the time of each job's.
Entries   == heap \cup {held[t] : t \in {u \in Tasks : held[u] # NoEntry}}
TimeOf(E) == [j \in 1..MaxJobs |-> IF \E e \in E : e.job = j
                                   THEN (CHOOSE e \in E : e.job = j).at ELSE 0]
dueBar    == TimeOf(Entries)

Trig == INSTANCE Triggers WITH due <- dueBar

\* The scheduler implements Triggers: whatever the heap and the workers do with
\* an entry, to its job it is one time, and surfacing decides about it in one step.
\* What was cancelled stays silent, also when a worker already slept on it, until its
\* id is added again; and what was due is over when it has fired.
ImplementsTriggers == Trig!TrigSpec

\* "Cancel a job. It stays in the heap but is skipped when it surfaces"
\* (scheduler.py:78): a job never fires after it was cancelled.
CancelledStaysSilent == [][\A j \in withdrawn : last'[j] = last[j]]_vars

\* "when a job's time arrives the scheduler publishes" it (scheduler.py:4): with a
\* worker, and an event loop that is not late, no entry in the heap is overdue.
OnTime == (\E t \in Tasks : task[t] = "running") /\ ~Busy
            => \A e \in heap : e.at >= now
=============================================================================
