------------------------------- MODULE Triggers -------------------------------
(***************************************************************************)
(* What the scheduler of agentwright gives each job, without heap, workers *)
(* and their sleep: a job has at most one time at which it is going to     *)
(* fire; it fires then or later, while its id is listed, and a cron job is *)
(* given its next time by the very step that fires it.                     *)
(*                                                                         *)
(* Scheduler implements this specification.  It is weaker than cancel says *)
(* (scheduler.py:78): a cancelled job whose id is added again before its   *)
(* time is not skipped.  Scheduler!CancelledStaysSilent states what it     *)
(* says.                                                                   *)
(***************************************************************************)
EXTENDS Naturals, Sequences

CONSTANTS Ids, Periods, Delays, MaxJobs     \* as in Scheduler

VARIABLES
  now,      \* the wall clock
  setBack,  \* has it been set back?
  job,      \* the jobs added so far
  listed,   \* the number of the job an id stands for, 0 if none
  due,      \* when a job is going to fire, 0 if it is not
  last,     \* the time it has fired for last, 0 if none
  lost      \* the jobs given up when a worker was stopped

trigVars == <<now, setBack, job, listed, due, last, lost>>

TrigInit == /\ now = 1 /\ setBack = FALSE
            /\ job = <<>>
            /\ listed = [id \in Ids |-> 0]
            /\ due  = [j \in 1..MaxJobs |-> 0]
            /\ last = [j \in 1..MaxJobs |-> 0]
            /\ lost = {}

\* The first multiple of the period that is later than now.
NextTime(period) == (now \div period + 1) * period

\* Job j is added, to fire at the time at.
Add(j, at) == /\ Len(job) < MaxJobs
              /\ job' = Append(job, j)
              /\ listed' = [listed EXCEPT ![j.id] = Len(job) + 1]
              /\ due' = [due EXCEPT ![Len(job) + 1] = at]
              /\ UNCHANGED <<now, setBack, last, lost>>

AddCron(id, period) ==
  Add([id |-> id, kind |-> "cron", period |-> period], NextTime(period))

AddDelayed(id, delay) == Add([id |-> id, kind |-> "delayed"], now + delay)

\* A job that does not parse is listed and never fires.
AddBadCron(id) == Add([id |-> id, kind |-> "malformed"], 0)

Cancel(id) == /\ listed' = [listed EXCEPT ![id] = 0]
              /\ UNCHANGED <<now, setBack, job, due, last, lost>>

\* The time of a job has come, or had before the clock was set back.
Due(j) == due[j] # 0 /\ (setBack \/ due[j] <= now)

\* A job fires while its id is listed, for it or for a later one of its id: also when
\* it was cancelled in between, which is not what cancel's docstring says.
Fire(j) == /\ Due(j)
           /\ listed[job[j].id] >= j
           /\ last' = [last EXCEPT ![j] = due[j]]
           /\ due' = [due EXCEPT ![j] = IF job[j].kind = "cron"
                                        THEN NextTime(job[j].period) ELSE 0]
           /\ UNCHANGED <<now, setBack, job, listed, lost>>

\* Its id is not listed any more: the job is given up.
Skip(j) == /\ Due(j)
           /\ listed[job[j].id] = 0
           /\ due' = [due EXCEPT ![j] = 0]
           /\ UNCHANGED <<now, setBack, job, listed, last, lost>>

\* The worker that waits for its time is stopped: so is it then.
Lose(j) == /\ due[j] # 0
           /\ due' = [due EXCEPT ![j] = 0]
           /\ lost' = lost \cup {j}
           /\ UNCHANGED <<now, setBack, job, listed, last>>

\* Time goes on, or the clock is set.
Clock == /\ \/ now' > now /\ UNCHANGED setBack
            \/ now' < now /\ setBack' = TRUE
         /\ UNCHANGED <<job, listed, due, last, lost>>

TrigNext == \/ \E id \in Ids : \/ \E period \in Periods : AddCron(id, period)
                               \/ \E delay \in Delays : AddDelayed(id, delay)
                               \/ AddBadCron(id)
                               \/ Cancel(id)
            \/ \E j \in 1..MaxJobs : Fire(j) \/ Skip(j) \/ Lose(j)
            \/ Clock

TrigSpec == TrigInit /\ [][TrigNext]_trigVars
=============================================================================
