-------------------------- MODULE SchedulerProofs --------------------------
(***************************************************************************)
(* The scheduler, for any ids, periods and delays, any number of workers   *)
(* and of restarts.                                                        *)
(***************************************************************************)
EXTENDS Scheduler, TLAPS

\* The next occurrence is a time, and later than now.
LEMMA NextCronLater ==
  ASSUME now \in Nat, NEW period \in Nat \ {0}
  PROVE  NextCron(period) \in Nat \ {0} /\ NextCron(period) > now
BY Z3 DEF NextCron

LEMMA NoEntryIsNone == NoEntry \notin Entry /\ NoEntry.job = 0
BY DEF NoEntry, Entry

\* What a call of add_cron or add_delayed leaves: one job more, and at most an
\* entry for it.
LEMMA AddKeeps ==
  ASSUME IInv, NEW j \in Job, List(j),
         \/ /\ j.kind # "malformed"
            /\ \E at \in Nat \ {0} : Enqueue(at)
         \/ j.kind = "malformed" /\ UNCHANGED heapVars
  PROVE  IInv'
<1> USE SchedulerAssumption, TaskAssumption, NoEntryIsNone
<1> DEFINE n == Len(job) + 1
<1>1. /\ job' = Append(job, j) /\ Len(job') = n /\ n \in 1..MaxJobs
      /\ job' \in Seq(Job) /\ j.id \in Ids
      /\ job'[n] = j
      /\ \A k \in 1..Len(job) : job'[k] = job[k]
      /\ listed' = [listed EXCEPT ![j.id] = n]
      /\ cancelled' = cancelled \ {j.id}
      /\ UNCHANGED <<withdrawn, timeVars, held, popped, left, last, lost, taskVars>>
  <2>1. j.id \in Ids
    BY DEF Job
  <2>2. job \in Seq(Job) /\ Len(job) \in Nat /\ Len(job) < MaxJobs /\ MaxJobs \in Nat
    BY DEF IInv, TypeOK, List
  <2>3. /\ job' = Append(job, j)
        /\ listed' = [listed EXCEPT ![j.id] = Len(job')]
        /\ cancelled' = cancelled \ {j.id}
        /\ UNCHANGED <<withdrawn, timeVars, held, popped, left, last, lost, taskVars>>
    BY DEF List, handVars
  <2>4. /\ Len(job') = n /\ n \in 1..MaxJobs /\ job' \in Seq(Job) /\ job'[n] = j
        /\ \A k \in 1..Len(job) : job'[k] = job[k]
    BY <2>2, <2>3
  <2> QED
    BY <2>1, <2>3, <2>4
<1>2. /\ heap \subseteq heap'
      /\ \A e \in heap' \ heap : /\ e \in Entry /\ e.job = n /\ e.seq = count
                                 /\ e.seq < count'
      /\ \A e, f \in heap' \ heap : e = f
      /\ j.kind # "malformed" => \E e \in heap' : e.job = n
      /\ count' \in Nat /\ count <= count'
  <2>1. CASE j.kind = "malformed" /\ UNCHANGED heapVars
    BY <2>1 DEF IInv, TypeOK, heapVars
  <2>2. ASSUME j.kind # "malformed", NEW at \in Nat \ {0}, Enqueue(at)
        PROVE  <1>2
    <3> DEFINE x == [at |-> at, seq |-> count, job |-> n]
    <3>1. /\ heap' = heap \cup {x} /\ count' = count + 1 /\ count \in Nat
          /\ x.job = n /\ x.seq = count
      BY <1>1, <2>2 DEF IInv, TypeOK, Enqueue
    <3>2. x \in Entry
      BY <1>1, <2>2, <3>1 DEF Entry
    <3> HIDE DEF x
    <3> QED
      BY <3>1, <3>2
  <2> QED
    BY <2>1, <2>2
<1>3. TypeOK'
  BY SMTT(30), <1>1, <1>2 DEF IInv, TypeOK, timeVars, taskVars, TaskTypeOK
<1>4. Known'
  <2>1. /\ Known /\ count \in Nat /\ heap \subseteq Entry /\ last' = last /\ held' = held
        /\ popped' = popped /\ popped \in [Tasks -> Nat]
        /\ Len(job) \in Nat /\ Len(job') = Len(job) + 1
        /\ held \in [Tasks -> Entry \cup {NoEntry}]
    BY <1>1 DEF IInv, TypeOK
  <2>2. \A e \in heap' : e.job <= Len(job') /\ e.seq < count'
    <3>1. \A e \in heap : e.job \in Nat /\ e.seq \in Nat
      BY <2>1 DEF Entry
    <3> QED
      BY <1>2, <2>1, <3>1 DEF Known
  <2>3. \A t \in Tasks : held'[t] # NoEntry =>
          held'[t].job <= Len(job') /\ held'[t].seq < count' /\ popped'[t] <= count'
    BY <1>2, <2>1 DEF Known, Entry
  <2> QED
    BY <2>1, <2>2, <2>3 DEF Known
<1>5. ListedLast'
  BY SMTT(30), <1>1 DEF IInv, TypeOK, ListedLast
<1>6. InTime'
  BY <1>1 DEF IInv, InTime, timeVars
<1>7. OneEntry'
  <2>1. \A e \in heap : e.job # n
    BY <1>1 DEF IInv, TypeOK, Known, Entry
  <2>2. \A t \in Tasks : held'[t] = held[t] /\ held[t].job # n
    BY <1>1 DEF IInv, TypeOK, Known, Entry
  <2> QED
    BY <1>1, <1>2, <2>1, <2>2 DEF IInv, OneEntry, InHands
<1>8. NeverForgotten'
  <2> SUFFICES ASSUME NEW id \in Ids, listed'[id] # 0
               PROVE  AccountedFor(listed[id])'
    BY DEF NeverForgotten
  <2>1. CASE id = j.id
    BY <1>1, <1>2, <2>1 DEF IInv, TypeOK, AccountedFor
  <2>2. CASE id # j.id
    <3>1. /\ listed'[id] = listed[id] /\ listed[id] \in 1..Len(job)
          /\ job'[listed[id]] = job[listed[id]]
      BY <1>1, <2>2 DEF IInv, TypeOK, ListedLast
    <3>2. AccountedFor(listed[id])
      BY <3>1 DEF IInv, NeverForgotten
    <3> QED
      BY <1>1, <1>2, <3>1, <3>2 DEF AccountedFor, InHands
  <2> QED
    BY <2>1, <2>2
<1>9. OncePerOccurrence'
  <2>1. \A k \in 1..MaxJobs : last[k] # 0 => k # n
    BY <1>1 DEF IInv, TypeOK, Known
  <2>2. /\ last' = last /\ held' = held /\ now' = now /\ setBack' = setBack
        /\ \A e \in heap' : e \in heap \/ e.job = n
    BY <1>1, <1>2 DEF timeVars
  <2> QED
    BY <2>1, <2>2 DEF IInv, OncePerOccurrence, InHands
<1>10. EarliestFirst'
  <2>1. /\ held' = held /\ popped' = popped
        /\ \A e \in heap' : e \in heap \/ e.seq = count
        /\ \A t \in Tasks : held[t] # NoEntry => popped[t] <= count
        /\ count \in Nat /\ popped \in [Tasks -> Nat]
    BY <1>1, <1>2 DEF IInv, TypeOK, Known
  <2> QED
    BY <2>1 DEF IInv, EarliestFirst, Before
<1> QED
  BY <1>3, <1>4, <1>5, <1>6, <1>7, <1>8, <1>9, <1>10 DEF IInv

\* A popped entry surfaces: e is its entry, rest the heap without it, and held'
\* what the tasks hold without it.
LEMMA SurfaceKeeps ==
  ASSUME IInv, NEW e \in Entry, NEW rest \in SUBSET heap,
         Surface(e, rest),
         e.job <= Len(job),
         ~setBack => e.at <= now,
         \A f \in heap : f \in rest \/ f = e,
         \A f \in rest : f.job # e.job,
         held' \in [Tasks -> Entry \cup {NoEntry}],
         \A t \in Tasks : /\ held'[t] = held[t] \/ held'[t] = NoEntry
                          /\ held'[t].job # e.job
                          /\ held[t].job # e.job => held'[t] = held[t],
         popped' \in [Tasks -> Nat],
         \A t \in Tasks : held'[t] # NoEntry => popped'[t] = popped[t],
         ~setBack /\ last[e.job] # 0 => last[e.job] < e.at,
         UNCHANGED <<timeVars, jobVars, left, lost, taskVars>>
  PROVE  IInv'
<1> USE SchedulerAssumption, TaskAssumption, NoEntryIsNone
<1> DEFINE k == e.job
<1>1. /\ k \in 1..MaxJobs /\ k \in 1..Len(job) /\ job[k] \in Job
      /\ e.at \in Nat \ {0} /\ count \in Nat /\ now \in Nat \ {0}
  BY DEF IInv, TypeOK, Entry
<1>2. /\ now' = now /\ setBack' = setBack /\ job' = job /\ listed' = listed
      /\ cancelled' = cancelled /\ left' = left /\ lost' = lost /\ withdrawn' = withdrawn
      /\ UNCHANGED taskVars
  BY DEF timeVars, jobVars
\* What happens to the heap, the counter and last.
<1>3. /\ \A f \in heap' : \/ f \in rest
                          \/ /\ f \in Entry /\ f.job = k /\ f.seq = count
                             /\ f.at > now /\ count' = count + 1
                             /\ last'[k] = e.at
      /\ \A f, g \in heap' \ rest : f = g
      /\ rest \subseteq heap'
      /\ count' \in Nat /\ count <= count'
      /\ last' \in [1..MaxJobs -> Nat]
      /\ \A j \in 1..MaxJobs : j # k => last'[j] = last[j]
      /\ last'[k] \in {last[k], e.at}
      /\ job[k].id \notin cancelled =>
           \/ job[k].kind = "cron" /\ \E f \in heap' : f.job = k
           \/ job[k].kind # "cron" /\ last'[k] = e.at
  <2>1. last \in [1..MaxJobs -> Nat]
    BY DEF IInv, TypeOK
  <2>2. CASE job[k].id \in cancelled
    BY <1>1, <2>1, <2>2 DEF Surface
  <2>3. CASE job[k].id \notin cancelled /\ job[k].kind # "cron"
    BY SMTT(30), <1>1, <2>1, <2>3 DEF Surface, Fire
  <2>4. CASE job[k].id \notin cancelled /\ job[k].kind = "cron"
    <3> DEFINE x == [at |-> NextCron(job[k].period), seq |-> count, job |-> k]
    <3>1. job[k].period \in Nat \ {0}
      BY <1>1, <2>4 DEF Job
    <3>2. /\ x.at \in Nat \ {0} /\ x.at > now
      BY <1>1, <3>1, NextCronLater
    <3>3. x \in Entry /\ x.job = k /\ x.seq = count
      BY <1>1, <3>2 DEF Entry
    <3>4. /\ heap' = rest \cup {x} /\ count' = count + 1
          /\ last' = [last EXCEPT ![k] = e.at]
      BY <2>4 DEF Surface, Fire
    <3> HIDE DEF x
    <3> QED
      BY SMTT(30), <1>1, <2>1, <2>4, <3>2, <3>3, <3>4
  <2> QED
    BY <2>2, <2>3, <2>4
<1> HIDE DEF k
<1>4. TypeOK'
  <2>1. heap' \subseteq Entry
    BY <1>3 DEF IInv, TypeOK
  <2> QED
    BY <1>2, <1>3, <2>1 DEF IInv, TypeOK, TaskTypeOK, taskVars
<1>5. Known'
  <2>1. \A f \in rest : f.job <= Len(job) /\ f.seq < count /\ f.seq \in Nat
    BY DEF IInv, TypeOK, Known, Entry
  <2>2. \A f \in heap' : f.job <= Len(job') /\ f.seq < count'
    BY <1>1, <1>2, <1>3, <2>1
  <2>3. \A t \in Tasks : held'[t] # NoEntry =>
          held'[t].job <= Len(job') /\ held'[t].seq < count' /\ popped'[t] <= count'
    <3> SUFFICES ASSUME NEW t \in Tasks, held'[t] # NoEntry
                 PROVE  /\ held'[t].job <= Len(job') /\ held'[t].seq < count'
                        /\ popped'[t] <= count'
      OBVIOUS
    <3>1. /\ held[t] = held'[t] /\ held[t] \in Entry /\ held[t].seq \in Nat
          /\ popped'[t] = popped[t] /\ popped[t] \in Nat
      BY DEF IInv, TypeOK, Entry
    <3> QED
      BY <1>1, <1>2, <1>3, <3>1 DEF IInv, Known
  <2>4. \A j \in 1..MaxJobs : last'[j] # 0 => j <= Len(job')
    <3> SUFFICES ASSUME NEW j \in 1..MaxJobs, last'[j] # 0 PROVE j <= Len(job)
      BY <1>2
    <3>1. CASE j = k
      BY <1>1, <3>1
    <3>2. CASE j # k
      BY <1>3, <3>2 DEF IInv, Known
    <3> QED
      BY <3>1, <3>2
  <2> QED
    BY <2>2, <2>3, <2>4 DEF Known
<1>6. ListedLast'
  BY <1>2 DEF IInv, ListedLast
<1>7. InTime'
  BY <1>2 DEF IInv, InTime
<1>8. OneEntry'
  <2>1. \A f, g \in heap' : f.job = g.job => f = g
    BY <1>3 DEF k, IInv, OneEntry
  <2>2. \A f \in heap', t \in Tasks : held'[t].job # f.job
    <3> SUFFICES ASSUME NEW f \in rest, NEW t \in Tasks PROVE held'[t].job # f.job
      BY <1>3 DEF k
    <3>1. f \in Entry /\ f.job # 0
      BY DEF IInv, TypeOK, Entry
    <3> QED
      BY <3>1 DEF IInv, OneEntry, InHands
  <2>3. \A t, u \in Tasks : held'[t] # NoEntry /\ held'[t].job = held'[u].job => t = u
    <3> SUFFICES ASSUME NEW t \in Tasks, NEW u \in Tasks,
                        held'[t] # NoEntry, held'[t].job = held'[u].job
                 PROVE  t = u
      OBVIOUS
    <3>1. held'[t].job # 0
      BY DEF Entry
    <3> QED
      BY <3>1 DEF IInv, OneEntry
  <2> QED
    BY <2>1, <2>2, <2>3 DEF OneEntry, InHands
<1>9. NeverForgotten'
  <2> SUFFICES ASSUME NEW id \in Ids, listed[id] # 0
               PROVE  AccountedFor(listed[id])'
    BY <1>2 DEF NeverForgotten
  <2>1. AccountedFor(listed[id]) /\ listed[id] \in 1..MaxJobs
    BY DEF IInv, TypeOK, NeverForgotten
  <2>2. CASE listed[id] = k
    <3>1. job[k].id \notin cancelled
      BY <2>2 DEF IInv, ListedLast
    <3>2. job[k].kind \in {"cron", "delayed", "malformed"}
      BY <1>1 DEF Job
    <3> QED
      BY <1>1, <1>2, <1>3, <2>2, <3>1, <3>2 DEF AccountedFor
  <2>3. CASE listed[id] # k
    BY <1>2, <1>3, <2>1, <2>3 DEF k, AccountedFor, InHands
  <2> QED
    BY <2>2, <2>3
<1>10. OncePerOccurrence'
  <2> SUFFICES ASSUME ~setBack, NEW j \in 1..MaxJobs
               PROVE  /\ last'[j] <= now
                      /\ last'[j] # 0 =>
                           /\ \A f \in heap' : f.job = j => last'[j] < f.at
                           /\ \A t \in Tasks : held'[t].job = j => last'[j] < held'[t].at
    BY <1>2 DEF OncePerOccurrence, InHands
  <2>1. CASE j # k
    <3>1. last'[j] = last[j] /\ \A f \in heap' : f.job = j => f \in heap
      BY <1>3, <2>1
    <3>2. \A t \in Tasks : held'[t].job = j => held'[t] = held[t]
      BY <2>1
    <3> QED
      BY <1>1, <3>1, <3>2 DEF IInv, OncePerOccurrence, InHands
  <2>2. CASE j = k
    <3>1. last'[k] <= now
      BY <1>1, <1>3, <2>2 DEF k, IInv, OncePerOccurrence
    <3>2. \A f \in heap' : f.job = k => last'[k] < f.at
      BY <1>1, <1>3 DEF k, Entry
    <3>3. \A t \in Tasks : held'[t].job # k
      BY DEF k
    <3> QED
      BY <2>2, <3>1, <3>2, <3>3
  <2> QED
    BY <2>1, <2>2
<1>11. EarliestFirst'
  <2> SUFFICES ASSUME NEW t \in Tasks, held'[t] # NoEntry,
                      NEW f \in heap', Before(f, held'[t])
               PROVE  f.seq >= popped'[t]
    BY DEF EarliestFirst
  <2>1. /\ held'[t] = held[t] /\ popped'[t] = popped[t] /\ popped[t] \in Nat
        /\ popped[t] <= count /\ count \in Nat
    BY DEF IInv, TypeOK, Known
  <2> QED
    BY <1>3, <2>1 DEF IInv, EarliestFirst
<1> QED
  BY <1>4, <1>5, <1>6, <1>7, <1>8, <1>9, <1>10, <1>11 DEF IInv

LEMMA InitInvariant == Init => IInv
<1> SUFFICES ASSUME Init PROVE IInv
  OBVIOUS
<1> USE SchedulerAssumption, TaskAssumption, NoEntryIsNone
<1>1. TypeOK
  <2>1. job = <<>> /\ job \in Seq(Job) /\ Len(job) = 0
    BY DEF Init
  <2>2. TaskTypeOK
    BY DEF Init, TaskInit, TaskTypeOK
  <2>3. /\ listed \in [Ids -> 0..MaxJobs]
        /\ held \in [Tasks -> Entry \cup {NoEntry}]
        /\ popped \in [Tasks -> Nat] /\ left \in [Tasks -> Nat]
        /\ last \in [1..MaxJobs -> Nat]
    BY DEF Init
  <2>4. /\ now \in Nat \ {0} /\ cancelled \subseteq Ids
        /\ heap \subseteq Entry /\ count \in Nat /\ lost \subseteq 1..MaxJobs
        /\ withdrawn \subseteq 1..MaxJobs
    BY DEF Init
  <2>5. setBack \in BOOLEAN
    BY Zenon DEF Init
  <2> QED
    BY <2>1, <2>2, <2>3, <2>4, <2>5 DEF TypeOK
<1>2. /\ heap = {} /\ \A t \in Tasks : held[t] = NoEntry
      /\ \A id \in Ids : listed[id] = 0
      /\ \A j \in 1..MaxJobs : last[j] = 0
      /\ Len(job) = 0 /\ now = 1
  BY DEF Init
<1>3. Known /\ ListedLast /\ InTime
  BY <1>2 DEF Known, ListedLast, InTime
<1>4. OneEntry /\ NeverForgotten /\ EarliestFirst
  BY <1>2 DEF OneEntry, NeverForgotten, EarliestFirst, InHands
<1>5. OncePerOccurrence
  BY <1>2 DEF OncePerOccurrence
<1> QED
  BY <1>1, <1>3, <1>4, <1>5 DEF IInv

LEMMA StepInvariant == IInv /\ [Next]_vars => IInv'
<1> SUFFICES ASSUME IInv, [Next]_vars PROVE IInv'
  OBVIOUS
<1> USE SchedulerAssumption, TaskAssumption, NoEntryIsNone
<1>1. ASSUME NEW id \in Ids, NEW period \in Periods, AddCron(id, period) PROVE IInv'
  <2> DEFINE j == [id |-> id, kind |-> "cron", period |-> period]
  <2>1. j \in Job /\ j.kind # "malformed"
    BY DEF Job
  <2>2. NextCron(period) \in Nat \ {0}
    BY NextCronLater DEF IInv, TypeOK
  <2>3. List(j) /\ Enqueue(NextCron(period))
    BY <1>1 DEF AddCron
  <2> HIDE DEF j
  <2> QED
    BY <2>1, <2>2, <2>3, AddKeeps
<1>2. ASSUME NEW id \in Ids, NEW delay \in Delays, AddDelayed(id, delay) PROVE IInv'
  <2> DEFINE j == [id |-> id, kind |-> "delayed"]
  <2>1. j \in Job /\ j.kind # "malformed"
    BY DEF Job
  <2>2. now + delay \in Nat \ {0}
    BY DEF IInv, TypeOK
  <2>3. List(j) /\ Enqueue(now + delay)
    BY <1>2 DEF AddDelayed
  <2> HIDE DEF j
  <2> QED
    BY <2>1, <2>2, <2>3, AddKeeps
<1>3. ASSUME NEW id \in Ids, AddBadCron(id) PROVE IInv'
  <2> DEFINE j == [id |-> id, kind |-> "malformed"]
  <2>1. j \in Job /\ j.kind = "malformed"
    BY DEF Job
  <2>2. List(j) /\ UNCHANGED heapVars
    BY <1>3 DEF AddBadCron
  <2> HIDE DEF j
  <2> QED
    BY <2>1, <2>2, AddKeeps
<1>4. ASSUME NEW id \in Ids, Cancel(id) PROVE IInv'
  <2>1. /\ cancelled' = cancelled \cup {id} /\ listed' = [listed EXCEPT ![id] = 0]
        /\ withdrawn' = withdrawn \cup {j \in 1..Len(job) : job[j].id = id}
        /\ UNCHANGED <<timeVars, job, heapVars, held, popped, left, last, lost, taskVars>>
    BY <1>4 DEF Cancel, handVars
  <2>2. TypeOK'
    <3>1. withdrawn' \subseteq 1..MaxJobs
      <4>1. 1..Len(job) \subseteq 1..MaxJobs /\ withdrawn \subseteq 1..MaxJobs
        BY DEF IInv, TypeOK
      <4> QED
        BY <2>1, <4>1
    <3> QED
      BY <2>1, <3>1 DEF IInv, TypeOK, TaskTypeOK, timeVars, heapVars, taskVars
  <2>3. ListedLast'
    BY <2>1 DEF IInv, TypeOK, ListedLast
  <2>4. NeverForgotten'
    BY <2>1 DEF IInv, TypeOK, NeverForgotten, AccountedFor, InHands, heapVars
  <2>5. Known' /\ InTime' /\ OneEntry' /\ OncePerOccurrence' /\ EarliestFirst'
    BY <2>1 DEF IInv, Known, InTime, OneEntry, OncePerOccurrence, EarliestFirst,
                InHands, timeVars, heapVars
  <2> QED
    BY <2>2, <2>3, <2>4, <2>5 DEF IInv
<1>5. ASSUME NEW t \in Tasks, FireNow(t) PROVE IInv'
  <2>1. PICK e \in heap : Earliest(e) /\ e.at <= now /\ Surface(e, heap \ {e})
    BY <1>5 DEF FireNow
  <2>2. /\ UNCHANGED <<timeVars, jobVars, left, lost, taskVars>>
        /\ held' = held /\ popped' = popped /\ popped \in [Tasks -> Nat]
        /\ e \in Entry /\ e.job <= Len(job)
        /\ held \in [Tasks -> Entry \cup {NoEntry}]
    BY <1>5 DEF FireNow, handVars, IInv, TypeOK, Known
  <2>3. \A f \in heap \ {e} : f.job # e.job
    BY DEF IInv, OneEntry
  <2>4. \A u \in Tasks : held[u].job # e.job
    BY DEF IInv, OneEntry, InHands
  <2>5. ~setBack /\ last[e.job] # 0 => last[e.job] < e.at
    BY <2>2 DEF IInv, OncePerOccurrence, Entry
  <2> DEFINE rest == heap \ {e}
  <2>6. /\ rest \in SUBSET heap /\ Surface(e, rest)
        /\ \A f \in heap : f \in rest \/ f = e
        /\ \A f \in rest : f.job # e.job
    BY <2>1, <2>3
  <2> HIDE DEF rest
  <2> QED
    BY <2>1, <2>2, <2>4, <2>5, <2>6, SurfaceKeeps
<1>6. ASSUME NEW t \in Tasks, Sleep(t) PROVE IInv'
  <2>1. PICK e \in heap : /\ Earliest(e) /\ e.at > now /\ heap' = heap \ {e}
                          /\ held' = [held EXCEPT ![t] = e]
                          /\ popped' = [popped EXCEPT ![t] = count]
                          /\ left' = [left EXCEPT ![t] = e.at - now]
    BY <1>6 DEF Sleep, Pop
  <2>2. /\ UNCHANGED <<timeVars, jobVars, count, last, lost, taskVars>>
        /\ held[t] = NoEntry
        /\ e \in Entry /\ e.job # 0 /\ e.at \in Nat /\ now \in Nat
        /\ held \in [Tasks -> Entry \cup {NoEntry}] /\ popped \in [Tasks -> Nat]
        /\ count \in Nat
    BY SMTT(30), <1>6 DEF Sleep, Free, IInv, TypeOK, Entry
  <2>3. /\ held'[t] = e /\ popped'[t] = count
        /\ \A u \in Tasks : u # t => held'[u] = held[u] /\ popped'[u] = popped[u]
    BY <2>1, <2>2
  <2>4. TypeOK'
    BY SMTT(30), <2>1, <2>2 DEF IInv, TypeOK, TaskTypeOK, timeVars, jobVars, taskVars
  <2>5. Known'
    <3>1. \A u \in Tasks : held'[u] # NoEntry =>
            held'[u].job <= Len(job) /\ held'[u].seq < count /\ popped'[u] <= count
      BY <2>2, <2>3 DEF IInv, Known
    <3> QED
      BY <2>1, <2>2, <3>1 DEF IInv, Known, jobVars
  <2>6. ListedLast'
    BY <2>2 DEF IInv, ListedLast, jobVars
  <2>7. InTime'
    BY <2>1, <2>2, <2>3 DEF IInv, TypeOK, InTime, timeVars
  <2>8. OneEntry'
    BY <2>1, <2>2, <2>3 DEF IInv, OneEntry, InHands
  <2>9. NeverForgotten'
    <3> SUFFICES ASSUME NEW id \in Ids, listed[id] # 0
                 PROVE  AccountedFor(listed[id])'
      BY <2>2 DEF NeverForgotten, jobVars
    <3>1. AccountedFor(listed[id])
      BY DEF IInv, NeverForgotten
    <3> QED
      BY <2>1, <2>2, <2>3, <3>1 DEF AccountedFor, InHands, jobVars
  <2>10. OncePerOccurrence'
    BY <2>1, <2>2, <2>3 DEF IInv, OncePerOccurrence, InHands, timeVars
  <2>11. EarliestFirst'
    <3> SUFFICES ASSUME NEW u \in Tasks, held'[u] # NoEntry,
                        NEW f \in heap', Before(f, held'[u])
                 PROVE  f.seq >= popped'[u]
      BY DEF EarliestFirst
    <3>1. CASE u = t
      <4>1. /\ f \in heap \ {e} /\ Before(e, f) /\ Before(f, e)
            /\ f.at \in Nat /\ f.seq \in Nat /\ e.seq \in Nat
        BY SMTT(30), <2>1, <2>2, <2>3, <3>1 DEF Earliest, IInv, TypeOK, Entry
      <4> QED
        BY <2>2, <4>1 DEF Before
    <3>2. CASE u # t
      BY <2>1, <2>3, <3>2 DEF IInv, EarliestFirst
    <3> QED
      BY <3>1, <3>2
  <2> QED
    BY <2>4, <2>5, <2>6, <2>7, <2>8, <2>9, <2>10, <2>11 DEF IInv
<1>7. ASSUME NEW t \in Tasks, Wake(t) PROVE IInv'
  <2> DEFINE e == held[t]
  <2>1. /\ e # NoEntry /\ left[t] = 0 /\ Surface(e, heap)
        /\ held' = [held EXCEPT ![t] = NoEntry] /\ popped' = [popped EXCEPT ![t] = 0]
        /\ UNCHANGED <<timeVars, jobVars, left, lost, taskVars>>
    BY <1>7 DEF Wake, LetGo
  <2>2. /\ held \in [Tasks -> Entry \cup {NoEntry}] /\ e \in Entry
        /\ e.job \in 1..MaxJobs /\ e.job <= Len(job)
    BY <2>1 DEF IInv, TypeOK, Known, Entry
  <2>3. ~setBack => e.at <= now
    BY <2>1 DEF IInv, InTime, TypeOK
  <2>4. \A f \in heap : f.job # e.job
    BY <2>1 DEF IInv, OneEntry, InHands
  <2>5. \A u \in Tasks : u # t => held[u].job # e.job
    BY <2>1 DEF IInv, OneEntry
  <2>6. ~setBack /\ last[e.job] # 0 => last[e.job] < e.at
    BY <2>2 DEF IInv, OncePerOccurrence, InHands
  <2>7. /\ held' \in [Tasks -> Entry \cup {NoEntry}]
        /\ \A u \in Tasks : /\ held'[u] = held[u] \/ held'[u] = NoEntry
                            /\ held'[u].job # e.job
                            /\ held[u].job # e.job => held'[u] = held[u]
        /\ popped' \in [Tasks -> Nat]
        /\ \A u \in Tasks : held'[u] # NoEntry => popped'[u] = popped[u]
    BY <2>1, <2>2, <2>5 DEF IInv, TypeOK
  <2>8. heap \in SUBSET heap /\ \A f \in heap : f \in heap \/ f = e
    OBVIOUS
  <2> HIDE DEF e
  <2> QED
    BY <2>1, <2>2, <2>3, <2>4, <2>6, <2>7, <2>8, SurfaceKeeps
<1>8. ASSUME NEW t \in Tasks, CancelSleep(t) PROVE IInv'
  <2>1. /\ held' = [held EXCEPT ![t] = NoEntry] /\ left' = [left EXCEPT ![t] = 0]
        /\ popped' = [popped EXCEPT ![t] = 0] /\ popped \in [Tasks -> Nat]
        /\ lost' = IF held[t] = NoEntry THEN lost ELSE lost \cup {held[t].job}
        /\ UNCHANGED <<timeVars, jobVars, heapVars, last>>
        /\ held \in [Tasks -> Entry \cup {NoEntry}] /\ left \in [Tasks -> Nat]
    BY <1>8 DEF CancelSleep, LetGo, IInv, TypeOK
  <2>2. /\ held'[t] = NoEntry
        /\ \A u \in Tasks : u # t => /\ held'[u] = held[u] /\ left'[u] = left[u]
                                    /\ popped'[u] = popped[u]
    BY <2>1
  <2>3. TypeOK'
    <3>1. TaskTypeOK'
      BY <1>8 DEF CancelSleep, TaskCancelled, IInv, TypeOK, TaskTypeOK
    <3>2. lost' \subseteq 1..MaxJobs
      BY <2>1 DEF IInv, TypeOK, Entry
    <3> QED
      BY <2>1, <3>1, <3>2 DEF IInv, TypeOK, timeVars, jobVars, heapVars
  <2>4. Known' /\ ListedLast'
    BY <2>1, <2>2 DEF IInv, Known, ListedLast, jobVars, heapVars
  <2>5. InTime'
    BY <2>1, <2>2 DEF IInv, InTime, timeVars
  <2>6. OneEntry' /\ EarliestFirst'
    <3>1. \A u \in Tasks : \/ (held'[u] = held[u] /\ popped'[u] = popped[u])
                           \/ held'[u] = NoEntry
      BY <2>2
    <3>2. heap' = heap /\ \A f \in heap : f.job # 0
      BY <2>1 DEF heapVars, IInv, TypeOK, Entry
    <3>3. \A u \in Tasks : held[u] # NoEntry => held[u].job # 0
      BY <2>1 DEF Entry
    <3> QED
      BY <2>2, <3>1, <3>2, <3>3 DEF IInv, OneEntry, EarliestFirst, InHands
  <2>7. NeverForgotten'
    <3> SUFFICES ASSUME NEW id \in Ids, listed[id] # 0
                 PROVE  AccountedFor(listed[id])'
      BY <2>1 DEF NeverForgotten, jobVars
    <3>1. AccountedFor(listed[id])
      BY DEF IInv, NeverForgotten
    <3>2. CASE t \in InHands(listed[id])
      <4>1. held[t].job = listed[id] /\ held[t] # NoEntry
        BY <3>2 DEF InHands
      <4> QED
        BY <2>1, <4>1 DEF AccountedFor, jobVars
    <3>3. CASE t \notin InHands(listed[id])
      BY <2>1, <2>2, <3>1, <3>3 DEF AccountedFor, InHands, jobVars, heapVars
    <3> QED
      BY <3>2, <3>3
  <2>8. OncePerOccurrence'
    <3>1. \A u \in Tasks, j \in 1..MaxJobs : held'[u].job = j => held'[u] = held[u]
      BY <2>2
    <3> QED
      BY <2>1, <3>1 DEF IInv, OncePerOccurrence, InHands, timeVars, heapVars
  <2> QED
    BY <2>3, <2>4, <2>5, <2>6, <2>7, <2>8 DEF IInv
<1>9. CASE StartStop
  <2>1. UNCHANGED <<timeVars, jobVars, heapVars, held, popped, left, last, lost>>
    BY <1>9 DEF StartStop, handVars
  <2>2. TaskTypeOK'
    BY ZenonT(30), <1>9 DEF StartStop, Start, Stop, StopReturns, IInv, TypeOK, TaskTypeOK
  <2>3. TypeOK'
    BY <2>1, <2>2 DEF IInv, TypeOK, timeVars, jobVars, heapVars
  <2> QED
    BY <2>1, <2>3 DEF IInv, Known, ListedLast, InTime, OneEntry, NeverForgotten,
       AccountedFor, OncePerOccurrence, EarliestFirst, InHands, timeVars, jobVars, heapVars
<1>10. CASE Tick
  <2>1. /\ now' = now + 1
        /\ left' = [u \in Tasks |-> IF left[u] = 0 THEN 0 ELSE left[u] - 1]
        /\ UNCHANGED <<setBack, jobVars, heapVars, held, popped, last, lost, taskVars>>
    BY <1>10 DEF Tick, handVars
  <2>2. TypeOK'
    BY SMTT(30), <2>1 DEF IInv, TypeOK, TaskTypeOK, jobVars, heapVars, taskVars
  <2>3. InTime'
    BY SMTT(30), <2>1 DEF IInv, TypeOK, InTime, Entry
  <2>4. OncePerOccurrence'
    BY <2>1 DEF IInv, TypeOK, OncePerOccurrence, InHands, heapVars
  <2>5. Known' /\ ListedLast' /\ OneEntry' /\ EarliestFirst'
    BY <2>1 DEF IInv, Known, ListedLast, OneEntry, EarliestFirst, InHands,
                jobVars, heapVars
  <2>6. NeverForgotten'
    BY <2>1 DEF IInv, NeverForgotten, AccountedFor, InHands, jobVars, heapVars
  <2> QED
    BY <2>2, <2>3, <2>4, <2>5, <2>6 DEF IInv
<1>11. CASE SetClock
  <2>1. /\ \/ now' = now + 1 /\ setBack' = setBack
           \/ now > 1 /\ now' = now - 1 /\ setBack' = TRUE
        /\ UNCHANGED <<jobVars, heapVars, held, popped, left, last, lost, taskVars>>
    BY <1>11 DEF SetClock, handVars
  <2>2. TypeOK'
    <3>1. now' \in Nat \ {0}
      <4>1. now \in Nat \ {0}
        BY DEF IInv, TypeOK
      <4>2. now' = now + 1 \/ (now > 1 /\ now' = now - 1)
        BY <2>1, Zenon
      <4> QED
        BY <4>1, <4>2
    <3>2. setBack' \in BOOLEAN
      BY <2>1, Zenon DEF IInv, TypeOK
    <3> QED
      BY <2>1, <3>1, <3>2 DEF IInv, TypeOK, TaskTypeOK, jobVars, heapVars, taskVars
  <2>3. InTime'
    BY <2>1 DEF IInv, TypeOK, InTime, Entry
  <2>4. OncePerOccurrence'
    BY <2>1 DEF IInv, TypeOK, OncePerOccurrence, InHands, heapVars
  <2>5. Known' /\ ListedLast' /\ OneEntry' /\ EarliestFirst'
    BY <2>1 DEF IInv, Known, ListedLast, OneEntry, EarliestFirst, InHands,
                jobVars, heapVars
  <2>6. NeverForgotten'
    BY <2>1 DEF IInv, NeverForgotten, AccountedFor, InHands, jobVars, heapVars
  <2> QED
    BY <2>2, <2>3, <2>4, <2>5, <2>6 DEF IInv
<1>12. CASE UNCHANGED vars
  <2>1. UNCHANGED <<timeVars, jobVars, heapVars, held, popped, left, last, lost, taskVars>>
    BY <1>12 DEF vars, handVars
  <2>2. TypeOK'
    BY <2>1 DEF IInv, TypeOK, TaskTypeOK, timeVars, jobVars, heapVars, taskVars
  <2>3. Known' /\ ListedLast' /\ InTime' /\ OneEntry' /\ EarliestFirst'
    BY <2>1 DEF IInv, Known, ListedLast, InTime, OneEntry, EarliestFirst, InHands,
                timeVars, jobVars, heapVars
  <2>4. NeverForgotten' /\ OncePerOccurrence'
    BY <2>1 DEF IInv, NeverForgotten, AccountedFor, OncePerOccurrence, InHands,
                timeVars, jobVars, heapVars
  <2> QED
    BY <2>2, <2>3, <2>4 DEF IInv
<1> QED
  BY <1>1, <1>2, <1>3, <1>4, <1>5, <1>6, <1>7, <1>8, <1>9, <1>10, <1>11, <1>12
     DEF Next, Calls, Work

(***************************************************************************)
(* The theorems                                                            *)
(***************************************************************************)

LEMMA Invariant == Spec => []IInv
BY InitInvariant, StepInvariant, PTL DEF Spec

\* The types, and what the scheduler keeps: one entry for a job, no listed job
\* forgotten, no occurrence fired twice, nothing overtaken but by what came later.
THEOREM TypeCorrect == Spec => []TypeOK
<1>1. IInv => TypeOK
  BY DEF IInv
<1> QED
  BY <1>1, Invariant, PTL

THEOREM Once == Spec => []OneEntry
<1>1. IInv => OneEntry
  BY DEF IInv
<1> QED
  BY <1>1, Invariant, PTL

THEOREM Remembered == Spec => []NeverForgotten
<1>1. IInv => NeverForgotten
  BY DEF IInv
<1> QED
  BY <1>1, Invariant, PTL

THEOREM Occurrences == Spec => []OncePerOccurrence
<1>1. IInv => OncePerOccurrence
  BY DEF IInv
<1> QED
  BY <1>1, Invariant, PTL

THEOREM Overtaking == Spec => []EarliestFirst
<1>1. IInv => EarliestFirst
  BY DEF IInv
<1> QED
  BY <1>1, Invariant, PTL

(***************************************************************************)
(* The scheduler implements Triggers: an entry is its job's time, wherever *)
(* it is, and only surfacing, adding and cancelling a task change times.   *)
(***************************************************************************)

\* The time of each job, in a set with at most one entry for a job; and what it
\* becomes when an entry is taken out, or one is put in for a job without.
LEMMA TimeIs ==
  ASSUME NEW E \in SUBSET Entry, \A e, f \in E : e.job = f.job => e = f
  PROVE  /\ DOMAIN TimeOf(E) = 1..MaxJobs
         /\ TimeOf(E) = [j \in 1..MaxJobs |-> TimeOf(E)[j]]
         /\ \A e \in E : e.job \in 1..MaxJobs /\ TimeOf(E)[e.job] = e.at
         /\ \A j \in 1..MaxJobs : (\A e \in E : e.job # j) => TimeOf(E)[j] = 0
<1>1. DOMAIN TimeOf(E) = 1..MaxJobs /\ TimeOf(E) = [j \in 1..MaxJobs |-> TimeOf(E)[j]]
  BY DEF TimeOf
<1>2. ASSUME NEW e \in E PROVE e.job \in 1..MaxJobs /\ TimeOf(E)[e.job] = e.at
  <2>1. e.job \in 1..MaxJobs
    BY DEF Entry
  <2>2. (CHOOSE f \in E : f.job = e.job) = e
    OBVIOUS
  <2> QED
    BY <2>1, <2>2 DEF TimeOf
<1>3. ASSUME NEW j \in 1..MaxJobs, \A e \in E : e.job # j PROVE TimeOf(E)[j] = 0
  BY <1>3 DEF TimeOf
<1> QED
  BY <1>1, <1>2, <1>3

LEMMA TimeRemoved ==
  ASSUME NEW E \in SUBSET Entry, \A e, f \in E : e.job = f.job => e = f, NEW e \in E
  PROVE  TimeOf(E \ {e}) = [TimeOf(E) EXCEPT ![e.job] = 0]
<1> DEFINE R == E \ {e}
<1>1. R \in SUBSET Entry /\ \A f, g \in R : f.job = g.job => f = g
  OBVIOUS
<1>2. /\ TimeOf(R) = [j \in 1..MaxJobs |-> TimeOf(R)[j]]
      /\ \A f \in R : f.job \in 1..MaxJobs /\ TimeOf(R)[f.job] = f.at
      /\ \A j \in 1..MaxJobs : (\A f \in R : f.job # j) => TimeOf(R)[j] = 0
  <2> HIDE DEF R
  <2> QED
    BY <1>1, TimeIs
<1>3. ASSUME NEW j \in 1..MaxJobs
      PROVE  TimeOf(R)[j] = [TimeOf(E) EXCEPT ![e.job] = 0][j]
  <2>1. CASE j = e.job
    BY <1>2, <2>1, TimeIs
  <2>2. CASE j # e.job /\ \E f \in E : f.job = j
    BY <1>2, <2>2, TimeIs
  <2>3. CASE j # e.job /\ \A f \in E : f.job # j
    BY <1>2, <2>3, TimeIs
  <2> QED
    BY <2>1, <2>2, <2>3
<1> HIDE DEF R
<1> DEFINE T == [TimeOf(E) EXCEPT ![e.job] = 0]
<1>4. T = [j \in 1..MaxJobs |-> T[j]]
  BY TimeIs
<1>5. TimeOf(R) = T
  <2> HIDE DEF T
  <2>1. \A j \in 1..MaxJobs : TimeOf(R)[j] = T[j]
    BY <1>3 DEF T
  <2> QED
    BY <1>2, <1>4, <2>1
<1> QED
  BY <1>5 DEF R

LEMMA TimeAdded ==
  ASSUME NEW E \in SUBSET Entry, \A e, f \in E : e.job = f.job => e = f,
         NEW n \in Entry, \A e \in E : e.job # n.job
  PROVE  TimeOf(E \cup {n}) = [TimeOf(E) EXCEPT ![n.job] = n.at]
<1> DEFINE A == E \cup {n}
<1>1. A \in SUBSET Entry /\ n \in A /\ \A f, g \in A : f.job = g.job => f = g
  OBVIOUS
<1>2. A \ {n} = E
  OBVIOUS
<1>3. TimeOf(E) = [TimeOf(A) EXCEPT ![n.job] = 0]
  <2> HIDE DEF A
  <2> QED
    BY <1>1, <1>2, TimeRemoved
<1>4. /\ TimeOf(A) = [j \in 1..MaxJobs |-> TimeOf(A)[j]]
      /\ n.job \in 1..MaxJobs /\ TimeOf(A)[n.job] = n.at
  <2> HIDE DEF A
  <2> QED
    BY <1>1, TimeIs
<1> HIDE DEF A
<1>5. TimeOf(A) = [TimeOf(E) EXCEPT ![n.job] = n.at]
  BY <1>3, <1>4
<1> QED
  BY <1>5 DEF A

\* The entries of a state: one for a job, of a job that was added.
LEMMA EntriesKnown ==
  ASSUME IInv
  PROVE  /\ Entries \in SUBSET Entry
         /\ \A e, f \in Entries : e.job = f.job => e = f
         /\ \A e \in Entries : e.job <= Len(job)
<1>1. /\ heap \subseteq Entry /\ held \in [Tasks -> Entry \cup {NoEntry}]
      /\ OneEntry /\ Known
  BY DEF IInv, TypeOK
<1>2. \A e \in Entries : e \in heap \/ \E t \in Tasks : held[t] = e /\ e # NoEntry
  BY DEF Entries
<1>3. \A e, f \in Entries : e.job = f.job => e = f
  <2> SUFFICES ASSUME NEW e \in Entries, NEW f \in Entries, e.job = f.job PROVE e = f
    OBVIOUS
  <2> QED
    BY <1>1, <1>2 DEF OneEntry, InHands
<1> QED
  BY <1>1, <1>2, <1>3 DEF Known

\* A step that leaves the entries alone leaves the times alone.
LEMMA TimesKept == Entries' = Entries => dueBar' = dueBar
BY DEF dueBar, TimeOf

\* An added job gets its time, that of its entry if it has one.
LEMMA AddMaps ==
  ASSUME IInv, NEW j \in Job, List(j), NEW at \in Nat,
         \/ at # 0 /\ Enqueue(at)
         \/ at = 0 /\ UNCHANGED heapVars
  PROVE  Trig!Add(j, at)
<1> USE SchedulerAssumption, TaskAssumption, NoEntryIsNone
<1> DEFINE n == Len(job) + 1
<1>1. /\ Len(job) < MaxJobs /\ Len(job') = n /\ n \in 1..MaxJobs
      /\ job' = Append(job, j)
      /\ listed' = [listed EXCEPT ![j.id] = n]
      /\ UNCHANGED <<now, setBack, held, last, lost>>
  BY DEF List, IInv, TypeOK, timeVars, handVars
<1>2. /\ Entries \in SUBSET Entry
      /\ \A e, f \in Entries : e.job = f.job => e = f
      /\ \A e \in Entries : e.job # n
  <2>1. \A e \in Entries : e.job <= Len(job) /\ e.job \in Nat
    BY EntriesKnown DEF Entry
  <2> QED
    BY <2>1, EntriesKnown DEF IInv, TypeOK
<1>3. dueBar' = [dueBar EXCEPT ![n] = at]
  <2>1. CASE at # 0 /\ Enqueue(at)
    <3> DEFINE x == [at |-> at, seq |-> count, job |-> n]
    <3>1. x \in Entry /\ x.job = n /\ x.at = at
      BY <1>1, <2>1 DEF Entry, IInv, TypeOK
    <3>2. heap' = heap \cup {x}
      BY <1>1, <2>1 DEF Enqueue
    <3> HIDE DEF x
    <3>3. Entries' = Entries \cup {x}
      BY <1>1, <3>2 DEF Entries
    <3>4. TimeOf(Entries \cup {x}) = [TimeOf(Entries) EXCEPT ![n] = at]
      BY <1>2, <3>1, TimeAdded
    <3> QED
      BY <3>3, <3>4 DEF dueBar
  <2>2. CASE at = 0 /\ UNCHANGED heapVars
    <3>1. Entries' = Entries
      BY <1>1, <2>2 DEF Entries, heapVars
    <3>2. dueBar[n] = 0 /\ dueBar = [k \in 1..MaxJobs |-> dueBar[k]]
      BY <1>1, <1>2, TimeIs DEF dueBar
    <3> QED
      BY <2>2, <3>1, <3>2, TimesKept
  <2> QED
    BY <2>1, <2>2
<1> QED
  BY <1>1, <1>3 DEF Trig!Add

\* An entry that surfaces fires or is skipped: H are the entries others hold.
LEMMA SurfaceMaps ==
  ASSUME IInv, NEW e, NEW rest, NEW H, Surface(e, rest),
         e \in Entries, Entries \ {e} = rest \cup H, Entries' = heap' \cup H,
         ~setBack => e.at <= now,
         UNCHANGED <<timeVars, jobVars, lost>>
  PROVE  \E k \in 1..MaxJobs : Trig!Fire(k) \/ Trig!Skip(k)
<1> USE SchedulerAssumption, NoEntryIsNone
<1> DEFINE k == e.job
           R == Entries \ {e}
<1>1. /\ Entries \in SUBSET Entry /\ \A f, g \in Entries : f.job = g.job => f = g
      /\ R \in SUBSET Entry /\ \A f, g \in R : f.job = g.job => f = g
      /\ \A f \in R : f.job # k
      /\ e \in Entry /\ k \in 1..MaxJobs /\ k \in 1..Len(job) /\ job[k] \in Job
      /\ e.at \in Nat \ {0} /\ count \in Nat /\ now \in Nat \ {0}
  <2>1. /\ Entries \in SUBSET Entry /\ \A f, g \in Entries : f.job = g.job => f = g
        /\ k <= Len(job)
    BY EntriesKnown
  <2>2. /\ job \in Seq(Job) /\ Len(job) \in Nat /\ count \in Nat /\ now \in Nat \ {0}
    BY DEF IInv, TypeOK
  <2>3. e \in Entry /\ k \in 1..MaxJobs /\ e.at \in Nat \ {0}
    BY <2>1 DEF Entry
  <2>4. k \in 1..Len(job)
    BY <2>1, <2>2, <2>3
  <2> HIDE DEF k
  <2>5. job[k] \in Job
    BY <2>2, <2>4
  <2>6. \A f \in R : f.job # k
    BY <2>1 DEF k
  <2> QED
    BY <2>1, <2>2, <2>3, <2>4, <2>5, <2>6
<1>2. TimeOf(R) = [dueBar EXCEPT ![k] = 0]
  BY <1>1, TimeRemoved DEF dueBar
<1>3. /\ dueBar[k] = e.at
      /\ dueBar = [j \in 1..MaxJobs |-> dueBar[j]]
  BY <1>1, TimeIs DEF dueBar
<1>4. Trig!Due(k)
  BY <1>1, <1>3 DEF Trig!Due
<1>5. UNCHANGED <<now, setBack, job, listed, lost>>
  BY DEF timeVars, jobVars
<1>6. CASE job[k].id \in cancelled
  <2>1. heap' = rest /\ last' = last
    BY <1>6 DEF Surface
  <2>2. Entries' = R
    BY <2>1
  <2> HIDE DEF R
  <2>3. dueBar' = [dueBar EXCEPT ![k] = 0]
    BY <1>2, <2>2 DEF dueBar
  <2>4. job[k].id \in Ids
    BY <1>1 DEF Job
  <2>5. listed[job[k].id] = 0
    BY <1>6, <2>4 DEF IInv, ListedLast
  <2> QED
    BY <1>1, <1>4, <1>5, <2>1, <2>3, <2>5 DEF Trig!Skip
<1>7. CASE job[k].id \notin cancelled
  <2>1. Fire(e, rest) /\ last' = [last EXCEPT ![k] = dueBar[k]]
    BY <1>3, <1>7 DEF Surface, Fire
  <2>2. listed[job[k].id] >= k
    BY <1>1, <1>7 DEF IInv, ListedLast
  <2>3. dueBar' = [dueBar EXCEPT ![k] = IF job[k].kind = "cron"
                                        THEN NextCron(job[k].period) ELSE 0]
    <3>1. CASE job[k].kind = "cron"
      <4> DEFINE x == [at |-> NextCron(job[k].period), seq |-> count, job |-> k]
      <4>1. NextCron(job[k].period) \in Nat \ {0}
        BY <1>1, <3>1, NextCronLater DEF Job
      <4>2. x \in Entry /\ x.job = k /\ x.at = NextCron(job[k].period)
        BY <1>1, <4>1 DEF Entry
      <4>3. heap' = rest \cup {x}
        BY <2>1, <3>1 DEF Fire
      <4> HIDE DEF x
      <4>4. Entries' = R \cup {x}
        BY <4>3
      <4> HIDE DEF R, k
      <4>5. TimeOf(R \cup {x}) = [TimeOf(R) EXCEPT ![k] = NextCron(job[k].period)]
        BY <1>1, <4>2, TimeAdded
      <4>6. dueBar' = [[dueBar EXCEPT ![k] = 0] EXCEPT ![k] = NextCron(job[k].period)]
        BY <1>2, <4>4, <4>5 DEF dueBar
      <4> QED
        BY <1>3, <3>1, <4>6
    <3>2. CASE job[k].kind # "cron"
      <4>1. Entries' = R
        BY <2>1, <3>2 DEF Fire
      <4> HIDE DEF R
      <4> QED
        BY <1>2, <3>2, <4>1 DEF dueBar
    <3> QED
      BY <3>1, <3>2
  <2> HIDE DEF k, R
  <2>4. NextCron(job[k].period) = Trig!NextTime(job[k].period)
    BY DEF NextCron, Trig!NextTime
  <2> QED
    BY <1>1, <1>4, <1>5, <2>1, <2>2, <2>3, <2>4 DEF Trig!Fire
<1> QED
  BY <1>6, <1>7

LEMMA InitMaps == Init => Trig!TrigInit
<1> SUFFICES ASSUME Init PROVE Trig!TrigInit
  OBVIOUS
<1>1. Entries = {}
  BY DEF Init, Entries
<1>2. dueBar = [j \in 1..MaxJobs |-> 0]
  BY <1>1 DEF dueBar, TimeOf
<1> QED
  BY <1>2 DEF Init, Trig!TrigInit

LEMMA StepMaps == IInv /\ [Next]_vars => [Trig!TrigNext]_(Trig!trigVars)
<1> SUFFICES ASSUME IInv, [Next]_vars PROVE [Trig!TrigNext]_(Trig!trigVars)
  OBVIOUS
<1> USE SchedulerAssumption, TaskAssumption, NoEntryIsNone
<1>1. ASSUME NEW id \in Ids, NEW period \in Periods, AddCron(id, period)
      PROVE  Trig!TrigNext
  <2> DEFINE j == [id |-> id, kind |-> "cron", period |-> period]
  <2>1. j \in Job
    BY DEF Job
  <2>2. NextCron(period) \in Nat \ {0}
    BY NextCronLater DEF IInv, TypeOK
  <2>3. List(j) /\ Enqueue(NextCron(period))
    BY <1>1 DEF AddCron
  <2> HIDE DEF j
  <2>4. Trig!Add(j, NextCron(period))
    BY <2>1, <2>2, <2>3, AddMaps
  <2>5. Trig!AddCron(id, period)
    BY <2>4 DEF j, Trig!AddCron, Trig!NextTime, NextCron
  <2> QED
    BY <2>5 DEF Trig!TrigNext
<1>2. ASSUME NEW id \in Ids, NEW delay \in Delays, AddDelayed(id, delay)
      PROVE  Trig!TrigNext
  <2> DEFINE j == [id |-> id, kind |-> "delayed"]
  <2>1. j \in Job
    BY DEF Job
  <2>2. now + delay \in Nat /\ now + delay # 0
    BY DEF IInv, TypeOK
  <2>3. List(j) /\ Enqueue(now + delay)
    BY <1>2 DEF AddDelayed
  <2> HIDE DEF j
  <2>4. Trig!Add(j, now + delay)
    BY <2>1, <2>2, <2>3, AddMaps
  <2>5. Trig!AddDelayed(id, delay)
    BY <2>4 DEF j, Trig!AddDelayed
  <2> QED
    BY <2>5 DEF Trig!TrigNext
<1>3. ASSUME NEW id \in Ids, AddBadCron(id) PROVE Trig!TrigNext
  <2> DEFINE j == [id |-> id, kind |-> "malformed"]
  <2>1. j \in Job
    BY DEF Job
  <2>2. List(j) /\ UNCHANGED heapVars
    BY <1>3 DEF AddBadCron
  <2> HIDE DEF j
  <2>3. Trig!Add(j, 0)
    BY <2>1, <2>2, AddMaps
  <2>4. Trig!AddBadCron(id)
    BY <2>3 DEF j, Trig!AddBadCron
  <2> QED
    BY <2>4 DEF Trig!TrigNext
<1>4. ASSUME NEW id \in Ids, Cancel(id) PROVE Trig!TrigNext
  <2>1. dueBar' = dueBar
    BY <1>4, TimesKept DEF Cancel, heapVars, handVars, Entries
  <2>2. Trig!Cancel(id)
    BY <1>4, <2>1 DEF Cancel, timeVars, Trig!Cancel
  <2> QED
    BY <2>2 DEF Trig!TrigNext
<1>5. ASSUME NEW t \in Tasks, FireNow(t) PROVE Trig!TrigNext
  <2>1. PICK e \in heap : e.at <= now /\ Surface(e, heap \ {e})
    BY <1>5 DEF FireNow
  <2> DEFINE H == {held[u] : u \in {v \in Tasks : held[v] # NoEntry}}
  <2>2. held' = held /\ UNCHANGED <<timeVars, jobVars, lost>>
    BY <1>5 DEF FireNow, handVars
  <2>3. e \in Entries /\ Entries \ {e} = (heap \ {e}) \cup H /\ Entries' = heap' \cup H
    <3>1. e \notin H
      BY DEF IInv, OneEntry, InHands
    <3> QED
      BY <2>2, <3>1 DEF Entries
  <2> HIDE DEF H
  <2>4. \E k \in 1..MaxJobs : Trig!Fire(k) \/ Trig!Skip(k)
    BY <2>1, <2>2, <2>3, SurfaceMaps
  <2> QED
    BY <2>4 DEF Trig!TrigNext
<1>6. ASSUME NEW t \in Tasks, Sleep(t) PROVE UNCHANGED Trig!trigVars
  <2>1. PICK e \in heap : heap' = heap \ {e} /\ held' = [held EXCEPT ![t] = e]
    BY <1>6 DEF Sleep, Pop
  <2>2. /\ held \in [Tasks -> Entry \cup {NoEntry}] /\ held[t] = NoEntry
        /\ e # NoEntry
        /\ UNCHANGED <<timeVars, jobVars, last, lost>>
    BY <1>6 DEF Sleep, Free, IInv, TypeOK
  <2>3. Entries' = Entries
    <3>1. held'[t] = e /\ \A u \in Tasks : u # t => held'[u] = held[u]
      BY <2>1, <2>2
    <3>2. \A f : f \in Entries' <=> f \in Entries
      BY <2>1, <2>2, <3>1 DEF Entries
    <3> QED
      BY <3>2
  <2> QED
    BY <2>2, <2>3, TimesKept DEF timeVars, jobVars, Trig!trigVars
<1>7. ASSUME NEW t \in Tasks, Wake(t) PROVE Trig!TrigNext
  <2> DEFINE e == held[t]
             H == {held[u] : u \in {v \in Tasks \ {t} : held[v] # NoEntry}}
  <2>1. /\ e # NoEntry /\ left[t] = 0 /\ Surface(e, heap)
        /\ held' = [held EXCEPT ![t] = NoEntry]
        /\ UNCHANGED <<timeVars, jobVars, lost>>
    BY <1>7 DEF Wake, LetGo
  <2>2. /\ held \in [Tasks -> Entry \cup {NoEntry}] /\ e \in Entry
        /\ ~setBack => e.at <= now
    BY <2>1 DEF IInv, TypeOK, InTime
  <2>3. /\ held'[t] = NoEntry
        /\ \A u \in Tasks : u # t => held'[u] = held[u] /\ held[u] # e
    BY <2>1, <2>2 DEF IInv, OneEntry
  <2>4. e \notin heap
    BY <2>1 DEF IInv, OneEntry, InHands
  <2>5. e \in Entries /\ Entries \ {e} = heap \cup H /\ Entries' = heap' \cup H
    <3>1. H = {held'[u] : u \in {v \in Tasks : held'[v] # NoEntry}}
      BY <2>3
    <3>2. Entries = heap \cup H \cup {e}
      BY <2>1 DEF Entries
    <3>3. e \notin H
      BY <2>3
    <3> QED
      BY <2>4, <3>1, <3>2, <3>3 DEF Entries
  <2> HIDE DEF H, e
  <2>6. \E k \in 1..MaxJobs : Trig!Fire(k) \/ Trig!Skip(k)
    BY <2>1, <2>2, <2>5, SurfaceMaps
  <2> QED
    BY <2>6 DEF Trig!TrigNext
<1>8. ASSUME NEW t \in Tasks, CancelSleep(t) PROVE [Trig!TrigNext]_(Trig!trigVars)
  <2> DEFINE e == held[t]
  <2>1. /\ held' = [held EXCEPT ![t] = NoEntry]
        /\ lost' = IF e = NoEntry THEN lost ELSE lost \cup {e.job}
        /\ UNCHANGED <<timeVars, jobVars, heapVars, last>>
        /\ held \in [Tasks -> Entry \cup {NoEntry}]
    BY <1>8 DEF CancelSleep, LetGo, IInv, TypeOK
  <2>2. held'[t] = NoEntry /\ \A u \in Tasks : u # t => held'[u] = held[u]
    BY <2>1
  <2>3. CASE e = NoEntry
    <3>1. held' = held
      BY <2>1, <2>3
    <3>2. dueBar' = dueBar
      BY <2>1, <3>1, TimesKept DEF Entries, heapVars
    <3> QED
      BY <2>1, <2>3, <3>2 DEF timeVars, jobVars, Trig!trigVars
  <2>4. CASE e # NoEntry
    <3>1. e \notin heap /\ \A u \in Tasks : u # t => held[u] # e
      BY <2>1, <2>4 DEF IInv, OneEntry, InHands
    <3>2. e \in Entries /\ Entries' = Entries \ {e}
      <4>1. e \in Entries
        BY <2>4 DEF Entries
      <4>2. heap' = heap
        BY <2>1 DEF heapVars
      <4>3. \A f : f \in Entries' <=> f \in Entries \ {e}
        BY <2>2, <3>1, <4>2 DEF Entries
      <4> QED
        BY <4>1, <4>3
    <3> HIDE DEF e
    <3>3. TimeOf(Entries \ {e}) = [TimeOf(Entries) EXCEPT ![e.job] = 0]
      BY <3>2, EntriesKnown, TimeRemoved
    <3>4. dueBar' = [dueBar EXCEPT ![e.job] = 0]
      BY <3>2, <3>3 DEF dueBar
    <3>5. e.job \in 1..MaxJobs /\ dueBar[e.job] # 0
      <4>1. e \in Entry /\ e.at # 0
        BY <3>2, EntriesKnown DEF Entry
      <4> QED
        BY <3>2, <4>1, EntriesKnown, TimeIs DEF dueBar
    <3>6. Trig!Lose(e.job)
      BY <2>1, <2>4, <3>4, <3>5 DEF timeVars, jobVars, Trig!Lose
    <3> QED
      BY <3>5, <3>6 DEF Trig!TrigNext
  <2> QED
    BY <2>3, <2>4
<1>9. CASE StartStop
  <2>1. UNCHANGED <<timeVars, jobVars, heapVars, held, popped, last, lost>>
    BY <1>9 DEF StartStop, handVars
  <2>2. dueBar' = dueBar
    BY <2>1, TimesKept DEF Entries, heapVars
  <2> QED
    BY <2>1, <2>2 DEF timeVars, jobVars, Trig!trigVars
<1>10. CASE Tick \/ SetClock
  <2>1. UNCHANGED <<jobVars, heapVars, held, popped, last, lost>>
    BY <1>10 DEF Tick, SetClock, handVars
  <2>2. dueBar' = dueBar
    BY <2>1, TimesKept DEF Entries, heapVars
  <2>3. now \in Nat
    BY DEF IInv, TypeOK
  <2>4. \/ now' = now + 1 /\ setBack' = setBack
        \/ now' = now - 1 /\ setBack' = TRUE
    BY <1>10, Zenon DEF Tick, SetClock
  <2>5. \/ now' > now /\ setBack' = setBack
        \/ now' < now /\ setBack' = TRUE
    BY <2>3, <2>4
  <2>6. Trig!Clock
    BY <2>1, <2>2, <2>5 DEF jobVars, Trig!Clock
  <2> QED
    BY <2>6 DEF Trig!TrigNext
<1>11. CASE UNCHANGED vars
  <2>1. dueBar' = dueBar
    BY <1>11, TimesKept DEF vars, Entries, heapVars, handVars
  <2> QED
    BY <1>11, <2>1 DEF vars, timeVars, jobVars, Trig!trigVars
<1> QED
  BY <1>1, <1>2, <1>3, <1>4, <1>5, <1>6, <1>7, <1>8, <1>9, <1>10, <1>11
     DEF Next, Calls, Work

\* The scheduler implements Triggers: for every job one time, at which or after which
\* it fires, and only while its id is listed for it or for a later job; no firing
\* without the next one of a cron job.
THEOREM Refinement == Spec => ImplementsTriggers
BY InitMaps, StepMaps, Invariant, PTL DEF Spec, ImplementsTriggers, Trig!TrigSpec
=============================================================================
