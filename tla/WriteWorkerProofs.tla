-------------------------- MODULE WriteWorkerProofs --------------------------
(***************************************************************************)
(* The write worker, for any writes, any callers of stop and any number of *)
(* restarts.                                                               *)
(***************************************************************************)
EXTENDS WriteWorker, QueueProofs

(***************************************************************************)
(* start and stop                                                          *)
(***************************************************************************)

TaskInv == TaskTypeOK /\ OneTask /\ OneStop

LEMMA TaskInitInvariant == TaskInit => TaskInv
BY TaskAssumption
   DEF TaskInit, TaskInv, TaskTypeOK, OneTask, OneStop, Alive

\* The steps of start and stop, and a step in which a running task dies.
LEMMA TaskSteps ==
  ASSUME TaskInv,
         \/ Task
         \/ \E t \in Tasks : /\ task[t] = "running"
                             /\ task' = [task EXCEPT ![t] = "died"]
                             /\ UNCHANGED <<handle, awaiting, overlapped>>
         \/ UNCHANGED taskVars
  PROVE  TaskInv'
<1> USE TaskAssumption DEF TaskInv, TaskTypeOK, OneTask, OneStop, Alive
<1>1. CASE Start
  <2>1. PICK t \in Tasks : /\ task[t] = "none"
                           /\ task' = [task EXCEPT ![t] = "running"]
                           /\ handle' = t
    BY <1>1 DEF Start
  <2>2. /\ overlapped' = (overlapped \/ Stopping) /\ awaiting' = awaiting
        /\ handle # NoTask => ~Alive(handle)
    BY <1>1 DEF Start
  <2>3. TaskTypeOK'
    BY <2>1, <2>2
  <2>4. OneTask'
    BY <2>1, <2>2
  <2>5. OneStop'
    BY <2>1, <2>2 DEF Stopping
  <2> QED
    BY <2>3, <2>4, <2>5
<1>2. ASSUME NEW s \in Stops, Stop(s) PROVE TaskInv'
  <2>1. /\ awaiting[s] = NoTask /\ handle \in Tasks
        /\ overlapped' = (overlapped \/ Stopping)
    BY <1>2 DEF Stop
  <2>2. CASE /\ Alive(handle)
             /\ task' = [task EXCEPT ![handle] = "cancelling"]
             /\ awaiting' = [awaiting EXCEPT ![s] = handle]
             /\ handle' = handle
    <3>1. TaskTypeOK'
      BY <2>1, <2>2
    <3>2. OneTask'
      BY <2>1, <2>2
    <3>3. OneStop'
      BY <2>1, <2>2 DEF Stopping
    <3> QED
      BY <3>1, <3>2, <3>3
  <2>3. CASE /\ task[handle] = "cancelled" /\ handle' = NoTask
             /\ UNCHANGED <<task, awaiting>>
    <3>1. TaskTypeOK'
      BY <2>1, <2>3
    <3>2. OneTask'
      BY <2>1, <2>3
    <3>3. OneStop'
      BY <2>1, <2>3 DEF Stopping
    <3> QED
      BY <3>1, <3>2, <3>3
  <2> QED
    BY <1>2, <2>2, <2>3 DEF Stop
<1>3. ASSUME NEW s \in Stops, StopReturns(s) PROVE TaskInv'
  BY <1>3 DEF StopReturns
<1>4. ASSUME NEW t \in Tasks, TaskCancelled(t) PROVE TaskInv'
  BY <1>4 DEF TaskCancelled
<1>5. ASSUME NEW t \in Tasks, task[t] = "running",
             task' = [task EXCEPT ![t] = "died"],
             UNCHANGED <<handle, awaiting, overlapped>>
      PROVE  TaskInv'
  BY <1>5
<1>6. CASE UNCHANGED taskVars
  BY <1>6 DEF taskVars
<1> QED
  BY <1>1, <1>2, <1>3, <1>4, <1>5, <1>6 DEF Task

(***************************************************************************)
(* The queue of writes                                                     *)
(***************************************************************************)

LEMMA InitInvariant == Init => IInv /\ TaskInv
<1> SUFFICES ASSUME Init PROVE IInv /\ TaskInv
  OBVIOUS
<1>1. TaskInv
  BY TaskInitInvariant DEF Init
<1>2. <<>> \in Seq(Writes) /\ ToSet(<<>>) = {} /\ <<>> = <<>> \o <<>>
  BY EmptySeq, ConcatEmptySeq DEF ToSet
<1> QED
  BY <1>1, <1>2
     DEF Init, TaskInv, IInv, TypeOK, QueuedOnce, FutureKept, InOrder

\* The queue grows by a write it does not hold, or loses its first.
LEMMA PutOnce ==
  ASSUME NEW q \in Seq(Writes), NEW w \in Writes, w \notin ToSet(q),
         \A i, j \in DOMAIN q : q[i] = q[j] => i = j
  PROVE  \A i, j \in DOMAIN Append(q, w) :
           Append(q, w)[i] = Append(q, w)[j] => i = j
<1>1. /\ DOMAIN q = 1..Len(q) /\ Len(q) \in Nat
      /\ DOMAIN Append(q, w) = 1..(Len(q) + 1)
      /\ \A i \in 1..Len(q) : Append(q, w)[i] = q[i]
      /\ Append(q, w)[Len(q) + 1] = w
  BY AppendProperties, LenProperties
<1>2. \A i \in 1..Len(q) : q[i] # w
  BY <1>1 DEF ToSet
<1> QED
  BY <1>1, <1>2

LEMMA GetOnce ==
  ASSUME NEW q \in Seq(Writes), q # <<>>,
         \A i, j \in DOMAIN q : q[i] = q[j] => i = j
  PROVE  /\ \A i, j \in DOMAIN Tail(q) : Tail(q)[i] = Tail(q)[j] => i = j
         /\ Head(q) \notin ToSet(Tail(q))
<1>1. /\ DOMAIN q = 1..Len(q) /\ Len(q) \in Nat \ {0} /\ Head(q) = q[1]
      /\ DOMAIN Tail(q) = 1..(Len(q) - 1)
      /\ \A i \in 1..(Len(q) - 1) : Tail(q)[i] = q[i + 1]
  BY HeadTailProperties, LenProperties, EmptySeq
<1>2. ASSUME NEW i \in DOMAIN Tail(q), NEW j \in DOMAIN Tail(q),
             Tail(q)[i] = Tail(q)[j]
      PROVE  i = j
  <2>1. i + 1 \in DOMAIN q /\ j + 1 \in DOMAIN q /\ q[i + 1] = q[j + 1]
    BY <1>1, <1>2
  <2> QED
    BY <1>1, <2>1
<1>3. ASSUME NEW i \in DOMAIN Tail(q) PROVE Tail(q)[i] # Head(q)
  <2>1. i + 1 \in DOMAIN q /\ 1 \in DOMAIN q /\ i + 1 # 1
    BY <1>1
  <2> QED
    BY <1>1, <2>1
<1> QED
  BY <1>2, <1>3 DEF ToSet

LEMMA NextInvariant == IInv /\ TaskInv /\ [Next]_vars => IInv' /\ TaskInv'
<1> SUFFICES ASSUME IInv, TaskInv, [Next]_vars PROVE IInv' /\ TaskInv'
  OBVIOUS
<1>2. ASSUME NEW w \in Writes, Submit(w) PROVE IInv' /\ TaskInv'
  <2>1. TaskInv'
    BY <1>2, TaskSteps DEF Submit
  <2>2. /\ queue' \in Seq(Writes) /\ ToSet(queue') = ToSet(queue) \cup {w}
        /\ submitted' \in Seq(Writes)
    BY <1>2, PutHolds DEF Submit, IInv, TypeOK
  <2>3. w \notin ToSet(queue) /\ w \notin ToSet(applied)
    BY <1>2 DEF Submit, IInv, QueuedOnce
  <2>4. TypeOK'
    BY <1>2, <2>1, <2>2 DEF Submit, IInv, TypeOK, TaskInv
  <2>5. QueuedOnce'
    <3>1. \A i, j \in DOMAIN queue' : queue'[i] = queue'[j] => i = j
      BY <1>2, <2>3, PutOnce DEF Submit, IInv, TypeOK, QueuedOnce
    <3> QED
      BY <1>2, <2>2, <2>3, <3>1 DEF Submit, IInv, TypeOK, QueuedOnce
  <2>6. FutureKept'
    BY <1>2, <2>2 DEF Submit, IInv, TypeOK, FutureKept
  <2>7. InOrder'
    <3>1. applied \in Seq(Writes) /\ queue \in Seq(Writes)
      BY DEF IInv, TypeOK
    <3>2. applied \o Append(queue, w) = Append(applied \o queue, w)
      BY <3>1, PutLast
    <3> QED
      BY <1>2, <3>2 DEF Submit, IInv, InOrder
  <2> QED
    BY <2>1, <2>4, <2>5, <2>6, <2>7 DEF IInv
<1>3. ASSUME NEW t \in Tasks, Apply(t) PROVE IInv' /\ TaskInv'
  <2> DEFINE w == Head(queue)
  <2>1. /\ queue \in Seq(Writes) /\ queue # <<>> /\ applied \in Seq(Writes)
        /\ queue' = Tail(queue) /\ applied' = Append(applied, w)
        /\ UNCHANGED <<caller, submitted>>
    BY <1>3 DEF Apply, IInv, TypeOK
  <2>2. /\ w \in Writes /\ queue' \in Seq(Writes)
        /\ ToSet(queue) = ToSet(queue') \cup {w}
    BY <2>1, GetHolds
  <2>3. /\ applied' \in Seq(Writes) /\ ToSet(applied') = ToSet(applied) \cup {w}
    BY <2>1, <2>2, PutHolds
  <2>4. /\ \A i, j \in DOMAIN queue' : queue'[i] = queue'[j] => i = j
        /\ w \notin ToSet(queue')
    BY <2>1, GetOnce DEF IInv, QueuedOnce
  <2>5. \/ future[w] = "cancelled" /\ future' = future
        \/ /\ future[w] = "pending"
           /\ future' = [future EXCEPT
                           ![w] = IF w \in Failing THEN "exception" ELSE "result"]
    BY <1>3, <2>2 DEF Apply, IInv, FutureKept
  <2>6. TaskInv'
    BY <1>3, TaskSteps DEF Apply, taskVars
  <2>7. InOrder'
    BY <2>1, MoveKeepsOrder DEF IInv, InOrder
  <2> HIDE DEF w
  <2>8. TypeOK'
    BY <2>1, <2>2, <2>3, <2>5, <2>6 DEF IInv, TypeOK, TaskInv
  <2>9. QueuedOnce'
    BY <2>1, <2>2, <2>3, <2>4 DEF IInv, QueuedOnce
  <2>10. FutureKept'
    BY <2>1, <2>2, <2>3, <2>4, <2>5 DEF IInv, TypeOK, FutureKept
  <2> QED
    BY <2>6, <2>7, <2>8, <2>9, <2>10 DEF IInv
<1>4. ASSUME NEW w \in Writes, Return(w) PROVE IInv' /\ TaskInv'
  <2>1. TaskInv'
    BY <1>4, TaskSteps DEF Return
  <2>2. TypeOK'
    BY <1>4, <2>1 DEF Return, IInv, TaskInv, TypeOK
  <2>3. QueuedOnce'
    <3>1. /\ UNCHANGED <<queue, applied>>
          /\ \A v \in Writes : caller[v] # "idle" => caller'[v] # "idle"
      BY <1>4 DEF Return, IInv, TypeOK
    <3>2. ToSet(queue) \cup ToSet(applied) \subseteq Writes
      BY HeldTyped DEF IInv, TypeOK
    <3> QED
      BY <3>1, <3>2 DEF IInv, QueuedOnce
  <2>4. FutureKept'
    BY <1>4 DEF Return, IInv, TypeOK, FutureKept
  <2>5. InOrder'
    BY <1>4 DEF Return, IInv, InOrder
  <2> QED
    BY <2>1, <2>2, <2>3, <2>4, <2>5 DEF IInv
<1>5. ASSUME NEW w \in Writes, CancelCaller(w) PROVE IInv' /\ TaskInv'
  <2>1. TaskInv'
    BY <1>5, TaskSteps DEF CancelCaller
  <2> QED
    BY <1>5, <2>1
       DEF CancelCaller, IInv, TaskInv, TypeOK, QueuedOnce, FutureKept, InOrder
<1>6. CASE Task /\ UNCHANGED writeVars
  <2>1. TaskInv'
    BY <1>6, TaskSteps
  <2> QED
    BY <1>6, <2>1
       DEF writeVars, IInv, TaskInv, TypeOK, QueuedOnce, FutureKept, InOrder
<1>7. CASE UNCHANGED vars
  <2>1. TaskInv'
    BY <1>7, TaskSteps DEF vars
  <2> QED
    BY <1>7, <2>1
       DEF vars, writeVars, IInv, TaskInv, TypeOK, QueuedOnce, FutureKept, InOrder
<1> QED
  BY <1>2, <1>3, <1>4, <1>5, <1>6, <1>7 DEF Next

THEOREM Invariance == Spec => [](IInv /\ TaskInv)
BY InitInvariant, NextInvariant, PTL DEF Spec

\* The write worker keeps to its types.
THEOREM TypeCorrect == Spec => []TypeOK
<1>1. IInv => TypeOK
  BY DEF IInv
<1> QED
  BY <1>1, Invariance, PTL

\* No write is ever lost, repeated or overtaken, however workers stop and die.
THEOREM Ordered == Spec => []InOrder
<1>1. IInv => InOrder
  BY DEF IInv
<1> QED
  BY <1>1, Invariance, PTL

\* A caller that submit answers is told what became of its write, and one that
\* still waits needs nothing but a worker.
THEOREM Truthful == Spec => []ToldTheTruth
<1>1. IInv => ToldTheTruth
  BY DEF IInv, FutureKept, ToldTheTruth
<1> QED
  BY <1>1, Invariance, PTL

\* Calls of start and stop that do not overlap leave one worker at most.
THEOREM OneWorker == Spec => []OneTask
<1>1. TaskInv => OneTask
  BY DEF TaskInv
<1> QED
  BY <1>1, Invariance, PTL

(***************************************************************************)
(* The worker implements Submissions: what is queued is what was submitted *)
(* and not called yet, so the head of the queue is the next write.         *)
(***************************************************************************)
LEMMA InitMaps == Init => Sub!SubInit
BY DEF Init, Sub!SubInit

LEMMA StepMaps == IInv /\ [Next]_vars => [Sub!SubNext]_(Sub!subVars)
<1> SUFFICES ASSUME IInv, [Next]_vars PROVE [Sub!SubNext]_(Sub!subVars)
  OBVIOUS
<1>1. ASSUME NEW w \in Writes, Submit(w) PROVE Sub!SubNext
  <2>1. Sub!Submit(w)
    BY <1>1 DEF Submit, Sub!Submit
  <2> QED
    BY <2>1 DEF Sub!SubNext
<1>2. ASSUME NEW t \in Tasks, Apply(t) PROVE Sub!SubNext
  <2>1. /\ queue \in Seq(Writes) /\ queue # <<>> /\ applied \in Seq(Writes)
        /\ applied' = Append(applied, Head(queue))
        /\ submitted = applied \o queue
        /\ UNCHANGED <<submitted, caller>>
    BY <1>2 DEF Apply, IInv, TypeOK, InOrder
  <2>2. /\ Len(queue) \in Nat \ {0} /\ Head(queue) = queue[1] /\ Len(applied) \in Nat
    BY <2>1, HeadTailProperties, LenProperties, EmptySeq
  <2>3. /\ Len(submitted) = Len(applied) + Len(queue)
        /\ submitted[Len(applied) + 1] = queue[1]
    BY <2>1, <2>2, ConcatProperties
  <2>4. Sub!ApplyNext
    BY <2>1, <2>2, <2>3 DEF Sub!ApplyNext
  <2> QED
    BY <2>4 DEF Sub!SubNext
<1>3. ASSUME NEW w \in Writes, Return(w) PROVE Sub!SubNext
  <2>1. \/ future[w] = "result" /\ caller' = [caller EXCEPT ![w] = "returned"]
        \/ future[w] = "exception" /\ caller' = [caller EXCEPT ![w] = "raised"]
    BY <1>3 DEF Return
  <2>2. /\ w \in ToSet(applied)
        /\ caller' = [caller EXCEPT ![w] = IF w \in Failing THEN "raised" ELSE "returned"]
    BY <2>1 DEF IInv, FutureKept
  <2>3. \E i \in 1..Len(applied) : applied[i] = w
    <3>1. applied \in Seq(Writes) /\ DOMAIN applied = 1..Len(applied)
      BY LenProperties DEF IInv, TypeOK
    <3> QED
      BY <2>2, <3>1 DEF ToSet
  <2>4. Sub!Answer(w)
    BY <1>3, <2>2, <2>3 DEF Return, Sub!Answer
  <2> QED
    BY <2>4 DEF Sub!SubNext
<1>4. ASSUME NEW w \in Writes, CancelCaller(w) PROVE Sub!SubNext
  <2>1. Sub!GiveUp(w)
    BY <1>4 DEF CancelCaller, Sub!GiveUp
  <2> QED
    BY <2>1 DEF Sub!SubNext
<1>5. CASE Task /\ UNCHANGED writeVars
  BY <1>5 DEF writeVars, Sub!subVars
<1>6. CASE UNCHANGED vars
  BY <1>6 DEF vars, writeVars, Sub!subVars
<1> QED
  BY <1>1, <1>2, <1>3, <1>4, <1>5, <1>6 DEF Next

\* Workers and their ends are invisible to the callers: the writes are called once,
\* in the order of submission, and a caller is answered after its own and by it.
THEOREM Refinement == Spec => ImplementsSubmissions
BY InitMaps, StepMaps, Invariance, PTL DEF Spec, ImplementsSubmissions, Sub!SubSpec
=============================================================================
