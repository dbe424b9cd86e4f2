----------------------------- MODULE HostProofs -----------------------------
(***************************************************************************)
(* An installation, for any processes, agents, runs, secrets, definitions  *)
(* and bounds.                                                             *)
(***************************************************************************)
EXTENDS Host, FiniteSetTheorems, TLAPS

(***************************************************************************)
(* Calls                                                                   *)
(***************************************************************************)

SystemTasks == {Idle} \cup SystemTask
VaultTasks  == {Idle} \cup VaultTask
ProvTasks   == {Idle} \cup ProvTask
Tasks       == {Idle} \cup SystemTask \cup VaultTask \cup ProvTask

ProcTypeOK ==
  /\ up \subseteq Procs /\ calls \in 0..MaxCalls /\ crashes \in 0..MaxCrashes
  /\ task \in [Procs -> Tasks]
  /\ \A p \in Procs : p \notin up => task[p] = Idle

LEMMA TypeParts == TypeOK <=> ProcTypeOK /\ SystemTypeOK /\ VaultTypeOK /\ ProvTypeOK
BY DEF TypeOK, ProcTypeOK, Tasks

LEMMA SystemTaskFields ==
  ASSUME NEW t \in SystemTasks
  PROVE  /\ t.step \in {"idle", "create", "get", "update", "updated", "run"}
         /\ t.step = "idle" => t = Idle
         /\ t.step \in {"create", "get"} => t.agent \in Agents
         /\ t.step \in {"update", "updated"} =>
              /\ t.agent \in Agents /\ t.registering \in BOOLEAN
              /\ t.registering => t.status = "active"
              /\ ~ t.registering => t.status \in Statuses
         /\ t.step = "run" => t.run \in Runs
<1>1. CASE t \in {Idle}
  BY <1>1 DEF Idle
<1>2. CASE t \in [step : {"create", "get"}, agent : Agents]
  BY <1>2 DEF Idle
<1>3. CASE t \in [step : {"update", "updated"}, agent : Agents, status : Statuses,
                  registering : {FALSE}]
  BY <1>3 DEF Idle
<1>4. CASE t \in [step : {"update", "updated"}, agent : Agents, status : {"active"},
                  registering : {TRUE}]
  BY <1>4 DEF Idle
<1>5. CASE t \in [step : {"run"}, run : Runs]
  BY <1>5 DEF Idle
<1> QED
  BY <1>1, <1>2, <1>3, <1>4, <1>5, Zenon DEF SystemTasks, SystemTask

LEMMA VaultTaskFields ==
  ASSUME NEW t \in VaultTasks
  PROVE  /\ t.step \in {"idle", "flush"}
         /\ t.step = "idle" => t = Idle
         /\ t.step = "flush" => t.ref \in Refs \cup {Key}
BY DEF VaultTasks, VaultTask, Idle

LEMMA ProvTaskFields ==
  ASSUME NEW t \in ProvTasks
  PROVE  /\ t.step \in {"idle", "provision", "seed", "seeding", "jobs", "state"}
         /\ t.step = "idle" => t = Idle
         /\ t.step # "idle" => t.agent \in Hosted
         /\ t.step \in {"seed", "seeding", "jobs"} => t.done \in Nat
         /\ t.step = "state" => t.field \in Fields /\ t.value \in Values
BY DEF ProvTasks, ProvTask, Idle

\* The step says whose call it is.
LEMMA TaskKinds ==
  ASSUME NEW t \in Tasks
  PROVE  /\ t.step \in {"create", "get", "update", "updated", "run"} => t \in SystemTasks
         /\ t.step = "flush" => t \in VaultTasks
         /\ t.step \in {"provision", "seed", "seeding", "jobs", "state"} => t \in ProvTasks
         /\ t.step = "idle" => t = Idle
<1>1. CASE t \in SystemTasks
  BY <1>1, SystemTaskFields
<1>2. CASE t \in VaultTasks
  BY <1>2, VaultTaskFields
<1>3. CASE t \in ProvTasks
  BY <1>3, ProvTaskFields
<1> QED
  BY <1>1, <1>2, <1>3 DEF Tasks, SystemTasks, VaultTasks, ProvTasks

LEMMA IdleStep == Idle.step = "idle"
BY DEF Idle

\* p goes from one step of a call to the next, and nothing else of a process changes.
Moves(p, T) ==
  /\ p \in up /\ task[p] \in T
  /\ \E t \in T : task' = [task EXCEPT ![p] = t]
  /\ UNCHANGED <<up, crashes>> /\ calls' \in 0..MaxCalls

LEMMA MovesFacts ==
  ASSUME ProcTypeOK, NEW p \in Procs, NEW T \in SUBSET Tasks, Moves(p, T)
  PROVE  /\ ProcTypeOK' /\ task[p] \in T /\ task'[p] \in T
         /\ \A q \in Procs \ {p} : task'[q] = task[q]
         /\ up' = up
BY DEF ProcTypeOK, Moves

LEMMA CallMoves ==
  ASSUME ProcTypeOK, NEW p \in Procs, NEW t, NEW T, t \in T, Idle \in T, Call(p, t)
  PROVE  Moves(p, T) /\ task'[p] = t /\ task[p] = Idle
<1>1. calls' \in 0..MaxCalls
  BY ProcessesAssumption DEF ProcTypeOK, Call
<1> QED
  BY <1>1 DEF ProcTypeOK, Moves, Call

LEMMA ContinueMoves ==
  ASSUME ProcTypeOK, NEW p \in Procs, NEW t, NEW T, t \in T, task[p] \in T,
         task[p].step # "idle", Continue(p, t)
  PROVE  Moves(p, T) /\ task'[p] = t
BY IdleStep DEF ProcTypeOK, Moves, Continue

(***************************************************************************)
(* The steps of each service                                               *)
(***************************************************************************)

\* What SystemNext does to the tasks.
LEMMA SystemMoves ==
  ASSUME ProcTypeOK, NEW p \in Procs, SystemNext(p)
  PROVE  Moves(p, SystemTasks)
<1> DEFINE T == SystemTasks
<1>1. Idle \in T
  BY DEF SystemTasks
<1>2. \A a \in Agents : /\ [step |-> "create", agent |-> a] \in T
                        /\ [step |-> "get", agent |-> a] \in T
  BY DEF SystemTasks, SystemTask
<1>3. \A a \in Agents :
        /\ \A status \in Statuses :
             [step |-> "update", agent |-> a, status |-> status, registering |-> FALSE] \in T
        /\ [step |-> "update", agent |-> a, status |-> "active", registering |-> TRUE] \in T
  BY DEF SystemTasks, SystemTask
<1>4. \A r \in Runs : [step |-> "run", run |-> r] \in T
  BY DEF SystemTasks, SystemTask
<1>5. task[p].step \in {"create", "get", "update", "updated", "run"} =>
        task[p] \in T /\ task[p].step # "idle"
  BY TaskKinds DEF ProcTypeOK
<1>6. task[p].step \in {"create", "get", "update", "updated"} => task[p].agent \in Agents
  BY <1>5, SystemTaskFields
<1>7. task[p].step = "update" => [task[p] EXCEPT !.step = "updated"] \in T
  BY <1>5, SystemTaskFields DEF SystemTasks, SystemTask, Idle
<1> HIDE DEF T
<1>8. CASE \E a \in Agents : Create(p, a) \/ CreateRefused(p, a)
  BY <1>1, <1>2, <1>8, CallMoves DEF Create, CreateRefused, T
<1>9. CASE \E a \in Agents, status \in Statuses : UpdateStatus(p, a, status)
  <2>1. PICK a \in Agents, status \in Statuses : UpdateStatus(p, a, status)
    BY <1>9
  <2> DEFINE t == IF Seen(Registry(p)).agents[a] = NoRow THEN Idle
                  ELSE [step |-> "update", agent |-> a, status |-> status,
                        registering |-> FALSE]
  <2>2. t \in T
    BY <1>1, <1>3
  <2>3. Call(p, t)
    BY <2>1 DEF UpdateStatus
  <2> HIDE DEF t
  <2> QED
    BY <1>1, <2>2, <2>3, CallMoves DEF T
<1>10. CASE CreateLocked(p) \/ RunLocked(p) \/ Read(p)
  BY <1>1, <1>10, CallMoves DEF CreateLocked, RunLocked, Read, T
<1>11. CASE EndCreate(p)
  BY <1>1, <1>2, <1>5, <1>6, <1>11, ContinueMoves DEF EndCreate, T
<1>12. CASE Activate(p)
  BY <1>1, <1>3, <1>5, <1>6, <1>12, ContinueMoves DEF Activate, T
<1>13. CASE Update(p)
  BY <1>1, <1>5, <1>7, <1>13, ContinueMoves DEF Update, T
<1>14. CASE EndUpdate(p)
  BY <1>1, <1>5, <1>14, ContinueMoves DEF EndUpdate, T
<1>15. CASE \E r \in Runs : StartRun(p, r) \/ EndRun(p, r)
  BY <1>1, <1>4, <1>15, CallMoves DEF StartRun, EndRun, T
<1>16. CASE CommitRun(p)
  BY <1>1, <1>5, <1>16, ContinueMoves DEF CommitRun, T
<1> QED
  BY <1>8, <1>9, <1>10, <1>11, <1>12, <1>13, <1>14, <1>15, <1>16 DEF SystemNext

LEMMA VaultMoves ==
  ASSUME ProcTypeOK, NEW p \in Procs, VaultNext(p)
  PROVE  Moves(p, VaultTasks)
<1> DEFINE T == VaultTasks
<1>1. Idle \in T /\ \A ref \in Refs \cup {Key} : [step |-> "flush", ref |-> ref] \in T
  BY DEF VaultTasks, VaultTask
<1>2. p \in Flushing => task[p] \in T /\ task[p].step # "idle"
  BY TaskKinds DEF ProcTypeOK, Flushing
<1> HIDE DEF T
<1>3. CASE \E k \in Keys : Open(p, k)
  BY <1>1, <1>3, CallMoves DEF Open, T
<1>4. CASE \E ref \in Refs \cup {Key} : Flush(p, ref)
  BY <1>1, <1>4, CallMoves DEF Flush, T
<1>5. CASE EndFlush(p)
  BY <1>1, <1>2, <1>5, ContinueMoves DEF EndFlush, T
<1>6. CASE FlushFails(p)
  BY <1>1, <1>2, <1>6, ContinueMoves DEF FlushFails, T
<1> QED
  BY <1>3, <1>4, <1>5, <1>6 DEF VaultNext, Set, Delete, RotateKey

LEMMA Advance ==
  ASSUME NEW t \in [step : {"seed", "seeding", "jobs"}, agent : Hosted, done : Nat]
  PROVE  /\ [t EXCEPT !.step = "seeding"] \in ProvTasks
         /\ [t EXCEPT !.step = "seed", !.done = @ + 1] \in ProvTasks
         /\ [t EXCEPT !.step = "jobs", !.done = 0] \in ProvTasks
         /\ [t EXCEPT !.done = @ + 1] \in ProvTasks
<1> DEFINE n == t.done + 1
<1>1. n \in Nat /\ 0 \in Nat
  OBVIOUS
<1> HIDE DEF n
<1>2. [t EXCEPT !.step = "seed", !.done = n] \in ProvTasks
  BY <1>1 DEF ProvTasks, ProvTask
<1>3. [t EXCEPT !.step = "jobs", !.done = 0] \in ProvTasks
  BY <1>1 DEF ProvTasks, ProvTask
<1>4. [t EXCEPT !.done = n] \in ProvTasks
  BY <1>1 DEF ProvTasks, ProvTask
<1>5. [t EXCEPT !.step = "seeding"] \in ProvTasks
  BY DEF ProvTasks, ProvTask
<1> QED
  BY <1>2, <1>3, <1>4, <1>5 DEF n

LEMMA ProvMoves ==
  ASSUME ProcTypeOK, NEW p \in Procs, ProvNext(p)
  PROVE  Moves(p, ProvTasks)
<1> DEFINE T == ProvTasks
           t == task[p]
<1>1. Idle \in T
  BY DEF ProvTasks
<1>2. \A a \in Hosted :
        /\ [step |-> "provision", agent |-> a] \in T
        /\ [step |-> "seed", agent |-> a, done |-> 0] \in T
        /\ \A f \in Fields, v \in Values :
             [step |-> "state", agent |-> a, field |-> f, value |-> v] \in T
  BY DEF ProvTasks, ProvTask
<1>3. t.step \in {"provision", "seed", "seeding", "jobs", "state"} =>
        t \in T /\ t.step # "idle" /\ t.agent \in Hosted
  BY TaskKinds, ProvTaskFields DEF ProcTypeOK
<1>4. t.step \in {"seed", "seeding", "jobs"} =>
        t \in [step : {"seed", "seeding", "jobs"}, agent : Hosted, done : Nat]
  BY <1>3 DEF T, ProvTasks, ProvTask, Idle
<1>5. t.step \in {"seed", "seeding", "jobs"} =>
        /\ [t EXCEPT !.step = "seeding"] \in T
        /\ [t EXCEPT !.step = "seed", !.done = @ + 1] \in T
        /\ [t EXCEPT !.step = "jobs", !.done = 0] \in T
        /\ [t EXCEPT !.done = @ + 1] \in T
  BY <1>4, Advance
<1> HIDE DEF T
<1>6. CASE \E a \in Hosted : \/ Instantiate(p, a) \/ UseKV(p, a)
                             \/ \E f \in Fields, v \in Values : WriteState(p, a, f, v)
  <2>1. ASSUME NEW u \in T, Call(p, u) PROVE Moves(p, T)
    BY <1>1, <2>1, CallMoves
  <2>2. ASSUME NEW a \in Hosted, Instantiate(p, a) PROVE Moves(p, T)
    BY <1>2, <2>1, <2>2 DEF Instantiate
  <2>3. ASSUME NEW a \in Hosted, UseKV(p, a) PROVE Moves(p, T)
    BY <1>1, <2>1, <2>3 DEF UseKV
  <2>4. ASSUME NEW a \in Hosted, NEW f \in Fields, NEW v \in Values, WriteState(p, a, f, v)
        PROVE  Moves(p, T)
    BY <1>2, <2>1, <2>4 DEF WriteState
  <2> QED
    BY <1>6, <2>2, <2>3, <2>4 DEF T
<1>7. CASE EndWriteState(p) \/ EndInstantiate(p) \/ StoreRaises(p)
  BY <1>1, <1>3, <1>7, ContinueMoves DEF EndWriteState, EndInstantiate, StoreRaises, T
<1>8. CASE Provision(p)
  <2> DEFINE next == [step |-> "seed", agent |-> t.agent, done |-> 0]
  <2>1. t.step = "provision" /\ Continue(p, next)
    BY <1>8 DEF Provision
  <2>2. next \in T
    BY <1>2, <1>3, <2>1
  <2> HIDE DEF next
  <2> QED
    BY <1>3, <2>1, <2>2, ContinueMoves DEF T
<1>9. CASE Seed(p)
  BY <1>3, <1>5, <1>9, ContinueMoves DEF Seed, T
<1>10. CASE EndSeed(p)
  <2> DEFINE next == [t EXCEPT !.step = "seed", !.done = @ + 1]
  <2>1. t.step = "seeding" /\ Continue(p, next)
    BY <1>10 DEF EndSeed
  <2>2. next \in T
    BY <1>5, <2>1
  <2> HIDE DEF next
  <2> QED
    BY <1>3, <2>1, <2>2, ContinueMoves DEF T
<1>11. CASE BeginJobs(p)
  <2> DEFINE next == [t EXCEPT !.step = "jobs", !.done = 0]
  <2>1. t.step = "seed" /\ Continue(p, next)
    BY <1>11 DEF BeginJobs
  <2>2. next \in T
    BY <1>5, <2>1
  <2> HIDE DEF next
  <2> QED
    BY <1>3, <2>1, <2>2, ContinueMoves DEF T
<1>12. CASE AddJob(p)
  <2> DEFINE next == [t EXCEPT !.done = @ + 1]
  <2>1. t.step = "jobs" /\ Continue(p, next)
    BY <1>12 DEF AddJob
  <2>2. next \in T
    BY <1>5, <2>1
  <2> HIDE DEF next
  <2> QED
    BY SMTT(30), <1>3, <2>1, <2>2, ContinueMoves DEF T
<1> QED
  BY <1>6, <1>7, <1>8, <1>9, <1>10, <1>11, <1>12 DEF ProvNext

(***************************************************************************)
(* system.db: its type                                                     *)
(***************************************************************************)

AllStatuses == Statuses \cup {"validated", "active"}

LEMMA WithRowTyped ==
  ASSUME NEW content \in Content, NEW a \in Agents, NEW status \in AllStatuses
  PROVE  /\ WithRow(content, a, status) \in Content
         /\ WithRow(content, a, status).runs = content.runs
         /\ WithRow(content, a, status).agents[a] = [column |-> status, json |-> status]
         /\ \A b \in Agents \ {a} :
              WithRow(content, a, status).agents[b] = content.agents[b]
<1> DEFINE row == [column |-> status, json |-> status]
<1>1. row \in Row
  BY DEF Row, AllStatuses
<1> HIDE DEF row
<1>2. WithRow(content, a, status) = [content EXCEPT !.agents[a] = row]
  BY DEF WithRow, row
<1>3. [content EXCEPT !.agents[a] = row] \in Content
  BY <1>1 DEF Content
<1> QED
  BY <1>2, <1>3 DEF Content, row

LEMMA WithRunTyped ==
  ASSUME NEW content \in Content, NEW r \in Runs, NEW status \in {"running", "ended"}
  PROVE  /\ [content EXCEPT !.runs[r] = status] \in Content
         /\ [content EXCEPT !.runs[r] = status].agents = content.agents
         /\ \A s \in Runs \ {r} : [content EXCEPT !.runs[r] = status].runs[s] = content.runs[s]
BY DEF Content

FileTypeOK ==
  /\ db \in Content /\ pending \in Content
  /\ writer \in Conns \cup {None}
  /\ readers \subseteq open /\ open \subseteq Conns
  /\ barred \in BOOLEAN

LEMMA SystemTypeParts ==
  /\ SystemTypeOK <=> /\ FileTypeOK /\ raised \subseteq Conns /\ cut \subseteq Agents
                      /\ asked \subseteq Agents \X Statuses
  /\ SystemTypeOK' <=> /\ FileTypeOK' /\ raised' \subseteq Conns /\ cut' \subseteq Agents
                       /\ asked' \subseteq Agents \X Statuses
BY DEF SystemTypeOK, FileTypeOK

LEMMA ConnsTyped ==
  \A p \in Procs : Registry(p) \in Conns /\ System(p) \in Conns
BY DEF Registry, System, Conns

LEMMA SeenTyped == ASSUME FileTypeOK, NEW c PROVE Seen(c) \in Content
BY DEF FileTypeOK, Seen

LEMMA FileTyped ==
  ASSUME FileTypeOK, NEW c \in Conns,
         \/ Select(c) \/ WriteLocked(c) \/ Commit(c) \/ CommitLocked(c)
         \/ \E content \in Content : Write(c, content)
  PROVE  FileTypeOK'
<1>1. CASE Select(c)
  <2>1. readers' \subseteq open
    BY <1>1 DEF Select, FileTypeOK
  <2> QED
    BY <1>1, <2>1 DEF Select, FileTypeOK
<1>2. CASE WriteLocked(c) \/ Commit(c) \/ CommitLocked(c)
  BY <1>2 DEF WriteLocked, Commit, CommitLocked, FileTypeOK
<1>3. CASE \E content \in Content : Write(c, content)
  <2>1. readers' \subseteq open'
    BY <1>3 DEF Write, FileTypeOK
  <2> QED
    BY <1>3, <2>1 DEF Write, FileTypeOK
<1> QED
  BY <1>1, <1>2, <1>3

\* Only update_status, called by another than register, asks for a status.
LEMMA AskedTyped ==
  ASSUME ProcTypeOK, SystemTypeOK, NEW p \in Procs, SystemNext(p)
  PROVE  asked' \subseteq Agents \X Statuses
<1> DEFINE t == task[p]
<1>1. asked \subseteq Agents \X Statuses
  BY SystemTypeParts
<1>2. t.step = "update" /\ ~ t.registering => t.agent \in Agents /\ t.status \in Statuses
  BY TaskKinds, SystemTaskFields DEF ProcTypeOK
<1> HIDE DEF t
<1>3. CASE Update(p)
  <2>1. t.step = "update"
    BY <1>3 DEF Update, t
  <2>2. asked' \subseteq asked \cup (IF t.registering THEN {} ELSE {<<t.agent, t.status>>})
    BY <1>3 DEF Update, t
  <2> QED
    BY <1>1, <1>2, <2>1, <2>2
<1>4. CASE asked' = asked
  BY <1>1, <1>4
<1>5. Update(p) \/ asked' = asked
  BY DEF SystemNext, Create, CreateRefused, CreateLocked, EndCreate, UpdateStatus, Activate,
     EndUpdate, StartRun, EndRun, RunLocked, CommitRun, Read
<1> QED
  BY <1>3, <1>4, <1>5

LEMMA SystemTyped ==
  ASSUME ProcTypeOK, SystemTypeOK, NEW p \in Procs, SystemNext(p)
  PROVE  SystemTypeOK'
<1> DEFINE c == Registry(p)
           s == System(p)
           t == task[p]
<1>1. FileTypeOK /\ raised \subseteq Conns /\ cut \subseteq Agents /\ c \in Conns /\ s \in Conns
  BY SystemTypeParts, ConnsTyped
<1>2. /\ t.step \in {"create", "get", "update", "updated"} => t.agent \in Agents
      /\ t.step \in {"update", "updated"} => t.status \in AllStatuses
      /\ t.step = "run" => t.run \in Runs
  BY TaskKinds, SystemTaskFields DEF ProcTypeOK, AllStatuses
<1>0. asked' \subseteq Agents \X Statuses
  BY AskedTyped
<1>3. CutBy(t) \subseteq Agents
  BY <1>2 DEF CutBy
<1>4. Seen(c) \in Content /\ Seen(s) \in Content
  BY <1>1, SeenTyped
<1> HIDE DEF c, s, t
<1>5. CASE \E a \in Agents : Create(p, a)
  <2>1. PICK a \in Agents : Create(p, a)
    BY <1>5
  <2>2. WithRow(Seen(c), a, "validated") \in Content
    BY <1>4, WithRowTyped DEF AllStatuses
  <2>3. Write(c, WithRow(Seen(c), a, "validated")) /\ UNCHANGED <<raised, cut>>
    BY <2>1 DEF Create, c
  <2> QED
    BY <1>0, <1>1, <2>2, <2>3, FileTyped, SystemTypeParts
<1>6. CASE \E a \in Agents : CreateRefused(p, a)
  <2>1. Write(c, Seen(c)) /\ Raise(c) /\ UNCHANGED cut
    BY <1>6 DEF CreateRefused, c
  <2> QED
    BY <1>0, <1>1, <1>4, <2>1, FileTyped, SystemTypeParts DEF Raise
<1>7. CASE CreateLocked(p) \/ RunLocked(p)
  <2>1. PICK d \in {c, s} : WriteLocked(d) /\ Raise(d) /\ UNCHANGED cut
    BY <1>7 DEF CreateLocked, RunLocked, c, s
  <2> QED
    BY <1>0, <1>1, <2>1, FileTyped, SystemTypeParts DEF Raise
<1>8. CASE EndCreate(p)
  BY <1>0, <1>1, <1>2, <1>8, FileTyped, SystemTypeParts DEF EndCreate, c, t, Raise, Succeed
<1>9. CASE \E a \in Agents, status \in Statuses : UpdateStatus(p, a, status)
  <2>1. Select(c) /\ UNCHANGED <<raised, cut>>
    BY <1>9 DEF UpdateStatus, c
  <2> QED
    BY <1>0, <1>1, <2>1, FileTyped, SystemTypeParts
<1>10. CASE Activate(p)
  <2>1. /\ Select(c) \/ UNCHANGED fileVars
        /\ cut' \subseteq Agents /\ raised' = raised
    BY <1>1, <1>2, <1>10 DEF Activate, c, t
  <2>2. CASE UNCHANGED fileVars
    BY <1>0, <1>1, <2>1, <2>2, SystemTypeParts DEF fileVars, FileTypeOK
  <2>3. CASE Select(c)
    BY <1>0, <1>1, <2>1, <2>3, FileTyped, SystemTypeParts
  <2> QED
    BY <2>1, <2>2, <2>3
<1>11. CASE Update(p)
  <2>1. \/ Write(c, Updated(Seen(c), t.agent, t.status)) \/ WriteLocked(c)
    BY <1>11 DEF Update, c, t
  <2>2. raised' \subseteq Conns /\ cut' \subseteq Agents
    BY <1>1, <1>3, <1>11 DEF Update, Raise, c, t
  <2>3. t.step = "update"
    BY <1>11 DEF Update, t
  <2>4. Updated(Seen(c), t.agent, t.status) \in Content
    BY <1>2, <1>4, <2>3, WithRowTyped DEF Updated
  <2> QED
    BY <1>0, <1>1, <2>1, <2>2, <2>4, FileTyped, SystemTypeParts
<1>12. CASE EndUpdate(p)
  <2>1. Commit(c) \/ CommitLocked(c)
    BY <1>12 DEF EndUpdate, c
  <2>2. raised' \subseteq Conns /\ cut' \subseteq Agents
    BY <1>1, <1>3, <1>12 DEF EndUpdate, Raise, Succeed, c, t
  <2> QED
    BY <1>0, <1>1, <2>1, <2>2, FileTyped, SystemTypeParts
<1>13. CASE \E r \in Runs : StartRun(p, r) \/ EndRun(p, r)
  <2>1. PICK r \in Runs : StartRun(p, r) \/ EndRun(p, r)
    BY <1>13
  <2>2. \/ Write(s, [Seen(s) EXCEPT !.runs[r] = "running"])
        \/ Write(s, [Seen(s) EXCEPT !.runs[r] = "ended"])
        \/ Write(s, Seen(s))
    BY <2>1 DEF StartRun, EndRun, s
  <2>3. raised' \subseteq Conns /\ cut' = cut
    BY <1>1, <2>1 DEF StartRun, EndRun, Raise, s
  <2>4. /\ [Seen(s) EXCEPT !.runs[r] = "running"] \in Content
        /\ [Seen(s) EXCEPT !.runs[r] = "ended"] \in Content
    BY <1>4, WithRunTyped
  <2>5. FileTypeOK'
    BY <1>1, <1>4, <2>2, <2>4, FileTyped
  <2> QED
    BY <1>0, <1>1, <2>3, <2>5, SystemTypeParts
<1>14. CASE CommitRun(p)
  <2>1. (Commit(s) \/ CommitLocked(s)) /\ raised' \subseteq Conns /\ cut' = cut
    BY <1>1, <1>14 DEF CommitRun, Raise, Succeed, s
  <2> QED
    BY <1>0, <1>1, <2>1, FileTyped, SystemTypeParts
<1>15. CASE Read(p)
  <2>1. PICK d \in {c, s} : Select(d)
    BY <1>15 DEF Read, ConnsOf, c, s
  <2>2. UNCHANGED <<raised, cut>>
    BY <1>15 DEF Read
  <2> QED
    BY <1>0, <1>1, <2>1, <2>2, FileTyped, SystemTypeParts
<1> QED
  BY <1>5, <1>6, <1>7, <1>8, <1>9, <1>10, <1>11, <1>12, <1>13, <1>14, <1>15 DEF SystemNext

LEMMA ClosedTyped ==
  ASSUME FileTypeOK, NEW cs, Closed(cs) PROVE FileTypeOK'
<1>1. readers' \subseteq open'
  BY DEF Closed, FileTypeOK
<1> QED
  BY <1>1 DEF Closed, FileTypeOK

LEMMA SystemCrashTyped ==
  ASSUME ProcTypeOK, SystemTypeOK, NEW p \in Procs, SystemCrash(p)
  PROVE  SystemTypeOK'
<1> DEFINE t == task[p]
<1>1. t.step \in {"get", "update", "updated"} => t.agent \in Agents
  BY TaskKinds, SystemTaskFields DEF ProcTypeOK
<1>2. CutBy(t) \subseteq Agents
  BY <1>1 DEF CutBy
<1> HIDE DEF t
<1>3. Closed(ConnsOf(p)) /\ raised' \subseteq raised /\ asked' = asked
  BY DEF SystemCrash
<1>4. cut' \subseteq Agents
  BY <1>1, <1>2, SystemTypeParts DEF SystemCrash, t
<1> QED
  BY <1>3, <1>4, ClosedTyped, SystemTypeParts

(***************************************************************************)
(* The vault: its type                                                     *)
(***************************************************************************)

LEMMA BlobTyped ==
  ASSUME VaultTypeOK, NEW p \in Procs
  PROVE  /\ [blob EXCEPT !.state = "empty"] \in Blob
         /\ Remains(p) \subseteq Blob
         /\ [state : {"whole", "torn"}, key : {key[p]}, data : {copy[p]}] \subseteq Blob
BY DEF VaultTypeOK, Remains, Blob

LEMMA CopyTyped ==
  ASSUME VaultTypeOK, NEW p \in Procs, NEW ref \in Refs, NEW value \in Secrets \cup {NoSecret}
  PROVE  /\ [copy EXCEPT ![p][ref] = value] \in [Procs -> Entries]
         /\ [copy EXCEPT ![p][ref] = value][p][ref] = value
         /\ \A q \in Procs, r \in Refs : q # p \/ r # ref =>
              [copy EXCEPT ![p][ref] = value][q][r] = copy[q][r]
BY DEF VaultTypeOK, Entries

LEMMA VaultTyped ==
  ASSUME ProcTypeOK, VaultTypeOK, NEW p \in Procs, VaultNext(p)
  PROVE  VaultTypeOK'
<1>1. up' = up
  BY VaultMoves DEF Moves
<1>2. NoEntries \in Entries
  BY DEF NoEntries, Entries
<1>3. CASE \E k \in Keys : Open(p, k)
  <2>1. PICK k \in Keys : Open(p, k)
    BY <1>3
  <2>2. Load(k) \in Entries
    BY <1>2 DEF Load, VaultTypeOK, Blob
  <2>3. p \in up
    BY <2>1 DEF Open, Call
  <2> QED
    BY <1>1, <2>1, <2>2, <2>3 DEF Open, VaultTypeOK
<1>4. ASSUME NEW ref \in Refs \cup {Key}, Flush(p, ref)
      PROVE  /\ blob' \in Blob /\ opened' \subseteq up' /\ mishap' \in BOOLEAN
             /\ acked' = acked /\ disputed' = disputed
  BY <1>1, <1>4, BlobTyped DEF Flush, VaultTypeOK
<1>5. CASE \E ref \in Refs, value \in Secrets : Set(p, ref, value)
  <2>1. PICK ref \in Refs, value \in Secrets : Set(p, ref, value)
    BY <1>5
  <2>2. copy' \in [Procs -> Entries] /\ key' = key /\ Flush(p, ref)
    BY <2>1, CopyTyped DEF Set
  <2> QED
    BY <1>4, <2>2 DEF VaultTypeOK
<1>6. CASE \E ref \in Refs : Delete(p, ref)
  <2>1. PICK ref \in Refs : Delete(p, ref)
    BY <1>6
  <2>2. copy' \in [Procs -> Entries] /\ key' = key /\ Flush(p, ref)
    BY <2>1, CopyTyped DEF Delete
  <2> QED
    BY <1>4, <2>2 DEF VaultTypeOK
<1>7. CASE \E k \in Keys : RotateKey(p, k)
  BY <1>4, <1>7 DEF RotateKey, VaultTypeOK
<1>8. p \in Flushing => task[p].ref \in Refs \cup {Key}
  BY TaskKinds, VaultTaskFields DEF ProcTypeOK, Flushing
<1>9. CASE EndFlush(p)
  <2>1. p \in Flushing
    BY <1>9 DEF EndFlush
  <2>2. blob' \in [state : {"whole", "torn"}, key : {key[p]}, data : {copy[p]}]
    BY <1>9 DEF EndFlush
  <2>3. acked' \in [key : Keys, data : Entries]
    <3> DEFINE ref == task[p].ref
               value == copy[p][ref]
    <3>1. CASE ref = Key
      BY <1>9, <3>1 DEF EndFlush, VaultTypeOK
    <3>2. CASE ref # Key
      <4>1. value \in Secrets \cup {NoSecret} /\ ref \in Refs
        BY <1>8, <2>1, <3>2 DEF VaultTypeOK, Entries
      <4>2. acked' = [acked EXCEPT !.data[ref] = value]
        BY <1>9, <3>2 DEF EndFlush
      <4> HIDE DEF value
      <4> QED
        BY <4>1, <4>2 DEF VaultTypeOK, Entries
    <3> QED
      BY <3>1, <3>2
  <2>4. disputed' \subseteq Refs \cup {Key}
    BY <1>8, <1>9, <2>1 DEF EndFlush, VaultTypeOK
  <2> QED
    BY <1>1, <1>9, <2>2, <2>3, <2>4, BlobTyped DEF EndFlush, VaultTypeOK
<1>10. CASE FlushFails(p)
  BY <1>1, <1>8, <1>10, BlobTyped DEF FlushFails, VaultTypeOK
<1> QED
  BY <1>3, <1>5, <1>6, <1>7, <1>9, <1>10 DEF VaultNext

LEMMA VaultCrashTyped ==
  ASSUME ProcTypeOK, VaultTypeOK, NEW p \in Procs, CrashProc(p), VaultCrash(p)
  PROVE  VaultTypeOK'
<1>1. p \in Flushing => task[p].ref \in Refs \cup {Key}
  BY TaskKinds, VaultTaskFields DEF ProcTypeOK, Flushing
<1>2. blob' \in Blob /\ disputed' \subseteq Refs \cup {Key} /\ mishap' \in BOOLEAN
  BY <1>1, BlobTyped DEF VaultCrash, VaultTypeOK
<1>3. opened' \subseteq up'
  BY DEF VaultCrash, CrashProc, VaultTypeOK
<1> QED
  BY <1>2, <1>3 DEF VaultCrash, VaultTypeOK

(***************************************************************************)
(* Provisioning: its type                                                  *)
(***************************************************************************)

RowSeqs == Seq(Values \cup {NoValue})
State   == [Fields -> RowSeqs]

LEMMA DefinitionTyped ==
  ASSUME NEW a \in Hosted
  PROVE  /\ DefinitionOf[a].vm \in BOOLEAN /\ DefinitionOf[a].memory \in BOOLEAN
         /\ MapSize(a) \in Nat \ {0}
         /\ Schema(a) \in Seq(Fields)
         /\ Schedules(a) \in Seq([id : Triggers, bad : BOOLEAN])
<1> DEFINE d == DefinitionOf[a]
<1>1. d \in AgentDefinition /\ DefaultMapSize \in Nat \ {0}
  BY ProvisioningAssumption
<1> HIDE DEF d
<1>2. /\ d.vm \in BOOLEAN /\ d.memory \in BOOLEAN /\ d.map_size \in Nat \ {0}
      /\ d.state_schema \in Seq(Fields)
      /\ d.schedules \in Seq([id : Triggers, bad : BOOLEAN])
  BY <1>1 DEF AgentDefinition
<1>3. <<>> \in Seq(Fields)
  OBVIOUS
<1> QED
  BY <1>1, <1>2, <1>3 DEF MapSize, Schema, Schedules, d

Assign(g, p, a, f, u) == [g EXCEPT ![p][a][f] = u]

LEMMA Assigned ==
  ASSUME NEW g \in [Procs -> [Hosted -> State]],
         NEW p \in Procs, NEW a \in Hosted, NEW f \in Fields,
         NEW u \in RowSeqs
  PROVE  /\ Assign(g, p, a, f, u) \in [Procs -> [Hosted -> State]]
         /\ Assign(g, p, a, f, u)[p][a][f] = u
         /\ \A q \in Procs, b \in Hosted, h \in Fields : q # p \/ b # a \/ h # f =>
              Assign(g, p, a, f, u)[q][b][h] = g[q][b][h]
BY DEF Assign, State

LEMMA RowsOf ==
  ASSUME ProvTypeOK
  PROVE  /\ rows \in [Procs -> [Hosted -> State]] /\ wrote \in [Procs -> [Hosted -> State]]
         /\ \A p \in Procs, a \in Hosted, f \in Fields : rows[p][a][f] \in RowSeqs
<1>1. rows \in [Procs -> [Hosted -> State]] /\ wrote \in [Procs -> [Hosted -> State]]
  BY DEF ProvTypeOK, State, RowSeqs
<1>2. \A p \in Procs, a \in Hosted, f \in Fields : rows[p][a][f] \in RowSeqs
  BY <1>1 DEF State
<1> QED
  BY <1>1, <1>2

LEMMA SmallSeqs ==
  /\ <<>> \in RowSeqs
  /\ \A v \in Values \cup {NoValue} : <<v>> \in RowSeqs
  /\ \A v \in Values \cup {NoValue}, s \in RowSeqs : Append(s, v) \in RowSeqs
BY DEF RowSeqs

LEMMA DeleteTyped ==
  ASSUME ProvTypeOK, NEW p \in Procs, NEW a \in Hosted, NEW f \in Fields, DeleteRows(p, a, f)
  PROVE  /\ rows' \in [Procs -> [Hosted -> State]]
         /\ rows'[p][a][f] = <<>>
         /\ \A q \in Procs, b \in Hosted, g \in Fields : q # p \/ b # a \/ g # f =>
              rows'[q][b][g] = rows[q][b][g]
<1> DEFINE none == <<>>
<1>1. none \in RowSeqs
  BY SmallSeqs
<1>2. rows' = Assign(rows, p, a, f, none)
  BY DEF DeleteRows, Assign
<1> HIDE DEF none
<1>3. rows \in [Procs -> [Hosted -> State]]
  BY RowsOf
<1>4. /\ Assign(rows, p, a, f, none) \in [Procs -> [Hosted -> State]]
      /\ Assign(rows, p, a, f, none)[p][a][f] = none
      /\ \A q \in Procs, b \in Hosted, h \in Fields : q # p \/ b # a \/ h # f =>
           Assign(rows, p, a, f, none)[q][b][h] = rows[q][b][h]
  BY <1>1, <1>3, Assigned
<1> QED
  BY <1>2, <1>4 DEF none

LEMMA CreateTyped ==
  ASSUME ProvTypeOK, NEW p \in Procs, NEW a \in Hosted, NEW f \in Fields,
         NEW v \in Values \cup {NoValue}, CreateRow(p, a, f, v)
  PROVE  /\ rows' \in [Procs -> [Hosted -> State]]
         /\ wrote' \in [Procs -> [Hosted -> State]]
         /\ lost' \subseteq Procs \X Hosted \X Fields
         /\ rows'[p][a][f] = Append(rows[p][a][f], v)
         /\ wrote'[p][a][f] = <<v>>
         /\ \A q \in Procs, b \in Hosted, g \in Fields : q # p \/ b # a \/ g # f =>
              /\ rows'[q][b][g] = rows[q][b][g]
              /\ wrote'[q][b][g] = wrote[q][b][g]
<1> DEFINE w == Append(rows[p][a][f], v)
           one == <<v>>
<1>1. w \in RowSeqs
  BY RowsOf, SmallSeqs
<1>2. one \in RowSeqs
  BY SmallSeqs
<1>3. /\ rows' = Assign(rows, p, a, f, w)
      /\ wrote' = Assign(wrote, p, a, f, one)
      /\ lost' \subseteq lost
  BY DEF CreateRow, Assign
<1> HIDE DEF w, one
<1>4. rows \in [Procs -> [Hosted -> State]] /\ wrote \in [Procs -> [Hosted -> State]]
  BY RowsOf
<1>5. /\ Assign(rows, p, a, f, w) \in [Procs -> [Hosted -> State]]
      /\ Assign(rows, p, a, f, w)[p][a][f] = w
      /\ \A q \in Procs, b \in Hosted, h \in Fields : q # p \/ b # a \/ h # f =>
           Assign(rows, p, a, f, w)[q][b][h] = rows[q][b][h]
  BY <1>1, <1>4, Assigned
<1>6. /\ Assign(wrote, p, a, f, one) \in [Procs -> [Hosted -> State]]
      /\ Assign(wrote, p, a, f, one)[p][a][f] = one
      /\ \A q \in Procs, b \in Hosted, h \in Fields : q # p \/ b # a \/ h # f =>
           Assign(wrote, p, a, f, one)[q][b][h] = wrote[q][b][h]
  <2> DEFINE g == wrote
             u == one
  <2>1. g \in [Procs -> [Hosted -> State]] /\ u \in RowSeqs
    BY <1>2, <1>4
  <2> HIDE DEF g, u
  <2>2. /\ Assign(g, p, a, f, u) \in [Procs -> [Hosted -> State]]
        /\ Assign(g, p, a, f, u)[p][a][f] = u
        /\ \A q \in Procs, b \in Hosted, h \in Fields : q # p \/ b # a \/ h # f =>
             Assign(g, p, a, f, u)[q][b][h] = g[q][b][h]
    BY <2>1, Assigned
  <2> QED
    BY <2>2 DEF g, u
<1>7. lost' \subseteq Procs \X Hosted \X Fields
  BY <1>3 DEF ProvTypeOK
<1>8. /\ rows' \in [Procs -> [Hosted -> State]] /\ wrote' \in [Procs -> [Hosted -> State]]
      /\ rows'[p][a][f] = w /\ wrote'[p][a][f] = one
  BY <1>3, <1>5, <1>6
<1>9. \A q \in Procs, b \in Hosted, g \in Fields : q # p \/ b # a \/ g # f =>
        /\ rows'[q][b][g] = rows[q][b][g]
        /\ wrote'[q][b][g] = wrote[q][b][g]
  BY <1>3, <1>5, <1>6
<1> QED
  BY <1>7, <1>8, <1>9 DEF w, one

LEMMA ProvTaskOf ==
  ASSUME ProcTypeOK, NEW p \in Procs
  PROVE  /\ task[p].step \in {"provision", "seed", "seeding", "jobs", "state"} =>
              task[p].agent \in Hosted
         /\ task[p].step \in {"seed", "seeding", "jobs"} => task[p].done \in Nat
         /\ task[p].step = "state" => task[p].field \in Fields /\ task[p].value \in Values
BY TaskKinds, ProvTaskFields DEF ProcTypeOK

LEMMA ProvTypeParts ==
  /\ ProvTypeOK <=> /\ dirs \subseteq Hosted /\ tables \subseteq Hosted
                    /\ env \in [Procs -> [Hosted -> Nat]]
                    /\ rows \in [Procs -> [Hosted -> State]]
                    /\ heap \in [Procs -> [Hosted -> [Triggers -> Nat]]]
                    /\ instantiated \in [Procs -> [Hosted -> Nat]]
                    /\ wrote \in [Procs -> [Hosted -> State]]
                    /\ lost \subseteq Procs \X Hosted \X Fields
                    /\ kvFirst \subseteq Procs \X Hosted
  /\ ProvTypeOK' <=> /\ dirs' \subseteq Hosted /\ tables' \subseteq Hosted
                     /\ env' \in [Procs -> [Hosted -> Nat]]
                     /\ rows' \in [Procs -> [Hosted -> State]]
                     /\ heap' \in [Procs -> [Hosted -> [Triggers -> Nat]]]
                     /\ instantiated' \in [Procs -> [Hosted -> Nat]]
                     /\ wrote' \in [Procs -> [Hosted -> State]]
                     /\ lost' \subseteq Procs \X Hosted \X Fields
                     /\ kvFirst' \subseteq Procs \X Hosted
BY DEF ProvTypeOK, State, RowSeqs

LEMMA OpenTyped ==
  ASSUME ProvTypeOK, NEW p \in Procs, NEW a \in Hosted, NEW size \in Nat, OpenAgent(p, a, size)
  PROVE  env' \in [Procs -> [Hosted -> Nat]]
BY DEF OpenAgent, ProvTypeOK

LEMMA CutShortTyped ==
  ASSUME NEW p \in Procs
  PROVE  /\ CutShort(p) \subseteq Procs \X Hosted \X Fields
         /\ \A q \in Procs, a \in Hosted, f \in Fields :
              <<q, a, f>> \in CutShort(p) <=> q = p /\ Writing(p, a, f)
<1>1. ASSUME NEW q \in Procs, NEW a \in Hosted, NEW f \in Fields
      PROVE  <<q, a, f>> \in CutShort(p) <=> q = p /\ Writing(p, a, f)
  BY DEF CutShort
<1> QED
  BY <1>1 DEF CutShort

\* How far a call of instantiate can be.
Progress ==
  \A p \in Procs :
    LET t == task[p] IN
      /\ t.step = "seed" => t.done <= Len(Schema(t.agent))
      /\ t.step = "seeding" => t.done < Len(Schema(t.agent))
      /\ t.step = "jobs" => t.done <= Len(Schedules(t.agent))

LEMMA ProvTyped ==
  ASSUME ProcTypeOK, ProvTypeOK, Progress, NEW p \in Procs, ProvNext(p)
  PROVE  ProvTypeOK'
<1> DEFINE t == task[p]
<1>1. DefaultMapSize \in Nat
  BY ProvisioningAssumption
<1>2. CASE \E a \in Hosted : Instantiate(p, a)
  <2>1. PICK a \in Hosted : Instantiate(p, a)
    BY <1>2
  <2> QED
    BY <2>1, ProvTypeParts DEF Instantiate
<1>3. CASE \E a \in Hosted : UseKV(p, a)
  <2>1. PICK a \in Hosted : UseKV(p, a)
    BY <1>3
  <2>2. kvFirst' \subseteq Procs \X Hosted
    BY <2>1 DEF UseKV, ProvTypeOK
  <2> QED
    BY <1>1, <2>1, <2>2, OpenTyped, ProvTypeParts DEF UseKV
<1>4. CASE \E a \in Hosted, f \in Fields, v \in Values : WriteState(p, a, f, v)
  BY <1>4, DeleteTyped, ProvTypeParts DEF WriteState
<1>5. CASE EndWriteState(p)
  <2>1. /\ t.agent \in Hosted /\ t.field \in Fields /\ t.value \in Values \cup {NoValue}
        /\ CreateRow(p, t.agent, t.field, t.value)
    BY <1>5, ProvTaskOf DEF EndWriteState
  <2>2. /\ rows' \in [Procs -> [Hosted -> State]] /\ wrote' \in [Procs -> [Hosted -> State]]
        /\ lost' \subseteq Procs \X Hosted \X Fields
    BY <2>1, CreateTyped
  <2> QED
    BY <1>5, <2>2, ProvTypeParts DEF EndWriteState
<1>6. CASE Provision(p)
  <2>1. t.agent \in Hosted /\ OpenAgent(p, t.agent, MapSize(t.agent))
    BY <1>6, ProvTaskOf DEF Provision
  <2>2. MapSize(t.agent) \in Nat
    BY <2>1, DefinitionTyped
  <2>3. tables' \subseteq Hosted
    BY <1>6, <2>1, ProvTypeParts DEF Provision
  <2>4. env' \in [Procs -> [Hosted -> Nat]]
    BY <2>1, <2>2, OpenTyped
  <2> QED
    BY <1>6, <2>3, <2>4, ProvTypeParts DEF Provision
<1>7. t.step \in {"seed", "seeding"} /\ t.done < Len(Schema(t.agent)) =>
        Schema(t.agent)[t.done + 1] \in Fields
  <2> SUFFICES ASSUME t.step \in {"seed", "seeding"}, t.done < Len(Schema(t.agent))
               PROVE  Schema(t.agent)[t.done + 1] \in Fields
    OBVIOUS
  <2>1. t.agent \in Hosted /\ t.done \in Nat
    BY ProvTaskOf
  <2>2. Schema(t.agent) \in Seq(Fields)
    BY <2>1, DefinitionTyped
  <2> QED
    BY <2>1, <2>2
<1>8. CASE Seed(p)
  <2>1. /\ t.agent \in Hosted /\ Schema(t.agent)[t.done + 1] \in Fields
        /\ DeleteRows(p, t.agent, Schema(t.agent)[t.done + 1])
    BY <1>7, <1>8, ProvTaskOf DEF Seed
  <2>2. rows' \in [Procs -> [Hosted -> State]]
    BY <2>1, DeleteTyped
  <2> QED
    BY <1>8, <2>2, ProvTypeParts DEF Seed
<1>9. CASE EndSeed(p)
  <2>1. /\ t.agent \in Hosted /\ Schema(t.agent)[t.done + 1] \in Fields
        /\ CreateRow(p, t.agent, Schema(t.agent)[t.done + 1], NoValue)
    BY <1>7, <1>9, ProvTaskOf DEF EndSeed, Progress
  <2>2. /\ rows' \in [Procs -> [Hosted -> State]] /\ wrote' \in [Procs -> [Hosted -> State]]
        /\ lost' \subseteq Procs \X Hosted \X Fields
    BY SMTT(30), <2>1, CreateTyped
  <2> QED
    BY <1>9, <2>2, ProvTypeParts DEF EndSeed
<1>10. CASE EndInstantiate(p)
  BY ZenonT(30), <1>10, ProvTypeParts DEF EndInstantiate, provVars
<1>12. CASE BeginJobs(p)
  <2>1. t.agent \in Hosted
    BY <1>12, ProvTaskOf DEF BeginJobs
  <2>2. instantiated' = [instantiated EXCEPT ![p][t.agent] = @ + 1]
    BY <1>12 DEF BeginJobs
  <2>3. instantiated' \in [Procs -> [Hosted -> Nat]]
    BY <2>1, <2>2, ProvTypeParts
  <2> QED
    BY <1>12, <2>3, ProvTypeParts DEF BeginJobs
<1>13. CASE StoreRaises(p)
  <2>1. t.agent \in Hosted /\ MapSize(t.agent) \in Nat
    BY <1>13, ProvTaskOf, DefinitionTyped DEF StoreRaises
  <2>2. env' = env \/ OpenAgent(p, t.agent, MapSize(t.agent))
    BY <1>13 DEF StoreRaises
  <2>3. env' \in [Procs -> [Hosted -> Nat]]
    BY <2>1, <2>2, OpenTyped, ProvTypeParts
  <2>4. lost' = lost \cup CutShort(p)
    BY <1>13 DEF StoreRaises
  <2>5. lost' \subseteq Procs \X Hosted \X Fields
    BY SMTT(30), <2>4, CutShortTyped, ProvTypeParts
  <2> QED
    BY <1>13, <2>3, <2>5, ProvTypeParts DEF StoreRaises
<1>11. CASE AddJob(p)
  <2> DEFINE id == Schedules(t.agent)[t.done + 1].id
  <2>1. t.agent \in Hosted /\ heap' = [heap EXCEPT ![p][t.agent][id] = @ + 1]
    BY <1>11, ProvTaskOf DEF AddJob
  <2>2. id \in Triggers
    <3>1. Schedules(t.agent) \in Seq([id : Triggers, bad : BOOLEAN])
      BY <2>1, DefinitionTyped
    <3>2. t.done \in Nat /\ t.done < Len(Schedules(t.agent))
      BY <1>11, ProvTaskOf DEF AddJob
    <3> DEFINE schedule == Schedules(t.agent)[t.done + 1]
           S == [id : Triggers, bad : BOOLEAN]
    <3>3. Schedules(t.agent) \in Seq(S)
      BY <3>1
    <3> HIDE DEF S
    <3>4. schedule \in S
      BY <3>2, <3>3
    <3> HIDE DEF schedule
    <3>5. schedule.id \in Triggers
      BY <3>4 DEF S
    <3> QED
      BY SMTT(30), <3>5 DEF schedule
  <2> HIDE DEF id
  <2>3. heap' \in [Procs -> [Hosted -> [Triggers -> Nat]]]
    BY <2>1, <2>2, ProvTypeParts
  <2> QED
    BY <1>11, <2>3, ProvTypeParts DEF AddJob
<1> QED
  BY <1>2, <1>3, <1>4, <1>5, <1>6, <1>8, <1>9, <1>10, <1>11, <1>12, <1>13 DEF ProvNext

LEMMA ProvCrashTyped ==
  ASSUME ProvTypeOK, NEW p \in Procs, ProvCrash(p)
  PROVE  ProvTypeOK'
<1>1. env' \in [Procs -> [Hosted -> Nat]] /\ instantiated' \in [Procs -> [Hosted -> Nat]]
  BY DEF ProvCrash, ProvTypeOK
<1>2. heap' \in [Procs -> [Hosted -> [Triggers -> Nat]]]
  BY DEF ProvCrash, ProvTypeOK
<1>3. lost' \subseteq Procs \X Hosted \X Fields
  BY CutShortTyped DEF ProvCrash, ProvTypeOK
<1>4. kvFirst' \subseteq Procs \X Hosted
  BY DEF ProvCrash, ProvTypeOK
<1> QED
  BY <1>1, <1>2, <1>3, <1>4, ProvTypeParts DEF ProvCrash

\* A step that begins or ends elsewhere leaves the calls of the runtime where they are.
LEMMA ProgressKept ==
  ASSUME ProcTypeOK, Progress, NEW p \in Procs,
         \A q \in Procs \ {p} : task'[q] = task[q],
         task'[p].step \notin {"seed", "seeding", "jobs"}
  PROVE  Progress'
BY DEF Progress

LEMMA ProvProgress ==
  ASSUME ProcTypeOK, ProvTypeOK, Progress, NEW p \in Procs, ProvNext(p)
  PROVE  Progress'
<1> DEFINE t == task[p]
           u == task'[p]
<1>1. /\ p \in Procs /\ t \in ProvTasks /\ u \in ProvTasks
      /\ \A q \in Procs \ {p} : task'[q] = task[q]
  BY ProvMoves, MovesFacts DEF ProvTasks, Tasks
<1> SUFFICES /\ u.step = "seed" => u.done <= Len(Schema(u.agent))
             /\ u.step = "seeding" => u.done < Len(Schema(u.agent))
             /\ u.step = "jobs" => u.done <= Len(Schedules(u.agent))
  BY <1>1 DEF Progress
<1>2. t.step \in {"provision", "seed", "seeding", "jobs"} =>
        /\ t.agent \in Hosted
        /\ Len(Schema(t.agent)) \in Nat /\ Len(Schedules(t.agent)) \in Nat
  BY <1>1, ProvTaskFields, DefinitionTyped
<1>3. t.step \in {"seed", "seeding", "jobs"} =>
        /\ t \in [step : {"seed", "seeding", "jobs"}, agent : Hosted, done : Nat]
  BY <1>1 DEF ProvTasks, ProvTask, Idle
<1>4. CASE \E a \in Hosted : \/ Instantiate(p, a) \/ UseKV(p, a)
                             \/ \E f \in Fields, v \in Values : WriteState(p, a, f, v)
  BY <1>4 DEF Instantiate, UseKV, WriteState, Call, Idle, ProcTypeOK
<1>5. CASE EndWriteState(p) \/ EndInstantiate(p) \/ StoreRaises(p)
  BY <1>5 DEF EndWriteState, EndInstantiate, StoreRaises, Continue, Idle, ProcTypeOK
<1>6. CASE Provision(p)
  <2>1. u = [step |-> "seed", agent |-> t.agent, done |-> 0] /\ t.step = "provision"
    BY <1>6 DEF Provision, Continue, ProcTypeOK
  <2> QED
    BY <1>2, <2>1
<1>7. CASE Seed(p)
  <2>1. u = [t EXCEPT !.step = "seeding"] /\ t.step = "seed" /\ t.done < Len(Schema(t.agent))
    BY <1>7 DEF Seed, Continue, ProcTypeOK
  <2>2. u.step = "seeding" /\ u.done = t.done /\ u.agent = t.agent
    BY <1>3, <2>1
  <2> QED
    BY <2>1, <2>2
<1>8. CASE EndSeed(p)
  <2>1. u = [t EXCEPT !.step = "seed", !.done = @ + 1] /\ t.step = "seeding"
    BY <1>8 DEF EndSeed, Continue, ProcTypeOK
  <2>2. u.step = "seed" /\ u.done = t.done + 1 /\ u.agent = t.agent /\ t.done \in Nat
    BY <1>3, <2>1
  <2>3. t.done < Len(Schema(t.agent))
    BY <2>1 DEF Progress
  <2> QED
    BY <1>2, <2>1, <2>2, <2>3
<1>9. CASE BeginJobs(p)
  <2>1. u = [t EXCEPT !.step = "jobs", !.done = 0] /\ t.step = "seed"
    BY <1>9 DEF BeginJobs, Continue, ProcTypeOK
  <2>2. u.step = "jobs" /\ u.done = 0 /\ u.agent = t.agent
    BY <1>3, <2>1
  <2> QED
    BY <1>2, <2>1, <2>2
<1>10. CASE AddJob(p)
  <2>1. u = [t EXCEPT !.done = @ + 1] /\ t.step = "jobs" /\ t.done < Len(Schedules(t.agent))
    BY <1>10 DEF AddJob, Continue, ProcTypeOK
  <2>2. u.step = "jobs" /\ u.done = t.done + 1 /\ u.agent = t.agent /\ t.done \in Nat
    BY <1>3, <2>1
  <2> QED
    BY SMTT(30), <1>2, <2>1, <2>2
<1> QED
  BY <1>4, <1>5, <1>6, <1>7, <1>8, <1>9, <1>10 DEF ProvNext

(***************************************************************************)
(* Types, all together                                                     *)
(***************************************************************************)

LEMMA InitTyped == Init => TypeOK /\ Progress
<1> SUFFICES ASSUME Init PROVE TypeOK /\ Progress
  OBVIOUS
<1>1. ProcTypeOK
  BY ProcessesAssumption DEF Init, ProcInit, ProcTypeOK, Tasks
<1>2. SystemTypeOK
  <2>1. db \in Content
    BY DEF Init, SystemInit, Content
  <2> QED
    BY <2>1 DEF Init, SystemInit, SystemTypeOK
<1>3. VaultTypeOK
  <2>1. NoEntries \in Entries
    BY DEF NoEntries, Entries
  <2>2. PICK k \in Keys : /\ blob = [state |-> "absent", key |-> k, data |-> NoEntries]
                          /\ key = [p \in Procs |-> k]
                          /\ acked = [key |-> k, data |-> NoEntries]
    BY DEF Init, VaultInit
  <2>3. blob \in Blob /\ acked \in [key : Keys, data : Entries]
    BY <2>1, <2>2 DEF Blob
  <2>4. key \in [Procs -> Keys] /\ copy \in [Procs -> Entries]
    BY <2>1, <2>2 DEF Init, VaultInit
  <2> QED
    BY <2>3, <2>4 DEF Init, ProcInit, VaultInit, VaultTypeOK
<1>4. ProvTypeOK
  <2> DEFINE none == [f \in Fields |-> <<>>]
  <2>1. none \in State
    BY SmallSeqs DEF State
  <2>2. rows = [p \in Procs |-> [a \in Hosted |-> none]] /\ wrote = rows
    BY DEF Init, ProvInit
  <2> HIDE DEF none
  <2>3. rows \in [Procs -> [Hosted -> State]] /\ wrote \in [Procs -> [Hosted -> State]]
    BY <2>1, <2>2
  <2> QED
    BY <2>3, ProvTypeParts DEF Init, ProvInit
<1>5. Progress
  BY IdleStep DEF Init, ProcInit, Progress
<1> QED
  BY <1>1, <1>2, <1>3, <1>4, <1>5, TypeParts

LEMMA StartTyped ==
  ASSUME TypeOK, Progress, NEW p \in Procs, Start(p) PROVE TypeOK' /\ Progress'
<1>1. ProcTypeOK'
  BY TypeParts DEF Start, StartProc, ProcTypeOK
<1>2. SystemTypeOK'
  BY TypeParts DEF Start, SystemStart, systemVars, fileVars, SystemTypeOK
<1>3. VaultTypeOK'
  BY TypeParts DEF Start, StartProc, vaultVars, VaultTypeOK
<1>4. ProvTypeOK'
  BY TypeParts DEF Start, provVars, ProvTypeOK
<1>5. Progress'
  BY DEF Start, StartProc, Progress
<1> QED
  BY <1>1, <1>2, <1>3, <1>4, <1>5 DEF TypeOK, ProcTypeOK, Tasks

LEMMA CrashTyped ==
  ASSUME TypeOK, Progress, NEW p \in Procs, Crash(p)
  PROVE  /\ TypeOK' /\ Progress'
         /\ task'[p] = Idle /\ \A q \in Procs \ {p} : task'[q] = task[q]
<1>1. ProcTypeOK' /\ task'[p] = Idle /\ \A q \in Procs \ {p} : task'[q] = task[q]
  BY TypeParts, ProcessesAssumption DEF Crash, CrashProc, ProcTypeOK, Tasks
<1>2. SystemTypeOK' /\ VaultTypeOK' /\ ProvTypeOK'
  BY TypeParts, SystemCrashTyped, VaultCrashTyped, ProvCrashTyped DEF Crash
<1>3. Progress'
  BY <1>1, IdleStep, TypeParts, ProgressKept
<1> QED
  BY <1>1, <1>2, <1>3 DEF TypeOK, ProcTypeOK, Tasks

LEMMA StepTyped == ASSUME TypeOK, Progress, [Next]_vars PROVE TypeOK' /\ Progress'
<1>1. CASE UNCHANGED vars
  <2>1. ProcTypeOK' /\ SystemTypeOK' /\ VaultTypeOK' /\ ProvTypeOK' /\ Progress'
    BY <1>1, TypeParts DEF vars, procVars, systemVars, fileVars, vaultVars, provVars,
       ProcTypeOK, SystemTypeOK, VaultTypeOK, ProvTypeOK, Progress
  <2> QED
    BY <2>1 DEF TypeOK, ProcTypeOK, Tasks
<1>2. ASSUME NEW p \in Procs, SystemNext(p), UNCHANGED <<vaultVars, provVars>>
      PROVE  TypeOK' /\ Progress'
  <2>1. ProcTypeOK' /\ task'[p] \in SystemTasks /\ up' = up
        /\ \A q \in Procs \ {p} : task'[q] = task[q]
    BY <1>2, TypeParts, SystemMoves, MovesFacts DEF SystemTasks, Tasks
  <2>2. SystemTypeOK'
    BY <1>2, TypeParts, SystemTyped
  <2>3. VaultTypeOK' /\ ProvTypeOK'
    BY <1>2, <2>1, TypeParts DEF vaultVars, provVars, VaultTypeOK, ProvTypeOK
  <2>4. Progress'
    BY <2>1, TypeParts, SystemTaskFields, ProgressKept
  <2> QED
    BY <2>1, <2>2, <2>3, <2>4 DEF TypeOK, ProcTypeOK, Tasks
<1>3. ASSUME NEW p \in Procs, VaultNext(p), UNCHANGED <<systemVars, provVars>>
      PROVE  TypeOK' /\ Progress'
  <2>1. ProcTypeOK' /\ task'[p] \in VaultTasks /\ \A q \in Procs \ {p} : task'[q] = task[q]
    BY <1>3, TypeParts, VaultMoves, MovesFacts DEF VaultTasks, Tasks
  <2>2. VaultTypeOK'
    BY <1>3, TypeParts, VaultTyped
  <2>3. SystemTypeOK' /\ ProvTypeOK'
    BY <1>3, TypeParts DEF systemVars, fileVars, provVars, SystemTypeOK, ProvTypeOK
  <2>4. Progress'
    BY <2>1, TypeParts, VaultTaskFields, ProgressKept
  <2> QED
    BY <2>1, <2>2, <2>3, <2>4 DEF TypeOK, ProcTypeOK, Tasks
<1>4. ASSUME NEW p \in Procs, ProvNext(p), UNCHANGED <<systemVars, vaultVars>>
      PROVE  TypeOK' /\ Progress'
  <2>1. ProcTypeOK' /\ up' = up
    BY <1>4, TypeParts, ProvMoves, MovesFacts DEF ProvTasks, Tasks
  <2>2. ProvTypeOK' /\ Progress'
    BY <1>4, TypeParts, ProvTyped, ProvProgress
  <2>3. SystemTypeOK' /\ VaultTypeOK'
    BY <1>4, <2>1, TypeParts DEF systemVars, fileVars, vaultVars, SystemTypeOK, VaultTypeOK
  <2> QED
    BY <2>1, <2>2, <2>3 DEF TypeOK, ProcTypeOK, Tasks
<1> QED
  BY <1>1, <1>2, <1>3, <1>4, StartTyped, CrashTyped DEF Next

LEMMA Typed == Spec => [](TypeOK /\ Progress)
BY InitTyped, StepTyped, PTL DEF Spec

\* The state of an installation, whatever its processes do and wherever they stop.
THEOREM TypeCorrect == Spec => []TypeOK
BY Typed, PTL

(***************************************************************************)
(* The vault.  A process that has it open has every secret as it was last  *)
(* acknowledged, but for the one it is writing and those that are          *)
(* disputed; so has the file, when it is whole.                            *)
(***************************************************************************)

Writes(p) == IF p \in Flushing THEN {task[p].ref} ELSE {}

VaultInv ==
  /\ Flushing \subseteq opened
  /\ Flushing # {} => blob.state # "absent" /\ (blob.state = "empty" \/ mishap)
  /\ \A p, q \in Flushing : p = q \/ mishap
  /\ FileReadable
  /\ blob.state = "absent" => acked.data = NoEntries /\ acked.key = blob.key
  /\ \A p \in opened : \A r \in Refs \ (disputed \cup Writes(p)) :
       copy[p][r] = acked.data[r]
  /\ \A p \in opened : Key \notin disputed \cup Writes(p) => key[p] = acked.key
  /\ NoSecretLost

LEMMA VaultInitInv == Init => VaultInv
<1> SUFFICES ASSUME Init PROVE VaultInv
  OBVIOUS
<1>1. Flushing = {}
  BY DEF Init, ProcInit, Flushing, Idle
<1>2. blob.state = "absent" /\ acked.data = NoEntries /\ acked.key = blob.key /\ opened = {}
  BY DEF Init, VaultInit
<1> QED
  BY <1>1, <1>2 DEF VaultInv, FileReadable, NoSecretLost

LEMMA VaultElsewhere ==
  ASSUME VaultInv, UNCHANGED vaultVars, NEW p \in Procs,
         \A q \in Procs \ {p} : task'[q] = task[q],
         task[p].step # "flush", task'[p].step # "flush"
  PROVE  VaultInv'
<1>1. Flushing' = Flushing
  BY DEF Flushing
<1>2. \A q \in Procs : Writes(q)' = Writes(q)
  BY <1>1 DEF Writes, Flushing
<1>3. opened' = opened /\ blob' = blob /\ mishap' = mishap /\ acked' = acked
      /\ copy' = copy /\ key' = key /\ disputed' = disputed
  BY DEF vaultVars
<1>4. Flushing' \subseteq Procs
  BY DEF Flushing
<1> QED
  BY <1>1, <1>2, <1>3, <1>4 DEF VaultInv, FileReadable, NoSecretLost, Writes

\* A write of p is cut short, and p is not writing any more.
LEMMA WriteCut ==
  ASSUME TypeOK, VaultInv, NEW p \in Flushing, blob' \in Remains(p),
         disputed' = disputed \cup {task[p].ref}, mishap' = TRUE,
         Flushing' = Flushing \ {p},
         \A q \in Procs \ {p} : Writes(q)' = Writes(q),
         opened' \subseteq opened, opened \ {p} \subseteq opened',
         Writes(p) = {task[p].ref}, UNCHANGED <<key, copy, acked>>
  PROVE  VaultInv'
<1>1. opened \subseteq Procs /\ blob \in Blob /\ p \in opened /\ p \in Procs
  BY TypeParts DEF VaultTypeOK, ProcTypeOK, VaultInv, Flushing
<1>2. /\ blob'.state # "absent" /\ blob'.state \in {"empty", "torn", "whole"}
      /\ blob'.state = "whole" => \/ blob' = blob
                                  \/ blob'.key = key[p] /\ blob'.data = copy[p]
  BY <1>1 DEF Remains, Blob, VaultInv
<1>3. \A q \in opened' : \A r \in Refs \ (disputed' \cup Writes(q)') : copy[q][r] = acked.data[r]
  BY <1>1 DEF VaultInv
<1>4. \A q \in opened' : Key \notin disputed' \cup Writes(q)' => key[q] = acked.key
  BY <1>1 DEF VaultInv
<1>5. NoSecretLost'
  <2>1. \A r \in Refs \ disputed' : copy[p][r] = acked.data[r]
    BY <1>1 DEF VaultInv
  <2>2. Key \notin disputed' => key[p] = acked.key
    BY <1>1 DEF VaultInv
  <2> QED
    BY <1>2, <2>1, <2>2 DEF VaultInv, NoSecretLost
<1>6. Flushing' \subseteq opened'
  BY DEF VaultInv
<1> QED
  BY <1>2, <1>3, <1>4, <1>5, <1>6 DEF VaultInv, FileReadable

LEMMA VaultStep ==
  ASSUME TypeOK, VaultInv, NEW p \in Procs, VaultNext(p) PROVE VaultInv'
<1>1. /\ ProcTypeOK /\ VaultTypeOK
      /\ task' \in [Procs -> Tasks] /\ task \in [Procs -> Tasks]
      /\ \A q \in Procs \ {p} : task'[q] = task[q]
  BY TypeParts, VaultMoves, MovesFacts DEF ProcTypeOK, VaultTasks, Tasks
<1>2. /\ opened \subseteq Procs /\ Flushing \subseteq Procs
      /\ Flushing' \ {p} = Flushing \ {p} /\ Flushing' \subseteq Procs
      /\ \A q \in Procs \ {p} : Writes(q)' = Writes(q)
  BY <1>1 DEF ProcTypeOK, VaultTypeOK, Flushing, Writes
<1>3. CASE \E k \in Keys : Open(p, k)
  <2>1. PICK k \in Keys : Open(p, k)
    BY <1>3
  <2>2. Flushing' = Flushing /\ p \notin Flushing /\ UNCHANGED <<blob, acked, disputed, mishap>>
        /\ opened' = opened \cup {p}
    BY <1>1, <1>2, <2>1 DEF Open, Call, Idle, Flushing, ProcTypeOK
  <2>3. Writes(p)' = {}
    BY <2>2 DEF Writes
  <2>4. \A q \in opened : q # p
    BY <2>1 DEF Open
  <2>5. /\ copy'[p] = Load(k) /\ key'[p] = k /\ Loadable(k)
        /\ \A q \in Procs \ {p} : copy'[q] = copy[q] /\ key'[q] = key[q]
    BY <1>1, <2>1 DEF Open, VaultTypeOK
  <2>6. \A r \in Refs \ disputed : Load(k)[r] = acked.data[r]
    BY <2>5 DEF Load, Loadable, VaultInv, NoSecretLost
  <2>7. Key \notin disputed => k = acked.key
    BY <2>5 DEF Loadable, VaultInv, NoSecretLost
  <2> QED
    BY <1>2, <2>2, <2>3, <2>4, <2>5, <2>6, <2>7 DEF VaultInv, FileReadable, NoSecretLost
<1>4. ASSUME NEW ref \in Refs \cup {Key}, Flush(p, ref), p \in opened,
             \A q \in Procs : /\ q # p \/ ref # Key => key'[q] = key[q]
                              /\ \A r \in Refs : q # p \/ r # ref => copy'[q][r] = copy[q][r]
      PROVE  VaultInv'
  <2>1. /\ blob' = [blob EXCEPT !.state = "empty"]
        /\ mishap' = (mishap \/ Flushing # {})
        /\ UNCHANGED <<opened, acked, disputed>>
        /\ task' = [task EXCEPT ![p] = [step |-> "flush", ref |-> ref]]
        /\ task[p] = Idle
    BY <1>4 DEF Flush, Call
  <2>2. Flushing' = Flushing \cup {p} /\ p \notin Flushing /\ Writes(p)' = {ref}
    BY <1>1, <1>2, <2>1, IdleStep DEF Flushing, Writes
  <2>3. Writes(p) = {}
    BY <2>2 DEF Writes
  <2>4. blob'.state = "empty"
    BY <1>1, <2>1 DEF VaultTypeOK, Blob
  <2>5. \A q \in opened : \A r \in Refs \ (disputed \cup Writes(q)') :
           copy'[q][r] = acked.data[r]
    BY <1>2, <1>4, <2>2, <2>3 DEF VaultInv
  <2>6. \A q \in opened : Key \notin disputed \cup Writes(q)' => key'[q] = acked.key
    BY <1>2, <1>4, <2>2, <2>3 DEF VaultInv
  <2>7. \A q, r \in Flushing' : q = r \/ mishap'
    BY <2>1, <2>2 DEF VaultInv
  <2>8. Flushing' \subseteq opened /\ p \in Flushing'
    BY <1>4, <2>2 DEF VaultInv
  <2> QED
    BY <2>1, <2>4, <2>5, <2>6, <2>7, <2>8 DEF VaultInv, FileReadable, NoSecretLost
<1>5. CASE \E ref \in Refs, value \in Secrets : Set(p, ref, value)
  <2>1. PICK ref \in Refs, value \in Secrets : Set(p, ref, value)
    BY <1>5
  <2>2. \A q \in Procs, r \in Refs : q # p \/ r # ref => copy'[q][r] = copy[q][r]
    BY <1>1, <2>1, CopyTyped DEF Set
  <2> QED
    BY <1>4, <2>1, <2>2 DEF Set
<1>6. CASE \E ref \in Refs : Delete(p, ref)
  <2>1. PICK ref \in Refs : Delete(p, ref)
    BY <1>6
  <2>2. \A q \in Procs, r \in Refs : q # p \/ r # ref => copy'[q][r] = copy[q][r]
    BY <1>1, <2>1, CopyTyped DEF Delete
  <2> QED
    BY <1>4, <2>1, <2>2 DEF Delete
<1>7. CASE \E k \in Keys : RotateKey(p, k)
  <2>1. PICK k \in Keys : RotateKey(p, k)
    BY <1>7
  <2>2. \A q \in Procs : q # p => key'[q] = key[q]
    BY <1>1, <2>1 DEF RotateKey, VaultTypeOK
  <2> QED
    BY <1>4, <2>1, <2>2 DEF RotateKey
<1>8. CASE EndFlush(p)
  <2> DEFINE ref == task[p].ref
  <2>1. /\ p \in Flushing /\ ref \in Refs \cup {Key} /\ Writes(p) = {ref} /\ p \in opened
        /\ Flushing' = Flushing \ {p} /\ Writes(p)' = {}
        /\ UNCHANGED <<opened, key, copy, mishap>>
    BY <1>1, <1>2, <1>8, TaskKinds, VaultTaskFields, IdleStep
       DEF EndFlush, Continue, Flushing, Writes, VaultInv
  <2>2. /\ blob'.state \in {"whole", "torn"} /\ blob'.key = key[p] /\ blob'.data = copy[p]
        /\ blob.state = "empty" => blob'.state = "whole"
    BY <1>8 DEF EndFlush
  <2>3. /\ ref = Key => acked' = [acked EXCEPT !.key = key[p]]
        /\ ref # Key => acked' = [acked EXCEPT !.data[ref] = copy[p][ref]]
        /\ disputed' = IF opened = {p} THEN disputed \ {ref} ELSE disputed \cup {ref}
    BY <1>8 DEF EndFlush
  <2>4. /\ ref = Key => acked'.key = key[p] /\ acked'.data = acked.data
        /\ ref # Key => /\ acked'.key = acked.key /\ acked'.data[ref] = copy[p][ref]
                        /\ \A r \in Refs \ {ref} : acked'.data[r] = acked.data[r]
    BY <1>1, <2>1, <2>3 DEF VaultTypeOK, Entries
  <2>5. Key \notin Refs
    BY VaultAssumption
  <2> HIDE DEF ref
  <2>6. \A r \in Refs \ disputed' : copy[p][r] = acked'.data[r]
    BY <2>1, <2>3, <2>4, <2>5 DEF VaultInv
  <2>7. Key \notin disputed' => key[p] = acked'.key
    BY <2>1, <2>3, <2>4, <2>5 DEF VaultInv
  <2>8. \A q \in opened \ {p} : \A r \in Refs \ (disputed' \cup Writes(q)) :
           copy[q][r] = acked'.data[r]
    BY <2>1, <2>3, <2>4, <2>5 DEF VaultInv
  <2>9. \A q \in opened \ {p} : Key \notin disputed' \cup Writes(q) => key[q] = acked'.key
    BY <2>1, <2>3, <2>4, <2>5 DEF VaultInv
  <2>10. (Flushing' # {} \/ blob'.state = "torn") => mishap
    BY <2>1, <2>2 DEF VaultInv
  <2>11. NoSecretLost'
    BY <2>2, <2>6, <2>7 DEF NoSecretLost
  <2>12. FileReadable'
    BY <2>1, <2>2, <2>10 DEF FileReadable
  <2> QED
    BY <1>2, <2>1, <2>2, <2>6, <2>7, <2>8, <2>9, <2>10, <2>11, <2>12 DEF VaultInv
<1>9. CASE FlushFails(p)
  <2>1. /\ p \in Flushing /\ task[p].ref \in Refs \cup {Key} /\ Writes(p) = {task[p].ref}
        /\ p \in opened /\ Flushing' = Flushing \ {p} /\ Writes(p)' = {}
    BY <1>1, <1>2, <1>9, TaskKinds, VaultTaskFields, IdleStep
       DEF FlushFails, Continue, Flushing, Writes, VaultInv
  <2> QED
    BY <1>2, <1>9, <2>1, WriteCut DEF FlushFails
<1> QED
  BY <1>3, <1>5, <1>6, <1>7, <1>8, <1>9 DEF VaultNext

LEMMA VaultCrashStep ==
  ASSUME TypeOK, Progress, VaultInv, NEW p \in Procs, Crash(p) PROVE VaultInv'
<1>1. task'[p] = Idle /\ \A q \in Procs \ {p} : task'[q] = task[q]
  BY CrashTyped
<1>2. Flushing' = Flushing \ {p} /\ \A q \in Procs \ {p} : Writes(q)' = Writes(q)
  BY <1>1, IdleStep DEF Flushing, Writes
<1>3. VaultCrash(p) /\ opened \subseteq Procs /\ Flushing \subseteq Procs
  BY TypeParts DEF Crash, VaultTypeOK, ProcTypeOK, Flushing
<1>4. CASE p \in Flushing
  BY <1>2, <1>3, <1>4, WriteCut DEF VaultCrash, Writes
<1>5. CASE p \notin Flushing
  <2>1. UNCHANGED <<blob, disputed, mishap, key, copy, acked>> /\ opened' = opened \ {p}
    BY <1>3, <1>5 DEF VaultCrash
  <2>2. Flushing' = Flushing
    BY <1>2, <1>5
  <2>3. \A q \in opened' : Writes(q)' = Writes(q)
    BY <1>2, <1>3, <2>1
  <2>4. Flushing' \subseteq opened'
    BY <1>5, <2>1, <2>2 DEF VaultInv
  <2> QED
    BY <2>1, <2>2, <2>3, <2>4 DEF VaultInv, FileReadable, NoSecretLost
<1> QED
  BY <1>4, <1>5

LEMMA VaultInvStep ==
  ASSUME TypeOK, Progress, VaultInv, [Next]_vars PROVE VaultInv'
<1>1. CASE UNCHANGED vars
  BY <1>1 DEF vars, procVars, vaultVars, VaultInv, Flushing, Writes, FileReadable, NoSecretLost
<1>2. ASSUME NEW p \in Procs, Start(p) PROVE VaultInv'
  <2>1. task' = task /\ UNCHANGED vaultVars
    BY <1>2 DEF Start, StartProc
  <2> QED
    BY <2>1 DEF vaultVars, VaultInv, Flushing, Writes, FileReadable, NoSecretLost
<1>3. ASSUME NEW p \in Procs, SystemNext(p), UNCHANGED <<vaultVars, provVars>> PROVE VaultInv'
  <2>1. /\ task[p] \in SystemTasks /\ task'[p] \in SystemTasks
        /\ \A q \in Procs \ {p} : task'[q] = task[q]
    BY <1>3, TypeParts, SystemMoves, MovesFacts DEF SystemTasks, Tasks
  <2> QED
    BY <1>3, <2>1, SystemTaskFields, VaultElsewhere
<1>4. ASSUME NEW p \in Procs, ProvNext(p), UNCHANGED <<systemVars, vaultVars>> PROVE VaultInv'
  <2>1. /\ task[p] \in ProvTasks /\ task'[p] \in ProvTasks
        /\ \A q \in Procs \ {p} : task'[q] = task[q]
    BY <1>4, TypeParts, ProvMoves, MovesFacts DEF ProvTasks, Tasks
  <2> QED
    BY <1>4, <2>1, ProvTaskFields, VaultElsewhere
<1> QED
  BY <1>1, <1>2, <1>3, <1>4, VaultStep, VaultCrashStep DEF Next

LEMMA VaultInvariant == Spec => []VaultInv
BY InitTyped, StepTyped, VaultInitInv, VaultInvStep, PTL DEF Spec

\* Secrets survive rotations, crashes and other processes, but for those in dispute.
THEOREM NoSecretLostHolds == Spec => []NoSecretLost
BY VaultInvariant, PTL DEF VaultInv

\* Only a write that was cut short, or overlapped another, leaves a file nobody can read.
THEOREM FileReadableHolds == Spec => []FileReadable
BY VaultInvariant, PTL DEF VaultInv

LEMMA CopiesComplete == VaultInv => CopyComplete
<1> SUFFICES ASSUME VaultInv, NEW p \in opened \ Flushing, NEW r \in Refs \ disputed
             PROVE  copy[p][r] = acked.data[r]
  BY DEF CopyComplete
<1>1. Writes(p) = {}
  BY DEF Writes
<1> QED
  BY <1>1 DEF VaultInv

\* A process with the vault open can write every secret again, whatever the file holds.
THEOREM CopyCompleteHolds == Spec => []CopyComplete
BY VaultInvariant, CopiesComplete, PTL

\* The promise of the vault as a whole: the file, and the copies that may restore it.
THEOREM SecretsKeptHolds == Spec => []SecretsKept
BY NoSecretLostHolds, FileReadableHolds, CopyCompleteHolds, PTL DEF SecretsKept

(***************************************************************************)
(* The locks of system.db.  A call that is between its write and its       *)
(* commit holds the file; what the writer has pending is its own change,   *)
(* unless an earlier call of it raised.                                    *)
(***************************************************************************)

InWrite(t) == t.step \in {"create", "updated", "run"}

Held == \A p \in Procs :
          /\ task[p].step \in {"create", "updated"} => writer = Registry(p)
          /\ task[p].step = "run" => writer = System(p)

OwnPending == writer # None => \/ writer \in raised
                               \/ Own(task[writer[1]], db, pending)

LockInv == /\ LocksOfTheRaised
           /\ writer = None => pending = db
           /\ Held /\ OwnPending

LEMMA LockInitInv == Init => LockInv
BY IdleStep DEF Init, ProcInit, SystemInit, LockInv, LocksOfTheRaised, Held, OwnPending

LEMMA ConnFacts ==
  /\ None \notin Conns
  /\ \A p \in Procs : /\ ConnsOf(p) \subseteq Conns /\ Registry(p) # System(p)
                      /\ Registry(p)[1] = p /\ Registry(p)[2] = "registry"
                      /\ System(p)[1] = p /\ System(p)[2] = "system"
  /\ \A c \in Conns : /\ c[1] \in Procs /\ c \in ConnsOf(c[1])
                      /\ \A p \in Procs : c \in ConnsOf(p) => c[1] = p
BY DEF None, Conns, ConnsOf, Registry, System

\* A connection is in a call only if its process is.
LEMMA CallFacts ==
  /\ \A p \in Procs : \A c \in ConnsOf(p) : InCall(c) =>
       InWrite(task[p]) /\ (Held => writer = c)
  /\ \A p \in Procs : InWrite(task[p]) /\ Held => writer \in ConnsOf(p)
<1>1. ASSUME NEW p \in Procs, NEW c \in ConnsOf(p), InCall(c)
      PROVE  InWrite(task[p]) /\ (Held => writer = c)
  BY <1>1 DEF InCall, InWrite, ConnsOf, Held, Registry, System
<1>2. ASSUME NEW p \in Procs, InWrite(task[p]), Held
      PROVE  writer \in ConnsOf(p)
  BY <1>2 DEF InWrite, ConnsOf, Held
<1> QED
  BY <1>1, <1>2

LEMMA CallsOfOthers ==
  ASSUME NEW p \in Procs, \A q \in Procs \ {p} : task'[q] = task[q]
  PROVE  \A c \in Conns \ ConnsOf(p) : InCall(c)' <=> InCall(c)
BY ConnFacts DEF InCall

\* c writes, of a call of p that holds nothing yet.
LEMMA LockWrite ==
  ASSUME SystemTypeOK, LockInv, NEW p \in Procs, NEW c \in ConnsOf(p), NEW content,
         Write(c, content),
         \A q \in Procs \ {p} : task'[q] = task[q],
         ~ InWrite(task[p]),
         raised \subseteq raised',
         task'[p].step \in {"create", "updated"} => c = Registry(p),
         task'[p].step = "run" => c = System(p),
         \/ c \in raised'
         \/ /\ InWrite(task'[p])
            /\ Own(task'[p], pending, content)
  PROVE  LockInv'
<1>1. /\ c \in Conns /\ c # None /\ c[1] = p
      /\ writer \in {None, c} /\ writer' = c /\ pending' = content
      /\ open' = open \cup {c} /\ db' = db /\ open \subseteq Conns
  BY ConnFacts DEF Write, CanWrite, SystemTypeOK
<1>2. \A q \in Procs \ {p} : ~ InWrite(task[q])
  BY <1>1, CallFacts, ConnFacts DEF LockInv
<1>3. writer = c => c \in raised
  BY <1>1, CallFacts DEF LockInv, LocksOfTheRaised
<1>4. c \in raised' \/ InCall(c)'
  BY DEF InCall, InWrite, ConnsOf, Registry, System
<1>5. \A d \in open : d \in raised \/ InCall(d)
  BY DEF LockInv, LocksOfTheRaised
<1>6. \A d \in open : d \in raised
  <2> TAKE d \in open
  <2>1. d[1] \in Procs /\ d \in ConnsOf(d[1])
    BY <1>1, ConnFacts
  <2>2. ~ InWrite(task[d[1]])
    BY <1>2, <2>1
  <2> QED
    BY <1>5, <2>1, <2>2, CallFacts
<1>7. LocksOfTheRaised'
  BY <1>1, <1>4, <1>6 DEF LocksOfTheRaised
<1>8. Held'
  BY <1>1, <1>2 DEF Held, InWrite
<1>9. OwnPending'
  <2>1. CASE writer = None
    BY <1>1, <2>1 DEF OwnPending, LockInv
  <2>2. CASE writer = c
    BY <1>1, <1>3, <2>2 DEF OwnPending
  <2> QED
    BY <1>1, <2>1, <2>2
<1> QED
  BY <1>1, <1>7, <1>8, <1>9 DEF LockInv

\* c commits, or finds that others read.
LEMMA LockCommit ==
  ASSUME SystemTypeOK, LockInv, NEW p \in Procs, NEW c \in ConnsOf(p),
         \A q \in Procs \ {p} : task'[q] = task[q],
         ~ InWrite(task'[p]),
         \/ Commit(c) /\ Succeed(c)
         \/ CommitLocked(c) /\ Raise(c)
  PROVE  LockInv'
<1>1. c \in Conns /\ c # None /\ c[1] = p /\ writer = c
  BY ConnFacts DEF Commit, CommitLocked
<1>2. \A q \in Procs \ {p} : ~ InWrite(task[q])
  BY <1>1, CallFacts, ConnFacts DEF LockInv
<1>3. \A q \in Procs : ~ InWrite(task'[q])
  BY <1>2
<1>4. Held'
  BY <1>3 DEF Held, InWrite
<1>5. \A d \in open \ {c} : d \in raised
  <2> TAKE d \in open \ {c}
  <2>1. d[1] \in Procs /\ d \in ConnsOf(d[1])
    BY ConnFacts DEF SystemTypeOK
  <2>2. ~ InCall(d)
    BY <1>1, <2>1, CallFacts DEF LockInv
  <2> QED
    BY <2>2 DEF LockInv, LocksOfTheRaised
<1>6. CASE Commit(c) /\ Succeed(c)
  <2>1. LocksOfTheRaised'
    BY <1>5, <1>6 DEF Commit, Succeed, LocksOfTheRaised
  <2> QED
    BY <1>4, <1>6, <2>1 DEF Commit, LockInv, OwnPending
<1>7. CASE CommitLocked(c) /\ Raise(c)
  <2>1. writer \in open
    BY <1>1 DEF LockInv, LocksOfTheRaised
  <2>2. LocksOfTheRaised'
    BY <1>5, <1>7, <2>1 DEF CommitLocked, Raise, LocksOfTheRaised
  <2> QED
    BY <1>1, <1>4, <1>7, <2>2 DEF CommitLocked, Raise, LockInv, OwnPending
<1> QED
  BY <1>6, <1>7

\* A step of p that writes nothing, outside a call that does.
LEMMA LockQuiet ==
  ASSUME SystemTypeOK, LockInv, NEW p \in Procs,
         \A q \in Procs \ {p} : task'[q] = task[q],
         ~ InWrite(task[p]), ~ InWrite(task'[p]),
         \/ UNCHANGED <<fileVars, raised>>
         \/ \E c \in ConnsOf(p) : \/ Select(c) /\ UNCHANGED raised
                                  \/ WriteLocked(c) /\ Raise(c)
  PROVE  LockInv'
<1>1. /\ UNCHANGED <<db, writer, pending>> /\ raised \subseteq raised'
      /\ open \subseteq open' /\ \A c \in open' \ open : c \in raised'
  BY DEF fileVars, Select, WriteLocked, Raise
<1>2. \A c \in open : c \in raised \/ InCall(c)'
  <2> TAKE c \in open
  <2>1. c \in Conns /\ (c \in raised \/ InCall(c))
    BY DEF SystemTypeOK, LockInv, LocksOfTheRaised
  <2>2. c \in ConnsOf(p) => ~ InCall(c)
    BY CallFacts
  <2> QED
    BY <2>1, <2>2, CallsOfOthers
<1>3. LocksOfTheRaised'
  BY <1>1, <1>2 DEF LockInv, LocksOfTheRaised
<1>4. Held'
  BY <1>1 DEF LockInv, Held, InWrite
<1>5. OwnPending'
  <2> SUFFICES ASSUME writer # None, writer \notin raised
               PROVE  Own(task'[writer[1]], db, pending)
    BY <1>1 DEF OwnPending
  <2>1. writer \in Conns /\ InCall(writer)
    BY DEF LockInv, LocksOfTheRaised, SystemTypeOK
  <2>2. writer \notin ConnsOf(p) /\ writer[1] \in Procs
    BY <2>1, CallFacts, ConnFacts
  <2>3. writer[1] # p
    BY <2>1, <2>2, ConnFacts
  <2> QED
    BY <2>2, <2>3 DEF LockInv, OwnPending
<1> QED
  BY <1>1, <1>3, <1>4, <1>5 DEF LockInv

\* What a writer sees is what is pending.
LEMMA SeenPending ==
  ASSUME LockInv, NEW c, CanWrite(c) PROVE Seen(c) = pending
BY DEF LockInv, CanWrite, Seen

LEMMA OwnRow ==
  ASSUME NEW content \in Content, NEW a \in Agents, NEW status \in AllStatuses,
         NEW t, t.step \in {"create", "updated"}, t.agent = a
  PROVE  Own(t, content, WithRow(content, a, status))
<1> DEFINE new == WithRow(content, a, status)
<1> HIDE DEF new
<1>1. new.runs = content.runs /\ \A b \in Agents \ {a} : new.agents[b] = content.agents[b]
  <2>1. WithRow(content, a, status).runs = content.runs
    BY DEF WithRow, Content
  <2>2. ASSUME NEW b \in Agents \ {a}
        PROVE  WithRow(content, a, status).agents[b] = content.agents[b]
    BY DEF WithRow, Content
  <2> QED
    BY <2>1, <2>2 DEF new
<1>2. \A b \in Agents : content.agents[b] # new.agents[b] => b = a
  BY <1>1
<1>3. \A r \in Runs : content.runs[r] = new.runs[r]
  BY <1>1
<1>4. Own(t, content, new)
  BY <1>2, <1>3 DEF Own
<1> QED
  BY <1>4 DEF new

LEMMA OwnRun ==
  ASSUME NEW content \in Content, NEW r \in Runs, NEW status \in {"running", "ended"},
         NEW t, t.step = "run", t.run = r
  PROVE  Own(t, content, [content EXCEPT !.runs[r] = status])
BY WithRunTyped DEF Own

LEMMA LockStep ==
  ASSUME TypeOK, LockInv, NEW p \in Procs, SystemNext(p) PROVE LockInv'
<1> DEFINE c == Registry(p)
           s == System(p)
           t == task[p]
           u == task'[p]
<1>1. /\ ProcTypeOK /\ SystemTypeOK
      /\ t \in SystemTasks /\ u \in SystemTasks
      /\ \A q \in Procs \ {p} : task'[q] = task[q]
      /\ task \in [Procs -> Tasks]
  BY TypeParts, SystemMoves, MovesFacts DEF SystemTasks, Tasks, ProcTypeOK
<1>2. c \in ConnsOf(p) /\ s \in ConnsOf(p) /\ c # s
  BY ConnFacts DEF ConnsOf
<1>3. /\ t.step \in {"create", "get", "update", "updated"} => t.agent \in Agents
      /\ t.step \in {"update", "updated"} => t.status \in AllStatuses
      /\ t.step = "run" => t.run \in Runs
  BY <1>1, SystemTaskFields DEF AllStatuses
<1>4. db \in Content /\ pending \in Content
  BY <1>1 DEF SystemTypeOK
<1>5. ~ InWrite(Idle)
  BY IdleStep DEF InWrite
<1> HIDE DEF c, s
<1>6. CASE \E a \in Agents : Create(p, a)
  <2>1. PICK a \in Agents : Create(p, a)
    BY <1>6
  <2> DEFINE content == WithRow(pending, a, "validated")
  <2>2. /\ Write(c, content) /\ raised' = raised
        /\ t = Idle /\ u = [step |-> "create", agent |-> a]
    BY <1>1, <2>1, SeenPending DEF Create, Call, Write, c
  <2>3. u.step = "create" /\ Own(u, pending, content)
    BY <1>4, <2>2, OwnRow DEF AllStatuses
  <2>4. InWrite(u)
    BY <2>3 DEF InWrite
  <2> HIDE DEF content, u, t
  <2>5. raised \subseteq raised' /\ ~ InWrite(t)
    BY <1>5, <2>2
  <2> QED
    BY <1>1, <1>2, <2>2, <2>3, <2>4, <2>5, LockWrite DEF c, u, t
<1>7. CASE \E a \in Agents : CreateRefused(p, a)
  <2>1. Write(c, Seen(c)) /\ Raise(c) /\ t = Idle /\ u = Idle
    BY <1>1, <1>7 DEF CreateRefused, Call, c
  <2> QED
    BY <1>1, <1>2, <1>5, <2>1, IdleStep, LockWrite DEF Raise
<1>8. CASE CreateLocked(p) \/ RunLocked(p)
  <2>1. PICK d \in {c, s} : WriteLocked(d) /\ Raise(d)
    BY <1>8 DEF CreateLocked, RunLocked, c, s
  <2>2. t = Idle /\ u = Idle
    BY <1>1, <1>8 DEF CreateLocked, RunLocked, Call
  <2> QED
    BY <1>1, <1>2, <1>5, <2>1, <2>2, LockQuiet
<1>9. CASE EndCreate(p) \/ EndUpdate(p) \/ CommitRun(p)
  <2>1. PICK d \in {c, s} : \/ Commit(d) /\ Succeed(d)
                            \/ CommitLocked(d) /\ Raise(d)
    BY <1>9 DEF EndCreate, EndUpdate, CommitRun, c, s
  <2>2. u = Idle \/ u = [step |-> "get", agent |-> t.agent]
    BY <1>1, <1>9 DEF EndCreate, EndUpdate, CommitRun, Continue
  <2>3. ~ InWrite(u)
    BY <1>5, <2>2 DEF InWrite
  <2> QED
    BY <1>1, <1>2, <2>1, <2>3, LockCommit
<1>10. CASE \E a \in Agents, status \in Statuses : UpdateStatus(p, a, status)
  <2>1. PICK a \in Agents, status \in Statuses : UpdateStatus(p, a, status)
    BY <1>10
  <2>2. Select(c) /\ UNCHANGED raised /\ t = Idle
    BY <2>1 DEF UpdateStatus, Call, c
  <2>3. u = Idle \/ u = [step |-> "update", agent |-> a, status |-> status,
                         registering |-> FALSE]
    BY <1>1, <2>1 DEF UpdateStatus, Call
  <2>4. ~ InWrite(u) /\ ~ InWrite(t)
    BY <1>5, <2>2, <2>3 DEF InWrite
  <2> QED
    BY <1>1, <1>2, <2>2, <2>4, LockQuiet
<1>11. CASE Activate(p)
  <2>1. /\ t.step = "get" /\ (Select(c) \/ UNCHANGED fileVars) /\ raised' = raised
    BY <1>11 DEF Activate, c
  <2>2. u = Idle \/ u = [step |-> "update", agent |-> t.agent, status |-> "active",
                         registering |-> TRUE]
    BY <1>1, <1>11 DEF Activate, Continue
  <2>3. ~ InWrite(u) /\ ~ InWrite(t)
    BY <1>5, <2>1, <2>2 DEF InWrite
  <2> QED
    BY <1>1, <1>2, <2>1, <2>3, LockQuiet
<1>12. CASE Update(p)
  <2>1. t.step = "update" /\ ~ InWrite(t)
    BY <1>12 DEF Update, InWrite
  <2>2. CASE WriteLocked(c) /\ Raise(c) /\ Continue(p, Idle)
    <3>1. u = Idle
      BY <1>1, <2>2 DEF Continue
    <3> QED
      BY <1>1, <1>2, <1>5, <2>1, <2>2, <3>1, LockQuiet
  <2>3. CASE /\ Write(c, Updated(Seen(c), t.agent, t.status)) /\ UNCHANGED raised
             /\ Continue(p, [t EXCEPT !.step = "updated"])
    <3> DEFINE content == WithRow(pending, t.agent, t.status)
    <3>1. Write(c, content)
      BY <2>3, SeenPending DEF Updated, Write
    <3>2. u = [t EXCEPT !.step = "updated"]
      BY <1>1, <2>3 DEF Continue
    <3>3. u.step = "updated" /\ u.agent = t.agent
      BY <1>1, <2>1, <3>2 DEF SystemTasks, SystemTask, Idle
    <3>4. Own(u, pending, content) /\ InWrite(u)
      BY <1>3, <1>4, <2>1, <3>3, OwnRow DEF InWrite
    <3> HIDE DEF content, u, t
    <3>5. raised \subseteq raised'
      BY <2>3
    <3> QED
      BY <1>1, <1>2, <2>1, <3>1, <3>3, <3>4, <3>5, LockWrite DEF u, t, c
  <2> QED
    BY <1>12, <2>2, <2>3 DEF Update, c
<1>13. CASE \E r \in Runs : StartRun(p, r) \/ EndRun(p, r)
  <2>1. PICK r \in Runs : StartRun(p, r) \/ EndRun(p, r)
    BY <1>13
  <2>2. t = Idle /\ ~ InWrite(t)
    BY <1>5, <2>1 DEF StartRun, EndRun, Call
  <2>3. \/ /\ Write(s, Seen(s)) /\ Raise(s) /\ u = Idle
        \/ \E status \in {"running", "ended"} :
             /\ Write(s, [Seen(s) EXCEPT !.runs[r] = status])
             /\ raised' = raised /\ u = [step |-> "run", run |-> r]
    BY <1>1, <2>1 DEF StartRun, EndRun, Call, s
  <2>4. CASE Write(s, Seen(s)) /\ Raise(s) /\ u = Idle
    BY <1>1, <1>2, <2>2, <2>4, IdleStep, LockWrite DEF Raise
  <2>5. ASSUME NEW status \in {"running", "ended"},
               Write(s, [Seen(s) EXCEPT !.runs[r] = status]),
               raised' = raised, u = [step |-> "run", run |-> r]
        PROVE  LockInv'
    <3> DEFINE content == [pending EXCEPT !.runs[r] = status]
    <3>1. Write(s, content)
      BY <2>5, SeenPending DEF Write
    <3>2. u.step = "run" /\ u.run = r /\ InWrite(u)
      BY <2>5 DEF InWrite
    <3> HIDE DEF u, t
    <3>4. Own(u, pending, content)
      BY <1>4, <3>2, OwnRun
    <3> HIDE DEF content
    <3>3. raised \subseteq raised'
      BY <2>5
    <3> QED
      BY <1>1, <1>2, <2>2, <3>1, <3>2, <3>3, <3>4, LockWrite DEF u, t, s
  <2> QED
    BY <2>3, <2>4, <2>5
<1>14. CASE Read(p)
  <2>1. PICK d \in {c, s} : Select(d)
    BY <1>14 DEF Read, ConnsOf, c, s
  <2>2. raised' = raised /\ t = Idle /\ u = Idle
    BY <1>1, <1>14 DEF Read, Call
  <2> QED
    BY <1>1, <1>2, <1>5, <2>1, <2>2, LockQuiet
<1> QED
  BY <1>6, <1>7, <1>8, <1>9, <1>10, <1>11, <1>12, <1>13, <1>14 DEF SystemNext

LEMMA LockCrash ==
  ASSUME TypeOK, Progress, LockInv, NEW p \in Procs, Crash(p) PROVE LockInv'
<1>1. /\ task'[p] = Idle /\ \A q \in Procs \ {p} : task'[q] = task[q]
      /\ Closed(ConnsOf(p)) /\ raised' = raised \ ConnsOf(p)
      /\ open \subseteq Conns /\ writer \in Conns \cup {None}
  BY CrashTyped, TypeParts DEF Crash, SystemCrash, SystemTypeOK
<1>2. /\ open' = open \ ConnsOf(p) /\ db' = db
      /\ writer \in ConnsOf(p) => writer' = None /\ pending' = db
      /\ writer \notin ConnsOf(p) => writer' = writer /\ pending' = pending
  BY <1>1 DEF Closed
<1>3. LocksOfTheRaised'
  <2>1. \A d \in open' : InCall(d)' \/ d \in raised'
    BY <1>1, <1>2, CallsOfOthers DEF LockInv, LocksOfTheRaised
  <2> QED
    BY <1>2, <2>1 DEF LockInv, LocksOfTheRaised
<1>4. Held'
  <2>1. \A q \in Procs \ {p} : InWrite(task[q]) => writer \notin ConnsOf(p)
    BY CallFacts, ConnFacts DEF LockInv
  <2>2. ~ InWrite(task'[p])
    BY <1>1, IdleStep DEF InWrite
  <2> QED
    BY <1>1, <1>2, <2>1, <2>2 DEF LockInv, Held, InWrite
<1>5. OwnPending'
  <2>1. writer \notin ConnsOf(p) /\ writer # None => writer[1] \in Procs \ {p}
    BY <1>1, ConnFacts
  <2> QED
    BY <1>1, <1>2, <2>1 DEF LockInv, OwnPending
<1>6. writer' = None => pending' = db'
  BY <1>2 DEF LockInv
<1> QED
  BY <1>3, <1>4, <1>5, <1>6 DEF LockInv

\* Vault and runtime leave system.db alone.
LEMMA LockElsewhere ==
  ASSUME TypeOK, LockInv, NEW p \in Procs, UNCHANGED systemVars,
         \/ VaultNext(p) \/ ProvNext(p)
  PROVE  LockInv'
<1>1. /\ ~ InWrite(task[p]) /\ ~ InWrite(task'[p])
      /\ \A q \in Procs \ {p} : task'[q] = task[q]
  <2>1. \/ task[p] \in VaultTasks /\ task'[p] \in VaultTasks
        \/ task[p] \in ProvTasks /\ task'[p] \in ProvTasks
    BY TypeParts, VaultMoves, ProvMoves, MovesFacts DEF VaultTasks, ProvTasks, Tasks
  <2>2. \A q \in Procs \ {p} : task'[q] = task[q]
    BY TypeParts, VaultMoves, ProvMoves, MovesFacts DEF VaultTasks, ProvTasks, Tasks
  <2> QED
    BY <2>1, <2>2, VaultTaskFields, ProvTaskFields DEF InWrite
<1> QED
  BY <1>1, TypeParts, LockQuiet DEF systemVars

(***************************************************************************)
(* The rows of agents.  A call that is past its INSERT has its row, and is *)
(* the only one for that agent; a row that is neither active nor what a    *)
(* caller of update_status asked for says "validated", and belongs to such *)
(* a call or to one that was cut.                                          *)
(***************************************************************************)

\* The agent whose registration is past its commit, or past its INSERT.
Past(t)  == CutBy(t) \cup IF t.step = "get" THEN {t.agent} ELSE {}
Began(t) == Past(t) \cup IF t.step = "create" THEN {t.agent} ELSE {}

Unsettled(a) == a \in cut \/ \E p \in Procs : a \in Past(task[p])

Settled(a, status) == status \in {"none", "active"} \/ <<a, status>> \in asked
Stands(a, status)  == Settled(a, status) \/ (status = "validated" /\ Unsettled(a))

RowsInv ==
  /\ ColumnAgrees
  /\ \A a \in Agents : db.agents[a] # NoRow => pending.agents[a] # NoRow
  /\ \A p \in Procs : \A a \in Past(task[p]) : db.agents[a] # NoRow
  /\ \A p \in Procs : \A a \in Began(task[p]) : pending.agents[a] # NoRow
  /\ \A p, q \in Procs : Began(task[p]) \cap Began(task[q]) # {} => p = q
  /\ \A p \in Procs : task[p].step = "updated" =>
       Settled(task[p].agent, pending.agents[task[p].agent].column)
  /\ \A a \in Agents : Stands(a, db.agents[a].column)
  /\ \A a \in Agents : \/ Stands(a, pending.agents[a].column)
                      \/ /\ pending.agents[a].column = "validated"
                         /\ \E p \in Procs : a \in Began(task[p])

LEMMA RowsInitInv == Init => RowsInv
<1> SUFFICES ASSUME Init PROVE RowsInv
  OBVIOUS
<1>1. \A p \in Procs : task[p] = Idle
  BY DEF Init, ProcInit
<1>2. Past(Idle) = {} /\ Began(Idle) = {}
  BY IdleStep DEF Past, Began, CutBy
<1>3. /\ \A a \in Agents : db.agents[a] = NoRow
      /\ pending = db
  BY DEF Init, SystemInit
<1>4. NoRow.column = "none" /\ NoRow.column = NoRow.json
  BY DEF NoRow
<1> QED
  BY <1>1, <1>2, <1>3, <1>4, IdleStep DEF RowsInv, ColumnAgrees, Stands, Settled

LEMMA PastTyped ==
  ASSUME NEW t \in SystemTasks
  PROVE  Past(t) \subseteq Began(t) /\ Began(t) \subseteq Agents
BY SystemTaskFields DEF Past, Began, CutBy

LEMMA NoPast ==
  ASSUME NEW t, t.step \notin {"create", "get", "update", "updated"}
  PROVE  Past(t) = {} /\ Began(t) = {}
BY DEF Past, Began, CutBy

LEMMA BeganTyped ==
  ASSUME NEW t \in Tasks PROVE Began(t) \subseteq Agents
<1>1. CASE t.step \in {"create", "get", "update", "updated"}
  BY <1>1, TaskKinds, PastTyped
<1>2. CASE t.step \notin {"create", "get", "update", "updated"}
  BY <1>2, NoPast
<1> QED
  BY <1>1, <1>2

\* No row is written, and what p is no longer past is cut.
LEMMA RowsMove ==
  ASSUME RowsInv, NEW p \in Procs,
         \A q \in Procs \ {p} : task'[q] = task[q],
         db'.agents = db.agents, pending'.agents = pending.agents,
         Past(task'[p]) \subseteq Past(task[p]), Began(task'[p]) \subseteq Began(task[p]),
         task'[p].step # "updated",
         cut \subseteq cut', asked \subseteq asked',
         Past(task[p]) \subseteq Past(task'[p]) \cup cut',
         Began(task[p]) \subseteq Began(task'[p]) \cup cut'
  PROVE  RowsInv'
<1>1. \A a : Unsettled(a) => Unsettled(a)'
  BY DEF Unsettled
<1>2. \A q \in Procs : /\ Past(task'[q]) \subseteq Past(task[q])
                       /\ Began(task'[q]) \subseteq Began(task[q])
                       /\ Began(task[q]) \subseteq Began(task'[q]) \cup cut'
  OBVIOUS
<1>3. \A a \in Agents : \/ Stands(a, pending.agents[a].column)'
                       \/ /\ pending'.agents[a].column = "validated"
                          /\ \E q \in Procs : a \in Began(task'[q])
  <2> SUFFICES ASSUME NEW a \in Agents
               PROVE  \/ Stands(a, pending.agents[a].column)'
                      \/ /\ pending'.agents[a].column = "validated"
                         /\ \E q \in Procs : a \in Began(task'[q])
    OBVIOUS
  <2>1. CASE Stands(a, pending.agents[a].column)
    BY <1>1, <2>1 DEF Stands, Settled
  <2>2. CASE /\ pending.agents[a].column = "validated"
             /\ \E q \in Procs : a \in Began(task[q])
    BY <1>2, <2>2 DEF Stands, Unsettled
  <2> QED
    BY <2>1, <2>2 DEF RowsInv
<1>7. \A a \in Agents : Stands(a, db.agents[a].column)'
  BY <1>1 DEF RowsInv, Stands, Settled
<1>4. ColumnAgrees'
  BY DEF RowsInv, ColumnAgrees
<1>5. \A q \in Procs : task'[q].step = "updated" =>
        Settled(task[q].agent, pending.agents[task[q].agent].column)'
  BY DEF RowsInv, Settled
<1>6. \A q, r \in Procs : Began(task'[q]) \cap Began(task'[r]) # {} => q = r
  BY <1>2 DEF RowsInv
<1> QED
  BY SMTT(30), <1>2, <1>3, <1>4, <1>5, <1>6, <1>7 DEF RowsInv

\* p commits what is pending.
LEMMA RowsCommit ==
  ASSUME SystemTypeOK, Held, RowsInv, NEW p \in Procs,
         \A q \in Procs \ {p} : task'[q] = task[q],
         writer \in ConnsOf(p), db' = pending, pending' = pending,
         Past(task'[p]) \subseteq Began(task[p]), Began(task'[p]) \subseteq Began(task[p]),
         task'[p].step # "updated",
         cut \subseteq cut', asked' = asked,
         \A a \in Began(task[p]) \ Past(task'[p]) :
           a \in cut' \/ Settled(a, pending.agents[a].column)
  PROVE  RowsInv'
<1>1. \A q \in Procs \ {p} : ~ InWrite(task[q])
  BY CallFacts, ConnFacts
<1>2. \A q \in Procs \ {p} : Began(task[q]) = Past(task[q])
  BY <1>1 DEF Began, InWrite
<1>3. \A a \in Agents : Stands(a, pending.agents[a].column)'
  <2> SUFFICES ASSUME NEW a \in Agents, ~ Settled(a, pending.agents[a].column)
               PROVE  pending.agents[a].column = "validated" /\ Unsettled(a)'
    BY DEF Stands, Settled
  <2>1. /\ pending.agents[a].column = "validated"
        /\ Unsettled(a) \/ \E q \in Procs : a \in Began(task[q])
    BY DEF RowsInv, Stands
  <2>2. CASE a \in cut'
    BY <2>1, <2>2 DEF Unsettled
  <2>3. CASE a \notin cut'
    <3>1. PICK q \in Procs : a \in Began(task[q])
      BY <2>1, <2>3 DEF Unsettled, Began
    <3>2. a \in Past(task'[q])
      BY <1>2, <2>3, <3>1
    <3> QED
      BY <2>1, <3>2 DEF Unsettled
  <2> QED
    BY <2>2, <2>3
<1>4. \A q \in Procs : /\ Past(task'[q]) \subseteq Began(task[q])
                       /\ Began(task'[q]) \subseteq Began(task[q])
  BY <1>2
<1>5. ColumnAgrees'
  BY DEF RowsInv, ColumnAgrees
<1>6. \A q \in Procs : task'[q].step # "updated"
  BY <1>1 DEF InWrite
<1>7. \A q, r \in Procs : Began(task'[q]) \cap Began(task'[r]) # {} => q = r
  BY <1>4 DEF RowsInv
<1>8. \A q \in Procs : /\ \A a \in Past(task'[q]) : pending.agents[a] # NoRow
                       /\ \A a \in Began(task'[q]) : pending.agents[a] # NoRow
  BY <1>4 DEF RowsInv
<1> QED
  BY <1>3, <1>5, <1>6, <1>7, <1>8 DEF RowsInv

\* p writes the row of agent a.
LEMMA RowsWrite ==
  ASSUME SystemTypeOK, ProcTypeOK', Held, RowsInv, NEW p \in Procs,
         \A q \in Procs \ {p} : task'[q] = task[q],
         CanWrite(Registry(p)),
         NEW a \in Agents, NEW status \in AllStatuses,
         db' = db, pending' = WithRow(pending, a, status), cut' = cut, asked \subseteq asked',
         Past(task'[p]) = Past(task[p]),
         \/ /\ Began(task'[p]) = Began(task[p])
            /\ task'[p].step = "updated" => task'[p].agent = a
            /\ status = "active" \/ <<a, status>> \in asked'
         \/ /\ Began(task[p]) = {} /\ Began(task'[p]) = {a} /\ pending.agents[a] = NoRow
            /\ task'[p].step # "updated" /\ status = "validated"
  PROVE  RowsInv'
<1>1. /\ pending \in Content /\ db \in Content
      /\ pending'.agents[a] = [column |-> status, json |-> status]
      /\ \A b \in Agents \ {a} : pending'.agents[b] = pending.agents[b]
  BY WithRowTyped DEF SystemTypeOK
<1>2. pending'.agents[a] # NoRow
  <2>1. status # "none"
    BY SystemFileAssumption DEF AllStatuses
  <2> QED
    BY <1>1, <2>1 DEF NoRow
<1>3. \A q \in Procs \ {p} : task[q].step # "updated"
  <2>1. \A q \in Procs \ {p} : writer # Registry(q)
    BY ConnFacts, ConnsTyped DEF CanWrite
  <2> QED
    BY <2>1 DEF Held
<1>4. \A b : Unsettled(b)' <=> Unsettled(b)
  BY DEF Unsettled
<1>5. \A q \in Procs : Past(task'[q]) = Past(task[q])
  OBVIOUS
<1>6. \A q \in Procs : Began(task[q]) \subseteq Began(task'[q])
  OBVIOUS
<1>7. \A b \in Agents : \/ Stands(b, pending.agents[b].column)'
                       \/ /\ pending'.agents[b].column = "validated"
                          /\ \E q \in Procs : b \in Began(task'[q])
  <2> SUFFICES ASSUME NEW b \in Agents
               PROVE  \/ Stands(b, pending.agents[b].column)'
                      \/ /\ pending'.agents[b].column = "validated"
                         /\ \E q \in Procs : b \in Began(task'[q])
    OBVIOUS
  <2>1. CASE b = a
    BY <1>1, <2>1 DEF Stands, Settled
  <2>2. CASE b # a
    <3>1. pending'.agents[b].column = pending.agents[b].column
      BY <1>1, <2>2
    <3>2. CASE Stands(b, pending.agents[b].column)
      BY <1>4, <3>1, <3>2 DEF Stands, Settled
    <3>3. CASE /\ pending.agents[b].column = "validated"
               /\ \E q \in Procs : b \in Began(task[q])
      BY <1>6, <3>1, <3>3
    <3> QED
      BY <3>2, <3>3 DEF RowsInv
  <2> QED
    BY <2>1, <2>2
<1>13. \A b \in Agents : Stands(b, db.agents[b].column)'
  BY <1>4 DEF RowsInv, Stands, Settled
<1>8. ColumnAgrees'
  BY <1>1 DEF RowsInv, ColumnAgrees
<1>9. \A q, r \in Procs : Began(task'[q]) \cap Began(task'[r]) # {} => q = r
  BY DEF RowsInv
<1>10. \A q \in Procs : \A b \in Began(task'[q]) : pending'.agents[b] # NoRow
  <2>1. \A q \in Procs : Began(task'[q]) \subseteq Agents
    BY BeganTyped DEF ProcTypeOK
  <2>2. \A q \in Procs : Began(task'[q]) \subseteq Began(task[q]) \cup {a}
    OBVIOUS
  <2> QED
    BY <1>1, <1>2, <2>1, <2>2 DEF RowsInv
<1>11. \A q \in Procs : task'[q].step = "updated" =>
        Settled(task[q].agent, pending.agents[task[q].agent].column)'
  BY <1>1, <1>3 DEF Settled
<1>12. \A b \in Agents : db'.agents[b] # NoRow => pending'.agents[b] # NoRow
  BY <1>1, <1>2 DEF RowsInv
<1> QED
  BY <1>5, <1>7, <1>8, <1>9, <1>10, <1>11, <1>12, <1>13 DEF RowsInv

LEMMA RowsStep ==
  ASSUME TypeOK, LockInv, RowsInv, NEW p \in Procs, SystemNext(p) PROVE RowsInv'
<1> DEFINE c == Registry(p)
           s == System(p)
           t == task[p]
           u == task'[p]
<1>1. /\ ProcTypeOK /\ SystemTypeOK /\ Held /\ ProcTypeOK'
      /\ t \in SystemTasks /\ u \in SystemTasks
      /\ \A q \in Procs \ {p} : task'[q] = task[q]
      /\ task \in [Procs -> Tasks]
  BY TypeParts, SystemMoves, MovesFacts DEF SystemTasks, Tasks, ProcTypeOK, LockInv
<1>2. c \in ConnsOf(p) /\ s \in ConnsOf(p)
  BY DEF ConnsOf
<1>3. /\ t.step \in {"create", "get", "update", "updated"} => t.agent \in Agents
      /\ t.step \in {"update", "updated"} =>
           /\ t.status \in Statuses \cup {"active"} /\ t.registering \in BOOLEAN
           /\ t.registering => t.status = "active"
      /\ t.step = "update" => t \in [step : {"update", "updated"}, agent : Agents,
                                     status : Statuses \cup {"active"}, registering : BOOLEAN]
  BY <1>1, SystemTaskFields DEF SystemTasks, SystemTask, Idle
<1>4. Past(Idle) = {} /\ Began(Idle) = {} /\ Idle.step = "idle"
  BY IdleStep, NoPast
<1>5. db \in Content /\ pending \in Content
  BY <1>1 DEF SystemTypeOK
<1>6. CASE \E a \in Agents : Create(p, a)
  <2>1. PICK a \in Agents : Create(p, a)
    BY <1>6
  <2>2. /\ CanWrite(c) /\ db' = db /\ pending' = WithRow(pending, a, "validated")
        /\ cut' = cut /\ asked' = asked /\ t = Idle /\ u = [step |-> "create", agent |-> a]
        /\ pending.agents[a] = NoRow
    BY <1>1, <2>1, SeenPending DEF Create, Call, Write
  <2>3. Past(u) = {} /\ Began(u) = {a} /\ u.step # "updated"
    BY <2>2 DEF Past, Began, CutBy
  <2> HIDE DEF u, t
  <2>4. "validated" \in AllStatuses /\ Past(t) = {} /\ Began(t) = {}
    BY <1>4, <2>2 DEF AllStatuses
  <2> QED
    BY <1>1, <2>2, <2>3, <2>4, RowsWrite DEF u, t
<1>7. ASSUME t = Idle, Past(u) = {}, Began(u) = {}, u.step # "updated", cut' = cut, asked' = asked,
             db'.agents = db.agents, pending'.agents = pending.agents
      PROVE  RowsInv'
  BY <1>1, <1>4, <1>7, RowsMove
<1>8. CASE \E a \in Agents : CreateRefused(p, a)
  <2>1. t = Idle /\ u = Idle /\ cut' = cut /\ asked' = asked /\ db' = db /\ pending' = pending
    BY <1>1, <1>8, SeenPending DEF CreateRefused, Call, Write
  <2> QED
    BY <1>4, <1>7, <2>1
<1>9. CASE CreateLocked(p) \/ RunLocked(p) \/ Read(p)
  <2>1. t = Idle /\ u = Idle /\ cut' = cut /\ asked' = asked /\ db' = db /\ pending' = pending
    BY <1>1, <1>9 DEF CreateLocked, RunLocked, Read, Call, WriteLocked, Select
  <2> QED
    BY <1>4, <1>7, <2>1
<1>10. CASE \E a \in Agents, status \in Statuses : UpdateStatus(p, a, status)
  <2>1. PICK a \in Agents, status \in Statuses : UpdateStatus(p, a, status)
    BY <1>10
  <2>2. t = Idle /\ cut' = cut /\ asked' = asked /\ db' = db /\ pending' = pending
    BY <2>1 DEF UpdateStatus, Call, Select
  <2>3. u = Idle \/ u = [step |-> "update", agent |-> a, status |-> status,
                         registering |-> FALSE]
    BY <1>1, <2>1 DEF UpdateStatus, Call
  <2>4. Past(u) = {} /\ Began(u) = {} /\ u.step # "updated"
    <3>1. CASE u = Idle
      BY <1>4, <3>1
    <3>2. CASE u = [step |-> "update", agent |-> a, status |-> status, registering |-> FALSE]
      BY <3>2 DEF Past, Began, CutBy
    <3> QED
      BY <2>3, <3>1, <3>2
  <2> QED
    BY <1>7, <2>2, <2>4
<1>11. CASE \E r \in Runs : StartRun(p, r) \/ EndRun(p, r)
  <2>1. PICK r \in Runs : StartRun(p, r) \/ EndRun(p, r)
    BY <1>11
  <2>2. t = Idle /\ cut' = cut /\ asked' = asked /\ db' = db /\ CanWrite(s)
    BY <2>1 DEF StartRun, EndRun, Call, Write
  <2>3. u = Idle \/ u = [step |-> "run", run |-> r]
    BY <1>1, <2>1 DEF StartRun, EndRun, Call
  <2>4. u.step \notin {"create", "get", "update", "updated"}
    BY <1>4, <2>3
  <2>5. pending'.agents = pending.agents
    <3>1. Seen(s) = pending
      BY <2>2, SeenPending
    <3>2. /\ [pending EXCEPT !.runs[r] = "running"].agents = pending.agents
          /\ [pending EXCEPT !.runs[r] = "ended"].agents = pending.agents
      BY <1>5, WithRunTyped
    <3> QED
      BY <2>1, <3>1, <3>2 DEF StartRun, EndRun, Write
  <2> QED
    BY <1>7, <2>2, <2>4, <2>5, NoPast
<1>12. ASSUME cut' = cut \cup Began(t), u = Idle, asked' = asked,
              db' = db, pending' = pending
       PROVE  RowsInv'
  <2>1. Past(t) \subseteq Began(t)
    BY DEF Began
  <2> HIDE DEF t, u
  <2>2. Past(u) = {} /\ Began(u) = {} /\ u.step # "updated"
    BY <1>4, <1>12
  <2> QED
    BY <1>1, <1>12, <2>1, <2>2, RowsMove DEF t, u
<1>13. CASE EndCreate(p)
  <2>1. t.step = "create" /\ Past(t) = {} /\ Began(t) = {t.agent} /\ asked' = asked
    BY <1>13 DEF EndCreate, Past, Began, CutBy
  <2>2. CASE /\ Commit(c) /\ Continue(p, [step |-> "get", agent |-> t.agent])
             /\ UNCHANGED cut
    <3>1. u = [step |-> "get", agent |-> t.agent] /\ db' = pending /\ pending' = pending
          /\ writer = c
      BY <1>1, <2>2 DEF Commit, Continue
    <3>2. Past(u) = {t.agent} /\ Began(u) = {t.agent} /\ u.step # "updated"
      BY <3>1 DEF Past, Began, CutBy
    <3> QED
      BY <1>1, <1>2, <2>1, <2>2, <3>1, <3>2, RowsCommit
  <2>3. CASE CommitLocked(c) /\ Continue(p, Idle) /\ cut' = cut \cup {t.agent}
    <3>1. u = Idle /\ db' = db /\ pending' = pending
      BY <1>1, <2>3 DEF CommitLocked, Continue
    <3> QED
      BY <1>12, <2>1, <2>3, <3>1
  <2> QED
    BY <1>13, <2>2, <2>3 DEF EndCreate
<1>14. CASE Activate(p)
  <2>1. t.step = "get" /\ Past(t) = {t.agent} /\ Began(t) = {t.agent} /\ asked' = asked
    BY <1>14 DEF Activate, Past, Began, CutBy
  <2>2. db' = db /\ pending' = pending
    BY <1>14 DEF Activate, Select, fileVars
  <2>3. CASE Continue(p, Idle) /\ cut' = cut \cup {t.agent}
    BY <1>1, <1>12, <2>1, <2>2, <2>3 DEF Continue
  <2>4. CASE /\ Continue(p, [step |-> "update", agent |-> t.agent, status |-> "active",
                             registering |-> TRUE])
             /\ UNCHANGED cut
    <3>1. u = [step |-> "update", agent |-> t.agent, status |-> "active",
               registering |-> TRUE]
      BY <1>1, <2>4 DEF Continue
    <3>2. Past(u) = {t.agent} /\ Began(u) = {t.agent} /\ u.step # "updated"
      BY <3>1 DEF Past, Began, CutBy
    <3> QED
      BY <1>1, <2>1, <2>2, <2>4, <3>2, RowsMove
  <2> QED
    BY <1>14, <2>3, <2>4 DEF Activate
<1>15. t.step \in {"update", "updated"} => Past(t) = CutBy(t) /\ Began(t) = CutBy(t)
  BY DEF Past, Began
<1>16. CASE Update(p)
  <2>1. t.step = "update"
    BY <1>16 DEF Update
  <2>2. CASE WriteLocked(c) /\ Continue(p, Idle) /\ cut' = cut \cup CutBy(t) /\ asked' = asked
    <3>1. u = Idle /\ db' = db /\ pending' = pending
      BY <1>1, <2>2 DEF WriteLocked, Continue
    <3> QED
      BY <1>12, <1>15, <2>1, <2>2, <3>1
  <2>3. CASE /\ Write(c, Updated(Seen(c), t.agent, t.status)) /\ UNCHANGED cut
             /\ Continue(p, [t EXCEPT !.step = "updated"])
             /\ asked' = asked \cup (IF t.registering THEN {} ELSE {<<t.agent, t.status>>})
    <3>1. /\ CanWrite(c) /\ db' = db /\ pending' = WithRow(pending, t.agent, t.status)
          /\ u = [t EXCEPT !.step = "updated"]
      BY <1>1, <2>3, SeenPending DEF Write, Updated, Continue
    <3>2. u.step = "updated" /\ u.agent = t.agent /\ u.registering = t.registering
      BY <1>3, <2>1, <3>1
    <3>3. CutBy(u) = CutBy(t) /\ Past(u) = CutBy(u) /\ Began(u) = CutBy(u)
      BY <2>1, <3>2 DEF CutBy, Past, Began
    <3>4. t.agent \in Agents /\ t.status \in AllStatuses
      BY <1>3, <2>1 DEF AllStatuses
    <3>8. /\ asked \subseteq asked'
          /\ t.status = "active" \/ <<t.agent, t.status>> \in asked'
      BY <1>3, <2>1, <2>3
    <3>5. Past(u) = Past(t) /\ Began(u) = Began(t)
      BY <1>15, <2>1, <3>3
    <3> DEFINE a == t.agent
               status == t.status
    <3>6. /\ a \in Agents /\ status \in AllStatuses
          /\ asked \subseteq asked' /\ (status = "active" \/ <<a, status>> \in asked')
          /\ pending' = WithRow(pending, a, status) /\ u.agent = a
      BY <3>1, <3>2, <3>4, <3>8
    <3> HIDE DEF t, u, a, status
    <3>7. cut' = cut
      BY <2>3
    <3> QED
      BY <1>1, <3>1, <3>5, <3>6, <3>7, RowsWrite DEF t, u, c
  <2> QED
    BY <1>16, <2>2, <2>3 DEF Update
<1>17. CASE EndUpdate(p)
  <2>1. t.step = "updated" /\ u = Idle /\ asked' = asked
    BY <1>1, <1>17 DEF EndUpdate, Continue
  <2>2. CASE CommitLocked(c) /\ cut' = cut \cup CutBy(t)
    BY <1>12, <1>15, <2>1, <2>2 DEF CommitLocked
  <2>3. CASE Commit(c) /\ UNCHANGED cut
    <3>1. db' = pending /\ pending' = pending /\ writer = c
      BY <2>3 DEF Commit
    <3>2. \A a \in Began(t) : Settled(a, pending.agents[a].column)
      BY <1>15, <2>1 DEF RowsInv, CutBy
    <3> QED
      BY <1>1, <1>2, <1>4, <2>1, <2>3, <3>1, <3>2, RowsCommit
  <2> QED
    BY <1>17, <2>2, <2>3 DEF EndUpdate
<1>18. CASE CommitRun(p)
  <2>1. t.step = "run" /\ u = Idle /\ cut' = cut /\ asked' = asked /\ Began(t) = {}
    BY <1>1, <1>18, NoPast DEF CommitRun, Continue
  <2>2. CASE CommitLocked(s)
    BY <1>12, <2>1, <2>2 DEF CommitLocked
  <2>3. CASE Commit(s)
    BY <1>1, <1>2, <1>4, <2>1, <2>3, RowsCommit DEF Commit
  <2> QED
    BY <1>18, <2>2, <2>3 DEF CommitRun
<1> QED
  BY <1>6, <1>8, <1>9, <1>10, <1>11, <1>13, <1>14, <1>16, <1>17, <1>18 DEF SystemNext

LEMMA RowsCrash ==
  ASSUME TypeOK, Progress, LockInv, RowsInv, NEW p \in Procs, Crash(p) PROVE RowsInv'
<1> DEFINE t == task[p]
<1>1. /\ task'[p] = Idle /\ \A q \in Procs \ {p} : task'[q] = task[q]
      /\ Held /\ (writer = None => pending = db) /\ t \in Tasks
  BY CrashTyped, TypeParts DEF LockInv, ProcTypeOK
<1>2. /\ db' = db /\ cut' = cut \cup Past(t) /\ asked' = asked
      /\ writer \in ConnsOf(p) => pending' = db
      /\ writer \notin ConnsOf(p) => pending' = pending
  BY DEF Crash, SystemCrash, Closed, Past
<1>3. Past(Idle) = {} /\ Began(Idle) = {} /\ Idle.step = "idle"
  BY IdleStep, NoPast
<1>4. \A q \in Procs : Past(task'[q]) \subseteq Past(task[q]) /\ Began(task'[q]) \subseteq Began(task[q])
  BY <1>1, <1>3
<1>5. \A a : Unsettled(a) => Unsettled(a)'
  BY <1>1, <1>2 DEF Unsettled
<1>6. CASE writer \in ConnsOf(p)
  <2>1. \A q \in Procs \ {p} : ~ InWrite(task[q])
    BY <1>1, <1>6, CallFacts, ConnFacts
  <2>2. \A q \in Procs : Began(task'[q]) \subseteq Past(task[q]) /\ task'[q].step # "updated"
    BY <1>1, <1>3, <2>1 DEF Began, InWrite
  <2>3. \A q \in Procs : \A a \in Began(task'[q]) : db.agents[a] # NoRow
    BY <2>2 DEF RowsInv
  <2>4. pending' = db
    BY <1>2, <1>6
  <2>5. \A q, r \in Procs : Began(task'[q]) \cap Began(task'[r]) # {} => q = r
    BY <1>4 DEF RowsInv
  <2>6. ColumnAgrees'
    BY <1>2, <2>4 DEF RowsInv, ColumnAgrees
  <2>7. \A q \in Procs : \A a \in Past(task'[q]) : db.agents[a] # NoRow
    BY <1>4 DEF RowsInv
  <2>8. \A a \in Agents : /\ Stands(a, db.agents[a].column)'
                         /\ Stands(a, pending.agents[a].column)'
    BY <1>2, <1>5, <2>4 DEF RowsInv, Stands, Settled
  <2> QED
    BY <1>2, <2>2, <2>3, <2>4, <2>5, <2>6, <2>7, <2>8 DEF RowsInv
<1>7. CASE writer \notin ConnsOf(p)
  <2>1. ~ InWrite(t)
    BY <1>1, <1>7, CallFacts
  <2>2. Began(t) = Past(t)
    BY <2>1 DEF Began, InWrite
  <2> HIDE DEF t
  <2>3. Began(t) \subseteq cut' /\ cut \subseteq cut' /\ pending' = pending
    BY <1>2, <1>7, <2>2
  <2> QED
    BY <1>1, <1>2, <1>3, <2>2, <2>3, RowsMove DEF t
<1> QED
  BY <1>6, <1>7

LEMMA RowsElsewhere ==
  ASSUME TypeOK, RowsInv, NEW p \in Procs, UNCHANGED systemVars,
         \/ VaultNext(p) \/ ProvNext(p)
  PROVE  RowsInv'
<1>1. \/ task[p] \in VaultTasks /\ task'[p] \in VaultTasks
      \/ task[p] \in ProvTasks /\ task'[p] \in ProvTasks
  BY TypeParts, VaultMoves, ProvMoves, MovesFacts DEF VaultTasks, ProvTasks, Tasks
<1>2. \A q \in Procs \ {p} : task'[q] = task[q]
  BY TypeParts, VaultMoves, ProvMoves, MovesFacts DEF VaultTasks, ProvTasks, Tasks
<1>3. /\ task[p].step \notin {"create", "get", "update", "updated"}
      /\ task'[p].step \notin {"create", "get", "update", "updated"}
  BY <1>1, VaultTaskFields, ProvTaskFields
<1>4. /\ Past(task[p]) = {} /\ Began(task[p]) = {}
      /\ Past(task'[p]) = {} /\ Began(task'[p]) = {}
  BY <1>3, NoPast
<1>5. db' = db /\ pending' = pending /\ cut' = cut /\ asked' = asked
  BY DEF systemVars, fileVars
<1> QED
  BY <1>2, <1>3, <1>4, <1>5, RowsMove

LEMMA SystemInvStep ==
  ASSUME TypeOK, Progress, LockInv, RowsInv, [Next]_vars PROVE LockInv' /\ RowsInv'
<1>1. ASSUME UNCHANGED <<systemVars, task>> PROVE LockInv' /\ RowsInv'
  <2>1. /\ db' = db /\ pending' = pending /\ writer' = writer /\ open' = open
        /\ raised' = raised /\ cut' = cut /\ asked' = asked /\ task' = task
    BY <1>1 DEF systemVars, fileVars
  <2>2. LockInv'
    BY <2>1 DEF LockInv, LocksOfTheRaised, InCall, Held, OwnPending
  <2>3. RowsInv'
    BY <2>1 DEF RowsInv, ColumnAgrees, Unsettled, Stands, Settled
  <2> QED
    BY <2>2, <2>3
<1>2. CASE UNCHANGED vars
  BY <1>1, <1>2 DEF vars, procVars
<1>3. ASSUME NEW p \in Procs, Start(p) PROVE LockInv' /\ RowsInv'
  BY <1>1, <1>3 DEF Start, StartProc, SystemStart
<1> QED
  BY <1>2, <1>3, LockStep, LockCrash, LockElsewhere, RowsStep, RowsCrash, RowsElsewhere DEF Next

LEMMA SystemInvariant == Spec => [](TypeOK /\ LockInv /\ RowsInv)
BY InitTyped, StepTyped, LockInitInv, RowsInitInv, SystemInvStep, PTL DEF Spec

\* A lock that outlives its call is that of a call that raised.
THEOREM LocksOfTheRaisedHolds == Spec => []LocksOfTheRaised
BY SystemInvariant, PTL DEF LockInv

\* The two places of an agent's status agree, in what is committed and what is not.
THEOREM ColumnAgreesHolds == Spec => []ColumnAgrees
BY SystemInvariant, PTL DEF RowsInv

LEMMA RowsStand == RowsInv => RegisteredIsActive
<1> SUFFICES ASSUME RowsInv, NEW a \in Agents,
                    ~ Settled(a, db.agents[a].column)
             PROVE  /\ db.agents[a].column = "validated"
                    /\ \/ a \in cut
                       \/ \E p \in Procs :
                            \/ task[p].step = "get" /\ task[p].agent = a
                            \/ task[p].step \in {"update", "updated"} /\ a \in CutBy(task[p])
  BY DEF RegisteredIsActive, Settled
<1>1. db.agents[a].column = "validated" /\ Unsettled(a)
  BY DEF RowsInv, Stands
<1>2. CASE a \in cut
  BY <1>1, <1>2
<1>3. CASE a \notin cut
  <2>1. PICK p \in Procs : a \in Past(task[p])
    BY <1>1, <1>3 DEF Unsettled
  <2> QED
    BY <1>1, <2>1 DEF Past, CutBy
<1> QED
  BY <1>2, <1>3

\* An agent is active or what a caller of update_status asked for, whatever statuses
\* those callers ask for, but for a registration under way or cut short.
THEOREM RegisteredIsActiveHolds == Spec => []RegisteredIsActive
BY SystemInvariant, RowsStand, PTL

LEMMA BeganAlone == RowsInv => OneRegistrar
<1> SUFFICES ASSUME RowsInv, NEW p \in Procs, NEW q \in Procs, NEW a \in Agents,
                    task[p] \in [step : {"create", "get"}, agent : {a}] \/ a \in CutBy(task[p]),
                    task[q] \in [step : {"create", "get"}, agent : {a}] \/ a \in CutBy(task[q])
             PROVE  p = q
  BY DEF OneRegistrar
<1>1. ASSUME NEW t, t \in [step : {"create", "get"}, agent : {a}] \/ a \in CutBy(t)
      PROVE  a \in Began(t)
  BY <1>1 DEF Began, Past
<1>2. a \in Began(task[p]) \cap Began(task[q])
  BY <1>1
<1> QED
  BY <1>2 DEF RowsInv

\* The primary key of agents lets one process at a time register an agent.
THEOREM OneRegistrarHolds == Spec => []OneRegistrar
BY SystemInvariant, BeganAlone, PTL

\* An agent has one registrar at a time, which leaves it active or is cut short.
THEOREM RegistersOnceHolds == Spec => []RegistersOnce
BY RegisteredIsActiveHolds, OneRegistrarHolds, PTL DEF RegistersOnce

\* Only a commit changes what is committed.
LEMMA OnlyCommits ==
  ASSUME [Next]_vars, db' # db PROVE writer # None /\ db' = pending
<1>1. ASSUME NEW c, c \in Conns, \/ Select(c) \/ WriteLocked(c) \/ Commit(c) \/ CommitLocked(c)
                      \/ \E content : Write(c, content)
      PROVE  db' = db \/ (writer = c /\ db' = pending)
  BY <1>1 DEF Select, WriteLocked, Commit, CommitLocked, Write
<1>2. ASSUME NEW p \in Procs, SystemNext(p)
      PROVE  db' = db \/ (writer \in Conns /\ db' = pending)
  <2>1. CASE \E a \in Agents : \/ Create(p, a) \/ CreateRefused(p, a)
                               \/ \E status \in Statuses : UpdateStatus(p, a, status)
    BY <2>1 DEF Create, CreateRefused, UpdateStatus, Write, Select
  <2>2. CASE CreateLocked(p) \/ RunLocked(p) \/ Read(p) \/ Update(p)
    BY <2>2 DEF CreateLocked, RunLocked, Read, Update, WriteLocked, Select, Write
  <2>3. CASE Activate(p)
    BY <2>3 DEF Activate, Select, fileVars
  <2>4. CASE EndCreate(p) \/ EndUpdate(p) \/ CommitRun(p)
    BY <2>4, ConnsTyped DEF EndCreate, EndUpdate, CommitRun, Commit, CommitLocked
  <2>5. CASE \E r \in Runs : StartRun(p, r) \/ EndRun(p, r)
    BY <2>5 DEF StartRun, EndRun, Write
  <2> QED
    BY <1>2, <2>1, <2>2, <2>3, <2>4, <2>5 DEF SystemNext
<1>3. ASSUME NEW p \in Procs, Start(p) \/ Crash(p) PROVE db' = db
  BY <1>3 DEF Start, SystemStart, Crash, SystemCrash, Closed, systemVars, fileVars
<1>4. CASE UNCHANGED vars
  BY <1>4 DEF vars, systemVars, fileVars
<1> QED
  BY <1>2, <1>3, <1>4, ConnFacts DEF Next, systemVars, fileVars

LEMMA OwnCommits ==
  TypeOK /\ LockInv /\ [Next]_vars =>
    [ db' # db => \/ writer \in raised
                  \/ Own(task[writer[1]], db, db') ]_<<systemVars, procVars>>
BY OnlyCommits DEF LockInv, OwnPending

\* Nothing is committed that its caller was not told about, unless a call raised.
THEOREM CommitsOwnChangeHolds == Spec => CommitsOwnChange
BY SystemInvariant, OwnCommits, PTL DEF Spec, CommitsOwnChange


(***************************************************************************)
(* Provisioning.  What a call of instantiate has done so far is there, and *)
(* what it did last is what the stores hold.                               *)
(***************************************************************************)

InInstantiate == {"provision", "seed", "seeding", "jobs"}

\* What p does next, after each step.
LEMMA NextTask ==
  ASSUME ProcTypeOK, NEW p \in Procs
  PROVE  LET t == task[p]
             u == task'[p]
         IN  /\ \A a \in Hosted : Instantiate(p, a) =>
                  /\ t.step = "idle" /\ u.step = "provision" /\ u.agent = a
             /\ \A a \in Hosted : UseKV(p, a) => t.step = "idle" /\ u.step = "idle"
             /\ \A a \in Hosted, f \in Fields, v \in Values : WriteState(p, a, f, v) =>
                  /\ t.step = "idle"
                  /\ u.step = "state" /\ u.agent = a /\ u.field = f
             /\ EndWriteState(p) => u.step = "idle"
             /\ Provision(p) => u.step = "seed" /\ u.agent = t.agent /\ u.done = 0
             /\ Seed(p) => u.step = "seeding" /\ u.agent = t.agent /\ u.done = t.done
             /\ EndSeed(p) => u.step = "seed" /\ u.agent = t.agent /\ u.done = t.done + 1
             /\ BeginJobs(p) => u.step = "jobs" /\ u.agent = t.agent /\ u.done = 0
             /\ AddJob(p) => u.step = "jobs" /\ u.agent = t.agent /\ u.done = t.done + 1
             /\ EndInstantiate(p) => u.step = "idle"
             /\ StoreRaises(p) =>
                  /\ t.step \in {"provision", "seed", "seeding", "state"}
                  /\ u.step = "idle"
<1> DEFINE t == task[p]
           u == task'[p]
<1>1. t \in Tasks
  BY DEF ProcTypeOK
<1>2. t.step \in {"seed", "seeding", "jobs"} =>
        t \in [step : {"seed", "seeding", "jobs"}, agent : Hosted, done : Nat]
  BY <1>1, TaskKinds DEF ProvTasks, ProvTask, Idle
<1>3. \A a \in Hosted : Instantiate(p, a) =>
        t.step = "idle" /\ u.step = "provision" /\ u.agent = a
  BY DEF ProcTypeOK, Instantiate, Call, Idle
<1>4. \A a \in Hosted : UseKV(p, a) => t.step = "idle" /\ u.step = "idle"
  BY DEF ProcTypeOK, UseKV, Call, Idle
<1>5. \A a \in Hosted, f \in Fields, v \in Values : WriteState(p, a, f, v) =>
        t.step = "idle" /\ u.step = "state" /\ u.agent = a /\ u.field = f
  BY DEF ProcTypeOK, WriteState, Call, Idle
<1>6. (EndWriteState(p) \/ EndInstantiate(p)) => u.step = "idle"
  BY DEF ProcTypeOK, EndWriteState, EndInstantiate, Continue, Idle
<1>12. StoreRaises(p) =>
         t.step \in {"provision", "seed", "seeding", "state"} /\ u.step = "idle"
  BY DEF ProcTypeOK, StoreRaises, Continue, Idle
<1>7. Provision(p) => u.step = "seed" /\ u.agent = t.agent /\ u.done = 0
  BY DEF ProcTypeOK, Provision, Continue
<1>8. Seed(p) => u.step = "seeding" /\ u.agent = t.agent /\ u.done = t.done
  <2>1. Seed(p) => t.step = "seed" /\ u = [t EXCEPT !.step = "seeding"]
    BY DEF ProcTypeOK, Seed, Continue
  <2> QED
    BY <1>2, <2>1
<1>9. EndSeed(p) => u.step = "seed" /\ u.agent = t.agent /\ u.done = t.done + 1
  <2>1. EndSeed(p) => t.step = "seeding" /\ u = [t EXCEPT !.step = "seed", !.done = @ + 1]
    BY DEF ProcTypeOK, EndSeed, Continue
  <2> QED
    BY <1>2, <2>1
<1>10. BeginJobs(p) => u.step = "jobs" /\ u.agent = t.agent /\ u.done = 0
  <2>1. BeginJobs(p) => t.step = "seed" /\ u = [t EXCEPT !.step = "jobs", !.done = 0]
    BY DEF ProcTypeOK, BeginJobs, Continue
  <2> QED
    BY <1>2, <2>1
<1>11. AddJob(p) => u.step = "jobs" /\ u.agent = t.agent /\ u.done = t.done + 1
  <2>1. AddJob(p) => t.step = "jobs" /\ u = [t EXCEPT !.done = @ + 1]
    BY DEF ProcTypeOK, AddJob, Continue
  <2> QED
    BY <1>2, <2>1
<1> QED
  BY <1>3, <1>4, <1>5, <1>6, <1>7, <1>8, <1>9, <1>10, <1>11, <1>12

\* A foreign size comes from a use of the store that was first.
SizeInv ==
  \A p \in Procs : \A a \in Hosted :
    env[p][a] # 0 => env[p][a] = MapSize(a) \/ <<p, a>> \in kvFirst

\* An environment is opened with the agent's own size, or by a use of the store.
LEMMA SizeOpen ==
  ASSUME ProvTypeOK, SizeInv, NEW p \in Procs, NEW a \in Hosted, NEW size \in Nat \ {0},
         OpenAgent(p, a, size),
         kvFirst \subseteq kvFirst', size = MapSize(a) \/ <<p, a>> \in kvFirst'
  PROVE  SizeInv'
<1> SUFFICES ASSUME NEW q \in Procs, NEW b \in Hosted, env'[q][b] # 0
             PROVE  env'[q][b] = MapSize(b) \/ <<q, b>> \in kvFirst'
  BY DEF SizeInv
<1>1. env'[q][b] = env[q][b] \/ (q = p /\ b = a /\ env'[q][b] = size)
  BY DEF OpenAgent, ProvTypeOK
<1>2. CASE env'[q][b] = env[q][b]
  BY <1>2 DEF SizeInv
<1>3. CASE q = p /\ b = a /\ env'[q][b] = size
  BY <1>3
<1> QED
  BY <1>1, <1>2, <1>3

LEMMA SizeStep ==
  ASSUME ProcTypeOK, ProvTypeOK, SizeInv, NEW p \in Procs, ProvNext(p)
  PROVE  SizeInv'
<1> DEFINE t == task[p]
<1>1. CASE \E a \in Hosted : UseKV(p, a)
  <2>1. PICK a \in Hosted : UseKV(p, a)
    BY <1>1
  <2>2. /\ OpenAgent(p, a, DefaultMapSize) /\ DefaultMapSize \in Nat \ {0}
        /\ kvFirst \subseteq kvFirst' /\ <<p, a>> \in kvFirst'
    BY <2>1, ProvisioningAssumption DEF UseKV
  <2> QED
    BY <2>2, SizeOpen
<1>2. ASSUME t.agent \in Hosted, OpenAgent(p, t.agent, MapSize(t.agent)), kvFirst' = kvFirst
      PROVE  SizeInv'
  <2>1. MapSize(t.agent) \in Nat \ {0}
    BY <1>2, DefinitionTyped
  <2> DEFINE size == MapSize(t.agent)
  <2>2. size \in Nat \ {0} /\ OpenAgent(p, t.agent, size) /\ size = MapSize(t.agent)
    BY <1>2, <2>1
  <2> HIDE DEF size
  <2> QED
    BY <1>2, <2>2, SizeOpen
<1>3. ASSUME UNCHANGED <<env, kvFirst>> PROVE SizeInv'
  BY <1>3 DEF SizeInv
<1>4. CASE Provision(p)
  BY <1>2, <1>4, ProvTaskOf DEF Provision
<1>5. CASE StoreRaises(p)
  <2>1. kvFirst' = kvFirst /\ t.agent \in Hosted
    BY SMTT(30), <1>5, ProvTaskOf DEF StoreRaises
  <2>2. env' = env \/ OpenAgent(p, t.agent, MapSize(t.agent))
    BY <1>5 DEF StoreRaises
  <2> QED
    BY <1>2, <1>3, <2>1, <2>2
<1>6. CASE \/ \E a \in Hosted : \/ Instantiate(p, a)
                              \/ \E f \in Fields, v \in Values : WriteState(p, a, f, v)
           \/ EndWriteState(p) \/ Seed(p) \/ EndSeed(p) \/ BeginJobs(p) \/ AddJob(p)
           \/ EndInstantiate(p)
  BY <1>3, <1>6 DEF Instantiate, WriteState, EndWriteState, Seed, EndSeed, BeginJobs, AddJob,
     EndInstantiate, provVars
<1> QED
  BY <1>1, <1>4, <1>5, <1>6 DEF ProvNext


\* The field a call of instantiate has come to.
LEMMA FieldOf ==
  ASSUME ProcTypeOK, NEW p \in Procs, task[p].step \in {"seed", "seeding"},
         task[p].done < Len(Schema(task[p].agent))
  PROVE  Schema(task[p].agent)[task[p].done + 1] \in Fields
<1>1. task[p].agent \in Hosted /\ task[p].done \in Nat
  BY ProvTaskOf
<1>2. Schema(task[p].agent) \in Seq(Fields)
  BY <1>1, DefinitionTyped
<1> QED
  BY <1>1, <1>2

\* The rows a step creates are those of the field that was being written.
LEMMA StateCreate ==
  ASSUME ProcTypeOK, ProvTypeOK, StateIsLastWrite,
         NEW p \in Procs, NEW a \in Hosted, NEW f \in Fields, NEW v \in Values \cup {NoValue},
         CreateRow(p, a, f, v),
         \A b \in Hosted, g \in Fields : Writing(p, b, g) <=> b = a /\ g = f,
         \A b \in Hosted, g \in Fields : ~ Writing(p, b, g)',
         \A q \in Procs \ {p} : task'[q] = task[q]
  PROVE  StateIsLastWrite'
<1>1. rows[p][a][f] = <<>>
  BY DEF StateIsLastWrite
<1>2. Append(<<>>, v) = <<v>>
  BY SMT
<1>3. rows'[p][a][f] = wrote'[p][a][f]
  <2>1. rows'[p][a][f] = Append(rows[p][a][f], v) /\ wrote'[p][a][f] = <<v>>
    BY CreateTyped
  <2> QED
    BY <1>1, <1>2, <2>1
<1>4. \A q \in Procs, b \in Hosted, g \in Fields : q # p \/ b # a \/ g # f =>
        rows'[q][b][g] = rows[q][b][g] /\ wrote'[q][b][g] = wrote[q][b][g]
  BY CreateTyped
<1>5. lost' = lost \ {<<p, a, f>>}
  BY DEF CreateRow
<1>6. \A q \in Procs \ {p} : \A b \in Hosted, g \in Fields : Writing(q, b, g)' <=> Writing(q, b, g)
  BY DEF Writing
<1> SUFFICES ASSUME NEW q \in Procs, NEW b \in Hosted, NEW g \in Fields
             PROVE  IF Writing(q, b, g)' \/ <<q, b, g>> \in lost'
                    THEN rows'[q][b][g] = <<>> ELSE rows'[q][b][g] = wrote'[q][b][g]
  BY DEF StateIsLastWrite
<1>7. CASE q = p /\ b = a /\ g = f
  BY <1>3, <1>5, <1>7
<1>8. CASE q # p
  <2>1. <<q, b, g>> \in lost' <=> <<q, b, g>> \in lost
    BY <1>5, <1>8
  <2>2. Writing(q, b, g)' <=> Writing(q, b, g)
    BY <1>6, <1>8
  <2> QED
    BY <1>4, <1>8, <2>1, <2>2 DEF StateIsLastWrite
<1>9. CASE q = p /\ (b # a \/ g # f)
  <2>1. <<q, b, g>> \in lost' <=> <<q, b, g>> \in lost
    BY <1>5, <1>9
  <2>2. ~ Writing(q, b, g)' /\ ~ Writing(q, b, g)
    BY <1>9
  <2> QED
    BY <1>4, <1>9, <2>1, <2>2 DEF StateIsLastWrite
<1> QED
  BY <1>7, <1>8, <1>9

\* The rows a step deletes are those of the field it begins to write.
LEMMA StateDelete ==
  ASSUME ProcTypeOK, ProvTypeOK, StateIsLastWrite,
         NEW p \in Procs, NEW a \in Hosted, NEW f \in Fields, DeleteRows(p, a, f),
         UNCHANGED <<wrote, lost>>,
         \A b \in Hosted, g \in Fields : ~ Writing(p, b, g),
         \A b \in Hosted, g \in Fields : Writing(p, b, g)' <=> b = a /\ g = f,
         \A q \in Procs \ {p} : task'[q] = task[q]
  PROVE  StateIsLastWrite'
<1>1. rows'[p][a][f] = <<>>
  BY DeleteTyped
<1>2. \A q \in Procs, b \in Hosted, g \in Fields : q # p \/ b # a \/ g # f =>
        rows'[q][b][g] = rows[q][b][g]
  BY DeleteTyped
<1>3. \A q \in Procs \ {p} : \A b \in Hosted, g \in Fields : Writing(q, b, g)' <=> Writing(q, b, g)
  BY DEF Writing
<1> SUFFICES ASSUME NEW q \in Procs, NEW b \in Hosted, NEW g \in Fields
             PROVE  IF Writing(q, b, g)' \/ <<q, b, g>> \in lost'
                    THEN rows'[q][b][g] = <<>> ELSE rows'[q][b][g] = wrote'[q][b][g]
  BY DEF StateIsLastWrite
<1>4. CASE q = p /\ b = a /\ g = f
  BY <1>1, <1>4
<1>5. CASE q # p
  <2>1. Writing(q, b, g)' <=> Writing(q, b, g)
    BY <1>3, <1>5
  <2> QED
    BY <1>2, <1>5, <2>1 DEF StateIsLastWrite
<1>6. CASE q = p /\ (b # a \/ g # f)
  <2>1. ~ Writing(q, b, g)' /\ ~ Writing(q, b, g)
    BY <1>6
  <2> QED
    BY <1>2, <1>6, <2>1 DEF StateIsLastWrite
<1> QED
  BY <1>4, <1>5, <1>6

\* A step that is neither writes no field before and after.
LEMMA StateQuiet ==
  ASSUME StateIsLastWrite, NEW p \in Procs, UNCHANGED <<rows, wrote, lost>>,
         task[p].step \notin {"state", "seeding"}, task'[p].step \notin {"state", "seeding"},
         \A q \in Procs \ {p} : task'[q] = task[q]
  PROVE  StateIsLastWrite'
<1>1. \A q \in Procs : \A b \in Hosted, g \in Fields : Writing(q, b, g)' <=> Writing(q, b, g)
  BY DEF Writing
<1> QED
  BY <1>1 DEF StateIsLastWrite

\* A write that ends early, by a crash or a raise, is lost.
LEMMA StateCut ==
  ASSUME StateIsLastWrite, NEW p \in Procs, UNCHANGED <<rows, wrote>>,
         lost' = lost \cup CutShort(p), task'[p].step = "idle",
         \A q \in Procs \ {p} : task'[q] = task[q]
  PROVE  StateIsLastWrite'
<1> SUFFICES ASSUME NEW q \in Procs, NEW a \in Hosted, NEW f \in Fields
             PROVE  IF Writing(q, a, f)' \/ <<q, a, f>> \in lost'
                    THEN rows'[q][a][f] = <<>> ELSE rows'[q][a][f] = wrote'[q][a][f]
  BY DEF StateIsLastWrite
<1>1. <<q, a, f>> \in lost' <=> <<q, a, f>> \in lost \/ (q = p /\ Writing(p, a, f))
  BY CutShortTyped
<1>2. CASE q = p
  <2>1. ~ Writing(p, a, f)'
    BY DEF Writing
  <2> QED
    BY <1>1, <1>2, <2>1 DEF StateIsLastWrite
<1>3. CASE q # p
  <2>1. Writing(q, a, f)' <=> Writing(q, a, f)
    BY <1>3 DEF Writing
  <2> QED
    BY <1>1, <1>3, <2>1 DEF StateIsLastWrite
<1> QED
  BY <1>2, <1>3

LEMMA StateStep ==
  ASSUME ProcTypeOK, ProvTypeOK, Progress, StateIsLastWrite, NEW p \in Procs, ProvNext(p)
  PROVE  StateIsLastWrite'
<1> DEFINE t == task[p]
           u == task'[p]
<1>1. \A q \in Procs \ {p} : task'[q] = task[q]
  BY ProvMoves, MovesFacts DEF ProvTasks, Tasks
<1>2. CASE \E a \in Hosted, f \in Fields, v \in Values : WriteState(p, a, f, v)
  <2>1. PICK a \in Hosted, f \in Fields, v \in Values : WriteState(p, a, f, v)
    BY <1>2
  <2>2. t.step = "idle" /\ u.step = "state" /\ u.agent = a /\ u.field = f
    BY <2>1, NextTask
  <2>3. DeleteRows(p, a, f) /\ UNCHANGED <<wrote, lost>>
    BY <2>1 DEF WriteState
  <2>4. /\ \A b \in Hosted, g \in Fields : ~ Writing(p, b, g)
        /\ \A b \in Hosted, g \in Fields : Writing(p, b, g)' <=> b = a /\ g = f
    BY <2>2 DEF Writing
  <2> QED
    BY <1>1, <2>3, <2>4, StateDelete
<1>3. CASE EndWriteState(p)
  <2>1. /\ t.step = "state" /\ u.step = "idle" /\ CreateRow(p, t.agent, t.field, t.value)
        /\ t.agent \in Hosted /\ t.field \in Fields /\ t.value \in Values \cup {NoValue}
    BY <1>3, NextTask, ProvTaskOf DEF EndWriteState
  <2>2. /\ \A b \in Hosted, g \in Fields : Writing(p, b, g) <=> b = t.agent /\ g = t.field
        /\ \A b \in Hosted, g \in Fields : ~ Writing(p, b, g)'
    BY <2>1 DEF Writing
  <2> QED
    BY <1>1, <2>1, <2>2, StateCreate
<1>4. CASE Seed(p)
  <2> DEFINE f == Schema(t.agent)[t.done + 1]
  <2>1. /\ t.step = "seed" /\ t.done < Len(Schema(t.agent)) /\ t.agent \in Hosted
        /\ u.step = "seeding" /\ u.agent = t.agent /\ u.done = t.done
        /\ DeleteRows(p, t.agent, f) /\ UNCHANGED <<wrote, lost>>
    BY <1>4, NextTask, ProvTaskOf DEF Seed
  <2>2. f \in Fields
    BY <2>1, FieldOf
  <2>3. /\ \A b \in Hosted, g \in Fields : ~ Writing(p, b, g)
        /\ \A b \in Hosted, g \in Fields : Writing(p, b, g)' <=> b = t.agent /\ g = f
    BY <2>1 DEF Writing
  <2> HIDE DEF f
  <2> QED
    BY <1>1, <2>1, <2>2, <2>3, StateDelete
<1>5. CASE EndSeed(p)
  <2> DEFINE f == Schema(t.agent)[t.done + 1]
  <2>1. /\ t.step = "seeding" /\ t.agent \in Hosted /\ u.step = "seed"
        /\ CreateRow(p, t.agent, f, NoValue) /\ NoValue \in Values \cup {NoValue}
    BY <1>5, NextTask, ProvTaskOf DEF EndSeed
  <2>2. f \in Fields
    BY <2>1, FieldOf DEF Progress
  <2>3. /\ \A b \in Hosted, g \in Fields : Writing(p, b, g) <=> b = t.agent /\ g = f
        /\ \A b \in Hosted, g \in Fields : ~ Writing(p, b, g)'
    BY <2>1 DEF Writing
  <2> HIDE DEF f
  <2> QED
    BY SMTT(30), <1>1, <2>1, <2>2, <2>3, StateCreate
<1>6. CASE \/ \E a \in Hosted : Instantiate(p, a) \/ UseKV(p, a)
           \/ Provision(p) \/ BeginJobs(p) \/ AddJob(p) \/ EndInstantiate(p)
  <2>1. UNCHANGED <<rows, wrote, lost>>
    BY ZenonT(30), <1>6 DEF Instantiate, UseKV, Provision, BeginJobs, AddJob, EndInstantiate, provVars
  <2>2. t.step \notin {"state", "seeding"} /\ u.step \notin {"state", "seeding"}
    BY <1>6, NextTask DEF Provision, BeginJobs, AddJob, EndInstantiate
  <2> QED
    BY SMTT(30), <1>1, <2>1, <2>2, StateQuiet
<1>7. CASE StoreRaises(p)
  <2>1. u.step = "idle"
    BY <1>7, NextTask
  <2>2. UNCHANGED <<rows, wrote>> /\ lost' = lost \cup CutShort(p)
    BY <1>7 DEF StoreRaises
  <2> QED
    BY <1>1, <2>1, <2>2, StateCut
<1> QED
  BY <1>2, <1>3, <1>4, <1>5, <1>6, <1>7 DEF ProvNext


LEMMA AppendNotEmpty ==
  ASSUME NEW s \in RowSeqs, NEW v \in Values \cup {NoValue} PROVE Append(s, v) # <<>>
<1>1. s \in Seq(Values \cup {NoValue}) /\ v \in Values \cup {NoValue}
  BY DEF RowSeqs
<1>2. Len(Append(s, v)) = Len(s) + 1 /\ Len(s) \in Nat
  BY <1>1
<1>3. Len(<<>>) = 0
  OBVIOUS
<1> QED
  BY <1>2, <1>3

HasStores(p, a) == env[p][a] # 0 /\ (DefinitionOf[a].memory => a \in tables)
Present(p, a, f) == \/ rows[p][a][f] # <<>> \/ Writing(p, a, f)
                    \/ <<p, a, f>> \in lost
AllPresent(p, a) == \A i \in DOMAIN Schema(a) : Present(p, a, Schema(a)[i])

\* How far the call that p is in has come, if it instantiates a.
CallInv(p, a) ==
  /\ task[p].step \in InInstantiate => a \in dirs
  /\ task[p].step \in {"seed", "seeding", "jobs"} => HasStores(p, a)
  /\ task[p].step \in {"seed", "seeding"} =>
       \A i \in 1..task[p].done : Present(p, a, Schema(a)[i])
  /\ task[p].step = "jobs" => AllPresent(p, a)

StoreInv ==
  \A p \in Procs : \A a \in Hosted :
    /\ task[p].agent = a => CallInv(p, a)
    /\ (\E t \in Triggers : heap[p][a][t] # 0) =>
         a \in dirs /\ HasStores(p, a) /\ AllPresent(p, a)

\* A call never takes a store away.
LEMMA StoresGrow ==
  ASSUME ProcTypeOK, ProvTypeOK, Progress, StoreInv, NEW p \in Procs, ProvNext(p),
         NEW q \in Procs, NEW a \in Hosted
  PROVE  /\ dirs \subseteq dirs'
         /\ HasStores(q, a) => HasStores(q, a)'
<1>1. dirs \subseteq dirs' /\ tables \subseteq tables'
  BY DEF ProvNext, Instantiate, UseKV, WriteState, EndWriteState, Provision, Seed, EndSeed,
     BeginJobs, AddJob, EndInstantiate, StoreRaises, provVars
<1>3. env[q][a] # 0 => env'[q][a] # 0
  <2>1. \A b \in Hosted : \A n \in Nat : OpenAgent(p, b, n) /\ env[q][a] # 0 => env'[q][a] # 0
    BY DEF OpenAgent, ProvTypeOK
  <2>2. CASE \E b \in Hosted : UseKV(p, b)
    BY <2>1, <2>2, ProvisioningAssumption DEF UseKV
  <2>3. CASE Provision(p)
    <3>1. task[p].agent \in Hosted /\ OpenAgent(p, task[p].agent, MapSize(task[p].agent))
      BY <2>3, ProvTaskOf DEF Provision
    <3>2. MapSize(task[p].agent) \in Nat
      BY SMTT(30), <3>1, DefinitionTyped
    <3> QED
      BY <2>1, <3>1, <3>2
  <2>5. CASE StoreRaises(p)
    <3>1. /\ task[p].agent \in Hosted
          /\ env' = env \/ OpenAgent(p, task[p].agent, MapSize(task[p].agent))
      BY <2>5, ProvTaskOf DEF StoreRaises
    <3>2. MapSize(task[p].agent) \in Nat
      BY SMTT(30), <3>1, DefinitionTyped
    <3> QED
      BY <2>1, <3>1, <3>2
  <2>4. CASE ~ Provision(p) /\ ~ StoreRaises(p) /\ ~ \E b \in Hosted : UseKV(p, b)
    BY <2>4 DEF ProvNext, Instantiate, WriteState, EndWriteState, Seed, EndSeed,
       BeginJobs, AddJob, EndInstantiate, provVars
  <2> QED
    BY <2>2, <2>3, <2>4, <2>5
<1> QED
  BY SMTT(30), <1>1, <1>3 DEF HasStores

\* Nor a field, but to write it.
LEMMA FieldsStay ==
  ASSUME ProcTypeOK, ProvTypeOK, Progress, NEW p \in Procs, ProvNext(p),
         NEW q \in Procs, NEW b \in Hosted, NEW g \in Fields, Present(q, b, g)
  PROVE  Present(q, b, g)'
<1> DEFINE t == task[p]
           u == task'[p]
<1>1. \A r \in Procs \ {p} : task'[r] = task[r]
  BY ProvMoves, MovesFacts DEF ProvTasks, Tasks
<1>2. q # p => (Writing(q, b, g)' <=> Writing(q, b, g))
  BY <1>1 DEF Writing
<1>3. CASE \E a \in Hosted, f \in Fields, v \in Values : WriteState(p, a, f, v)
  <2>1. PICK a \in Hosted, f \in Fields, v \in Values : WriteState(p, a, f, v)
    BY <1>3
  <2>2. t.step = "idle" /\ u.step = "state" /\ u.agent = a /\ u.field = f
    BY <2>1, NextTask
  <2>3. \A r \in Procs, c \in Hosted, h \in Fields : r # p \/ c # a \/ h # f =>
          rows'[r][c][h] = rows[r][c][h]
    BY <2>1, DeleteTyped DEF WriteState
  <2>4. lost' = lost
    BY <2>1 DEF WriteState
  <2> QED
    BY <1>2, <2>2, <2>3, <2>4 DEF Present, Writing
<1>4. CASE Seed(p)
  <2> DEFINE f == Schema(t.agent)[t.done + 1]
  <2>1. /\ t.step = "seed" /\ t.done < Len(Schema(t.agent)) /\ t.agent \in Hosted
        /\ u.step = "seeding" /\ u.agent = t.agent /\ u.done = t.done
        /\ DeleteRows(p, t.agent, f) /\ lost' = lost
    BY <1>4, NextTask, ProvTaskOf DEF Seed
  <2>2. f \in Fields
    BY <2>1, FieldOf
  <2>3. /\ ~ Writing(p, b, g)
        /\ Writing(p, b, g)' <=> b = t.agent /\ g = f
    BY <2>1 DEF Writing
  <2> HIDE DEF f
  <2>4. \A r \in Procs, c \in Hosted, h \in Fields : r # p \/ c # t.agent \/ h # f =>
          rows'[r][c][h] = rows[r][c][h]
    BY <2>1, <2>2, DeleteTyped
  <2> QED
    BY <1>2, <2>1, <2>3, <2>4 DEF Present
<1>5. ASSUME NEW a \in Hosted, NEW f \in Fields, NEW v \in Values \cup {NoValue},
             CreateRow(p, a, f, v), Writing(p, b, g) => b = a /\ g = f
      PROVE  Present(q, b, g)'
  <2>1. /\ rows'[p][a][f] = Append(rows[p][a][f], v)
        /\ \A r \in Procs, c \in Hosted, h \in Fields : r # p \/ c # a \/ h # f =>
             rows'[r][c][h] = rows[r][c][h]
    BY <1>5, CreateTyped
  <2>2. rows'[p][a][f] # <<>>
    BY <2>1, RowsOf, AppendNotEmpty
  <2>3. <<q, b, g>> \in lost => <<q, b, g>> \in lost' \/ (q = p /\ b = a /\ g = f)
    BY <1>5 DEF CreateRow
  <2> QED
    BY <1>2, <1>5, <2>1, <2>2, <2>3 DEF Present
<1>6. CASE EndWriteState(p)
  <2>1. /\ t.step = "state" /\ CreateRow(p, t.agent, t.field, t.value)
        /\ t.agent \in Hosted /\ t.field \in Fields /\ t.value \in Values \cup {NoValue}
    BY <1>6, ProvTaskOf DEF EndWriteState
  <2>2. Writing(p, b, g) => b = t.agent /\ g = t.field
    BY <2>1 DEF Writing
  <2> QED
    BY <1>5, <2>1, <2>2
<1>7. CASE EndSeed(p)
  <2> DEFINE f == Schema(t.agent)[t.done + 1]
  <2>1. /\ t.step = "seeding" /\ t.agent \in Hosted
        /\ CreateRow(p, t.agent, f, NoValue) /\ NoValue \in Values \cup {NoValue}
    BY <1>7, ProvTaskOf DEF EndSeed
  <2>2. f \in Fields
    BY <2>1, FieldOf DEF Progress
  <2>3. Writing(p, b, g) => b = t.agent /\ g = f
    BY <2>1 DEF Writing
  <2> HIDE DEF f
  <2> QED
    BY <1>5, <2>1, <2>2, <2>3
<1>8. CASE \/ \E a \in Hosted : Instantiate(p, a) \/ UseKV(p, a)
           \/ Provision(p) \/ BeginJobs(p) \/ AddJob(p) \/ EndInstantiate(p)
  <2>1. rows' = rows /\ lost' = lost
    BY <1>8 DEF Instantiate, UseKV, Provision, BeginJobs, AddJob, EndInstantiate, provVars
  <2>2. t.step \notin {"state", "seeding"}
    BY <1>8, NextTask DEF Provision, BeginJobs, AddJob, EndInstantiate
  <2>3. ~ Writing(p, b, g)
    BY <2>2 DEF Writing
  <2> QED
    BY SMTT(30), <1>2, <2>1, <2>3 DEF Present
<1>9. CASE StoreRaises(p)
  <2>1. rows' = rows /\ lost' = lost \cup CutShort(p)
    BY <1>9 DEF StoreRaises
  <2>2. q = p /\ Writing(p, b, g) => <<q, b, g>> \in lost'
    BY <2>1, CutShortTyped
  <2> QED
    BY <1>2, <2>1, <2>2 DEF Present
<1> QED
  BY <1>3, <1>4, <1>6, <1>7, <1>8, <1>9 DEF ProvNext


LEMMA SchemaFields ==
  ASSUME NEW a \in Hosted
  PROVE  /\ \A i \in DOMAIN Schema(a) : Schema(a)[i] \in Fields
         /\ DOMAIN Schema(a) = 1..Len(Schema(a)) /\ Len(Schema(a)) \in Nat
<1>1. Schema(a) \in Seq(Fields)
  BY DefinitionTyped
<1> QED
  BY <1>1

LEMMA StoreStep ==
  ASSUME ProcTypeOK, ProvTypeOK, Progress, StoreInv, NEW p \in Procs, ProvNext(p)
  PROVE  StoreInv'
<1> DEFINE t == task[p]
           u == task'[p]
<1>1. \A q \in Procs \ {p} : task'[q] = task[q]
  BY ProvMoves, MovesFacts DEF ProvTasks, Tasks
<1>2. \A q \in Procs : task[q].step \in InInstantiate => task[q].agent \in Hosted
  BY ProvTaskOf DEF InInstantiate
<1>3. \A q \in Procs : \A a \in Hosted :
        /\ dirs \subseteq dirs'
        /\ HasStores(q, a) => HasStores(q, a)'
  BY StoresGrow
<1>4. \A q \in Procs : \A a \in Hosted : \A g \in Fields : Present(q, a, g) => Present(q, a, g)'
  BY FieldsStay
<1>5. \A q \in Procs : \A a \in Hosted : AllPresent(q, a) => AllPresent(q, a)'
  <2> SUFFICES ASSUME NEW q \in Procs, NEW a \in Hosted, AllPresent(q, a)
               PROVE  \A i \in DOMAIN Schema(a) : Present(q, a, Schema(a)[i])'
    BY DEF AllPresent
  <2> QED
    BY <1>4, SchemaFields DEF AllPresent
<1>7. ASSUME NEW q \in Procs, NEW a \in Hosted,
             task[q].step \in {"seed", "seeding"}, CallInv(q, a), task[q].agent = a
      PROVE  \A i \in 1..task[q].done : Present(q, a, Schema(a)[i])'
  <2>1. task[q].done \in Nat /\ task[q].done <= Len(Schema(a))
    BY <1>7, ProvTaskOf, SchemaFields DEF Progress
  <2>2. \A i \in 1..task[q].done : Schema(a)[i] \in Fields /\ Present(q, a, Schema(a)[i])
    BY <1>7, <2>1, SchemaFields DEF CallInv
  <2> QED
    BY <1>4, <2>2
<1>8. ASSUME NEW q \in Procs \ {p}, NEW a \in Hosted, task'[q].agent = a
      PROVE  CallInv(q, a)'
  <2>1. task'[q] = task[q] /\ task[q].agent = a /\ CallInv(q, a)
    BY <1>1, <1>8 DEF StoreInv
  <2>2. task[q].step \in {"seed", "seeding"} =>
          \A i \in 1..task[q].done : Present(q, a, Schema(a)[i])'
    BY <1>7, <2>1
  <2>3. /\ task[q].step \in InInstantiate => a \in dirs'
        /\ task[q].step \in {"seed", "seeding", "jobs"} => HasStores(q, a)'
        /\ task[q].step = "jobs" => AllPresent(q, a)'
    BY <1>3, <1>5, <2>1 DEF CallInv
  <2> QED
    BY <2>1, <2>2, <2>3 DEF CallInv
<1>9. ASSUME NEW a \in Hosted, u.agent = a PROVE CallInv(p, a)'
  <2>1. CASE \E b \in Hosted : Instantiate(p, b)
    <3>1. PICK b \in Hosted : Instantiate(p, b)
      BY <2>1
    <3>2. u.step = "provision" /\ a = b
      BY <1>9, <3>1, NextTask
    <3>3. a \in dirs'
      BY <3>1, <3>2 DEF Instantiate
    <3> QED
      BY <3>2, <3>3 DEF CallInv
  <2>2. CASE \/ \E b \in Hosted : \/ UseKV(p, b)
                                  \/ \E f \in Fields, v \in Values : WriteState(p, b, f, v)
             \/ EndWriteState(p) \/ EndInstantiate(p) \/ StoreRaises(p)
    <3>1. u.step \in {"idle", "state"}
      BY <2>2, NextTask
    <3> QED
      BY <3>1 DEF InInstantiate, CallInv
  <2>3. CASE Provision(p)
    <3>1. t.step = "provision" /\ u.step = "seed" /\ t.agent = a /\ u.done = 0
      BY <1>9, <2>3, NextTask DEF Provision
    <3>2. a \in dirs'
      BY <1>3, <3>1 DEF StoreInv, CallInv, InInstantiate
    <3>3. HasStores(p, a)'
      <4>1. OpenAgent(p, a, MapSize(a)) /\ MapSize(a) \in Nat \ {0}
        BY <2>3, <3>1, DefinitionTyped DEF Provision
      <4>2. env'[p][a] # 0
        BY <4>1 DEF OpenAgent, ProvTypeOK
      <4>3. DefinitionOf[a].memory => a \in tables'
        BY <2>3, <3>1 DEF Provision
      <4> QED
        BY <4>2, <4>3 DEF HasStores
    <3> QED
      BY <3>1, <3>2, <3>3 DEF CallInv
  <2>4. CASE Seed(p)
    <3>1. t.step = "seed" /\ u.step = "seeding" /\ t.agent = a /\ u.done = t.done
      BY <1>9, <2>4, NextTask DEF Seed
    <3>2. CallInv(p, a)
      BY <3>1 DEF StoreInv
    <3>3. \A i \in 1..t.done : Present(p, a, Schema(a)[i])'
      BY <1>7, <3>1, <3>2
    <3>4. a \in dirs' /\ HasStores(p, a)'
      BY <1>3, <3>1, <3>2 DEF CallInv, InInstantiate
    <3> QED
      BY <3>1, <3>3, <3>4 DEF CallInv
  <2>5. CASE EndSeed(p)
    <3>1. /\ t.step = "seeding" /\ t.agent = a /\ t.done \in Nat
          /\ u.step = "seed" /\ u.done = t.done + 1
          /\ CreateRow(p, a, Schema(a)[t.done + 1], NoValue) /\ NoValue \in Values \cup {NoValue}
      BY <1>9, <2>5, NextTask, ProvTaskOf DEF EndSeed
    <3>2. PICK n \in Nat : n = t.done
      BY <3>1
    <3>3. PICK f \in Fields : f = Schema(a)[n + 1]
      BY <3>1, <3>2, FieldOf DEF Progress
    <3>4. CallInv(p, a)
      BY <3>1 DEF StoreInv
    <3>5. rows'[p][a][f] # <<>>
      <4>1. CreateRow(p, a, f, NoValue)
        BY <3>1, <3>2, <3>3
      <4>2. rows'[p][a][f] = Append(rows[p][a][f], NoValue) /\ rows[p][a][f] \in RowSeqs
        BY <3>1, <4>1, CreateTyped, RowsOf
      <4> QED
        BY <3>1, <4>2, AppendNotEmpty
    <3>6. Present(p, a, f)'
      BY <3>5 DEF Present
    <3>7. \A i \in 1..n : Present(p, a, Schema(a)[i])'
      BY <1>7, <3>1, <3>2, <3>4
    <3>8. \A i \in 1..(n + 1) : i \in 1..n \/ i = n + 1
      OBVIOUS
    <3>9. \A i \in 1..u.done : Present(p, a, Schema(a)[i])'
      BY <3>1, <3>2, <3>3, <3>6, <3>7, <3>8
    <3>10. a \in dirs' /\ HasStores(p, a)'
      BY <1>3, <3>1, <3>4 DEF CallInv, InInstantiate
    <3> QED
      BY SMTT(30), <3>1, <3>9, <3>10 DEF CallInv
  <2>6. CASE BeginJobs(p)
    <3>1. t.step = "seed" /\ t.done = Len(Schema(a)) /\ t.agent = a /\ u.step = "jobs"
      BY <1>9, <2>6, NextTask DEF BeginJobs
    <3>2. CallInv(p, a)
      BY <3>1 DEF StoreInv
    <3>3. AllPresent(p, a)
      <4>1. DOMAIN Schema(a) = 1..t.done
        BY <3>1, SchemaFields
      <4>2. \A i \in 1..t.done : Present(p, a, Schema(a)[i])
        BY <3>1, <3>2 DEF CallInv
      <4> QED
        BY <4>1, <4>2 DEF AllPresent
    <3> QED
      BY SMTT(30), <1>3, <1>5, <3>1, <3>2, <3>3 DEF CallInv, InInstantiate
  <2>7. CASE AddJob(p)
    <3>1. t.step = "jobs" /\ t.agent = a /\ u.step = "jobs"
      BY <1>9, <2>7, NextTask DEF AddJob
    <3>2. CallInv(p, a)
      BY <3>1 DEF StoreInv
    <3> QED
      BY SMTT(30), <1>3, <1>5, <3>1, <3>2 DEF CallInv, InInstantiate
  <2> QED
    BY <2>1, <2>2, <2>3, <2>4, <2>5, <2>6, <2>7 DEF ProvNext
<1>10. ASSUME NEW q \in Procs, NEW a \in Hosted, \E j \in Triggers : heap'[q][a][j] # 0
       PROVE  a \in dirs' /\ HasStores(q, a)' /\ AllPresent(q, a)'
  <2>1. CASE \E j \in Triggers : heap[q][a][j] # 0
    BY <1>3, <1>5, <2>1 DEF StoreInv
  <2>2. CASE ~ \E j \in Triggers : heap[q][a][j] # 0
    <3>1. AddJob(p)
      BY <1>10, <2>2 DEF ProvNext, Instantiate, UseKV, WriteState, EndWriteState, Provision,
         Seed, EndSeed, BeginJobs, EndInstantiate, StoreRaises, provVars
    <3>2. q = p /\ a = t.agent
      BY <1>10, <2>2, <3>1 DEF AddJob, ProvTypeOK
    <3>3. u.step = "jobs" /\ u.agent = a
      BY <3>1, <3>2, NextTask
    <3>4. CallInv(p, a)'
      BY <1>9, <3>3
    <3> QED
      BY <3>2, <3>3, <3>4 DEF InInstantiate, CallInv
  <2> QED
    BY <2>1, <2>2
<1>11. \A q \in Procs : \A a \in Hosted : task'[q].agent = a => CallInv(q, a)'
  BY <1>8, <1>9
<1> QED
  BY <1>10, <1>11 DEF StoreInv


\* The schedules of a among the first n that have id t and come before any bad one.
AddedBy(a, t, n) == Added(a, t) \cap (1..n)

LEMMA Times ==
  ASSUME NEW n \in Nat, NEW c \in Nat
  PROVE  0 * c = 0 /\ (n + 1) * c = n * c + c /\ (n # 0 => (n - 1) * c + c = n * c)
BY SMT

LEMMA ScheduleFacts ==
  ASSUME NEW a \in Hosted, NEW t \in Triggers
  PROVE  /\ DOMAIN Schedules(a) = 1..Len(Schedules(a)) /\ Len(Schedules(a)) \in Nat
         /\ Added(a, t) \subseteq 1..Len(Schedules(a))
         /\ IsFiniteSet(Added(a, t)) /\ Cardinality(Added(a, t)) \in Nat
<1> DEFINE S == [id : Triggers, bad : BOOLEAN]
<1>1. Schedules(a) \in Seq(S)
  BY DefinitionTyped
<1> HIDE DEF S
<1>2. DOMAIN Schedules(a) = 1..Len(Schedules(a)) /\ Len(Schedules(a)) \in Nat
  BY <1>1
<1>3. Added(a, t) \subseteq 1..Len(Schedules(a))
  BY <1>2 DEF Added
<1>4. IsFiniteSet(1..Len(Schedules(a)))
  BY <1>2, FS_Interval
<1>5. IsFiniteSet(Added(a, t))
  BY <1>3, <1>4, FS_Subset
<1> QED
  BY <1>2, <1>3, <1>5, FS_CardinalityType

LEMMA AddedByNone ==
  ASSUME NEW a \in Hosted, NEW t \in Triggers PROVE Cardinality(AddedBy(a, t, 0)) = 0
<1>1. AddedBy(a, t, 0) = {}
  BY DEF AddedBy
<1> QED
  BY <1>1, FS_EmptySet

LEMMA AddedByAll ==
  ASSUME NEW a \in Hosted, NEW t \in Triggers, NEW n \in Nat,
         n = Len(Schedules(a)) \/ (n < Len(Schedules(a)) /\ Schedules(a)[n + 1].bad)
  PROVE  AddedBy(a, t, n) = Added(a, t)
<1>1. Added(a, t) \subseteq 1..Len(Schedules(a)) /\ Len(Schedules(a)) \in Nat
  BY ScheduleFacts
<1>2. ASSUME NEW i \in Added(a, t) PROVE i \in 1..n
  <2>1. i \in 1..Len(Schedules(a)) /\ \A j \in 1..i : ~ Schedules(a)[j].bad
    BY <1>1 DEF Added
  <2>2. CASE n = Len(Schedules(a))
    BY <2>1, <2>2
  <2>3. CASE n < Len(Schedules(a)) /\ Schedules(a)[n + 1].bad
    <3>1. n + 1 \notin 1..i
      BY <2>1, <2>3
    <3> QED
      BY <2>1, <3>1
  <2> QED
    BY <2>2, <2>3
<1> QED
  BY <1>2 DEF AddedBy

LEMMA AddedByNext ==
  ASSUME NEW a \in Hosted, NEW t \in Triggers, NEW n \in Nat, n < Len(Schedules(a)),
         \A j \in 1..(n + 1) : ~ Schedules(a)[j].bad
  PROVE  /\ Cardinality(AddedBy(a, t, n)) \in Nat
         /\ Cardinality(AddedBy(a, t, n + 1)) =
              Cardinality(AddedBy(a, t, n)) + (IF Schedules(a)[n + 1].id = t THEN 1 ELSE 0)
<1>1. n + 1 \in DOMAIN Schedules(a)
  BY ScheduleFacts
<1>2. n + 1 \in Added(a, t) <=> Schedules(a)[n + 1].id = t
  BY <1>1 DEF Added
<1>3. IsFiniteSet(AddedBy(a, t, n)) /\ Cardinality(AddedBy(a, t, n)) \in Nat
  <2>1. IsFiniteSet(Added(a, t)) /\ AddedBy(a, t, n) \subseteq Added(a, t)
    BY ScheduleFacts DEF AddedBy
  <2>2. IsFiniteSet(AddedBy(a, t, n))
    BY <2>1, FS_Subset
  <2> QED
    BY <2>2, FS_CardinalityType
<1>4. 1..(n + 1) = (1..n) \cup {n + 1} /\ n + 1 \notin 1..n
  OBVIOUS
<1>5. CASE Schedules(a)[n + 1].id = t
  <2>1. AddedBy(a, t, n + 1) = AddedBy(a, t, n) \cup {n + 1} /\ n + 1 \notin AddedBy(a, t, n)
    BY <1>2, <1>4, <1>5 DEF AddedBy
  <2> QED
    BY <1>3, <1>5, <2>1, FS_AddElement
<1>6. CASE Schedules(a)[n + 1].id # t
  <2>1. AddedBy(a, t, n + 1) = AddedBy(a, t, n)
    BY <1>2, <1>4, <1>6 DEF AddedBy
  <2> QED
    BY <1>3, <1>6, <2>1
<1> QED
  BY <1>5, <1>6

\* What the calls that ended have added, and the one that p is in.
JobsOf(p, a, t) ==
  LET c == Cardinality(Added(a, t)) IN
    /\ ~ AddingJobs(p, a) => heap[p][a][t] = instantiated[p][a] * c
    /\ AddingJobs(p, a) =>
         /\ instantiated[p][a] # 0
         /\ heap[p][a][t] = (instantiated[p][a] - 1) * c + Cardinality(AddedBy(a, t, task[p].done))
         /\ \A j \in 1..task[p].done : ~ Schedules(a)[j].bad

JobInv == \A p \in Procs : \A a \in Hosted : \A t \in Triggers : JobsOf(p, a, t)

LEMMA JobStep ==
  ASSUME ProcTypeOK, ProvTypeOK, Progress, JobInv, NEW p \in Procs, ProvNext(p)
  PROVE  JobInv'
<1> DEFINE k == task[p]
           u == task'[p]
<1>1. \A q \in Procs \ {p} : task'[q] = task[q]
  BY ProvMoves, MovesFacts DEF ProvTasks, Tasks
<1>2. /\ instantiated \in [Procs -> [Hosted -> Nat]]
      /\ heap \in [Procs -> [Hosted -> [Triggers -> Nat]]]
  BY DEF ProvTypeOK
<1> SUFFICES ASSUME NEW q \in Procs, NEW a \in Hosted, NEW t \in Triggers
             PROVE  JobsOf(q, a, t)'
  BY DEF JobInv
<1> DEFINE c == Cardinality(Added(a, t))
<1>3. JobsOf(q, a, t) /\ JobsOf(p, a, t)
  BY DEF JobInv
<1>4. c \in Nat /\ instantiated[p][a] \in Nat /\ heap[p][a][t] \in Nat
  BY <1>2, ScheduleFacts
<1>5. ASSUME heap'[q][a][t] = heap[q][a][t], instantiated'[q][a] = instantiated[q][a],
             \/ q # p
             \/ /\ k.step # "jobs" \/ k.agent # a
                /\ u.step # "jobs" \/ u.agent # a
      PROVE  JobsOf(q, a, t)'
  <2>1. CASE q # p
    BY <1>1, <1>3, <1>5, <2>1 DEF JobsOf, AddingJobs
  <2>2. CASE q = p
    BY <1>3, <1>5, <2>2 DEF JobsOf, AddingJobs
  <2> QED
    BY <2>1, <2>2
<1>6. CASE \/ \E b \in Hosted : \/ Instantiate(p, b) \/ UseKV(p, b)
                              \/ \E f \in Fields, v \in Values : WriteState(p, b, f, v)
           \/ EndWriteState(p) \/ Provision(p) \/ Seed(p) \/ EndSeed(p) \/ StoreRaises(p)
  <2>1. heap' = heap /\ instantiated' = instantiated
    BY <1>6 DEF Instantiate, UseKV, WriteState, EndWriteState, Provision, Seed, EndSeed,
       StoreRaises
  <2>2. k.step # "jobs" /\ u.step # "jobs"
    BY <1>6, NextTask DEF EndWriteState, Provision, Seed, EndSeed
  <2> QED
    BY <1>5, <2>1, <2>2
<1>9. CASE BeginJobs(p)
  <2>1. /\ heap' = heap /\ instantiated' = [instantiated EXCEPT ![p][k.agent] = @ + 1]
        /\ k.step = "seed" /\ k.agent \in Hosted
        /\ u.step = "jobs" /\ u.agent = k.agent /\ u.done = 0
    BY <1>9, NextTask, ProvTaskOf DEF BeginJobs
  <2>2. CASE q # p \/ k.agent # a
    <3>1. instantiated'[q][a] = instantiated[q][a]
      BY <1>2, <2>1, <2>2
    <3> QED
      BY <1>5, <2>1, <2>2, <3>1
  <2>3. CASE q = p /\ k.agent = a
    <3>1. instantiated'[p][a] = instantiated[p][a] + 1
      BY <1>2, <2>1, <2>3
    <3>2. heap'[p][a][t] = instantiated[p][a] * c
      <4>1. ~ AddingJobs(p, a)
        BY <2>1 DEF AddingJobs
      <4>2. heap[p][a][t] = instantiated[p][a] * Cardinality(Added(a, t))
        BY <1>3, <4>1, Zenon DEF JobsOf
      <4> QED
        BY <2>1, <4>2
    <3>3. Cardinality(AddedBy(a, t, 0)) = 0 /\ \A j \in 1..0 : ~ Schedules(a)[j].bad
      BY AddedByNone
    <3> HIDE DEF c
    <3>4. /\ instantiated'[p][a] # 0
          /\ heap'[p][a][t] = (instantiated'[p][a] - 1) * c + Cardinality(AddedBy(a, t, 0))
      <4>1. instantiated'[p][a] - 1 = instantiated[p][a] /\ instantiated'[p][a] # 0
        BY <1>4, <3>1
      <4>2. heap'[p][a][t] = (instantiated'[p][a] - 1) * c
        BY <3>2, <4>1, Zenon
      <4>3. heap'[p][a][t] + 0 = heap'[p][a][t]
        BY <1>4, <2>1
      <4> QED
        BY <3>3, <4>1, <4>2, <4>3, Zenon
    <3> QED
      BY <2>1, <2>3, <3>3, <3>4 DEF JobsOf, AddingJobs, c
  <2> QED
    BY <2>2, <2>3
<1>10. CASE AddJob(p)
  <2> DEFINE s == Schedules(k.agent)[k.done + 1]
  <2>1. /\ k.step = "jobs" /\ k.agent \in Hosted /\ k.done \in Nat
        /\ k.done < Len(Schedules(k.agent)) /\ ~ s.bad
        /\ heap' = [heap EXCEPT ![p][k.agent][s.id] = @ + 1] /\ instantiated' = instantiated
        /\ u.step = "jobs" /\ u.agent = k.agent /\ u.done = k.done + 1
    BY ZenonT(30), <1>10, NextTask, ProvTaskOf DEF AddJob
  <2>2. CASE q # p \/ k.agent # a
    <3>1. heap'[q][a][t] = heap[q][a][t]
      BY SMTT(30), <1>2, <2>1, <2>2
    <3> QED
      BY ZenonT(30), <1>5, <2>1, <2>2, <3>1
  <2>3. CASE q = p /\ k.agent = a
    <3>1. PICK n \in Nat : n = k.done
      BY <2>1
    <3>2. n < Len(Schedules(a)) /\ ~ Schedules(a)[n + 1].bad
      BY <2>1, <2>3, <3>1
    <3>3. /\ instantiated[p][a] # 0 /\ \A j \in 1..n : ~ Schedules(a)[j].bad
          /\ heap[p][a][t] = (instantiated[p][a] - 1) * c + Cardinality(AddedBy(a, t, n))
      BY <1>3, <2>1, <2>3, <3>1 DEF JobsOf, AddingJobs
    <3>4. \A j \in 1..(n + 1) : ~ Schedules(a)[j].bad
      <4>1. \A j \in 1..(n + 1) : j \in 1..n \/ j = n + 1
        OBVIOUS
      <4> QED
        BY <3>2, <3>3, <4>1
    <3>5. /\ Cardinality(AddedBy(a, t, n)) \in Nat
          /\ Cardinality(AddedBy(a, t, n + 1)) =
               Cardinality(AddedBy(a, t, n)) + (IF Schedules(a)[n + 1].id = t THEN 1 ELSE 0)
      BY <3>2, <3>4, AddedByNext
    <3>6. heap'[p][a][t] = heap[p][a][t] + (IF Schedules(a)[n + 1].id = t THEN 1 ELSE 0)
      BY <1>2, <2>1, <2>3, <3>1
    <3>7. heap'[p][a][t] = (instantiated[p][a] - 1) * c + Cardinality(AddedBy(a, t, n + 1))
      <4> DEFINE m == (instantiated[p][a] - 1) * c
      <4>1. m \in Int
        BY <1>4
      <4> HIDE DEF m
      <4>2. heap'[p][a][t] = m + Cardinality(AddedBy(a, t, n + 1))
        BY <1>4, <3>3, <3>5, <3>6, <4>1 DEF m
      <4> QED
        BY <4>2 DEF m
    <3> QED
      BY SMTT(30), <2>1, <2>3, <3>1, <3>3, <3>4, <3>7 DEF JobsOf, AddingJobs
  <2> QED
    BY <2>2, <2>3
<1>11. CASE EndInstantiate(p)
  <2>1. /\ heap' = heap /\ instantiated' = instantiated /\ k.step = "jobs" /\ u.step = "idle"
        /\ k.agent \in Hosted /\ k.done \in Nat /\ k.done <= Len(Schedules(k.agent))
        /\ k.done = Len(Schedules(k.agent)) \/ Schedules(k.agent)[k.done + 1].bad
    BY <1>11, NextTask, ProvTaskOf DEF EndInstantiate, provVars, Progress
  <2>2. CASE q # p \/ k.agent # a
    BY <1>5, <2>1, <2>2
  <2>3. CASE q = p /\ k.agent = a
    <3>1. PICK n \in Nat : n = k.done
      BY <2>1
    <3>2. AddedBy(a, t, k.done) = Added(a, t)
      <4>1. n <= Len(Schedules(a)) /\ Len(Schedules(a)) \in Nat
        BY <2>1, <2>3, <3>1, ScheduleFacts
      <4>2. n = Len(Schedules(a)) \/ Schedules(a)[n + 1].bad
        BY ONLY <2>1, <2>3, <3>1, Zenon
      <4>3. n = Len(Schedules(a)) \/ (n < Len(Schedules(a)) /\ Schedules(a)[n + 1].bad)
        BY <2>1, <2>3, <3>1
      <4>4. AddedBy(a, t, n) = Added(a, t)
        BY <4>3, AddedByAll
      <4> QED
        BY <3>1, <4>4
    <3>3. instantiated[p][a] # 0 /\ heap[p][a][t] = (instantiated[p][a] - 1) * c + c
      BY <1>3, <2>1, <2>3, <3>2 DEF JobsOf, AddingJobs
    <3> HIDE DEF c
    <3>4. heap[p][a][t] = instantiated[p][a] * c
      BY <1>4, <3>3, Times
    <3> QED
      BY <2>1, <2>3, <3>4 DEF JobsOf, AddingJobs, c
  <2> QED
    BY <2>2, <2>3
<1> QED
  BY <1>6, <1>9, <1>10, <1>11 DEF ProvNext

ProvInv == SizeInv /\ StateIsLastWrite /\ StoreInv /\ JobInv

LEMMA ProvInitInv == Init => ProvInv
<1> SUFFICES ASSUME Init PROVE ProvInv
  OBVIOUS
<1>1. \A p \in Procs : task[p].step = "idle"
  BY IdleStep DEF Init, ProcInit
<1>2. /\ \A p \in Procs : \A a \in Hosted : env[p][a] = 0 /\ instantiated[p][a] = 0
      /\ \A p \in Procs : \A a \in Hosted : \A t \in Triggers : heap[p][a][t] = 0
      /\ wrote = rows /\ lost = {}
  BY DEF Init, ProvInit
<1>3. SizeInv
  BY <1>2 DEF SizeInv
<1>4. StateIsLastWrite
  BY <1>1, <1>2 DEF StateIsLastWrite, Writing
<1>5. StoreInv
  BY <1>1, <1>2 DEF StoreInv, CallInv, InInstantiate
<1>6. JobInv
  BY <1>1, <1>2, ScheduleFacts, Times DEF JobInv, JobsOf, AddingJobs
<1> QED
  BY <1>3, <1>4, <1>5, <1>6 DEF ProvInv

\* Calls of the other services, and the start of a process, change nothing here.
LEMMA ProvElsewhere ==
  ASSUME ProvInv, UNCHANGED provVars, NEW p \in Procs,
         \A q \in Procs \ {p} : task'[q] = task[q],
         task[p].step \notin InInstantiate \cup {"state"},
         task'[p].step \notin InInstantiate \cup {"state"}
  PROVE  ProvInv'
<1>1. /\ dirs' = dirs /\ tables' = tables /\ env' = env /\ rows' = rows /\ heap' = heap
      /\ instantiated' = instantiated /\ wrote' = wrote /\ lost' = lost /\ kvFirst' = kvFirst
  BY DEF provVars
<1>2. \A q \in Procs : \A a \in Hosted, f \in Fields : Writing(q, a, f)' <=> Writing(q, a, f)
  BY DEF Writing, InInstantiate
<1>3. SizeInv'
  BY <1>1 DEF ProvInv, SizeInv, InInstantiate
<1>4. StateIsLastWrite'
  BY <1>1, <1>2 DEF ProvInv, StateIsLastWrite
<1>5. \A q \in Procs : \A a \in Hosted : \A f \in Fields :
        Present(q, a, f) => Present(q, a, f)'
  BY <1>1, <1>2 DEF Present
<1>6. ASSUME NEW q \in Procs, NEW a \in Hosted
      PROVE  /\ HasStores(q, a) => HasStores(q, a)'
             /\ AllPresent(q, a) => AllPresent(q, a)'
             /\ task'[q].agent = a => CallInv(q, a)'
  <2>1. HasStores(q, a) => HasStores(q, a)'
    BY <1>1 DEF HasStores
  <2>2. AllPresent(q, a) => AllPresent(q, a)'
    BY <1>5, SchemaFields DEF AllPresent
  <2>3. task'[q].agent = a => CallInv(q, a)'
    <3>1. CASE q = p
      BY <3>1 DEF CallInv, InInstantiate
    <3>2. CASE q # p
      <4>1. \A i : Present(q, a, Schema(a)[i])' <=> Present(q, a, Schema(a)[i])
        BY <1>1, <3>2 DEF Present, Writing
      <4> QED
        BY <1>1, <2>1, <2>2, <3>2, <4>1 DEF ProvInv, StoreInv, CallInv
    <3> QED
      BY <3>1, <3>2
  <2> QED
    BY <2>1, <2>2, <2>3
<1>7. StoreInv'
  BY <1>1, <1>6 DEF ProvInv, StoreInv
<1>8. JobInv'
  <2> SUFFICES ASSUME NEW q \in Procs, NEW a \in Hosted, NEW t \in Triggers
               PROVE  JobsOf(q, a, t)'
    BY DEF JobInv
  <2>1. JobsOf(q, a, t)
    BY DEF ProvInv, JobInv
  <2>2. CASE q = p
    BY <1>1, <2>1, <2>2 DEF JobsOf, AddingJobs, InInstantiate
  <2>3. CASE q # p
    BY <1>1, <2>1, <2>3 DEF JobsOf, AddingJobs
  <2> QED
    BY <2>2, <2>3
<1> QED
  BY <1>3, <1>4, <1>7, <1>8 DEF ProvInv

\* A crash forgets what the process had in memory, and what it was writing is lost.
LEMMA ProvCrashStep ==
  ASSUME TypeOK, Progress, ProvInv, NEW p \in Procs, Crash(p)
  PROVE  ProvInv'
<1>1. task'[p].step = "idle" /\ \A q \in Procs \ {p} : task'[q] = task[q]
  BY CrashTyped, IdleStep
<1>2. /\ dirs' = dirs /\ tables' = tables /\ rows' = rows /\ wrote' = wrote
      /\ lost' = lost \cup CutShort(p)
      /\ kvFirst' = {x \in kvFirst : x[1] # p}
  BY DEF Crash, ProvCrash
<1>3. \A a \in Hosted : /\ env'[p][a] = 0 /\ instantiated'[p][a] = 0
                        /\ \A t \in Triggers : heap'[p][a][t] = 0
  BY TypeParts DEF Crash, ProvCrash, ProvTypeOK
<1>4. \A q \in Procs \ {p} : env'[q] = env[q] /\ heap'[q] = heap[q]
                             /\ instantiated'[q] = instantiated[q]
  BY TypeParts DEF Crash, ProvCrash, ProvTypeOK
<1>5. \A q \in Procs \ {p} : \A a \in Hosted : <<q, a>> \in kvFirst' <=> <<q, a>> \in kvFirst
  BY <1>2
<1>6. SizeInv'
  <2> SUFFICES ASSUME NEW q \in Procs, NEW a \in Hosted
               PROVE  env'[q][a] # 0 => env'[q][a] = MapSize(a) \/ <<q, a>> \in kvFirst'
    BY DEF SizeInv
  <2>1. CASE q = p
    BY <1>3, <2>1
  <2>2. CASE q # p
    BY <1>1, <1>4, <1>5, <2>2 DEF ProvInv, SizeInv
  <2> QED
    BY <2>1, <2>2
<1>7. StateIsLastWrite'
  BY <1>1, <1>2, StateCut DEF ProvInv
<1>8. StoreInv'
  <2> SUFFICES ASSUME NEW q \in Procs, NEW a \in Hosted
               PROVE  /\ task'[q].agent = a => CallInv(q, a)'
                      /\ (\E t \in Triggers : heap'[q][a][t] # 0) =>
                           a \in dirs' /\ HasStores(q, a)' /\ AllPresent(q, a)'
    BY DEF StoreInv
  <2>1. CASE q = p
    BY <1>1, <1>3, <2>1 DEF CallInv, InInstantiate
  <2>2. CASE q # p
    <3>5. \A f : <<q, a, f>> \in lost' <=> <<q, a, f>> \in lost
      BY <1>2, <2>2 DEF CutShort
    <3>1. \A i : Present(q, a, Schema(a)[i])' <=> Present(q, a, Schema(a)[i])
      BY <1>1, <1>2, <2>2, <3>5 DEF Present, Writing
    <3>2. HasStores(q, a)' <=> HasStores(q, a)
      BY <1>2, <1>4, <2>2 DEF HasStores
    <3>3. AllPresent(q, a)' <=> AllPresent(q, a)
      BY <3>1 DEF AllPresent
    <3>4. CallInv(q, a)' <=> CallInv(q, a)
      BY <1>1, <1>2, <1>4, <2>2, <3>1, <3>2, <3>3 DEF CallInv
    <3> QED
      BY <1>1, <1>2, <1>4, <2>2, <3>2, <3>3, <3>4 DEF ProvInv, StoreInv
  <2> QED
    BY <2>1, <2>2
<1>9. JobInv'
  <2> SUFFICES ASSUME NEW q \in Procs, NEW a \in Hosted, NEW t \in Triggers
               PROVE  JobsOf(q, a, t)'
    BY DEF JobInv
  <2>1. CASE q = p
    BY <1>1, <1>3, <2>1, ScheduleFacts, Times DEF JobsOf, AddingJobs
  <2>2. CASE q # p
    BY <1>1, <1>4, <2>2 DEF JobsOf, AddingJobs, ProvInv, JobInv
  <2> QED
    BY <2>1, <2>2
<1> QED
  BY <1>6, <1>7, <1>8, <1>9 DEF ProvInv

LEMMA ProvInvStep ==
  ASSUME TypeOK, Progress, ProvInv, [Next]_vars PROVE ProvInv'
<1>1. CASE UNCHANGED vars
  <2>1. UNCHANGED <<task, provVars>>
    BY <1>1 DEF vars, procVars
  <2> QED
    BY <2>1 DEF provVars, ProvInv, SizeInv, StateIsLastWrite, Writing, StoreInv, CallInv,
       HasStores, AllPresent, Present, JobInv, JobsOf, AddingJobs
<1>2. ASSUME NEW p \in Procs, Start(p) PROVE ProvInv'
  <2>1. task' = task /\ UNCHANGED provVars /\ task[p].step = "idle"
    BY <1>2, IdleStep DEF Start, StartProc, TypeOK
  <2> QED
    BY <2>1, ProvElsewhere DEF InInstantiate
<1>3. ASSUME NEW p \in Procs, SystemNext(p), UNCHANGED <<vaultVars, provVars>> PROVE ProvInv'
  <2>1. /\ task[p] \in SystemTasks /\ task'[p] \in SystemTasks
        /\ \A q \in Procs \ {p} : task'[q] = task[q]
    BY <1>3, TypeParts, SystemMoves, MovesFacts DEF SystemTasks, Tasks
  <2> QED
    BY <1>3, <2>1, SystemTaskFields, ProvElsewhere DEF InInstantiate
<1>4. ASSUME NEW p \in Procs, VaultNext(p), UNCHANGED <<systemVars, provVars>> PROVE ProvInv'
  <2>1. /\ task[p] \in VaultTasks /\ task'[p] \in VaultTasks
        /\ \A q \in Procs \ {p} : task'[q] = task[q]
    BY <1>4, TypeParts, VaultMoves, MovesFacts DEF VaultTasks, Tasks
  <2> QED
    BY <1>4, <2>1, VaultTaskFields, ProvElsewhere DEF InInstantiate
<1>5. ASSUME NEW p \in Procs, ProvNext(p), UNCHANGED <<systemVars, vaultVars>> PROVE ProvInv'
  BY <1>5, TypeParts, SizeStep, StateStep, StoreStep, JobStep DEF ProvInv
<1> QED
  BY <1>1, <1>2, <1>3, <1>4, <1>5, ProvCrashStep DEF Next

LEMMA ProvInvariant == Spec => [](TypeOK /\ ProvInv)
BY InitTyped, StepTyped, ProvInitInv, ProvInvStep, PTL DEF Spec

\* An environment has the size the agent's memory asks for, unless the store was
\* used before the agent was instantiated.
THEOREM SizeAsAskedHolds == Spec => []SizeAsAsked
<1>1. ProvInv => SizeAsAsked
  BY DEF ProvInv, SizeInv, SizeAsAsked
<1> QED
  BY <1>1, ProvInvariant, PTL

\* What is read from a structured state is what was written last, but for the
\* fields whose write was cut short, by a crash or by a store that raised: those
\* are empty, and the value before is gone.
THEOREM StateIsLastWriteHolds == Spec => []StateIsLastWrite
BY ProvInvariant, PTL DEF ProvInv

\* No job of an agent is scheduled before its stores are there.
THEOREM JobsHaveStoresHolds == Spec => []JobsHaveStores
<1>1. TypeOK /\ ProvInv => JobsHaveStores
  <2> SUFFICES ASSUME TypeOK, ProvInv, NEW p \in Procs, NEW a \in Hosted,
                      \E t \in Triggers : heap[p][a][t] > 0
               PROVE  /\ a \in dirs /\ env[p][a] # 0
                      /\ DefinitionOf[a].memory => a \in tables
                      /\ \A i \in DOMAIN Schema(a) :
                           \/ rows[p][a][Schema(a)[i]] # <<>> \/ Writing(p, a, Schema(a)[i])
                           \/ <<p, a, Schema(a)[i]>> \in lost
    BY DEF JobsHaveStores
  <2>1. \E t \in Triggers : heap[p][a][t] # 0
    OBVIOUS
  <2> QED
    BY <2>1 DEF ProvInv, StoreInv, HasStores, AllPresent, Present
<1> QED
  BY <1>1, ProvInvariant, PTL

\* Every call of instantiate that comes as far as the jobs adds those of the
\* schedules before the first bad one, and a call that a store stopped adds none.
THEOREM JobsPerCallHolds == Spec => []JobsPerCall
<1>1. ProvInv => JobsPerCall
  BY DEF ProvInv, JobInv, JobsOf, JobsPerCall
<1> QED
  BY <1>1, ProvInvariant, PTL

\* What instantiate schedules: as many entries as its calls make, and none before
\* its stores are there.
THEOREM JobsAsProvisionedHolds == Spec => []JobsAsProvisioned
BY JobsPerCallHolds, JobsHaveStoresHolds, PTL DEF JobsAsProvisioned

=============================================================================
