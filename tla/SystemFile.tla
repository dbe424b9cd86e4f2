----------------------------- MODULE SystemFile -----------------------------
(***************************************************************************)
(* system.db: the agents table of the instance registry and the runs table *)
(* of SystemDB, in one SQLite file (system_db.py:8-10), and the connection *)
(* a process has for each.                                                 *)
(*                                                                         *)
(* SQLite is external.  The services open it with its defaults, so Python  *)
(* begins a transaction before a statement that writes and the code ends   *)
(* it with commit; nothing in the code rolls back.  The journal is the     *)
(* rollback journal: one connection at a time may write, it commits only   *)
(* when no other reads, and a commit that fails keeps new readers out.  A  *)
(* statement that meets a lock waits, and raises after five seconds.       *)
(***************************************************************************)
EXTENDS Processes

CONSTANTS Runs,     \* ids of runs
          Statuses  \* what update_status is called with: it takes any

\* "none" says that there is no row.
ASSUME SystemFileAssumption == "none" \notin Statuses

\* A row of agents: its status column, and the status in its JSON.
Row    == [column : Statuses \cup {"validated", "active"},
           json   : Statuses \cup {"validated", "active"}]
NoRow  == [column |-> "none", json |-> "none"]
Content == [agents : [Agents -> Row \cup {NoRow}],
            runs   : [Runs -> {"none", "running", "ended"}]]

Registry(p) == <<p, "registry">>
System(p)   == <<p, "system">>
ConnsOf(p)  == {Registry(p), System(p)}
Conns       == Procs \X {"registry", "system"}
None        == <<>>

VARIABLES
  db,       \* what is committed
  writer,   \* the connection that may write, if any
  pending,  \* db with what the writer has not committed
  readers,  \* other connections whose transaction has read
  barred,   \* the writer's commit failed: it keeps new readers out
  open,     \* connections with a transaction
  raised,   \* connections whose last call that writes raised (history)
  cut,      \* agents whose registration stopped after its INSERT (history)
  asked     \* agents, and what callers of update_status set them to (history)

fileVars == <<db, writer, pending, readers, barred, open>>
systemVars == <<fileVars, raised, cut, asked>>

\* The steps left of a call: to commit, or those of update_status.
SystemTask ==
  [step : {"create", "get"}, agent : Agents]
    \cup [step : {"update", "updated"}, agent : Agents, status : Statuses,
          registering : {FALSE}]
    \cup [step : {"update", "updated"}, agent : Agents, status : {"active"},
          registering : {TRUE}]
    \cup [step : {"run"}, run : Runs]

SystemTypeOK ==
  /\ db \in Content /\ pending \in Content
  /\ writer \in Conns \cup {None}
  /\ readers \subseteq open /\ open \subseteq Conns
  /\ barred \in BOOLEAN
  /\ raised \subseteq Conns
  /\ cut \subseteq Agents /\ asked \subseteq Agents \X Statuses

SystemInit ==
  /\ db = [agents |-> [a \in Agents |-> NoRow], runs |-> [r \in Runs |-> "none"]]
  /\ pending = db
  /\ writer = None /\ readers = {} /\ open = {} /\ barred = FALSE
  /\ raised = {} /\ cut = {} /\ asked = {}
-----------------------------------------------------------------------------
(* SQLite (external) *)

Seen(c)     == IF writer = c THEN pending ELSE db
CanRead(c)  == writer = c \/ c \in readers \/ ~ barred
CanWrite(c) == writer \in {None, c}

\* A SELECT.  Outside a transaction it leaves no lock.
Select(c) ==
  /\ CanRead(c)
  /\ readers' = IF c \in open /\ writer # c THEN readers \cup {c} ELSE readers
  /\ UNCHANGED <<db, writer, pending, barred, open>>

\* An INSERT or UPDATE, which Python begins a transaction for.
Write(c, content) ==
  /\ CanWrite(c)
  /\ writer' = c /\ pending' = content
  /\ open' = open \cup {c} /\ readers' = readers \ {c}
  /\ UNCHANGED <<db, barred>>

\* The same, which has waited for a lock in vain.
WriteLocked(c) ==
  /\ ~ CanWrite(c)
  /\ open' = open \cup {c}
  /\ UNCHANGED <<db, writer, pending, readers, barred>>

Commit(c) ==
  /\ writer = c /\ readers = {}
  /\ db' = pending
  /\ writer' = None /\ barred' = FALSE /\ open' = open \ {c}
  /\ UNCHANGED <<pending, readers>>

CommitLocked(c) ==
  /\ writer = c /\ readers # {}
  /\ barred' = TRUE
  /\ UNCHANGED <<db, writer, pending, readers, open>>

\* Connections that are closed: a transaction of theirs is rolled back.
Closed(cs) ==
  /\ writer' = IF writer \in cs THEN None ELSE writer
  /\ pending' = IF writer \in cs THEN db ELSE pending
  /\ barred' = (barred /\ writer \notin cs)
  /\ readers' = readers \ cs /\ open' = open \ cs
  /\ UNCHANGED db

Raise(c)   == raised' = raised \cup {c}
Succeed(c) == raised' = raised \ {c}
-----------------------------------------------------------------------------
(* InstanceRegistry and orchestrator.register *)

WithRow(content, a, status) ==
  [content EXCEPT !.agents[a] = [column |-> status, json |-> status]]

M_Create(p, a) ==                   \* replaces a row
  LET c == Registry(p) IN
    /\ Call(p, [step |-> "create", agent |-> a])
    /\ Write(c, WithRow(Seen(c), a, "validated"))
    /\ UNCHANGED <<raised, cut, asked>>

M_CreateDraft(p, a) ==              \* the status compose starts with
  LET c == Registry(p) IN
    /\ Seen(c).agents[a] = NoRow
    /\ Call(p, [step |-> "create", agent |-> a])
    /\ Write(c, WithRow(Seen(c), a, "draft"))
    /\ UNCHANGED <<raised, cut, asked>>

\* create, up to its INSERT; register passes a validated definition.
Create(p, a) ==
  LET c == Registry(p) IN
    /\ Seen(c).agents[a] = NoRow
    /\ Call(p, [step |-> "create", agent |-> a])
    /\ Write(c, WithRow(Seen(c), a, "validated"))
    /\ UNCHANGED <<raised, cut, asked>>

\* IntegrityError becomes ValueError, and the transaction stays open.
CreateRefused(p, a) ==
  LET c == Registry(p) IN
    /\ Seen(c).agents[a] # NoRow
    /\ Call(p, Idle)
    /\ Write(c, Seen(c))
    /\ Raise(c)
    /\ UNCHANGED <<cut, asked>>

CreateLocked(p) ==
  /\ Call(p, Idle)
  /\ WriteLocked(Registry(p))
  /\ Raise(Registry(p))
  /\ UNCHANGED <<cut, asked>>

\* The commit of create; register goes on with update_status.
EndCreate(p) ==
  LET c == Registry(p) IN
    /\ task[p].step = "create"
    /\ \/ /\ Commit(c) /\ Succeed(c)
          /\ Continue(p, [step |-> "get", agent |-> task[p].agent])
          /\ UNCHANGED cut
       \/ /\ CommitLocked(c) /\ Raise(c)
          /\ Continue(p, Idle)
          /\ cut' = cut \cup {task[p].agent}
    /\ UNCHANGED asked

\* update_status reads the definition; it raises KeyError if there is none.
UpdateStatus(p, a, status) ==
  /\ Select(Registry(p))
  /\ Call(p, IF Seen(Registry(p)).agents[a] = NoRow THEN Idle
             ELSE [step |-> "update", agent |-> a, status |-> status,
                   registering |-> FALSE])
  /\ UNCHANGED <<raised, cut, asked>>

\* The same, called by register.
Activate(p) ==
  LET c == Registry(p) IN
    /\ task[p].step = "get"
    /\ \/ /\ Select(c)
          /\ Continue(p, [step |-> "update", agent |-> task[p].agent,
                          status |-> "active", registering |-> TRUE])
          /\ UNCHANGED cut
       \/ /\ ~ CanRead(c)
          /\ Continue(p, Idle)
          /\ cut' = cut \cup {task[p].agent}
          /\ UNCHANGED fileVars
    /\ UNCHANGED <<raised, asked>>

CutBy(t) == IF t.step \in {"update", "updated"} /\ t.registering THEN {t.agent} ELSE {}

M_Updated(content, a, status) ==    \* the column only
  [content EXCEPT !.agents[a].column = status]

\* One UPDATE sets the column and the JSON.
Updated(content, a, status) == WithRow(content, a, status)

Update(p) ==
  LET c == Registry(p)
      t == task[p]
  IN  /\ t.step = "update"
      /\ \/ /\ Write(c, Updated(Seen(c), t.agent, t.status))
            /\ Continue(p, [t EXCEPT !.step = "updated"])
            /\ asked' = asked \cup (IF t.registering THEN {} ELSE {<<t.agent, t.status>>})
            /\ UNCHANGED <<raised, cut>>
         \/ /\ WriteLocked(c) /\ Raise(c)
            /\ Continue(p, Idle)
            /\ cut' = cut \cup CutBy(t)
            /\ UNCHANGED asked

EndUpdate(p) ==
  LET c == Registry(p) IN
    /\ task[p].step = "updated"
    /\ Continue(p, Idle)
    /\ \/ Commit(c) /\ Succeed(c) /\ UNCHANGED cut
       \/ CommitLocked(c) /\ Raise(c) /\ cut' = cut \cup CutBy(task[p])
    /\ UNCHANGED asked
-----------------------------------------------------------------------------
(* SystemDB.  A run stands for every row it writes; its id is new. *)

M_StartRun(p, r) ==                 \* forgets to commit
  /\ db.runs[r] = "none" /\ pending.runs[r] = "none"
  /\ Call(p, Idle)
  /\ Write(System(p), [Seen(System(p)) EXCEPT !.runs[r] = "running"])
  /\ UNCHANGED <<raised, cut, asked>>

StartRun(p, r) ==
  /\ db.runs[r] = "none" /\ pending.runs[r] = "none"
  /\ Call(p, [step |-> "run", run |-> r])
  /\ Write(System(p), [Seen(System(p)) EXCEPT !.runs[r] = "running"])
  /\ UNCHANGED <<raised, cut, asked>>

\* end_run raises KeyError for an unknown run, in an open transaction too.
EndRun(p, r) ==
  LET c == System(p) IN
    /\ \/ /\ Seen(c).runs[r] # "none"
          /\ Call(p, [step |-> "run", run |-> r])
          /\ Write(c, [Seen(c) EXCEPT !.runs[r] = "ended"])
          /\ UNCHANGED raised
       \/ /\ Seen(c).runs[r] = "none"
          /\ Call(p, Idle)
          /\ Write(c, Seen(c))
          /\ Raise(c)
    /\ UNCHANGED <<cut, asked>>

RunLocked(p) ==
  /\ Call(p, Idle)
  /\ WriteLocked(System(p))
  /\ Raise(System(p))
  /\ UNCHANGED <<cut, asked>>

CommitRun(p) ==
  LET c == System(p) IN
    /\ task[p].step = "run"
    /\ Continue(p, Idle)
    /\ \/ Commit(c) /\ Succeed(c)
       \/ CommitLocked(c) /\ Raise(c)
    /\ UNCHANGED <<cut, asked>>
-----------------------------------------------------------------------------
\* get, list, get_run, list_runs, run_cost: only one in a transaction that an
\* earlier call left open has an effect.
Read(p) ==
  /\ \E c \in ConnsOf(p) : c \in open \ (readers \cup {writer}) /\ Select(c)
  /\ Call(p, Idle)
  /\ UNCHANGED <<raised, cut, asked>>

SystemNext(p) ==
  \/ \E a \in Agents : \/ Create(p, a) \/ CreateRefused(p, a)
                       \/ \E status \in Statuses : UpdateStatus(p, a, status)
  \/ CreateLocked(p) \/ EndCreate(p) \/ Activate(p) \/ Update(p) \/ EndUpdate(p)
  \/ \E r \in Runs : StartRun(p, r) \/ EndRun(p, r)
  \/ RunLocked(p) \/ CommitRun(p)
  \/ Read(p)

\* Opening reads the schema, and waits for a writer that keeps readers out.
SystemStart(p) == ~ barred /\ UNCHANGED systemVars

SystemCrash(p) ==
  /\ Closed(ConnsOf(p))
  /\ raised' = raised \ ConnsOf(p)
  /\ cut' = cut \cup CutBy(task[p])
              \cup IF task[p].step = "get" THEN {task[p].agent} ELSE {}
  /\ UNCHANGED asked
-----------------------------------------------------------------------------
(* Properties *)

\* The connection whose call p is in, to which the lock may still belong.
InCall(c) == \/ c[2] = "registry" /\ task[c[1]].step \in {"create", "updated"}
             \/ c[2] = "system"   /\ task[c[1]].step = "run"

\* A connection is left with a transaction, and with a lock the other processes
\* wait for in vain, only by a call that raised (instance_registry.py:76 and
\* system_db.py:108 raise without a rollback, and a statement that waited too
\* long leaves its transaction open).
LocksOfTheRaised ==
  /\ \A c \in open : InCall(c) \/ c \in raised
  /\ writer # None => writer \in open

\* The status column and the status in the JSON never diverge, as update_status
\* promises, though it reads the JSON in one statement and writes it in another.
ColumnAgrees == \A content \in {db, pending} : \A a \in Agents :
                  content.agents[a].column = content.agents[a].json

\* The status of an agent is "active", or one that a caller of update_status set.
\* It stays the "validated" of its INSERT, to be refused when it is registered
\* again, only if its registration is under way, crashed or met a lock
\* (orchestrator.py:72).
RegisteredIsActive ==
  \A a \in Agents : LET status == db.agents[a].column IN
    \/ status \in {"none", "active"} \/ <<a, status>> \in asked
    \/ /\ status = "validated"
       /\ \/ a \in cut
          \/ \E p \in Procs : \/ task[p].step = "get" /\ task[p].agent = a
                              \/ task[p].step \in {"update", "updated"} /\ a \in CutBy(task[p])

\* At most one process is past the INSERT of an agent.
OneRegistrar ==
  \A p, q \in Procs : \A a \in Agents :
    /\ task[p] \in [step : {"create", "get"}, agent : {a}] \/ a \in CutBy(task[p])
    /\ task[q] \in [step : {"create", "get"}, agent : {a}] \/ a \in CutBy(task[q])
    => p = q

\* What register promises the rest of the installation: an agent has one
\* registrar at a time, which leaves it active or is cut short.
RegistersOnce == RegisteredIsActive /\ OneRegistrar

\* What a call changes in a content.
Own(t, old, new) ==
  /\ \A a \in Agents : old.agents[a] # new.agents[a] =>
       t.step \in {"create", "updated"} /\ t.agent = a
  /\ \A r \in Runs : old.runs[r] # new.runs[r] => t.step = "run" /\ t.run = r

\* A commit makes permanent what its call changed and nothing else, unless an
\* earlier call on that connection raised: what that call left in the transaction
\* is then committed after all, though its caller was told it failed.
CommitsOwnChange ==
  [][ db' # db => \/ writer \in raised
                  \/ Own(task[writer[1]], db, db') ]_<<systemVars, procVars>>
=============================================================================
