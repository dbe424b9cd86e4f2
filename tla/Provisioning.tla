---------------------------- MODULE Provisioning ----------------------------
(***************************************************************************)
(* AgentRuntime.instantiate (agentwright/runtime/runtime.py) and what it   *)
(* calls in the stores: directories, key-value environments, document      *)
(* tables, the structured state and the jobs of schedule triggers.  Each   *)
(* process has a universal store of its own, on disk; environments and     *)
(* jobs are in its memory.                                                 *)
(***************************************************************************)
EXTENDS Processes

CONSTANTS
  Hosted,          \* agents that are instantiated and used, of those registered
  DefinitionOf,    \* DefinitionOf[a]: what instantiate looks at
  Fields,          \* names in the schemas of structured states
  Triggers,        \* ids of triggers
  Values,          \* what agents write to their state
  DefaultMapSize   \* KVStore's default, and instantiate's without memory

NoValue == "None"

\* map_size and state_schema are those of the memory primitive, if there is one;
\* a schedule is bad if its cron expression does not parse.
AgentDefinition ==
  [vm : BOOLEAN, memory : BOOLEAN, map_size : Nat \ {0}, state_schema : Seq(Fields),
   schedules : Seq([id : Triggers, bad : BOOLEAN])]

ASSUME ProvisioningAssumption == /\ Hosted \subseteq Agents
                                 /\ DefinitionOf \in [Hosted -> AgentDefinition]
                                 /\ NoValue \notin Values
                                 /\ DefaultMapSize \in Nat \ {0}

VARIABLES
  dirs,          \* agents that have directories in the file store
  tables,        \* agents that have document tables
  env,           \* env[p][a]: map size of the environment p has open, 0 if none
  rows,          \* rows[p][a][f]: the rows of field f in p's universal store
  heap,          \* heap[p][a][t]: entries of job "a:t" in p's scheduler
  instantiated,  \* instantiated[p][a]: calls of instantiate by p that came as far
                 \* as the jobs (history)
  wrote,         \* the last value written, by a call that returned (history)
  lost,          \* fields whose last write was cut short (history)
  kvFirst        \* agents whose environment a use of the store opened (history)

provVars == <<dirs, tables, env, rows, heap, instantiated, wrote, lost, kvFirst>>

\* provision: directories are made; seed: i fields are; seeding: the rows of one
\* more are deleted; jobs: i jobs are added; state: the agent's own write, of
\* which the old rows are deleted.
ProvTask ==
  [step : {"provision"}, agent : Hosted]
    \cup [step : {"seed", "seeding", "jobs"}, agent : Hosted, done : Nat]
    \cup [step : {"state"}, agent : Hosted, field : Fields, value : Values]

ProvTypeOK ==
  /\ dirs \subseteq Hosted /\ tables \subseteq Hosted
  /\ env \in [Procs -> [Hosted -> Nat]]
  /\ rows \in [Procs -> [Hosted -> [Fields -> Seq(Values \cup {NoValue})]]]
  /\ heap \in [Procs -> [Hosted -> [Triggers -> Nat]]]
  /\ instantiated \in [Procs -> [Hosted -> Nat]]
  /\ wrote \in [Procs -> [Hosted -> [Fields -> Seq(Values \cup {NoValue})]]]
  /\ lost \subseteq Procs \X Hosted \X Fields
  /\ kvFirst \subseteq Procs \X Hosted

ProvInit ==
  /\ dirs = {} /\ tables = {} /\ lost = {} /\ kvFirst = {}
  /\ env = [p \in Procs |-> [a \in Hosted |-> 0]]
  /\ rows = [p \in Procs |-> [a \in Hosted |-> [f \in Fields |-> <<>>]]]
  /\ wrote = rows
  /\ heap = [p \in Procs |-> [a \in Hosted |-> [t \in Triggers |-> 0]]]
  /\ instantiated = [p \in Procs |-> [a \in Hosted |-> 0]]

MapSize(a) == IF DefinitionOf[a].memory THEN DefinitionOf[a].map_size ELSE DefaultMapSize
Schema(a)  == IF DefinitionOf[a].memory THEN DefinitionOf[a].state_schema ELSE <<>>
Schedules(a) == DefinitionOf[a].schedules
-----------------------------------------------------------------------------
(* KVStore and the universal store *)

\* open_agent: an environment that is open stays as it is.
OpenAgent(p, a, size) == env' = IF env[p][a] # 0 THEN env ELSE [env EXCEPT ![p][a] = size]

\* put, get and the like open the environment with the default size.
UseKV(p, a) ==
  /\ Call(p, Idle)
  /\ env[p][a] = 0
  /\ OpenAgent(p, a, DefaultMapSize)
  /\ kvFirst' = kvFirst \cup {<<p, a>>}
  /\ UNCHANGED <<dirs, tables, rows, heap, instantiated, wrote, lost>>

M_DeleteRows(p, a, f) == UNCHANGED rows     \* keeps them

\* write_state deletes the rows of the field and then creates one.
DeleteRows(p, a, f) == rows' = [rows EXCEPT ![p][a][f] = <<>>]

CreateRow(p, a, f, v) ==
  /\ rows' = [rows EXCEPT ![p][a][f] = Append(@, v)]
  /\ wrote' = [wrote EXCEPT ![p][a][f] = <<v>>]
  /\ lost' = lost \ {<<p, a, f>>}

\* The agent writes a field of its state.
WriteState(p, a, f, v) ==
  /\ Call(p, [step |-> "state", agent |-> a, field |-> f, value |-> v])
  /\ DeleteRows(p, a, f)
  /\ UNCHANGED <<dirs, tables, env, heap, instantiated, wrote, lost, kvFirst>>

EndWriteState(p) ==
  /\ task[p].step = "state"
  /\ CreateRow(p, task[p].agent, task[p].field, task[p].value)
  /\ Continue(p, Idle)
  /\ UNCHANGED <<dirs, tables, env, heap, instantiated, kvFirst>>
-----------------------------------------------------------------------------
(* instantiate *)

\* The directories; a definition that asks for a vm is refused before.
Instantiate(p, a) ==
  /\ ~ DefinitionOf[a].vm
  /\ Call(p, [step |-> "provision", agent |-> a])
  /\ dirs' = dirs \cup {a}
  /\ UNCHANGED <<tables, env, rows, heap, instantiated, wrote, lost, kvFirst>>

M_Provision(p) ==                   \* the default size for all
  LET a == task[p].agent IN
    /\ task[p].step = "provision"
    /\ OpenAgent(p, a, DefaultMapSize)
    /\ tables' = IF DefinitionOf[a].memory THEN tables \cup {a} ELSE tables
    /\ Continue(p, [step |-> "seed", agent |-> a, done |-> 0])
    /\ UNCHANGED <<dirs, rows, heap, instantiated, wrote, lost, kvFirst>>

\* The environment, and the document tables.
Provision(p) ==
  LET a == task[p].agent IN
    /\ task[p].step = "provision"
    /\ OpenAgent(p, a, MapSize(a))
    /\ tables' = IF DefinitionOf[a].memory THEN tables \cup {a} ELSE tables
    /\ Continue(p, [step |-> "seed", agent |-> a, done |-> 0])
    /\ UNCHANGED <<dirs, rows, heap, instantiated, wrote, lost, kvFirst>>

\* Each field of the structured state is set to None, whatever it was.
Seed(p) ==
  LET t == task[p] IN
    /\ t.step = "seed" /\ t.done < Len(Schema(t.agent))
    /\ DeleteRows(p, t.agent, Schema(t.agent)[t.done + 1])
    /\ Continue(p, [t EXCEPT !.step = "seeding"])
    /\ UNCHANGED <<dirs, tables, env, heap, instantiated, wrote, lost, kvFirst>>

EndSeed(p) ==
  LET t == task[p] IN
    /\ t.step = "seeding"
    /\ CreateRow(p, t.agent, Schema(t.agent)[t.done + 1], NoValue)
    /\ Continue(p, [t EXCEPT !.step = "seed", !.done = @ + 1])
    /\ UNCHANGED <<dirs, tables, env, heap, instantiated, kvFirst>>

BeginJobs(p) ==
  /\ task[p].step = "seed" /\ task[p].done = Len(Schema(task[p].agent))
  /\ Continue(p, [task[p] EXCEPT !.step = "jobs", !.done = 0])
  /\ instantiated' = [instantiated EXCEPT ![p][task[p].agent] = @ + 1]
  /\ UNCHANGED <<dirs, tables, env, rows, heap, wrote, lost, kvFirst>>

M_AddJob(p) ==                      \* replaces the job's entry
  LET t == task[p]
      s == Schedules(t.agent)[t.done + 1]
  IN  /\ t.step = "jobs" /\ t.done < Len(Schedules(t.agent)) /\ ~ s.bad
      /\ heap' = [heap EXCEPT ![p][t.agent][s.id] = 1]
      /\ Continue(p, [t EXCEPT !.done = @ + 1])
      /\ UNCHANGED <<dirs, tables, env, rows, instantiated, wrote, lost, kvFirst>>

\* add_cron pushes an entry whether or not the job has one.
AddJob(p) ==
  LET t == task[p]
      s == Schedules(t.agent)[t.done + 1]
  IN  /\ t.step = "jobs" /\ t.done < Len(Schedules(t.agent)) /\ ~ s.bad
      /\ heap' = [heap EXCEPT ![p][t.agent][s.id] = @ + 1]
      /\ Continue(p, [t EXCEPT !.done = @ + 1])
      /\ UNCHANGED <<dirs, tables, env, rows, instantiated, wrote, lost, kvFirst>>

\* instantiate returns, or raises at a cron expression that does not parse.
EndInstantiate(p) ==
  LET t == task[p] IN
    /\ t.step = "jobs"
    /\ t.done = Len(Schedules(t.agent)) \/ Schedules(t.agent)[t.done + 1].bad
    /\ Continue(p, Idle)
    /\ UNCHANGED provVars

\* The field whose rows p has deleted and not yet created.
Writing(p, a, f) ==
  \/ /\ task[p].step = "state" /\ task[p].agent = a /\ task[p].field = f
  \/ /\ task[p].step = "seeding" /\ task[p].agent = a
     /\ Schema(a)[task[p].done + 1] = f

\* What a write of p leaves behind if it ends here.
CutShort(p) == {x \in {p} \X Hosted \X Fields : Writing(x[1], x[2], x[3])}

\* A store raises (the environment or the tables cannot be opened, the old rows not
\* deleted, or the new row not created), and nothing catches it.
StoreRaises(p) ==
  LET t == task[p] IN
    /\ t.step \in {"provision", "seed", "seeding", "state"}
    /\ t.step = "seed" => t.done < Len(Schema(t.agent))
    /\ \/ UNCHANGED env
       \/ t.step = "provision" /\ OpenAgent(p, t.agent, MapSize(t.agent))
    /\ lost' = lost \cup CutShort(p)
    /\ Continue(p, Idle)
    /\ UNCHANGED <<dirs, tables, rows, heap, instantiated, wrote, kvFirst>>

ProvNext(p) ==
  \/ \E a \in Hosted : \/ Instantiate(p, a) \/ UseKV(p, a)
                       \/ \E f \in Fields, v \in Values : WriteState(p, a, f, v)
  \/ EndWriteState(p) \/ Provision(p) \/ Seed(p) \/ EndSeed(p)
  \/ BeginJobs(p) \/ AddJob(p) \/ EndInstantiate(p) \/ StoreRaises(p)

ProvCrash(p) ==
  /\ env' = [env EXCEPT ![p] = [a \in Hosted |-> 0]]
  /\ heap' = [heap EXCEPT ![p] = [a \in Hosted |-> [t \in Triggers |-> 0]]]
  /\ instantiated' = [instantiated EXCEPT ![p] = [a \in Hosted |-> 0]]
  /\ lost' = lost \cup CutShort(p)
  /\ kvFirst' = {x \in kvFirst : x[1] # p}
  /\ UNCHANGED <<dirs, tables, rows, wrote>>
-----------------------------------------------------------------------------
(* Properties *)

\* read_state gives what was written last, and never one of two rows.  It gives
\* nothing only between the delete and the create of a write, or when the last
\* write was cut short there, by a crash or by a create that raised: the value it
\* was to replace is gone.  What was written last may be the None of a second
\* instantiate.
StateIsLastWrite ==
  \A p \in Procs, a \in Hosted, f \in Fields :
    IF Writing(p, a, f) \/ <<p, a, f>> \in lost
    THEN rows[p][a][f] = <<>> ELSE rows[p][a][f] = wrote[p][a][f]

\* A job can fire only when everything its agent needs is there, but for a field
\* that is being written or was lost in a write.
JobsHaveStores ==
  \A p \in Procs, a \in Hosted : (\E t \in Triggers : heap[p][a][t] > 0) =>
    /\ a \in dirs /\ env[p][a] # 0
    /\ DefinitionOf[a].memory => a \in tables
    /\ \A i \in DOMAIN Schema(a) : LET f == Schema(a)[i] IN
         rows[p][a][f] # <<>> \/ Writing(p, a, f) \/ <<p, a, f>> \in lost

\* The schedules of a, up to the first bad one, that have id t.
Added(a, t) == {i \in DOMAIN Schedules(a) :
                  Schedules(a)[i].id = t /\ \A j \in 1..i : ~ Schedules(a)[j].bad}

AddingJobs(p, a) == task[p].step = "jobs" /\ task[p].agent = a

\* A job has one entry, and fires once, for each schedule trigger with its id and
\* each call of instantiate in this process that came as far as the jobs
\* (runtime.py:105), also one that raised among them, and for none that a store
\* stopped before: instantiating again never replaces a job, it doubles it.
JobsPerCall ==
  \A p \in Procs, a \in Hosted, t \in Triggers :
    ~ AddingJobs(p, a) => heap[p][a][t] = instantiated[p][a] * Cardinality(Added(a, t))

\* What the scheduler is given by instantiate, whatever was provisioned before.
JobsAsProvisioned == JobsPerCall /\ JobsHaveStores

\* An environment has the size the agent's memory asks for, unless something used
\* the store before the agent was instantiated: the first to open it decides.
SizeAsAsked ==
  \A p \in Procs, a \in Hosted :
    (env[p][a] # 0 /\ instantiated[p][a] > 0) =>
      env[p][a] = MapSize(a) \/ <<p, a>> \in kvFirst
=============================================================================
