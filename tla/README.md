# Verification of agentwright

TLA+ models of the stateful parts of agentwright (`src/agentwright`), checked
with TLC, and theorems about them proved with TLAPS. Paths below are relative to
`src/agentwright` unless they say otherwise.

## 1. The system

agentwright composes agents from *primitives* and runs them. A domain brief goes
through the **selector** (which primitives), the **configurator** (their
configuration) and the **validator** (composition invariants); a valid definition
is persisted in the **instance registry**, provisioned by the **agent runtime**,
and run by the **reasoning engine**, which calls an **LLM gateway**, gates every
tool call by the **permission policy**, asks for approvals over the **event bus**
and leaves rows in the **system database**. The **scheduler** fires triggers onto
the bus; the **write worker** serializes writes to the document store. All of it
is one Python process; concurrency is asyncio tasks, and several processes may
share the files: a command that registers an agent, a runtime that hosts it.

### Inventory

| Component | Source | State | Operations | What is hard | What makes it correct |
|---|---|---|---|---|---|
| Event bus | `runtime/event_bus.py` | a queue per event type | publish, consume, request_approval | many tasks on one queue of resolutions, requeueing, timeouts, cancellation, wake-ups | resolutions conserved; a request gets its own decision; requests end |
| Reasoning engine | `runtime/reasoning_engine.py` | local variables of a run; rows it writes | run, _execute_tool | an approval that comes late or never; anything that may raise; limits over several completions | nothing ungated; complete audit; budget; truthful row; termination |
| Permission policy | `runtime/policy.py` | none | evaluate | first match wins | gates what validation took for gated |
| LLM gateways | `runtime/llm_gateway.py`, `runtime/real_backends.py` | none (ledger rows) | complete | cost is known after the call; retries | the ledger is what was charged |
| System database | `runtime/system_db.py` | tables runs, cost_ledger, action_audit | start_run, end_run, record_cost, record_action | each a transaction of its own; crashes between them | rows agree with what happened |
| Document store | `runtime/document_store.py` | queue, worker task, futures | start, stop, submit | cancelled callers, overlapping stop and start | every write once, in order, answered |
| Scheduler | `runtime/scheduler.py` | heap, jobs, cancelled ids, worker | add_cron, add_delayed, cancel, start, stop | cancel and re-add, sleeping on one job, stop in the sleep | one entry per listed job; no job fires while its id is not listed; cron jobs keep firing |
| Vault | `runtime/vault.py` | entries in memory, blob on disk | open, set, delete, rotate_key | crash in the write, two processes that each hold all entries | no entry is lost, none comes back |
| KV store | `runtime/kv_store.py` | an environment per agent | open_agent, put, get, scan | map size fixed by the first open | an agent's map size is its definition's |
| Agent runtime | `runtime/runtime.py` | the services | instantiate, close | partial failure, repetition, crash | no job without its stores; jobs and state after a second call |
| Structured state | `SurrealUniversalStore` in `runtime/real_backends.py` | rows per agent and field | write_state, read_state | a write is a delete and a create | a field reads as it was written last |
| Instance registry, orchestrator | `orchestration/instance_registry.py`, `orchestration/orchestrator.py` | table agents | create, get, update_status, register | two transactions, locks, calls that raise inside one, crashes, a second process | status column and JSON agree; registered agents are active; nothing failed is committed later |
| Selector, configurator, validator | `orchestration/*.py`, `primitives/registry.py` | none; the registry of primitives | select, configure, validate, register, resolve_dependencies | many combinations of a brief; definitions edited and templates replaced between validation and registration | what they build is valid; what is valid is gated at run time |
| File store, shell runner, browser pool, search stores, telemetry | `runtime/*.py`, `telemetry.py` | files, dictionaries | | | not modelled, section 8 |

How they interact: the engine *awaits* the bus, and nothing else; approvers, outside
the repository, consume `approval.requested` and publish `approval.resolved`.
Engine, gateway and database are called synchronously. The scheduler publishes
`trigger.fired`. Write worker and scheduler each own one background task, started
and stopped by identical code. The orchestrator writes the instance registry's table
and a run the other tables of the same SQLite file, each over a connection of its own.
`instantiate` takes a definition through file store, KV store, document store,
structured state and scheduler.

`PROJECT.json` lists every hazard found in the code at its line, with the
properties that watch it, or the reason why none does.

## 2. The modules

| Module | Models | Extends |
|---|---|---|
| `Approvals` | what the approval flow promises, without queues | |
| `EventBus` | `runtime/event_bus.py`, tasks in any order | implements `Approvals` |
| `EventLoop` | `EventBus` in the order asyncio runs it | `EventBus` |
| `Permission` | which override decides about a name | |
| `Policy` | `runtime/policy.py` | `Permission` |
| `ReasoningEngine` | `runtime/reasoning_engine.py`, `AnthropicGateway.complete`, the rows of `runtime/system_db.py` | `Policy`, instance of `Approvals` |
| `MCReasoningEngine` | the tools, policies and completions TLC uses | `ReasoningEngine` |
| `EngineOnBus` | runs of the engine on the event bus, in the place of `Approvals` | `ReasoningEngine`, instance of `EventBus`; implements `ReasoningEngine` |
| `MCEngineOnBus` | the tools and completions TLC uses | `EngineOnBus` |
| `BackgroundTask` | `start` and `stop` of `WriteWorker` and `Scheduler` | |
| `Submissions` | what the write worker promises the callers of `submit` | |
| `WriteWorker` | `WriteWorker` of `runtime/document_store.py` | `BackgroundTask`; implements `Submissions` |
| `Triggers` | what the scheduler promises each job, without heap and workers | |
| `Scheduler` | `runtime/scheduler.py` | `BackgroundTask`; implements `Triggers` |
| `Primitives` | `primitives/registry.py`: templates and the dependency closure | |
| `Composition` | `selector.py`, `configurator.py`, `validator.py`, `orchestrator.py` of `orchestration` | `Primitives`, `Permission` |
| `MCComposition` | the briefs, templates and edits TLC uses | `Composition` |
| `Processes` | processes, the call each is in, crashes | |
| `SystemFile` | `instance_registry.py`, `orchestrator.register`, `runtime/system_db.py` on one SQLite file | `Processes` |
| `Vault` | `runtime/vault.py` | `Processes` |
| `Provisioning` | `AgentRuntime.instantiate` and what it calls in the stores | `Processes` |
| `Host` | the three of them in the same processes | `SystemFile`, `Vault`, `Provisioning` |
| `MCHost` | the definition TLC instantiates | `Host` |
| `QueueProofs` | lemmas on queues as sequences | |
| `EventBusProofs`, `EventLoopProofs`, `ReasoningEngineProofs`, `WriteWorkerProofs`, `SchedulerProofs`, `CompositionProofs`, `HostProofs` | the theorems of section 6 | their component |

Definitions named `M_...` are mutants: `M_Match` is `Match` with a bug. They are no
part of any specification; with one in the place of the definition it mutates, TLC
finds the property PROJECT.json names with it violated.

### EventBus

`requested` and `resolved` are the two queues, `pc[id]` where the task in
`request_approval` for `id` is, `held[id]` the local variable `resolved` of that
task; `seen` and `log` belong to the approvers. One action is what runs between two
points at which other tasks may run: `Request` (publish, and the call of consume),
`Take` (`queue.get` has an item), `Match` or `Requeue` (the comparison of the ids;
`Requeue` includes the publish and the call of `sleep(0)`), `Resume`, `Timeout`, `Cancel`. On
Python 3.11, which the repository pins, `wait_for` runs `queue.get()` in a task of
its own, so other tasks run between `Take` and what follows; a resolution that was
handed over wins over timeout and cancellation, therefore neither is possible in
`taken`. On 3.12 and later `Take` and what follows are one step, which is one of
the behaviours of the module.

Approvers answer requests they have seen, also twice, also after the request has
ended. They do not publish resolutions with unknown ids or other decisions.

### EventLoop

Adds what asyncio adds: the FIFO of ready tasks, `asyncio.Queue`'s FIFO of suspended
getters, of which a put wakes the first, and the task that goes on running when
`queue.get()` does not suspend. `Inline` are the requests whose `queue.get()` runs in
the caller's task (all on 3.12, those without a timeout on 3.11). Each step is a step
of `EventBus` or leaves its variables alone; that is a theorem.

### ReasoningEngine

A run's local variables (`iterations`, `pending` calls of the completion, `calls` =
`all_tool_calls`, `stop` = `stop_reason`), its row in `runs`, the sum of its rows in
`cost_ledger`, its rows in `action_audit`; what the provider charged and which calls
reached an executor are history variables. Actions are cut at each gateway call and each
tool call: `NoBudget`, `OverBudget`, `FinalAnswer`, `ToolUse`, `GatewayRaises` and
`LedgerRaises` are the outcomes of a call of `complete`; `Denied`, `Allowed`,
`Escalate` those of the policy; `Approved`, `Rejected`, `TimedOut`, `Cancelled` the
ends of an approval; `End` is the end of `run`. `LedgerRuns` are the runs the gateway finds
in a `system_db`, without which it records nothing and no budget is used up; `TimedRuns` those
called with an `approval_timeout`.

Every database call can raise, at its statement or at its commit. `RecordRaises` may take the
place of `Record` everywhere; as the connection is shared and nothing rolls back, the row of a
commit that raised is in the next transaction that is committed, so it may leave the row or not.
`run` catches an exception only around executor and success record, and then writes `failed`:
after a commit that raised, both rows stand for one call (`RecordBoth`). A row is therefore
kept with the number of its call. Approvals are an instance of
`Approvals`, which `EventBus` implements; `EngineOnBus` has the bus itself. A cost is a natural number, a permission a
default and a sequence of overrides whose pattern is the set of actions it matches.

### EngineOnBus

The interaction of the two. A run that asks for an approval is the task of that
request: `BusEscalate` is `Escalate` with `EventBus`'s `Request`, `Round` a step inside
`request_approval` (`Take`, `Requeue`, `Resume`), and the four ways out of it end with the
run's next stretch of code: `Match` with the decision approved or not, `Timeout`, `Cancel`. All
else a run does leaves the bus alone (`Alone`). `status` and `decided`, the variables of
`Approvals`, are kept as history (`Follow`): what `EventBus`'s refinement mapping makes of
the queues. A run has one request at a time, so `MaxConcurrent` is the number of runs and
no bound; `TimedRuns` are the runs whose requests have a timeout.

### BackgroundTask and WriteWorker

`handle` is `self._task`; `task[t]` the state of each task `start` has created;
`awaiting[s]` the task a caller of `stop` awaits. `overlapped` remembers that `start`
created a task, or `stop` was called, while a `stop` was waiting. `WriteWorker` adds the queue of
writes, the `future` of each `submit` and its `caller`. `Apply` is one round of `_run`
with `wrapped` in it: if the caller was cancelled its future is cancelled, and
`set_result` and then `set_exception` raise `InvalidStateError`, which ends the task.
The loop's `await queue.get()` on a non-empty queue does not suspend; the module lets
others run between two writes all the same, which only adds behaviours.

`Submissions` has neither queue nor tasks: writes are submitted, called in that order,
and a caller is answered once its own was called. `WriteWorker` implements it with its
own history variables `submitted` and `applied`.

### Scheduler

`job` numbers the calls of `add_cron` and `add_delayed`; `listed` is `_jobs` as the number of the
job of an id. `heap` is a set of entries with `at` and `seq`, the two keys Python's
tuples are compared by. `_fire_due` is `FireNow` if the popped entry is due, because then nothing
in it suspends, else `Sleep` and `Wake`; both end in `Surface`, which looks at
`_cancelled` after the sleep and computes the next occurrence from the clock at that
moment. `popped` remembers `_counter` at the pop, and `withdrawn` the jobs that were there when
their id was cancelled. `CancelSleep` is a worker that `stop` has cancelled: its entry is gone.
`AddBadCron` is `add_cron` with an expression croniter refuses, after `_jobs` and
`_cancelled` were changed. Time is the wall clock in ticks, and a cron expression
fires at the multiples of a period; `left` is the sleep, which runs by another clock,
so `SetClock` moves `now` alone. `Tick` may come at any time, as an event loop may be
late; in `PromptSpec` it waits until no task has anything to do. Time zones are kept
with the job and not used by the code.

`Triggers` is the scheduler as a job sees it: `due` is when it is going to fire. The
refinement takes for it the time of the one entry of the job in the heap or in the
hands of a worker (`Entries`, `TimeOf`); popping an entry is then invisible, and surfacing
is one step that fires the job and sets its next time, or gives it up. It is weaker than the
docstring of `cancel`: a job may fire while its id is listed for a later job, because an add of
the id lifts the cancellation. What the docstring says is `CancelledStaysSilent` (finding 4).

### Primitives and Composition

`registry` is `PRIMITIVE_REGISTRY`; `brief` is what the agent was asked for, `def` its
definition in memory, `stored` the one that `register` persisted. A primitive's
configuration is what the validator, the configurator or the run time looks at.
`Compose` is `select_primitives`, `configure`, `validate` and `apply` in one step, as
they share nothing; `Validate` is the two last ones called again, with whatever the caller says
about `sub_agent`, which is not stored. Definitions are drafts with `pending_human_input`,
so people edit them: `EditTools`, `EditCaps`, ... set the fields they are to fill in,
and `EditDrop` removes a primitive, which pydantic's assignment allows. `register` does not
validate: it believes `validation_errors`. `stale` is a history variable that says
whether the last validation still describes `def`, `vouched` whether it did when `def`
was registered and no template was replaced since. `ResolveDependencies` is the loop of
`resolve_dependencies`, turn by turn (`Turn`): a name is taken off `pending`, skipped if it is
`resolved`, and otherwise resolved and its dependencies put on `pending`. The code's list is kept
as a set, as its order is that of a set to begin with and the second of two equal names is
skipped; which name is taken is left to `CHOOSE`. The loop is given `EnoughTurns` turns, and has
ended if nothing is pending then, which is part of `CompleteIsClosed`: without the test for names
already resolved it would not end on a cycle.

A tool has a bare and a qualified name, and a pattern is the set of names it matches.
`Matching` and `Decision` of `Permission` are shared by validator and policy, because the
question is whether they agree: they do not (`GateHolds`, finding 5).

### Processes, SystemFile, Vault, Provisioning and Host

The services are synchronous, so a process is in one call at a time; `task[p]` is what is left
of it. Every statement, commit, file write or store call is a step, between which other
processes take theirs and a crash may end the call. `Crash` is also the orderly end of
a process: nothing is written when connections and stores are closed.

`SystemFile`: SQLite is external and modelled by its locking: Python begins a
transaction before a statement that writes; one connection holds the write lock;
commits wait for readers, and a commit that fails keeps new readers out; a
statement that waits too long raises. What matters is the code around it: no
call rolls back. `Create` and `EndCreate`, `Activate`, `Update` and `EndUpdate` are
the steps of `register`, the last three also of `update_status`; `CreateRefused`,
`CreateLocked`, `RunLocked` and the second disjuncts of the others are the calls
that raise. `pending` is the file as the transaction sees it. `raised` remembers
connections whose last writing call raised, `cut` agents whose registration stopped
half-way, `asked` what callers of `update_status` set an agent to. `update_status` takes any
status, so `Statuses` is any set that has not the marker for no row; the run takes `"validated"`, the one
that a registration cut short leaves, too. `agents` and the rows of runs are the content; a run stands for every row it writes.

`Vault`: `copy[p]` is `self._data`, `key[p]` the key, `blob` the file. A change empties
the file first (`write_bytes` truncates), then writes. `acked` is what calls that
returned have said, `disputed` the references last changed by a call that was cut
short, or while a second process had the vault open, which will write back what it read when it opened it.

`Provisioning`: one action per store call of `instantiate`, `Seed` and `EndSeed` once for
each field (`write_state` deletes, then creates), `AddJob` once for each schedule; a
bad cron expression raises in the middle and leaves what was done. So does a store
(`StoreRaises`): the environment or the tables cannot be opened, or a statement of `write_state` raises,
and if it is the create, the field's old rows are gone (`CutShort`), as after a crash there. Environments and the scheduler's heap are
in memory and die with the process; directories, tables and rows stay.

## 3. The runs

| Run | Instance | Shows |
|---|---|---|
| `EventLoop` | 3 requests at once, 3 answers, 2 with timeouts | `Conservation`, refinement of `Approvals`; `OneTaskEach`, `NoLostWakeup`; a request that is alone ends: `AnsweredEndsAlone`, `TimeoutEndsAlone` |
| `EventLoopStarved` | 2 requests, 2 answers | `AnsweredEnds` is violated (finding 1) |
| `ReasoningEngine` | 1 run, 3 iterations, 3 calls, budget 3, costs 0..2 | gating, audit, budget, row, halting, termination |
| `EngineOnBus` | 2 runs of 2 calls, 1 with a timeout, the other with a ledger, 3 answers | refinement of `ReasoningEngine` |
| `WriteWorker` | 3 writes of which one fails, 3 workers, 2 callers of stop | refinement of `Submissions`, truthful answers, one worker, answers while a worker runs |
| `WriteWorkerDies` | 2 writes, 1 worker, no stop | `SubmitEnds` is violated (finding 2) |
| `Scheduler` | 2 jobs of 1 or 2 ids, 2 workers in succession or at once, 5 ticks | one entry per job, no job forgotten, fired twice or overtaken; refinement of `Triggers` |
| `SchedulerLate` | 2 jobs, 1 worker, an event loop that is never late | `OnTime` is violated (finding 3) |
| `SchedulerCancelled` | 1 id, 2 jobs, 1 worker | `CancelledStaysSilent` is violated (finding 4) |
| `Composition` | 144 briefs, 4 templates, 1 edit | what is composed is valid but for four reasons; what is registered unedited is sound; closure of dependencies |
| `CompositionUngated` | the same | `GateHolds` is violated (finding 5) |
| `Host` | 2 processes, 4 calls, 1 crash; 2 agents, 2 runs, 2 secrets, 2 keys | locks, commits, registration; secrets; stores, state and jobs |

The larger ones have 1,490,000 distinct states (`Scheduler`), 986,000 (`EngineOnBus`), 775,000 (`Host`),
471,000 (`Composition`), 364,000 (`EventLoop`) and 159,000 (`ReasoningEngine`).

Bounds: `MaxJobs`, `MaxTime`, `MaxAnswers`, `MaxConcurrent`, `MaxTasks` and the finite sets of requests,
writes and runs bound the models; iterations, tool calls and budget are parameters of
the code itself. Three requests are the least with which a resolution passes through a
task that is neither its owner nor its last holder, and with which a wake-up can be
overtaken by a third; with three answers one request can be answered twice, or late,
while another still waits. Runs of the engine share nothing but the bus, whose
promise is part of `ReasoningEngine`, so one run suffices there; two runs of two calls are the
least for an answer to a call that timed out to lie in the way of the next call and of the other run.
`EventLoop` has the tasks in one order at a time, `EngineOnBus` in all; `EventBus` has no
run of its own, since both take its steps and each of their steps is one of it. Three calls are enough for a
completion to go on after an approval, for the limit to be reached within a completion and between
two. Two jobs may share an id or compete for the worker, and in five ticks a job
of period 2 fires twice. The tools of `MCReasoningEngine` are one of each kind: allowed with an executor and without, gated
with and without, denied. Three workers let two overlapping stops leave one
behind and start another. One edit of a definition
is enough for it to be stale, as each sets all fields a rule relates; the templates make a
cycle of two and replace a built-in primitive; the policies differ in order, name
and default. Four calls are two of each process, or a call that raises, a second
that continues its transaction, and two of the other process; one crash may come between any two
steps, and both processes may be restarted. Processes and runs are model values the
specification treats alike, so `Host` uses them as symmetry sets, with invariants and an
action property only. Deadlock is not checked: every request, run, call or write
may be over, and the clock ends.

## 4. Fairness

`EventLoop`: the loop runs a ready task (`WF` of the steps), and a timer that is
continuously running fires (`WF` of `LoopTimeout(id)`); a timer that is set anew in every round is
not continuously running. Approvers and cancellations are under no obligation.
`ReasoningEngine`: a run goes on when it can. That an approval is given, or times out, is not assumed:
`approval_timeout` may be None, and with one the bus may still keep a request open (finding 1). So
`EveryRunEnds` says that a run ends, or waits for ever for a request the bus keeps open; when the bus
ends one is what `AnsweredEndsAlone` and `TimeoutEndsAlone` say.
`WriteWorker`: a worker with writes runs, a caller with an answer is resumed; nobody
has to call start. `Composition` and `Host` state safety only: nothing in that code waits,
but for locks, and for these it gives up.

## 5. Findings

1. **Waiters starve each other** (`runtime/event_bus.py:54`). Two requests are open
   and their answers arrive in the other order. Each takes the other's, requeues it,
   yields, and finds the other's again: the event loop spins, and both requests stay
   open although both were answered. The docstring (lines 45-47) promises otherwise.
   Neither times out, as the timeout is per `consume` (line 51). One answer that came too late has
   the same effect on a request that is alone: it takes and requeues it for ever, and
   `runtime/reasoning_engine.py:245` waits for the timeout in vain. This is the exception
   `TimeoutEndsAlone` makes.
2. **A cancelled `submit` kills the worker** (`runtime/document_store.py:111`). Every
   later caller hangs until somebody calls `start` again.
3. **A new job waits for an older one** (`runtime/scheduler.py:98`). The worker
   sleeps on the entry it has popped; a job added meanwhile that is due earlier fires only
   after it: behind a daily cron job, up to a day late.
4. **A cancelled job fires** (`runtime/scheduler.py:99`). `cancel` notes the id, and adding the id
   again takes it off that note, so the entry that was cancelled fires beside the new one. The
   docstring (line 78) says it "is skipped when it surfaces".
5. **A tool that requires approval runs without** (`orchestration/validator.py:153`). An override that gates
   covers a tool if it matches its bare or its qualified name, anywhere in the list. The run time
   (`runtime/reasoning_engine.py:228`) asks about the bare name, and the first override that matches decides. So
   a valid definition allows the tool outright when the default is `allow` and only the qualified name
   is gated, which `tests/test_validator.py:106` accepts, or when an earlier override allows the bare name. `requires_approval` is
   documented as "human must approve before execution" (`primitives/tool_connection.py:30`).

1, 2 and 3 were reproduced with the real classes on Python 3.11.

The ledger is not all that was charged, though the gateway is to record "every call" (`runtime/real_backends.py:199`):
it does not reach `record_cost` for the call whose cost exceeds what was left (line 244).
`BudgetKept` names that case, the runs that raised, and those that are in no `system_db`, as the only ones.

The exceptions that the properties of `WriteWorker` and `Scheduler` name: `stop` resets the handle
after an await, so `start` called meanwhile leaves a worker that nobody can stop (`OneTask`'s
hypothesis). `NeverForgotten` names the listed jobs that never fire: the expression did not parse, or `stop`
came in the sleep on them. A delayed job stays listed after it has fired.

The exceptions that the properties of `Composition` and `Host` name are behaviour of the code, too:

* `register` accepts a definition that was edited after its validation, or whose dependencies
  were replaced (`VouchedIsSound`; `orchestrator.py:67`). Of what such a definition may lack, the run time
  looks at one thing again, the virtual machine it does not have (`runtime.py:99`).
* A call on `system.db` that raises keeps its transaction: other processes wait for the
  lock in vain, and if the same connection is used again, the change its caller was
  told had failed is committed (`LocksOfTheRaised`, `CommitsOwnChange`). An agent may stay
  validated, and then can be neither registered again nor found active (`RegisteredIsActive`).
* Two processes with the vault open undo each other's changes. The design
  (`design/agent_runtime_infrastructure.md:557`) has `set` "decrypt, update, re-encrypt, write";
  the code decrypts once, when it opens (`NoSecretLost`; `vault.py:86`). A write that is cut
  short costs the whole file, which the processes that have it open would restore (`CopyComplete`).
* Instantiating again resets the structured state and doubles the jobs; a bad cron
  expression leaves the jobs before it scheduled (`StateIsLastWrite`, `JobsPerCall`).
* A write to the structured state whose create raises has lost the value that was there
  (`StateIsLastWrite`; `real_backends.py:88`).
* The map size an agent asks for is ignored when its store was used before (`SizeAsAsked`).

## 6. What is proved

For all values of the constants, under the assumptions the modules name. These state types, which subsets
the constants are, and that the markers for nothing (`None`, `NoTask`, `"none"`) are no values:

* `EventBus`, with tasks in any order: types, `Conservation`, and `ImplementsApprovals`. The refinement maps
  `pc` and `held` to a status and `log` to the decisions given. It needs that what is in the queue
  or in hands was published, that what was returned has the request's id, and that
  approvers know only requests that were made (`IInv`): without the first, a request
  might return a decision nobody gave. Conservation is inductive with the types
  and empty hands; its proof counts positions of a resolution before and after a step.
* `EventLoop`: `LoopSpec => Spec`, hence everything above; types, `OneTaskEach` and
  `NoLostWakeup`. The invariant behind the last two (`LoopInv`): an open request has one task, in one place;
  only requests inside `consume` are suspended; and while any is, at least as many others
  are on their way to the queue as there are resolutions in it. A put adds one to each side,
  a take removes one from each, and a request that times out with a wakeup in hand passes it on.
  The proof counts occurrences in `ready` and `getters` as tasks move between them.
* `ReasoningEngine`: types and all safety properties. `NeverUngated`
  is not inductive: `AtWork` adds that a run waiting for an approval waits for the
  last call it took and that the policy asked for it, `InvokedTaken` that numbers of
  invoked calls are numbers of calls taken, so that later calls do not disturb them.
  `BilledAhead` strengthens `BudgetKept`: a run that can still call the provider owes the ledger
  nothing. `AuditInv` says per run of which calls there are rows (`InStep`), that rows agree with
  the calls (`RowsTrue`) and are in their order, but for a failed one after a success of the same call (`RowsInOrder`), and that
  only a run that raised has invoked a call that has no row; `RowInv` that only
  a run that is over has a closed row.
* Also `WearsOut`: each step of a run lowers `StepsLeft`, a number that no other run and no
  approver raises and that is bounded by the limits. It is the half of `EveryRunEnds` that needs
  no fairness; `LimitKept` is the invariant behind it.
* `EngineOnBus`: `ImplementsEngine`, hence `NeverUngated` and all else on the bus; that it is
  a behaviour of `EventBus`, too, so that no resolution is lost; and `WaitsOnBus`: a
  request is pending on the bus exactly while its run waits for it. The invariant
  (`OnBusInv`) is the two modules' own with what ties them together: `WaitsOnBus`, `NotYetAsked` (the id of
  a call that is still to come is unused, so it can be opened) and `Following`. Each step is
  shown to be a step of both, from what `EventBusProofs` says each step of the bus does to
  the state of `Approvals`; those lemmas are instantiated with the runs' requests for ids, once
  the runs are shown to meet the bus's assumptions.
* `WriteWorker`: types, `InOrder`, `ToldTheTruth`, `OneTask`, and `ImplementsSubmissions`, for which
  `InOrder` makes the head of the queue the next write submitted. `QueuedOnce` and
  `FutureKept` say that a write is queued or applied once and that its future is as
  far as the write; `OneStop` that one stop at a time awaits the task of the handle.

* `Scheduler`: types and all properties of its run. `Known` and `ListedLast` tie
  entries and ids to the jobs that were added (a listed id is not cancelled, and an id
  that is not cancelled lists its latest job); `InTime` says that the sleep ends when
  the entry is due, unless the clock was set back. `EarliestFirst` follows from the pop being of the earliest, and
  from `seq` being less than `_counter` for all that is queued by then. `SurfaceKeeps` is the end of `_fire_due`
  once for both ways to it. The refinement of `Triggers` rests on `TimeRemoved` and
  `TimeAdded`: with one entry for a job, taking one out or putting one in changes
  one job's time. What surfaces was due by `InTime`, and is listed by `ListedLast`.

* `Composition`: types and all properties of its run, and
  `RegistryGrounded`. `CompleteIsClosed` is about a loop. Its invariant (`OnTheWay`): what is resolved or
  pending lies in every closed set over the names, holds them, and the dependencies of what is resolved
  are among it. What is left (`Left`) is the names not resolved, times one more than there are
  names, and those pending: each turn lowers it (`TurnBringsNearer`), for a turn that adds to the pending
  resolves a name more. `ResolvingEnds` takes the least number of turns for which that would go wrong, and the
  first of them contradicts it; there is no need to assume that dependencies have no cycle. The invariant of the module adds
  `Fresh` (errors and warnings that are not stale are those of the definition), `AsBuilt`
  (an unedited definition is what `Configure` made of its brief) and `Kept` (what was
  vouched for still has no errors); `VouchedIsSound` is then a fact about `Errors`.
* `Host`: types and all properties of its run (`RegistersOnce`, `SecretsKept` and
  `JobsAsProvisioned` from a theorem for each of their parts). `Progress` bounds how far a call of
  `instantiate` can be, which the types of the fields it writes need. Each store has an
  invariant of its own, and a lemma that the calls of the others leave it alone:
  `VaultInv` (a process that has the vault open has all that is not disputed, nor being written by itself),
  `LockInv` (a transaction belongs to a call, or to a connection that raised;
  what is pending differs from the file by that call's change), `RowsInv` (which rows a registration has made so far, and whose status an agent has),
  `ProvInv` (what is there at each step of `instantiate`, and how many jobs were added up to it).
  `JobsPerCall` is arithmetic: calls times schedules with an id, by cardinalities of finite sets.

`QueueProofs` holds what the queues' proofs share: what a queue has after a put and a get, and
that moving its head to the end of a log keeps the order of both.

Only model-checked: liveness, which is out of the prover's reach.

## 7. Plan

Done: the core (approvals, gating, cost, writes, triggers), then `Composition`, then `Host`
with its three stores, their proofs, and `EngineOnBus`. Left:

* The engine under asyncio's order (`EventLoop` in the place of `EventBus`), to ask which
  approvals of a run end; for safety the theorems make it redundant.

## 8. Not modelled, and why

Shell runner and browser pool are direct calls of the operating system, or stand-ins for them,
with no protocol of their own; so is the file store but for the directories
`instantiate` makes. The search stores (in-memory and the adapters for Chroma,
NetworkX and mem0) are embeddings and similarity without state that a step could get wrong;
recall and remembering enter the engine only as calls that may raise.
What is inside an LMDB environment or a TinyDB table is those libraries'.
Telemetry influences nothing. Wording of messages and prompts, token counts, transcripts, time
in seconds, resolution of API keys and file permissions are abstracted away. The OpenAI and Google gateways differ from Anthropic's
in the shape of requests and answers. The blocking `time.sleep` of the gateway's retries is a
duration, which these models do not have. A run whose process dies keeps its row, and nothing in the code looks for such rows,
so no property says what should become of them.
