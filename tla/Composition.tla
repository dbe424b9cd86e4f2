----------------------------- MODULE Composition -----------------------------
(***************************************************************************)
(* agentwright/orchestration: how a domain brief becomes the definition of *)
(* an agent (selector, configurator, validator, orchestrator), what people *)
(* do to the definition before it is registered, and the registry of       *)
(* primitives it is composed from.  One agent is followed, from its brief. *)
(***************************************************************************)
EXTENDS Primitives, Permission

CONSTANTS
  CustomTemplates,  \* templates an application may register, each with a name
  ConnIds,          \* ids of connections
  Reaches,          \* Reaches[c]: those whose name says they reach channel c
  ToolNames,
  Briefs,           \* domain briefs
  PolicyEdits,      \* action policies a person may set: default and overrides
  ToolEdits,        \* sets of tools a person may give the connections
  CapEdits,         \* budgets a person may set
  MaxEdits          \* bound on the edits of one definition

Channels     == {"email", "slack"}
TriggerTypes == {"schedule", "webhook", "event", "manual"} \cup Channels
Backends     == {"shell", "browser", "vm"}
Names        == BuiltInNames \cup {t.name : t \in CustomTemplates}

\* What a pattern is matched against: a tool's bare name, or its qualified one.
Actions == {<<n>> : n \in ToolNames} \cup (ConnIds \X ToolNames)
Tool    == [conn : ConnIds, name : ToolNames, gated : BOOLEAN]

ActionPolicy == [default : Policies, overrides : Seq(Override(Actions))]

DomainBrief ==
  [cap : Nat, approvals : Seq(SUBSET Actions), connections : SUBSET ConnIds,
   compute : SUBSET Backends, triggers : SUBSET TriggerTypes,
   ui : BOOLEAN, long_lived : BOOLEAN, sub_agent : BOOLEAN, extra : SUBSET Names]

ASSUME CompositionAssumption ==
         /\ CustomTemplates \subseteq
              [name : STRING, deps : SUBSET Names, version : Nat]
         /\ Reaches \in [Channels -> SUBSET ConnIds]
         /\ Briefs \subseteq DomainBrief
         /\ PolicyEdits \subseteq ActionPolicy
         /\ ToolEdits \subseteq SUBSET Tool
         /\ CapEdits \subseteq Nat
         /\ MaxEdits \in Nat

\* The configurations, reduced to what the validator and the run time look at.
ToolConnectionConfig == [conns : SUBSET ConnIds, tools : SUBSET Tool]
MemoryConfig         == [universal : BOOLEAN, structured : BOOLEAN]
ObservabilityConfig  == [browser_actions : BOOLEAN, remote_export : BOOLEAN]

ErrorKinds   == {"dependency", "required", "gate", "state", "budget",
                 "sub_agent", "channel", "vm"}
WarningKinds == {"browser", "export"}

\* A definition.  names are the primitives present: what is said about one that
\* is not means nothing.  human_input_required is left out, as nothing reads it.
Definition ==
  [names : SUBSET Names, versions : SUBSET (Names \X Nat), run_cap : Nat,
   spend_cap : Nat, policy : ActionPolicy, memory : MemoryConfig,
   observability : ObservabilityConfig, tool_connection : ToolConnectionConfig,
   compute : SUBSET Backends, triggers : SUBSET TriggerTypes,
   errors : SUBSET ErrorKinds, warnings : SUBSET WarningKinds,
   status : {"none", "draft", "validated", "active"}]

NoDefinition ==
  [names |-> {}, versions |-> {}, run_cap |-> 0, spend_cap |-> 0,
   policy |-> [default |-> "require_approval", overrides |-> <<>>],
   memory |-> [universal |-> TRUE, structured |-> FALSE],
   observability |-> [browser_actions |-> FALSE, remote_export |-> FALSE],
   tool_connection |-> [conns |-> {}, tools |-> {}], compute |-> {},
   triggers |-> {}, errors |-> {}, warnings |-> {}, status |-> "none"]

VARIABLES
  registry,  \* PRIMITIVE_REGISTRY
  brief,     \* the brief of the agent
  def,       \* its definition, in memory
  stored,    \* the definition as it was registered
  edits,     \* changes people made to def since it was composed (history)
  stale,     \* def was changed, or its brief or a template does not agree with
             \* what its last validation saw (history)
  vouched    \* stored was not stale, and no template changed since (history)

vars == <<registry, brief, def, stored, edits, stale, vouched>>

TypeOK ==
  /\ DOMAIN registry \subseteq Names
  /\ registry \in [DOMAIN registry -> [deps : SUBSET Names, version : Nat]]
  /\ brief \in Briefs
  /\ def \in Definition
  /\ stored \in Definition /\ stored.status \in {"none", "active"}
  /\ def.names \cup stored.names \subseteq DOMAIN registry
  /\ edits \in 0..MaxEdits /\ stale \in BOOLEAN /\ vouched \in BOOLEAN

Init ==
  /\ registry = BuiltIn
  /\ brief \in Briefs
  /\ def = NoDefinition /\ stored = NoDefinition
  /\ edits = 0 /\ stale = FALSE /\ vouched = FALSE
-----------------------------------------------------------------------------
(* selector.select_primitives *)

AlwaysRequired == {"identity", "reasoning_loop", "observability", "permission"}

\* The decision matrix; a trigger on a channel is polled through a connection.
Implied(b) ==
  {n \in BuiltInNames :
     \/ n = "memory"          /\ b.long_lived
     \/ n = "compute"         /\ b.compute # {}
     \/ n = "trigger"         /\ b.triggers # {}
     \/ n = "tool_connection" /\ (b.connections # {} \/ b.triggers \cap Channels # {})
     \/ n = "generated_ui"    /\ b.ui}

Select(b) == AlwaysRequired \cup Implied(b) \cup b.extra
-----------------------------------------------------------------------------
(* configurator.configure *)

BuildPolicy(b) ==
  [default |-> "require_approval",
   overrides |-> [i \in DOMAIN b.approvals |->
                    [matches |-> b.approvals[i], policy |-> "require_approval"]]]

\* A long-lived agent gets the universal store, which is also the default.
BuildMemory(b) == [universal |-> TRUE, structured |-> FALSE]

\* Mutants, for the runs: M_Definition is Definition with a bug.
M_BuildObservability(b) ==       \* captures nothing
  [browser_actions |-> FALSE, remote_export |-> FALSE]

BuildObservability(b) == [browser_actions |-> "browser" \in b.compute,
                          remote_export |-> FALSE]

BuildToolConnection(b) == [conns |-> b.connections, tools |-> {}]

\* The types of the triggers; two of a type share one id.
BuildTrigger(b) == b.triggers

BuildCompute(b) == b.compute

\* _build_custom raises for a name that is not registered.
Buildable(b) == b.extra \ BuiltInNames \subseteq DOMAIN registry

\* Versions are pinned; both budgets are the brief's.
Configure(b) ==
  [names |-> Select(b),
   versions |-> {<<n, registry[n].version>> : n \in Select(b)},
   run_cap |-> b.cap, spend_cap |-> b.cap,
   policy |-> BuildPolicy(b), memory |-> BuildMemory(b),
   observability |-> BuildObservability(b),
   tool_connection |-> BuildToolConnection(b),
   compute |-> BuildCompute(b), triggers |-> BuildTrigger(b),
   errors |-> {}, warnings |-> {}, status |-> "draft"]
-----------------------------------------------------------------------------
(* validator.validate *)

Bare(t)      == <<t.name>>
Qualified(t) == <<t.conn, t.name>>

\* Invariant 5: the default gates, or some override that gates matches the
\* tool's name or its qualified name.
Covered(p, t) ==
  \/ p.default \in {"require_approval", "deny"}
  \/ \E i \in Matching(p.overrides, Bare(t)) \cup Matching(p.overrides, Qualified(t)) :
       p.overrides[i].policy \in {"require_approval", "deny"}

Tools(d) == IF "tool_connection" \in d.names THEN d.tool_connection.tools ELSE {}

ToolUncovered(d) == /\ "permission" \in d.names
                    /\ \E t \in Tools(d) : t.gated /\ ~ Covered(d.policy, t)

\* Invariant 7.
StateUnbacked(d) == /\ "memory" \in d.names
                    /\ d.memory.structured /\ ~ d.memory.universal

\* Invariant 8.
OverCap(d) == /\ {"reasoning_loop", "permission"} \subseteq d.names
              /\ d.run_cap > d.spend_cap

\* Invariant 10.
SelfTriggered(d, sub) == sub /\ "trigger" \in d.names /\ d.triggers # {}

M_ChannelUnbacked(d) ==          \* any connection will do
  /\ "trigger" \in d.names
  /\ d.triggers \cap Channels # {}
  /\ "tool_connection" \notin d.names \/ d.tool_connection.conns = {}

\* Invariant 11.
ChannelUnbacked(d) ==
  /\ "trigger" \in d.names
  /\ \E c \in d.triggers \cap Channels :
       "tool_connection" \notin d.names \/ d.tool_connection.conns \cap Reaches[c] = {}

\* Invariant 12.
VmAsked(d) == "compute" \in d.names /\ "vm" \in d.compute

Errors(d, sub) ==
  {e \in ErrorKinds :
     \/ e = "dependency" /\ MissingDependencies(registry, d.names) # {}
     \/ e = "required"   /\ ~ AlwaysRequired \subseteq d.names
     \/ e = "gate"       /\ ToolUncovered(d)
     \/ e = "state"      /\ StateUnbacked(d)
     \/ e = "budget"     /\ OverCap(d)
     \/ e = "sub_agent"  /\ SelfTriggered(d, sub)
     \/ e = "channel"    /\ ChannelUnbacked(d)
     \/ e = "vm"         /\ VmAsked(d)}

\* Invariant 9.
BrowserUnseen(d) == /\ {"compute", "observability"} \subseteq d.names
                    /\ "browser" \in d.compute
                    /\ ~ d.observability.browser_actions

ExportUnbacked(d) == "observability" \in d.names /\ d.observability.remote_export

Warnings(d) == {w \in WarningKinds : \/ w = "browser" /\ BrowserUnseen(d)
                                     \/ w = "export"  /\ ExportUnbacked(d)}

\* validate and apply.
Validated(d, sub) ==
  [d EXCEPT !.errors = Errors(d, sub),
            !.warnings = Warnings(d),
            !.status = IF Errors(d, sub) = {} THEN "validated" ELSE "draft"]
-----------------------------------------------------------------------------
(* The registry of primitives *)

\* primitives.registry.register: an existing template may be replaced, even by
\* one that makes the dependencies cyclic.
RegisterPrimitive(t) ==
  /\ t.deps \subseteq DOMAIN registry
  /\ registry' = [n \in DOMAIN registry \cup {t.name} |->
                    IF n = t.name THEN Template(t.deps, t.version) ELSE registry[n]]
  /\ stale' = (stale \/ (def.status # "none" /\ t.name \in DOMAIN registry))
  /\ vouched' = (vouched /\ t.name \notin DOMAIN registry)
  /\ UNCHANGED <<brief, def, stored, edits>>
-----------------------------------------------------------------------------
(* orchestrator *)

Active(d) == [d EXCEPT !.status = "active"]

Composed(b) == Validated(Configure(b), b.sub_agent)

\* compose: the agent gets a new id, so it has no row yet.
Compose ==
  /\ def.status = "none"
  /\ Buildable(brief)
  /\ def' = Composed(brief)
  /\ UNCHANGED <<registry, brief, stored, edits, stale, vouched>>

\* validate and apply, called again; sub_agent is what the caller says it is.
Validate(sub) ==
  /\ def.status # "none"
  /\ def' = Validated(def, sub)
  /\ stale' = (sub # brief.sub_agent)
  /\ UNCHANGED <<registry, brief, stored, edits, vouched>>

M_Register ==                    \* forgets update_status
  /\ def.status # "none" /\ stored.status = "none"
  /\ def.errors = {}
  /\ stored' = def
  /\ def' = Active(def)
  /\ vouched' = ~ stale
  /\ UNCHANGED <<registry, brief, edits, stale>>

\* register believes validation_errors, and refuses an id that has a row.
Register ==
  /\ def.status # "none" /\ stored.status = "none"
  /\ def.errors = {}
  /\ stored' = Active(def)
  /\ def' = Active(def)
  /\ vouched' = ~ stale
  /\ UNCHANGED <<registry, brief, edits, stale>>

ComposeAndRegister ==
  /\ def.status = "none"
  /\ Buildable(brief)
  /\ Composed(brief).errors = {}
  /\ stored' = Active(Composed(brief))
  /\ def' = Active(Composed(brief))
  /\ vouched' = TRUE
  /\ UNCHANGED <<registry, brief, edits, stale>>
-----------------------------------------------------------------------------
(* People fill in what the brief did not say (external).  They may write to  *)
(* any field, and nothing validates what they write; the values are those of *)
(* the constants and of the briefs.                                          *)

Edit(d) ==
  /\ edits < MaxEdits /\ def.status # "none"
  /\ def' = d
  /\ edits' = edits + 1 /\ stale' = TRUE
  /\ UNCHANGED <<registry, brief, stored, vouched>>

EditTools ==
  \E p \in PolicyEdits, ts \in ToolEdits :
    Edit([def EXCEPT !.policy = p, !.tool_connection.tools = ts])

EditCaps == \E run, spend \in CapEdits :
              Edit([def EXCEPT !.run_cap = run, !.spend_cap = spend])

EditMemory == \E universal, structured \in BOOLEAN :
                Edit([def EXCEPT !.memory = [universal |-> universal,
                                             structured |-> structured]])

EditCompute == \E bs \in {b.compute : b \in Briefs}, capture, export \in BOOLEAN :
                 Edit([def EXCEPT !.compute = bs,
                                  !.observability = [browser_actions |-> capture,
                                                     remote_export |-> export]])

EditTriggers ==
  \E ts \in {b.triggers : b \in Briefs}, cs \in {b.connections : b \in Briefs} :
    Edit([def EXCEPT !.triggers = ts, !.tool_connection.conns = cs])

\* model_construct and assignment bypass what PrimitiveSet requires.
EditDrop == \E n \in def.names : Edit([def EXCEPT !.names = @ \ {n}])
-----------------------------------------------------------------------------
Next ==
  \/ \E t \in CustomTemplates : RegisterPrimitive(t)
  \/ Compose \/ ComposeAndRegister
  \/ \E sub \in BOOLEAN : Validate(sub)
  \/ Register
  \/ EditTools \/ EditCaps \/ EditMemory \/ EditCompute \/ EditTriggers \/ EditDrop

Spec == Init /\ [][Next]_vars
-----------------------------------------------------------------------------
(* Properties *)

\* The docstrings of selector and configurator promise that some invariants hold
\* by construction (configurator.py:147, 189).  Of a definition as composed, only
\* four kinds of errors are left, each for a reason the brief shows (or a built-in
\* template that was replaced), there is no warning, and a version is pinned for
\* every primitive present.
ByConstruction ==
  (def.status # "none" /\ edits = 0 /\ ~ stale) =>
    /\ "dependency" \in def.errors =>
         brief.extra # {} \/ \E n \in BuiltInNames : registry[n] # BuiltIn[n]
    /\ "channel" \in def.errors <=>
         \E c \in brief.triggers \cap Channels : brief.connections \cap Reaches[c] = {}
    /\ "vm" \in def.errors <=> "vm" \in brief.compute
    /\ "sub_agent" \in def.errors <=> brief.sub_agent /\ brief.triggers # {}
    /\ def.errors \subseteq {"dependency", "channel", "vm", "sub_agent"}
    /\ def.warnings = {}
    /\ {v[1] : v \in def.versions} = def.names

\* Whatever is registered or replaced, a dependency always has a template:
\* validate and resolve_dependencies never meet an unknown name.
RegistryGrounded ==
  /\ BuiltInNames \subseteq DOMAIN registry
  /\ \A n \in DOMAIN registry : registry[n].deps \subseteq DOMAIN registry

\* The loop of resolve_dependencies ends, cycles or not, and with the least closed
\* set; validate, which looks one level deep only, reports no gap exactly for the
\* sets that lack none of their transitive dependencies.
CompleteIsClosed ==
  LET w == ResolveDependencies(registry, def.names)
      all == w.resolved
      closed(S) == \A n \in S : registry[n].deps \subseteq S
  IN  /\ w.pending = {}
      /\ def.names \subseteq all /\ closed(all)
      /\ \A X \in SUBSET (all \ def.names) :
           closed(def.names \cup X) => X = all \ def.names
      /\ MissingDependencies(registry, def.names) = {} <=> all = def.names

\* What the run time relies on; of this it checks only "vm" itself (runtime.py:99).
Sound(d) ==
  /\ AlwaysRequired \subseteq d.names
  /\ d.run_cap <= d.spend_cap
  /\ \A n \in d.names : registry[n].deps \subseteq d.names
  /\ "memory" \in d.names /\ d.memory.structured => d.memory.universal
  /\ "compute" \in d.names => "vm" \notin d.compute
  /\ "trigger" \in d.names =>
       /\ brief.sub_agent => d.triggers = {}
       /\ \A c \in d.triggers \cap Channels :
            "tool_connection" \in d.names /\ d.tool_connection.conns \cap Reaches[c] # {}

\* What is registered is sound if nothing changed between its last validation and
\* its registration, and no template since: register looks only at the errors of
\* that validation, and a definition that was edited keeps them.
VouchedIsSound == (stored.status = "active" /\ vouched) => Sound(stored)

\* `requires_approval` is documented as "human must approve before execution"
\* (tool_connection.py:30), and validation is to see to it that every such tool is
\* covered by a policy that gates it (validator.py:140): the run time never allows
\* one outright, if its definition was validated as it is.
GateHolds ==
  (stored.status = "active" /\ vouched) =>
    \A t \in Tools(stored) :
      t.gated => Decision(stored.policy.default, stored.policy.overrides, Bare(t)) # "allow"
=============================================================================
