------------------------------ MODULE Primitives ------------------------------
(***************************************************************************)
(* agentwright/primitives: the templates of the nine built-in primitives   *)
(* and the registry's helpers on dependencies.  Of a template the model    *)
(* keeps its dependencies and its version; config schema and contract are  *)
(* descriptions.                                                           *)
(***************************************************************************)
EXTENDS Naturals, FiniteSets

Template(deps, version) == [deps |-> deps, version |-> version]

IdentityTemplate       == Template({}, 1)
MemoryTemplate         == Template({"identity"}, 2)
ReasoningLoopTemplate  == Template({"identity"}, 1)
ToolConnectionTemplate == Template({"identity", "permission"}, 1)
ComputeTemplate        == Template({"identity", "permission"}, 1)
TriggerTemplate        == Template({"identity", "reasoning_loop"}, 1)
GeneratedUITemplate    == Template({"identity"}, 1)
PermissionTemplate     == Template({"identity"}, 1)
ObservabilityTemplate  == Template({"identity"}, 1)

\* PRIMITIVE_REGISTRY as the module is loaded.
BuiltIn ==
  [identity        |-> IdentityTemplate,       memory        |-> MemoryTemplate,
   reasoning_loop  |-> ReasoningLoopTemplate,  compute       |-> ComputeTemplate,
   tool_connection |-> ToolConnectionTemplate, trigger       |-> TriggerTemplate,
   generated_ui    |-> GeneratedUITemplate,    permission    |-> PermissionTemplate,
   observability   |-> ObservabilityTemplate]

BuiltInNames == {"identity", "reasoning_loop", "permission", "observability",
                 "memory", "tool_connection", "compute", "trigger", "generated_ui"}

\* The primitives of names with a dependency that is not in names.
MissingDependencies(reg, names) == {n \in names : ~ reg[n].deps \subseteq names}

\* resolve_dependencies: resolved, and the names on the list pending.  The list is
\* kept as a set: list(names) has no order to rely on, and of a name that is on it
\* twice the second is skipped.  get_template finds every name (RegistryGrounded).
Work(reg) == [resolved : SUBSET DOMAIN reg, pending : SUBSET DOMAIN reg]

\* Mutants, for the runs: M_Definition is Definition with a bug.
M_Turn(reg, w) ==                \* without `if name in resolved: continue`
  IF w.pending = {} THEN w
  ELSE LET name == CHOOSE n \in w.pending : TRUE
       IN  [resolved |-> w.resolved \cup {name},
            pending  |-> (w.pending \ {name}) \cup reg[name].deps]

\* One turn of `while pending`; what has ended stays as it is.
Turn(reg, w) ==
  IF w.pending = {} THEN w
  ELSE LET name == CHOOSE n \in w.pending : TRUE
           rest == w.pending \ {name}
       IN  IF name \in w.resolved THEN [resolved |-> w.resolved, pending |-> rest]
           ELSE [resolved |-> w.resolved \cup {name},
                 pending  |-> rest \cup reg[name].deps]

\* What w becomes in at most k turns.
Resolving(reg) ==
  LET after[k \in Nat] ==
        [w \in Work(reg) |-> IF k = 0 \/ w.pending = {} THEN w
                             ELSE after[k-1][Turn(reg, w)]]
  IN  after

\* It should have ended by then: a turn resolves one name more, or takes one off
\* a list of at most all names.
EnoughTurns(reg) == (Cardinality(DOMAIN reg) + 1) * (Cardinality(DOMAIN reg) + 1)

\* It has returned, with resolved, if nothing is pending any more.
ResolveDependencies(reg, names) ==
  Resolving(reg)[EnoughTurns(reg)][[resolved |-> {}, pending |-> names]]
==========================================================================
