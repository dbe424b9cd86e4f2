-------------------------- MODULE CompositionProofs --------------------------
(***************************************************************************)
(* Definitions of agents, for any templates, briefs, connections, tools,   *)
(* edits and bounds.                                                       *)
(***************************************************************************)
EXTENDS Composition, FiniteSetTheorems, WellFoundedInduction, TLAPS

LEMMA BuiltInDomain == DOMAIN BuiltIn = BuiltInNames
BY DEF BuiltIn, BuiltInNames

LEMMA BuiltInDeps == \A n \in BuiltInNames :
                       /\ BuiltIn[n].deps \subseteq BuiltInNames
                       /\ BuiltIn[n].version \in Nat
BY DEF BuiltIn, BuiltInNames, Template, IdentityTemplate, ReasoningLoopTemplate,
       MemoryTemplate, ToolConnectionTemplate, ComputeTemplate, TriggerTemplate,
       GeneratedUITemplate, PermissionTemplate, ObservabilityTemplate

LEMMA BuiltInTyped ==
  BuiltIn \in [DOMAIN BuiltIn -> [deps : SUBSET Names, version : Nat]]
<1>1. BuiltIn = [n \in BuiltInNames |-> BuiltIn[n]]
  BY DEF BuiltIn, BuiltInNames
<1>2. \A n \in BuiltInNames : BuiltIn[n] = [deps |-> BuiltIn[n].deps, version |-> BuiltIn[n].version]
  BY DEF BuiltIn, BuiltInNames, Template, IdentityTemplate, ReasoningLoopTemplate,
       MemoryTemplate, ToolConnectionTemplate, ComputeTemplate, TriggerTemplate,
       GeneratedUITemplate, PermissionTemplate, ObservabilityTemplate
<1>3. BuiltInNames \subseteq Names
  BY DEF Names
<1> HIDE DEF BuiltIn
<1>4. \A n \in BuiltInNames : BuiltIn[n] \in [deps : SUBSET Names, version : Nat]
  <2> TAKE n \in BuiltInNames
  <2> DEFINE D == BuiltIn[n].deps
             v == BuiltIn[n].version
  <2>1. D \in SUBSET Names /\ v \in Nat
    BY <1>3, BuiltInDeps
  <2>2. BuiltIn[n] = [deps |-> D, version |-> v]
    BY <1>2
  <2> HIDE DEF D, v
  <2> QED
    BY <2>1, <2>2
<1>5. BuiltIn \in [BuiltInNames -> [deps : SUBSET Names, version : Nat]]
  <2> DEFINE F(n) == BuiltIn[n]
  <2>1. [n \in BuiltInNames |-> F(n)] \in [BuiltInNames -> [deps : SUBSET Names, version : Nat]]
    BY <1>4
  <2> QED
    BY <1>1, <2>1
<1> QED
  BY <1>5, BuiltInDomain

(***************************************************************************)
(* Definitions                                                             *)
(***************************************************************************)

LEMMA DefinitionFields ==
  ASSUME NEW d \in Definition
  PROVE  /\ d.names \in SUBSET Names /\ d.versions \in SUBSET (Names \X Nat)
         /\ d.run_cap \in Nat /\ d.spend_cap \in Nat
         /\ d.policy \in ActionPolicy /\ d.memory \in MemoryConfig
         /\ d.observability \in ObservabilityConfig
         /\ d.tool_connection \in ToolConnectionConfig
         /\ d.compute \in SUBSET Backends /\ d.triggers \in SUBSET TriggerTypes
         /\ d.errors \in SUBSET ErrorKinds /\ d.warnings \in SUBSET WarningKinds
         /\ d.status \in {"none", "draft", "validated", "active"}
BY DEF Definition

LEMMA ValidatedTyped ==
  ASSUME NEW d \in Definition, NEW sub \in BOOLEAN
  PROVE  /\ Validated(d, sub) \in Definition
         /\ Validated(d, sub).status \in {"draft", "validated"}
         /\ Validated(d, sub).errors = Errors(d, sub)
         /\ Validated(d, sub).warnings = Warnings(d)
<1>1. Errors(d, sub) \in SUBSET ErrorKinds /\ Warnings(d) \in SUBSET WarningKinds
  BY DEF Errors, Warnings
<1> QED
  BY <1>1 DEF Validated, Definition

LEMMA ActiveTyped ==
  ASSUME NEW d \in Definition
  PROVE  Active(d) \in Definition /\ Active(d).status = "active"
BY DEF Active, Definition

\* What validation looks at.
Same(d, e) ==
  /\ d.names = e.names /\ d.run_cap = e.run_cap /\ d.spend_cap = e.spend_cap
  /\ d.policy = e.policy /\ d.memory = e.memory
  /\ d.observability = e.observability /\ d.tool_connection = e.tool_connection
  /\ d.compute = e.compute /\ d.triggers = e.triggers

LEMMA SameVerdict ==
  ASSUME NEW d, NEW e, Same(d, e), NEW sub
  PROVE  /\ Errors(d, sub) = Errors(e, sub) /\ Warnings(d) = Warnings(e)
         /\ Sound(d) <=> Sound(e)
<1>1. Tools(d) = Tools(e)
  BY DEF Same, Tools
<1>2. /\ ToolUncovered(d) <=> ToolUncovered(e)
      /\ StateUnbacked(d) <=> StateUnbacked(e)
      /\ OverCap(d) <=> OverCap(e)
      /\ SelfTriggered(d, sub) <=> SelfTriggered(e, sub)
      /\ ChannelUnbacked(d) <=> ChannelUnbacked(e)
      /\ VmAsked(d) <=> VmAsked(e)
      /\ BrowserUnseen(d) <=> BrowserUnseen(e)
      /\ ExportUnbacked(d) <=> ExportUnbacked(e)
  BY <1>1 DEF Same, ToolUncovered, StateUnbacked, OverCap, SelfTriggered,
     ChannelUnbacked, VmAsked, BrowserUnseen, ExportUnbacked
<1>3. d.names = e.names
  BY DEF Same
<1>4. Errors(d, sub) = Errors(e, sub)
  BY <1>2, <1>3 DEF Errors
<1>5. Warnings(d) = Warnings(e)
  BY <1>2 DEF Warnings
<1>6. Sound(d) <=> Sound(e)
  BY DEF Same, Sound
<1> QED
  BY <1>4, <1>5, <1>6

LEMMA ValidatedSame ==
  ASSUME NEW d \in Definition, NEW sub
  PROVE  /\ Same(Validated(d, sub), d) /\ Validated(d, sub).versions = d.versions
         /\ Same(Active(d), d) /\ Active(d).versions = d.versions
         /\ Active(d).errors = d.errors /\ Active(d).warnings = d.warnings
BY DEF Validated, Active, Same, Definition

(***************************************************************************)
(* Numbers                                                                 *)
(***************************************************************************)

LEMMA Smallest ==
  ASSUME NEW S \in SUBSET Nat, S # {}
  PROVE  \E i \in S : \A j \in S : i <= j
<1>1. IsWellFoundedOn(OpToRel(<, Nat), Nat)
  BY NatLessThanWellFounded
<1>2. PICK i \in S : \A j \in S : ~ (<<j, i>> \in OpToRel(<, Nat))
  BY <1>1, WFMin
<1>3. \A j \in S : <<j, i>> \in OpToRel(<, Nat) <=> j < i
  BY DEF OpToRel
<1>4. \A j \in S : i <= j
  <2> TAKE j \in S
  <2>1. ~ (j < i) /\ i \in Nat /\ j \in Nat
    BY <1>2, <1>3
  <2> QED
    BY <2>1
<1> QED
  BY <1>4

LEMMA NoErrorsIsSound ==
  ASSUME NEW d \in Definition, Errors(d, brief.sub_agent) = {}
  PROVE  Sound(d)
<1>1. /\ MissingDependencies(registry, d.names) = {}
      /\ AlwaysRequired \subseteq d.names
      /\ ~ ToolUncovered(d)
      /\ ~ StateUnbacked(d)
      /\ ~ OverCap(d)
      /\ ~ SelfTriggered(d, brief.sub_agent)
      /\ ~ ChannelUnbacked(d)
      /\ ~ VmAsked(d)
  BY DEF Errors, ErrorKinds
<1>2. \A n \in d.names : registry[n].deps \subseteq d.names
  BY <1>1 DEF MissingDependencies
<1>3. "memory" \in d.names /\ d.memory.structured => d.memory.universal
  BY <1>1 DEF StateUnbacked
<1>4. d.run_cap <= d.spend_cap
  BY <1>1, DefinitionFields DEF OverCap, AlwaysRequired
<1>5. "compute" \in d.names => "vm" \notin d.compute
  BY <1>1 DEF VmAsked
<1>6. ASSUME "trigger" \in d.names
      PROVE  /\ brief.sub_agent => d.triggers = {}
             /\ \A c \in d.triggers \cap Channels :
                  "tool_connection" \in d.names /\ d.tool_connection.conns \cap Reaches[c] # {}
  BY <1>1, <1>6 DEF SelfTriggered, ChannelUnbacked
<1> QED
  BY <1>1, <1>2, <1>3, <1>4, <1>5, <1>6 DEF Sound

(***************************************************************************)
(* The definition as it is composed                                        *)
(***************************************************************************)

LEMMA BriefFields ==
  ASSUME NEW b \in DomainBrief
  PROVE  /\ b.cap \in Nat /\ b.approvals \in Seq(SUBSET Actions)
         /\ b.connections \in SUBSET ConnIds /\ b.compute \in SUBSET Backends
         /\ b.triggers \in SUBSET TriggerTypes /\ b.sub_agent \in BOOLEAN
         /\ b.extra \in SUBSET Names
BY DEF DomainBrief

LEMMA BuiltPolicy == ASSUME NEW b \in DomainBrief PROVE BuildPolicy(b) \in ActionPolicy
<1> DEFINE o(i) == [matches |-> b.approvals[i], policy |-> "require_approval"]
           n == Len(b.approvals)
<1>1. n \in Nat /\ DOMAIN b.approvals = 1..n /\ \A i \in 1..n : b.approvals[i] \in SUBSET Actions
  BY BriefFields
<1>2. \A i \in 1..n : o(i) \in Override(Actions)
  BY <1>1 DEF Override, Policies
<1> HIDE DEF o
<1>3. [i \in 1..n |-> o(i)] \in Seq(Override(Actions))
  BY <1>1, <1>2
<1>4. [i \in DOMAIN b.approvals |-> o(i)] \in Seq(Override(Actions))
  BY <1>1, <1>3
<1>5. BuildPolicy(b) = [default |-> "require_approval",
                        overrides |-> [i \in DOMAIN b.approvals |-> o(i)]]
  BY DEF BuildPolicy, o
<1> QED
  BY <1>4, <1>5 DEF ActionPolicy, Policies

LEMMA Selected ==
  ASSUME NEW b \in DomainBrief, RegistryGrounded, Buildable(b)
  PROVE  /\ Select(b) \in SUBSET Names /\ Select(b) \subseteq DOMAIN registry
         /\ AlwaysRequired \subseteq Select(b)
<1>1. AlwaysRequired \subseteq BuiltInNames /\ Implied(b) \subseteq BuiltInNames
  BY DEF AlwaysRequired, Implied, BuiltInNames
<1>2. BuiltInNames \subseteq Names /\ b.extra \subseteq Names
  BY BriefFields DEF Names
<1> QED
  BY <1>1, <1>2 DEF Select, RegistryGrounded, Buildable

\* d agrees with brief b, in what only configure and people set.
AsConfigured(d, b) ==
  /\ d.names = Select(b)
  /\ {v[1] : v \in d.versions} = d.names
  /\ d.run_cap = b.cap /\ d.spend_cap = b.cap
  /\ d.policy = BuildPolicy(b) /\ d.memory = BuildMemory(b)
  /\ d.observability = BuildObservability(b)
  /\ d.tool_connection = BuildToolConnection(b)
  /\ d.compute = b.compute /\ d.triggers = b.triggers

LEMMA Configured ==
  ASSUME NEW b \in DomainBrief, TypeOK, RegistryGrounded, Buildable(b)
  PROVE  Configure(b) \in Definition /\ AsConfigured(Configure(b), b)
<1> DEFINE vs == {<<n, registry[n].version>> : n \in Select(b)}
<1>1. vs \in SUBSET (Names \X Nat)
  <2>1. \A n \in Select(b) : n \in Names /\ registry[n] \in [deps : SUBSET Names, version : Nat]
    BY Selected DEF TypeOK
  <2> QED
    BY <2>1
<1>2. {v[1] : v \in vs} = Select(b)
  <2> DEFINE pair(n) == <<n, registry[n].version>>
  <2>1. \A n \in Select(b) : pair(n)[1] = n
    OBVIOUS
  <2>2. vs = {pair(n) : n \in Select(b)}
    OBVIOUS
  <2> HIDE DEF vs, pair
  <2> QED
    BY <2>1, <2>2
<1>3. BuildPolicy(b) \in ActionPolicy /\ BuildMemory(b) \in MemoryConfig
  BY BuiltPolicy DEF BuildMemory, MemoryConfig
<1>4. /\ BuildObservability(b) \in ObservabilityConfig
      /\ BuildToolConnection(b) \in ToolConnectionConfig
  BY BriefFields DEF BuildObservability, ObservabilityConfig, BuildToolConnection,
     ToolConnectionConfig
<1>5. /\ b.cap \in Nat /\ b.compute \in SUBSET Backends /\ b.triggers \in SUBSET TriggerTypes
      /\ Select(b) \in SUBSET Names
  BY BriefFields, Selected
<1> HIDE DEF vs
<1>6. Configure(b) =
        [names |-> Select(b), versions |-> vs, run_cap |-> b.cap, spend_cap |-> b.cap,
         policy |-> BuildPolicy(b), memory |-> BuildMemory(b),
         observability |-> BuildObservability(b),
         tool_connection |-> BuildToolConnection(b), compute |-> b.compute,
         triggers |-> b.triggers, errors |-> {}, warnings |-> {}, status |-> "draft"]
  BY DEF Configure, BuildCompute, BuildTrigger, vs
<1> QED
  BY <1>1, <1>2, <1>3, <1>4, <1>5, <1>6 DEF Definition, AsConfigured

LEMMA ComposedTyped ==
  ASSUME NEW b \in DomainBrief, TypeOK, RegistryGrounded, Buildable(b)
  PROVE  /\ Composed(b) \in Definition /\ AsConfigured(Composed(b), b)
         /\ Composed(b).status # "none"
         /\ Composed(b).errors = Errors(Composed(b), b.sub_agent)
         /\ Composed(b).warnings = Warnings(Composed(b))
         /\ Composed(b).names \subseteq DOMAIN registry
<1> DEFINE c == Configure(b)
           sub == b.sub_agent
<1>1. c \in Definition /\ AsConfigured(c, b) /\ sub \in BOOLEAN
  BY Configured, BriefFields
<1> HIDE DEF c, sub
<1>2. /\ Validated(c, sub) \in Definition
      /\ Validated(c, sub).status # "none"
      /\ Validated(c, sub).errors = Errors(c, sub)
      /\ Validated(c, sub).warnings = Warnings(c)
  BY <1>1, ValidatedTyped
<1>3. Same(Validated(c, sub), c) /\ Validated(c, sub).versions = c.versions
  BY <1>1, ValidatedSame
<1>4. Errors(c, sub) = Errors(Validated(c, sub), sub) /\ Warnings(c) = Warnings(Validated(c, sub))
  BY <1>3, SameVerdict
<1>5. AsConfigured(Validated(c, sub), b)
  BY <1>1, <1>3 DEF AsConfigured, Same
<1>6. Composed(b) = Validated(c, sub)
  BY DEF Composed, c, sub
<1>7. Validated(c, sub).names \subseteq DOMAIN registry
  BY <1>5, Selected DEF AsConfigured
<1> QED
  BY <1>2, <1>4, <1>5, <1>6, <1>7 DEF sub

(***************************************************************************)
(* The invariant: an error list that is not stale is the validator's, a    *)
(* definition nobody edited is the configurator's, and what is vouched for *)
(* had no errors.                                                          *)
(***************************************************************************)

Fresh == (def.status # "none" /\ ~ stale) =>
           /\ def.errors = Errors(def, brief.sub_agent)
           /\ def.warnings = Warnings(def)

AsBuilt == (def.status # "none" /\ edits = 0) => AsConfigured(def, brief)

IInv == TypeOK /\ RegistryGrounded /\ Fresh /\ AsBuilt /\ VouchedIsSound

LEMMA BriefTyped == ASSUME TypeOK PROVE brief \in DomainBrief
BY CompositionAssumption DEF TypeOK

LEMMA InitInvariant == Init => IInv
<1> SUFFICES ASSUME Init PROVE IInv
  OBVIOUS
<1>1. registry = BuiltIn /\ def = NoDefinition /\ stored = NoDefinition
  BY DEF Init
<1>2. DOMAIN registry \subseteq Names
  BY <1>1, BuiltInDomain DEF Names
<1>3. registry \in [DOMAIN registry -> [deps : SUBSET Names, version : Nat]]
  BY <1>1, BuiltInTyped
<1>4. NoDefinition \in Definition
  <2>1. <<>> \in Seq(Override(Actions))
    OBVIOUS
  <2> QED
    BY <2>1 DEF NoDefinition, Definition, ActionPolicy, Policies, MemoryConfig,
       ObservabilityConfig, ToolConnectionConfig
<1>5. NoDefinition.status = "none" /\ NoDefinition.names = {}
  BY DEF NoDefinition
<1>6. TypeOK
  <2>1. /\ brief \in Briefs /\ edits = 0 /\ stale = FALSE /\ vouched = FALSE
    BY DEF Init
  <2>2. 0 \in 0..MaxEdits
    BY CompositionAssumption
  <2>3. def \in Definition /\ stored \in Definition /\ stored.status = "none"
        /\ def.names = {} /\ stored.names = {}
    BY <1>1, <1>4, <1>5
  <2> QED
    BY <1>2, <1>3, <2>1, <2>2, <2>3 DEF TypeOK
<1>7. RegistryGrounded
  BY <1>1, BuiltInDomain, BuiltInDeps DEF RegistryGrounded
<1> QED
  BY <1>1, <1>5, <1>6, <1>7 DEF Init, IInv, Fresh, AsBuilt, VouchedIsSound

\* A new definition in memory, of the same primitives or fewer, or composed.
LEMMA NewDefinition ==
  ASSUME IInv, UNCHANGED <<registry, brief>>,
         def' \in Definition, def'.names \subseteq DOMAIN registry,
         stored' \in Definition, stored'.status \in {"none", "active"},
         stored'.names \subseteq DOMAIN registry,
         edits' \in 0..MaxEdits, stale' \in BOOLEAN, vouched' \in BOOLEAN
  PROVE  TypeOK' /\ RegistryGrounded'
BY DEF IInv, TypeOK, RegistryGrounded

LEMMA RegisterPrimitiveKeeps ==
  ASSUME IInv, NEW t \in CustomTemplates, RegisterPrimitive(t) PROVE IInv'
<1> DEFINE tt == Template(t.deps, t.version)
           D == DOMAIN registry
<1>1. t.name \in Names /\ tt \in [deps : SUBSET Names, version : Nat] /\ tt.deps = t.deps
  BY CompositionAssumption DEF Names, Template
<1>2. t.deps \subseteq D
  BY DEF RegisterPrimitive
<1>3. registry' = [n \in D \cup {t.name} |-> IF n = t.name THEN tt ELSE registry[n]]
  BY DEF RegisterPrimitive
<1> HIDE DEF tt
<1>4. DOMAIN registry' = D \cup {t.name}
  BY <1>3
<1>5. \A n \in D : n # t.name => registry'[n] = registry[n]
  BY <1>3
<1>6. registry' \in [D \cup {t.name} -> [deps : SUBSET Names, version : Nat]]
  BY <1>1, <1>3 DEF IInv, TypeOK
<1>7. TypeOK'
  <2>1. UNCHANGED <<brief, def, stored, edits>> /\ stale' \in BOOLEAN /\ vouched' \in BOOLEAN
    BY DEF RegisterPrimitive, IInv, TypeOK
  <2> QED
    BY <2>1, <1>1, <1>4, <1>6 DEF IInv, TypeOK
<1>8. RegistryGrounded'
  BY <1>1, <1>2, <1>3, <1>4, <1>5 DEF IInv, RegistryGrounded
<1>9. Fresh'
  <2> SUFFICES ASSUME def'.status # "none", ~ stale'
               PROVE  def'.errors = Errors(def, brief.sub_agent)'
                        /\ def'.warnings = Warnings(def)'
    BY DEF Fresh
  <2>1. def' = def /\ brief' = brief /\ ~ stale /\ t.name \notin D
    BY DEF RegisterPrimitive
  <2>2. \A n \in def.names : registry'[n] = registry[n]
    BY <2>1, <1>5 DEF IInv, TypeOK
  <2>3. MissingDependencies(registry', def.names) = MissingDependencies(registry, def.names)
    BY <2>2 DEF MissingDependencies
  <2>4. Errors(def, brief.sub_agent)' = Errors(def, brief.sub_agent)
    BY <2>1, <2>3 DEF Errors, ToolUncovered, Tools, StateUnbacked, OverCap, SelfTriggered,
       ChannelUnbacked, VmAsked
  <2>5. Warnings(def)' = Warnings(def)
    BY <2>1
  <2> QED
    BY <2>1, <2>4, <2>5 DEF IInv, Fresh
<1>10. AsBuilt'
  BY DEF RegisterPrimitive, IInv, AsBuilt
<1>11. VouchedIsSound'
  <2> SUFFICES ASSUME stored'.status = "active", vouched' PROVE Sound(stored)'
    BY DEF VouchedIsSound
  <2>1. stored' = stored /\ brief' = brief /\ vouched /\ t.name \notin D
    BY DEF RegisterPrimitive
  <2>2. Sound(stored)
    BY <2>1 DEF IInv, VouchedIsSound
  <2>3. \A n \in stored.names : registry'[n] = registry[n]
    BY <2>1, <1>5 DEF IInv, TypeOK
  <2>4. Sound(stored)'
    BY <2>1, <2>2, <2>3 DEF Sound
  <2> QED
    BY <2>1, <2>2, <2>4
<1> QED
  BY <1>7, <1>8, <1>9, <1>10, <1>11 DEF IInv

\* Compose and ComposeAndRegister; both leave registry and brief alone.
LEMMA ComposeKeeps == ASSUME IInv, Compose PROVE IInv'
<1>1. /\ def' = Composed(brief) /\ Buildable(brief)
      /\ UNCHANGED <<registry, brief, stored, edits, stale, vouched>>
  BY DEF Compose
<1>2. /\ def' \in Definition /\ AsConfigured(def', brief)
      /\ def'.errors = Errors(def', brief.sub_agent) /\ def'.warnings = Warnings(def')
      /\ def'.names \subseteq DOMAIN registry
  BY <1>1, ComposedTyped, BriefTyped DEF IInv
<1>3. TypeOK' /\ RegistryGrounded'
  BY <1>1, <1>2, NewDefinition DEF IInv, TypeOK
<1>4. Fresh'
  BY <1>1, <1>2 DEF Fresh, Errors, Warnings
<1>5. AsBuilt'
  BY <1>1, <1>2 DEF AsBuilt, AsConfigured
<1>6. VouchedIsSound'
  BY <1>1 DEF IInv, VouchedIsSound, Sound
<1> QED
  BY <1>3, <1>4, <1>5, <1>6 DEF IInv

LEMMA ComposeAndRegisterKeeps == ASSUME IInv, ComposeAndRegister PROVE IInv'
<1> DEFINE c == Composed(brief)
<1>1. /\ def' = Active(c) /\ stored' = Active(c) /\ vouched' = TRUE
      /\ Buildable(brief) /\ c.errors = {}
      /\ UNCHANGED <<registry, brief, edits, stale>>
  BY DEF ComposeAndRegister
<1>2. /\ c \in Definition /\ AsConfigured(c, brief)
      /\ c.errors = Errors(c, brief.sub_agent) /\ c.warnings = Warnings(c)
      /\ c.names \subseteq DOMAIN registry
  BY <1>1, ComposedTyped, BriefTyped DEF IInv
<1> HIDE DEF c
<1>3. /\ Active(c) \in Definition /\ Active(c).status = "active"
      /\ Same(Active(c), c) /\ Active(c).versions = c.versions
      /\ Active(c).errors = c.errors /\ Active(c).warnings = c.warnings
  BY <1>2, ActiveTyped, ValidatedSame
<1>4. Active(c).names = c.names
  BY <1>3 DEF Same
<1>5. TypeOK' /\ RegistryGrounded'
  BY <1>1, <1>2, <1>3, <1>4, NewDefinition DEF IInv, TypeOK
<1>6. /\ Errors(Active(c), brief.sub_agent) = Errors(c, brief.sub_agent)
      /\ Warnings(Active(c)) = Warnings(c) /\ (Sound(Active(c)) <=> Sound(c))
  BY <1>3, SameVerdict
<1>7. Fresh'
  <2>1. Errors(def, brief.sub_agent)' = Errors(def', brief.sub_agent)
    BY <1>1 DEF Errors
  <2>2. Warnings(def)' = Warnings(def')
    BY DEF Warnings
  <2>3. def'.errors = Errors(def', brief.sub_agent) /\ def'.warnings = Warnings(def')
    BY <1>1, <1>2, <1>3, <1>6
  <2>4. def'.errors = Errors(def, brief.sub_agent)' /\ def'.warnings = Warnings(def)'
    BY <2>1, <2>2, <2>3
  <2> QED
    BY <2>4 DEF Fresh
<1>8. AsBuilt'
  BY <1>1, <1>2, <1>3 DEF AsBuilt, AsConfigured, Same
<1>9. Sound(c)
  BY <1>1, <1>2, NoErrorsIsSound
<1>10. VouchedIsSound'
  BY <1>1, <1>6, <1>9 DEF VouchedIsSound, Sound
<1> QED
  BY <1>5, <1>7, <1>8, <1>10 DEF IInv

LEMMA ValidateKeeps == ASSUME IInv, NEW sub \in BOOLEAN, Validate(sub) PROVE IInv'
<1>1. /\ def' = Validated(def, sub) /\ stale' = (sub # brief.sub_agent)
      /\ def.status # "none"
      /\ UNCHANGED <<registry, brief, stored, edits, vouched>>
  BY DEF Validate
<1>2. def \in Definition /\ def.names \subseteq DOMAIN registry
  BY DEF IInv, TypeOK
<1>3. /\ def' \in Definition /\ def'.status # "none"
      /\ def'.errors = Errors(def, sub) /\ def'.warnings = Warnings(def)
      /\ Same(def', def) /\ def'.versions = def.versions
  BY <1>1, <1>2, ValidatedTyped, ValidatedSame
<1>4. Errors(def', sub) = Errors(def, sub) /\ Warnings(def') = Warnings(def)
  BY <1>3, SameVerdict
<1>5. def'.names = def.names
  BY <1>3 DEF Same
<1>6. TypeOK' /\ RegistryGrounded'
  BY <1>1, <1>2, <1>3, <1>5, NewDefinition DEF IInv, TypeOK
<1>7. Fresh'
  BY <1>1, <1>3, <1>4 DEF Fresh, Errors, Warnings
<1>8. AsBuilt'
  BY <1>1, <1>3 DEF IInv, AsBuilt, AsConfigured, Same
<1>9. VouchedIsSound'
  BY <1>1 DEF IInv, VouchedIsSound, Sound
<1> QED
  BY <1>6, <1>7, <1>8, <1>9 DEF IInv

LEMMA RegisterKeeps == ASSUME IInv, Register PROVE IInv'
<1>1. /\ def' = Active(def) /\ stored' = Active(def) /\ vouched' = ~ stale
      /\ def.status # "none" /\ def.errors = {}
      /\ UNCHANGED <<registry, brief, edits, stale>>
  BY DEF Register
<1>2. def \in Definition /\ def.names \subseteq DOMAIN registry
  BY DEF IInv, TypeOK
<1>3. /\ def' \in Definition /\ def'.status = "active"
      /\ Same(def', def) /\ def'.versions = def.versions
      /\ def'.errors = def.errors /\ def'.warnings = def.warnings
  BY <1>1, <1>2, ActiveTyped, ValidatedSame
<1>4. def'.names = def.names
  BY <1>3 DEF Same
<1>5. TypeOK' /\ RegistryGrounded'
  BY <1>1, <1>2, <1>3, <1>4, NewDefinition DEF IInv, TypeOK
<1>6. /\ Errors(def', brief.sub_agent) = Errors(def, brief.sub_agent)
      /\ Warnings(def') = Warnings(def) /\ (Sound(def') <=> Sound(def))
  BY <1>3, SameVerdict
<1>7. Fresh'
  <2>1. Errors(def, brief.sub_agent)' = Errors(def', brief.sub_agent)
    BY <1>1 DEF Errors
  <2>2. Warnings(def)' = Warnings(def')
    BY DEF Warnings
  <2>3. ASSUME ~ stale
        PROVE  def'.errors = Errors(def', brief.sub_agent) /\ def'.warnings = Warnings(def')
    BY <1>1, <1>3, <1>6, <2>3 DEF IInv, Fresh
  <2>4. ~ stale => def'.errors = Errors(def, brief.sub_agent)' /\ def'.warnings = Warnings(def)'
    BY <2>1, <2>2, <2>3
  <2> QED
    BY <1>1, <2>4 DEF Fresh
<1>8. AsBuilt'
  BY <1>1, <1>3 DEF IInv, AsBuilt, AsConfigured, Same
<1>9. VouchedIsSound'
  <2> SUFFICES ASSUME ~ stale PROVE Sound(def')
    BY <1>1 DEF VouchedIsSound, Sound
  <2>1. Errors(def, brief.sub_agent) = {}
    BY <1>1 DEF IInv, Fresh
  <2> QED
    BY <1>2, <1>6, <2>1, NoErrorsIsSound
<1> QED
  BY <1>5, <1>7, <1>8, <1>9 DEF IInv

LEMMA EditKeeps ==
  ASSUME IInv, NEW d \in Definition, d.names \subseteq def.names, Edit(d) PROVE IInv'
<1>1. /\ def' = d /\ edits < MaxEdits /\ edits' = edits + 1 /\ stale' = TRUE
      /\ UNCHANGED <<registry, brief, stored, vouched>>
  BY DEF Edit
<1>2. edits' \in 0..MaxEdits /\ edits' # 0
  BY <1>1, CompositionAssumption DEF IInv, TypeOK
<1>3. TypeOK' /\ RegistryGrounded'
  BY <1>1, <1>2, NewDefinition DEF IInv, TypeOK
<1>4. Fresh' /\ AsBuilt'
  BY <1>1, <1>2 DEF Fresh, AsBuilt
<1>5. VouchedIsSound'
  BY <1>1 DEF IInv, VouchedIsSound, Sound
<1> QED
  BY <1>3, <1>4, <1>5 DEF IInv

LEMMA EditsKeep ==
  ASSUME IInv,
         EditTools \/ EditCaps \/ EditMemory \/ EditCompute \/ EditTriggers \/ EditDrop
  PROVE  IInv'
<1>1. def \in Definition
  BY DEF IInv, TypeOK
<1>2. CASE EditTools
  <2>1. PICK p \in PolicyEdits, ts \in ToolEdits :
               Edit([def EXCEPT !.policy = p, !.tool_connection.tools = ts])
    BY <1>2 DEF EditTools
  <2>2. p \in ActionPolicy /\ ts \in SUBSET Tool
    BY CompositionAssumption
  <2> DEFINE d == [def EXCEPT !.policy = p, !.tool_connection.tools = ts]
  <2>3. d \in Definition /\ d.names = def.names
    BY <1>1, <2>2 DEF Definition, ToolConnectionConfig
  <2> QED
    BY <2>1, <2>3, EditKeeps
<1>3. CASE EditCaps
  <2>1. PICK run \in CapEdits, spend \in CapEdits :
               Edit([def EXCEPT !.run_cap = run, !.spend_cap = spend])
    BY <1>3 DEF EditCaps
  <2>2. run \in Nat /\ spend \in Nat
    BY CompositionAssumption
  <2> DEFINE d == [def EXCEPT !.run_cap = run, !.spend_cap = spend]
  <2>3. d \in Definition /\ d.names = def.names
    BY <1>1, <2>2 DEF Definition
  <2> QED
    BY <2>1, <2>3, EditKeeps
<1>4. CASE EditMemory
  <2>1. PICK u \in BOOLEAN, s \in BOOLEAN :
               Edit([def EXCEPT !.memory = [universal |-> u, structured |-> s]])
    BY <1>4 DEF EditMemory
  <2> DEFINE d == [def EXCEPT !.memory = [universal |-> u, structured |-> s]]
  <2>2. [universal |-> u, structured |-> s] \in MemoryConfig
    BY DEF MemoryConfig
  <2>3. d \in Definition /\ d.names = def.names
    BY <1>1, <2>2 DEF Definition
  <2> QED
    BY <2>1, <2>3, EditKeeps
<1>5. CASE EditCompute
  <2>1. PICK bs \in {b.compute : b \in Briefs}, c \in BOOLEAN, x \in BOOLEAN :
               Edit([def EXCEPT !.compute = bs,
                                !.observability = [browser_actions |-> c,
                                                   remote_export |-> x]])
    BY <1>5 DEF EditCompute
  <2> DEFINE o == [browser_actions |-> c, remote_export |-> x]
             d == [def EXCEPT !.compute = bs, !.observability = o]
  <2>2. o \in ObservabilityConfig /\ bs \in SUBSET Backends
    BY BriefFields, CompositionAssumption DEF ObservabilityConfig
  <2>3. Edit(d)
    BY <2>1
  <2> HIDE DEF o
  <2>4. d \in Definition /\ d.names = def.names
    BY <1>1, <2>2 DEF Definition
  <2> HIDE DEF d
  <2> QED
    BY <2>3, <2>4, EditKeeps
<1>6. CASE EditTriggers
  <2>1. PICK ts \in {b.triggers : b \in Briefs}, cs \in {b.connections : b \in Briefs} :
               Edit([def EXCEPT !.triggers = ts, !.tool_connection.conns = cs])
    BY <1>6 DEF EditTriggers
  <2>2. ts \in SUBSET TriggerTypes /\ cs \in SUBSET ConnIds
    BY BriefFields, CompositionAssumption
  <2> DEFINE d == [def EXCEPT !.triggers = ts, !.tool_connection.conns = cs]
  <2>3. d \in Definition /\ d.names = def.names
    BY <1>1, <2>2 DEF Definition, ToolConnectionConfig
  <2> QED
    BY <2>1, <2>3, EditKeeps
<1>7. CASE EditDrop
  <2>1. PICK n \in def.names : Edit([def EXCEPT !.names = def.names \ {n}])
    BY <1>7 DEF EditDrop
  <2> DEFINE d == [def EXCEPT !.names = def.names \ {n}]
  <2>2. d \in Definition /\ d.names \subseteq def.names
    BY <1>1 DEF Definition
  <2> QED
    BY <2>1, <2>2, EditKeeps
<1> QED
  BY <1>2, <1>3, <1>4, <1>5, <1>6, <1>7

LEMMA StepInvariant == ASSUME IInv, [Next]_vars PROVE IInv'
<1>1. CASE UNCHANGED vars
  BY <1>1 DEF vars, IInv, TypeOK, RegistryGrounded, Fresh, AsBuilt, VouchedIsSound, Sound,
     Errors, Warnings, AsConfigured
<1>2. CASE Next
  BY <1>2, RegisterPrimitiveKeeps, ComposeKeeps, ComposeAndRegisterKeeps, ValidateKeeps,
     RegisterKeeps, EditsKeep DEF Next
<1> QED
  BY <1>1, <1>2

THEOREM InductiveInvariant == Spec => []IInv
BY InitInvariant, StepInvariant, PTL DEF Spec

\* The state of one agent's definition, whatever its brief and the templates.
THEOREM TypeCorrect == Spec => []TypeOK
BY InductiveInvariant, PTL DEF IInv

\* No registration or replacement of a template leaves a dependency without one.
THEOREM RegistryGroundedHolds == Spec => []RegistryGrounded
BY InductiveInvariant, PTL DEF IInv

\* What is registered right after it was validated is what the run time relies on.
THEOREM VouchedIsSoundHolds == Spec => []VouchedIsSound
BY InductiveInvariant, PTL DEF IInv

(***************************************************************************)
(* What holds by construction                                              *)
(***************************************************************************)

\* With the templates that are built in, what the matrix selects is complete.
LEMMA SelectionComplete ==
  ASSUME NEW b \in DomainBrief, b.extra = {},
         \A n \in BuiltInNames : registry[n] = BuiltIn[n]
  PROVE  MissingDependencies(registry, Select(b)) = {}
<1>1. Select(b) \subseteq BuiltInNames /\ AlwaysRequired \subseteq Select(b)
  BY DEF Select, AlwaysRequired, Implied, BuiltInNames
<1>2. \A n \in BuiltInNames : BuiltIn[n].deps \subseteq AlwaysRequired
  BY DEF BuiltIn, BuiltInNames, Template, IdentityTemplate, ReasoningLoopTemplate,
     MemoryTemplate, ToolConnectionTemplate, ComputeTemplate, TriggerTemplate,
     GeneratedUITemplate, PermissionTemplate, ObservabilityTemplate, AlwaysRequired
<1>3. \A n \in Select(b) : registry[n].deps \subseteq Select(b)
  BY <1>1, <1>2
<1> QED
  BY <1>3 DEF MissingDependencies

LEMMA NoneByConstruction ==
  ASSUME NEW d \in Definition, NEW b \in DomainBrief, AsConfigured(d, b)
  PROVE  /\ AlwaysRequired \subseteq d.names /\ ~ ToolUncovered(d)
         /\ ~ StateUnbacked(d) /\ ~ OverCap(d) /\ ~ BrowserUnseen(d) /\ ~ ExportUnbacked(d)
<1>1. AlwaysRequired \subseteq d.names
  BY DEF AsConfigured, Select
<1>2. d.tool_connection.tools = {}
  BY DEF AsConfigured, BuildToolConnection
<1>3. ~ ToolUncovered(d)
  BY <1>2 DEF ToolUncovered, Tools
<1>4. ~ StateUnbacked(d)
  <2>1. ~ d.memory.structured
    BY DEF AsConfigured, BuildMemory
  <2> QED
    BY <2>1, Zenon DEF StateUnbacked
<1>5. ~ OverCap(d)
  <2>1. d.run_cap = b.cap /\ d.spend_cap = b.cap /\ b.cap \in Nat
    BY BriefFields DEF AsConfigured
  <2>2. ~ (d.run_cap > d.spend_cap)
    BY <2>1
  <2> QED
    BY <2>2, Zenon DEF OverCap
<1>6. ~ BrowserUnseen(d) /\ ~ ExportUnbacked(d)
  <2>1. d.compute = b.compute /\ d.observability = BuildObservability(b)
    BY DEF AsConfigured
  <2>2. /\ d.observability.browser_actions = ("browser" \in b.compute)
        /\ d.observability.remote_export = FALSE
    BY <2>1 DEF BuildObservability
  <2> QED
    BY <2>1, <2>2, Zenon DEF BrowserUnseen, ExportUnbacked
<1> QED
  BY <1>1, <1>3, <1>4, <1>5, <1>6

LEMMA SomeByTheBrief ==
  ASSUME NEW d \in Definition, NEW b \in DomainBrief, AsConfigured(d, b)
  PROVE  /\ ChannelUnbacked(d) <=>
              \E c \in b.triggers \cap Channels : b.connections \cap Reaches[c] = {}
         /\ VmAsked(d) <=> "vm" \in b.compute
         /\ SelfTriggered(d, b.sub_agent) <=> b.sub_agent /\ b.triggers # {}
<1>1. /\ d.compute = b.compute /\ d.triggers = b.triggers
      /\ d.tool_connection.conns = b.connections
      /\ d.names = Select(b)
  BY DEF AsConfigured, BuildToolConnection
<1>2. /\ b.compute # {} => "compute" \in d.names
      /\ b.triggers # {} => "trigger" \in d.names
      /\ b.triggers \cap Channels # {} => "tool_connection" \in d.names
  BY <1>1 DEF Select, Implied, BuiltInNames
<1>3. VmAsked(d) <=> "vm" \in b.compute
  BY <1>1, <1>2 DEF VmAsked
<1>4. SelfTriggered(d, b.sub_agent) <=> b.sub_agent /\ b.triggers # {}
  BY <1>1, <1>2, Zenon DEF SelfTriggered
<1>5. ChannelUnbacked(d) <=>
        \E c \in b.triggers \cap Channels : b.connections \cap Reaches[c] = {}
  BY <1>1, <1>2 DEF ChannelUnbacked
<1> QED
  BY <1>3, <1>4, <1>5

LEMMA BuiltByConstruction == IInv => ByConstruction
<1> SUFFICES ASSUME IInv, def.status # "none", edits = 0, ~ stale PROVE ByConstruction
  BY DEF ByConstruction
<1> DEFINE sub == brief.sub_agent
<1>1. /\ def \in Definition /\ brief \in DomainBrief /\ AsConfigured(def, brief)
      /\ def.errors = Errors(def, sub) /\ def.warnings = Warnings(def)
  BY BriefTyped DEF IInv, TypeOK, Fresh, AsBuilt
<1> HIDE DEF sub
<1>2. /\ "dependency" \in def.errors <=> MissingDependencies(registry, def.names) # {}
      /\ "channel" \in def.errors <=> ChannelUnbacked(def)
      /\ "vm" \in def.errors <=> VmAsked(def)
      /\ "sub_agent" \in def.errors <=> SelfTriggered(def, sub)
      /\ "required" \in def.errors <=> ~ AlwaysRequired \subseteq def.names
      /\ "gate" \in def.errors <=> ToolUncovered(def)
      /\ "state" \in def.errors <=> StateUnbacked(def)
      /\ "budget" \in def.errors <=> OverCap(def)
      /\ def.errors \subseteq ErrorKinds
  BY <1>1 DEF Errors, ErrorKinds
<1>3. def.errors \subseteq {"dependency", "channel", "vm", "sub_agent"}
  BY <1>1, <1>2, NoneByConstruction DEF ErrorKinds
<1>4. def.warnings = {}
  BY <1>1, NoneByConstruction DEF Warnings
<1>5. {v[1] : v \in def.versions} = def.names /\ def.names = Select(brief)
  BY <1>1 DEF AsConfigured
<1>6. "dependency" \in def.errors =>
        brief.extra # {} \/ \E n \in BuiltInNames : registry[n] # BuiltIn[n]
  BY <1>1, <1>2, <1>5, SelectionComplete
<1>7. "channel" \in def.errors <=>
        \E c \in brief.triggers \cap Channels : brief.connections \cap Reaches[c] = {}
  BY <1>1, <1>2, SomeByTheBrief
<1>8. "vm" \in def.errors <=> "vm" \in brief.compute
  BY <1>1, <1>2, SomeByTheBrief
<1>9. "sub_agent" \in def.errors <=> brief.sub_agent /\ brief.triggers # {}
  BY <1>1, <1>2, SomeByTheBrief DEF sub
<1> QED
  BY <1>3, <1>4, <1>5, <1>6, <1>7, <1>8, <1>9 DEF ByConstruction

\* What the docstrings say holds by construction does, whatever the brief.
THEOREM ByConstructionHolds == Spec => []ByConstruction
BY InductiveInvariant, BuiltByConstruction, PTL

(***************************************************************************)
(* The closure of dependencies.  A turn of the loop keeps what the list     *)
(* means, and brings it nearer to its end; so it ends, with what is meant.  *)
(***************************************************************************)

\* A function may be defined on the numbers by what it is next.
LEMMA Iterates ==
  ASSUME NEW S, NEW s0 \in S, NEW next \in [S -> S]
  PROVE  \E f \in [Nat -> S] : f[0] = s0 /\ \A k \in Nat : f[k+1] = next[f[k]]
<1> DEFINE Approx(g, n) == /\ g \in [0..n -> S] /\ g[0] = s0
                           /\ \A k \in 0..n : k < n => g[k+1] = next[g[k]]
<1>1. \A n \in Nat : \E g : Approx(g, n)
  <2> DEFINE Bad == {n \in Nat : ~ \E g : Approx(g, n)}
  <2> SUFFICES ASSUME Bad # {} PROVE FALSE
    OBVIOUS
  <2>1. PICK n \in Bad : \A k \in Bad : n <= k
    <3>1. Bad \in SUBSET Nat
      OBVIOUS
    <3> HIDE DEF Bad
    <3> QED
      BY <3>1, Smallest
  <2>2. CASE n = 0
    <3> DEFINE g == [k \in 0..n |-> s0]
    <3>1. Approx(g, n)
      BY <2>2
    <3> QED
      BY <2>1, <3>1
  <2>3. CASE n # 0
    <3>1. n \in Nat /\ n-1 \in Nat /\ n-1 \notin Bad
      BY <2>1, <2>3
    <3>2. PICK g : Approx(g, n-1)
      BY <3>1
    <3> DEFINE h == [k \in 0..n |-> IF k = n THEN next[g[n-1]] ELSE g[k]]
    <3>3. g[n-1] \in S /\ next[g[n-1]] \in S /\ \A k \in 0..(n-1) : g[k] \in S
      BY <3>1, <3>2
    <3>4. h \in [0..n -> S] /\ h[0] = s0
      BY <2>3, <3>1, <3>2, <3>3
    <3>5. ASSUME NEW k \in 0..n, k < n PROVE h[k+1] = next[h[k]]
      <4>1. h[k] = g[k]
        BY <3>1, <3>5
      <4>2. CASE k = n-1
        BY <3>1, <4>1, <4>2
      <4>3. CASE k # n-1
        <5>1. k \in 0..(n-1) /\ k < n-1 /\ k+1 \in 0..n /\ k+1 # n
          BY <3>1, <3>5, <4>3
        <5> QED
          BY <3>2, <4>1, <5>1
      <4> QED
        BY <4>2, <4>3
    <3>6. Approx(h, n)
      BY <3>4, <3>5
    <3> QED
      BY <2>1, <3>6
  <2> QED
    BY <2>2, <2>3
<1>2. ASSUME NEW n \in Nat, NEW g, NEW h, Approx(g, n), Approx(h, n+1)
      PROVE  g[n] = h[n]
  <2> DEFINE Bad == {k \in 0..n : g[k] # h[k]}
  <2> SUFFICES ASSUME Bad # {} PROVE FALSE
    OBVIOUS
  <2>1. PICK k \in Bad : \A j \in Bad : k <= j
    <3>1. Bad \in SUBSET Nat
      OBVIOUS
    <3> HIDE DEF Bad
    <3> QED
      BY <3>1, Smallest
  <2>2. k \in 0..n /\ k # 0
    BY <1>2, <2>1
  <2>3. k-1 \in 0..n /\ k-1 < n /\ k-1 < n+1 /\ k-1 \in 0..(n+1) /\ (k-1)+1 = k
    BY <2>2
  <2>4. g[k-1] = h[k-1]
    BY <2>1, <2>3
  <2>5. g[k] = next[g[k-1]] /\ h[k] = next[h[k-1]]
    BY <1>2, <2>3
  <2> QED
    BY <2>1, <2>4, <2>5
<1> DEFINE A(n) == CHOOSE g : Approx(g, n)
           f == [n \in Nat |-> A(n)[n]]
<1>3. \A n \in Nat : Approx(A(n), n)
  <2> HIDE DEF Approx
  <2> QED
    BY <1>1
<1> HIDE DEF A
<1>4. \A n \in Nat : A(n)[n] \in S /\ f[n] = A(n)[n]
  <2> TAKE n \in Nat
  <2>1. A(n) \in [0..n -> S] /\ n \in 0..n
    BY <1>3
  <2> QED
    BY <2>1
<1>5. f \in [Nat -> S]
  BY <1>4
<1>6. f[0] = s0
  BY <1>3, <1>4
<1>7. ASSUME NEW k \in Nat PROVE f[k+1] = next[f[k]]
  <2>1. k+1 \in Nat /\ k \in 0..(k+1) /\ k < k+1
    OBVIOUS
  <2>2. A(k)[k] = A(k+1)[k]
    <3>1. Approx(A(k), k) /\ Approx(A(k+1), k+1)
      BY <1>3, <2>1
    <3> HIDE DEF Approx
    <3> QED
      BY <1>2, <3>1
  <2>3. A(k+1)[k+1] = next[A(k+1)[k]]
    BY <1>3, <2>1
  <2> QED
    BY <1>4, <2>1, <2>2, <2>3
<1> QED
  BY <1>5, <1>6, <1>7

Closed(reg, S) == \A n \in S : reg[n].deps \subseteq S

Grounded(reg) == /\ IsFiniteSet(DOMAIN reg)
                 /\ \A n \in DOMAIN reg : reg[n].deps \subseteq DOMAIN reg

\* What the list means: resolved and pending together are on their way from names
\* to the least closed set.
OnTheWay(reg, names, w) ==
  /\ names \subseteq w.resolved \cup w.pending
  /\ \A n \in w.resolved : reg[n].deps \subseteq w.resolved \cup w.pending
  /\ \A X \in SUBSET DOMAIN reg :
       names \subseteq X /\ Closed(reg, X) => w.resolved \cup w.pending \subseteq X

\* The turns that are left at most.
Left(reg, w) == Cardinality(DOMAIN reg \ w.resolved) * (Cardinality(DOMAIN reg) + 1)
                  + Cardinality(w.pending)

LEMMA TurnTyped ==
  ASSUME NEW reg, Grounded(reg), NEW w \in Work(reg)
  PROVE  Turn(reg, w) \in Work(reg)
BY DEF Turn, Work, Grounded

LEMMA TurnOnTheWay ==
  ASSUME NEW reg, Grounded(reg), NEW names \in SUBSET DOMAIN reg,
         NEW w \in Work(reg), OnTheWay(reg, names, w)
  PROVE  OnTheWay(reg, names, Turn(reg, w))
<1> DEFINE name == CHOOSE n \in w.pending : TRUE
           v == Turn(reg, w)
           D == DOMAIN reg
<1>1. w.resolved \in SUBSET D /\ w.pending \in SUBSET D
  BY DEF Work
<1>2. CASE w.pending = {}
  BY <1>2 DEF Turn
<1>3. CASE w.pending # {} /\ name \in w.resolved
  <2>1. name \in w.pending
    BY <1>3
  <2>2. v.resolved = w.resolved /\ v.pending = w.pending \ {name}
    BY <1>3 DEF Turn
  <2> HIDE DEF name, v
  <2>3. v.resolved \cup v.pending = w.resolved \cup w.pending
    BY <1>3, <2>1, <2>2
  <2> QED
    BY <2>2, <2>3 DEF OnTheWay, v
<1>4. CASE w.pending # {} /\ name \notin w.resolved
  <2>1. name \in w.pending /\ name \in D
    BY <1>1, <1>4
  <2>2. /\ v.resolved = w.resolved \cup {name}
        /\ v.pending = (w.pending \ {name}) \cup reg[name].deps
    BY <1>4 DEF Turn
  <2> HIDE DEF name, v
  <2>3. v.resolved \cup v.pending = w.resolved \cup w.pending \cup reg[name].deps
    BY <2>1, <2>2
  <2>4. names \subseteq v.resolved \cup v.pending
    BY <2>3 DEF OnTheWay
  <2>5. \A n \in v.resolved : reg[n].deps \subseteq v.resolved \cup v.pending
    BY <2>2, <2>3 DEF OnTheWay
  <2>6. ASSUME NEW X \in SUBSET D, names \subseteq X, Closed(reg, X)
        PROVE  v.resolved \cup v.pending \subseteq X
    <3>1. w.resolved \cup w.pending \subseteq X
      BY <2>6 DEF OnTheWay
    <3>2. reg[name].deps \subseteq X
      BY <2>1, <2>6, <3>1 DEF Closed
    <3> QED
      BY <2>3, <3>1, <3>2
  <2> QED
    BY <2>4, <2>5, <2>6 DEF OnTheWay, v
<1> QED
  BY <1>2, <1>3, <1>4

LEMMA Counts ==
  ASSUME NEW reg, Grounded(reg), NEW S \in SUBSET DOMAIN reg
  PROVE  /\ IsFiniteSet(S) /\ Cardinality(S) \in Nat
         /\ Cardinality(S) <= Cardinality(DOMAIN reg)
         /\ Cardinality(DOMAIN reg) \in Nat
         /\ Cardinality(S) = 0 <=> S = {}
         /\ \A x \in S : Cardinality(S \ {x}) = Cardinality(S) - 1
BY FS_Subset, FS_CardinalityType, FS_EmptySet, FS_RemoveElement DEF Grounded

LEMMA LeftIsNat ==
  ASSUME NEW reg, Grounded(reg), NEW w \in Work(reg)
  PROVE  /\ Left(reg, w) \in Nat
         /\ Left(reg, w) = 0 => w.pending = {}
<1> DEFINE m == Cardinality(DOMAIN reg)
           a == Cardinality(DOMAIN reg \ w.resolved)
           p == Cardinality(w.pending)
<1>1. m \in Nat /\ a \in Nat /\ p \in Nat /\ (p = 0 <=> w.pending = {})
  BY Counts DEF Work
<1>2. Left(reg, w) = a * (m + 1) + p
  BY DEF Left
<1> HIDE DEF m, a, p
<1>3. a * (m + 1) \in Nat
  BY <1>1
<1> DEFINE q == a * (m + 1)
<1> HIDE DEF q
<1>4. q \in Nat /\ Left(reg, w) = q + p
  BY <1>2, <1>3 DEF q
<1> QED
  BY <1>1, <1>4

LEMMA TurnBringsNearer ==
  ASSUME NEW reg, Grounded(reg), NEW w \in Work(reg), w.pending # {}
  PROVE  Left(reg, Turn(reg, w)) < Left(reg, w)
<1> DEFINE name == CHOOSE n \in w.pending : TRUE
           v == Turn(reg, w)
           D == DOMAIN reg
           m == Cardinality(D)
           a == Cardinality(D \ w.resolved)
           p == Cardinality(w.pending)
           b == Cardinality(D \ v.resolved)
           q == Cardinality(v.pending)
<1>1. name \in w.pending /\ name \in D /\ w.pending \in SUBSET D /\ w.resolved \in SUBSET D
  BY DEF Work
<1>2. v \in Work(reg)
  BY TurnTyped
<1>3. m \in Nat /\ a \in Nat /\ p \in Nat /\ b \in Nat /\ q \in Nat /\ q <= m
  <2> HIDE DEF v
  <2>1. v.pending \in SUBSET D /\ D \ v.resolved \in SUBSET D /\ D \ w.resolved \in SUBSET D
    BY <1>2 DEF Work
  <2> QED
    BY <1>1, <2>1, Counts
<1>4. Left(reg, w) = a * (m + 1) + p /\ Left(reg, v) = b * (m + 1) + q
  BY DEF Left
<1>5. CASE name \in w.resolved
  <2>1. v.resolved = w.resolved /\ v.pending = w.pending \ {name}
    BY <1>5 DEF Turn
  <2> HIDE DEF name, v
  <2>2. b = a /\ q = p - 1
    BY <1>1, <2>1, Counts
  <2> DEFINE r == a * (m + 1)
  <2>3. r \in Nat /\ Left(reg, w) = r + p /\ Left(reg, v) = r + q
    <3> HIDE DEF m, a, p, b, q
    <3> QED
      BY <1>3, <1>4, <2>2
  <2> HIDE DEF m, a, p, b, q, r
  <2> QED
    BY <1>3, <2>2, <2>3 DEF v
<1>6. CASE name \notin w.resolved
  <2>1. v.resolved = w.resolved \cup {name}
    BY <1>6 DEF Turn
  <2> HIDE DEF name, v
  <2>2. D \ v.resolved = (D \ w.resolved) \ {name} /\ name \in D \ w.resolved
        /\ D \ w.resolved \in SUBSET D
    BY <1>1, <1>6, <2>1
  <2>3. b = a - 1
    BY <2>2, Counts
  <2> DEFINE r == b * (m + 1)
  <2>4. a * (m + 1) = r + m + 1 /\ r \in Nat
    <3> HIDE DEF m, a, p, b, q
    <3> QED
      BY <1>3, <2>3
  <2>5. Left(reg, w) = (r + m + 1) + p /\ Left(reg, v) = r + q
    BY <1>4, <2>4
  <2> HIDE DEF m, a, p, b, q, r
  <2> QED
    BY <1>3, <2>4, <2>5 DEF v
<1> QED
  BY <1>5, <1>6

\* The recursion that says how the loop goes has a solution.
LEMMA ResolvingDef ==
  ASSUME NEW reg, Grounded(reg)
  PROVE  \A k \in Nat : \A w \in Work(reg) :
           Resolving(reg)[k][w] = IF k = 0 \/ w.pending = {} THEN w
                                  ELSE Resolving(reg)[k-1][Turn(reg, w)]
<1> DEFINE W == Work(reg)
           turn(w) == Turn(reg, w)
           body(f) == [k \in Nat |-> [w \in W |-> IF k = 0 \/ w.pending = {} THEN w
                                                  ELSE f[k-1][turn(w)]]]
           after == CHOOSE f : f = body(f)
           S == [W -> W]
           one(h) == [w \in W |-> IF w.pending = {} THEN w ELSE h[turn(w)]]
           next == [h \in S |-> one(h)]
           same == [w \in W |-> w]
<1>1. \A w \in W : turn(w) \in W
  BY TurnTyped
<1> HIDE DEF turn, W
<1>2. next \in [S -> S] /\ same \in S
  BY <1>1
<1>3. PICK g \in [Nat -> S] : g[0] = same /\ \A k \in Nat : g[k+1] = next[g[k]]
  <2>1. \E g \in [Nat -> S] : g[0] = same /\ \A k \in Nat : g[k+1] = next[g[k]]
    <3>1. ASSUME NEW s0 \in S, NEW nx \in [S -> S]
          PROVE  \E g \in [Nat -> S] : g[0] = s0 /\ \A k \in Nat : g[k+1] = nx[g[k]]
      <4> HIDE DEF S, next, same, body, after
      <4> QED
        BY Iterates
    <3> HIDE DEF S, next, same, body, after
    <3> QED
      BY <1>2, <3>1, Zenon
  <2> QED
    BY <2>1
<1>4. ASSUME NEW k \in Nat
      PROVE  g[k] = [w \in W |-> IF k = 0 \/ w.pending = {} THEN w ELSE g[k-1][turn(w)]]
  <2>1. CASE k = 0
    BY <1>3, <2>1
  <2>2. CASE k # 0
    <3>1. k-1 \in Nat /\ (k-1)+1 = k
      BY <2>2
    <3>2. g[k] = next[g[k-1]] /\ g[k-1] \in S
      <4> HIDE DEF S, next
      <4> QED
        BY <1>3, <3>1
    <3>3. g[k] = one(g[k-1])
      <4> HIDE DEF S, one
      <4> QED
        BY <3>2
    <3> QED
      BY <2>2, <3>3
  <2> QED
    BY <2>1, <2>2
<1>5. g = body(g)
  <2> DEFINE rhs(k) == [w \in W |-> IF k = 0 \/ w.pending = {} THEN w ELSE g[k-1][turn(w)]]
  <2>1. \A k \in Nat : g[k] = rhs(k)
    BY <1>4
  <2>2. g = [k \in Nat |-> rhs(k)]
    <3> HIDE DEF rhs, S
    <3> QED
      BY <1>3, <2>1
  <2> QED
    BY <2>2
<1>6. after = body(after)
  <2> HIDE DEF body
  <2> QED
    BY <1>5
<1>7. Resolving(reg) = after
  BY DEF Resolving, W, turn
<1> HIDE DEF after
<1>8. \A k \in Nat : \A w \in W :
        after[k][w] = IF k = 0 \/ w.pending = {} THEN w ELSE after[k-1][turn(w)]
  <2> DEFINE rhs(k) == [w \in W |-> IF k = 0 \/ w.pending = {} THEN w
                                    ELSE after[k-1][turn(w)]]
  <2>1. \A k \in Nat : after[k] = rhs(k)
    <3>1. after = [k \in Nat |-> rhs(k)]
      BY <1>6
    <3> HIDE DEF rhs
    <3> QED
      BY <3>1
  <2>2. ASSUME NEW k \in Nat, NEW w \in W
        PROVE  after[k][w] = IF k = 0 \/ w.pending = {} THEN w ELSE after[k-1][turn(w)]
    <3>1. after[k] = rhs(k)
      BY <2>1
    <3> HIDE DEF W, turn
    <3>2. rhs(k)[w] = IF k = 0 \/ w.pending = {} THEN w ELSE after[k-1][turn(w)]
      OBVIOUS
    <3> QED
      BY <3>1, <3>2
  <2> QED
    BY <2>2
<1> QED
  BY <1>7, <1>8 DEF W, turn

\* It ends if there are turns enough, and it stays on its way.
LEMMA ResolvingEnds ==
  ASSUME NEW reg, Grounded(reg), NEW names \in SUBSET DOMAIN reg
  PROVE  \A k \in Nat : \A w \in Work(reg) :
           OnTheWay(reg, names, w) =>
             /\ Resolving(reg)[k][w] \in Work(reg)
             /\ OnTheWay(reg, names, Resolving(reg)[k][w])
             /\ Left(reg, w) <= k => Resolving(reg)[k][w].pending = {}
<1> DEFINE after(k, w) == Resolving(reg)[k][w]
           W == Work(reg)
           Good(k, w) == OnTheWay(reg, names, w) =>
                           /\ after(k, w) \in W
                           /\ OnTheWay(reg, names, after(k, w))
                           /\ Left(reg, w) <= k => after(k, w).pending = {}
           Bad == {k \in Nat : \E w \in W : ~ Good(k, w)}
<1>1. \A k \in Nat : \A w \in W :
        after(k, w) = IF k = 0 \/ w.pending = {} THEN w ELSE after(k-1, Turn(reg, w))
  BY ResolvingDef
<1>2. \A w \in W : Left(reg, w) \in Nat /\ (Left(reg, w) = 0 => w.pending = {})
  BY LeftIsNat
<1> HIDE DEF after
<1>3. Bad = {}
  <2> SUFFICES ASSUME Bad # {} PROVE FALSE
    OBVIOUS
  <2>1. PICK k \in Bad : \A j \in Bad : k <= j
    <3>1. Bad \in SUBSET Nat
      OBVIOUS
    <3> HIDE DEF Bad
    <3> QED
      BY <3>1, Smallest
  <2>2. PICK w \in W : ~ Good(k, w)
    OBVIOUS
  <2>3. k \in Nat
    OBVIOUS
  <2>4. OnTheWay(reg, names, w)
    BY <2>2
  <2>5. CASE k = 0 \/ w.pending = {}
    <3>1. after(k, w) = w
      BY <1>1, <2>3, <2>5
    <3>2. Left(reg, w) <= k => w.pending = {}
      BY <1>2, <2>5
    <3> QED
      BY <2>2, <2>4, <3>1, <3>2
  <2>6. CASE k # 0 /\ w.pending # {}
    <3> DEFINE v == Turn(reg, w)
    <3>1. v \in W /\ OnTheWay(reg, names, v) /\ Left(reg, v) < Left(reg, w)
      BY <2>4, <2>6, TurnTyped, TurnOnTheWay, TurnBringsNearer
    <3>2. after(k, w) = after(k-1, v)
      BY <1>1, <2>3, <2>6
    <3>3. k-1 \in Nat /\ k-1 \notin Bad
      BY <2>1, <2>3, <2>6
    <3> HIDE DEF v
    <3>4. Good(k-1, v)
      BY <3>1, <3>3
    <3>5. Left(reg, w) <= k => Left(reg, v) <= k-1
      BY <1>2, <2>3, <3>1
    <3> QED
      BY <2>2, <3>1, <3>2, <3>4, <3>5
  <2> QED
    BY <2>5, <2>6
<1> QED
  BY <1>3 DEF after

\* The loop of resolve_dependencies ends, and with the least closed set.
LEMMA ResolvedIsLeast ==
  ASSUME NEW reg, Grounded(reg), NEW names \in SUBSET DOMAIN reg,
         NEW w, w = ResolveDependencies(reg, names)
  PROVE  /\ w.pending = {}
         /\ names \subseteq w.resolved /\ w.resolved \subseteq DOMAIN reg
         /\ Closed(reg, w.resolved)
         /\ \A X \in SUBSET DOMAIN reg :
              names \subseteq X /\ Closed(reg, X) => w.resolved \subseteq X
<1> DEFINE start == [resolved |-> {}, pending |-> names]
           m == Cardinality(DOMAIN reg)
           n == EnoughTurns(reg)
<1>1. start \in Work(reg) /\ OnTheWay(reg, names, start)
  BY DEF Work, OnTheWay
<1>2. n \in Nat /\ Left(reg, start) <= n
  <2> DEFINE p == Cardinality(names)
  <2>1. m \in Nat /\ p \in Nat /\ p <= m
    BY Counts
  <2>2. Left(reg, start) = m * (m + 1) + p /\ n = (m + 1) * (m + 1)
    <3>1. DOMAIN reg \ start.resolved = DOMAIN reg /\ start.pending = names
      OBVIOUS
    <3> QED
      BY <3>1 DEF Left, EnoughTurns
  <2> HIDE DEF m, p, n, start
  <2> DEFINE r == m * (m + 1)
  <2>3. (m + 1) * (m + 1) = r + m + 1 /\ r \in Nat
    BY <2>1
  <2>4. Left(reg, start) = r + p /\ n = r + m + 1
    BY <2>2, <2>3
  <2> HIDE DEF r
  <2> QED
    BY <2>1, <2>3, <2>4
<1>3. w = Resolving(reg)[n][start]
  BY DEF ResolveDependencies
<1> HIDE DEF start, n
<1>4. w \in Work(reg) /\ OnTheWay(reg, names, w) /\ w.pending = {}
  BY <1>1, <1>2, <1>3, ResolvingEnds
<1> QED
  BY <1>4 DEF Work, OnTheWay, Closed

LEMMA BuiltInFinite == IsFiniteSet(BuiltInNames)
<1> DEFINE A == {"identity"} \cup {"reasoning_loop"} \cup {"permission"}
           B == {"observability"} \cup {"memory"} \cup {"tool_connection"}
           C == {"compute"} \cup {"trigger"} \cup {"generated_ui"}
<1>1. IsFiniteSet(A) /\ IsFiniteSet(B) /\ IsFiniteSet(C)
  BY FS_Singleton, FS_Union
<1>2. BuiltInNames = A \cup B \cup C
  BY DEF BuiltInNames
<1> HIDE DEF A, B, C
<1> QED
  BY <1>1, <1>2, FS_Union

LEMMA RegistryFinite == Spec => []IsFiniteSet(DOMAIN registry)
<1>1. Init => IsFiniteSet(DOMAIN registry)
  BY BuiltInDomain, BuiltInFinite DEF Init
<1>2. ASSUME IsFiniteSet(DOMAIN registry), [Next]_vars
      PROVE  IsFiniteSet(DOMAIN registry)'
  <2>1. CASE \E t \in CustomTemplates : RegisterPrimitive(t)
    <3>1. PICK t \in CustomTemplates : RegisterPrimitive(t)
      BY <2>1
    <3>2. DOMAIN registry' = DOMAIN registry \cup {t.name}
      BY <3>1 DEF RegisterPrimitive
    <3> QED
      BY <1>2, <3>2, FS_AddElement
  <2>2. CASE UNCHANGED registry
    BY <1>2, <2>2
  <2> QED
    BY <1>2, <2>1, <2>2 DEF Next, vars, Compose, ComposeAndRegister, Validate, Register,
       EditTools, EditCaps, EditMemory, EditCompute, EditTriggers, EditDrop, Edit
<1> QED
  BY <1>1, <1>2, PTL DEF Spec

LEMMA ClosureComplete == IInv /\ IsFiniteSet(DOMAIN registry) => CompleteIsClosed
<1> SUFFICES ASSUME IInv, IsFiniteSet(DOMAIN registry) PROVE CompleteIsClosed
  OBVIOUS
<1> DEFINE w == ResolveDependencies(registry, def.names)
           all == w.resolved
           names == def.names
<1>1. names \in SUBSET DOMAIN registry /\ Grounded(registry)
  BY DEF IInv, TypeOK, RegistryGrounded, Grounded
<1>2. /\ w.pending = {}
      /\ names \subseteq all /\ all \subseteq DOMAIN registry /\ Closed(registry, all)
      /\ \A X \in SUBSET DOMAIN registry :
           names \subseteq X /\ Closed(registry, X) => all \subseteq X
  BY <1>1, ResolvedIsLeast
<1> HIDE DEF w, names
<1>3. ASSUME NEW X \in SUBSET (all \ names), Closed(registry, names \cup X)
      PROVE  X = all \ names
  <2>1. all \subseteq names \cup X
    BY <1>1, <1>2, <1>3
  <2> QED
    BY <2>1
<1>4. MissingDependencies(registry, names) = {} <=> Closed(registry, names)
  BY DEF MissingDependencies, Closed
<1>5. Closed(registry, names) <=> all = names
  BY <1>1, <1>2
<1> QED
  BY <1>2, <1>3, <1>4, <1>5 DEF CompleteIsClosed, Closed, w, names

\* The loop of resolve_dependencies ends, whatever the templates are and however they
\* depend on each other, and with the least closed set; validate's one-level look
\* finds a gap exactly if there is one.
THEOREM CompleteIsClosedHolds == Spec => []CompleteIsClosed
BY InductiveInvariant, RegistryFinite, ClosureComplete, PTL

=============================================================================
