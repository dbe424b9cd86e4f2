\* Two processes, four calls and a crash.
SPECIFICATION Spec
CONSTANTS
  Procs = {p, q}
  Agents = {"crm", "mail"}
  Hosted = {"crm"}
  Runs = {run1, run2}
  Statuses = {"validated"}
  Refs = {ref1, ref2}
  Secrets = {s}
  Keys = {k1, k2}
  DefinitionOf <- MCDefinitionOf
  Fields = {"stage"}
  Triggers = {"daily", "nightly"}
  Values = {"x"}
  DefaultMapSize = 512
  MaxCalls = 4
  MaxCrashes = 1
INVARIANTS TypeOK LocksOfTheRaised ColumnAgrees RegistersOnce
INVARIANTS SecretsKept StateIsLastWrite JobsAsProvisioned SizeAsAsked
PROPERTIES CommitsOwnChange
SYMMETRY MCSymmetry
CHECK_DEADLOCK FALSE
