\* One edit; two custom primitives, whose dependencies may become cyclic.
SPECIFICATION Spec
CONSTANTS
  CustomTemplates <- MCTemplates
  ConnIds = {"gmail", "slack", "crm"}
  Reaches <- MCReaches
  ToolNames = {"send"}
  Briefs <- MCBriefs
  PolicyEdits <- MCPolicyEdits
  ToolEdits <- MCToolEdits
  CapEdits = {1, 2}
  MaxEdits = 1
INVARIANTS TypeOK ByConstruction CompleteIsClosed VouchedIsSound
CHECK_DEADLOCK FALSE
