\* The same bounds; a tool that requires approval, and policies that name it
\* by its bare or its qualified name.
SPECIFICATION Spec
CONSTANTS
  CustomTemplates <- MCTemplates
  ConnIds = {"gmail", "slack", "crm"}
  Reaches <- MCReaches
  ToolNames = {"send"}
  Briefs <- MCBriefs
  PolicyEdits <- MCPolicyEdits
  ToolEdits <- MCToolEdits
  CapEdits = {1, 2}
  MaxEdits = 1
INVARIANTS GateHolds
CHECK_DEADLOCK FALSE
