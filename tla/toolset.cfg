\* A run and a standalone task over an instance that may be stopped and started again,
\* with a configured MCP server and one of the agent's own.
CONSTANTS
  None = None
  Any = Any
  Globs <- MCGlobs
  Names <- MCNames
  Expand <- MCExpand
  Originals <- MCOriginals
  SanitizeMcpToolName <- MCSanitize
  Lists <- MCLists
  Eras <- MCEras
  McpOrigin <- MCMcpOrigin
  AgentTools <- MCAgentTools
  PluginOrigins <- MCPluginOrigins
  Policies <- MCPolicies
  Runs = {r1}
  Standalone = {t1}
  AskWrites = TRUE
  Max = 1
  MaxStarts = 1
  MaxChanges = 2
  MaxBusy = 1
  MaxConns = 2
  MaxDrops = 1
  MaxCalls = 1
  MaxAttempts = 1
SPECIFICATION Spec
INVARIANTS
  SlotsHeld
  GateHolds
  FreshAtRest
  
CHECK_DEADLOCK FALSE
