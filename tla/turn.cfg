\* Two runs or resumes of a session, two tool calls in one or two steps, any
\* number of failures of the provider within the retry policy, and one other
\* fault.
CONSTANTS
  Kinds = {"plain", "stream", "ask", "human"}
  MaxPerStep = 2
  MaxAsks = 1
  MaxSteps = 2
  RetryAttempts = 2
  ToolAttempts = 2
  Faults = {"abort", "tool", "before", "after", "approved", "afterAgent", "onSuspend", "onError"}
  MaxFaults = 1
  MaxCalls = 2
  MaxRuns = 2
SPECIFICATION Spec
INVARIANTS ClientsSeeWhatTheModelSees 
PROPERTY ComesToRest
CHECK_DEADLOCK FALSE
