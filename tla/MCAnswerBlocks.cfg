\* A request that must call a tool: its own text is held back, so that what is torn is torn
\* by the search (streamWebSearch).
CONSTANTS
 Clients = {"sse"}
 Asks = {"required"}
 Cap = 1
 MaxEvents = 2
 MaxCalls = 2
SPECIFICATION AnswerSpec
INVARIANTS PartsWhole
CHECK_DEADLOCK FALSE
