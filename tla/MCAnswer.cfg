CONSTANTS
 Clients = {"sse", "whole", "chat", "responses"}
 Asks = {"text", "json", "tools", "required", "research"}
 Cap = 1
 MaxEvents = 3
 MaxCalls = 2
SPECIFICATION AnswerSpec
INVARIANTS AnswerTypeOK OneAnswer PartsInOrder NobodyWaits GuardsExact
PROPERTIES LessIsLeft
CHECK_DEADLOCK FALSE
