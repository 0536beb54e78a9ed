CONSTANTS
  max_input_tokens = 6
  max_output_tokens = 3
  max_cost = 9
  max_model_rounds = 3
  max_tool_calls = 3
  input_price = 1
  output_price = 2
  SystemSize = 1
  Histories <- HistoriesSmall
  ResultSizes = {1, 2}
  Uncounted = 1
  Reports <- ReportsSmall
  Grain = 2
  Tools = {"search"}
  ToolNames = {"search", "unknown"}
  MaxCallsPerRound = 2
SPECIFICATION Spec
INVARIANTS
  TypeOK
  SelectionIsLongest
  
  OverrunIsFatal
  CallsBounded
