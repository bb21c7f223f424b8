SPECIFICATION BuilderSpec
CONSTANTS
  FlowMetrics = {"revenue"}
  StockMetrics = {"assets"}
  AnnualMetrics <- MCAnnualMetrics
  NormalizedRows <- MCAnnualRows
  NoAmount = NoAmount
  YearCount = 1
  MaxRows = 2
INVARIANTS
  AnnualRowsShown
