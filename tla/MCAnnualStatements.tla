------------------------- MODULE MCAnnualStatements -------------------------
(* Annual rows of a flow and a stock metric, in two years. *)
EXTENDS StatementBuilders

MCAnnualMetrics == [income |-> {"revenue"}, balance |-> {"assets"}]

Annual(statement, metric, year, amount) ==
  [period |-> "annual", statement |-> statement, metric |-> metric,
   year |-> year, quarter |-> 4, amount |-> amount]

MCAnnualRows ==
  {Annual("income", "revenue", year, 1) : year \in 1 .. 2} \cup {Annual("balance", "assets", 2, 3)}
=============================================================================
