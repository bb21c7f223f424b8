----------------------------- MODULE MCRecords ------------------------------
(***************************************************************************)
(* What the services keep and derive: the stores of facts, the listing     *)
(* history, statements, the peer benchmark and the rate limiter.  They     *)
(* share nothing, so a behaviour is one of the one it examines.            *)
(***************************************************************************)
EXTENDS RestatementResolver, DatasetIngest, NotesStore, ListingHistory,
        StatementBuilders, PeerBenchmark, RateLimiter

VARIABLE under

stores  == <<resolverVars, ingestVars, notesVars, listings>>
figures == <<builderVars, benchmarkVars>>
vars    == <<stores, figures, limiterVars, under>>

------------------------------------------------------------------------------
\* One key that is restated twice and stated again by a later filing.
MCFacts == {[filing |-> 1, key |-> "assets", value |-> 10],
            [filing |-> 2, key |-> "assets", value |-> 20],
            [filing |-> 3, key |-> "assets", value |-> 10],
            [filing |-> 1, key |-> "debt",   value |-> 10]}

Row(key, rest, valid) == [key |-> key, rest |-> rest, valid |-> valid]
Filed(store, scope, valid, payload) ==
  [store |-> store, subject |-> "s", scope |-> scope, valid |-> valid, rows |-> payload]

\* A payload with a malformed row in the middle, its correction (which changes an
\* earlier value, too), one that repeats a key, and an insider without a name.
MCDatasets ==
  {Filed(store, 1, TRUE, <<Row("a", 1, TRUE), Row("b", 1, FALSE), Row("c", 1, TRUE)>>) :
     store \in {"insiders", "statements"}} \cup
  {Filed(store, 1, TRUE, <<Row("a", 2, TRUE), Row("b", 2, TRUE), Row("c", 1, TRUE)>>) :
     store \in {"insiders", "statements"}} \cup
  {Filed(store, 2, TRUE, <<Row("a", 1, TRUE), Row("a", 2, TRUE), Row("b", 1, TRUE)>>) :
     store \in {"insiders", "statements"}} \cup
  {Filed("insiders", 3, FALSE, <<>>)}

MCNotes == {[text |-> n, valid |-> TRUE] : n \in 1 .. 3} \cup {[text |-> 0, valid |-> FALSE]}
Note(n) == [text |-> n, valid |-> n # 0]
MCBatches == {<<Note(1), Note(2)>>, <<Note(2), Note(3), Note(2)>>, <<Note(3), Note(0), Note(1)>>}

\* The datasets of one store.
Of(store) == {d \in Datasets : d.store = store}

------------------------------------------------------------------------------
MCAnnualMetrics == [income |-> {"revenue"}, balance |-> {"assets"}]

Quarterly(metric, year, quarter, amount) ==
  [period |-> "quarterly", statement |-> "none", metric |-> metric,
   year |-> year, quarter |-> quarter, amount |-> amount]

\* Four quarters across a year's end and one that leaves a gap, one of them
\* reported twice; a stock metric, a quarter without a number, one out of range.
MCQuarters ==
  {Quarterly("revenue", 1, 2, 1), Quarterly("revenue", 1, 3, 2), Quarterly("revenue", 1, 4, 4),
   Quarterly("revenue", 2, 1, 8), Quarterly("revenue", 2, 1, 16), Quarterly("revenue", 2, 3, 32),
   Quarterly("assets", 2, 1, 1),  Quarterly("revenue", 1, 4, NoAmount), Quarterly("revenue", 2, 0, 1)}

Annual(statement, metric, year, amount) ==
  [period |-> "annual", statement |-> statement, metric |-> metric,
   year |-> year, quarter |-> 4, amount |-> amount]

\* An annual row where a quarter could be missing.
MCRows == MCQuarters \cup {Annual("income", "revenue", 1, 64)}

\* Three bundled companies of one industry, two of which are compared at most; a
\* listed company of that industry, one without an industry, one that is unknown.
MCUniverse  == <<"a", "b", "c">>
MCCompanies == {"a", "b", "c", "l", "m", "u"}
MCSic == [e \in MCCompanies |-> IF e \in {"m", "u"} THEN NoSic ELSE "s"]

------------------------------------------------------------------------------
\* Two buckets: two requests in a window of three ticks, one in two ticks.
MCTierOf == [b \in Buckets |-> IF b = "b1" THEN "beta" ELSE "standard"]
MCQuotas == [beta     |-> [limit |-> 2, windowMs |-> 3],
             standard |-> [limit |-> 1, windowMs |-> 2]]

------------------------------------------------------------------------------
Init ==
  /\ ResolverInit /\ IngestInit /\ NotesInit /\ HistoryInit
  /\ BuilderInit /\ BenchmarkInit /\ LimiterInit
  /\ under \in {"restatements", "insiders", "statements", "notes", "listings",
                "builders", "benchmark", "limiter"}
  /\ under # "restatements" => reader = [r \in Readers |-> Unread("assets")]

StoreNext ==
  \/ under = "restatements" /\ ResolverNext /\ UNCHANGED <<ingestVars, notesVars, listings>>
  \/ /\ under \in {"insiders", "statements"}
     /\ IngestNext
     /\ \A i \in Ingesters : ingest'[i].dataset \in Of(under) \cup {NoDataset}
     /\ UNCHANGED <<resolverVars, notesVars, listings>>
  \/ under = "notes" /\ NotesNext /\ UNCHANGED <<resolverVars, ingestVars, listings>>
  \/ under = "listings" /\ HistoryNext /\ UNCHANGED <<resolverVars, ingestVars, notesVars>>

FigureNext ==
  \/ under = "builders" /\ BuilderNext /\ UNCHANGED benchmarkVars
  \/ under = "benchmark" /\ BenchmarkNext /\ UNCHANGED builderVars

Next ==
  /\ UNCHANGED under
  /\ \/ StoreNext /\ UNCHANGED <<figures, limiterVars>>
     \/ FigureNext /\ UNCHANGED <<stores, limiterVars>>
     \/ under = "limiter" /\ LimiterNext /\ UNCHANGED <<stores, figures>>

Spec == Init /\ [][Next]_vars

\* Stores, calls, builders, requests and windows keep their types.
TypeOK ==
  /\ ResolverTypeOK /\ IngestTypeOK /\ NotesTypeOK /\ HistoryTypeOK
  /\ BuilderTypeOK /\ BenchmarkTypeOK /\ LimiterTypeOK

\* Whatever overlaps, fails or is interrupted: staged rows can be traced, a call
\* that returned has staged all its rows, and notes are counted and linked once.
RowsAccountedFor == RowsTraceable /\ ReturnsComplete /\ NoteCounts
=============================================================================
