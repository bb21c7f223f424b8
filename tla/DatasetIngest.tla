--------------------------- MODULE DatasetIngest ----------------------------
(***************************************************************************)
(* ingest_insider_dataset (services/market-data) and ingest_fs_dataset     *)
(* (services/parse-xbrl): store the raw payload under its checksum, then   *)
(* stage its rows under natural keys, skipping the keys staged before.     *)
(* The insider store takes its lock row by row, the statement store once   *)
(* for all rows.  A row that does not validate raises: what was staged     *)
(* before it stays.                                                        *)
(*                                                                         *)
(* A dataset is what one call is given and stands for its checksum.  Its   *)
(* subject is the insider, its scope what the keys of its rows have in     *)
(* common beyond that: the accession, or the dataset's name and period.    *)
(* The rows of an insider filing are its transactions, then its holdings.  *)
(***************************************************************************)
EXTENDS Integers, Sequences, SequencesExt, Selections

CONSTANTS Ingesters, \* threads that ingest
          Datasets,  \* records [store, subject, scope, valid, rows], each row a
                     \* record [key, rest, valid]: its key, its other fields
          NoDataset

ASSUME IngestAssumption ==
  /\ NoDataset \notin Datasets
  /\ \A d \in Datasets : /\ d.store \in {"insiders", "statements"}
                          /\ d.rows \in Seq(ToSet(d.rows))

VARIABLES raw,      \* the datasets stored, by checksum
          insiders, \* the insiders recorded
          staged,   \* rows staged: [key, rest, dataset]
          ingest,   \* ingester -> where it is in its call
          returned  \* history: the datasets a call has returned for

ingestVars == <<raw, insiders, staged, ingest, returned>>

NoCall == [at |-> "idle", dataset |-> NoDataset, next |-> 1]

IngestInit ==
  /\ raw = {} /\ insiders = {} /\ staged = <<>> /\ returned = {}
  /\ ingest = [i \in Ingesters |-> NoCall]

Key(d, row) == <<d.store, d.subject, d.scope, row.key>>
StagedKeys  == {staged[n].key : n \in DOMAIN staged}

CallRaises(i) == ingest' = [ingest EXCEPT ![i] = NoCall]

\* Variant: a payload is looked up by what it is about, not by its checksum.
StoredByScope(d) == IF \E e \in raw : e.scope = d.scope THEN raw ELSE raw \cup {d}

\* A payload is stored under its checksum, unless it is there.
Stored(d) == raw \cup {d}

Start(i, store, place) ==
  /\ ingest[i].at = "idle"
  /\ \E d \in Datasets :
       /\ d.store = store
       /\ raw' = Stored(d)
       /\ ingest' = [ingest EXCEPT ![i] = [at |-> place, dataset |-> d, next |-> 1]]
  /\ UNCHANGED <<insiders, staged, returned>>

StoreRaw(i)        == Start(i, "insiders", "insider")
StoreRawDataset(i) == Start(i, "statements", "rows")

\* The insider's identity, validated, and kept if it is recorded already.
UpsertInsider(i) ==
  LET d == ingest[i].dataset IN
  /\ ingest[i].at = "insider"
  /\ IF d.valid
       THEN /\ insiders' = insiders \cup {d.subject}
            /\ ingest' = [ingest EXCEPT ![i].at = "rows"]
       ELSE /\ CallRaises(i)
            /\ UNCHANGED insiders
  /\ UNCHANGED <<raw, staged, returned>>

\* Variant: keys are made of the checksum.
RowOfPayload(d, row) == [key |-> <<d, row.key>>, rest |-> row.rest, dataset |-> d]

StagedRow(d, row) == [key |-> Key(d, row), rest |-> row.rest, dataset |-> d]

\* Variant: an ingest ends at the first row staged before.
FreshUpToKnown(rows, d) ==
  LET known == SelectInSeq(rows, LAMBDA row : Key(d, row) \in StagedKeys)
  IN  IF known = 0 THEN rows ELSE SubSeq(rows, 1, known - 1)

\* The rows of `rows` whose key is not staged, the first of each key.
Fresh(rows, d) ==
  AtPositions(rows, {n \in DOMAIN rows : /\ Key(d, rows[n]) \notin StagedKeys
                                         /\ \A m \in 1 .. n - 1 : rows[m].key # rows[n].key})

StageRows(rows, d) ==
  LET fresh == Fresh(rows, d)
  IN  staged' = staged \o [n \in DOMAIN fresh |-> StagedRow(d, fresh[n])]

\* stage_transaction or stage_holding: one row, under the lock.
StageRow(i) ==
  LET d   == ingest[i].dataset
      row == d.rows[ingest[i].next]
  IN
  /\ ingest[i].at = "rows" /\ d.store = "insiders" /\ ingest[i].next <= Len(d.rows)
  /\ IF row.valid
       THEN /\ StageRows(<<row>>, d)
            /\ ingest' = [ingest EXCEPT ![i].next = @ + 1]
       ELSE /\ CallRaises(i)
            /\ UNCHANGED staged
  /\ UNCHANGED <<raw, insiders, returned>>

Accept(rows) ==
  LET bad == SelectInSeq(rows, LAMBDA row : ~row.valid)
  IN  IF bad = 0 THEN rows ELSE SubSeq(rows, 1, bad - 1)

\* stage_statement_rows: all rows up to one that does not validate.
StageStatementRows(i) ==
  LET d == ingest[i].dataset IN
  /\ ingest[i].at = "rows" /\ d.store = "statements" /\ ingest[i].next <= Len(d.rows)
  /\ StageRows(Accept(d.rows), d)
  /\ IF \A n \in DOMAIN d.rows : d.rows[n].valid
       THEN ingest' = [ingest EXCEPT ![i].next = Len(d.rows) + 1]
       ELSE CallRaises(i)
  /\ UNCHANGED <<raw, insiders, returned>>

Return(i) ==
  /\ ingest[i].at = "rows" /\ ingest[i].next > Len(ingest[i].dataset.rows)
  /\ returned' = returned \cup {ingest[i].dataset}
  /\ ingest' = [ingest EXCEPT ![i] = NoCall]
  /\ UNCHANGED <<raw, insiders, staged>>

\* A call is interrupted between two calls of the store.
InterruptIngest(i) ==
  /\ ingest[i].at # "idle"
  /\ CallRaises(i)
  /\ UNCHANGED <<raw, insiders, staged, returned>>

IngestNext ==
  \E i \in Ingesters :
    \/ StoreRaw(i) \/ UpsertInsider(i) \/ StageRow(i)
    \/ StoreRawDataset(i) \/ StageStatementRows(i)
    \/ Return(i) \/ InterruptIngest(i)

IngestSpec == IngestInit /\ [][IngestNext]_ingestVars

------------------------------------------------------------------------------
IngestTypeOK ==
  /\ raw \subseteq Datasets /\ returned \subseteq raw
  /\ insiders \subseteq {d.subject : d \in Datasets}
  /\ \A n \in DOMAIN staged : staged[n].dataset \in Datasets
  /\ \A i \in Ingesters : /\ ingest[i].at \in {"idle", "insider", "rows"}
                          /\ ingest[i].dataset \in Datasets \cup {NoDataset}
                          /\ ingest[i].next \in Nat \ {0}

\* Every staged row can be traced: the payload it names is stored and holds a
\* valid row of its key and values, and an insider's row has its insider.  No key
\* is staged twice.
RowsTraceable ==
  \A n \in DOMAIN staged :
    LET d == staged[n].dataset IN
    /\ d \in raw
    /\ \E row \in ToSet(d.rows) : row.valid /\ staged[n] = StagedRow(d, row)
    /\ d.store = "insiders" => d.subject \in insiders
    /\ \A m \in DOMAIN staged : m # n => staged[m].key # staged[n].key

\* A call that returned has all its rows staged, by it or by another call,
\* although others fail or are interrupted half way through the same rows.
ReturnsComplete ==
  \A d \in returned : \A row \in ToSet(d.rows) : Key(d, row) \in StagedKeys

\* insider_ingest.py: "Reruns with identical inputs are idempotent".  Once a call
\* has returned for a dataset, no call stages a row of it, not even one that began
\* before.
RerunsStageNothing ==
  [][staged' # staged => Last(staged').dataset \notin returned]_ingestVars
=============================================================================
