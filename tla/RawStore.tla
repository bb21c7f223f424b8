------------------------------ MODULE RawStore ------------------------------
(***************************************************************************)
(* InMemoryRawStore (services/ingest-sec): raw artifacts keyed by the      *)
(* checksum of their payload, the staged filing headers with the set of    *)
(* their keys, and the units each job has committed.  A payload stands for *)
(* its own checksum.  Rows of one payload that share a key are one row,    *)
(* as they are for the code.                                               *)
(***************************************************************************)
EXTENDS JobStore

CONSTANTS Units, Payloads, Accessions,
          HeadersIn            \* payload -> the accessions its rows name

VARIABLES artifacts,           \* the set of stored RawArtifacts
          header_keys,         \* _staging_header_keys
          headers,             \* row -> its copies in _staging_filing_headers
          checkpoints          \* job id -> the units it has persisted

rawVars == <<artifacts, header_keys, headers, checkpoints>>

HeadersInAssumption == HeadersIn \in [Payloads -> SUBSET Accessions]
ASSUME HeadersInAssumption

Artifact == [checksum : Payloads, subject_key : Units, job_id : JobIds]
Row      == [cik : Units, accession_number : Accessions, checksum : Payloads]

KeyOf(row)   == <<row.cik, row.accession_number>>
Stored(p)    == \E a \in artifacts : a.checksum = p
RowsOf(u, p) == {[cik |-> u, accession_number |-> a, checksum |-> p] :
                   a \in HeadersIn[p]}

RawStoreInit ==
  /\ artifacts   = {}
  /\ header_keys = {}
  /\ headers     = [row \in Row |-> 0]
  /\ checkpoints = [j \in JobIds |-> {}]

\* The payload alone is the identity: the first subject and job stay on it.
StoreRawArtifact(u, p, j) ==
  /\ artifacts' = IF Stored(p) THEN artifacts
                  ELSE artifacts \cup
                         {[checksum |-> p, subject_key |-> u, job_id |-> j]}
  /\ UNCHANGED <<header_keys, headers, checkpoints>>

\* Variant: nothing is deduplicated.
AllRows(rows) == rows

\* The rows a batch adds: those whose (cik, accession) is not staged yet.
FreshRows(rows) == {row \in rows : KeyOf(row) \notin header_keys}

StageFilingHeaders(rows) ==
  /\ header_keys' = header_keys \cup {KeyOf(row) : row \in FreshRows(rows)}
  /\ headers' = [row \in Row |->
                   headers[row] + IF row \in FreshRows(rows) THEN 1 ELSE 0]
  /\ UNCHANGED <<artifacts, checkpoints>>

PersistCheckpoint(j, u) ==
  /\ checkpoints' = [checkpoints EXCEPT ![j] = @ \cup {u}]
  /\ UNCHANGED <<artifacts, header_keys, headers>>

RawStoreTypeOK ==
  /\ artifacts   \subseteq Artifact
  /\ header_keys \subseteq (Units \X Accessions)
  /\ headers     \in [Row -> Nat]
  /\ checkpoints \in [JobIds -> SUBSET Units]
=============================================================================
