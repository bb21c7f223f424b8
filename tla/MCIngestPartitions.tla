------------------------- MODULE MCIngestPartitions -------------------------
(***************************************************************************)
(* A bulk backfill split over two jobs, each run by one instance: three    *)
(* issuers, one in partition 0 and two in partition 1.  The jobs share     *)
(* the raw store, and c1 and c3 the payload SEC serves.                    *)
(***************************************************************************)
EXTENDS IngestJob

CONSTANTS r1, r2, j1, j2, c1, c2, c3, p1, p2, a1

Bucket == [u \in Units |-> CASE u = c1 -> 4 [] u = c2 -> 7 [] u = c3 -> 5]
IndexOf(j) == IF j = j1 THEN 0 ELSE 1

MCJobOf == [r \in Runners |-> IF r = r1 THEN j1 ELSE j2]
MCUnitLists == [j \in JobIds |-> {Partition(<<c1, c2, c3>>, Bucket, 2, IndexOf(j))}]
MCLatest == [u \in Units |-> IF u = c2 THEN {p2} ELSE {p1}]
MCArchivesOf == [p \in Payloads |-> IF p = p1 THEN <<p2>> ELSE <<>>]
MCHeadersIn == [p \in Payloads |-> {a1}]
=============================================================================
