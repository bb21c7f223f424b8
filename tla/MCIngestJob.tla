---------------------------- MODULE MCIngestJob -----------------------------
(***************************************************************************)
(* Two runners race on one job.  c1 is a bulk issuer: its latest payload   *)
(* lists a blank archive name and an archive that repeats an accession of  *)
(* the latest and that SEC may also serve as c2's payload.  c2's payload   *)
(* may change between fetches.  An instance may be built with c1 only.     *)
(***************************************************************************)
EXTENDS IngestJob

CONSTANTS r1, r2, j1, c1, c2, p1, p2, p3, a1, a2

MCJobOf == [r \in Runners |-> j1]
MCUnitLists == [j \in JobIds |-> {<<c1, c2>>, <<c1>>}]
MCLatest == [u \in Units |-> IF u = c1 THEN {p1} ELSE {p2, p3}]
MCArchivesOf == [p \in Payloads |-> IF p = p1 THEN <<NoName, p2>> ELSE <<>>]
MCHeadersIn == [p \in Payloads |-> CASE p = p1 -> {a1}
                                     [] p = p2 -> {a1, a2}
                                     [] p = p3 -> {a2}]
=============================================================================
