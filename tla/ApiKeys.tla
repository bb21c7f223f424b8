------------------------------ MODULE ApiKeys -------------------------------
(***************************************************************************)
(* API keys (apps/web/lib/auth/apiKeys.ts): a request is authenticated     *)
(* against the list of stored keys, with its answer written to an          *)
(* append-only log.  Issuing a key stores its record and revoking one      *)
(* stamps it; the tables are external (packages/db/schema/013_api_keys).   *)
(* A key is a model value, which stands for its hash as well; NotAKey for  *)
(* what has not the shape of one.                                          *)
(***************************************************************************)
EXTENDS WebLists

CONSTANTS Keys, NotAKey,
          MaxTime        \* bound: steps of the clock

ASSUME KeysAssumption ==
  /\ NotAKey \notin Keys /\ NoValue \notin Keys \cup {NotAKey}
  /\ NoValue \notin Nat

VARIABLES records, \* api_key rows
          log,     \* api_request_log rows
          time

keysVars == <<records, log, time>>

KeysInit == records = <<>> /\ log = <<>> /\ time = 0

Ticks == time < MaxTime /\ time' = time + 1

\* generateApiKey gives a key no other one has.
GenerateApiKey(key) ==
  /\ Ticks
  /\ \A i \in DOMAIN records : records[i].key # key
  /\ records' = Append(records, [id |-> Len(records) + 1, key |-> key, createdAt |-> time', revokedAt |-> NoValue])
  /\ UNCHANGED log

Revoke(i) ==
  /\ Ticks
  /\ records[i].revokedAt = NoValue
  /\ records' = [records EXCEPT ![i].revokedAt = time']
  /\ UNCHANGED log

\* extractApiKeyFromHeaders: a bearer token goes before x-api-key.
ExtractApiKey(headers) ==
  IF headers.bearer # NoValue THEN headers.bearer ELSE headers.xApiKey

Matching(raw) == {i \in DOMAIN records : records[i].key = raw}

\* Variant: a stored key is good.
VerifyIgnoringRevoked(raw) ==
  IF raw = NotAKey THEN [ok |-> FALSE, reason |-> "malformed"]
  ELSE IF Matching(raw) = {} THEN [ok |-> FALSE, reason |-> "unknown_key"]
  ELSE [ok |-> TRUE, key |-> records[Max(Matching(raw))].id]

\* verifyApiKey: the last record that matches.
VerifyApiKey(raw) ==
  LET matched == records[Max(Matching(raw))]
  IN  IF raw = NotAKey THEN [ok |-> FALSE, reason |-> "malformed"]
      ELSE IF Matching(raw) = {} THEN [ok |-> FALSE, reason |-> "unknown_key"]
      ELSE IF matched.revokedAt # NoValue THEN [ok |-> FALSE, reason |-> "revoked"]
      ELSE [ok |-> TRUE, key |-> matched.id]

AuthenticateRequest(headers) ==
  IF ExtractApiKey(headers) = NoValue THEN [ok |-> FALSE, reason |-> "missing"]
  ELSE VerifyApiKey(ExtractApiKey(headers))

HttpStatus(reason) == IF reason = "revoked" THEN 403 ELSE 401

\* buildApiRequestLogEntry, with what the request carried.
LogEntry(headers, result) ==
  [apiKeyId |-> IF result.ok THEN result.key ELSE NoValue,
   statusCode |-> IF result.ok THEN 200 ELSE HttpStatus(result.reason),
   requestedAt |-> time', carried |-> {headers.bearer, headers.xApiKey} \ {NoValue}]

Request(headers) ==
  /\ Ticks
  /\ log' = Append(log, LogEntry(headers, AuthenticateRequest(headers)))
  /\ UNCHANGED records

Headers == [bearer : Keys \cup {NotAKey, NoValue}, xApiKey : Keys \cup {NotAKey, NoValue}]

KeysNext ==
  \/ \E key \in Keys : GenerateApiKey(key)
  \/ \E i \in DOMAIN records : Revoke(i)
  \/ \E headers \in Headers : Request(headers)

KeysSpec == KeysInit /\ [][KeysNext]_keysVars

------------------------------------------------------------------------------
\* The log can be audited against the keys as they are now: a request that was let
\* in carried a key in force at its time, one turned away as revoked carried a key
\* revoked before, and one that carried but a single key in force, wherever it put
\* it, was let in.
LogMatchesKeys ==
  \A entry \in ToSet(log) :
    LET Known(r)    == r.createdAt < entry.requestedAt /\ r.key \in entry.carried
        InForce(r)  == Known(r) /\ (r.revokedAt # NoValue => r.revokedAt > entry.requestedAt)
        Ended(r)    == Known(r) /\ r.revokedAt # NoValue /\ r.revokedAt < entry.requestedAt
        Some(Of(_)) == \E r \in ToSet(records) : Of(r)
    IN
    /\ entry.statusCode = 200 => InForce(records[entry.apiKeyId])
    /\ entry.statusCode = 403 => Some(Ended)
    /\ entry.statusCode = 401 => entry.carried = {} \/ \E key \in entry.carried :
                                   ~Some(LAMBDA r : Known(r) /\ r.key = key)
    /\ (\A key \in entry.carried : Some(LAMBDA r : InForce(r) /\ r.key = key)) /\ entry.carried # {} =>
         entry.statusCode = 200
=============================================================================
