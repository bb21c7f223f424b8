------------------------ MODULE RestatementResolver -------------------------
(***************************************************************************)
(* InMemoryRestatementResolver (services/parse-xbrl).  A fact is recorded  *)
(* as a version that supersedes the current one of its truth key, in three *)
(* writes under a lock: the version, the history, the current truth.       *)
(* Readers take no lock.  A version's id is the hash of its filing, key    *)
(* and value, so a fact stands for its id.                                 *)
(***************************************************************************)
EXTENDS Integers, Sequences, SequencesExt

CONSTANTS Recorders, Readers, \* threads that record, threads that read
          Nobody, NoFact,
          Facts               \* records with a filing, a key and a value

ASSUME ResolverAssumption ==
  /\ Nobody \notin Recorders
  /\ NoFact \notin Facts

VARIABLES resolver_lock,
          versions,  \* _versions: recorded fact -> the fact it supersedes
          history,   \* _history_by_truth_key
          current,   \* _current_by_truth_key
          recorder,  \* recorder -> where it is in record_fact
          reader,    \* reader -> a get_current and the get_history after it
          torn       \* history: a recorder was interrupted between two writes

resolverVars == <<resolver_lock, versions, history, current, recorder, reader, torn>>

TruthKeys == {f.key : f \in Facts}

Idle   == [at |-> "idle", fact |-> NoFact, previous |-> NoFact]
Unread(k) == [at |-> "idle", key |-> k, current |-> NoFact, read |-> <<>>, failed |-> FALSE]

ResolverInit ==
  /\ resolver_lock = Nobody
  /\ versions = [f \in {} |-> NoFact]
  /\ history  = [k \in TruthKeys |-> <<>>]
  /\ current  = [k \in TruthKeys |-> NoFact]
  /\ recorder = [w \in Recorders |-> Idle]
  /\ reader \in [Readers -> {Unread(k) : k \in TruthKeys}]
  /\ torn = FALSE

------------------------------------------------------------------------------
(* record_fact *)

\* Variant: without the lock.
BeginUnlocked(w) ==
  /\ recorder[w].at = "idle"
  /\ \E f \in Facts :
       recorder' = [recorder EXCEPT ![w] = [at |-> "look", fact |-> f, previous |-> NoFact]]
  /\ UNCHANGED <<resolver_lock, versions, history, current, reader, torn>>

Begin(w) ==
  /\ recorder[w].at = "idle"
  /\ resolver_lock = Nobody
  /\ resolver_lock' = w
  /\ \E f \in Facts :
       recorder' = [recorder EXCEPT ![w] = [at |-> "look", fact |-> f, previous |-> NoFact]]
  /\ UNCHANGED <<versions, history, current, reader, torn>>

\* A fact recorded before is returned as it is.
ReturnExisting(w) ==
  /\ recorder[w].at = "look" /\ recorder[w].fact \in DOMAIN versions
  /\ recorder' = [recorder EXCEPT ![w] = Idle]
  /\ resolver_lock' = Nobody
  /\ UNCHANGED <<versions, history, current, reader, torn>>

LookUpCurrent(w) ==
  LET f == recorder[w].fact IN
  /\ recorder[w].at = "look" /\ f \notin DOMAIN versions
  /\ recorder' = [recorder EXCEPT ![w].at = "save", ![w].previous = current[f.key]]
  /\ UNCHANGED <<resolver_lock, versions, history, current, reader, torn>>

Saved(w) == [f \in DOMAIN versions \cup {recorder[w].fact} |->
               IF f = recorder[w].fact THEN recorder[w].previous ELSE versions[f]]

\* Variant: the current truth moves before the history does.
SaveVersionAndResolve(w) ==
  /\ recorder[w].at = "save"
  /\ versions' = Saved(w)
  /\ current' = [current EXCEPT ![recorder[w].fact.key] = recorder[w].fact]
  /\ recorder' = [recorder EXCEPT ![w].at = "append"]
  /\ UNCHANGED <<resolver_lock, history, reader, torn>>

SaveVersion(w) ==
  /\ recorder[w].at = "save"
  /\ versions' = Saved(w)
  /\ recorder' = [recorder EXCEPT ![w].at = "append"]
  /\ UNCHANGED <<resolver_lock, history, current, reader, torn>>

\* Variant: the history lists versions instead of their ids.
AppendVersion(w) ==
  LET f == recorder[w].fact IN
  /\ recorder[w].at = "append"
  /\ history' = [history EXCEPT ![f.key] =
                   Append(@, [id |-> f, supersedes |-> recorder[w].previous])]
  /\ recorder' = [recorder EXCEPT ![w].at = "resolve"]
  /\ UNCHANGED <<resolver_lock, versions, current, reader, torn>>

AppendHistory(w) ==
  LET f == recorder[w].fact IN
  /\ recorder[w].at = "append"
  /\ history' = [history EXCEPT ![f.key] = Append(@, f)]
  /\ recorder' = [recorder EXCEPT ![w].at = "resolve"]
  /\ UNCHANGED <<resolver_lock, versions, current, reader, torn>>

ResolveCurrent(w) ==
  LET f == recorder[w].fact IN
  /\ recorder[w].at = "resolve"
  /\ current' = [current EXCEPT ![f.key] = f]
  /\ recorder' = [recorder EXCEPT ![w] = Idle]
  /\ resolver_lock' = Nobody
  /\ UNCHANGED <<versions, history, reader, torn>>

\* A BaseException between two statements: `with` releases the lock.
InterruptRecord(w) ==
  /\ recorder[w].at # "idle"
  /\ recorder' = [recorder EXCEPT ![w] = Idle]
  /\ resolver_lock' = Nobody
  /\ torn' = (torn \/ recorder[w].at \in {"append", "resolve"})
  /\ UNCHANGED <<versions, history, current, reader>>

RecordFact(w) ==
  \/ Begin(w) \/ ReturnExisting(w) \/ LookUpCurrent(w)
  \/ SaveVersion(w) \/ AppendHistory(w) \/ ResolveCurrent(w)

------------------------------------------------------------------------------
(* get_current, then get_history *)

GetCurrent(r) ==
  /\ reader[r].at = "idle"
  /\ reader' = [reader EXCEPT ![r].at = "current", ![r].current = current[reader[r].key]]
  /\ UNCHANGED <<resolver_lock, versions, history, current, recorder, torn>>

\* A key without a history is answered with a list of its own.
GetHistory(r) ==
  /\ reader[r].at = "current"
  /\ reader' = [reader EXCEPT ![r].at =
                  IF history[reader[r].key] = <<>> THEN "read" ELSE "reading"]
  /\ UNCHANGED <<resolver_lock, versions, history, current, recorder, torn>>

\* The list read is the live one and may grow meanwhile; an id in it without a
\* version is a KeyError.
ReadVersion(r) ==
  LET i == Len(reader[r].read) + 1
      h == history[reader[r].key]
  IN
  /\ reader[r].at = "reading" /\ i <= Len(h)
  /\ reader' = IF h[i] \in DOMAIN versions
                 THEN [reader EXCEPT ![r].read = Append(@, h[i])]
                 ELSE [reader EXCEPT ![r].at = "read", ![r].failed = TRUE]
  /\ UNCHANGED <<resolver_lock, versions, history, current, recorder, torn>>

EndHistory(r) ==
  /\ reader[r].at = "reading" /\ Len(reader[r].read) = Len(history[reader[r].key])
  /\ reader' = [reader EXCEPT ![r].at = "read"]
  /\ UNCHANGED <<resolver_lock, versions, history, current, recorder, torn>>

ReadAgain(r) ==
  /\ reader[r].at = "read"
  /\ \E k \in TruthKeys : reader' = [reader EXCEPT ![r] = Unread(k)]
  /\ UNCHANGED <<resolver_lock, versions, history, current, recorder, torn>>

ReadTruth(r) ==
  GetCurrent(r) \/ GetHistory(r) \/ ReadVersion(r) \/ EndHistory(r) \/ ReadAgain(r)

------------------------------------------------------------------------------
ResolverNext ==
  \/ \E w \in Recorders : RecordFact(w) \/ InterruptRecord(w)
  \/ \E r \in Readers : ReadTruth(r)

ResolverSpec == ResolverInit /\ [][ResolverNext]_resolverVars

ResolverTypeOK ==
  /\ resolver_lock \in Recorders \cup {Nobody}
  /\ DOMAIN versions \subseteq Facts
  /\ \A f \in DOMAIN versions : versions[f] \in Facts \cup {NoFact}
  /\ history \in [TruthKeys -> Seq(Facts)]
  /\ current \in [TruthKeys -> Facts \cup {NoFact}]
  /\ recorder \in [Recorders -> [at : {"idle", "look", "save", "append", "resolve"},
                                 fact : Facts \cup {NoFact}, previous : Facts \cup {NoFact}]]
  /\ reader \in [Readers -> [at : {"idle", "current", "reading", "read"}, key : TruthKeys,
                             current : Facts \cup {NoFact}, read : Seq(Facts),
                             failed : BOOLEAN]]
  /\ torn \in BOOLEAN

\* Whenever nobody records and no recorder was interrupted between two writes, a
\* key's history is one chain: each version, recorded once, supersedes the one
\* before it, the last is the current truth, and no version is outside.
ChainUnbroken ==
  (\A w \in Recorders : recorder[w].at = "idle") /\ ~torn =>
    \A k \in TruthKeys :
      /\ ToSet(history[k]) = {f \in DOMAIN versions : f.key = k}
      /\ \A i \in DOMAIN history[k] :
           versions[history[k][i]] = (IF i = 1 THEN NoFact ELSE history[k][i - 1])
      /\ current[k] = (IF history[k] = <<>> THEN NoFact ELSE Last(history[k]))

\* A reader that asks for the current truth and then for the history finds the
\* one in the other, and never an id without a version, although it takes no
\* lock and recorders may be interrupted anywhere.
ReadsCoherent ==
  \A r \in Readers :
    /\ ~reader[r].failed
    /\ reader[r].at = "read" /\ reader[r].current # NoFact =>
         reader[r].current \in ToSet(reader[r].read)
=============================================================================
