--------------------------- MODULE PeerBenchmark ----------------------------
(***************************************************************************)
(* buildPeerBenchmark (apps/web/lib/api/peer-benchmark.ts) as the peers    *)
(* page calls it: requests overlap at every await of one process.  They    *)
(* share the promise of SEC's ticker map, which is dropped when it is      *)
(* rejected.  The facts of the target and of its peers are fetched         *)
(* together; a peer that fails is reported, the target's failure rejects.  *)
(* A company stands for its ticker and its CIK.                            *)
(***************************************************************************)
EXTENDS Integers, Sequences, SequencesExt, Selections

CONSTANTS Requests,   \* requests, each of which may ask again
          Universe,   \* PEER_UNIVERSE: the bundled companies, in order
          Listed,     \* the companies in SEC's map
          Companies,  \* all that may be asked for
          Sic,        \* company -> its SIC, NoSic if it has none
          NoSic, NoCompany,
          MaxPeers    \* max of findPeers

ASSUME BenchmarkAssumption ==
  /\ Universe \in Seq(Companies) /\ Listed \subseteq Companies
  /\ NoCompany \notin Companies
  /\ \A i, j \in DOMAIN Universe : Universe[i] = Universe[j] => i = j
  /\ MaxPeers \in Nat

VARIABLES ticker_map, \* state of the promise cachedTickerMap, "none" if null
          request     \* request -> where it is, its company, its fetches, its result

benchmarkVars == <<ticker_map, request>>

Bundled == ToSet(Universe)

NoRequest == [at |-> "idle", company |-> NoCompany, fetches |-> <<>>,
              peers |-> <<>>, missing |-> <<>>]

BenchmarkInit ==
  /\ ticker_map = "none"
  /\ request = [r \in Requests |-> NoRequest]

At(req, place)   == [req EXCEPT !.at = place]
For(c)           == [NoRequest EXCEPT !.company = c]
Settled(promise) == promise \in {"ready", "failed"}

\* findPeers
FindPeers(c) ==
  LET same == AtPositions(Universe, {n \in DOMAIN Universe :
                                       Sic[Universe[n]] = Sic[c] /\ Universe[n] # c})
  IN  IF Sic[c] = NoSic THEN <<>>
      ELSE SubSeq(same, 1, IF Len(same) < MaxPeers THEN Len(same) ELSE MaxPeers)

\* The fetches of companyfacts go out together.
Fetching(c) ==
  [For(c) EXCEPT !.at = "facts",
                 !.fetches = [e \in {c} \cup ToSet(FindPeers(c)) |-> "pending"]]

\* What the map says to one who waits for it.
Looked(c, map) ==
  IF map = "ready" /\ c \in Listed THEN At(For(c), "submissions") ELSE At(For(c), "rejected")

\* A bundled ticker needs no map; the first of the others starts its fetch.
Ask(r, c) ==
  /\ request[r].at = "idle"
  /\ request' = [request EXCEPT ![r] =
       IF c \in Bundled THEN Fetching(c)
       ELSE IF Settled(ticker_map) THEN Looked(c, ticker_map)
       ELSE At(For(c), "map")]
  /\ ticker_map' = IF c \notin Bundled /\ ticker_map = "none" THEN "pending" ELSE ticker_map

Waiting(map) == [r \in Requests |->
  IF request[r].at = "map" THEN Looked(request[r].company, map) ELSE request[r]]

MapArrives ==
  /\ ticker_map = "pending"
  /\ ticker_map' = "ready"
  /\ request' = Waiting("ready")

\* Variant: the rejected promise stays.
MapFailsForGood ==
  /\ ticker_map = "pending"
  /\ ticker_map' = "failed"
  /\ request' = Waiting("failed")

MapFails ==
  /\ ticker_map = "pending"
  /\ ticker_map' = "none"
  /\ request' = Waiting("failed")

SubmissionsArrive(r) ==
  /\ request[r].at = "submissions"
  /\ request' = [request EXCEPT ![r] = Fetching(@.company)]
  /\ UNCHANGED ticker_map

SubmissionsFail(r) ==
  /\ request[r].at = "submissions"
  /\ request' = [request EXCEPT ![r] = At(@, "rejected")]
  /\ UNCHANGED ticker_map

\* Variant: the first failure rejects, whoever's it is.
SettledAll(req, fetches) ==
  IF \E e \in DOMAIN fetches : fetches[e] = "failed" THEN [req EXCEPT !.at = "rejected"]
  ELSE IF \E e \in DOMAIN fetches : fetches[e] = "pending" THEN [req EXCEPT !.fetches = fetches]
  ELSE [req EXCEPT !.at = "answered", !.fetches = fetches, !.peers = FindPeers(req.company)]

\* Promise.all: the target's failure rejects at once, the answer waits for all.
SettledFacts(req, fetches) ==
  LET all == FindPeers(req.company)
      Of(outcome) == AtPositions(all, {n \in DOMAIN all : fetches[all[n]] = outcome})
  IN
  IF fetches[req.company] = "failed" THEN [req EXCEPT !.at = "rejected", !.fetches = fetches]
  ELSE IF \E e \in DOMAIN fetches : fetches[e] = "pending" THEN [req EXCEPT !.fetches = fetches]
  ELSE [req EXCEPT !.at = "answered", !.fetches = fetches,
                   !.peers = Of("ok"), !.missing = Of("failed")]

FactsArrive(r, e, outcome) ==
  /\ request[r].at = "facts" /\ e \in DOMAIN request[r].fetches
  /\ request[r].fetches[e] = "pending"
  /\ request' = [request EXCEPT ![r] = SettledFacts(@, [@.fetches EXCEPT ![e] = outcome])]
  /\ UNCHANGED ticker_map

\* The page is rendered, with the answer or without.
Render(r) ==
  /\ request[r].at \in {"answered", "rejected"}
  /\ request' = [request EXCEPT ![r] = NoRequest]
  /\ UNCHANGED ticker_map

BenchmarkNext ==
  \/ MapArrives \/ MapFails
  \/ \E r \in Requests :
       \/ \E c \in Companies : Ask(r, c)
       \/ SubmissionsArrive(r) \/ SubmissionsFail(r) \/ Render(r)
       \/ \E e \in Companies : FactsArrive(r, e, "ok") \/ FactsArrive(r, e, "failed")

BenchmarkSpec == BenchmarkInit /\ [][BenchmarkNext]_benchmarkVars

------------------------------------------------------------------------------
BenchmarkTypeOK ==
  /\ ticker_map \in {"none", "pending", "ready", "failed"}
  /\ \A r \in Requests :
       /\ request[r].at \in {"idle", "map", "submissions", "facts", "answered", "rejected"}
       /\ request[r].company \in Companies \cup {NoCompany}
       /\ DOMAIN request[r].fetches \subseteq Companies

\* "Peers that fail companyfacts are dropped and reported back".  An answer has
\* its target's facts, names every peer of the target once, in one of its two
\* lists and in the one its fetch says; and a benchmark whose target arrived is
\* not rejected for the sake of a peer.
PeersAccounted ==
  \A r \in Requests :
    LET req == request[r]
        all == FindPeers(req.company)
    IN
    /\ req.at = "answered" =>
         /\ req.fetches[req.company] = "ok"
         /\ Len(req.peers) + Len(req.missing) = Len(all)
         /\ \A e \in ToSet(all) :
              e \in ToSet(IF req.fetches[e] = "ok" THEN req.peers ELSE req.missing)
    /\ req.at = "rejected" /\ req.fetches # <<>> => req.fetches[req.company] = "failed"

\* A map that could not be fetched fails the requests that wait for it and no
\* other: one that begins later is turned away only if its ticker is not listed.
EarlierFailuresForgotten ==
  [][\A r \in Requests :
       request[r].at = "idle" /\ request'[r].at = "rejected" =>
         request'[r].company \notin Listed]_benchmarkVars
=============================================================================
