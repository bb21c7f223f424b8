--------------------------- MODULE ListingHistory ---------------------------
(***************************************************************************)
(* ListingHistory (services/id-master): the effective-dated listings of    *)
(* each security, read as of a date with the knowledge of a date.  Rows    *)
(* are kept sorted by effective_from, in the order they came among equals. *)
(* A listing stands for a venue and a symbol, already normalised.          *)
(***************************************************************************)
EXTENDS Integers, Sequences, FiniteSets

CONSTANTS Securities, Listings,
          Times,          \* instants, as numbers
          Open,           \* effective_to of a row still open
          NoListing,      \* no row is active and known
          MaxListings     \* bound: rows a security may have

ASSUME TimesAssumption ==
  /\ Times \subseteq Nat
  /\ Open \notin Times
  /\ MaxListings \in Nat

VARIABLE listings         \* security -> its rows

ListingRow == [listing : Listings, effective_from : Times,
        effective_to : Times \cup {Open}, recorded_at : Times]

HistoryInit == listings = [s \in Securities |-> <<>>]

\* Variant: the date of a listing does not tell it apart.
DuplicateAtAnyDate(rows, row) ==
  \E i \in DOMAIN rows : rows[i].listing = row.listing

Duplicate(rows, row) ==
  \E i \in DOMAIN rows : /\ rows[i].listing = row.listing
                         /\ rows[i].effective_from = row.effective_from

\* Variant: the rows stay in the order they came.
SortedInAtEnd(rows, row) == Append(rows, row)

\* The row appended and the rows sorted again, a stable sort of sorted rows.
SortedIn(rows, row) ==
  LET earlier == Cardinality({i \in DOMAIN rows :
                                rows[i].effective_from <= row.effective_from})
  IN  SubSeq(rows, 1, earlier) \o <<row>> \o SubSeq(rows, earlier + 1, Len(rows))

\* Variant: a row that is known already is recorded anew.
AddedAnew(rows, row) ==
  SortedIn(SelectSeq(rows, LAMBDA known : ~Duplicate(<<known>>, row)), row)

\* add_record on the rows of one security: a row that is there already wins.
Added(rows, row) == IF Duplicate(rows, row) THEN rows ELSE SortedIn(rows, row)

OpenRows(rows) == {i \in DOMAIN rows : rows[i].effective_to = Open}
LastOpen(rows) == CHOOSE i \in OpenRows(rows) : \A k \in OpenRows(rows) : k <= i

\* Variant: the row that was open is overwritten.
OpenDropped(rows, at) ==
  SelectSeq(rows, LAMBDA row : row.effective_to # Open)

\* Variant: the closed window ends an instant before the next one begins.
OpenClosedBefore(rows, at) ==
  IF OpenRows(rows) = {} THEN rows
  ELSE [rows EXCEPT ![LastOpen(rows)].effective_to = at - 1]

\* The last open row is closed in place; its recorded_at stays what it was.
OpenClosed(rows, at) ==
  IF OpenRows(rows) = {} THEN rows
  ELSE [rows EXCEPT ![LastOpen(rows)].effective_to = at]

AddRecord(s, row) ==
  listings' = [listings EXCEPT ![s] = Added(@, row)]

TransitionListing(s, listing, at, recorded) ==
  listings' = [listings EXCEPT ![s] =
    Added(OpenClosed(@, at),
          [listing |-> listing, effective_from |-> at,
           effective_to |-> Open, recorded_at |-> recorded])]

\* Rows a caller may add: a window that is open, or ends after it begins.
Windows == {row \in ListingRow : row.effective_to # Open => row.effective_to > row.effective_from}

\* get_history and get_listing_as_of change nothing.
Read == UNCHANGED listings

HistoryNext ==
  \/ \E s \in Securities :
       /\ Len(listings[s]) < MaxListings
       /\ \/ \E row \in Windows : AddRecord(s, row)
          \/ \E listing \in Listings, at, recorded \in Times :
               TransitionListing(s, listing, at, recorded)
  \/ Read

HistorySpec == HistoryInit /\ [][HistoryNext]_listings

------------------------------------------------------------------------------
(* get_listing_as_of *)

\* is_active_during_window: the window includes its start and not its end.
ActiveAt(row, at) ==
  /\ row.effective_from <= at
  /\ row.effective_to # Open => at < row.effective_to

EligibleRows(rows, at, known) ==
  {i \in DOMAIN rows : rows[i].recorded_at <= known /\ ActiveAt(rows[i], at)}

\* The listing in force at a date as known at a date: the last eligible row.
ListingAsOf(rows, at, known) ==
  LET eligible == EligibleRows(rows, at, known)
  IN  IF eligible = {} THEN NoListing
      ELSE rows[CHOOSE i \in eligible : \A k \in eligible : k <= i].listing

------------------------------------------------------------------------------
(* Properties *)

HistoryTypeOK == listings \in [Securities -> Seq(ListingRow)]

\* The rows of a security are in the order of their dates, which the answer and
\* the choice of the row to close rely on, and the key of the listing_history
\* table tells them apart.
HistoryOrdered ==
  \A s \in Securities : \A i, k \in DOMAIN listings[s] : i < k =>
    /\ listings[s][i].effective_from <= listings[s][k].effective_from
    /\ \/ listings[s][i].listing # listings[s][k].listing
       \/ listings[s][i].effective_from # listings[s][k].effective_from

\* However records and transitions come, every step leaves them so.
StaysOrdered == [][HistoryOrdered']_listings

\* Point-in-time reads: a row added later than `known` changes no answer given
\* with the knowledge of that date, however far back its window reaches.
AddKeepsKnowledge ==
  [][listings' # listings =>
     \A s \in Securities, row \in Windows : AddRecord(s, row) =>
       \A at, known \in Times : known < row.recorded_at =>
         ListingAsOf(listings'[s], at, known) = ListingAsOf(listings[s], at, known)]_listings

\* A transition changes no answer about the time before it, even when it is
\* recorded late, out of order or twice.
TransitionKeepsThePast ==
  [][listings' # listings =>
     \A s \in Securities, listing \in Listings, at, recorded \in Times :
       TransitionListing(s, listing, at, recorded) =>
         \A before, known \in Times : before < at =>
           ListingAsOf(listings'[s], before, known) = ListingAsOf(listings[s], before, known)
    ]_listings

\* A transition later than everything in the history takes over for good: from
\* its date on, and once known, the new listing is the answer, also when the
\* security returns to a listing it had before.
TransitionTakesOver ==
  [][listings' # listings =>
     \A s \in Securities, listing \in Listings, at, recorded \in Times :
       /\ TransitionListing(s, listing, at, recorded)
       /\ \A i \in DOMAIN listings[s] :
            /\ listings[s][i].effective_from < at
            /\ listings[s][i].effective_to # Open => listings[s][i].effective_to <= at
       => \A later, known \in Times : later >= at /\ known >= recorded =>
            ListingAsOf(listings'[s], later, known) = listing
    ]_listings

\* The four together: an answer changes only by what was known and in force.
AnswersStand == StaysOrdered /\ AddKeepsKnowledge /\ TransitionKeepsThePast /\ TransitionTakesOver

\* day-19.md: "No lookahead leakage was introduced in point-in-time reads": a
\* transition recorded later than `known` changes no answer given with the
\* knowledge of that date.
TransitionKeepsKnowledge ==
  [][listings' # listings =>
     \A s \in Securities, listing \in Listings, at, recorded \in Times :
       TransitionListing(s, listing, at, recorded) =>
         \A asOf, known \in Times : known < recorded =>
           ListingAsOf(listings'[s], asOf, known) = ListingAsOf(listings[s], asOf, known)
    ]_listings
=============================================================================
