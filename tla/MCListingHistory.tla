-------------------------- MODULE MCListingHistory --------------------------
(* One security moving between two listings, as model values. *)
EXTENDS ListingHistory

CONSTANTS s1, nyse, nasdaq
=============================================================================
