CONSTANTS
  s1 = s1
  nyse = nyse
  nasdaq = nasdaq
  Open = Open
  NoListing = NoListing
  Securities = {s1}
  Listings = {nyse, nasdaq}
  Times = {1, 2, 3}
  MaxListings = 3
SPECIFICATION HistorySpec
PROPERTY TransitionKeepsKnowledge
