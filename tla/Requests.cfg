SPECIFICATION RequestSpec
CONSTANTS
  Sizes <- MCSizes
  Ranges <- MCRanges
  Letter = {"a", "A", "b", "c"}
  Scope = {"main", "branch"}
  Family = {"ours", "theirs"}
  Tuple <- MCTuple
  Engine = {"binary", "folding"}
  Fold <- MCFold
  Asked <- MCAsked
  Single <- MCSingle
  Entries <- MCEntries
  MaxAttempts = 2
  MaxChanges = 2
INVARIANTS RequestInv DeliversSelection ServesBestMatch
PROPERTIES FreshLeaseStreams EveryRequestEnds
