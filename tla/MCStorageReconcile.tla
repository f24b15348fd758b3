-------------------------- MODULE MCStorageReconcile --------------------------
(* Locations as they may be found by the first start that records sizes.   *)
EXTENDS StorageReconcile

With(parts, count, merged, mergedObject, entry) ==
  [row |-> [at |-> "active", entry |-> entry, partCount |-> count,
            merged |-> merged, partsDeleted |-> FALSE, lease |-> 0,
            leaseVersion |-> 0, size |-> Unknown],
   objects |-> [parts |-> parts, merged |-> mergedObject]]

Parts(parts, count) == With(parts, count, FALSE, FALSE, TRUE)

MCLayout == <<
  {Parts({0}, 1), Parts({}, 1), Parts({}, 0), Parts({}, 3),
   With({0, 1}, 1, FALSE, FALSE, FALSE)},
  {Parts({0, 1}, 2), Parts({0}, 2),
   With({0, 1}, 2, TRUE, TRUE, TRUE), With({0, 1}, 2, TRUE, FALSE, TRUE),
   Parts({0, 1, 2}, 2)} >>
=============================================================================
