--------------------------- MODULE MCUploadSession ---------------------------
(* Block lists and symmetric processes for the model-checking runs of      *)
(* UploadSession.                                                          *)
EXTENDS UploadSession, TLC

CONSTANTS b1, b2

TwoOrders == {<<b1, b2>>, <<b2, b1>>}
OneBlock == {<<b1>>}

(* Requests, workers and orphan jobs are interchangeable. *)
ProcessSymmetry ==
  Permutations(Client) \cup Permutations(Worker) \cup Permutations(Claimer)
(* So are the rows of sessions and locations. *)
RowSymmetry ==
  ProcessSymmetry \cup Permutations(Upload) \cup Permutations(Location)
=============================================================================
