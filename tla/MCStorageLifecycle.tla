------------------------- MODULE MCStorageLifecycle -------------------------
(* Symmetric processes for the model-checking runs of StorageLifecycle. *)
EXTENDS StorageLifecycle, TLC

(* Readers, composers, probers and workers are interchangeable; locations  *)
(* differ in MultiPart and are not.                                        *)
ProcessSymmetry ==
  Permutations(Reader) \cup Permutations(Composer)
    \cup Permutations(Prober) \cup Permutations(Worker)
=============================================================================
