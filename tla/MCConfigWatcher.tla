--------------------------- MODULE MCConfigWatcher ---------------------------
(* Instances of ConfigWatcher.                                              *)
EXTENDS ConfigWatcher, TLC

CONSTANTS f1, f2

\* One epoch per file.
HomeOwn == f1 :> {1} @@ f2 :> {2}

WorkerSymmetry == Permutations(Workers)
=============================================================================
