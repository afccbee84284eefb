--------------------------- MODULE MCWorkerPool ---------------------------
(* WorkerPool with two files of one folder to begin with, a file the user  *)
(* adds, and a file the watcher queues at any moment; or (OneFile, Folder) *)
(* with one file, and a folder of two that the watcher queues in one batch. *)
EXTENDS WorkerPool, TLC

CONSTANTS a, b, c, d, folder, w1, w2

MCItems   == {a, b, c, d}
MCRoot    == (a :> folder) @@ (b :> folder) @@ (c :> NoRoot) @@ (d :> NoRoot)
MCInitial == <<a, b>>
OneFile   == <<a>>
MCAdded   == <<c>>
MCWatched == <<<<d>>>>
Folder    == <<<<c, d>>>>
None      == <<>>
MCWorkers == {w1, w2}
WorkersAlike == Permutations(MCWorkers)
=============================================================================
