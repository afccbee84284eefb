----------------------------- MODULE MCSession -----------------------------
(* Session with a mapped folder of two files, two devices that appear      *)
(* later, and a file the user adds between batches.                        *)
EXTENDS Session, TLC

CONSTANTS a, b, d, e, f, w1, w2

MCItems   == {a, b, d, e, f}
MCMapped  == {<<a, b>>}
MCWatched == <<<<d>>, <<f>>>>
MCAdded   == <<e>>
MCWorkers == {w1, w2}
WorkersAlike == Permutations(MCWorkers)
=============================================================================
