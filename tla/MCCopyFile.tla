---------------------------- MODULE MCCopyFile ----------------------------
(* CopyFile with a file that is read and verified, and a larger one that   *)
(* is copied by copy_file_range and too large to verify.  Two items have   *)
(* something in common beside the counter: the source, or the destination, *)
(* their sources having the same name. *)
EXTENDS CopyFile, TLC

CONSTANTS w1, w2, f1, f2, d1, d2

MCWorkers == {w1, w2}
MCFiles   == {f1, f2}
MCDests   == {d1, d2}
MCSize    == (f1 :> 1) @@ (f2 :> 2)

Both(f, g) == (w1 :> f) @@ (w2 :> g)

MCSeparate    == {[from |-> Both(f1, f2), to |-> Both(d1, d2)]}
MCAssignments == {[from |-> Both(f1, f1), to |-> Both(d1, d2)],
                  [from |-> Both(f1, f2), to |-> Both(d1, d1)]}
=============================================================================
