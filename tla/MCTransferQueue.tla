-------------------------- MODULE MCTransferQueue --------------------------
(* TransferQueue on small instances: four items in three batches, of which *)
(* one is a directory's.                                                   *)
EXTENDS TransferQueue, TLC

CONSTANTS i1, i2, i3, i4

MCItems   == {i1, i2, i3, i4}
MCSize    == (i1 :> 1) @@ (i2 :> 2) @@ (i3 :> 4) @@ (i4 :> 0)
MCBatches == {<<i1, i2>>, <<i3>>, <<i4>>}
MCWord    == 16
=============================================================================
