------------------------------ MODULE MCFinish ------------------------------
(* Finish with two targets on one drive and one on another, whose name has *)
(* a space, and a process of the user's and one of somebody else's.        *)
EXTENDS Finish, TLC

CONSTANTS d, e, t1, t2, t3, p, q

MCDrives  == {d, e}
MCTargets == <<t1, t2, t3>>
MCDriveOf == (t1 :> d) @@ (t2 :> e) @@ (t3 :> d)
MCEject   == <<d, e>>
MCPids    == {p, q}
=============================================================================
