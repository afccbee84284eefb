-------------------------- MODULE MCMountWatcher --------------------------
(* MountWatcher with /media and /run/media/$USER, one mount point in       *)
(* each and one more with a space, and one mapping of either kind.         *)
EXTENDS MountWatcher, TLC

CONSTANTS media, run, a, b, c, home, elsewhere

MCRoots    == {media, run}
MCPaths    == {a, b, c}
MCRootOf   == (a :> media) @@ (b :> run) @@ (c :> run)
MCMappings == {home, elsewhere}
MCEligible == {home}
=============================================================================
