------------------------- MODULE MountWatcherProofs -------------------------
(***************************************************************************)
(* Theorems about the mount watcher, for any folders, mappings and events. *)
(*                                                                         *)
(* That a path is queued once rests on the order in Insert: the path is    *)
(* recorded as seen before anything is queued for it, and is queued only   *)
(* if it was not seen.  So nothing was queued for an unseen path, nor for  *)
(* the path at hand and the mappings that are left.                        *)
(***************************************************************************)
EXTENDS MountWatcher, TLAPS

(* What was queued so far, seen from the watcher's next step. *)
Untouched(p, M) == \A m \in M : times[p][m] = 0

QueuingInv ==
    /\ QueuedOnce
    /\ \A p \in Paths \ seen : Untouched(p, Mappings)
    /\ pc \in {"check", "queue"} => path \in seen
    /\ pc = "check" => Untouched(path, Mappings)
    /\ pc = "queue" => Untouched(path, left)

LEMMA EligibleMappings == Eligible \subseteq Mappings
BY WatcherAssumption

-----------------------------------------------------------------------------
LEMMA InitTyped == Init => TypeOK
<1> SUFFICES ASSUME Init
             PROVE  TypeOK
  OBVIOUS
<1>1. events \in Seq(Events) /\ Len(events) <= MaxEvents
  BY WatcherAssumption DEF Init
<1>2. times \in [Paths -> [Mappings -> Nat]]
  BY DEF Init
<1>3. dirs \subseteq Paths /\ \A p \in dirs : RootOf[p] \in exists
  BY DEF Init
<1>4. moves \in 0..MaxMoves
  BY WatcherAssumption DEF Init
<1>5. /\ watches \subseteq exists /\ rescan \in BOOLEAN /\ seen \subseteq Paths
      /\ pc \in {"register", "scan", "insert", "check", "queue", "wait"}
      /\ todo \subseteq Roots /\ entries \subseteq Paths /\ found \subseteq Paths
      /\ path \in Paths \cup {NoPath} /\ (pc \in {"check", "queue"} => path # NoPath)
      /\ left \subseteq Eligible
      /\ failed \subseteq Paths \X Eligible
      /\ announced \subseteq mounted /\ gone \subseteq Paths
  BY DEF Init
<1>6. exists \subseteq Roots /\ mounted \subseteq dirs
  BY DEF Init
<1> QED  BY <1>1, <1>2, <1>3, <1>4, <1>5, <1>6 DEF TypeOK

(* Events are only put into the channel where there is room for them.      *)
LEMMA Sent ==
    ASSUME events \in Seq(Events), NEW e \in Events, Len(events) < MaxEvents
    PROVE  Append(events, e) \in Seq(Events) /\ Len(Append(events, e)) <= MaxEvents
BY WatcherAssumption

LEMMA StepTyped == TypeOK /\ [Next]_vars => TypeOK'
<1> SUFFICES ASSUME TypeOK, [Next]_vars
             PROVE  TypeOK'
  OBVIOUS
<1> USE DEF TypeOK
<1>m. Moves => moves' \in 0..MaxMoves
  BY WatcherAssumption DEF Moves
<1>e. [kind |-> "other", path |-> NoPath] \in Events
      /\ \A p \in Paths : [kind |-> "changed", path |-> p] \in Events
  BY DEF Events
<1>1. ASSUME NEW r \in Roots, Register(r)
      PROVE  TypeOK'
  <2>1. watches' \subseteq exists
    BY <1>1 DEF Register
  <2> QED  BY <1>1, <2>1 DEF Register, folders, queuing, hist
<1>2. ASSUME Registered
      PROVE  TypeOK'
  BY <1>2 DEF Registered, folders, queuing
<1>3. ASSUME NEW r \in Roots, ReadRoot(r)
      PROVE  TypeOK'
  <2>1. events' \in Seq(Events) /\ Len(events') <= MaxEvents /\ announced' \subseteq mounted
    BY <1>3, <1>e, Sent DEF ReadRoot
  <2> QED  BY <1>3, <2>1 DEF ReadRoot, folders, queuing
<1>4. ASSUME NEW p \in Paths, LookAt(p)
      PROVE  TypeOK'
  BY <1>4 DEF LookAt, folders, queuing, hist
<1>5. ASSUME NEW p \in Paths, Insert(p)
      PROVE  TypeOK'
  BY <1>5, WatcherAssumption DEF Insert, folders, hist
<1>6. ASSUME ScanEnds
      PROVE  TypeOK'
  BY <1>6 DEF ScanEnds, folders, queuing, hist
<1>7. ASSUME AllInserted
      PROVE  TypeOK'
  BY <1>7 DEF AllInserted, folders, queuing, hist
<1>8. ASSUME TakeEvent
      PROVE  TypeOK'
  <2>1. Tail(events) \in Seq(Events) /\ Len(Tail(events)) <= MaxEvents
    BY <1>8, WatcherAssumption DEF TakeEvent
  <2>2. found' \subseteq Paths
    BY <1>8 DEF TakeEvent
  <2> QED  BY <1>8, <2>1, <2>2 DEF TakeEvent, folders, queuing, hist
<1>9. ASSUME CheckAgain
      PROVE  TypeOK'
  BY <1>9 DEF CheckAgain, folders, scan, hist
<1>10. ASSUME NEW m \in Mappings, QueueMapping(m)
       PROVE  TypeOK'
  <2>1. times' = [times EXCEPT ![path] = [times[path] EXCEPT ![m] = times[path][m] + 1]]
    BY <1>10 DEF QueueMapping
  <2>2. path \in Paths => [times[path] EXCEPT ![m] = times[path][m] + 1] \in [Mappings -> Nat]
    OBVIOUS
  <2>3. times' \in [Paths -> [Mappings -> Nat]]
    BY <2>1, <2>2
  <2> QED  BY <1>10, <2>3 DEF QueueMapping, folders, scan, hist
<1>11. ASSUME AllQueued
       PROVE  TypeOK'
  BY <1>11 DEF AllQueued, folders, scan, hist
<1>12. ASSUME NEW r \in Roots, CreateRoot(r)
       PROVE  TypeOK'
  BY <1>12, <1>m DEF CreateRoot, scan, queuing, hist
<1>13. ASSUME NEW p \in Paths, MakeDirectory(p)
       PROVE  TypeOK'
  <2>1. events' \in Seq(Events) /\ Len(events') <= MaxEvents /\ announced' \subseteq mounted
    BY <1>13, <1>e, Sent DEF MakeDirectory, Notify
  <2> QED  BY <1>13, <1>m, <2>1 DEF MakeDirectory, scan, queuing
<1>14. ASSUME NEW p \in Paths, Mount(p)
       PROVE  TypeOK'
  BY <1>14, <1>m DEF Mount, scan, queuing, hist
<1>15. ASSUME NEW p \in Paths, Unmount(p)
       PROVE  TypeOK'
  BY <1>15, <1>m DEF Unmount, scan, queuing
<1>16. ASSUME NEW p \in Paths, RemoveDirectory(p)
       PROVE  TypeOK'
  <2>1. events' \in Seq(Events) /\ Len(events') <= MaxEvents /\ announced' \subseteq mounted
    BY <1>16, <1>e, Sent DEF RemoveDirectory, Notify
  <2> QED  BY <1>16, <1>m, <2>1 DEF RemoveDirectory, scan, queuing
<1>17. ASSUME Overflow
       PROVE  TypeOK'
  <2>1. events' \in Seq(Events) /\ Len(events') <= MaxEvents
    BY <1>17, <1>e, WatcherAssumption DEF Overflow
  <2> QED  BY <1>17, <2>1 DEF Overflow, folders, scan, queuing
<1>18. CASE UNCHANGED vars
  BY <1>18 DEF vars, folders, scan, queuing, hist
<1>19. ASSUME NEW r \in Roots, ReadRootFails(r)
       PROVE  TypeOK'
  BY <1>19 DEF ReadRootFails, folders, queuing
<1>20. ASSUME NEW p \in Paths, LookAtFails(p)
       PROVE  TypeOK'
  BY <1>20 DEF LookAtFails, folders, queuing
<1>21. ASSUME NEW m \in Mappings, QueueMappingFails(m)
       PROVE  TypeOK'
  <2>1. path \in Paths
    BY <1>21 DEF QueueMappingFails
  <2>2. failed' \subseteq Paths \X Eligible
    BY <1>21, <2>1 DEF QueueMappingFails
  <2> QED  BY <1>21, <2>2 DEF QueueMappingFails, folders, scan, hist
<1>22. ASSUME CheckAgainFails
       PROVE  TypeOK'
  <2>1. path \in Paths
    BY <1>22 DEF CheckAgainFails
  <2>2. failed' \subseteq Paths \X Eligible
    BY <1>22, <2>1 DEF CheckAgainFails
  <2> QED  BY <1>22, <2>2 DEF CheckAgainFails, folders, scan, hist
<1>23. Watcher => TypeOK'
  BY <1>1, <1>2, <1>3, <1>4, <1>5, <1>6, <1>7, <1>8, <1>9, <1>10, <1>11,
     <1>19, <1>20, <1>21, <1>22 DEF Watcher
<1>24. System => TypeOK'
  BY <1>12, <1>13, <1>14, <1>15, <1>16, <1>17 DEF System
<1> QED  BY <1>18, <1>23, <1>24 DEF Next

(* The variables keep their types, in every behaviour of the watcher and   *)
(* of the system around it. *)
THEOREM WatcherTyped == Spec => []TypeOK
<1>1. Init => TypeOK
  BY InitTyped
<1>2. TypeOK /\ [Next]_vars => TypeOK'
  BY StepTyped
<1> QED  BY <1>1, <1>2, PTL DEF Spec

-----------------------------------------------------------------------------
LEMMA InitQueuing == Init => QueuingInv
BY DEF Init, QueuingInv, QueuedOnce, Untouched

(* Every step but three leaves the queuing alone.                          *)
LEMMA QueuingKept ==
    ASSUME QueuingInv, UNCHANGED <<times, seen, path, left>>,
           pc' \in {"check", "queue"} => pc' = pc
    PROVE  QueuingInv'
BY DEF QueuingInv, QueuedOnce, Untouched

LEMMA StepQueuing == TypeOK /\ QueuingInv /\ [Next]_vars => QueuingInv'
<1> SUFFICES ASSUME TypeOK, QueuingInv, [Next]_vars
             PROVE  QueuingInv'
  OBVIOUS
<1>1. ASSUME NEW p \in Paths, Insert(p)
      PROVE  QueuingInv'
  <2>1. CASE p \in seen
    BY <1>1, <2>1 DEF Insert, QueuingInv, QueuedOnce, Untouched
  <2>2. CASE p \notin seen
    BY <1>1, <2>2 DEF Insert, QueuingInv, QueuedOnce, Untouched
  <2> QED  BY <2>1, <2>2
<1>2. ASSUME CheckAgain
      PROVE  QueuingInv'
  BY <1>2, EligibleMappings DEF CheckAgain, scan, QueuingInv, QueuedOnce, Untouched
<1>3. ASSUME NEW m \in Mappings, QueueMapping(m)
      PROVE  QueuingInv'
  <2>1. path \in Paths /\ times[path][m] = 0
    BY <1>3 DEF QueueMapping, QueuingInv, Untouched, TypeOK
  <2>2. \A p \in Paths, n \in Mappings :
            times'[p][n] = IF p = path /\ n = m THEN 1 ELSE times[p][n]
    BY <1>3, <2>1 DEF QueueMapping, TypeOK
  <2>3. left \subseteq Mappings
    BY EligibleMappings DEF TypeOK
  <2>4. QueuedOnce'
    BY <2>2 DEF QueuingInv, QueuedOnce
  <2>5. \A p \in Paths \ seen' : Untouched(p, Mappings)'
    BY <1>3, <2>2 DEF QueueMapping, scan, QueuingInv, Untouched
  <2>6. Untouched(path, left)'
    BY <1>3, <2>1, <2>2, <2>3 DEF QueueMapping, QueuingInv, Untouched
  <2> QED  BY <1>3, <2>4, <2>5, <2>6 DEF QueueMapping, QueuingInv, scan
<1>4. ASSUME AllQueued
      PROVE  QueuingInv'
  BY <1>4 DEF AllQueued, scan, QueuingInv, QueuedOnce, Untouched
<1>5. ASSUME \/ \E r \in Roots : Register(r) \/ ReadRoot(r) \/ ReadRootFails(r)
             \/ \E p \in Paths : LookAt(p) \/ LookAtFails(p)
             \/ Registered \/ ScanEnds \/ AllInserted \/ TakeEvent \/ CheckAgainFails
      PROVE  QueuingInv'
  <2>1. UNCHANGED <<times, seen, path, left>>
    BY <1>5 DEF Register, ReadRoot, ReadRootFails, LookAt, LookAtFails, Registered, ScanEnds,
                AllInserted, TakeEvent, CheckAgainFails, queuing
  <2>2. pc' \in {"check", "queue"} => pc' = pc
    BY <1>5 DEF Register, ReadRoot, ReadRootFails, LookAt, LookAtFails, Registered, ScanEnds,
                AllInserted, TakeEvent, CheckAgainFails
  <2> QED  BY <2>1, <2>2, QueuingKept
<1>6. ASSUME System
      PROVE  QueuingInv'
  <2>1. UNCHANGED <<times, seen, path, left, pc>>
    BY <1>6 DEF System, CreateRoot, MakeDirectory, Mount, Unmount, RemoveDirectory, Overflow,
                queuing
  <2> QED  BY <2>1, QueuingKept
<1>7. CASE UNCHANGED vars
  BY <1>7, QueuingKept DEF vars, queuing
<1>8. ASSUME NEW m \in Mappings, QueueMappingFails(m)
      PROVE  QueuingInv'
  BY <1>8 DEF QueueMappingFails, scan, QueuingInv, QueuedOnce, Untouched
<1> QED
  BY <1>1, <1>2, <1>3, <1>4, <1>5, <1>6, <1>7, <1>8 DEF Next, Watcher

(* However many events and scans find a device, and in whatever order they *)
(* come, each of its mappings is queued at most once. *)
THEOREM MountQueuedOnce == Spec => []QueuedOnce
<1>1. Init => TypeOK /\ QueuingInv
  BY InitTyped, InitQueuing
<1>2. TypeOK /\ QueuingInv /\ [Next]_vars => TypeOK' /\ QueuingInv'
  BY StepTyped, StepQueuing
<1>3. QueuingInv => QueuedOnce
  BY DEF QueuingInv
<1> QED  BY <1>1, <1>2, <1>3, PTL DEF Spec
=============================================================================
