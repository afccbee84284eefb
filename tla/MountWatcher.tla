---------------------------- MODULE MountWatcher ----------------------------
(***************************************************************************)
(* The mount watcher (src/app/mounts.rs): a thread that watches the        *)
(* folders removable devices are mounted in, and queues the mappings of    *)
(* the default destination for each mount path it has not seen.            *)
(*                                                                         *)
(* Mounting changes nothing in the folder, so no event announces it: the   *)
(* watcher looks at the mount table once after it has registered its       *)
(* watches, and again at every event, whatever the event is about.         *)
(*                                                                         *)
(* Queuing one mapping is a step that may fail; what it does to the queue  *)
(* is TransferQueue.  Folders and the mount table may be unreadable at any *)
(* time, and what is then looked for counts as not mounted.                *)
(***************************************************************************)
EXTENDS Integers, Sequences, FiniteSets

CONSTANTS
    Roots,          \* watch_paths
    Paths,          \* the directories devices are mounted on
    RootOf,         \* RootOf[p]: the watched folder p is in
    Mappings,
    Eligible,       \* those whose destination is below default_destination
    Unlisted,       \* paths /proc/mounts has another text for: it escapes a space
    NoPath,
    MaxMoves,       \* bound on what the system does to folders and devices
    MaxEvents       \* bound on the events in the channel

ASSUME WatcherAssumption ==
    /\ RootOf \in [Paths -> Roots] /\ Eligible \subseteq Mappings /\ Unlisted \subseteq Paths
    /\ IsFiniteSet(Roots) /\ IsFiniteSet(Paths) /\ IsFiniteSet(Mappings)
    /\ NoPath \notin Paths /\ MaxMoves \in Nat /\ MaxEvents \in Nat \ {0}

VARIABLES
    exists,         \* roots that exist
    dirs, mounted,  \* paths that are directories; those a device is mounted on
    moves,
    watches,        \* roots with a watch
    events,         \* the channel from the library's thread
    pc, todo,       \* the watcher's next step; roots it has yet to register or read
    entries, found, \* entries of a root it has yet to look at; mounts it has collected
    rescan,         \* whether a rescan follows the paths at hand
    seen,           \* seen_mount_paths
    path, left,     \* the mount being queued, and the mappings it has yet to queue
    times,          \* history: how often each mapping was queued for each path
    failed,         \* history: the mappings an error kept from being queued, for each path
    announced,      \* history: devices that were there at the registration or at a later
                    \* event, and that no error has hidden since
    gone            \* history: paths a device was taken from

folders == <<exists, dirs, mounted, moves>>
scan    == <<todo, entries, found, rescan>>
queuing == <<path, left, times, failed>>
hist    == <<announced, gone>>
vars    == <<folders, watches, events, pc, scan, seen, queuing, hist>>

(* A Create or Modify event names a path; every other kind is "other".     *)
Events == [kind : {"changed"}, path : Paths] \cup [kind : {"other"}, path : {NoPath}]

TypeOK ==
    /\ exists \subseteq Roots /\ mounted \subseteq dirs /\ dirs \subseteq Paths
    /\ \A p \in dirs : RootOf[p] \in exists
    /\ moves \in 0..MaxMoves
    /\ watches \subseteq exists
    /\ events \in Seq(Events) /\ Len(events) <= MaxEvents
    /\ pc \in {"register", "scan", "insert", "check", "queue", "wait"}
    /\ todo \subseteq Roots /\ entries \subseteq Paths /\ found \subseteq Paths
    /\ rescan \in BOOLEAN /\ seen \subseteq Paths
    /\ path \in Paths \cup {NoPath} /\ (pc \in {"check", "queue"} => path # NoPath)
    /\ left \subseteq Eligible
    /\ times \in [Paths -> [Mappings -> Nat]]
    /\ failed \subseteq Paths \X Eligible
    /\ announced \subseteq mounted /\ gone \subseteq Paths

Init ==
    /\ exists \in SUBSET Roots
    /\ dirs \in SUBSET {p \in Paths : RootOf[p] \in exists}
    /\ mounted \in SUBSET dirs
    /\ moves = 0 /\ watches = {} /\ events = <<>>
    /\ pc = "register" /\ todo = Roots
    /\ entries = {} /\ found = {} /\ rescan = FALSE /\ seen = {}
    /\ path = NoPath /\ left = {}
    /\ times = [p \in Paths |-> [m \in Mappings |-> 0]]
    /\ failed = {} /\ announced = {} /\ gone = {}

-----------------------------------------------------------------------------
(* watch_mounts_for_queueing.                                              *)

(* A folder that is missing, or for which there is no watch to be had, is  *)
(* not watched, which is ignored. *)
Register(r) ==
    /\ pc = "register" /\ r \in todo
    /\ todo' = todo \ {r}
    /\ \E watched \in SUBSET ({r} \cap exists) : watches' = watches \cup watched
    /\ UNCHANGED <<folders, events, pc, entries, found, rescan, seen, queuing, hist>>

Registered ==
    /\ pc = "register" /\ todo = {}
    /\ pc' = "scan" /\ todo' = Roots
    /\ announced' = mounted
    /\ UNCHANGED <<folders, watches, events, entries, found, rescan, seen, queuing, gone>>

(* mounted_paths_in_watch_roots.  Opening a watched folder is an event     *)
(* itself, or is not, as the library has it. *)
ReadRoot(r) ==
    /\ pc = "scan" /\ entries = {} /\ r \in todo
    /\ todo' = todo \ {r}
    /\ entries' = {p \in dirs : RootOf[p] = r}
    /\ \/ UNCHANGED <<events, announced>>
       \/ /\ r \in watches /\ Len(events) < MaxEvents
          /\ events' = Append(events, [kind |-> "other", path |-> NoPath])
          /\ announced' = mounted
    /\ UNCHANGED <<folders, watches, pc, found, rescan, seen, queuing, gone>>

(* The folder cannot be read, and is passed over. *)
ReadRootFails(r) ==
    /\ pc = "scan" /\ entries = {} /\ r \in todo
    /\ todo' = todo \ {r}
    /\ announced' = {p \in announced : RootOf[p] # r}
    /\ UNCHANGED <<folders, watches, events, pc, entries, found, rescan, seen, queuing, gone>>

(* is_mount_point compares with the text of /proc/mounts. *)
Listed(p) == p \in mounted \ Unlisted

LookAt(p) ==
    /\ pc = "scan" /\ p \in entries
    /\ entries' = entries \ {p}
    /\ found' = IF Listed(p) THEN found \cup {p} ELSE found
    /\ UNCHANGED <<folders, watches, events, pc, todo, rescan, seen, queuing, hist>>

LookAtFails(p) ==
    /\ pc = "scan" /\ p \in entries
    /\ entries' = entries \ {p}
    /\ announced' = announced \ {p}
    /\ UNCHANGED <<folders, watches, events, pc, todo, found, rescan, seen, queuing, gone>>

ScanEnds ==
    /\ pc = "scan" /\ entries = {} /\ todo = {}
    /\ pc' = "insert" /\ rescan' = FALSE
    /\ UNCHANGED <<folders, watches, events, todo, entries, found, seen, queuing, hist>>

(* Slip: a path is queued whenever it is found. *)
InsertAny(p) ==
    /\ pc = "insert" /\ p \in found
    /\ found' = found \ {p}
    /\ seen' = seen \cup {p}
    /\ path' = p /\ pc' = "check"
    /\ UNCHANGED <<folders, watches, events, todo, entries, rescan, left, times, failed, hist>>

(* seen_mount_paths.insert, before anything is queued. *)
Insert(p) ==
    /\ pc = "insert" /\ p \in found
    /\ found' = found \ {p}
    /\ seen' = seen \cup {p}
    /\ IF p \in seen THEN UNCHANGED <<path, pc>> ELSE path' = p /\ pc' = "check"
    /\ UNCHANGED <<folders, watches, events, todo, entries, rescan, left, times, failed, hist>>

(* Slip: the mount table is read for the event's own path only. *)
NeverRescans ==
    /\ pc = "insert" /\ found = {}
    /\ pc' = "wait"
    /\ UNCHANGED <<folders, watches, events, scan, seen, queuing, hist>>

AllInserted ==
    /\ pc = "insert" /\ found = {}
    /\ IF rescan THEN pc' = "scan" /\ todo' = Roots ELSE pc' = "wait" /\ UNCHANGED todo
    /\ UNCHANGED <<folders, watches, events, entries, found, rescan, seen, queuing, hist>>

(* for event in rx.iter().flatten().  The rescan makes up for an error. *)
TakeEvent ==
    /\ pc = "wait" /\ events # <<>>
    /\ events' = Tail(events)
    /\ \E listed \in SUBSET {p \in {Head(events).path} \cap Paths : Listed(p)} : found' = listed
    /\ pc' = "insert" /\ rescan' = TRUE
    /\ UNCHANGED <<folders, watches, todo, entries, seen, queuing, hist>>

-----------------------------------------------------------------------------
(* auto_queue_mappings_for_mount.                                          *)

(* Slip: the mappings of other destinations are queued too. *)
CheckAll ==
    /\ pc = "check"
    /\ IF Listed(path)
       THEN pc' = "queue" /\ left' = Mappings
       ELSE pc' = "insert" /\ UNCHANGED left
    /\ UNCHANGED <<folders, watches, events, scan, seen, path, times, failed, hist>>

CheckAgain ==
    /\ pc = "check"
    /\ IF Listed(path)
       THEN pc' = "queue" /\ left' = Eligible
       ELSE pc' = "insert" /\ UNCHANGED left
    /\ UNCHANGED <<folders, watches, events, scan, seen, path, times, failed, hist>>

(* By now the path is recorded as seen: no event will bring it back. *)
CheckAgainFails ==
    /\ pc = "check"
    /\ pc' = "insert"
    /\ failed' = failed \cup ({path} \X Eligible)
    /\ UNCHANGED <<folders, watches, events, scan, seen, path, left, times, hist>>

QueueMapping(m) ==
    /\ pc = "queue" /\ m \in left
    /\ left' = left \ {m}
    /\ times' = [times EXCEPT ![path][m] = @ + 1]
    /\ UNCHANGED <<folders, watches, events, pc, scan, seen, path, failed, hist>>

(* An error is printed, and the next mapping is tried; a source that is    *)
(* neither a file nor a directory is passed over without a word. *)
QueueMappingFails(m) ==
    /\ pc = "queue" /\ m \in left
    /\ left' = left \ {m}
    /\ failed' = failed \cup {<<path, m>>}
    /\ UNCHANGED <<folders, watches, events, pc, scan, seen, path, times, hist>>

AllQueued ==
    /\ pc = "queue" /\ left = {}
    /\ pc' = "insert" /\ path' = NoPath
    /\ UNCHANGED <<folders, watches, events, scan, seen, left, times, failed, hist>>

Watcher ==
    \/ \E r \in Roots : Register(r) \/ ReadRoot(r) \/ ReadRootFails(r)
    \/ \E p \in Paths : LookAt(p) \/ LookAtFails(p) \/ Insert(p)
    \/ Registered \/ ScanEnds \/ AllInserted \/ TakeEvent
    \/ CheckAgain \/ CheckAgainFails
    \/ \E m \in Mappings : QueueMapping(m) \/ QueueMappingFails(m)
    \/ AllQueued

-----------------------------------------------------------------------------
(* The system and its user.                                                *)

Moves == moves < MaxMoves /\ moves' = moves + 1

(* What changes in a watched folder is put into the channel, and whatever  *)
(* is mounted by then is announced. *)
Notify(r, e, now) ==
    IF r \in watches
    THEN /\ Len(events) < MaxEvents
         /\ events' = Append(events, e)
         /\ announced' = now
    ELSE UNCHANGED events /\ announced' = announced \cap now

CreateRoot(r) ==
    /\ Moves
    /\ exists' = exists \cup {r} /\ r \notin exists
    /\ UNCHANGED <<dirs, mounted, watches, events, pc, scan, seen, queuing, hist>>

MakeDirectory(p) ==
    /\ Moves
    /\ RootOf[p] \in exists /\ p \notin dirs
    /\ dirs' = dirs \cup {p}
    /\ Notify(RootOf[p], [kind |-> "changed", path |-> p], mounted)
    /\ UNCHANGED <<exists, mounted, watches, pc, scan, seen, queuing, gone>>

Mount(p) ==
    /\ Moves
    /\ p \in dirs \ mounted
    /\ mounted' = mounted \cup {p}
    /\ UNCHANGED <<exists, dirs, watches, events, pc, scan, seen, queuing, hist>>

Unmount(p) ==
    /\ Moves
    /\ p \in mounted
    /\ mounted' = mounted \ {p}
    /\ announced' = announced \ {p} /\ gone' = gone \cup {p}
    /\ UNCHANGED <<exists, dirs, watches, events, pc, scan, seen, queuing>>

RemoveDirectory(p) ==
    /\ Moves
    /\ p \in dirs \ mounted
    /\ dirs' = dirs \ {p}
    /\ Notify(RootOf[p], [kind |-> "other", path |-> NoPath], mounted)
    /\ UNCHANGED <<exists, mounted, watches, pc, scan, seen, queuing, gone>>

(* The kernel's event queue overflows: one event stands for those lost.    *)
Overflow ==
    /\ Len(events) > 1
    /\ events' = <<[kind |-> "other", path |-> NoPath]>>
    /\ announced' = mounted
    /\ UNCHANGED <<folders, watches, pc, scan, seen, queuing, gone>>

System ==
    \/ \E r \in Roots : CreateRoot(r)
    \/ \E p \in Paths : MakeDirectory(p) \/ Mount(p) \/ Unmount(p) \/ RemoveDirectory(p)
    \/ Overflow

Next == Watcher \/ System

(* The watcher's thread is scheduled; nobody need mount anything.          *)
Spec == Init /\ [][Next]_vars /\ WF_vars(Watcher)

-----------------------------------------------------------------------------
(* Properties.                                                             *)

(* QueuedOnce: however many events and rescans find a device, its mappings *)
(* are queued for it once.                                                 *)
QueuedOnce == \A p \in Paths, m \in Mappings : times[p][m] <= 1

(* AnnouncedQueued: a device that was mounted when the watches were        *)
(* registered, or when a later event was put into the channel, has every   *)
(* mapping queued, but those whose own queuing met an error, if it is not  *)
(* removed, no error hides it from the scan, and /proc/mounts has the text *)
(* of its path: none falls between the registration, the first scan, and   *)
(* the events, and an event that comes for another folder, or stands for   *)
(* lost ones, will do.                                                     *)
AnnouncedQueued ==
    \A p \in Paths \ Unlisted :
        (p \in announced \ gone) ~>
            \/ p \in gone \/ p \notin announced
            \/ \A m \in Eligible : times[p][m] = 1 \/ <<p, m>> \in failed
=============================================================================
