------------------------------- MODULE Finish -------------------------------
(***************************************************************************)
(* What run() does after the last file: the filesystems that were written  *)
(* to are synced (src/worker/sync.rs), and the drives the user configured  *)
(* are unmounted, if need be after closing the processes that keep them    *)
(* busy (src/unmount).  Meanwhile drives may be pulled, other processes    *)
(* open and close files and end, and process ids are given out again.      *)
(*                                                                         *)
(* A drive is its filesystem and its mount point.  Of the busy processes   *)
(* /proc shows those of the same user, and only their open files: a        *)
(* working directory keeps a drive busy too.                               *)
(***************************************************************************)
EXTENDS Integers, Sequences, FiniteSets, Functions

CONSTANTS
    Drives,
    System,         \* the filesystem the mount points are directories of
    Targets,        \* the directories in sync_targets, in order
    DriveOf,        \* DriveOf[t]: the drive target t was written on
    Eject,          \* the drives to unmount, in order, each of them once
    Unlisted,       \* drives whose configured path is not the text /proc/mounts has for
                    \* them: it escapes a space, and writes no trailing slash
    NoDevice,       \* drives whose source is not below /dev
    Pids, NoPid,
    Foreign,        \* ids of processes of other users
    NoDrive,
    MaxEvents       \* bound on what goes on in the system meanwhile

ASSUME FinishAssumption ==
    /\ Targets \in Seq(Range(Targets)) /\ DriveOf \in [Range(Targets) -> Drives]
    /\ Eject \in Seq(Drives) /\ IsInjective(Eject)
    /\ Unlisted \subseteq Drives /\ NoDevice \subseteq Drives /\ Foreign \subseteq Pids
    /\ System \notin Drives /\ NoDrive \notin Drives /\ NoPid \notin Pids
    /\ IsFiniteSet(Drives) /\ IsFiniteSet(Pids) /\ MaxEvents \in Nat

VARIABLES
    mounted,        \* drives that are mounted
    dirty,          \* drives with data of this run that is not on the device
    alive,          \* process ids in use
    file, cwd,      \* the drive each process has a file open on, and its directory in
    dying,          \* processes that were sent SIGKILL
    happened,
    pc, next,       \* the program's next step; the index of its target or drive
    device,         \* the filesystem of the open sync handle
    synced_devices, synced_any,
    warned,         \* the warning of run_post_transfer_sync was printed
    retrying,       \* the second call of unmount_drive
    looked, detected,   \* processes detect_busy_processes has examined, and its results
    victim,         \* the process terminate_process waits for
    ejected,        \* drives reported as safely ejected
    misread,        \* history: drives taken for unmounted as the mount table was unreadable
    failed,         \* history: drives whose handle or syncfs failed
    pulled,         \* history: drives that were removed while mounted
    agreed,         \* history: the user lets the drive's processes be closed
    holder, signalled,  \* history: ids found to use the drive; those sent a signal
    reused          \* history: ids given to a new process since they were looked at

world   == <<mounted, dirty, alive, file, cwd, dying, happened>>
syncing == <<device, synced_devices, synced_any, warned>>
closing == <<looked, detected, victim>>
hist    == <<failed, pulled, agreed, holder, signalled, reused>>
reports == <<ejected, misread>>
vars    == <<world, pc, next, syncing, retrying, closing, reports, hist>>

Steps == {"open", "syncfs", "drive", "flush", "table", "udisksctl", "umount", "syscall",
          "detect", "prompt", "close", "kill", "done"}

TypeOK ==
    /\ mounted \subseteq Drives /\ dirty \subseteq Drives
    /\ alive \subseteq Pids /\ dying \subseteq alive
    /\ file \in [Pids -> Drives \cup {NoDrive}] /\ cwd \in [Pids -> Drives \cup {NoDrive}]
    /\ \A p \in Pids : p \notin alive => file[p] = NoDrive /\ cwd[p] = NoDrive
    /\ happened \in 0..MaxEvents
    /\ pc \in Steps
    /\ next \in 1 .. (IF Len(Targets) > Len(Eject) THEN Len(Targets) ELSE Len(Eject)) + 1
    /\ device \in Drives \cup {System, NoDrive}
    /\ synced_devices \subseteq Drives \cup {System}
    /\ synced_any \in BOOLEAN /\ warned \in BOOLEAN /\ retrying \in BOOLEAN
    /\ looked \subseteq Pids /\ detected \subseteq looked \ Foreign
    /\ victim \in Pids \cup {NoPid} /\ (pc = "kill") = (victim # NoPid)
    /\ ejected \subseteq Range(Eject) /\ misread \subseteq ejected
    /\ failed \subseteq Drives /\ pulled \subseteq Drives /\ agreed \in BOOLEAN
    /\ holder \subseteq Pids /\ signalled \subseteq Pids /\ reused \subseteq Pids

(* The workers have written on every target's drive.                       *)
Init ==
    /\ mounted = Drives /\ dirty = Range(DriveOf)
    /\ alive \in SUBSET Pids
    /\ file \in [Pids -> Drives \cup {NoDrive}] /\ cwd \in [Pids -> Drives \cup {NoDrive}]
    /\ \A p \in Pids : p \notin alive => file[p] = NoDrive /\ cwd[p] = NoDrive
    /\ dying = {} /\ happened = 0
    /\ pc = "open" /\ next = 1
    /\ device = NoDrive /\ synced_devices = {} /\ synced_any = FALSE /\ warned = FALSE
    /\ retrying = FALSE /\ looked = {} /\ detected = {} /\ victim = NoPid
    /\ ejected = {} /\ misread = {} /\ failed = {} /\ pulled = {} /\ agreed = FALSE
    /\ holder = {} /\ signalled = {} /\ reused = {}

-----------------------------------------------------------------------------
(* run_post_transfer_sync and run_scoped_sync.                             *)

(* open_sync_handle walks up to a directory that exists: without the drive *)
(* that is one of the system's. *)
Filesystem(t) == IF DriveOf[t] \in mounted THEN DriveOf[t] ELSE System

OpenTarget ==
    /\ pc = "open" /\ next <= Len(Targets)
    /\ LET fs == Filesystem(Targets[next]) IN
         IF fs \in synced_devices
         THEN next' = next + 1 /\ UNCHANGED <<pc, device, synced_devices>>
         ELSE /\ device' = fs /\ synced_devices' = synced_devices \cup {fs}
              /\ pc' = "syncfs" /\ UNCHANGED next
    /\ UNCHANGED <<world, synced_any, warned, retrying, closing, reports, hist>>

(* Slip: the first error ends the sync. *)
OpenFailsForAll ==
    /\ pc = "open" /\ next <= Len(Targets)
    /\ next' = Len(Targets) + 1
    /\ failed' = failed \cup {DriveOf[Targets[next]]}
    /\ UNCHANGED <<world, pc, syncing, retrying, closing, reports, pulled, agreed, holder,
                   signalled, reused>>

(* It cannot be opened, or its metadata cannot be read. *)
OpenFails ==
    /\ pc = "open" /\ next <= Len(Targets)
    /\ next' = next + 1
    /\ failed' = failed \cup {DriveOf[Targets[next]]}
    /\ UNCHANGED <<world, pc, syncing, retrying, closing, reports, pulled, agreed, holder,
                   signalled, reused>>

Syncfs ==
    /\ pc = "syncfs" /\ device \notin pulled
    /\ dirty' = dirty \ {device}
    /\ synced_any' = TRUE
    /\ pc' = "open" /\ next' = next + 1 /\ device' = NoDrive
    /\ UNCHANGED <<mounted, alive, file, cwd, dying, happened, synced_devices, warned,
                   retrying, closing, reports, hist>>

(* The device stays in synced_devices: its other targets are passed over.  *)
SyncfsFails ==
    /\ pc = "syncfs"
    /\ failed' = failed \cup ({device} \cap Drives)
    /\ pc' = "open" /\ next' = next + 1 /\ device' = NoDrive
    /\ UNCHANGED <<world, synced_devices, synced_any, warned, retrying, closing, reports,
                   pulled, agreed, holder, signalled, reused>>

(* One sync that succeeded is enough to warn of nothing.  The user may not *)
(* have asked to unmount. *)
SyncEnds ==
    /\ pc = "open" /\ next > Len(Targets)
    /\ warned' = ~synced_any
    /\ next' = 1 /\ pc' \in {"drive", "done"}
    /\ UNCHANGED <<world, device, synced_devices, synced_any, retrying, closing, reports, hist>>

-----------------------------------------------------------------------------
(* safe_unmount of each drive, and unmount_drive in it.                    *)

Drive == Eject[next]
Busy(d) == \E p \in alive : file[p] = d \/ cwd[p] = d

TakeDrive ==
    /\ pc = "drive"
    /\ pc' = IF next <= Len(Eject) THEN "flush" ELSE "done"
    /\ retrying' = FALSE /\ looked' = {} /\ detected' = {}
    /\ holder' = {} /\ signalled' = {} /\ reused' = {} /\ agreed' = FALSE
    /\ UNCHANGED <<world, next, syncing, victim, reports, failed, pulled>>

(* libc::sync() reports no error; what it cannot write stays. *)
Flush ==
    /\ pc = "flush"
    /\ \E written \in SUBSET (dirty \ pulled) : dirty' = dirty \ written
    /\ pc' = "table"
    /\ UNCHANGED <<mounted, alive, file, cwd, dying, happened, next, syncing, retrying, closing,
                   reports, hist>>

(* The results of unmount_drive for its two callers. *)
Ejected ==
    /\ ejected' = ejected \cup {Drive}
    /\ pc' = "drive" /\ next' = next + 1 /\ UNCHANGED misread
NotEjected == pc' = "drive" /\ next' = next + 1 /\ UNCHANGED reports

(* is_mount_point compares with /proc/mounts as it is written there.       *)
Listed(d) == d \in mounted \ Unlisted

(* The table is read once more for the device to give to udisksctl, which  *)
(* is passed over when there is none. *)
ReadTable ==
    /\ pc = "table"
    /\ IF Listed(Drive)
       THEN /\ pc' \in {"umount"} \cup IF Drive \in NoDevice THEN {} ELSE {"udisksctl"}
            /\ UNCHANGED <<reports, next>>
       ELSE Ejected
    /\ UNCHANGED <<world, syncing, retrying, closing, hist>>

(* A table that cannot be read, or is no UTF-8 text, lists no drive. *)
ReadTableFails ==
    /\ pc = "table"
    /\ ejected' = ejected \cup {Drive} /\ misread' = misread \cup {Drive}
    /\ pc' = "drive" /\ next' = next + 1
    /\ UNCHANGED <<world, syncing, retrying, closing, hist>>

Trying == pc \in {"udisksctl", "umount", "syscall"}

(* Slip: a command that ran has unmounted the drive. *)
UnmountAssumed ==
    /\ Trying
    /\ Ejected
    /\ UNCHANGED <<world, syncing, retrying, closing, hist>>

(* The kernel writes what is left before it lets go of the drive.          *)
Unmounts ==
    /\ Trying
    /\ Drive \in mounted /\ ~Busy(Drive)
    /\ mounted' = mounted \ {Drive} /\ dirty' = dirty \ {Drive}
    /\ Ejected
    /\ UNCHANGED <<alive, file, cwd, dying, happened, syncing, retrying, closing, hist>>

(* Each way fails on a busy drive, one that is gone, or for its own        *)
(* reasons; the third failure fails unmount_drive. *)
UnmountFails ==
    /\ Trying
    /\ CASE pc = "udisksctl" -> pc' = "umount" /\ UNCHANGED <<next, reports>>
         [] pc = "umount"    -> pc' = "syscall" /\ UNCHANGED <<next, reports>>
         [] pc = "syscall" /\ retrying -> NotEjected
         [] OTHER -> pc' = "detect" /\ UNCHANGED <<next, reports>>
    /\ UNCHANGED <<world, syncing, retrying, closing, hist>>

-----------------------------------------------------------------------------
(* handle_busy_processes_and_retry.                                        *)

(* Slip: a process whose files cannot be read is taken for a user.         *)
LookAtAny(p) ==
    /\ pc = "detect" /\ p \notin looked
    /\ looked' = looked \cup {p}
    /\ LET holds == p \in alive /\ (file[p] = Drive \/ p \in Foreign) IN
         /\ detected' = IF holds THEN detected \cup {p} ELSE detected
         /\ holder' = IF holds THEN holder \cup {p} ELSE holder
    /\ reused' = reused \ {p}
    /\ UNCHANGED <<world, pc, next, syncing, retrying, victim, reports, failed, pulled, agreed,
                   signalled>>

(* detect_busy_processes, one process at a time. *)
LookAt(p) ==
    /\ pc = "detect" /\ p \notin looked
    /\ looked' = looked \cup {p}
    /\ LET holds == p \in alive \ Foreign /\ file[p] = Drive IN
         /\ detected' = IF holds THEN detected \cup {p} ELSE detected
         /\ holder' = IF holds THEN holder \cup {p} ELSE holder
    /\ reused' = reused \ {p}
    /\ UNCHANGED <<world, pc, next, syncing, retrying, victim, reports, failed, pulled, agreed,
                   signalled>>

AllLookedAt ==
    /\ pc = "detect" /\ looked = Pids
    /\ IF detected = {} THEN NotEjected ELSE pc' = "prompt" /\ UNCHANGED <<next, reports>>
    /\ UNCHANGED <<world, syncing, retrying, closing, hist>>

(* The processes cannot be listed. *)
DetectFails ==
    /\ pc = "detect"
    /\ NotEjected
    /\ UNCHANGED <<world, syncing, retrying, closing, hist>>

Declines ==
    /\ pc = "prompt"
    /\ NotEjected
    /\ UNCHANGED <<world, syncing, retrying, closing, hist>>

Agrees ==
    /\ pc = "prompt"
    /\ pc' = "close" /\ agreed' = TRUE
    /\ UNCHANGED <<world, next, syncing, retrying, closing, reports, failed, pulled, holder,
                   signalled, reused>>

(* terminate_process: SIGTERM, which the process may ignore.  Nautilus is  *)
(* asked to quit before.  Either may have ended the process by Exit. *)
Terminate(p) ==
    /\ pc = "close" /\ p \in detected /\ p \in alive
    /\ detected' = detected \ {p}
    /\ victim' = p /\ pc' = "kill" /\ signalled' = signalled \cup {p}
    /\ UNCHANGED <<world, next, syncing, retrying, looked, reports, failed, pulled, agreed,
                   holder, reused>>

(* There is no such process any more, or it is another user's. *)
TerminateFails(p) ==
    /\ pc = "close" /\ p \in detected /\ (p \notin alive \/ p \in reused)
    /\ detected' = detected \ {p}
    /\ UNCHANGED <<world, pc, next, syncing, retrying, looked, victim, reports, hist>>

(* Slip: a process that ignores SIGTERM is left alone. *)
NoKill ==
    /\ pc = "kill"
    /\ victim' = NoPid /\ pc' = "close"
    /\ UNCHANGED <<world, next, syncing, retrying, looked, detected, reports, hist>>

(* 400 ms later: SIGKILL if it is still there. *)
Kill ==
    /\ pc = "kill"
    /\ dying' = dying \cup ({victim} \cap alive)
    /\ victim' = NoPid /\ pc' = "close"
    /\ UNCHANGED <<mounted, dirty, alive, file, cwd, happened, next, syncing, retrying, looked,
                   detected, reports, hist>>

(* 700 ms after the last process. *)
Retry ==
    /\ pc = "close" /\ detected = {}
    /\ retrying' = TRUE
    /\ pc' = "flush"
    /\ UNCHANGED <<world, next, syncing, closing, reports, hist>>

Program ==
    \/ OpenTarget \/ OpenFails \/ Syncfs \/ SyncfsFails \/ SyncEnds
    \/ TakeDrive \/ Flush \/ ReadTable \/ ReadTableFails \/ Unmounts \/ UnmountFails
    \/ \E p \in Pids : LookAt(p) \/ Terminate(p) \/ TerminateFails(p)
    \/ AllLookedAt \/ DetectFails \/ Declines \/ Agrees \/ Kill \/ Retry

-----------------------------------------------------------------------------
(* The drives' user and the other processes.                               *)

Happens == happened < MaxEvents /\ happened' = happened + 1

Pull(d) ==
    /\ Happens
    /\ d \in mounted
    /\ mounted' = mounted \ {d} /\ pulled' = pulled \cup {d}
    /\ UNCHANGED <<dirty, alive, file, cwd, dying, pc, next, syncing, retrying, closing, reports,
                   failed, agreed, holder, signalled, reused>>

(* Another program unmounts the drive, which the program's own handle on   *)
(* it prevents. *)
UnmountedElsewhere(d) ==
    /\ Happens
    /\ d \in mounted /\ ~Busy(d) /\ device # d
    /\ mounted' = mounted \ {d} /\ dirty' = dirty \ {d}
    /\ UNCHANGED <<alive, file, cwd, dying, pc, next, syncing, retrying, closing, reports, hist>>

OpenFile(p, d) ==
    /\ Happens
    /\ p \in alive /\ d \in mounted /\ file[p] = NoDrive
    /\ file' = [file EXCEPT ![p] = d]
    /\ UNCHANGED <<mounted, dirty, alive, cwd, dying, pc, next, syncing, retrying, closing,
                   reports, hist>>

Exit(p) ==
    /\ p \in alive
    /\ p \in dying \/ happened < MaxEvents
    /\ happened' = IF p \in dying THEN happened ELSE happened + 1
    /\ alive' = alive \ {p} /\ dying' = dying \ {p}
    /\ file' = [file EXCEPT ![p] = NoDrive] /\ cwd' = [cwd EXCEPT ![p] = NoDrive]
    /\ UNCHANGED <<mounted, dirty, pc, next, syncing, retrying, closing, reports, hist>>

(* A new process gets the id of one that has ended. *)
Start(p) ==
    /\ Happens
    /\ p \notin alive
    /\ alive' = alive \cup {p} /\ reused' = reused \cup {p}
    /\ UNCHANGED <<mounted, dirty, file, cwd, dying, pc, next, syncing, retrying, closing, reports,
                   failed, pulled, agreed, holder, signalled>>

Others ==
    \/ \E d \in Drives : Pull(d) \/ UnmountedElsewhere(d)
    \/ \E p \in Pids : Exit(p) \/ Start(p) \/ \E d \in Drives : OpenFile(p, d)

Next == Program \/ Others

Spec == Init /\ [][Next]_vars

-----------------------------------------------------------------------------
(* Properties.                                                             *)

(* SyncCovers: when the sync has ended, data of the run is missing only    *)
(* from drives whose own handle or sync failed, and from drives that were  *)
(* pulled: a failure, or a drive that has gone, keeps no other drive from  *)
(* being synced. *)
SyncCovers == pc \notin {"open", "syncfs"} => dirty \subseteq failed \cup pulled

(* EjectedIsSafe: a drive that is reported as safely ejected is not        *)
(* mounted, and all data is on it, unless it was pulled, or was not found  *)
(* in /proc/mounts though it was mounted: that table could not be read, or *)
(* has another text for the drive's path. *)
EjectedIsSafe ==
    \A d \in ejected \ (pulled \cup Unlisted \cup misread) : d \notin mounted /\ d \notin dirty

(* ClosesHolders: a signal goes only to an id that was found with a file   *)
(* open on the drive, and that the user agreed to close; who has the id by *)
(* then, the code does not ask.  When the unmount is tried again, each of  *)
(* the processes found has ended or been killed, but those whose id went   *)
(* to another process since. *)
ClosesHolders ==
    /\ signalled \subseteq holder
    /\ signalled # {} => agreed
    /\ retrying => holder \cap alive \subseteq dying \cup reused
=============================================================================
