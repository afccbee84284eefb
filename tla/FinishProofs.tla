---------------------------- MODULE FinishProofs ----------------------------
(***************************************************************************)
(* Theorems about the final sync and the unmounts, for any drives, targets *)
(* and processes, and any number of events in the system.                  *)
(***************************************************************************)
EXTENDS Finish, TLAPS

-----------------------------------------------------------------------------
(* Data that is not on its drive is on a drive that is still mounted, or   *)
(* that was pulled: unmounting writes it.  So a drive that is found not to *)
(* be mounted when it is to be ejected has all its data.                   *)

SafeInv == EjectedIsSafe /\ dirty \subseteq mounted \cup pulled

LEMMA InitSafe == Init => SafeInv
BY FinishAssumption DEF Init, SafeInv, EjectedIsSafe, Range

(* What keeps the drives and the reports keeps the invariant. *)
LEMMA SafeKept ==
    ASSUME SafeInv, UNCHANGED <<mounted, pulled, reports>>, dirty' \subseteq dirty
    PROVE  SafeInv'
BY DEF SafeInv, EjectedIsSafe, reports

LEMMA StepSafe == SafeInv /\ [Next]_vars => SafeInv'
<1> SUFFICES ASSUME SafeInv, [Next]_vars
             PROVE  SafeInv'
  OBVIOUS
<1>1. CASE OpenTarget \/ OpenFails \/ Syncfs \/ SyncfsFails \/ SyncEnds
  <2>1. UNCHANGED <<mounted, pulled, reports>> /\ dirty' \subseteq dirty
    BY <1>1 DEF OpenTarget, OpenFails, Syncfs, SyncfsFails, SyncEnds, world, hist
  <2> QED  BY <2>1, SafeKept
<1>2. CASE TakeDrive \/ Flush
  <2>1. UNCHANGED <<mounted, pulled, reports>> /\ dirty' \subseteq dirty
    BY <1>2 DEF TakeDrive, Flush, world, hist
  <2> QED  BY <2>1, SafeKept
<1>3. CASE ReadTable
  <2>1. CASE Listed(Drive)
    <3>1. UNCHANGED <<mounted, pulled, reports, dirty>>
      BY <1>3, <2>1 DEF ReadTable, world, hist
    <3> QED  BY <3>1, SafeKept
  <2>2. CASE ~Listed(Drive)
    <3>1. UNCHANGED <<mounted, pulled, dirty, misread>> /\ ejected' = ejected \cup {Drive}
      BY <1>3, <2>2 DEF ReadTable, Ejected, world, hist
    <3>2. Drive \in Unlisted \/ Drive \notin mounted
      BY <2>2 DEF Listed
    <3> QED  BY <3>1, <3>2 DEF SafeInv, EjectedIsSafe
  <2> QED  BY <2>1, <2>2
<1>4. CASE Unmounts
  <2>1. /\ mounted' = mounted \ {Drive} /\ dirty' = dirty \ {Drive}
        /\ ejected' = ejected \cup {Drive} /\ misread' = misread /\ pulled' = pulled
    BY <1>4 DEF Unmounts, Ejected, hist
  <2> QED  BY <2>1 DEF SafeInv, EjectedIsSafe, reports
<1>5. CASE UnmountFails
  <2>1. UNCHANGED <<mounted, pulled, reports, dirty>>
    BY <1>5 DEF UnmountFails, NotEjected, world, hist
  <2> QED  BY <2>1, SafeKept
<1>6. CASE AllLookedAt \/ DetectFails \/ Declines \/ Agrees \/ Kill \/ Retry
  <2>1. UNCHANGED <<mounted, pulled, reports, dirty>>
    BY <1>6 DEF AllLookedAt, DetectFails, Declines, Agrees, Kill, Retry, NotEjected, world, hist
  <2> QED  BY <2>1, SafeKept
<1>7. CASE \E p \in Pids : LookAt(p) \/ Terminate(p) \/ TerminateFails(p)
  <2>1. UNCHANGED <<mounted, pulled, reports, dirty>>
    BY <1>7 DEF LookAt, Terminate, TerminateFails, world, hist
  <2> QED  BY <2>1, SafeKept
<1>8. ASSUME NEW d \in Drives, Pull(d)
      PROVE  SafeInv'
  <2>1. /\ mounted' = mounted \ {d} /\ pulled' = pulled \cup {d}
        /\ UNCHANGED <<dirty, reports>>
    BY <1>8 DEF Pull
  <2> QED  BY <2>1 DEF SafeInv, EjectedIsSafe, reports
<1>9. ASSUME NEW d \in Drives, UnmountedElsewhere(d)
      PROVE  SafeInv'
  <2>1. /\ mounted' = mounted \ {d} /\ dirty' = dirty \ {d}
        /\ UNCHANGED <<pulled, reports>>
    BY <1>9 DEF UnmountedElsewhere, hist
  <2> QED  BY <2>1 DEF SafeInv, EjectedIsSafe, reports
<1>10. CASE \E p \in Pids : Exit(p) \/ Start(p) \/ \E d \in Drives : OpenFile(p, d)
  <2>1. UNCHANGED <<mounted, pulled, reports, dirty>>
    BY <1>10 DEF Exit, Start, OpenFile, hist
  <2> QED  BY <2>1, SafeKept
<1>11. CASE UNCHANGED vars
  <2>1. UNCHANGED <<mounted, pulled, reports, dirty>>
    BY <1>11 DEF vars, world, hist
  <2> QED  BY <2>1, SafeKept
<1>12. CASE ReadTableFails
  <2>1. /\ ejected' = ejected \cup {Drive} /\ misread' = misread \cup {Drive}
        /\ UNCHANGED <<mounted, pulled, dirty>>
    BY <1>12 DEF ReadTableFails, world, hist
  <2> QED  BY <2>1 DEF SafeInv, EjectedIsSafe
<1> QED
  BY <1>1, <1>2, <1>3, <1>4, <1>5, <1>6, <1>7, <1>8, <1>9, <1>10, <1>11, <1>12
  DEF Next, Program, Others

(* A drive that is reported as safely ejected is not mounted and has all   *)
(* data, whatever happens to it and to the others meanwhile, but for three *)
(* exceptions: it was pulled, /proc/mounts could not be read when it was   *)
(* looked for, or has another text for its path. *)
THEOREM EjectedDrivesAreSafe == Spec => []EjectedIsSafe
<1>1. Init => SafeInv
  BY InitSafe
<1>2. SafeInv /\ [Next]_vars => SafeInv'
  BY StepSafe
<1>3. SafeInv => EjectedIsSafe
  BY DEF SafeInv
<1> QED  BY <1>1, <1>2, <1>3, PTL DEF Spec

-----------------------------------------------------------------------------
(* The targets that the sync has yet to visit, or that is at hand.         *)

Ahead(d) == \E i \in next .. Len(Targets) : DriveOf[Targets[i]] = d

(* Of the data that is missing without an excuse, every drive still has a  *)
(* target ahead; a device in synced_devices has no such data, except the   *)
(* one whose sync is under way; and what is open for a target whose drive  *)
(* has such data is that drive, not a directory of the system. *)
Missing == dirty \ (failed \cup pulled)

SyncInv ==
    /\ dirty \subseteq Drives /\ next \in Nat \ {0}
    /\ pc \in {"open", "syncfs"} => \A d \in Missing : Ahead(d)
    /\ \A d \in synced_devices \cap Missing : pc = "syncfs" /\ d = device
    /\ pc = "syncfs" => /\ next <= Len(Targets)
                        /\ DriveOf[Targets[next]] \in Missing => device = DriveOf[Targets[next]]
    /\ pc \notin {"open", "syncfs"} => Missing = {}

LEMMA TargetsTyped ==
    /\ Len(Targets) \in Nat
    /\ \A i \in 1 .. Len(Targets) : DriveOf[Targets[i]] \in Drives
<1>1. Len(Targets) \in Nat /\ DOMAIN Targets = 1 .. Len(Targets)
  BY FinishAssumption
<1>2. \A i \in 1 .. Len(Targets) : Targets[i] \in Range(Targets)
  BY <1>1 DEF Range
<1> QED  BY <1>1, <1>2, FinishAssumption

LEMMA InitSync == Init => SyncInv
<1> SUFFICES ASSUME Init
             PROVE  SyncInv
  OBVIOUS
<1>1. DOMAIN DriveOf = Range(Targets) /\ DOMAIN Targets = 1 .. Len(Targets)
  BY FinishAssumption
<1>2. \A d \in Range(DriveOf) : \E i \in 1 .. Len(Targets) : DriveOf[Targets[i]] = d
  BY <1>1 DEF Range
<1>3. Range(DriveOf) \subseteq Drives
  BY <1>2, TargetsTyped
<1> QED  BY <1>2, <1>3 DEF Init, SyncInv, Missing, Ahead

(* Once the sync has ended, and while it goes on, less data being missing  *)
(* or more of it being excused does no harm. *)
LEMMA SyncKept ==
    ASSUME SyncInv, dirty' \subseteq dirty, failed \subseteq failed', pulled \subseteq pulled',
           synced_devices' = synced_devices,
           \/ UNCHANGED <<pc, next, device>>
           \/ pc \notin {"open", "syncfs"} /\ pc' \notin {"open", "syncfs"} /\ next' \in Nat \ {0}
    PROVE  SyncInv'
<1>1. Missing' \subseteq Missing
  BY DEF Missing
<1>2. CASE UNCHANGED <<pc, next, device>>
  BY <1>1, <1>2 DEF SyncInv, Ahead
<1>3. CASE /\ pc \notin {"open", "syncfs"} /\ pc' \notin {"open", "syncfs"}
           /\ next' \in Nat \ {0}
  BY <1>1, <1>3 DEF SyncInv
<1> QED  BY <1>2, <1>3

(* Going on to the next target needs that the one at hand is excused.      *)
LEMMA NextTarget ==
    ASSUME SyncInv, next <= Len(Targets), next' = next + 1, pc' = "open",
           pc \in {"open", "syncfs"}, Missing' \subseteq Missing,
           dirty' \subseteq dirty, synced_devices' = synced_devices,
           DriveOf[Targets[next]] \notin Missing',
           pc = "syncfs" => device \notin Missing'
    PROVE  SyncInv'
<1>1. \A d \in Missing' : Ahead(d)'
  BY TargetsTyped DEF SyncInv, Ahead
<1> QED  BY <1>1 DEF SyncInv

LEMMA StepSync == SafeInv /\ SyncInv /\ [Next]_vars => SyncInv'
<1> SUFFICES ASSUME SafeInv, SyncInv, [Next]_vars
             PROVE  SyncInv'
  OBVIOUS
<1>t. next \in 1 .. Len(Targets) => DriveOf[Targets[next]] \in Drives
  BY TargetsTyped
<1>n. next \in Nat /\ next + 1 \in Nat \ {0} /\ (next <= Len(Targets) => next \in 1 .. Len(Targets))
  BY TargetsTyped DEF SyncInv
<1>1. ASSUME OpenTarget
      PROVE  SyncInv'
  <2> DEFINE d == DriveOf[Targets[next]]
             fs == Filesystem(Targets[next])
  <2>1. fs = IF d \in mounted THEN d ELSE System
    BY DEF Filesystem
  <2>2. d \in Missing => fs = d
    BY <2>1 DEF SafeInv, Missing
  <2>3. /\ pc = "open" /\ next <= Len(Targets) /\ Missing' = Missing /\ dirty' = dirty
    BY <1>1 DEF OpenTarget, Missing, world, hist
  <2>4. CASE fs \in synced_devices
    <3>1. pc' = "open" /\ next' = next + 1 /\ synced_devices' = synced_devices
      BY <1>1, <2>4, <2>3 DEF OpenTarget
    <3>2. d \notin Missing
      BY <2>2, <2>3, <2>4 DEF SyncInv
    <3> QED  BY <3>1, <3>2, <2>3, NextTarget
  <2>5. CASE fs \notin synced_devices
    <3>1. /\ pc' = "syncfs" /\ next' = next /\ device' = fs
          /\ synced_devices' = synced_devices \cup {fs}
      BY <1>1, <2>5 DEF OpenTarget
    <3>2. \A c \in Missing' : Ahead(c)'
      BY <3>1, <2>3 DEF SyncInv, Ahead
    <3> QED  BY <3>1, <3>2, <2>2, <2>3 DEF SyncInv
  <2> QED  BY <2>4, <2>5
<1>2. ASSUME OpenFails
      PROVE  SyncInv'
  <2>1. /\ pc = "open" /\ next <= Len(Targets) /\ pc' = pc /\ next' = next + 1
        /\ dirty' = dirty /\ synced_devices' = synced_devices /\ pulled' = pulled
        /\ failed' = failed \cup {DriveOf[Targets[next]]}
    BY <1>2 DEF OpenFails, world, syncing
  <2>2. Missing' \subseteq Missing /\ DriveOf[Targets[next]] \notin Missing'
    BY <2>1 DEF Missing
  <2> QED  BY <2>1, <2>2, NextTarget
<1>3. ASSUME Syncfs
      PROVE  SyncInv'
  <2>1. /\ pc = "syncfs" /\ pc' = "open" /\ next' = next + 1 /\ dirty' = dirty \ {device}
        /\ UNCHANGED <<synced_devices, failed, pulled>>
    BY <1>3 DEF Syncfs, hist
  <2>2. Missing' = Missing \ {device}
    BY <2>1 DEF Missing
  <2>3. next <= Len(Targets) /\ DriveOf[Targets[next]] \notin Missing'
    BY <2>1, <2>2 DEF SyncInv
  <2> QED  BY <2>1, <2>2, <2>3, NextTarget
<1>4. ASSUME SyncfsFails
      PROVE  SyncInv'
  <2>1. /\ pc = "syncfs" /\ pc' = "open" /\ next' = next + 1 /\ dirty' = dirty
        /\ failed' = failed \cup ({device} \cap Drives)
        /\ UNCHANGED <<synced_devices, pulled>>
    BY <1>4 DEF SyncfsFails, world
  <2>2. Missing' = Missing \ {device}
    BY <2>1 DEF Missing, SyncInv
  <2>3. next <= Len(Targets) /\ DriveOf[Targets[next]] \notin Missing'
    BY <2>1, <2>2 DEF SyncInv
  <2> QED  BY <2>1, <2>2, <2>3, NextTarget
<1>5. ASSUME SyncEnds
      PROVE  SyncInv'
  <2>1. /\ pc = "open" /\ next > Len(Targets) /\ next' = 1 /\ pc' \in {"drive", "done"}
        /\ dirty' = dirty /\ synced_devices' = synced_devices /\ Missing' = Missing
    BY <1>5 DEF SyncEnds, Missing, world, hist
  <2>2. Missing = {}
    BY <2>1, <1>n, TargetsTyped DEF SyncInv, Ahead
  <2> QED  BY <2>1, <2>2 DEF SyncInv
<1>6. ASSUME TakeDrive \/ Flush \/ ReadTable \/ ReadTableFails \/ Unmounts \/ UnmountFails
             \/ AllLookedAt \/ DetectFails \/ Declines \/ Agrees \/ Kill \/ Retry
             \/ \E p \in Pids : LookAt(p) \/ Terminate(p) \/ TerminateFails(p)
      PROVE  SyncInv'
  <2>1. pc \notin {"open", "syncfs"} /\ pc' \notin {"open", "syncfs"}
    BY <1>6 DEF TakeDrive, Flush, ReadTable, ReadTableFails, Unmounts, UnmountFails, AllLookedAt,
                DetectFails, Declines, Agrees, Kill, Retry, LookAt, Terminate, TerminateFails,
                Trying, Ejected, NotEjected
  <2>2. /\ dirty' \subseteq dirty /\ next' \in {next, next + 1}
        /\ UNCHANGED <<failed, pulled, synced_devices>>
    BY <1>6 DEF TakeDrive, Flush, ReadTable, ReadTableFails, Unmounts, UnmountFails, AllLookedAt,
                DetectFails, Declines, Agrees, Kill, Retry, LookAt, Terminate, TerminateFails,
                Ejected, NotEjected, world, syncing, closing, hist
  <2> QED  BY <2>1, <2>2, <1>n, SyncKept DEF SyncInv
<1>7. ASSUME Others
      PROVE  SyncInv'
  <2>1. /\ dirty' \subseteq dirty /\ failed' = failed /\ pulled \subseteq pulled'
        /\ UNCHANGED <<pc, next, device, synced_devices>>
    BY <1>7 DEF Others, Pull, UnmountedElsewhere, Exit, Start, OpenFile, syncing, hist
  <2> QED  BY <2>1, SyncKept
<1>8. CASE UNCHANGED vars
  BY <1>8, SyncKept DEF vars, world, syncing, hist
<1> QED
  BY <1>1, <1>2, <1>3, <1>4, <1>5, <1>6, <1>7, <1>8 DEF Next, Program

(* When the sync has ended, data is missing only from drives whose own     *)
(* handle or sync failed and from drives that were pulled: an error on one *)
(* drive, or a drive that has gone, leaves no other unsynced. *)
THEOREM SyncCoversDrives == Spec => []SyncCovers
<1>1. Init => SafeInv /\ SyncInv
  BY InitSafe, InitSync
<1>2. SafeInv /\ SyncInv /\ [Next]_vars => SafeInv' /\ SyncInv'
  BY StepSafe, StepSync
<1>3. SyncInv => SyncCovers
  BY DEF SyncInv, SyncCovers, Missing
<1> QED  BY <1>1, <1>2, <1>3, PTL DEF Spec

-----------------------------------------------------------------------------
(* The processes found are noted in detected until they are dealt with,    *)
(* one after the other; on the second try none is left.  Nobody looks for  *)
(* processes again once a signal was sent. *)

Pending == CASE pc = "close" -> detected
             [] pc = "kill"  -> detected \cup {victim}
             [] OTHER        -> {}

ClosesInv ==
    /\ detected \subseteq holder
    /\ signalled \subseteq holder
    /\ (signalled # {} \/ pc \in {"close", "kill"}) => agreed
    /\ ~retrying /\ pc \in {"flush", "table", "udisksctl", "umount", "syscall"}
           => holder = {} /\ signalled = {}
    /\ pc \in {"detect", "prompt"} => signalled = {} /\ holder \subseteq detected
    /\ pc \in {"open", "syncfs", "detect", "prompt", "close", "kill"} => ~retrying
    /\ retrying \/ pc \in {"close", "kill"}
           => holder \cap alive \subseteq Pending \cup dying \cup reused

LEMMA InitCloses == Init => ClosesInv
BY DEF Init, ClosesInv

LEMMA StepCloses == ClosesInv /\ [Next]_vars => ClosesInv'
<1> SUFFICES ASSUME ClosesInv, [Next]_vars
             PROVE  ClosesInv'
  OBVIOUS
<1> USE DEF ClosesInv, Pending
<1>1. ASSUME OpenTarget \/ OpenFails \/ Syncfs \/ SyncfsFails \/ SyncEnds
      PROVE  ClosesInv'
  <2>1. /\ pc \in {"open", "syncfs"} /\ pc' \in {"open", "syncfs", "drive", "done"}
        /\ UNCHANGED <<detected, holder, signalled, agreed, retrying, alive, dying, reused>>
    BY <1>1 DEF OpenTarget, OpenFails, Syncfs, SyncfsFails, SyncEnds, world, closing, hist
  <2> QED  BY <2>1
<1>2. ASSUME TakeDrive
      PROVE  ClosesInv'
  <2>1. /\ pc' \in {"flush", "done"} /\ retrying' = FALSE
        /\ detected' = {} /\ holder' = {} /\ signalled' = {}
    BY <1>2 DEF TakeDrive
  <2> QED  BY <2>1
<1>3. ASSUME Flush \/ ReadTable \/ ReadTableFails \/ Unmounts \/ UnmountFails
      PROVE  ClosesInv'
  <2>1. /\ pc \in {"flush", "table", "udisksctl", "umount", "syscall"}
        /\ pc' \in {"flush", "table", "udisksctl", "umount", "syscall", "drive", "detect"}
        /\ pc' = "detect" => ~retrying
        /\ UNCHANGED <<detected, holder, signalled, agreed, retrying, alive, dying, reused>>
    BY <1>3 DEF Flush, ReadTable, ReadTableFails, Unmounts, UnmountFails, Trying, Ejected,
                NotEjected, world, closing, hist
  <2> QED  BY <2>1
<1>4. ASSUME NEW p \in Pids, LookAt(p)
      PROVE  ClosesInv'
  <2>1. /\ pc = "detect" /\ pc' = pc /\ UNCHANGED <<signalled, agreed, retrying, alive, dying>>
        /\ \/ UNCHANGED <<detected, holder>>
           \/ detected' = detected \cup {p} /\ holder' = holder \cup {p}
    BY <1>4 DEF LookAt, world
  <2> QED  BY <2>1
<1>5. ASSUME AllLookedAt \/ DetectFails \/ Declines
      PROVE  ClosesInv'
  <2>1. /\ pc \in {"detect", "prompt"} /\ pc' \in {"prompt", "drive"}
        /\ UNCHANGED <<detected, holder, signalled, agreed, retrying, alive, dying, reused>>
    BY <1>5 DEF AllLookedAt, DetectFails, Declines, NotEjected, world, closing, hist
  <2> QED  BY <2>1
<1>6. ASSUME Agrees
      PROVE  ClosesInv'
  <2>1. /\ pc = "prompt" /\ pc' = "close" /\ agreed' = TRUE
        /\ UNCHANGED <<detected, holder, signalled, retrying, alive, dying, reused>>
    BY <1>6 DEF Agrees, world, closing
  <2> QED  BY <2>1
<1>7. ASSUME NEW p \in Pids, Terminate(p)
      PROVE  ClosesInv'
  <2>1. /\ pc = "close" /\ pc' = "kill" /\ p \in detected
        /\ detected' = detected \ {p} /\ victim' = p /\ signalled' = signalled \cup {p}
        /\ UNCHANGED <<holder, agreed, retrying, alive, dying, reused>>
    BY <1>7 DEF Terminate, world
  <2> QED  BY <2>1
<1>8. ASSUME NEW p \in Pids, TerminateFails(p)
      PROVE  ClosesInv'
  <2>1. /\ pc = "close" /\ pc' = pc /\ detected' = detected \ {p}
        /\ p \notin alive \/ p \in reused
        /\ UNCHANGED <<holder, signalled, agreed, retrying, alive, dying, reused>>
    BY <1>8 DEF TerminateFails, world, hist
  <2> QED  BY <2>1
<1>9. ASSUME Kill
      PROVE  ClosesInv'
  <2>1. /\ pc = "kill" /\ pc' = "close" /\ dying' = dying \cup ({victim} \cap alive)
        /\ UNCHANGED <<detected, holder, signalled, agreed, retrying, alive, reused>>
    BY <1>9 DEF Kill, hist
  <2> QED  BY <2>1
<1>10. ASSUME Retry
       PROVE  ClosesInv'
  <2>1. /\ pc = "close" /\ detected = {} /\ pc' = "flush" /\ retrying' = TRUE
        /\ UNCHANGED <<detected, holder, signalled, agreed, alive, dying, reused>>
    BY <1>10 DEF Retry, world, closing, hist
  <2> QED  BY <2>1
<1>11. ASSUME NEW p \in Pids, Exit(p)
       PROVE  ClosesInv'
  <2>1. /\ alive' = alive \ {p} /\ dying' = dying \ {p}
        /\ UNCHANGED <<pc, detected, victim, holder, signalled, agreed, retrying, reused>>
    BY <1>11 DEF Exit, closing, hist
  <2> QED  BY <2>1
<1>12. ASSUME NEW p \in Pids, Start(p)
       PROVE  ClosesInv'
  <2>1. /\ alive' = alive \cup {p} /\ reused' = reused \cup {p}
        /\ UNCHANGED <<pc, detected, victim, holder, signalled, agreed, retrying, dying>>
    BY <1>12 DEF Start, closing
  <2> QED  BY <2>1
<1>13. ASSUME \E d \in Drives : Pull(d) \/ UnmountedElsewhere(d) \/ \E p \in Pids : OpenFile(p, d)
       PROVE  ClosesInv'
  <2>1. UNCHANGED <<pc, detected, victim, holder, signalled, agreed, retrying, alive, dying,
                    reused>>
    BY <1>13 DEF Pull, UnmountedElsewhere, OpenFile, closing, hist
  <2> QED  BY <2>1
<1>14. CASE UNCHANGED vars
  BY <1>14 DEF vars, world, closing, hist
<1> QED
  BY <1>1, <1>2, <1>3, <1>4, <1>5, <1>6, <1>7, <1>8, <1>9, <1>10, <1>11, <1>12, <1>13, <1>14
  DEF Next, Program, Others

(* A signal goes only to an id that was found with a file on the drive,    *)
(* and only after the user agreed; on the second try each process found    *)
(* has ended or been killed, but those whose id went to another since. *)
THEOREM ClosesOnlyHolders == Spec => []ClosesHolders
<1>1. Init => ClosesInv
  BY InitCloses
<1>2. ClosesInv /\ [Next]_vars => ClosesInv'
  BY StepCloses
<1>3. ClosesInv => ClosesHolders
  BY DEF ClosesInv, ClosesHolders, Pending
<1> QED  BY <1>1, <1>2, <1>3, PTL DEF Spec

-----------------------------------------------------------------------------
(* Type correctness.  The index needs to know that a drive is at hand, as  *)
(* each way out of one goes on to the next. *)

DriveSteps == Steps \ {"open", "syncfs", "drive", "done"}
LastIndex  == (IF Len(Targets) > Len(Eject) THEN Len(Targets) ELSE Len(Eject)) + 1

TypeInv == TypeOK /\ (pc \in DriveSteps => next <= Len(Eject))
                  /\ (pc = "syncfs" => next <= Len(Targets))

LEMMA Indices ==
    /\ Len(Targets) \in Nat /\ Len(Eject) \in Nat /\ LastIndex \in Nat /\ 1 \in 1 .. LastIndex
    /\ \A i \in 1 .. LastIndex : i <= Len(Targets) \/ i <= Len(Eject) => i + 1 \in 1 .. LastIndex
    /\ \A i \in 1 .. LastIndex : i <= Len(Eject) => Eject[i] \in Range(Eject)
    /\ \A i \in 1 .. LastIndex : i <= Len(Targets) => DriveOf[Targets[i]] \in Drives
    /\ Range(Eject) \subseteq Drives
<1>1. Len(Targets) \in Nat /\ Len(Eject) \in Nat /\ DOMAIN Eject = 1 .. Len(Eject)
  BY FinishAssumption
<1>2. LastIndex \in Nat /\ LastIndex > Len(Targets) /\ LastIndex > Len(Eject)
  BY <1>1 DEF LastIndex
<1>3. \A i \in 1 .. Len(Eject) : Eject[i] \in Range(Eject) /\ Eject[i] \in Drives
  BY <1>1, FinishAssumption DEF Range
<1>4. Range(Eject) \subseteq Drives
  BY <1>1, <1>3 DEF Range
<1> QED  BY <1>1, <1>2, <1>3, <1>4, TargetsTyped

LEMMA InitTyped == Init => TypeInv
<1> SUFFICES ASSUME Init
             PROVE  TypeInv
  OBVIOUS
<1>1. dirty \subseteq Drives
  BY InitSync DEF SyncInv
<1>2. next \in 1 .. LastIndex
  BY Indices DEF Init
<1>3. happened \in 0..MaxEvents /\ victim \in Pids \cup {NoPid} /\ (pc = "kill") = (victim # NoPid)
  BY FinishAssumption DEF Init
<1>4. /\ mounted \subseteq Drives /\ alive \subseteq Pids /\ dying \subseteq alive
      /\ file \in [Pids -> Drives \cup {NoDrive}] /\ cwd \in [Pids -> Drives \cup {NoDrive}]
      /\ \A p \in Pids : p \notin alive => file[p] = NoDrive /\ cwd[p] = NoDrive
  BY DEF Init
<1>5. /\ device \in Drives \cup {System, NoDrive} /\ synced_devices \subseteq Drives \cup {System}
      /\ synced_any \in BOOLEAN /\ warned \in BOOLEAN /\ retrying \in BOOLEAN
      /\ looked \subseteq Pids /\ detected \subseteq looked \ Foreign
      /\ ejected \subseteq Range(Eject) /\ misread \subseteq ejected
      /\ failed \subseteq Drives /\ pulled \subseteq Drives /\ agreed \in BOOLEAN
      /\ holder \subseteq Pids /\ signalled \subseteq Pids /\ reused \subseteq Pids
  BY DEF Init
<1>6. pc = "open"
  BY DEF Init
<1> QED
  BY <1>1, <1>2, <1>3, <1>4, <1>5, <1>6 DEF TypeInv, TypeOK, Steps, DriveSteps, LastIndex

LEMMA StepTyped == TypeInv /\ [Next]_vars => TypeInv'
<1> SUFFICES ASSUME TypeInv, [Next]_vars
             PROVE  TypeInv'
  OBVIOUS
<1> USE DEF TypeInv, TypeOK, Steps, DriveSteps
<1>i. /\ next \in 1 .. LastIndex
      /\ pc \in DriveSteps => Drive \in Range(Eject) /\ next + 1 \in 1 .. LastIndex
      /\ pc \in {"open", "syncfs"} /\ next <= Len(Targets)
            => next + 1 \in 1 .. LastIndex /\ DriveOf[Targets[next]] \in Drives
  BY Indices DEF LastIndex, Drive
<1>c. next' \in 1 .. LastIndex
          => next' \in 1 .. (IF Len(Targets) > Len(Eject) THEN Len(Targets) ELSE Len(Eject)) + 1
  BY DEF LastIndex
<1>h. Happens => happened' \in 0..MaxEvents
  BY FinishAssumption DEF Happens
<1>1. ASSUME OpenTarget
      PROVE  TypeInv'
  <2>1. Filesystem(Targets[next]) \in Drives \cup {System}
    BY <1>1, <1>i DEF OpenTarget, Filesystem
  <2> QED  BY <1>1, <1>i, <1>c, <2>1 DEF OpenTarget, world, closing, hist, reports
<1>2. ASSUME OpenFails
      PROVE  TypeInv'
  BY <1>2, <1>i, <1>c DEF OpenFails, world, syncing, closing, reports
<1>3. ASSUME Syncfs
      PROVE  TypeInv'
  BY <1>3, <1>i, <1>c DEF Syncfs, closing, hist, reports
<1>4. ASSUME SyncfsFails
      PROVE  TypeInv'
  BY <1>4, <1>i, <1>c DEF SyncfsFails, world, closing, reports
<1>5. ASSUME SyncEnds
      PROVE  TypeInv'
  BY <1>5, <1>c, Indices DEF SyncEnds, world, closing, hist, reports
<1>6. ASSUME TakeDrive
      PROVE  TypeInv'
  BY <1>6, <1>i, <1>c DEF TakeDrive, world, syncing, reports
<1>7. ASSUME Flush
      PROVE  TypeInv'
  BY <1>7, <1>i, <1>c DEF Flush, syncing, closing, reports, hist
<1>8. ASSUME ReadTable
      PROVE  TypeInv'
  BY <1>8, <1>i, <1>c DEF ReadTable, Ejected, world, syncing, closing, reports, hist
<1>9. ASSUME Unmounts
      PROVE  TypeInv'
  BY <1>9, <1>i, <1>c DEF Unmounts, Trying, Ejected, syncing, closing, reports, hist
<1>10. ASSUME UnmountFails
       PROVE  TypeInv'
  <2>1. /\ pc \in {"udisksctl", "umount", "syscall"} /\ UNCHANGED <<ejected, misread>>
        /\ \/ pc' \in {"umount", "syscall", "detect"} /\ next' = next
           \/ pc' = "drive" /\ next' = next + 1
    BY <1>10 DEF UnmountFails, Trying, NotEjected, reports
  <2> QED  BY <1>10, <1>i, <1>c, <2>1 DEF UnmountFails, world, syncing, closing, reports, hist
<1>11. ASSUME NEW p \in Pids, LookAt(p)
       PROVE  TypeInv'
  BY <1>11, <1>i, <1>c DEF LookAt, world, syncing, reports
<1>12. ASSUME AllLookedAt
       PROVE  TypeInv'
  BY <1>12, <1>i, <1>c DEF AllLookedAt, NotEjected, world, syncing, closing, reports, hist
<1>13. ASSUME Declines
       PROVE  TypeInv'
  BY <1>13, <1>i, <1>c DEF Declines, NotEjected, world, syncing, closing, reports, hist
<1>14. ASSUME Agrees
       PROVE  TypeInv'
  BY <1>14, <1>i, <1>c DEF Agrees, world, syncing, closing, reports
<1>15. ASSUME NEW p \in Pids, Terminate(p)
       PROVE  TypeInv'
  BY <1>15, <1>i, <1>c, FinishAssumption DEF Terminate, world, syncing, reports
<1>16. ASSUME NEW p \in Pids, TerminateFails(p)
       PROVE  TypeInv'
  BY <1>16, <1>i, <1>c DEF TerminateFails, world, syncing, reports, hist
<1>17. ASSUME Kill
       PROVE  TypeInv'
  BY <1>17, <1>i, <1>c DEF Kill, syncing, hist, reports
<1>18. ASSUME Retry
       PROVE  TypeInv'
  BY <1>18, <1>i, <1>c DEF Retry, world, syncing, closing, reports, hist
<1>19. ASSUME NEW d \in Drives, Pull(d)
       PROVE  TypeInv'
  BY <1>19, <1>i, <1>c, <1>h DEF Pull, syncing, closing, reports
<1>20. ASSUME NEW d \in Drives, UnmountedElsewhere(d)
       PROVE  TypeInv'
  BY <1>20, <1>i, <1>c, <1>h DEF UnmountedElsewhere, syncing, closing, reports, hist
<1>21. ASSUME NEW p \in Pids, NEW d \in Drives, OpenFile(p, d)
       PROVE  TypeInv'
  BY <1>21, <1>i, <1>c, <1>h DEF OpenFile, syncing, closing, reports, hist
<1>22. ASSUME NEW p \in Pids, Exit(p)
       PROVE  TypeInv'
  <2>1. happened' \in 0..MaxEvents
    BY <1>22, FinishAssumption DEF Exit
  <2> QED  BY <1>22, <1>i, <1>c, <2>1 DEF Exit, syncing, closing, reports, hist
<1>23. ASSUME NEW p \in Pids, Start(p)
       PROVE  TypeInv'
  BY <1>23, <1>i, <1>c, <1>h DEF Start, syncing, closing, reports
<1>24. CASE UNCHANGED vars
  BY <1>24 DEF vars, world, syncing, closing, reports, hist
<1>25. CASE ReadTableFails
  BY <1>25, <1>i, <1>c DEF ReadTableFails, world, syncing, closing, hist
<1>26. CASE DetectFails
  BY <1>26, <1>i, <1>c DEF DetectFails, NotEjected, world, syncing, closing, reports, hist
<1> QED
  BY <1>1, <1>2, <1>3, <1>4, <1>5, <1>6, <1>7, <1>8, <1>9, <1>10, <1>11, <1>12, <1>13, <1>14,
     <1>15, <1>16, <1>17, <1>18, <1>19, <1>20, <1>21, <1>22, <1>23, <1>24, <1>25,
     <1>26
  DEF Next, Program, Others

(* The variables keep their types, and the index never leaves the targets  *)
(* and the drives by more than one. *)
THEOREM FinishTyped == Spec => []TypeOK
<1>1. Init => TypeInv
  BY InitTyped
<1>2. TypeInv /\ [Next]_vars => TypeInv'
  BY StepTyped
<1>3. TypeInv => TypeOK
  BY DEF TypeInv
<1> QED  BY <1>1, <1>2, <1>3, PTL DEF Spec
=============================================================================
