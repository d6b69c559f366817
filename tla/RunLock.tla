------------------------------- MODULE RunLock -------------------------------
(***************************************************************************)
(* The lock that keeps a run to one writing process                        *)
(* (aim/sdk/lock_manager.py).  It is a file of the repository: whoever      *)
(* creates it has the run, and writes its machine and process id into it,  *)
(* so that the lock of a process that died can be taken over.              *)
(*                                                                         *)
(* A step is one call to the file system.  SoftFileLock (external) creates *)
(* the file with O_EXCL, polling until a timeout, and on release unlinks   *)
(* whatever file has that name.                                            *)
(***************************************************************************)
EXTENDS Naturals, FiniteSets

CONSTANTS
  Processes,    \* processes that open the run for writing; a pid is not reused
  Machines,     \* the machines that share the repository
  MachineOf,    \* where each process runs
  MaxCrashes    \* bound: processes that die

NoFile == "no file"
Empty == "empty"          \* created, the owner not yet written into it
NoProcess == "nobody"

ASSUME LockAssumption ==
  /\ MachineOf \in [Processes -> Machines]
  /\ MaxCrashes \in Nat
  /\ Processes \cap {NoFile, Empty, NoProcess} = {}

VARIABLES
  lockFile,     \* NoFile, Empty, or the process written into <run>.softlock
  creator,      \* history: the process that created the file there is
  legacy,       \* a container lock of a version before 3.15 is in place
  pc,           \* where each process is
  crashes,      \* how many processes died
  forced,       \* history: a lock was removed by force
  robbed        \* history: the lock of a process that lives was unlinked by another

vars == <<lockFile, creator, legacy, pc, crashes, forced, robbed>>

Goto(p, label) == pc' = [pc EXCEPT ![p] = label]

Alive(p) == pc[p] # "dead"

Holders == {p \in Processes : pc[p] \in {"created", "held"}}

Init ==
  /\ lockFile = NoFile
  /\ creator = NoProcess
  /\ legacy \in BOOLEAN
  /\ pc = [p \in Processes |-> "idle"]
  /\ crashes = 0
  /\ forced = FALSE
  /\ robbed = FALSE

-----------------------------------------------------------------------------
Remove == lockFile' = NoFile /\ creator' = NoProcess

(* get_run_lock_info looks for the file, and for the container locks of an *)
(* older version only when there is none; such a lock refuses the run.     *)
CheckExists(p) ==
  /\ pc[p] = "idle"
  /\ Goto(p, IF lockFile # NoFile THEN "inspect" ELSE IF legacy THEN "failed" ELSE "acquire")
  /\ UNCHANGED <<lockFile, creator, legacy, crashes, forced, robbed>>

IsStalled_Anywhere(p) == lockFile \in Processes /\ ~Alive(lockFile)

IsStalled_AnyPid(p) == lockFile \in Processes /\ MachineOf[lockFile] = MachineOf[p]

(* The owner named in the file is a process of this machine that is gone. *)
IsStalled(p) == /\ lockFile \in Processes
                /\ MachineOf[lockFile] = MachineOf[p]
                /\ ~Alive(lockFile)

(* is_stalled_lock reads the file: a missing or still empty one raises. *)
Inspect(p) ==
  /\ pc[p] = "inspect"
  /\ Goto(p, IF lockFile \in {NoFile, Empty} THEN "failed"
             ELSE IF IsStalled(p) THEN "unlink" ELSE "acquire")
  /\ UNCHANGED <<lockFile, creator, legacy, crashes, forced, robbed>>

(* The stalled lock is removed by name: a missing file raises, and one that *)
(* another process has created since goes as well.                          *)
Unlink(p) ==
  /\ pc[p] = "unlink"
  /\ Goto(p, IF lockFile = NoFile THEN "failed" ELSE "acquire")
  /\ robbed' = (robbed \/ creator \in Holders)
  /\ Remove
  /\ UNCHANGED <<legacy, crashes, forced>>

(* force: the container locks go first, then the lock of the run, if any. *)
ForceRelease(p) ==
  /\ pc[p] = "idle"
  /\ legacy' = FALSE
  /\ forced' = TRUE
  /\ Goto(p, IF lockFile = NoFile THEN "acquire" ELSE "unlink")
  /\ UNCHANGED <<lockFile, creator, crashes, robbed>>

Create_NotExclusive(p) ==
  /\ pc[p] = "acquire"
  /\ lockFile' = Empty
  /\ creator' = p
  /\ Goto(p, "created")
  /\ UNCHANGED <<legacy, crashes, forced, robbed>>

(* SoftFileLock.acquire. *)
Create(p) ==
  /\ pc[p] = "acquire"
  /\ lockFile = NoFile
  /\ lockFile' = Empty
  /\ creator' = p
  /\ Goto(p, "created")
  /\ UNCHANGED <<legacy, crashes, forced, robbed>>

Timeout_Never(p) == FALSE

Timeout(p) ==
  /\ pc[p] = "acquire"
  /\ lockFile # NoFile
  /\ Goto(p, "failed")
  /\ UNCHANGED <<lockFile, creator, legacy, crashes, forced, robbed>>

(* The owner is written with open(.., 'w'), which creates a missing file. *)
WriteOwner(p) ==
  /\ pc[p] = "created"
  /\ lockFile' = p
  /\ creator' = IF lockFile = NoFile THEN p ELSE creator
  /\ Goto(p, "held")
  /\ UNCHANGED <<legacy, crashes, forced, robbed>>

(* SoftFileLock.release. *)
Release(p) ==
  /\ pc[p] = "held"
  /\ Remove
  /\ Goto(p, "idle")
  /\ UNCHANGED <<legacy, crashes, forced, robbed>>

(* The caller of lock() may try again after the exception. *)
Retry(p) ==
  /\ pc[p] = "failed"
  /\ Goto(p, "idle")
  /\ UNCHANGED <<lockFile, creator, legacy, crashes, forced, robbed>>

Crash(p) ==
  /\ Alive(p)
  /\ crashes < MaxCrashes
  /\ crashes' = crashes + 1
  /\ Goto(p, "dead")
  /\ UNCHANGED <<lockFile, creator, legacy, forced, robbed>>

Step(p) ==
  \/ CheckExists(p)
  \/ Inspect(p)
  \/ Unlink(p)
  \/ ForceRelease(p)
  \/ Create(p)
  \/ Timeout(p)
  \/ WriteOwner(p)
  \/ Release(p)
  \/ Retry(p)

Next == \E p \in Processes : Step(p) \/ Crash(p)

Spec == Init /\ [][Next]_vars

(* A process that began to lock goes on; it need not begin, nor release. *)
LockStep(p) == Inspect(p) \/ Unlink(p) \/ Create(p) \/ Timeout(p) \/ WriteOwner(p)

FairSpec == Spec /\ \A p \in Processes : WF_vars(LockStep(p))

-----------------------------------------------------------------------------
TypeOK ==
  /\ lockFile \in Processes \cup {NoFile, Empty}
  /\ creator \in Processes \cup {NoProcess}
  /\ legacy \in BOOLEAN
  /\ pc \in [Processes -> {"idle", "inspect", "unlink", "acquire", "created", "held",
                           "failed", "dead"}]
  /\ crashes \in Nat
  /\ forced \in BOOLEAN
  /\ robbed \in BOOLEAN

(* One process at a time writes to the run, as long as nobody has lost the *)
(* lock it held.                                                           *)
MutualExclusion == robbed \/ \A p, q \in Holders : p = q

(* A process that has the run has the file: nobody else removed it, nor    *)
(* put another name in it (unlink and open go by name, not by owner).      *)
HolderOwnsFile ==
  robbed \/ \A p \in Processes :
    /\ pc[p] = "held" => lockFile = p /\ creator = p
    /\ pc[p] = "created" => lockFile = Empty /\ creator = p

(* Two processes of a machine may both find the lock of a dead one of it.  *)
TakeoverRaces ==
  \E d, p, q \in Processes :
    /\ d # p /\ d # q /\ p # q
    /\ MachineOf[d] = MachineOf[p] /\ MachineOf[d] = MachineOf[q]
    /\ ~Alive(d)

(* The lock of a process that lives is removed by another one only with    *)
(* force, or where a process has died and two others of its machine may    *)
(* have taken its lock over together: the slower one unlinks the lock that *)
(* the faster one has created since.                                       *)
LivingLockKept == robbed => forced \/ TakeoverRaces

(* What the documentation of the storage says of concurrent training jobs: *)
(* no synchronization is needed between them, and nothing is corrupted, so *)
(* no two processes ever have the same run unless force is used, also when *)
(* they take over the lock of a dead one.  Violated.                       *)
NoConcurrentWriters == forced \/ \A p, q \in Holders : p = q

(* A lock on another machine is never removed without force, dead or not,  *)
(* as the process id says nothing about a process elsewhere, except by the *)
(* slower one of two that take over a lock of their own machine.           *)
RemoteOwnerKept ==
  [][\A p, q \in Processes :
       lockFile = q /\ pc[p] = "unlink" /\ pc'[p] = "acquire"
         => forced \/ TakeoverRaces \/ MachineOf[p] = MachineOf[q]]_vars

(* lock() ends, with the run or with an exception: the lock of a process   *)
(* that died, or that never releases, does not block it for good.          *)
LockEnds ==
  \A p \in Processes : (pc[p] = "inspect") ~> (pc[p] \in {"held", "failed", "dead"})

(* The lock of a process that died is removed once a process of the same   *)
(* machine goes for it and lives.                                          *)
StalledLockRemoved ==
  \A p, q \in Processes :
    (pc[p] = "inspect" /\ lockFile = q /\ ~Alive(q) /\ MachineOf[p] = MachineOf[q])
      ~> (lockFile # q \/ ~Alive(p))

(* A process that goes for the lock is not stopped by a dead one.          *)
LocksEnd == LockEnds /\ StalledLockRemoved
=============================================================================
