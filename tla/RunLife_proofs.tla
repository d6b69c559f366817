--------------------------- MODULE RunLife_proofs ---------------------------
(***************************************************************************)
(* Theorems about the processes that write a run, for any number of them:  *)
(* who has its lock (RunLock, machines and deaths included), which runs    *)
(* have an end time (RunStatus), and what the overview of a sequence tells *)
(* (SequenceTracker, for any names, values, steps and bounds).             *)
(*                                                                         *)
(* The lock.  A lock of a living process is removed only with force or     *)
(* where three processes of a machine meet over a dead one's lock, and as  *)
(* long as it has not happened one process at a time has the run.  Mutual  *)
(* exclusion follows from HolderOwnsFile, as a file has one creator.  That *)
(* needs NamedByCreator: the process named in the file created it, so that *)
(* a dead process' file is no holder's.  Without force and races there is  *)
(* at most one process about to unlink, and the file it found stalled is   *)
(* still there.                                                            *)
(*                                                                         *)
(* The end.  Whoever is between opening and closing the container has it   *)
(* alone (RSTypeOK), and end times are written there only.                 *)
(*                                                                         *)
(* The overview of a sequence tells of its values what they are, and a     *)
(* counted step goes behind them, whenever the process dies.  What makes   *)
(* it true is that the tracker's copy of an overview agrees with the       *)
(* stored one in the fields it decides by, from the first last step on     *)
(* (Agrees): before that, a death may leave a type or a version of a       *)
(* sequence without values, which the next first value replaces.           *)
(***************************************************************************)
EXTENDS RunLock, RunStatus, SequenceTracker, TLAPS

Labels == {"idle", "inspect", "unlink", "acquire", "created", "held", "failed", "dead"}

NamedByCreator == robbed \/ (lockFile \in Processes => creator = lockFile)

OneUnlinks ==
  \A p \in Processes : pc[p] = "unlink" =>
    /\ lockFile \in Processes
    /\ ~Alive(lockFile)
    /\ MachineOf[lockFile] = MachineOf[p]
    /\ \A q \in Processes : pc[q] = "unlink" => q = p

NoRaceYet == forced \/ TakeoverRaces \/ (~robbed /\ OneUnlinks)

LInv == TypeOK /\ HolderOwnsFile /\ NamedByCreator /\ NoRaceYet

-----------------------------------------------------------------------------
(* The invariant holds at the start. *)
LEMMA LockInit == Init => LInv
<1> SUFFICES ASSUME Init PROVE LInv
  OBVIOUS
<1>1. \A p \in Processes : pc[p] = "idle"
  BY DEF Init
<1>2. TypeOK
  <2>1. legacy \in BOOLEAN /\ forced \in BOOLEAN /\ robbed \in BOOLEAN
    BY DEF Init
  <2> QED
    BY <2>1 DEF Init, TypeOK
<1>3. HolderOwnsFile /\ NamedByCreator
  BY <1>1, LockAssumption DEF Init, HolderOwnsFile, NamedByCreator
<1>4. NoRaceYet
  BY <1>1 DEF Init, NoRaceYet, OneUnlinks
<1> QED
  BY <1>2, <1>3, <1>4 DEF LInv

(* A file that names a dead process was created by no holder. *)
LEMMA DeadOwnersFile ==
  ASSUME TypeOK, NamedByCreator, ~robbed, lockFile \in Processes, ~Alive(lockFile)
  PROVE  creator \notin Holders
BY DEF NamedByCreator, Alive, Holders, TypeOK

(* Once force was used or a race is possible, this does not change. *)
LEMMA RaceStays ==
  ASSUME TypeOK, NEW p \in Processes, Step(p) \/ Crash(p), forced \/ TakeoverRaces
  PROVE  (forced \/ TakeoverRaces)'
<1>1. \A q \in Processes : pc[q] = "dead" => pc'[q] = "dead"
  BY DEF TypeOK, Step, Crash, CheckExists, Inspect, Unlink, ForceRelease, Create, Timeout,
         WriteOwner, Release, Retry, Goto, Alive
<1>2. forced => forced'
  BY DEF Step, Crash, CheckExists, Inspect, Unlink, ForceRelease, Create, Timeout,
         WriteOwner, Release, Retry
<1>3. TakeoverRaces => TakeoverRaces'
  BY <1>1 DEF TakeoverRaces, Alive
<1> QED
  BY <1>2, <1>3

(* Types, owners and creators. *)
LEMMA TypeStep ==
  ASSUME TypeOK, NEW p \in Processes, Step(p) \/ Crash(p)
  PROVE  TypeOK'
<1> USE DEF Goto, Labels
<1>0. pc \in [Processes -> Labels]
  BY DEF TypeOK
<1>1. CASE CheckExists(p)
  BY <1>0, <1>1 DEF CheckExists, TypeOK
<1>2. CASE Inspect(p)
  BY <1>0, <1>2 DEF Inspect, TypeOK
<1>3. CASE Unlink(p)
  <2>1. robbed' \in BOOLEAN
    BY <1>3 DEF Unlink
  <2> QED
    BY <1>0, <1>3, <2>1 DEF Unlink, Remove, TypeOK
<1>4. CASE ForceRelease(p)
  <2>1. legacy' \in BOOLEAN /\ forced' \in BOOLEAN
    BY <1>4 DEF ForceRelease
  <2> QED
    BY <1>0, <1>4, <2>1 DEF ForceRelease, TypeOK
<1>5. CASE Create(p)
  BY <1>0, <1>5 DEF Create, TypeOK
<1>6. CASE Timeout(p)
  BY <1>0, <1>6 DEF Timeout, TypeOK
<1>7. CASE WriteOwner(p)
  BY <1>0, <1>7 DEF WriteOwner, TypeOK
<1>8. CASE Release(p)
  BY <1>0, <1>8 DEF Release, Remove, TypeOK
<1>9. CASE Retry(p)
  BY <1>0, <1>9 DEF Retry, TypeOK
<1>10. CASE Crash(p)
  BY <1>0, <1>10 DEF Crash, TypeOK
<1> QED
  BY <1>1, <1>2, <1>3, <1>4, <1>5, <1>6, <1>7, <1>8, <1>9, <1>10 DEF Step

(* A holder's file is its own as long as nobody was robbed. *)
LEMMA OwnershipStep ==
  ASSUME TypeOK, HolderOwnsFile, NamedByCreator, NEW p \in Processes, Step(p) \/ Crash(p)
  PROVE  (HolderOwnsFile /\ NamedByCreator)'
<1> USE DEF Goto, Labels
<1>0. pc \in [Processes -> Labels]
  BY DEF TypeOK
<1>1. CASE CheckExists(p)
  BY <1>0, <1>1 DEF CheckExists, HolderOwnsFile, NamedByCreator
<1>2. CASE Inspect(p)
  BY <1>0, <1>2 DEF Inspect, HolderOwnsFile, NamedByCreator
<1>3. CASE Unlink(p)
  <2>1. CASE creator \in Holders
    BY <1>3, <2>1 DEF Unlink, HolderOwnsFile, NamedByCreator
  <2>2. CASE creator \notin Holders /\ ~robbed
    <3>1. \A q \in Processes : pc[q] \notin {"held", "created"}
      BY <2>2 DEF HolderOwnsFile, Holders
    <3>2. \A q \in Processes : pc'[q] \notin {"held", "created"}
      BY <1>0, <1>3, <3>1 DEF Unlink
    <3>3. lockFile' = NoFile
      BY <1>3 DEF Unlink, Remove
    <3> QED
      BY <3>2, <3>3, LockAssumption DEF HolderOwnsFile, NamedByCreator
  <2>3. CASE robbed
    BY <1>3, <2>3 DEF Unlink, HolderOwnsFile, NamedByCreator
  <2> QED
    BY <2>1, <2>2, <2>3 DEF TypeOK
<1>4. CASE ForceRelease(p)
  BY <1>0, <1>4 DEF ForceRelease, HolderOwnsFile, NamedByCreator
<1>5. CASE Create(p)
  <2>1. robbed \/ \A q \in Processes : pc[q] \notin {"held", "created"}
    BY <1>5, LockAssumption DEF Create, HolderOwnsFile, NoFile, Empty
  <2> QED
    BY <1>0, <1>5, <2>1, LockAssumption DEF Create, HolderOwnsFile, NamedByCreator
<1>6. CASE Timeout(p)
  BY <1>0, <1>6 DEF Timeout, HolderOwnsFile, NamedByCreator
<1>7. CASE WriteOwner(p)
  BY <1>0, <1>7, LockAssumption DEF WriteOwner, HolderOwnsFile, NamedByCreator
<1>8. CASE Release(p)
  BY <1>0, <1>8, LockAssumption DEF Release, Remove, HolderOwnsFile, NamedByCreator
<1>9. CASE Retry(p)
  BY <1>0, <1>9 DEF Retry, HolderOwnsFile, NamedByCreator
<1>10. CASE Crash(p)
  BY <1>0, <1>10, LockAssumption DEF Crash, HolderOwnsFile, NamedByCreator
<1> QED
  BY <1>1, <1>2, <1>3, <1>4, <1>5, <1>6, <1>7, <1>8, <1>9, <1>10 DEF Step

(* Before force and races one process at a time is about to unlink, and it *)
(* unlinks the lock it has found stalled.                                  *)
LEMMA RaceStep ==
  ASSUME LInv, NEW p \in Processes, Step(p) \/ Crash(p)
  PROVE  NoRaceYet'
<1> USE DEF Goto, Labels, Alive
<1>0. pc \in [Processes -> Labels] /\ TypeOK
  BY DEF LInv, TypeOK
<1> SUFFICES ASSUME ~forced, ~TakeoverRaces PROVE NoRaceYet'
  BY <1>0, RaceStays DEF NoRaceYet
<1>a. ~robbed /\ OneUnlinks
  BY DEF LInv, NoRaceYet
<1>b. \A q \in Processes : pc[q] = "unlink" => lockFile \notin {NoFile, Empty}
  BY <1>a, LockAssumption DEF OneUnlinks
<1>c. \A q \in Processes : pc[q] \in {"held", "created"} => \A r \in Processes : pc[r] # "unlink"
  BY <1>a, <1>b DEF LInv, HolderOwnsFile, OneUnlinks
<1>1. CASE CheckExists(p)
  BY <1>0, <1>1, <1>a DEF CheckExists, NoRaceYet, OneUnlinks
<1>2. CASE Inspect(p)
  <2>1. CASE pc'[p] = "unlink"
    <3>1. lockFile \in Processes /\ MachineOf[lockFile] = MachineOf[p] /\ pc[lockFile] = "dead"
      BY <1>0, <1>2, <2>1 DEF Inspect, IsStalled
    <3>2. \A q \in Processes : pc[q] # "unlink"
      <4> SUFFICES ASSUME NEW q \in Processes, pc[q] = "unlink" PROVE FALSE
        OBVIOUS
      <4>1. MachineOf[lockFile] = MachineOf[q]
        BY <1>a DEF OneUnlinks
      <4>2. p # q /\ p # lockFile /\ q # lockFile
        BY <1>2, <3>1 DEF Inspect
      <4>3. TakeoverRaces
        BY <3>1, <4>1, <4>2 DEF TakeoverRaces
      <4> QED
        BY <4>3
    <3> QED
      BY <1>0, <1>2, <1>a, <3>1, <3>2 DEF Inspect, NoRaceYet, OneUnlinks
  <2>2. CASE pc'[p] # "unlink"
    BY <1>0, <1>2, <2>2, <1>a DEF Inspect, NoRaceYet, OneUnlinks
  <2> QED
    BY <2>1, <2>2
<1>3. CASE Unlink(p)
  <2>1. lockFile \in Processes /\ ~Alive(lockFile)
    BY <1>3, <1>a DEF Unlink, OneUnlinks
  <2>2. creator \notin Holders
    BY <1>0, <2>1, <1>a, DeadOwnersFile DEF LInv
  <2>3. ~robbed'
    BY <1>3, <2>2, <1>a DEF Unlink
  <2>4. \A q \in Processes : pc'[q] # "unlink"
    BY <1>0, <1>3, <1>a DEF Unlink, OneUnlinks
  <2> QED
    BY <2>3, <2>4 DEF NoRaceYet, OneUnlinks
<1>4. CASE ForceRelease(p)
  BY <1>4 DEF ForceRelease, NoRaceYet
<1>5. CASE Create(p)
  <2>1. \A q \in Processes : pc'[q] # "unlink"
    BY <1>0, <1>5, <1>b DEF Create
  <2> QED
    BY <1>5, <2>1, <1>a DEF Create, NoRaceYet, OneUnlinks
<1>6. CASE Timeout(p)
  BY <1>0, <1>6, <1>a DEF Timeout, NoRaceYet, OneUnlinks
<1>7. CASE WriteOwner(p)
  <2>1. \A q \in Processes : pc'[q] # "unlink"
    BY <1>0, <1>7, <1>c DEF WriteOwner
  <2> QED
    BY <1>7, <2>1, <1>a DEF WriteOwner, NoRaceYet, OneUnlinks
<1>8. CASE Release(p)
  <2>1. \A q \in Processes : pc'[q] # "unlink"
    BY <1>0, <1>8, <1>c DEF Release
  <2> QED
    BY <1>8, <2>1, <1>a DEF Release, NoRaceYet, OneUnlinks
<1>9. CASE Retry(p)
  BY <1>0, <1>9, <1>a DEF Retry, NoRaceYet, OneUnlinks
<1>10. CASE Crash(p)
  BY <1>0, <1>10, <1>a DEF Crash, NoRaceYet, OneUnlinks
<1> QED
  BY <1>1, <1>2, <1>3, <1>4, <1>5, <1>6, <1>7, <1>8, <1>9, <1>10 DEF Step

(* The invariant is inductive. *)
LEMMA LockInductive == LInv /\ [Next]_vars => LInv'
<1> SUFFICES ASSUME LInv, [Next]_vars PROVE LInv'
  OBVIOUS
<1>1. CASE Next
  BY <1>1, TypeStep, OwnershipStep, RaceStep DEF Next, LInv
<1>2. CASE UNCHANGED vars
  BY <1>2 DEF vars, LInv, TypeOK, Alive, HolderOwnsFile, NamedByCreator, NoRaceYet,
              OneUnlinks, TakeoverRaces
<1> QED
  BY <1>1, <1>2

(* A living process loses its lock only through force, or through the      *)
(* slower one of two processes that take the lock of a dead one over.      *)
THEOREM LivingKept == Spec => []LivingLockKept
<1>1. LInv => LivingLockKept
  BY DEF LInv, NoRaceYet, LivingLockKept
<1> QED
  BY <1>1, LockInit, LockInductive, PTL DEF Spec

(* Until then two processes never write to one run: O_EXCL and the owner's *)
(* name in the file are enough, over deaths and takeovers.                 *)
THEOREM Exclusion == Spec => []MutualExclusion
<1>1. LInv => MutualExclusion
  BY DEF LInv, HolderOwnsFile, MutualExclusion, Holders
<1> QED
  BY <1>1, LockInit, LockInductive, PTL DEF Spec

(* A lock of another machine is removed only with force or in that race.   *)
THEOREM RemoteKept == Spec => RemoteOwnerKept
<1>1. ASSUME LInv, [Next]_vars
      PROVE  [\A p, q \in Processes :
                lockFile = q /\ pc[p] = "unlink" /\ pc'[p] = "acquire"
                  => forced \/ TakeoverRaces \/ MachineOf[p] = MachineOf[q]]_vars
  BY <1>1 DEF LInv, NoRaceYet, OneUnlinks
<1> QED
  BY <1>1, LockInit, LockInductive, PTL DEF Spec, RemoteOwnerKept

-----------------------------------------------------------------------------
(* The end of a run. *)

(* Everyone has what its place says, in the beginning. *)
LEMMA InitTypeOK == RSInit => RSTypeOK
<1> SUFFICES ASSUME RSInit
             PROVE  RSTypeOK
  OBVIOUS
<1>1. Nobody \notin Writers
  BY StatusAssumption
<1>2. \A w \in Writers : db = w <=> WriterHasDb(w)
  BY <1>1 DEF RSInit, WriterHasDb
<1>3. db = Manager <=> ManagerHasDb
  BY DEF RSInit, ManagerHasDb, Nobody, Manager
<1>4. /\ wpc \in [Writers -> {"down", "locked", "touched", "refused", "opened", "booting", "running",
                            "ending", "released", "closing"}]
      /\ hpc \in [Writers -> {"off", "first", "waiting", "touch", "touchLast"}]
  BY DEF RSInit
<1>5. {progress, corrupted} \subseteq BOOLEAN
  BY Zenon DEF RSInit
<1>6. /\ {beat, opens, cached} \subseteq Nat
      /\ runLock \in Writers \cup {Nobody}
      /\ db \in Writers \cup {Manager, Nobody}
      /\ endTime \in {"none", "writer", "manager"}
      /\ mpc \in {"idle", "look", "stalled", "touched", "opened", "ended", "unlinked", "closed"}
  BY DEF RSInit
<1> QED
  BY <1>2, <1>3, <1>4, <1>5, <1>6 DEF RSTypeOK

(* Opening, running and closing a run keep the types, and with them who   *)
(* has the container.                                                      *)
LEMMA WriterTypeOK ==
  ASSUME RSTypeOK, NEW w \in Writers, WriterStep(w)
  PROVE  RSTypeOK'
<1> USE StatusAssumption DEF RSTypeOK, WriterHasDb, ManagerHasDb, WriterGoto, BeatGoto, managerVars, Nobody, Manager
<1>1. CASE Open(w)
  BY <1>1 DEF Open
<1>2. CASE TouchProgress(w)
  BY <1>2 DEF TouchProgress
<1>3. CASE OpenDb(w)
  BY <1>3 DEF OpenDb
<1>4. CASE Refused(w)
  BY <1>4 DEF Refused
<1>5. CASE StartHeartbeat(w)
  BY <1>5 DEF StartHeartbeat
<1>6. CASE Begin(w)
  BY <1>6 DEF Begin
<1>7. CASE End(w)
  BY <1>7 DEF End
<1>8. CASE ReleaseLock(w)
  BY <1>8 DEF ReleaseLock
<1>9. CASE CloseDb(w)
  BY <1>9 DEF CloseDb
<1>10. CASE RemoveProgress(w)
  BY <1>10 DEF RemoveProgress
<1>11. CASE WriterDies(w)
  BY <1>11 DEF WriterDies
<1> QED
  BY <1>1, <1>2, <1>3, <1>4, <1>5, <1>6, <1>7, <1>8, <1>9, <1>10, <1>11 DEF WriterStep

(* The heartbeat thread touches neither the container nor the end time. *)
LEMMA HeartbeatTypeOK ==
  ASSUME RSTypeOK, NEW w \in Writers, HeartbeatStep(w)
  PROVE  RSTypeOK'
<1> USE StatusAssumption DEF RSTypeOK, WriterHasDb, ManagerHasDb, BeatGoto, NextBeat, Touched, managerVars
<1>1. CASE FirstBeat(w)
  BY <1>1 DEF FirstBeat
<1>2. CASE Beat(w)
  BY <1>2 DEF Beat
<1>3. CASE TouchPath(w)
  BY <1>3 DEF TouchPath
<1> QED
  BY <1>1, <1>2, <1>3 DEF HeartbeatStep

(* The manager has the container exactly from its opening to its closing. *)
LEMMA ManagerTypeOK ==
  ASSUME RSTypeOK, ManagerStep
  PROVE  RSTypeOK'
<1> USE StatusAssumption DEF RSTypeOK, WriterHasDb, ManagerHasDb, Nobody, Manager
<1>1. CASE Scan
  BY <1>1 DEF Scan
<1>2. ASSUME NEW elapsed \in BOOLEAN, Look(elapsed)
      PROVE  RSTypeOK'
  BY <1>2 DEF Look, NewHeartbeat
<1>3. CASE ManagerTouches
  BY <1>3 DEF ManagerTouches
<1>4. CASE ManagerOpens
  BY <1>4 DEF ManagerOpens
<1>5. CASE ManagerEnds
  BY <1>5 DEF ManagerEnds, Ended
<1>6. CASE ManagerUnlinks
  BY <1>6 DEF ManagerUnlinks
<1>7. CASE ManagerCloses
  BY <1>7 DEF ManagerCloses
<1>8. CASE ManagerCleans
  BY <1>8 DEF ManagerCleans
<1> QED
  BY <1>1, <1>2, <1>3, <1>4, <1>5, <1>6, <1>7, <1>8 DEF ManagerStep

(* One step of anybody keeps the types and the owner of the container. *)
LEMMA StepTypeOK == RSTypeOK /\ [RSNext]_rsVars => RSTypeOK'
<1> SUFFICES ASSUME RSTypeOK, [RSNext]_rsVars
             PROVE  RSTypeOK'
  OBVIOUS
<1>1. CASE UNCHANGED rsVars
  BY <1>1 DEF rsVars, managerVars, RSTypeOK, WriterHasDb, ManagerHasDb
<1>2. CASE RSNext
  BY <1>2, WriterTypeOK, HeartbeatTypeOK, ManagerTypeOK DEF RSNext
<1> QED
  BY <1>1, <1>2

(* Every variable keeps its type, and the container has the owner that the *)
(* places of the writers and of the manager say.                           *)
THEOREM TypeCorrect == RSSpec => []RSTypeOK
<1>1. RSInit => RSTypeOK
  BY InitTypeOK
<1>2. RSTypeOK /\ [RSNext]_rsVars => RSTypeOK'
  BY StepTypeOK
<1> QED
  BY <1>1, <1>2, PTL DEF RSSpec

-----------------------------------------------------------------------------
(* Only three steps change the end time, and each has the container: two  *)
(* writers, or a writer and the manager, are never there together.         *)
LEMMA StepLiveHasNoEnd == RSTypeOK /\ LiveHasNoEnd /\ [RSNext]_rsVars => LiveHasNoEnd'
<1> SUFFICES ASSUME RSTypeOK, LiveHasNoEnd, [RSNext]_rsVars,
                    NEW v \in Writers, wpc'[v] = "running"
             PROVE  endTime' = "none"
  BY DEF LiveHasNoEnd
<1> USE StatusAssumption DEF LiveHasNoEnd, RSTypeOK, WriterHasDb, ManagerHasDb
<1>1. CASE UNCHANGED rsVars
  BY <1>1 DEF rsVars, managerVars
<1>2. ASSUME NEW w \in Writers, WriterStep(w)
      PROVE  endTime' = "none"
  <2> USE DEF WriterGoto, BeatGoto, managerVars
  <2>1. CASE Begin(w)
    BY <2>1 DEF Begin
  <2>2. CASE End(w)
    BY <2>2 DEF End
  <2>3. CASE Open(w) \/ TouchProgress(w) \/ OpenDb(w) \/ Refused(w)
    BY <2>3 DEF Open, TouchProgress, OpenDb, Refused
  <2>4. CASE StartHeartbeat(w) \/ ReleaseLock(w) \/ CloseDb(w)
    BY <2>4 DEF StartHeartbeat, ReleaseLock, CloseDb
  <2>5. CASE RemoveProgress(w) \/ WriterDies(w)
    BY <2>5 DEF RemoveProgress, WriterDies
  <2> QED
    BY <1>2, <2>1, <2>2, <2>3, <2>4, <2>5 DEF WriterStep
<1>3. ASSUME NEW w \in Writers, HeartbeatStep(w)
      PROVE  endTime' = "none"
  BY <1>3 DEF HeartbeatStep, FirstBeat, Beat, TouchPath
<1>4. CASE ManagerStep
  <2>1. CASE ManagerEnds
    BY <2>1 DEF ManagerEnds, Manager
  <2>2. CASE Scan \/ (\E elapsed \in BOOLEAN : Look(elapsed)) \/ ManagerTouches \/ ManagerOpens
    BY <2>2 DEF Scan, Look, ManagerTouches, ManagerOpens
  <2>3. CASE ManagerUnlinks \/ ManagerCloses \/ ManagerCleans
    BY <2>3 DEF ManagerUnlinks, ManagerCloses, ManagerCleans
  <2> QED
    BY <1>4, <2>1, <2>2, <2>3 DEF ManagerStep
<1> QED
  BY <1>1, <1>2, <1>3, <1>4 DEF RSNext

(* A run that a process is writing has no end time: what the status       *)
(* manager decided from its heartbeats before is harmless.                 *)
THEOREM LiveRuns == RSSpec => []LiveHasNoEnd
<1>1. RSInit => RSTypeOK /\ LiveHasNoEnd
  BY InitTypeOK DEF RSInit, LiveHasNoEnd
<1>2. RSTypeOK /\ LiveHasNoEnd /\ [RSNext]_rsVars => (RSTypeOK /\ LiveHasNoEnd)'
  BY StepTypeOK, StepLiveHasNoEnd
<1> QED
  BY <1>1, <1>2, PTL DEF RSSpec

(* The manager does not replace the end time that a run has written. *)
THEOREM ClosedEnds == RSSpec => ClosedEndKept
<1>1. [RSNext]_rsVars => (endTime = "writer" => endTime' # "manager") \/ UNCHANGED rsVars
  <2> SUFFICES ASSUME RSNext, endTime = "writer"
               PROVE  endTime' # "manager"
    OBVIOUS
  <2>1. ASSUME NEW w \in Writers, WriterStep(w)
        PROVE  endTime' # "manager"
    BY <2>1 DEF WriterStep, Open, TouchProgress, OpenDb, Refused, StartHeartbeat, Begin, End,
                ReleaseLock, CloseDb, RemoveProgress, WriterDies
  <2>2. ASSUME NEW w \in Writers, HeartbeatStep(w)
        PROVE  endTime' # "manager"
    BY <2>2 DEF HeartbeatStep, FirstBeat, Beat, TouchPath
  <2>3. CASE ManagerStep
    BY <2>3 DEF ManagerStep, Scan, Look, ManagerTouches, ManagerOpens, ManagerEnds, Ended,
                ManagerUnlinks, ManagerCloses, ManagerCleans
  <2> QED
    BY <2>1, <2>2, <2>3 DEF RSNext
<1> QED
  BY <1>1, PTL DEF RSSpec, ClosedEndKept

-----------------------------------------------------------------------------
(* SequenceTracker *)


Bases == Types \cup {"number", NoType}
Extremes == (-Inf)..Inf
Overviews ==
  [dtype : Bases, version : {1, 2, NoVersion}, firstStep : Nat \cup {NoStep},
   lastStep : Nat \cup {NoStep}, last : Values \cup {NoValue}, min : Extremes, max : Extremes]
Infos ==
  [initialized : BOOLEAN, count : Nat, dtype : Bases, version : {1, 2},
   min : Extremes, max : Extremes]
Items == [name : Names, value : Values]
Places == {"idle", "begin", "type", "first", "last", "range", "add"}

(* The values of a sequence, and the type of the variables. *)
SeriesTyped ==
  /\ series = [n \in Names |-> series[n]]
  /\ \A n \in Names : /\ DOMAIN series[n] \subseteq Nat
                      /\ \A s \in DOMAIN series[n] : series[n][s] \in Values

CallTyped ==
  /\ todo \in Seq(Items) /\ step \in Nat \cup {NoStep}
  /\ source \in {"given", "counted", "inherited"} /\ at \in Places
  /\ at = "idle" => todo = <<>> /\ step = NoStep
  /\ at # "idle" => todo # <<>>
  /\ at \in Places \ {"idle", "begin"} => step \in Nat

Typed ==
  /\ meta \in [Names -> Overviews] /\ info \in [Names -> Infos]
  /\ SeriesTyped /\ CallTyped

(* A value of type d belongs into a sequence of type base. *)
Has(d, base) ==
  \/ d = base
  \/ d \in {"int", "float"} /\ base = "number"
  \/ d = "list" /\ base \in ListOf

(* The tracker's copy and the stored overview of a sequence. *)
Agrees(n) ==
  /\ info[n].count = meta[n].lastStep + 1
  /\ info[n].min = meta[n].min /\ info[n].max = meta[n].max
  /\ info[n].initialized \/ info[n] = NoInfo
  /\ meta[n].lastStep # NoStep => /\ info[n].version = meta[n].version
                                  /\ info[n].dtype = meta[n].dtype
                                  /\ meta[n].dtype # NoType
  /\ meta[n].lastStep = NoStep => /\ meta[n].min = Inf /\ meta[n].max = -Inf
                                  /\ info[n].dtype = NoType \/ (at = "last" /\ n = N)

(* The overview of a sequence and its values. *)
Covers(n) ==
  \A s \in DOMAIN series[n] :
    /\ s <= meta[n].lastStep
    /\ meta[n].version = 2 => meta[n].min <= series[n][s].num /\ series[n][s].num <= meta[n].max
    /\ Has(series[n][s].type, meta[n].dtype)

(* The overview and the value on its way, from one write to the next. *)
Prepared ==
  /\ at \in {"type", "first"} => meta[N].lastStep = NoStep /\ info[N].initialized
  /\ at = "first" => meta[N].dtype = V.type
  /\ at \in {"last", "range", "add"} => /\ info[N].version = meta[N].version
                                        /\ info[N].dtype = meta[N].dtype
                                        /\ Has(V.type, meta[N].dtype)
  /\ at \in {"range", "add"} => step <= meta[N].lastStep
  /\ at = "add" /\ meta[N].version = 2 => meta[N].min <= V.num /\ V.num <= meta[N].max

(* A step that is counted is the next one of its sequence. *)
Counted ==
  source = "counted" => /\ at = "begin" => step = NoStep
                        /\ at \in Places \ {"idle", "begin"} => Appends(N)

TInv ==
  /\ Typed /\ Prepared /\ Counted
  /\ \A n \in Names : Agrees(n) /\ Covers(n)

-----------------------------------------------------------------------------
(* The value at the head of the call. *)
LEMMA Current ==
  ASSUME Typed, at # "idle"
  PROVE  /\ N \in Names /\ V \in Values
         /\ V.type \in Types /\ V.num \in Extremes
         /\ info[N] \in Infos /\ meta[N] \in Overviews
<1>1. Head(todo) \in Items
  BY DEF Typed, CallTyped
<1>2. N \in Names /\ V \in Values
  BY <1>1 DEF N, V, Items
<1> QED
  BY <1>2, TrackerAssumption DEF ValueType, Extremes, Typed

LEMMA Numbers ==
  Extremes \subseteq Int /\ \A v \in Values : v.type \in Types /\ v.num \in Int
<1>1. Extremes \subseteq Int
  BY DEF Extremes, Inf
<1> QED
  BY <1>1, TrackerAssumption DEF ValueType, Extremes

(* The types of a sequence: what belongs to it still does when the type is *)
(* updated for a value that is compatible, and so does this value.         *)
LEMMA TypesGrow ==
  ASSUME NEW d \in Types, NEW base \in Bases \ {NoType}, Compatible(d, base)
  PROVE  /\ Updated(d, base) \in Bases \ {NoType} /\ Has(d, Updated(d, base))
         /\ \A e \in Types : Has(e, base) => Has(e, Updated(d, base))
BY DEF Types, Bases, NoType, Compatible, Updated, Has, ListOf

(* An empty overview, a new copy, and one that is loaded. *)
LEMMA EmptySeries ==
  NoMeta \in Overviews /\ NoInfo \in Infos
BY DEF NoMeta, NoInfo, Overviews, Infos, Bases, Extremes, NoType, NoVersion, NoStep, NoValue, Inf

LEMMA LoadedTyped ==
  ASSUME NEW m \in Overviews, m.lastStep # NoStep => m.version # NoVersion
  PROVE  Loaded(m) \in Infos
<1>1. CASE m.lastStep = NoStep
  BY <1>1, EmptySeries DEF Loaded
<1>2. CASE m.lastStep # NoStep
  <2>1. /\ m.lastStep \in Nat /\ m.version \in {1, 2} /\ m.dtype \in Bases
        /\ m.min \in Extremes /\ m.max \in Extremes
    BY <1>2 DEF Overviews
  <2> QED
    BY <1>2, <2>1 DEF Loaded, LoadedCount, LoadedRange, Infos
<1> QED
  BY <1>1, <1>2

(* A sequence whose overview, copy and values a step leaves alone. *)
LEMMA Untouched ==
  ASSUME NEW n \in Names, Agrees(n), Covers(n),
         meta'[n] = meta[n], info'[n] = info[n], series'[n] = series[n],
         meta[n].lastStep # NoStep \/ info[n].dtype = NoType
  PROVE  Agrees(n)' /\ Covers(n)'
BY DEF Agrees, Covers

LEMMA SeriesRest ==
  ASSUME SeriesTyped, UNCHANGED series
  PROVE  SeriesTyped'
BY DEF SeriesTyped

(* A sequence without a last step has no values. *)
LEMMA NoValues ==
  ASSUME SeriesTyped, NEW n \in Names, Covers(n), meta[n].lastStep = NoStep
  PROVE  DOMAIN series[n] = {}
BY DEF SeriesTyped, Covers, NoStep

(* The sequences a step of the call does not work on. *)
LEMMA OthersRest ==
  ASSUME TInv, NEW n \in Names, n # N,
         meta'[n] = meta[n], info'[n] = info[n], series'[n] = series[n]
  PROVE  Agrees(n)' /\ Covers(n)'
<1>1. Agrees(n) /\ Covers(n)
  BY DEF TInv
<1>2. meta[n].lastStep # NoStep \/ info[n].dtype = NoType
  BY <1>1 DEF Agrees
<1> QED
  BY <1>1, <1>2, Untouched

-----------------------------------------------------------------------------
(* One lemma for each action *)

LEMMA TrackKeeps ==
  ASSUME TInv, NEW values \in Seq(Items), values # <<>>,
         NEW s \in Nat \cup {NoStep}, Track(values, s)
  PROVE  TInv'
<1>1. Typed'
  BY DEF TInv, Typed, SeriesTyped, CallTyped, Track, Places
<1>2. Prepared' /\ Counted'
  BY DEF TInv, Prepared, Counted, Track, Places
<1>3. \A n \in Names : Agrees(n)' /\ Covers(n)'
  <2> TAKE n \in Names
  <2>1. meta[n].lastStep # NoStep \/ info[n].dtype = NoType
    BY DEF TInv, Agrees, Track
  <2> QED
    BY <2>1, Untouched DEF TInv, Track
<1> QED
  BY <1>1, <1>2, <1>3 DEF TInv

LEMMA BeginKeeps ==
  ASSUME TInv, BeginValue
  PROVE  TInv'
<1> DEFINE old == info[N]
           new == IF old.initialized THEN old
                  ELSE [NoInfo EXCEPT !.initialized = TRUE,
                                      !.version = IF V.type \in {"int", "float"} THEN 2 ELSE 1]
           fits == new.dtype = NoType \/ Compatible(V.type, new.dtype)
           type == IF new.dtype = NoType THEN NoType ELSE Updated(V.type, new.dtype)
<1>0. /\ at = "begin" /\ N \in Names /\ V \in Values /\ V.type \in Types
      /\ old \in Infos /\ meta[N] \in Overviews
  BY Current DEF TInv, BeginValue
<1>1. /\ new \in Infos /\ new.initialized
      /\ new.count = old.count /\ new.dtype = old.dtype
      /\ new.min = old.min /\ new.max = old.max
      /\ old.initialized => new = old
  BY <1>0, EmptySeries DEF TInv, Agrees, NoInfo, Infos
<1>2. /\ Agrees(N) /\ Covers(N)
      /\ meta[N].lastStep = NoStep => old.dtype = NoType /\ old.count = 0
      /\ meta[N].lastStep # NoStep => /\ old.initialized /\ old.count # 0
                                      /\ old.dtype = meta[N].dtype /\ old.dtype # NoType
                                      /\ old.version = meta[N].version
  <2>1. Agrees(N) /\ Covers(N)
    BY <1>0 DEF TInv
  <2>2. meta[N].lastStep \in Nat \cup {NoStep} /\ old.count = meta[N].lastStep + 1
    BY <1>0, <2>1 DEF Agrees, Overviews
  <2>3. old.initialized \/ old.count = 0
    BY <2>1 DEF Agrees, NoInfo
  <2> QED
    BY <1>0, <2>1, <2>2, <2>3 DEF Agrees, NoStep
<1>3. UNCHANGED <<series, source>>
  BY DEF BeginValue
<1>4. \A n \in Names : n # N => meta[n].lastStep # NoStep \/ info[n].dtype = NoType
  BY DEF TInv, Agrees
<1>5. CASE ~fits
  <2>1. /\ at' = "idle" /\ step' = NoStep /\ todo' = <<>>
        /\ info' = [info EXCEPT ![N] = old] /\ meta' = meta
    BY <1>1, <1>2, <1>5 DEF BeginValue, Raise
  <2>2. info' = info
    BY <2>1 DEF TInv, Typed
  <2>3. Typed'
    <3>1. CallTyped'
      BY <2>1, <1>3 DEF TInv, Typed, CallTyped, Places
    <3> QED
      BY <2>1, <2>2, <3>1, <1>3, SeriesRest DEF TInv, Typed
  <2>4. Prepared' /\ Counted'
    BY <2>1 DEF Prepared, Counted, Places
  <2>5. \A n \in Names : Agrees(n)' /\ Covers(n)'
    BY <2>1, <2>2, <1>2, <1>3, <1>4, Untouched DEF TInv
  <2> QED
    BY <2>3, <2>4, <2>5 DEF TInv
<1>6. CASE fits
  <2>1. /\ step' = (IF step = NoStep THEN new.count ELSE step)
        /\ info' = [info EXCEPT ![N] = [new EXCEPT !.dtype = type]]
        /\ meta' = (IF type = new.dtype THEN meta ELSE [meta EXCEPT ![N].dtype = type])
        /\ at' = (IF new.count = 0 THEN "type" ELSE "last")
        /\ todo' = todo
    BY <1>6 DEF BeginValue
  <2>2. /\ type \in Bases
        /\ old.dtype # NoType => /\ type # NoType /\ Has(V.type, type)
                                 /\ \A e \in Types : Has(e, old.dtype) => Has(e, type)
    BY <1>0, <1>1, <1>6, TypesGrow DEF Infos, Bases
  <2> HIDE DEF new, type
  <2>3. N' = N /\ V' = V
    BY <2>1 DEF N, V
  <2>4. /\ info'[N] \in Infos /\ info'[N].dtype = type /\ info'[N].count = old.count
        /\ info'[N].version = new.version /\ info'[N].initialized
        /\ info'[N].min = old.min /\ info'[N].max = old.max
        /\ info' \in [Names -> Infos] /\ \A n \in Names : n # N => info'[n] = info[n]
    BY <1>0, <1>1, <2>1, <2>2 DEF TInv, Typed, Infos
  <2>5. /\ meta' \in [Names -> Overviews] /\ \A n \in Names : n # N => meta'[n] = meta[n]
        /\ meta'[N].dtype = IF type = old.dtype THEN meta[N].dtype ELSE type
        /\ meta'[N].lastStep = meta[N].lastStep /\ meta'[N].version = meta[N].version
        /\ meta'[N].min = meta[N].min /\ meta'[N].max = meta[N].max
    BY <1>0, <1>1, <2>1, <2>2 DEF TInv, Typed, Overviews
  <2>6. Typed'
    <3>1. todo' # <<>> /\ at' \in {"type", "last"} /\ step' \in Nat /\ source' = source
      BY <1>0, <1>1, <1>3, <2>1 DEF TInv, Typed, CallTyped, Infos, Places, NoStep
    <3>2. CallTyped'
      BY <2>1, <3>1 DEF TInv, Typed, CallTyped, Places
    <3> QED
      BY <2>4, <2>5, <3>2, <1>3, SeriesRest DEF TInv, Typed
  <2>7. Prepared'
    BY <1>0, <1>1, <1>2, <2>1, <2>2, <2>3, <2>4, <2>5 DEF Prepared
  <2>8. Counted'
    <3>1. source = "counted" => step' = old.count
      BY <1>0, <1>1, <2>1 DEF TInv, Counted, NoStep
    <3>2. source = "counted" => \A s \in DOMAIN series[N] : s < step'
      BY <1>0, <1>2, <3>1 DEF TInv, Typed, SeriesTyped, Agrees, Covers, Overviews, NoStep
    <3> QED
      BY <2>1, <2>3, <3>2, <1>3, <1>1 DEF Counted, Appends, Places
  <2>9. ASSUME NEW n \in Names PROVE Agrees(n)' /\ Covers(n)'
    <3>1. CASE n # N
      BY <3>1, <1>3, <1>4, <2>4, <2>5, Untouched DEF TInv
    <3>2. CASE n = N
      <4>1. Agrees(N)'
        <5>1. info'[N].count = meta'[N].lastStep + 1 /\ info'[N].initialized
          BY <1>2, <2>4, <2>5 DEF Agrees
        <5>2. info'[N].min = meta'[N].min /\ info'[N].max = meta'[N].max
          BY <1>2, <2>4, <2>5 DEF Agrees
        <5>3. CASE meta[N].lastStep = NoStep
          <6>1. type = NoType
            BY <1>1, <1>2, <5>3 DEF type
          <6>2. meta[N].min = Inf /\ meta[N].max = -Inf
            BY <1>2, <5>3 DEF Agrees
          <6> QED
            BY <5>1, <5>2, <5>3, <6>1, <6>2, <2>3, <2>4, <2>5 DEF Agrees
        <5>4. CASE meta[N].lastStep # NoStep
          <6>1. type # NoType /\ meta'[N].dtype = type /\ info'[N].version = meta'[N].version
            BY <1>1, <1>2, <2>2, <2>4, <2>5, <5>4
          <6> QED
            BY <5>1, <5>2, <5>4, <6>1, <2>3, <2>4, <2>5 DEF Agrees
        <5> QED
          BY <5>3, <5>4
      <4>2. ASSUME NEW s \in DOMAIN series[N]
            PROVE  /\ s <= meta'[N].lastStep
                   /\ meta'[N].version = 2 => /\ meta'[N].min <= series[N][s].num
                                              /\ series[N][s].num <= meta'[N].max
                   /\ Has(series[N][s].type, meta'[N].dtype)
        <5>1. s \in Nat /\ series[N][s].type \in Types
          BY <1>0, TrackerAssumption DEF TInv, Typed, SeriesTyped, ValueType
        <5>2. meta[N].lastStep # NoStep
          BY <1>2, <5>1 DEF Covers, NoStep
        <5>3. meta'[N].dtype = type
          BY <1>2, <2>5, <5>2
        <5> QED
          BY <1>2, <2>2, <2>5, <5>1, <5>2, <5>3 DEF Covers
      <4> QED
        BY <3>2, <1>3, <2>3, <4>1, <4>2 DEF Covers
    <3> QED
      BY <3>1, <3>2
  <2> QED
    BY <2>6, <2>7, <2>8, <2>9 DEF TInv
<1> QED
  BY <1>5, <1>6

LEMMA WriteTypeKeeps ==
  ASSUME TInv, WriteType
  PROVE  TInv'
<1>0. /\ at = "type" /\ N \in Names /\ V.type \in Types /\ meta[N] \in Overviews
      /\ meta[N].lastStep = NoStep /\ Agrees(N) /\ Covers(N)
  BY Current DEF TInv, WriteType, Prepared
<1>1. /\ at' = "first" /\ meta' = [meta EXCEPT ![N].dtype = V.type]
      /\ UNCHANGED <<series, info, todo, step, source>>
  BY DEF WriteType
<1>2. N' = N /\ V' = V
  BY <1>1 DEF N, V
<1>3. /\ meta' \in [Names -> Overviews] /\ \A n \in Names : n # N => meta'[n] = meta[n]
      /\ meta'[N].dtype = V.type /\ meta'[N].lastStep = NoStep
      /\ meta'[N].min = meta[N].min /\ meta'[N].max = meta[N].max
  <2> HIDE DEF N, V
  <2> QED
    BY <1>0, <1>1 DEF TInv, Typed, Overviews, Bases
<1>4. Typed'
  <2>1. CallTyped'
    BY <1>0, <1>1 DEF TInv, Typed, CallTyped, Places
  <2> QED
    BY <1>1, <1>3, <2>1, SeriesRest DEF TInv, Typed
<1>5. Prepared' /\ Counted'
  BY <1>0, <1>1, <1>2, <1>3 DEF TInv, Prepared, Counted, Appends, Places
<1>6. Agrees(N)' /\ Covers(N)'
  <2>1. DOMAIN series[N] = {}
    BY <1>0, NoValues DEF TInv, Typed
  <2>2. Covers(N)'
    BY <1>1, <1>2, <2>1 DEF Covers
  <2>3. Agrees(N)'
    BY <1>0, <1>1, <1>2, <1>3 DEF Agrees
  <2> QED
    BY <2>2, <2>3
<1>7. \A n \in Names : Agrees(n)' /\ Covers(n)'
  BY <1>1, <1>2, <1>3, <1>6, OthersRest
<1> QED
  BY <1>4, <1>5, <1>7 DEF TInv

LEMMA WriteFirstKeeps ==
  ASSUME TInv, WriteFirst
  PROVE  TInv'
<1>0. /\ at = "first" /\ N \in Names /\ V.type \in Types
      /\ meta[N] \in Overviews /\ info[N] \in Infos /\ step \in Nat
      /\ meta[N].lastStep = NoStep /\ meta[N].dtype = V.type /\ info[N].initialized
      /\ Agrees(N) /\ Covers(N)
  BY Current DEF TInv, Typed, CallTyped, WriteFirst, Prepared, Places
<1>1. /\ at' = "last"
      /\ meta' = [meta EXCEPT ![N].version = info[N].version, ![N].firstStep = step]
      /\ info' = [info EXCEPT ![N].dtype = V.type]
      /\ UNCHANGED <<series, todo, step, source>>
  BY DEF WriteFirst
<1>2. N' = N /\ V' = V
  BY <1>1 DEF N, V
<1>3. /\ meta' \in [Names -> Overviews] /\ \A n \in Names : n # N => meta'[n] = meta[n]
      /\ meta'[N].dtype = V.type /\ meta'[N].lastStep = NoStep
      /\ meta'[N].version = info[N].version
      /\ meta'[N].min = meta[N].min /\ meta'[N].max = meta[N].max
  <2>1. info[N].version \in {1, 2}
    BY <1>0 DEF Infos
  <2> HIDE DEF N, V
  <2> QED
    BY <1>0, <1>1, <2>1 DEF TInv, Typed, Overviews
<1>4. /\ info' \in [Names -> Infos] /\ \A n \in Names : n # N => info'[n] = info[n]
      /\ info'[N].dtype = V.type /\ info'[N].count = info[N].count
      /\ info'[N].version = info[N].version /\ info'[N].initialized = info[N].initialized
      /\ info'[N].min = info[N].min /\ info'[N].max = info[N].max
  <2> HIDE DEF N, V
  <2> QED
    BY <1>0, <1>1 DEF TInv, Typed, Infos, Bases
<1>5. Typed'
  <2>1. CallTyped'
    BY <1>0, <1>1 DEF TInv, Typed, CallTyped, Places
  <2> QED
    BY <1>1, <1>3, <1>4, <2>1, SeriesRest DEF TInv, Typed
<1>6. Prepared' /\ Counted'
  BY <1>0, <1>1, <1>2, <1>3, <1>4 DEF TInv, Prepared, Counted, Appends, Places, Has
<1>7. Agrees(N)' /\ Covers(N)'
  <2>1. DOMAIN series[N] = {}
    BY <1>0, NoValues DEF TInv, Typed
  <2>2. Covers(N)'
    BY <1>1, <1>2, <2>1 DEF Covers
  <2>3. Agrees(N)'
    BY <1>0, <1>1, <1>2, <1>3, <1>4 DEF Agrees
  <2> QED
    BY <2>2, <2>3
<1>8. \A n \in Names : Agrees(n)' /\ Covers(n)'
  BY <1>1, <1>2, <1>3, <1>4, <1>7, OthersRest
<1> QED
  BY <1>5, <1>6, <1>8 DEF TInv

LEMMA WriteLastKeeps ==
  ASSUME TInv, WriteLast
  PROVE  TInv'
<1>0. /\ at = "last" /\ N \in Names /\ V \in Values /\ V.type \in Types
      /\ meta[N] \in Overviews /\ info[N] \in Infos /\ step \in Nat
      /\ info[N].version = meta[N].version /\ info[N].dtype = meta[N].dtype
      /\ Has(V.type, meta[N].dtype) /\ Agrees(N) /\ Covers(N)
  BY Current DEF TInv, Typed, CallTyped, WriteLast, Prepared, Places
<1>1. at' = "range" /\ UNCHANGED <<series, todo, step, source>>
  BY DEF WriteLast
<1>2. N' = N /\ V' = V
  BY <1>1 DEF N, V
<1>3. CASE Advances
  <2>1. /\ meta' = [meta EXCEPT ![N].last = V, ![N].lastStep = step]
        /\ info' = [info EXCEPT ![N].count = step + 1]
        /\ step >= info[N].count
    BY <1>3 DEF WriteLast, Advances
  <2>2. /\ meta' \in [Names -> Overviews] /\ \A n \in Names : n # N => meta'[n] = meta[n]
        /\ meta'[N].lastStep = step /\ meta'[N].dtype = meta[N].dtype
        /\ meta'[N].version = meta[N].version
        /\ meta'[N].min = meta[N].min /\ meta'[N].max = meta[N].max
    <3> HIDE DEF N, V
    <3> QED
      BY <1>0, <2>1 DEF TInv, Typed, Overviews
  <2>3. /\ info' \in [Names -> Infos] /\ \A n \in Names : n # N => info'[n] = info[n]
        /\ info'[N].count = step + 1 /\ info'[N].dtype = info[N].dtype
        /\ info'[N].version = info[N].version /\ info'[N].initialized = info[N].initialized
        /\ info'[N].min = info[N].min /\ info'[N].max = info[N].max
    <3> HIDE DEF N, V
    <3> QED
      BY <1>0, <2>1 DEF TInv, Typed, Infos
  <2>4. Typed'
    <3>1. CallTyped'
      BY <1>0, <1>1 DEF TInv, Typed, CallTyped, Places
    <3> QED
      BY <1>1, <2>2, <2>3, <3>1, SeriesRest DEF TInv, Typed
  <2>5. Prepared' /\ Counted'
    BY <1>0, <1>1, <1>2, <2>2, <2>3 DEF TInv, Prepared, Counted, Appends, Places
  <2>6. Covers(N)'
    <3>1. \A s \in DOMAIN series[N] : s \in Nat /\ s <= step
      BY <1>0, <2>1 DEF TInv, Typed, SeriesTyped, Agrees, Covers, Overviews, NoStep
    <3> QED
      BY <1>0, <1>1, <1>2, <2>2, <3>1 DEF Covers
  <2>7. Agrees(N)'
    <3>1. info[N].initialized
      BY <1>0 DEF Agrees, Has, NoInfo, NoType, Types, ListOf
    <3>2. meta[N].dtype # NoType
      BY <1>0 DEF Has, NoType, Types, ListOf
    <3> QED
      BY <1>0, <1>2, <2>2, <2>3, <3>1, <3>2 DEF Agrees, NoStep
  <2>8. \A n \in Names : Agrees(n)' /\ Covers(n)'
    BY <1>1, <1>2, <2>2, <2>3, <2>6, <2>7, OthersRest
  <2> QED
    BY <2>4, <2>5, <2>8 DEF TInv
<1>4. CASE ~Advances
  <2>1. UNCHANGED <<meta, info>> /\ step < info[N].count
    BY <1>0, <1>4 DEF WriteLast, Advances, Infos
  <2>2. step <= meta[N].lastStep /\ meta[N].lastStep # NoStep
    BY <1>0, <2>1 DEF Agrees, Overviews, NoStep
  <2>3. Typed'
    <3>1. CallTyped'
      BY <1>0, <1>1 DEF TInv, Typed, CallTyped, Places
    <3> QED
      BY <1>1, <2>1, <3>1, SeriesRest DEF TInv, Typed
  <2>4. Prepared' /\ Counted'
    BY <1>0, <1>1, <1>2, <2>1, <2>2 DEF TInv, Prepared, Counted, Appends, Places
  <2>5. \A n \in Names : Agrees(n)' /\ Covers(n)'
    BY <1>0, <1>1, <1>2, <2>1, <2>2, OthersRest, Untouched
  <2> QED
    BY <2>3, <2>4, <2>5 DEF TInv
<1> QED
  BY <1>3, <1>4

LEMMA WriteRangeKeeps ==
  ASSUME TInv, WriteRange
  PROVE  TInv'
<1> DEFINE high == info[N].version = 2 /\ V.num > info[N].max
           low == info[N].version = 2 /\ V.num < info[N].min
<1>0. /\ at = "range" /\ N \in Names /\ V.num \in Extremes
      /\ meta[N] \in Overviews /\ info[N] \in Infos /\ step \in Nat
      /\ info[N].version = meta[N].version /\ info[N].dtype = meta[N].dtype
      /\ Has(V.type, meta[N].dtype) /\ step <= meta[N].lastStep /\ Agrees(N) /\ Covers(N)
  BY Current DEF TInv, Typed, CallTyped, WriteRange, Prepared, Places
<1>1. /\ at' = "add" /\ UNCHANGED <<series, todo, step, source>>
      /\ meta' = [meta EXCEPT ![N].max = IF high THEN V.num ELSE @,
                              ![N].min = IF low THEN V.num ELSE @]
      /\ info' = [info EXCEPT ![N].max = IF high THEN V.num ELSE @,
                              ![N].min = IF low THEN V.num ELSE @]
  BY DEF WriteRange
<1>2. N' = N /\ V' = V
  BY <1>1 DEF N, V
<1>3. /\ meta[N].min \in Int /\ meta[N].max \in Int /\ V.num \in Int
      /\ info[N].min = meta[N].min /\ info[N].max = meta[N].max
      /\ meta[N].lastStep # NoStep
  <2>1. meta[N].min \in Int /\ meta[N].max \in Int /\ V.num \in Int
    BY <1>0, Numbers DEF Overviews
  <2>2. info[N].min = meta[N].min /\ info[N].max = meta[N].max
    BY <1>0 DEF Agrees
  <2>3. meta[N].lastStep # NoStep
    BY <1>0 DEF NoStep
  <2> QED
    BY <2>1, <2>2, <2>3
<1>4. /\ meta' \in [Names -> Overviews] /\ \A n \in Names : n # N => meta'[n] = meta[n]
      /\ meta'[N].lastStep = meta[N].lastStep /\ meta'[N].dtype = meta[N].dtype
      /\ meta'[N].version = meta[N].version
      /\ meta'[N].min = (IF low THEN V.num ELSE meta[N].min)
      /\ meta'[N].max = (IF high THEN V.num ELSE meta[N].max)
  <2> HIDE DEF N, V, high, low
  <2> QED
    BY <1>0, <1>1 DEF TInv, Typed, Overviews
<1>5. /\ info' \in [Names -> Infos] /\ \A n \in Names : n # N => info'[n] = info[n]
      /\ info'[N].count = info[N].count /\ info'[N].dtype = info[N].dtype
      /\ info'[N].version = info[N].version /\ info'[N].initialized = info[N].initialized
      /\ info'[N].min = (IF low THEN V.num ELSE info[N].min)
      /\ info'[N].max = (IF high THEN V.num ELSE info[N].max)
  <2> HIDE DEF N, V, high, low
  <2> QED
    BY <1>0, <1>1 DEF TInv, Typed, Infos
<1>6. Typed'
  <2>1. CallTyped'
    BY <1>0, <1>1 DEF TInv, Typed, CallTyped, Places
  <2> QED
    BY <1>1, <1>4, <1>5, <2>1, SeriesRest DEF TInv, Typed
<1>7. meta[N].version = 2 => /\ meta'[N].min <= V.num /\ V.num <= meta'[N].max
                            /\ meta'[N].min <= meta[N].min /\ meta[N].max <= meta'[N].max
                            /\ meta'[N].min \in Int /\ meta'[N].max \in Int
  <2> HIDE DEF N, V
  <2> QED
    BY <1>0, <1>3, <1>4
<1>8. Prepared' /\ Counted'
  <2> HIDE DEF high, low
  <2> QED
    BY <1>0, <1>1, <1>2, <1>4, <1>5, <1>7 DEF TInv, Prepared, Counted, Appends, Places
<1>9. Covers(N)'
  <2>1. ASSUME NEW s \in DOMAIN series[N]
        PROVE  /\ s <= meta'[N].lastStep
               /\ meta'[N].version = 2 => /\ meta'[N].min <= series[N][s].num
                                          /\ series[N][s].num <= meta'[N].max
               /\ Has(series[N][s].type, meta'[N].dtype)
    <3>1. series[N][s].num \in Int
      BY <1>0, Numbers DEF TInv, Typed, SeriesTyped
    <3> HIDE DEF N, V, high, low
    <3> QED
      BY <1>0, <1>3, <1>4, <1>7, <3>1 DEF Covers
  <2> QED
    BY <1>1, <1>2, <2>1 DEF Covers
<1>10. Agrees(N)'
  <2>1. info[N].initialized
    BY <1>0, <1>3 DEF Agrees, NoInfo, NoType
  <2> HIDE DEF high, low
  <2> QED
    BY <1>0, <1>2, <1>3, <1>4, <1>5, <2>1 DEF Agrees
<1>11. \A n \in Names : Agrees(n)' /\ Covers(n)'
  BY <1>1, <1>2, <1>4, <1>5, <1>9, <1>10, OthersRest
<1> QED
  BY <1>6, <1>8, <1>11 DEF TInv

LEMMA AddValueKeeps ==
  ASSUME TInv, AddValue
  PROVE  TInv'
<1>0. /\ at = "add" /\ N \in Names /\ V \in Values
      /\ meta[N] \in Overviews /\ step \in Nat /\ todo \in Seq(Items) /\ todo # <<>>
      /\ Has(V.type, meta[N].dtype) /\ step <= meta[N].lastStep
      /\ meta[N].version = 2 => meta[N].min <= V.num /\ V.num <= meta[N].max
      /\ Agrees(N) /\ Covers(N)
  BY Current DEF TInv, Typed, CallTyped, AddValue, Prepared, Places
<1>1. /\ UNCHANGED <<meta, info>> /\ todo' = Tail(todo)
      /\ source' = (IF source = "counted" /\ Len(todo) > 1 THEN "inherited" ELSE source)
      /\ IF Len(todo) > 1 THEN at' = "begin" /\ step' = step ELSE at' = "idle" /\ step' = NoStep
  BY DEF AddValue
<1>2. /\ series' = [n \in Names |-> series'[n]]
      /\ \A n \in Names : n # N => series'[n] = series[n]
      /\ series'[N] = [s \in DOMAIN series[N] \cup {step} |->
                         IF s = step THEN V ELSE series[N][s]]
  <2> HIDE DEF N, V
  <2>1. series' = [series EXCEPT ![N] = [s \in DOMAIN series[N] \cup {step} |->
                                           IF s = step THEN V ELSE series[N][s]]]
    BY DEF AddValue
  <2> QED
    BY <1>0, <2>1 DEF TInv, Typed, SeriesTyped
<1>3. Typed'
  <2>1. CallTyped'
    <3>1. todo' \in Seq(Items) /\ Len(todo') = Len(todo) - 1 /\ Len(todo) \in Nat \ {0}
      BY <1>0, <1>1
    <3>2. Len(todo) > 1 => todo' # <<>>
      BY <3>1
    <3>3. ~(Len(todo) > 1) => todo' = <<>>
      BY <3>1
    <3> QED
      BY <1>0, <1>1, <3>1, <3>2, <3>3 DEF TInv, Typed, CallTyped, Places
  <2>2. SeriesTyped'
    <3> HIDE DEF N, V
    <3> QED
      BY <1>0, <1>2 DEF TInv, Typed, SeriesTyped
  <2> QED
    BY <1>1, <2>1, <2>2 DEF TInv, Typed
<1>4. Prepared' /\ Counted'
  BY <1>1 DEF Prepared, Counted, Places
<1>5. ASSUME NEW n \in Names PROVE Agrees(n)' /\ Covers(n)'
  <2>1. Agrees(n) /\ Covers(n)
    BY DEF TInv
  <2>2. meta[n].lastStep # NoStep \/ info[n].dtype = NoType
    BY <1>0, <2>1 DEF Agrees, Overviews
  <2>3. Agrees(n)'
    BY <1>1, <2>1, <2>2 DEF Agrees
  <2>4. Covers(n)'
    <3> HIDE DEF N, V
    <3>1. CASE n = N
      BY <1>0, <1>1, <1>2, <3>1 DEF Covers
    <3>2. CASE n # N
      BY <1>1, <1>2, <2>1, <3>2 DEF Covers
    <3> QED
      BY <3>1, <3>2
  <2> QED
    BY <2>3, <2>4
<1> QED
  BY <1>3, <1>4, <1>5 DEF TInv

LEMMA ReopenKeeps ==
  ASSUME TInv, Reopen
  PROVE  TInv'
<1>1. /\ info' = [n \in Names |-> Loaded(meta[n])]
      /\ meta' = [n \in Names |-> IF meta[n] # NoMeta /\ meta[n].version = NoVersion
                                  THEN [meta[n] EXCEPT !.version = 1] ELSE meta[n]]
      /\ todo' = <<>> /\ step' = NoStep /\ source' = "given" /\ at' = "idle"
      /\ series' = series
  BY DEF Reopen
<1>2. ASSUME NEW n \in Names
      PROVE  /\ meta[n] \in Overviews /\ Agrees(n) /\ Covers(n)
             /\ meta[n].lastStep # NoStep => /\ meta[n].version \in {1, 2}
                                             /\ meta[n].version # NoVersion
             /\ Loaded(meta[n]) \in Infos
  <2>1. meta[n] \in Overviews /\ info[n] \in Infos /\ Agrees(n) /\ Covers(n)
    BY DEF TInv, Typed
  <2>2. meta[n].lastStep # NoStep => meta[n].version \in {1, 2} /\ meta[n].version # NoVersion
    BY <2>1 DEF Agrees, Infos, NoVersion
  <2> QED
    BY <2>1, <2>2, LoadedTyped
<1>3. ASSUME NEW n \in Names
      PROVE  /\ meta'[n] \in Overviews
             /\ meta'[n].lastStep = meta[n].lastStep /\ meta'[n].dtype = meta[n].dtype
             /\ meta'[n].min = meta[n].min /\ meta'[n].max = meta[n].max
             /\ meta'[n].version = meta[n].version
                  \/ (meta[n].version = NoVersion /\ meta'[n].version = 1)
  <2>1. CASE meta[n] # NoMeta /\ meta[n].version = NoVersion
    <3>1. meta'[n] = [meta[n] EXCEPT !.version = 1]
      BY <1>1, <2>1
    <3> QED
      BY <1>2, <2>1, <3>1 DEF Overviews
  <2>2. CASE ~(meta[n] # NoMeta /\ meta[n].version = NoVersion)
    BY <1>1, <1>2, <2>2
  <2> QED
    BY <2>1, <2>2
<1>4. Typed'
  <2>1. CallTyped'
    BY <1>1 DEF CallTyped, Places
  <2>2. info' \in [Names -> Infos]
    BY <1>1, <1>2
  <2>3. meta' \in [Names -> Overviews]
    BY <1>1, <1>3
  <2> QED
    BY <1>1, <2>1, <2>2, <2>3, SeriesRest DEF TInv, Typed
<1>5. Prepared' /\ Counted'
  BY <1>1 DEF Prepared, Counted, Places
<1>6. ASSUME NEW n \in Names PROVE Agrees(n)' /\ Covers(n)'
  <2>1. Covers(n)'
    BY <1>1, <1>2, <1>3 DEF Covers, NoVersion
  <2>2. Agrees(n)'
    <3>1. CASE meta[n].lastStep = NoStep
      <4>1. info'[n] = NoInfo
        BY <1>1, <3>1 DEF Loaded
      <4> QED
        BY <1>2, <1>3, <3>1, <4>1 DEF Agrees, NoInfo, NoStep
    <3>2. CASE meta[n].lastStep # NoStep
      <4>1. /\ info'[n].initialized /\ info'[n].count = meta[n].lastStep + 1
            /\ info'[n].dtype = meta[n].dtype /\ info'[n].version = meta[n].version
            /\ info'[n].min = meta[n].min /\ info'[n].max = meta[n].max
        BY <1>1, <3>2 DEF Loaded, LoadedCount, LoadedRange
      <4> QED
        BY <1>2, <1>3, <3>2, <4>1 DEF Agrees
    <3> QED
      BY <3>1, <3>2
  <2> QED
    BY <2>1, <2>2
<1> QED
  BY <1>4, <1>5, <1>6 DEF TInv

-----------------------------------------------------------------------------
(* The inductive invariant *)

LEMMA InitHolds ==
  ASSUME STInit
  PROVE  TInv
<1>1. Typed
  <2>1. SeriesTyped
    BY DEF STInit, SeriesTyped
  <2>2. CallTyped
    BY DEF STInit, CallTyped, Places
  <2> QED
    BY <2>1, <2>2, EmptySeries DEF STInit, Typed
<1>2. Prepared /\ Counted
  BY DEF STInit, Prepared, Counted, Places
<1>3. \A n \in Names : Agrees(n) /\ Covers(n)
  <2> TAKE n \in Names
  <2>1. meta[n] = NoMeta /\ info[n] = NoInfo /\ series[n] = << >>
    BY DEF STInit
  <2>2. Agrees(n)
    BY <2>1 DEF Agrees, NoInfo, NoMeta, NoStep
  <2>3. Covers(n)
    BY <2>1 DEF Covers
  <2> QED
    BY <2>2, <2>3
<1> QED
  BY <1>1, <1>2, <1>3 DEF TInv

LEMMA StutterKeeps ==
  ASSUME TInv, UNCHANGED stVars
  PROVE  TInv'
BY DEF TInv, Typed, SeriesTyped, CallTyped, Prepared, Counted, Appends, Agrees, Covers, N, V, stVars

LEMMA StepKeeps ==
  ASSUME TInv, [STNext]_stVars
  PROVE  TInv'
<1>1. ASSUME NEW n \in Names, NEW v \in Values, NEW s \in Steps \cup {NoStep},
             Track(<<Call(n, v)>>, s)
      PROVE  TInv'
  <2>1. <<Call(n, v)>> \in Seq(Items) /\ <<Call(n, v)>> # <<>> /\ s \in Nat \cup {NoStep}
    BY TrackerAssumption DEF Call, Items
  <2> QED
    BY <1>1, <2>1, TrackKeeps
<1>2. ASSUME NEW n \in Names, NEW m \in Names, NEW v \in Values, NEW w \in Values,
             NEW s \in Steps \cup {NoStep}, Track(<<Call(n, v), Call(m, w)>>, s)
      PROVE  TInv'
  <2>1. /\ <<Call(n, v), Call(m, w)>> \in Seq(Items) /\ <<Call(n, v), Call(m, w)>> # <<>>
        /\ s \in Nat \cup {NoStep}
    BY TrackerAssumption DEF Call, Items
  <2> QED
    BY <1>2, <2>1, TrackKeeps
<1> QED
  BY <1>1, <1>2, BeginKeeps, WriteTypeKeeps, WriteFirstKeeps, WriteLastKeeps, WriteRangeKeeps,
     AddValueKeeps, ReopenKeeps, StutterKeeps DEF STNext

(* The invariant tells of a sequence what the overview promises. *)
LEMMA Promised ==
  ASSUME TInv
  PROVE  OverviewHolds
<1>1. STTypeOK
  <2>1. ASSUME NEW n \in Names
        PROVE  meta[n] \in Overviews /\ info[n] \in Infos
    BY DEF TInv, Typed
  <2> QED
    BY <2>1 DEF TInv, Typed, SeriesTyped, CallTyped, STTypeOK, Overviews, Infos, Bases, Extremes,
       Places
<1>2. LastStepCovers /\ RangeCovers
  BY DEF TInv, Covers, LastStepCovers, RangeCovers
<1>3. Homogeneous
  BY DEF TInv, Covers, Has, Homogeneous
<1> QED
  BY <1>1, <1>2, <1>3 DEF OverviewHolds

(* The overview of a sequence covers the steps, the numbers and the types  *)
(* of its values, whenever a call is interrupted and the run opened again. *)
THEOREM OverviewTrue == STSpec => []OverviewHolds
<1>1. STInit => TInv
  BY InitHolds
<1>2. TInv /\ [STNext]_stVars => TInv'
  BY StepKeeps
<1> QED
  BY <1>1, <1>2, Promised, PTL DEF STSpec

(* A value that gets its step by counting goes behind all others of its    *)
(* sequence: nothing is overwritten unasked.                               *)
THEOREM CountingAppends == STSpec => CountedStepAppends
<1>1. STInit => TInv
  BY InitHolds
<1>2. TInv /\ [STNext]_stVars => TInv'
  BY StepKeeps
<1>3. TInv /\ [STNext]_stVars =>
        [\A n \in Names : source = "counted" /\ series'[n] # series[n] => Appends(n)]_stVars
  <2> SUFFICES ASSUME TInv, STNext, NEW n \in Names, source = "counted", series'[n] # series[n]
               PROVE  Appends(n)
    OBVIOUS
  <2>1. AddValue
    BY DEF STNext, Track, BeginValue, WriteType, WriteFirst, WriteLast, WriteRange, Reopen
  <2>2. n = N
    <3> HIDE DEF N, V
    <3> QED
      BY <2>1 DEF AddValue, TInv, Typed, SeriesTyped
  <2> QED
    BY <2>1, <2>2 DEF AddValue, TInv, Counted, Places
<1> QED
  BY <1>1, <1>2, <1>3, PTL DEF STSpec, CountedStepAppends
=============================================================================
