------------------------ MODULE StatusReporter_proofs ------------------------
(***************************************************************************)
(* Theorems about the status reporter, for any callers, flags and bounds:  *)
(* the files, the dictionaries and the queue agree in every interleaving   *)
(* of the callers and the writer, and a monitor never sees a flag go back. *)
(*                                                                         *)
(* The part that needs care is that a flag which was reported and not yet  *)
(* written has a task the writer will look at, although timed_tasks is     *)
(* read and written by both sides without a lock.  What saves it is that   *)
(* the writer takes a flag out of timed_tasks only once the flag is on     *)
(* disk (PopsWritten), and that a task is only overwritten when another    *)
(* one of its flag is scheduled (Replaced).                                *)
(***************************************************************************)
EXTENDS StatusReporter, FiniteSetTheorems, WellFoundedInduction, TLAPS

Indices == 0..MaxIdx
Files == SUBSET (1..MaxIdx)
Labels == {"out", "checked", "numbered", "flush", "waiting", "join"}
Calls == [flag : Flags, mode : Modes \cup {"async", "block", "stop"}, idx : Indices]
HasTask == {"got", "putback", "touch", "pop", "cleanup"}

(* TypeOK in parts: the numbers, the tasks and the threads. *)
DataTyped ==
  /\ disk \in [Flags -> Files]
  /\ last \in [Flags -> Indices] /\ phys \in [Flags -> Indices]
  /\ counter \in Indices /\ seen \in Indices /\ starts \in 0..MaxStarts
  /\ life \in {"down", "booting", "up", "closed"}

TasksTyped ==
  /\ timed \in [Flags -> Task \cup {NoTask}]
  /\ \A f \in Flags : timed[f] # NoTask => timed[f].flag = f
  /\ queue \subseteq Task /\ over \subseteq Task
  /\ wpc \in HasTask => hand \in Task
  /\ wpc \notin HasTask => hand = NoTask

ThreadsTyped ==
  /\ pc \in [Callers -> Labels] /\ call \in [Callers -> Calls]
  /\ owner \in Callers \cup {NoOne}
  /\ wpc \in HasTask \cup {"top", "asleep", "get", "clean", "stopping", "exited"}

SwitchesTyped == stop \in BOOLEAN /\ nap \in BOOLEAN

(* A process that is not there runs no thread. *)
NobodyRuns == life = "down" => pc = Memory.pc /\ wpc = "exited"

(* An index is one check-in, on disk or in last_check_ins. *)
Apart(f, g) ==
  disk[f] \cap disk[g] = {} /\ last[g] \notin disk[f] /\ (last[f] = 0 \/ last[f] # last[g])

Counted(f) == last[f] <= counter /\ \A i \in disk[f] : i <= counter

Numbers ==
  /\ \A f, g \in Flags : f # g => Apart(f, g)
  /\ life # "down" => \A f \in Flags : Counted(f)

(* There are tasks only for flags that were reported. *)
OnlyReported ==
  /\ \A t \in queue \cup {hand} : t # NoTask => last[t.flag] > 0
  /\ \A f \in Flags : timed[f] # NoTask => last[f] > 0
  /\ \A p \in Callers : pc[p] = "numbered" => last[call[p].flag] > 0

(* What the writer knows between two of its steps. *)
PopsWritten ==
  /\ wpc = "pop" => phys[hand.flag] > 0
  /\ wpc = "cleanup" => seen \in disk[hand.flag]

(* Where the overwritten tasks are, and what replaced them. *)
Replaced ==
  /\ IsFiniteSet(queue)
  /\ hand \notin queue
  /\ over \subseteq queue \cup {hand}
  /\ \A t \in over : timed[t.flag] # NoTask \/ phys[t.flag] > 0

(* A flag that is in timed_tasks and was never written is pending. *)
TimedPending == \A f \in Flags : timed[f] # NoTask /\ phys[f] = 0 => Pending(f)

SInv ==
  /\ DataTyped /\ TasksTyped /\ ThreadsTyped /\ SwitchesTyped
  /\ NobodyRuns /\ Numbers /\ OnlyReported /\ PopsWritten /\ Replaced
  /\ TimedPending /\ FirstReportPending /\ PhysicalIsOnDisk

-----------------------------------------------------------------------------
(* The parts make up TypeOK. *)
LEMMA TypesTogether ==
  ASSUME DataTyped, TasksTyped, ThreadsTyped, SwitchesTyped
  PROVE  TypeOK
<1>1. /\ disk \in [Flags -> SUBSET (1..MaxIdx)]
      /\ life \in {"down", "booting", "up", "closed"}
      /\ starts \in 0..MaxStarts /\ counter \in 0..MaxIdx
      /\ {last, phys} \subseteq [Flags -> 0..MaxIdx] /\ seen \in 0..MaxIdx
  BY DEF DataTyped, Files, Indices
<1>2. /\ \A f \in Flags : timed[f] = NoTask \/ (timed[f] \in Task /\ timed[f].flag = f)
      /\ queue \subseteq Task /\ over \subseteq Task
      /\ IF wpc \in {"got", "putback", "touch", "pop", "cleanup"} THEN hand \in Task ELSE hand = NoTask
  BY DEF TasksTyped, HasTask
<1>3. /\ owner \in Callers \cup {NoOne}
      /\ pc \in [Callers -> {"out", "checked", "numbered", "flush", "waiting", "join"}]
      /\ call \in [Callers -> [flag : Flags, mode : Modes \cup {"async", "block", "stop"}, idx : 0..MaxIdx]]
      /\ wpc \in {"top", "asleep", "get", "got", "putback", "touch", "pop", "cleanup", "clean",
                  "stopping", "exited"}
  BY DEF ThreadsTyped, Labels, Calls, Indices, HasTask
<1>4. {stop, nap} \subseteq BOOLEAN
  BY DEF SwitchesTyped
<1> QED
  BY <1>1, <1>2, <1>3, <1>4 DEF TypeOK

(* `None` is no task. *)
LEMMA NoTaskIsNone == NoTask \notin Task
<1> SUFFICES ASSUME NoTask \in Task PROVE FALSE
  OBVIOUS
<1>1. DOMAIN NoTask = {"flag", "num", "asap"}
  BY DEF Task
<1>2. DOMAIN NoTask = {"none"}
  BY DEF NoTask
<1> QED
  BY <1>1, <1>2

(* A set of numbers that is not empty has a least one. *)
LEMMA LeastNumber ==
  ASSUME NEW S, S \subseteq Nat, S # {}
  PROVE  \E n \in S : \A m \in S : n <= m
<1>1. PICK n \in S : \A m \in S : <<m, n>> \notin OpToRel(<, Nat)
  BY WFMin, NatLessThanWellFounded
<1>2. ASSUME NEW m \in S, m < n PROVE FALSE
  <2>1. <<m, n>> \in OpToRel(<, Nat)
    BY <1>2, Zenon DEF OpToRel
  <2> QED
    BY <1>1, <2>1
<1> QED
  BY <1>2

(* The newest of some files, or of none. *)
LEMMA Newest ==
  ASSUME NEW S, S \subseteq Nat, S # {}, NEW n \in Nat, \A s \in S : s <= n
  PROVE  Max(S) \in S /\ \A s \in S : s <= Max(S)
<1> DEFINE T == {n - s : s \in S}
<1>1. T \subseteq Nat /\ T # {}
  <2>1. \A s \in S : s \in Nat /\ n - s \in Nat
    OBVIOUS
  <2>2. PICK s \in S : TRUE
    OBVIOUS
  <2>3. n - s \in T
    BY <2>2
  <2> QED
    BY <2>1, <2>3
<1>2. PICK t \in T : \A u \in T : t <= u
  BY <1>1, LeastNumber, Zenon
<1>3. PICK x \in S : t = n - x
  BY <1>2
<1>4. \A s \in S : x >= s
  <2>1. \A s \in S : n - s \in T
    OBVIOUS
  <2> QED
    BY <1>2, <1>3, <2>1
<1>5. \E y \in S : \A s \in S : y >= s
  BY <1>4
<1>6. Max(S) \in S /\ \A s \in S : Max(S) >= s
  BY <1>5, Zenon DEF Max
<1> QED
  BY <1>6

(* The highest index on disk, of all flags. *)
LEMMA LeftoverCovers ==
  ASSUME DataTyped
  PROVE  /\ Leftover \in Indices
         /\ \A f \in Flags : \A i \in disk[f] : i <= Leftover
<1> DEFINE S == {0} \cup UNION {disk[f] : f \in Flags}
<1>1. \A f \in Flags : disk[f] \subseteq 1..MaxIdx
  BY DEF DataTyped, Files
<1>2. S \subseteq 0..MaxIdx /\ S # {} /\ \A f \in Flags : disk[f] \subseteq S
  <2>1. MaxIdx \in Nat
    BY ReporterAssumption
  <2> QED
    BY <1>1, <2>1
<1>3. MaxIdx \in Nat /\ S \subseteq Nat /\ \A s \in S : s <= MaxIdx
  BY <1>2, ReporterAssumption
<1> HIDE DEF S
<1>4. Max(S) \in S /\ \A s \in S : s <= Max(S)
  BY <1>2, <1>3, Newest
<1> QED
  BY <1>2, <1>4 DEF Leftover, S, Indices

(* There is a least number that is not in use. *)
LEMMA LeastFree ==
  ASSUME NEW S, IsFiniteSet(S)
  PROVE  \E n \in 1..(Cardinality(S) + 1) : n \notin S /\ \A m \in 1..(n - 1) : m \in S
<1>1. Cardinality(S) \in Nat
  BY FS_CardinalityType
<1> DEFINE T == (1..(Cardinality(S) + 1)) \ S
<1>2. T # {}
  <2>1. SUFFICES ASSUME 1..(Cardinality(S) + 1) \subseteq S PROVE FALSE
    OBVIOUS
  <2>2. Cardinality(1..(Cardinality(S) + 1)) = Cardinality(S) + 1
    BY <1>1, FS_Interval
  <2>3. Cardinality(1..(Cardinality(S) + 1)) <= Cardinality(S)
    BY <2>1, FS_Subset
  <2> QED
    BY <1>1, <2>2, <2>3
<1>3. T \subseteq Nat
  BY <1>1
<1>4. PICK n \in T : \A m \in T : n <= m
  BY <1>2, <1>3, LeastNumber
<1>5. n \in 1..(Cardinality(S) + 1) /\ n \notin S
  BY <1>4
<1>6. \A m \in 1..(n - 1) : m \in S
  BY <1>1, <1>4, <1>5
<1> QED
  BY <1>5, <1>6

(* A new task is not one of those that are around. *)
LEMMA NewTask ==
  ASSUME TasksTyped, IsFiniteSet(queue), NEW f \in Flags, NEW asap \in BOOLEAN
  PROVE  /\ New(f, asap) \in Task
         /\ New(f, asap).flag = f
         /\ New(f, asap) \notin queue
         /\ New(f, asap) # hand
         /\ New(f, asap) # timed[f]
<1> DEFINE A == queue \cup {hand} \cup {timed[f]}
           used == {t.num : t \in Alive(f)}
           Free(n) == n \notin used /\ \A m \in 1..(n - 1) : m \in used
<1>1. IsFiniteSet(Alive(f))
  <2>1. IsFiniteSet(queue \cup {hand})
    BY FS_AddElement
  <2>2. IsFiniteSet(A)
    BY <2>1, FS_AddElement
  <2> QED
    BY <2>2, FS_Subset DEF Alive
<1>2. IsFiniteSet(used)
  <2> DEFINE num == [t \in Alive(f) |-> t.num]
  <2>1. num \in Surjection(Alive(f), used)
    BY DEF Surjection
  <2> QED
    BY <1>1, <2>1, FS_Surjection
<1>3. Cardinality(used) \in Nat
  BY <1>2, FS_CardinalityType
<1>4. \E n \in 1..(Cardinality(used) + 1) : Free(n)
  BY <1>2, LeastFree
<1> DEFINE k == CHOOSE n \in 1..(Cardinality(used) + 1) : Free(n)
<1>5. k \in 1..(Cardinality(used) + 1) /\ k \notin used
  <2> HIDE DEF used
  <2> QED
    BY <1>4, Zenon
<1>6. New(f, asap) = [flag |-> f, num |-> k, asap |-> asap]
  BY DEF New
<1> HIDE DEF k
<1>7. New(f, asap) \in Task /\ New(f, asap).flag = f /\ New(f, asap).num = k
  BY <1>3, <1>5, <1>6 DEF Task
<1>8. New(f, asap) \notin Alive(f)
  BY <1>5, <1>7
<1>9. New(f, asap) \notin A
  BY <1>7, <1>8, NoTaskIsNone DEF Alive
<1> QED
  BY <1>7, <1>9

-----------------------------------------------------------------------------
(* What a caller does touches neither the files nor what the writer holds. *)
LEMMA CallersLeave ==
  ASSUME NEW p \in Callers,
         (\E f \in Flags, mode \in Modes : CheckIn(p, f, mode)) \/ Stop(p) \/ CallerStep(p)
  PROVE  UNCHANGED <<disk, phys, hand, seen, nap, starts>>
<1> QED
  BY DEF CheckIn, Stop, CallerStep, Number, Reschedule, Flush, Joined, writerVars

(* Before a Record the files of its flag have a newest one. *)
LEMMA NewestOfFlag ==
  ASSUME DataTyped, NEW f \in Flags, disk[f] # {}
  PROVE  Max(disk[f]) \in disk[f] /\ \A i \in disk[f] : i <= Max(disk[f])
<1>1. disk[f] \subseteq 1..MaxIdx /\ MaxIdx \in Nat
  BY ReporterAssumption DEF DataTyped, Files
<1>2. disk[f] \subseteq Nat /\ \A i \in disk[f] : i <= MaxIdx
  BY <1>1
<1> QED
  BY <1>1, <1>2, Newest

(* Each group of variables keeps its type. *)
LEMMA DataTypeKept ==
  ASSUME SInv, Next
  PROVE  DataTyped'
<1> USE DEF SInv, apiVars, writerVars
<1>0. MaxIdx \in Nat /\ MaxStarts \in Nat /\ Starting \in Flags
  BY ReporterAssumption
<1>1. ASSUME Start PROVE DataTyped'
  <2>1. Leftover + 1 \in Indices /\ 0 \in Indices
    BY <1>0, <1>1, LeftoverCovers DEF Start, Indices
  <2>2. last' \in [Flags -> Indices] /\ phys' \in [Flags -> Indices]
    BY <1>1, <2>1 DEF Start, Memory
  <2>3. starts' \in 0..MaxStarts
    BY <1>0, <1>1 DEF Start, DataTyped
  <2> QED
    BY <1>1, <2>1, <2>2, <2>3 DEF Start, DataTyped
<1>2. ASSUME Crash PROVE DataTyped'
  <2>1. 0 \in Indices
    BY <1>0 DEF Indices
  <2>2. last' \in [Flags -> Indices] /\ phys' \in [Flags -> Indices]
    BY <1>2, <2>1 DEF Crash, Memory
  <2> QED
    BY <1>2, <2>1, <2>2 DEF Crash, DataTyped
<1>3. ASSUME NEW p \in Callers, Number(p) PROVE DataTyped'
  <2>1. counter + 1 \in Indices
    BY <1>0, <1>3 DEF Number, DataTyped, Indices
  <2> QED
    BY <1>3, <2>1 DEF Number, DataTyped
<1>4. ASSUME NEW p \in Callers,
             \/ \E f \in Flags, mode \in Modes : CheckIn(p, f, mode)
             \/ Stop(p) \/ (\E stricter \in BOOLEAN : Reschedule(p, stricter)) \/ Flush(p) \/ Joined(p)
      PROVE  DataTyped'
  <2>1. UNCHANGED <<disk, last, phys, counter, seen, starts>> /\ life' \in {life, "closed"}
    BY <1>4 DEF CheckIn, Stop, Reschedule, Flush, Joined
  <2> QED
    BY <2>1 DEF DataTyped
<1>5. ASSUME Touch PROVE DataTyped'
  <2>1. hand \in Task /\ hand.flag \in Flags
    BY <1>5 DEF Touch, TasksTyped, HasTask, Task
  <2>2. last[hand.flag] \in Indices /\ (phys[hand.flag] # last[hand.flag] => last[hand.flag] \in 1..MaxIdx)
    <3>1. last[hand.flag] > 0
      BY <2>1, <1>5, NoTaskIsNone DEF OnlyReported
    <3> QED
      BY <1>0, <2>1, <3>1 DEF DataTyped, Indices
  <2>3. disk' \in [Flags -> Files]
    BY <1>5, <2>1, <2>2 DEF Touch, DataTyped, Files
  <2> QED
    BY <1>5, <2>2, <2>3 DEF Touch, DataTyped
<1>6. ASSUME Record PROVE DataTyped'
  <2>1. hand \in Task /\ hand.flag \in Flags
    BY <1>6 DEF Record, TasksTyped, HasTask, Task
  <2>2. disk[hand.flag] # {} /\ Max(disk[hand.flag]) \in disk[hand.flag]
    BY <1>6, <2>1, NewestOfFlag DEF Record, PopsWritten
  <2>3. disk' \in [Flags -> Files]
    BY <1>6, <2>1, <2>2 DEF Record, Kept, DataTyped, Files
  <2>4. 0 \in Indices
    BY <1>0 DEF Indices
  <2> QED
    BY <1>6, <2>1, <2>3, <2>4 DEF Record, TaskDone, DataTyped
<1>7. ASSUME Pop PROVE DataTyped'
  <2>1. 0 \in Indices
    BY <1>0 DEF Indices
  <2> QED
    BY <1>7, <2>1 DEF Pop, TaskDone, DataTyped
<1>8. ASSUME Sleep \/ Timeout \/ Get \/ (\E due \in BOOLEAN : Inspect(due)) \/ PutBack \/ Clean \/ TestStop
      PROVE  DataTyped'
  <2>1. UNCHANGED <<disk, last, phys, counter, seen, starts>> /\ life' \in {life, "up"}
    BY <1>8 DEF Sleep, Timeout, Get, Inspect, PutBack, Clean, TestStop
  <2> QED
    BY <2>1 DEF DataTyped
<1> QED
  BY <1>1, <1>2, <1>3, <1>4, <1>5, <1>6, <1>7, <1>8 DEF Next, CallerStep, WriterStep

(* What Schedule adds is typed and new. *)
LEMMA Scheduled ==
  ASSUME TasksTyped, Replaced, NEW fs, fs \subseteq Flags, NEW asap \in BOOLEAN, Schedule(fs, asap)
  PROVE  /\ timed' \in [Flags -> Task \cup {NoTask}]
         /\ \A f \in Flags : timed'[f] # NoTask => timed'[f].flag = f
         /\ \A f \in Flags \ fs : timed'[f] = timed[f]
         /\ \A f \in fs : timed'[f] # NoTask
         /\ queue \subseteq queue' /\ queue' \subseteq Task /\ IsFiniteSet(queue')
         /\ \A t \in queue' \ queue : t.flag \in fs
         /\ \A f \in fs : \E t \in queue' : t.flag = f /\ t \notin queue \cup {hand} /\ t # timed[f]
         /\ hand \notin queue'
<1>1. \A f \in fs : /\ New(f, asap) \in Task /\ New(f, asap).flag = f
                    /\ New(f, asap) \notin queue /\ New(f, asap) # hand /\ New(f, asap) # timed[f]
  BY NewTask DEF Replaced
<1>2. /\ timed' = [f \in Flags |-> IF f \in fs THEN New(f, asap) ELSE timed[f]]
      /\ queue' = queue \cup {New(f, asap) : f \in fs}
  BY DEF Schedule
<1>3. queue \subseteq Task /\ hand \notin queue /\ IsFiniteSet(queue)
  BY DEF TasksTyped, Replaced
<1>4. \A f \in Flags : timed[f] \in Task \cup {NoTask} /\ (timed[f] # NoTask => timed[f].flag = f)
  BY DEF TasksTyped
<1>5. \A f \in Flags : timed'[f] \in Task \cup {NoTask} /\ (timed'[f] # NoTask => timed'[f].flag = f)
  BY <1>1, <1>2, <1>4
<1>6. timed' \in [Flags -> Task \cup {NoTask}]
  BY <1>1, <1>2, <1>4
<1>7. \A f \in fs : timed'[f] # NoTask
  BY <1>1, <1>2, NoTaskIsNone
<1>8. \A f \in fs : New(f, asap) \in queue'
  BY <1>2
<1>9. \A t \in queue' \ queue : \E f \in fs : t = New(f, asap)
  BY <1>2
<1>10. IsFiniteSet(queue')
  <2> DEFINE added == {New(f, asap) : f \in fs}
             new == [f \in fs |-> New(f, asap)]
  <2>1. IsFiniteSet(fs)
    BY ReporterAssumption, FS_Subset
  <2>2. new \in Surjection(fs, added)
    BY DEF Surjection
  <2>3. IsFiniteSet(added)
    BY <2>1, <2>2, FS_Surjection
  <2> HIDE DEF added
  <2>4. IsFiniteSet(queue \cup added)
    BY <1>3, <2>3, FS_Union
  <2> QED
    BY <1>2, <2>4 DEF added
<1> HIDE DEF New
<1> QED
  BY <1>1, <1>2, <1>3, <1>5, <1>6, <1>7, <1>8, <1>9, <1>10

(* The same for a single flag. *)
LEMMA ScheduledOne ==
  ASSUME TasksTyped, Replaced, NEW g \in Flags, NEW asap \in BOOLEAN, Schedule({g}, asap)
  PROVE  /\ \A f \in Flags : f # g => timed'[f] = timed[f]
         /\ timed'[g] # NoTask
         /\ queue \subseteq queue' /\ IsFiniteSet(queue') /\ hand \notin queue'
         /\ \A t \in queue' \ queue : t.flag = g
         /\ \E t \in queue' : t.flag = g /\ t \notin queue \cup {hand} /\ t # timed[g]
<1> DEFINE one == {g}
<1>1. one \subseteq Flags /\ Schedule(one, asap) /\ \A f \in Flags : f \in one <=> f = g
  OBVIOUS
<1>2. \A f : f \in one => f = g
  OBVIOUS
<1>3. g \in one
  OBVIOUS
<1> HIDE DEF one
<1>4. /\ \A f \in Flags \ one : timed'[f] = timed[f]
      /\ \A f \in one : timed'[f] # NoTask
      /\ queue \subseteq queue' /\ IsFiniteSet(queue') /\ hand \notin queue'
      /\ \A t \in queue' \ queue : t.flag \in one
      /\ \A f \in one : \E t \in queue' : t.flag = f /\ t \notin queue \cup {hand} /\ t # timed[f]
  <2>1. CASE asap = TRUE
    <3>1. Schedule(one, TRUE)
      BY <1>1, <2>1
    <3> QED
      BY <1>1, <3>1, Scheduled
  <2>2. CASE asap = FALSE
    <3>1. Schedule(one, FALSE)
      BY <1>1, <2>2
    <3> QED
      BY <1>1, <3>1, Scheduled
  <2> QED
    BY <2>1, <2>2
<1>5. \E t \in queue' : t.flag = g /\ t \notin queue \cup {hand} /\ t # timed[g]
  BY <1>3, <1>4
<1> QED
  BY <1>1, <1>2, <1>3, <1>4, <1>5

(* The tasks keep their type. *)
LEMMA TasksTypeKept ==
  ASSUME SInv, Next
  PROVE  TasksTyped'
<1> USE DEF SInv, apiVars, writerVars
<1>0. Starting \in Flags /\ NoTask \notin Task
  BY ReporterAssumption, NoTaskIsNone
<1>1. ASSUME Start PROVE TasksTyped'
  <2> DEFINE t == [flag |-> Starting, num |-> 1, asap |-> TRUE]
  <2>1. t \in Task /\ t.flag = Starting
    BY <1>0 DEF Task
  <2> HIDE DEF t
  <2>2. timed' = [Memory.timed EXCEPT ![Starting] = t] /\ queue' = {t} /\ over' = {}
    BY <1>1 DEF Start, t
  <2>3. wpc' = "top" /\ hand' = NoTask
    BY <1>1 DEF Start
  <2>4. /\ timed' \in [Flags -> Task \cup {NoTask}]
        /\ \A f \in Flags : timed'[f] # NoTask => timed'[f].flag = f
    BY <1>0, <2>1, <2>2 DEF Memory
  <2> QED
    BY <2>1, <2>2, <2>3, <2>4 DEF TasksTyped, HasTask
<1>2. ASSUME Crash PROVE TasksTyped'
  BY <1>2 DEF Crash, Memory, TasksTyped, HasTask
<1>3. ASSUME NEW p \in Callers, NEW stricter \in BOOLEAN, Reschedule(p, stricter) PROVE TasksTyped'
  <2>1. call[p].flag \in Flags
    BY DEF ThreadsTyped, Calls
  <2>2. CASE NeedsTask(call[p].flag, stricter)
    <3>1. Schedule({call[p].flag}, TRUE) /\ WakeWriter /\ over' \subseteq over \cup queue \cup ({hand} \ {NoTask})
      BY <1>3, <2>2 DEF Reschedule
    <3>2. hand' = hand /\ (wpc' \in HasTask <=> wpc \in HasTask)
      BY <1>3, <3>1, CallersLeave DEF CallerStep, WakeWriter, HasTask
    <3>3. /\ timed' \in [Flags -> Task \cup {NoTask}] /\ queue' \subseteq Task
          /\ \A f \in Flags : timed'[f] # NoTask => timed'[f].flag = f
      BY <2>1, <3>1, Scheduled
    <3> QED
      BY <3>1, <3>2, <3>3 DEF TasksTyped
  <2>3. CASE ~NeedsTask(call[p].flag, stricter)
    BY <1>3, <2>3 DEF Reschedule, TasksTyped
  <2> QED
    BY <2>2, <2>3
<1>4. ASSUME NEW p \in Callers, Flush(p) PROVE TasksTyped'
  <2> DEFINE fs == {f \in Flags : timed[f] # NoTask}
  <2>1. Schedule(fs, TRUE) /\ WakeWriter /\ hand' = hand /\ over' = over
    BY <1>4 DEF Flush
  <2>2. wpc' \in HasTask <=> wpc \in HasTask
    BY <2>1 DEF WakeWriter, HasTask
  <2>3. /\ timed' \in [Flags -> Task \cup {NoTask}] /\ queue' \subseteq Task
        /\ \A f \in Flags : timed'[f] # NoTask => timed'[f].flag = f
    BY <2>1, Scheduled
  <2> QED
    BY <2>1, <2>2, <2>3 DEF TasksTyped
<1>5. ASSUME NEW p \in Callers,
             \/ \E f \in Flags, mode \in Modes : CheckIn(p, f, mode)
             \/ Stop(p) \/ Number(p) \/ Joined(p)
      PROVE  TasksTyped'
  BY <1>5 DEF CheckIn, Stop, Number, Joined, TasksTyped
<1>6. ASSUME Sleep \/ Timeout \/ Clean \/ TestStop PROVE TasksTyped'
  BY <1>6 DEF Sleep, Timeout, Clean, TestStop, TasksTyped, HasTask
<1>7. ASSUME Get PROVE TasksTyped'
  BY <1>7 DEF Get, TasksTyped, HasTask
<1>8. ASSUME NEW due \in BOOLEAN, Inspect(due) PROVE TasksTyped'
  BY <1>8 DEF Inspect, TasksTyped, HasTask
<1>9. ASSUME Touch PROVE TasksTyped'
  BY <1>9 DEF Touch, TasksTyped, HasTask
<1>10. ASSUME PutBack PROVE TasksTyped'
  BY <1>10 DEF PutBack, TasksTyped, HasTask, Task
<1>11. ASSUME Pop PROVE TasksTyped'
  BY <1>11 DEF Pop, TaskDone, TasksTyped, HasTask
<1>12. ASSUME Record PROVE TasksTyped'
  <2>1. hand.flag \in Flags /\ Schedule({hand.flag}, FALSE)
    BY <1>12 DEF Record, TasksTyped, HasTask, Task
  <2>2. wpc' = "top" /\ hand' = NoTask /\ over' \subseteq over
    BY <1>12 DEF Record, TaskDone
  <2>3. /\ timed' \in [Flags -> Task \cup {NoTask}] /\ queue' \subseteq Task
        /\ \A f \in Flags : timed'[f] # NoTask => timed'[f].flag = f
    BY <2>1, Scheduled
  <2> QED
    BY <2>2, <2>3 DEF TasksTyped, HasTask
<1> QED
  BY <1>1, <1>2, <1>3, <1>4, <1>5, <1>6, <1>7, <1>8, <1>9, <1>10, <1>11, <1>12 DEF Next, CallerStep, WriterStep

(* The threads keep theirs. *)
LEMMA ThreadsTypeKept ==
  ASSUME SInv, Next
  PROVE  ThreadsTyped'
<1> USE DEF SInv, apiVars, writerVars
<1>0. /\ Starting \in Flags /\ Main \in Callers /\ 0 \in Indices /\ NoCall \in Calls
      /\ Memory.pc \in [Callers -> Labels]
  BY ReporterAssumption DEF NoCall, Calls, Indices, Memory, Labels
<1>1. ASSUME Start PROVE ThreadsTyped'
  <2>1. Leftover + 1 \in Indices
    BY <1>1, LeftoverCovers, ReporterAssumption DEF Start, Indices
  <2>2. call' \in [Callers -> Calls]
    BY <1>0, <1>1, <2>1 DEF Start, Calls
  <2>3. pc' \in [Callers -> Labels]
    BY <1>0, <1>1 DEF Start, Labels
  <2>4. owner' \in Callers \cup {NoOne} /\ wpc' = "top"
    BY <1>0, <1>1 DEF Start
  <2> QED
    BY <2>2, <2>3, <2>4 DEF ThreadsTyped
<1>2. ASSUME Crash PROVE ThreadsTyped'
  BY <1>0, <1>2 DEF Crash, ThreadsTyped
<1>3. ASSUME NEW p \in Callers, NEW f \in Flags, NEW mode \in Modes, CheckIn(p, f, mode)
      PROVE  ThreadsTyped'
  BY <1>0, <1>3 DEF CheckIn, ThreadsTyped, Calls, Labels
<1>4. ASSUME NEW p \in Callers, Number(p) PROVE ThreadsTyped'
  <2>1. counter + 1 \in Indices
    BY <1>4, ReporterAssumption DEF Number, DataTyped, Indices
  <2>2. call[p] \in Calls
    BY DEF ThreadsTyped
  <2>3. [call[p] EXCEPT !.idx = counter + 1] \in Calls
    BY <2>1, <2>2 DEF Calls
  <2>4. call' = [call EXCEPT ![p] = [call[p] EXCEPT !.idx = counter + 1]]
    BY <1>4 DEF Number
  <2>5. call' \in [Callers -> Calls]
    BY <2>3, <2>4 DEF ThreadsTyped
  <2> QED
    BY <1>4, <2>5 DEF Number, ThreadsTyped, Labels
<1>5. ASSUME NEW p \in Callers, NEW stricter \in BOOLEAN, Reschedule(p, stricter)
      PROVE  ThreadsTyped'
  BY <1>0, <1>5 DEF Reschedule, Return, GoOn, WakeWriter, ThreadsTyped, Labels, HasTask
<1>6. ASSUME NEW p \in Callers, Flush(p) PROVE ThreadsTyped'
  BY <1>0, <1>6 DEF Flush, Return, GoOn, WakeWriter, ThreadsTyped, Labels, HasTask
<1>7. ASSUME NEW p \in Callers, Stop(p) PROVE ThreadsTyped'
  BY <1>0, <1>7 DEF Stop, ThreadsTyped, Calls, Labels
<1>8. ASSUME NEW p \in Callers, Joined(p) PROVE ThreadsTyped'
  BY <1>0, <1>8 DEF Joined, Return, ThreadsTyped, Labels
<1>9. ASSUME Clean PROVE ThreadsTyped'
  BY <1>0, <1>9 DEF Clean, Return, GoOn, ThreadsTyped, Labels, HasTask
<1>10. ASSUME \/ Sleep \/ Timeout \/ Get \/ (\E due \in BOOLEAN : Inspect(due)) \/ PutBack
              \/ Touch \/ Pop \/ Record \/ TestStop
       PROVE  ThreadsTyped'
  <2>1. UNCHANGED <<pc, call, owner>>
    BY <1>10 DEF Sleep, Timeout, Get, Inspect, PutBack, Touch, Pop, Record, TestStop
  <2>2. wpc' \in HasTask \cup {"top", "asleep", "get", "clean", "stopping", "exited"}
    BY <1>10 DEF Sleep, Timeout, Get, Inspect, PutBack, Touch, Pop, Record, TestStop, TaskDone, HasTask
  <2> QED
    BY <2>1, <2>2 DEF ThreadsTyped
<1> QED
  BY <1>1, <1>2, <1>3, <1>4, <1>5, <1>6, <1>7, <1>8, <1>9, <1>10 DEF Next, CallerStep, WriterStep

(* And the switches. *)
LEMMA SwitchesTypeKept ==
  ASSUME SInv, Next
  PROVE  SwitchesTyped'
<1> USE DEF SInv, apiVars, writerVars
<1>1. ASSUME Start \/ Crash PROVE SwitchesTyped'
  BY <1>1 DEF Start, Crash, SwitchesTyped
<1>2. ASSUME NEW p \in Callers,
             (\E f \in Flags, mode \in Modes : CheckIn(p, f, mode)) \/ Stop(p) \/ CallerStep(p)
      PROVE  SwitchesTyped'
  BY <1>2 DEF CheckIn, Stop, CallerStep, Number, Reschedule, Flush, Joined, SwitchesTyped
<1>3. ASSUME WriterStep PROVE SwitchesTyped'
  BY <1>3 DEF WriterStep, Sleep, Timeout, Get, Inspect, PutBack, Touch, Pop, Record, Clean, TestStop,
              TaskDone, SwitchesTyped
<1> QED
  BY <1>1, <1>2, <1>3 DEF Next

-----------------------------------------------------------------------------
(* A dead process runs no thread. *)
LEMMA NobodyKept ==
  ASSUME SInv, Next
  PROVE  NobodyRuns'
<1> USE DEF SInv, apiVars, writerVars
<1>1. ASSUME Start PROVE NobodyRuns'
  BY <1>1 DEF Start, NobodyRuns
<1>2. ASSUME Crash PROVE NobodyRuns'
  BY <1>2 DEF Crash, NobodyRuns
<1>3. ASSUME life = "down", ~Start, ~Crash PROVE FALSE
  <2>1. wpc = "exited" /\ \A p \in Callers : pc[p] = "out"
    BY <1>3 DEF NobodyRuns, Memory
  <2>2. ASSUME NEW p \in Callers,
               (\E f \in Flags, mode \in Modes : CheckIn(p, f, mode)) \/ Stop(p) \/ CallerStep(p)
        PROVE  FALSE
    BY <1>3, <2>1, <2>2 DEF CheckIn, Stop, CallerStep, Number, Reschedule, Flush, Joined
  <2>3. ASSUME WriterStep PROVE FALSE
    BY <2>1, <2>3 DEF WriterStep, Sleep, Timeout, Get, Inspect, PutBack, Touch, Pop, Record, Clean, TestStop
  <2> QED
    BY <1>3, <2>2, <2>3 DEF Next
<1>4. ASSUME life # "down", ~Start, ~Crash PROVE life' # "down"
  BY <1>4 DEF Next, CheckIn, Stop, CallerStep, Number, Reschedule, Flush, Joined, WriterStep, Sleep, Timeout,
              Get, Inspect, PutBack, Touch, Pop, Record, Clean, TestStop
<1> QED
  BY <1>1, <1>2, <1>3, <1>4 DEF NobodyRuns

(* The indices on disk and in last_check_ins stay apart and below the *)
(* counter.                                                            *)
LEMMA NumbersKept ==
  ASSUME SInv, Next
  PROVE  Numbers'
<1> USE DEF SInv, apiVars, writerVars
<1>0. /\ \A f \in Flags : disk[f] \subseteq 1..MaxIdx /\ last[f] \in 0..MaxIdx
      /\ counter \in 0..MaxIdx /\ MaxIdx \in Nat
  BY ReporterAssumption DEF DataTyped, Indices, Files
<1>1. ASSUME Start PROVE Numbers'
  <2>1. Leftover \in 0..MaxIdx /\ \A f \in Flags : \A i \in disk[f] : i <= Leftover
    BY LeftoverCovers DEF Indices
  <2>2. /\ last' = [Memory.last EXCEPT ![Starting] = Leftover + 1] /\ disk' = disk
        /\ counter' = Leftover + 1
    BY <1>1 DEF Start
  <2>3. \A f \in Flags : last'[f] = IF f = Starting THEN Leftover + 1 ELSE 0
    BY <2>2 DEF Memory
  <2>4. \A f \in Flags : Counted(f)'
    BY <1>0, <2>1, <2>2, <2>3 DEF Counted
  <2>5. \A f, g \in Flags : f # g => Apart(f, g)'
    <3>1. \A f \in Flags : Leftover + 1 \notin disk[f] /\ 0 \notin disk[f]
      BY <1>0, <2>1
    <3>2. \A f, g \in Flags : f # g => disk[f] \cap disk[g] = {}
      BY DEF Numbers, Apart
    <3> QED
      BY <2>1, <2>2, <2>3, <3>1, <3>2 DEF Apart
  <2> QED
    BY <2>4, <2>5 DEF Numbers
<1>2. ASSUME Crash PROVE Numbers'
  <2>1. life' = "down" /\ disk' = disk /\ \A f \in Flags : last'[f] = 0 /\ 0 \notin disk[f]
    BY <1>0, <1>2 DEF Crash, Memory
  <2> QED
    BY <2>1 DEF Numbers, Apart
<1>3. ASSUME NEW p \in Callers, Number(p) PROVE Numbers'
  <2>1. call[p].flag \in Flags /\ life # "down"
    BY <1>3 DEF Number, ThreadsTyped, Calls, NobodyRuns, Memory
  <2>2. /\ last' = [last EXCEPT ![call[p].flag] = counter + 1] /\ counter' = counter + 1
        /\ disk' = disk /\ life' = life
    BY <1>3 DEF Number
  <2>3. \A f \in Flags : last[f] <= counter /\ \A i \in disk[f] : i <= counter
    BY <2>1 DEF Numbers, Counted
  <2>4. \A f \in Flags : last'[f] = IF f = call[p].flag THEN counter + 1 ELSE last[f]
    BY <2>2 DEF DataTyped
  <2>5. \A f \in Flags : Counted(f)'
    BY <1>0, <2>2, <2>3, <2>4 DEF Counted
  <2>6. \A f, g \in Flags : f # g => Apart(f, g)'
    <3>1. \A f \in Flags : counter + 1 \notin disk[f] /\ counter + 1 # last[f]
      BY <1>0, <2>3
    <3> QED
      BY <2>2, <2>4, <3>1 DEF Numbers, Apart
  <2> QED
    BY <2>5, <2>6 DEF Numbers
<1>4. ASSUME Touch PROVE Numbers'
  <2>1. hand.flag \in Flags /\ life # "down"
    BY <1>4 DEF Touch, TasksTyped, HasTask, Task, NobodyRuns
  <2>2. /\ disk' = disk \/ disk' = [disk EXCEPT ![hand.flag] = @ \cup {last[hand.flag]}]
        /\ UNCHANGED <<last, counter, life>>
    BY <1>4 DEF Touch
  <2>3. \A f \in Flags : disk'[f] \subseteq disk[f] \cup (IF f = hand.flag THEN {last[f]} ELSE {})
    BY <2>1, <2>2 DEF DataTyped
  <2>4. \A f \in Flags : Counted(f)'
    BY <2>1, <2>2, <2>3 DEF Numbers, Counted
  <2>5. last[hand.flag] > 0
    BY <1>4, NoTaskIsNone DEF Touch, TasksTyped, HasTask, OnlyReported
  <2>6. \A f, g \in Flags : f # g => Apart(f, g)'
    BY <1>0, <2>1, <2>2, <2>3, <2>5 DEF Numbers, Apart
  <2> QED
    BY <2>4, <2>6 DEF Numbers
<1>5. ASSUME Record PROVE Numbers'
  <2>1. hand.flag \in Flags /\ disk[hand.flag] # {}
    BY <1>5 DEF Record, TasksTyped, HasTask, Task, PopsWritten
  <2>2. Max(disk[hand.flag]) \in disk[hand.flag]
    BY <2>1, NewestOfFlag
  <2>3. /\ disk' = [disk EXCEPT ![hand.flag] = {Max(disk[hand.flag])}]
        /\ UNCHANGED <<last, counter, life>>
    BY <1>5 DEF Record, Kept
  <2>4. \A f \in Flags : disk'[f] \subseteq disk[f]
    BY <2>1, <2>2, <2>3 DEF DataTyped
  <2> QED
    BY <2>3, <2>4 DEF Numbers, Apart, Counted
<1>6. ASSUME UNCHANGED <<disk, last, counter>>, life' # "down" => life # "down" PROVE Numbers'
  BY <1>6 DEF Numbers, Apart, Counted
<1>7. ASSUME NEW p \in Callers,
             \/ \E f \in Flags, mode \in Modes : CheckIn(p, f, mode)
             \/ Stop(p) \/ (\E stricter \in BOOLEAN : Reschedule(p, stricter)) \/ Flush(p) \/ Joined(p)
      PROVE  Numbers'
  <2>1. UNCHANGED <<disk, last, counter>> /\ (life' = life \/ pc[p] = "join")
    BY <1>7 DEF CheckIn, Stop, Reschedule, Flush, Joined
  <2>2. pc[p] = "join" => life # "down"
    BY DEF NobodyRuns, Memory
  <2> QED
    BY <1>6, <2>1, <2>2
<1>8. ASSUME Sleep \/ Timeout \/ Get \/ (\E due \in BOOLEAN : Inspect(due)) \/ PutBack \/ Pop \/ Clean \/ TestStop
      PROVE  Numbers'
  <2>1. UNCHANGED <<disk, last, counter>> /\ wpc # "exited"
    BY <1>8 DEF Sleep, Timeout, Get, Inspect, PutBack, Pop, Clean, TestStop
  <2> QED
    BY <1>6, <2>1 DEF NobodyRuns
<1> QED
  BY <1>1, <1>2, <1>3, <1>4, <1>5, <1>7, <1>8 DEF Next, CallerStep, WriterStep

(* Tasks are made for flags that were reported, and those stay reported. *)
LEMMA OnlyReportedKept ==
  ASSUME SInv, Next
  PROVE  OnlyReported'
<1> USE DEF SInv, apiVars, writerVars
<1>0. /\ NoTask \notin Task /\ Starting \in Flags
      /\ \A f \in Flags : last[f] \in Nat
      /\ counter \in Nat
  BY NoTaskIsNone, ReporterAssumption DEF DataTyped, Indices
<1>1. ASSUME Start PROVE OnlyReported'
  <2>1. Leftover + 1 > 0
    BY LeftoverCovers DEF Indices
  <2> DEFINE t == [flag |-> Starting, num |-> 1, asap |-> TRUE]
  <2>2. t.flag = Starting
    OBVIOUS
  <2> HIDE DEF t
  <2>3. /\ last'[Starting] > 0 /\ queue' = {t} /\ hand' = NoTask
        /\ timed' = [Memory.timed EXCEPT ![Starting] = t]
        /\ pc' = [Memory.pc EXCEPT ![Main] = "flush"]
    BY <1>0, <1>1, <2>1 DEF Start, Memory, t
  <2>4. \A f \in Flags : timed'[f] # NoTask => f = Starting
    BY <2>3 DEF Memory
  <2>5. \A p \in Callers : pc'[p] # "numbered"
    BY <2>3 DEF Memory
  <2> QED
    BY <2>2, <2>3, <2>4, <2>5 DEF OnlyReported
<1>2. ASSUME Crash PROVE OnlyReported'
  <2>1. /\ queue' = {} /\ hand' = NoTask
        /\ (\A f \in Flags : timed'[f] = NoTask) /\ (\A p \in Callers : pc'[p] = "out")
    BY <1>2 DEF Crash, Memory
  <2> QED
    BY <2>1 DEF OnlyReported
<1>3. ASSUME NEW p \in Callers, Number(p) PROVE OnlyReported'
  <2>1. call[p].flag \in Flags
    BY DEF ThreadsTyped, Calls
  <2>2. /\ last' = [last EXCEPT ![call[p].flag] = counter + 1] /\ UNCHANGED <<queue, hand, timed>>
        /\ \A q \in Callers : pc'[q] = (IF q = p THEN "numbered" ELSE pc[q]) /\ call'[q].flag = call[q].flag
    BY <1>3 DEF Number, ThreadsTyped, Calls
  <2>3. \A f \in Flags : last[f] > 0 \/ f = call[p].flag => last'[f] > 0
    BY <1>0, <2>1, <2>2 DEF DataTyped
  <2>4. /\ \A t \in queue \cup {hand} : t # NoTask => t.flag \in Flags
        /\ \A q \in Callers : call[q].flag \in Flags
    BY DEF TasksTyped, Task, ThreadsTyped, Calls
  <2> QED
    BY <2>2, <2>3, <2>4 DEF OnlyReported
<1>4. ASSUME NEW p \in Callers, \E stricter \in BOOLEAN : Reschedule(p, stricter) PROVE OnlyReported'
  <2>1. call[p].flag \in Flags /\ last[call[p].flag] > 0
    BY <1>4 DEF Reschedule, ThreadsTyped, Calls, OnlyReported
  <2>2. /\ last' = last /\ hand' = hand
        /\ \A q \in Callers : pc'[q] = "numbered" => pc[q] = "numbered" /\ call'[q] = call[q]
    BY <1>4 DEF Reschedule, Return, GoOn, ThreadsTyped
  <2>3. (timed' = timed /\ queue' = queue) \/ Schedule({call[p].flag}, TRUE)
    BY <1>4 DEF Reschedule
  <2>4. /\ \A t \in queue' \ queue : t.flag = call[p].flag
        /\ \A f \in Flags : f # call[p].flag => timed'[f] = timed[f]
    BY <2>1, <2>3, ScheduledOne
  <2> QED
    BY <2>1, <2>2, <2>4 DEF OnlyReported
<1>5. ASSUME NEW p \in Callers, Flush(p) PROVE OnlyReported'
  <2> DEFINE fs == {f \in Flags : timed[f] # NoTask}
  <2>1. Schedule(fs, TRUE) /\ last' = last /\ hand' = hand
    BY <1>5 DEF Flush
  <2>2. \A q \in Callers : pc'[q] = "numbered" => pc[q] = "numbered" /\ call'[q] = call[q]
    BY <1>5 DEF Flush, Return, GoOn, ThreadsTyped
  <2>3. \A f \in fs : last[f] > 0
    BY DEF OnlyReported
  <2>4. /\ \A t \in queue' \ queue : t.flag \in fs
        /\ \A f \in Flags \ fs : timed'[f] = timed[f]
    BY <2>1, Scheduled
  <2> QED
    BY <2>1, <2>2, <2>3, <2>4 DEF OnlyReported
<1>6. ASSUME Record PROVE OnlyReported'
  <2>1. hand.flag \in Flags /\ last[hand.flag] > 0
    BY <1>0, <1>6 DEF Record, TasksTyped, HasTask, Task, OnlyReported
  <2>2. Schedule({hand.flag}, FALSE) /\ hand' = NoTask /\ UNCHANGED <<last, pc, call>>
    BY <1>6 DEF Record, TaskDone
  <2>3. /\ \A t \in queue' \ queue : t.flag = hand.flag
        /\ \A f \in Flags : f # hand.flag => timed'[f] = timed[f]
    BY <2>1, <2>2, ScheduledOne
  <2> QED
    BY <2>1, <2>2, <2>3 DEF OnlyReported
<1>7. ASSUME NEW p \in Callers,
             (\E f \in Flags, mode \in Modes : CheckIn(p, f, mode)) \/ Stop(p) \/ Joined(p)
      PROVE  OnlyReported'
  <2>1. /\ UNCHANGED <<last, queue, hand, timed>>
        /\ \A q \in Callers : pc'[q] = "numbered" => pc[q] = "numbered" /\ call'[q] = call[q]
    BY <1>7 DEF CheckIn, Stop, Joined, Return, ThreadsTyped
  <2> QED
    BY <2>1 DEF OnlyReported
<1>8. ASSUME Clean PROVE OnlyReported'
  <2>1. /\ UNCHANGED <<last, queue, hand, timed>>
        /\ \A q \in Callers : pc'[q] = "numbered" => pc[q] = "numbered" /\ call'[q] = call[q]
    BY <1>8 DEF Clean, Return, GoOn, ThreadsTyped
  <2> QED
    BY <2>1 DEF OnlyReported
<1>9. ASSUME Sleep \/ Timeout \/ Get \/ (\E due \in BOOLEAN : Inspect(due)) \/ Touch \/ Pop \/ TestStop
      PROVE  OnlyReported'
  <2>1. UNCHANGED <<last, pc, call>> /\ queue' \cup {hand'} \subseteq queue \cup {hand, NoTask}
    BY <1>9 DEF Sleep, Timeout, Get, Inspect, Touch, Pop, TestStop, TaskDone
  <2>2. \A f \in Flags : timed'[f] = timed[f] \/ timed'[f] = NoTask
    BY <1>9 DEF Sleep, Timeout, Get, Inspect, Touch, Pop, TestStop, TasksTyped
  <2> QED
    BY <2>1, <2>2 DEF OnlyReported
<1>10. ASSUME PutBack PROVE OnlyReported'
  <2>1. hand \in Task /\ hand.flag \in Flags /\ last[hand.flag] > 0
    BY <1>0, <1>10 DEF PutBack, TasksTyped, HasTask, Task, OnlyReported
  <2>2. /\ UNCHANGED <<last, pc, call>> /\ queue' = queue \cup {hand} /\ hand' = NoTask
        /\ \A f \in Flags : timed'[f] = timed[f] \/ f = hand.flag
    BY <1>10 DEF PutBack, TasksTyped
  <2> QED
    BY <2>1, <2>2 DEF OnlyReported
<1> QED
  BY <1>1, <1>2, <1>3, <1>4, <1>5, <1>6, <1>7, <1>8, <1>9, <1>10 DEF Next, CallerStep, WriterStep

-----------------------------------------------------------------------------
(* A flag leaves timed_tasks, and its clean-up runs, only once it is on disk. *)
LEMMA PopsWrittenKept ==
  ASSUME SInv, Next
  PROVE  PopsWritten'
<1> USE DEF SInv, apiVars, writerVars
<1>1. ASSUME Touch PROVE PopsWritten'
  <2>1. hand \in Task /\ hand.flag \in Flags
    BY <1>1 DEF Touch, TasksTyped, HasTask, Task
  <2>2. last[hand.flag] > 0
    BY <2>1, NoTaskIsNone DEF OnlyReported
  <2>3. CASE phys[hand.flag] = last[hand.flag]
    BY <1>1, <2>2, <2>3 DEF Touch, PopsWritten
  <2>4. CASE phys[hand.flag] # last[hand.flag]
    <3>1. /\ disk' = [disk EXCEPT ![hand.flag] = @ \cup {last[hand.flag]}]
          /\ seen' = last[hand.flag] /\ hand' = hand /\ wpc' = "cleanup"
      BY <1>1, <2>4 DEF Touch
    <3>2. last[hand.flag] \in disk'[hand.flag]
      BY <2>1, <3>1 DEF DataTyped
    <3> QED
      BY <3>1, <3>2 DEF PopsWritten
  <2> QED
    BY <2>3, <2>4
<1>2. ASSUME Start \/ Crash \/ Sleep \/ Timeout \/ Get \/ (\E due \in BOOLEAN : Inspect(due)) \/ PutBack
             \/ Pop \/ Record \/ Clean \/ TestStop
      PROVE  wpc' \notin {"pop", "cleanup"}
  BY <1>2 DEF Start, Crash, Sleep, Timeout, Get, Inspect, PutBack, Pop, Record, Clean, TestStop, TaskDone
<1>3. ASSUME NEW p \in Callers,
             (\E f \in Flags, mode \in Modes : CheckIn(p, f, mode)) \/ Stop(p) \/ CallerStep(p)
      PROVE  PopsWritten'
  <2>1. UNCHANGED <<disk, phys, hand, seen>>
    BY <1>3, CallersLeave
  <2>2. wpc' \in {"pop", "cleanup"} => wpc' = wpc
    BY <1>3 DEF CheckIn, Stop, CallerStep, Number, Reschedule, Flush, Joined, WakeWriter
  <2> QED
    BY <2>1, <2>2 DEF PopsWritten
<1> QED
  BY <1>1, <1>2, <1>3 DEF Next, WriterStep, PopsWritten

(* The file of a check-in the writer holds for written stays. *)
LEMMA PhysicalKept ==
  ASSUME SInv, Next
  PROVE  PhysicalIsOnDisk'
<1> USE DEF SInv, apiVars, writerVars
<1>0. \A f \in Flags : disk[f] \subseteq Nat /\ phys[f] \in Nat
  BY ReporterAssumption DEF DataTyped, Files, Indices
<1>1. ASSUME Start \/ Crash PROVE PhysicalIsOnDisk'
  <2>1. \A f \in Flags : phys'[f] = 0
    BY <1>1 DEF Start, Crash, Memory
  <2> QED
    BY <2>1 DEF PhysicalIsOnDisk
<1>2. ASSUME Touch PROVE PhysicalIsOnDisk'
  <2>1. phys' = phys /\ \A f \in Flags : disk[f] \subseteq disk'[f]
    BY <1>2 DEF Touch, DataTyped
  <2> QED
    BY <2>1 DEF PhysicalIsOnDisk
<1>3. ASSUME Record PROVE PhysicalIsOnDisk'
  <2>1. hand.flag \in Flags /\ seen \in disk[hand.flag]
    BY <1>3 DEF Record, TasksTyped, HasTask, Task, PopsWritten
  <2>2. Max(disk[hand.flag]) \in disk[hand.flag] /\ seen <= Max(disk[hand.flag])
    BY <2>1, NewestOfFlag
  <2>3. /\ \A f \in Flags : disk'[f] = IF f = hand.flag THEN {Max(disk[f])} ELSE disk[f]
        /\ \A f \in Flags : phys'[f] = IF f = hand.flag THEN seen ELSE phys[f]
    BY <1>3 DEF Record, Kept, DataTyped
  <2> QED
    BY <2>1, <2>2, <2>3 DEF PhysicalIsOnDisk
<1>4. ASSUME NEW p \in Callers,
             (\E f \in Flags, mode \in Modes : CheckIn(p, f, mode)) \/ Stop(p) \/ CallerStep(p)
      PROVE  PhysicalIsOnDisk'
  BY <1>4, CallersLeave DEF PhysicalIsOnDisk
<1>5. ASSUME Sleep \/ Timeout \/ Get \/ (\E due \in BOOLEAN : Inspect(due)) \/ PutBack \/ Pop \/ Clean \/ TestStop
      PROVE  PhysicalIsOnDisk'
  BY <1>5 DEF Sleep, Timeout, Get, Inspect, PutBack, Pop, Clean, TestStop, PhysicalIsOnDisk
<1> QED
  BY <1>1, <1>2, <1>3, <1>4, <1>5 DEF Next, WriterStep

(* Where the tasks are, and that an overwritten one has a successor. *)
LEMMA ReplacedKept ==
  ASSUME SInv, Next
  PROVE  Replaced'
<1> USE DEF SInv, apiVars, writerVars
<1>0. NoTask \notin Task /\ NoTask \notin queue /\ NoTask \notin over
  BY NoTaskIsNone DEF TasksTyped
<1>9. \A t \in over : t.flag \in Flags
  BY DEF TasksTyped, Task
<1>1. ASSUME Start \/ Crash PROVE Replaced'
  <2>1. over' = {} /\ hand' = NoTask
    BY <1>1 DEF Start, Crash
  <2> DEFINE t == [flag |-> Starting, num |-> 1, asap |-> TRUE]
  <2>2. queue' = {} \/ queue' = {t}
    BY <1>1 DEF Start, Crash
  <2>4. t \in Task
    BY ReporterAssumption DEF Task
  <2> HIDE DEF t
  <2>3. IsFiniteSet(queue')
    <3>1. IsFiniteSet({}) /\ IsFiniteSet({t})
      BY FS_EmptySet, FS_Singleton
    <3> QED
      BY <2>2, <3>1
  <2>5. hand' \notin queue'
    BY <1>0, <2>1, <2>2, <2>4
  <2> QED
    BY <2>1, <2>3, <2>5 DEF Replaced
<1>2. ASSUME NEW p \in Callers, NEW stricter \in BOOLEAN, Reschedule(p, stricter) PROVE Replaced'
  <2>0. UNCHANGED <<hand, phys>> /\ call[p].flag \in Flags
    BY <1>2 DEF Reschedule, ThreadsTyped, Calls
  <2>1. CASE NeedsTask(call[p].flag, stricter)
    <3>1. /\ Schedule({call[p].flag}, TRUE)
          /\ over' = over \cup ({timed[call[p].flag]} \cap (queue \cup ({hand} \ {NoTask})))
      BY <1>2, <2>1 DEF Reschedule
    <3>2. /\ \A f \in Flags : f # call[p].flag => timed'[f] = timed[f]
          /\ timed'[call[p].flag] # NoTask
          /\ queue \subseteq queue' /\ IsFiniteSet(queue') /\ hand \notin queue'
      BY <2>0, <3>1, ScheduledOne
    <3>3. over' \subseteq queue' \cup {hand'}
      BY <2>0, <3>1, <3>2 DEF Replaced
    <3>4. ASSUME NEW t \in over' PROVE (timed[t.flag] # NoTask \/ phys[t.flag] > 0)'
      <4>1. CASE t \in over
        BY <1>9, <2>0, <3>2, <4>1 DEF Replaced
      <4>2. CASE t = timed[call[p].flag] /\ t # NoTask
        BY <2>0, <3>2, <4>2 DEF TasksTyped
      <4> QED
        BY <1>0, <3>1, <4>1, <4>2
    <3> QED
      BY <2>0, <3>2, <3>3, <3>4 DEF Replaced
  <2>2. CASE ~NeedsTask(call[p].flag, stricter)
    BY <1>2, <2>0, <2>2 DEF Reschedule, Replaced
  <2> QED
    BY <2>1, <2>2
<1>3. ASSUME NEW p \in Callers, Flush(p) PROVE Replaced'
  <2> DEFINE fs == {f \in Flags : timed[f] # NoTask}
  <2>1. Schedule(fs, TRUE) /\ UNCHANGED <<hand, phys, over>>
    BY <1>3 DEF Flush
  <2>2. /\ \A f \in Flags \ fs : timed'[f] = timed[f]
        /\ \A f \in fs : timed'[f] # NoTask
        /\ queue \subseteq queue' /\ IsFiniteSet(queue') /\ hand \notin queue'
    BY <2>1, Scheduled
  <2>3. \A t \in over : timed'[t.flag] # NoTask \/ phys[t.flag] > 0
    BY <1>9, <2>2 DEF Replaced
  <2> QED
    BY <2>1, <2>2, <2>3 DEF Replaced
<1>4. ASSUME Record PROVE Replaced'
  <2>1. hand.flag \in Flags /\ Schedule({hand.flag}, FALSE) /\ seen > 0
    <3>1. hand.flag \in Flags
      BY <1>4 DEF Record, TasksTyped, HasTask, Task
    <3>2. seen \in disk[hand.flag] /\ disk[hand.flag] \subseteq 1..MaxIdx
      BY <1>4, <3>1 DEF Record, PopsWritten, DataTyped, Files
    <3>3. Schedule({hand.flag}, FALSE)
      BY <1>4 DEF Record
    <3>4. seen > 0
      BY <3>2, ReporterAssumption
    <3> QED
      BY <3>1, <3>3, <3>4
  <2>2. /\ \A f \in Flags : f # hand.flag => timed'[f] = timed[f]
        /\ timed'[hand.flag] # NoTask
        /\ queue \subseteq queue' /\ IsFiniteSet(queue')
        /\ \A t \in queue' \ queue : t.flag = hand.flag
    BY <2>1, ScheduledOne
  <2>3. hand' = NoTask /\ over' = over \ {hand} /\ \A f \in Flags : f # hand.flag => phys'[f] = phys[f]
    BY <1>4 DEF Record, TaskDone, DataTyped
  <2>4. NoTask \notin queue'
    <3>1. queue' \subseteq Task
      BY TasksTypeKept DEF TasksTyped
    <3> QED
      BY <1>0, <3>1
  <2>5. over' \subseteq queue'
    BY <2>2, <2>3 DEF Replaced
  <2>6. \A t \in over' : timed'[t.flag] # NoTask \/ phys'[t.flag] > 0
    BY <1>9, <2>2, <2>3 DEF Replaced
  <2> QED
    BY <2>2, <2>3, <2>4, <2>5, <2>6 DEF Replaced
<1>5. ASSUME Get PROVE Replaced'
  <2>1. UNCHANGED <<timed, phys, over>> /\ hand = NoTask
    BY <1>5 DEF Get, TasksTyped, HasTask
  <2>2. CASE queue' = queue /\ hand' = hand
    BY <2>1, <2>2 DEF Replaced
  <2>3. ASSUME NEW t \in queue, hand' = t, queue' = queue \ {t} PROVE Replaced'
    <3>1. IsFiniteSet(queue')
      BY <2>3, FS_RemoveElement DEF Replaced
    <3>2. over' \subseteq queue' \cup {hand'}
      BY <1>0, <2>1, <2>3 DEF Replaced
    <3> QED
      BY <2>1, <2>3, <3>1, <3>2 DEF Replaced
  <2> QED
    BY <1>5, <2>2, <2>3 DEF Get
<1>6. ASSUME PutBack PROVE Replaced'
  <2>1. hand \in Task /\ hand.flag \in Flags
    BY <1>6 DEF PutBack, TasksTyped, HasTask, Task
  <2>2. /\ queue' = queue \cup {hand} /\ hand' = NoTask /\ UNCHANGED <<phys, over>>
        /\ \A f \in Flags : timed'[f] = IF f = hand.flag THEN hand ELSE timed[f]
    BY <1>6 DEF PutBack, TasksTyped
  <2>3. IsFiniteSet(queue')
    BY <2>2, FS_AddElement DEF Replaced
  <2>4. NoTask \notin queue'
    BY <1>0, <2>1, <2>2
  <2>5. \A t \in over : timed'[t.flag] # NoTask \/ phys[t.flag] > 0
    BY <1>0, <1>9, <2>1, <2>2 DEF Replaced
  <2> QED
    BY <2>2, <2>3, <2>4, <2>5 DEF Replaced
<1>7. ASSUME Pop PROVE Replaced'
  <2>1. hand.flag \in Flags /\ phys[hand.flag] > 0
    BY <1>7 DEF Pop, TasksTyped, HasTask, Task, PopsWritten
  <2>2. /\ UNCHANGED <<queue, phys>> /\ hand' = NoTask /\ over' = over \ {hand}
        /\ \A f \in Flags : timed'[f] = IF f = hand.flag THEN NoTask ELSE timed[f]
    BY <1>7 DEF Pop, TaskDone, TasksTyped
  <2> QED
    BY <1>0, <1>9, <2>1, <2>2 DEF Replaced
<1>8. ASSUME NEW due \in BOOLEAN, Inspect(due) PROVE Replaced'
  BY <1>0, <1>8 DEF Inspect, Replaced
<1>10. ASSUME \/ Sleep \/ Timeout \/ Touch \/ Clean \/ TestStop
              \/ \E p \in Callers : \/ \E f \in Flags, mode \in Modes : CheckIn(p, f, mode)
                                    \/ Stop(p) \/ Number(p) \/ Joined(p)
       PROVE  Replaced'
  <2>1. UNCHANGED <<queue, hand, over, timed, phys>>
    BY <1>10 DEF Sleep, Timeout, Touch, Clean, TestStop, CheckIn, Stop, Number, Joined
  <2> QED
    BY <2>1 DEF Replaced
<1> QED
  BY <1>1, <1>2, <1>3, <1>4, <1>5, <1>6, <1>7, <1>8, <1>10 DEF Next, CallerStep, WriterStep

-----------------------------------------------------------------------------
(* No race of the callers with the writer takes the task of a flag away that *)
(* was reported and not written yet.                                         *)
LEMMA PendingKept ==
  ASSUME SInv, Next
  PROVE  TimedPending' /\ FirstReportPending'
<1> USE DEF SInv, apiVars, writerVars
<1>0. /\ NoTask \notin Task /\ NoTask \notin queue /\ NoTask \notin over
      /\ \A f \in Flags : phys[f] \in Nat /\ last[f] \in Nat
      /\ over \subseteq queue \cup {hand}
      /\ \A t \in over : t.flag \in Flags /\ (timed[t.flag] # NoTask \/ phys[t.flag] > 0)
      /\ \A f \in Flags : timed[f] # NoTask => timed[f].flag = f
  <2>1. NoTask \notin Task /\ NoTask \notin queue /\ NoTask \notin over
    BY NoTaskIsNone DEF TasksTyped
  <2>2. \A f \in Flags : phys[f] \in Nat /\ last[f] \in Nat
    BY ReporterAssumption DEF DataTyped, Indices
  <2>3. over \subseteq queue \cup {hand} /\ \A t \in over : t.flag \in Flags
    BY DEF Replaced, TasksTyped, Task
  <2>4. \A t \in over : timed[t.flag] # NoTask \/ phys[t.flag] > 0
    BY DEF Replaced
  <2>5. \A f \in Flags : timed[f] # NoTask => timed[f].flag = f
    BY DEF TasksTyped
  <2> QED
    BY <2>1, <2>2, <2>3, <2>4, <2>5
<1>1. ASSUME Start PROVE TimedPending' /\ FirstReportPending'
  <2> DEFINE t == [flag |-> Starting, num |-> 1, asap |-> TRUE]
  <2>1. t \in Task /\ t.flag = Starting
    BY ReporterAssumption DEF Task
  <2>2. queue' = {t} /\ over' = {}
    BY <1>1 DEF Start
  <2>3. \A f \in Flags : timed'[f] # NoTask \/ last'[f] > 0 => f = Starting
    BY <1>1 DEF Start, Memory
  <2> HIDE DEF t
  <2>4. Pending(Starting)'
    BY <1>0, <2>1, <2>2 DEF Pending
  <2> QED
    BY <2>3, <2>4 DEF TimedPending, FirstReportPending
<1>2. ASSUME Crash PROVE TimedPending' /\ FirstReportPending'
  <2>1. \A f \in Flags : timed'[f] = NoTask /\ last'[f] = 0
    BY <1>2 DEF Crash, Memory
  <2> QED
    BY <2>1 DEF TimedPending, FirstReportPending
<1>3. ASSUME NEW p \in Callers, Number(p) PROVE TimedPending' /\ FirstReportPending'
  <2>1. call[p].flag \in Flags /\ pc[p] = "checked"
    BY <1>3 DEF Number, ThreadsTyped, Calls
  <2>2. UNCHANGED <<queue, hand, over, timed, phys>>
    BY <1>3 DEF Number
  <2>3. /\ \A f \in Flags : f # call[p].flag => last'[f] = last[f]
        /\ \A q \in Callers : pc'[q] = (IF q = p THEN "numbered" ELSE pc[q]) /\ call'[q].flag = call[q].flag
    BY <1>3 DEF Number, DataTyped, ThreadsTyped, Calls
  <2>4. \A f \in Flags : Pending(f)' <=> Pending(f)
    BY <2>2 DEF Pending
  <2>5. TimedPending'
    BY <2>2, <2>4 DEF TimedPending
  <2>6. Numbering(call[p].flag)'
    BY <2>3 DEF Numbering
  <2>7. \A f \in Flags : Numbering(f) => Numbering(f)'
    BY <2>3 DEF Numbering
  <2>8. FirstReportPending'
    BY <2>2, <2>3, <2>4, <2>6, <2>7 DEF FirstReportPending
  <2> QED
    BY <2>5, <2>8
<1>4. ASSUME NEW p \in Callers, NEW stricter \in BOOLEAN, Reschedule(p, stricter)
      PROVE  TimedPending' /\ FirstReportPending'
  <2>0. PICK g \in Flags : g = call[p].flag
    BY DEF ThreadsTyped, Calls
  <2>1. UNCHANGED <<hand, phys, last>>
    BY <1>4 DEF Reschedule
  <2>2. \A f \in Flags : f # g /\ Numbering(f) => Numbering(f)'
    <3>1. \A q \in Callers : q # p => pc'[q] = pc[q] /\ call'[q] = call[q]
      BY <1>4 DEF Reschedule, Return, GoOn, ThreadsTyped
    <3> QED
      BY <2>0, <3>1 DEF Numbering
  <2>3. CASE NeedsTask(g, stricter)
    <3>1. /\ Schedule({g}, TRUE)
          /\ over' = over \cup ({timed[g]} \cap (queue \cup ({hand} \ {NoTask})))
      BY <1>4, <2>0, <2>3 DEF Reschedule
    <3>2. \A f \in Flags : f # g => timed'[f] = timed[f]
      BY <2>1, <3>1, ScheduledOne
    <3>3. queue \subseteq queue'
      BY <2>1, <3>1, ScheduledOne
    <3>4. PICK t \in queue' : t.flag = g /\ t \notin queue \cup {hand} /\ t # timed[g]
      BY <2>1, <3>1, ScheduledOne
    <3>5. NoTask \notin queue'
      BY <1>0, TasksTypeKept DEF TasksTyped
    <3>6. t \notin over'
      BY <1>0, <3>1, <3>4
    <3>7. Pending(g)'
      BY <3>4, <3>5, <3>6 DEF Pending
    <3>8. ASSUME NEW f \in Flags, f # g, Pending(f) PROVE Pending(f)'
      <4>1. \A u \in over' : u \in over \/ u.flag = g \/ u = NoTask
        BY <1>0, <2>1, <3>1
      <4> QED
        BY <2>1, <3>3, <3>8, <4>1 DEF Pending
    <3>9. TimedPending'
      BY <2>1, <3>2, <3>7, <3>8 DEF TimedPending
    <3>10. FirstReportPending'
      BY <2>1, <2>2, <3>7, <3>8 DEF FirstReportPending
    <3> QED
      BY <3>9, <3>10
  <2>4. CASE ~NeedsTask(g, stricter)
    <3>1. UNCHANGED <<timed, queue, over>> /\ timed[g] # NoTask
      BY <1>4, <2>0, <2>4 DEF Reschedule, NeedsTask
    <3>2. \A f \in Flags : Pending(f)' <=> Pending(f)
      BY <2>1, <3>1 DEF Pending
    <3>3. TimedPending'
      BY <2>1, <3>1, <3>2 DEF TimedPending
    <3>4. FirstReportPending'
      BY <2>1, <2>2, <3>1, <3>2 DEF FirstReportPending, TimedPending
    <3> QED
      BY <3>3, <3>4
  <2> QED
    BY <2>3, <2>4
<1>5. ASSUME NEW p \in Callers, Flush(p) PROVE TimedPending' /\ FirstReportPending'
  <2> DEFINE fs == {f \in Flags : timed[f] # NoTask}
  <2>1. Schedule(fs, TRUE) /\ UNCHANGED <<hand, phys, over, last>>
    BY <1>5 DEF Flush
  <2>2. \A f \in Flags : Numbering(f) => Numbering(f)'
    <3>1. \A q \in Callers : pc[q] = "numbered" => pc'[q] = pc[q] /\ call'[q] = call[q]
      BY <1>5 DEF Flush, Return, GoOn, ThreadsTyped
    <3> QED
      BY <3>1 DEF Numbering
  <2> HIDE DEF fs
  <2>3. fs \subseteq Flags
    BY DEF fs
  <2>4. \A f \in Flags \ fs : timed'[f] = timed[f]
    BY <2>1, <2>3, Scheduled
  <2>5. queue \subseteq queue'
    BY <2>1, <2>3, Scheduled
  <2>6. \A f \in fs : \E t \in queue' : t.flag = f /\ t \notin queue \cup {hand} /\ t # timed[f]
    BY <2>1, <2>3, Scheduled
  <2>7. NoTask \notin queue'
    BY <1>0, TasksTypeKept DEF TasksTyped
  <2>8. \A f \in fs : Pending(f)'
    BY <1>0, <2>1, <2>6, <2>7 DEF Pending
  <2>9. \A f \in Flags : Pending(f) => Pending(f)'
    BY <2>1, <2>5 DEF Pending
  <2>10. TimedPending'
    BY <2>1, <2>4, <2>8, <2>9 DEF TimedPending
  <2>11. FirstReportPending'
    BY <2>1, <2>2, <2>9 DEF FirstReportPending
  <2> QED
    BY <2>10, <2>11
<1>6. ASSUME Get PROVE TimedPending' /\ FirstReportPending'
  <2>1. UNCHANGED <<timed, phys, over, last, pc, call>> /\ hand = NoTask
    BY <1>6 DEF Get, TasksTyped, HasTask
  <2>2. queue' \cup {hand'} \cup {NoTask} = queue \cup {hand} \cup {NoTask}
    BY <1>6, <2>1 DEF Get
  <2>3. \A f \in Flags : (Pending(f)' <=> Pending(f)) /\ (Numbering(f)' <=> Numbering(f))
    BY <2>1, <2>2 DEF Pending, Numbering
  <2> QED
    BY <2>1, <2>3 DEF TimedPending, FirstReportPending
<1>7. ASSUME NEW due \in BOOLEAN, Inspect(due) PROVE TimedPending' /\ FirstReportPending'
  <2>1. UNCHANGED <<timed, phys, queue, last, pc, call>>
    BY <1>7 DEF Inspect
  <2>2. \/ hand' = hand /\ over' = over
        \/ hand \in over /\ hand' = NoTask /\ over' = over \ {hand}
    BY <1>7 DEF Inspect
  <2>3. \A f \in Flags : (Pending(f) => Pending(f)') /\ (Numbering(f)' <=> Numbering(f))
    BY <2>1, <2>2 DEF Pending, Numbering
  <2> QED
    BY <2>1, <2>3 DEF TimedPending, FirstReportPending
<1>8. ASSUME PutBack PROVE TimedPending' /\ FirstReportPending'
  <2>1. hand \in Task /\ hand.flag \in Flags /\ wpc = "putback"
    BY <1>8 DEF PutBack, TasksTyped, HasTask, Task
  <2>2. /\ queue' = queue \cup {hand} /\ hand' = NoTask /\ UNCHANGED <<phys, over, last, pc, call>>
        /\ \A f \in Flags : f # hand.flag => timed'[f] = timed[f]
    BY <1>8 DEF PutBack, TasksTyped
  <2>3. \A f \in Flags : (Pending(f) => Pending(f)') /\ (Numbering(f)' <=> Numbering(f))
    BY <2>2 DEF Pending, Numbering
  <2>0. PICK h \in Flags : h = hand.flag
    BY <2>1
  <2>4. Pending(h)' \/ phys[h] > 0
    <3>1. CASE hand \in over
      <4>1. timed[h] # NoTask \/ phys[h] > 0
        BY <1>0, <2>0, <3>1
      <4> QED
        BY <1>0, <2>3, <4>1 DEF TimedPending
    <3>2. CASE hand \notin over
      BY <1>0, <2>0, <2>1, <2>2, <3>2 DEF Pending
    <3> QED
      BY <3>1, <3>2
  <2> QED
    BY <1>0, <2>0, <2>1, <2>2, <2>3, <2>4 DEF TimedPending, FirstReportPending
<1>9. ASSUME Pop PROVE TimedPending' /\ FirstReportPending'
  <2>1. hand \in Task /\ hand.flag \in Flags /\ phys[hand.flag] > 0
    BY <1>9 DEF Pop, TasksTyped, HasTask, Task, PopsWritten
  <2>2. /\ over' = over \ {hand} /\ hand' = NoTask /\ UNCHANGED <<phys, queue, last, pc, call>>
        /\ \A f \in Flags : f # hand.flag => timed'[f] = timed[f]
    BY <1>9 DEF Pop, TaskDone, TasksTyped
  <2>3. \A f \in Flags : (f # hand.flag /\ Pending(f) => Pending(f)') /\ (Numbering(f)' <=> Numbering(f))
    BY <2>2 DEF Pending, Numbering
  <2> QED
    BY <1>0, <2>1, <2>2, <2>3 DEF TimedPending, FirstReportPending
<1>10. ASSUME Record PROVE TimedPending' /\ FirstReportPending'
  <2>1. hand \in Task /\ hand.flag \in Flags
    BY <1>10 DEF Record, TasksTyped, HasTask, Task
  <2>2. seen > 0
    <3>1. seen \in disk[hand.flag] /\ disk[hand.flag] \subseteq 1..MaxIdx
      BY <1>10, <2>1 DEF Record, PopsWritten, DataTyped, Files
    <3> QED
      BY <3>1, ReporterAssumption
  <2>3. /\ over' = over \ {hand} /\ hand' = NoTask /\ UNCHANGED <<last, pc, call>>
        /\ \A f \in Flags : phys'[f] = IF f = hand.flag THEN seen ELSE phys[f]
    BY <1>10 DEF Record, TaskDone, DataTyped
  <2>4. Schedule({hand.flag}, FALSE)
    BY <1>10 DEF Record
  <2>5. queue \subseteq queue' /\ \A f \in Flags : f # hand.flag => timed'[f] = timed[f]
    BY <2>1, <2>4, ScheduledOne
  <2>6. \A f \in Flags : (f # hand.flag /\ Pending(f) => Pending(f)') /\ (Numbering(f)' <=> Numbering(f))
    BY <2>3, <2>5 DEF Pending, Numbering
  <2>7. phys'[hand.flag] # 0
    BY <2>1, <2>2, <2>3
  <2>8. TimedPending'
    BY <2>3, <2>5, <2>6, <2>7 DEF TimedPending
  <2>9. FirstReportPending'
    BY <2>3, <2>6, <2>7 DEF FirstReportPending
  <2> QED
    BY <2>8, <2>9
<1>11. ASSUME \/ Sleep \/ Timeout \/ Touch \/ TestStop \/ Clean
              \/ \E p \in Callers : \/ \E f \in Flags, mode \in Modes : CheckIn(p, f, mode)
                                    \/ Stop(p) \/ Joined(p)
       PROVE  TimedPending' /\ FirstReportPending'
  <2>1. UNCHANGED <<timed, phys, queue, over, hand, last>>
    BY <1>11 DEF Sleep, Timeout, Touch, TestStop, Clean, CheckIn, Stop, Joined
  <2>2. \A q \in Callers : pc[q] = "numbered" => pc'[q] = pc[q] /\ call'[q] = call[q]
    <3>1. ASSUME NEW p \in Callers, NEW f \in Flags, NEW mode \in Modes, CheckIn(p, f, mode) \/ Stop(p) \/ Joined(p)
          PROVE  \A q \in Callers : pc[q] = "numbered" => pc'[q] = pc[q] /\ call'[q] = call[q]
      BY <3>1 DEF CheckIn, Stop, Joined, Return, ThreadsTyped
    <3>2. ASSUME Clean
          PROVE  \A q \in Callers : pc[q] = "numbered" => pc'[q] = pc[q] /\ call'[q] = call[q]
      BY <3>2 DEF Clean, Return, GoOn, ThreadsTyped
    <3>3. ASSUME NEW p \in Callers, Stop(p) \/ Joined(p)
          PROVE  \A q \in Callers : pc[q] = "numbered" => pc'[q] = pc[q] /\ call'[q] = call[q]
      BY <3>3 DEF Stop, Joined, Return, ThreadsTyped
    <3>4. ASSUME Sleep \/ Timeout \/ Touch \/ TestStop PROVE UNCHANGED <<pc, call>>
      BY <3>4 DEF Sleep, Timeout, Touch, TestStop
    <3> QED
      BY <1>11, <3>1, <3>2, <3>3, <3>4
  <2>3. \A f \in Flags : (Pending(f)' <=> Pending(f)) /\ (Numbering(f) => Numbering(f)')
    BY <2>1, <2>2 DEF Pending, Numbering
  <2> QED
    BY <2>1, <2>3 DEF TimedPending, FirstReportPending
<1> QED
  BY <1>1, <1>2, <1>3, <1>4, <1>5, <1>6, <1>7, <1>8, <1>9, <1>10, <1>11 DEF Next, CallerStep, WriterStep

-----------------------------------------------------------------------------
(* The invariant is inductive. *)
LEMMA SInductive ==
  ASSUME SInv, [Next]_vars
  PROVE  SInv'
<1>1. ASSUME Next PROVE SInv'
  <2>1. DataTyped' /\ TasksTyped' /\ ThreadsTyped' /\ SwitchesTyped'
    BY <1>1, DataTypeKept, TasksTypeKept, ThreadsTypeKept, SwitchesTypeKept
  <2>2. NobodyRuns' /\ Numbers' /\ OnlyReported' /\ PopsWritten'
    BY <1>1, NobodyKept, NumbersKept, OnlyReportedKept, PopsWrittenKept
  <2>3. Replaced' /\ TimedPending' /\ FirstReportPending' /\ PhysicalIsOnDisk'
    BY <1>1, ReplacedKept, PendingKept, PhysicalKept
  <2> QED
    BY <2>1, <2>2, <2>3 DEF SInv
<1>2. ASSUME UNCHANGED vars PROVE SInv'
  <2> USE <1>2 DEF vars, apiVars, writerVars
  <2>1. (DataTyped' <=> DataTyped) /\ (SwitchesTyped' <=> SwitchesTyped) /\ (ThreadsTyped' <=> ThreadsTyped)
    BY DEF DataTyped, SwitchesTyped, ThreadsTyped
  <2>2. TasksTyped' <=> TasksTyped
    BY DEF TasksTyped
  <2>3. (NobodyRuns' <=> NobodyRuns) /\ (PopsWritten' <=> PopsWritten)
    BY DEF NobodyRuns, PopsWritten
  <2>4. Numbers' <=> Numbers
    BY DEF Numbers, Apart, Counted
  <2>5. OnlyReported' <=> OnlyReported
    BY DEF OnlyReported
  <2>6. Replaced' <=> Replaced
    BY DEF Replaced
  <2>7. \A f \in Flags : (Pending(f)' <=> Pending(f)) /\ (Numbering(f)' <=> Numbering(f))
    BY DEF Pending, Numbering
  <2>8. (TimedPending' <=> TimedPending) /\ (FirstReportPending' <=> FirstReportPending)
    BY <2>7 DEF TimedPending, FirstReportPending
  <2>9. PhysicalIsOnDisk' <=> PhysicalIsOnDisk
    BY DEF PhysicalIsOnDisk
  <2> QED
    BY <2>1, <2>2, <2>3, <2>4, <2>5, <2>6, <2>8, <2>9 DEF SInv
<1> QED
  BY <1>1, <1>2

(* It holds before the run is ever opened. *)
LEMMA SInit == Init => SInv
<1> SUFFICES ASSUME Init PROVE SInv
  OBVIOUS
<1>0. MaxIdx \in Nat /\ MaxStarts \in Nat /\ Starting \in Flags
  BY ReporterAssumption
<1>1. DataTyped
  BY <1>0 DEF Init, Memory, DataTyped, Files, Indices
<1>2. TasksTyped
  BY DEF Init, Memory, TasksTyped, HasTask
<1>3. ThreadsTyped
  <2>1. NoCall \in Calls
    BY <1>0 DEF NoCall, Calls, Indices
  <2> QED
    BY <2>1 DEF Init, Memory, ThreadsTyped, Labels
<1>4. SwitchesTyped
  BY DEF Init, SwitchesTyped
<1>5. NobodyRuns /\ OnlyReported /\ PopsWritten
  BY DEF Init, NobodyRuns, Memory, OnlyReported, PopsWritten
<1>6. Numbers
  BY DEF Init, Memory, Numbers, Apart
<1>7. Replaced
  BY FS_EmptySet, NoTaskIsNone DEF Init, Replaced
<1>8. TimedPending /\ FirstReportPending /\ PhysicalIsOnDisk
  BY DEF Init, Memory, TimedPending, FirstReportPending, PhysicalIsOnDisk
<1> QED
  BY <1>1, <1>2, <1>3, <1>4, <1>5, <1>6, <1>7, <1>8 DEF SInv

(* It holds throughout. *)
LEMMA SAlways == Spec => []SInv
<1> QED
  BY SInit, SInductive, PTL DEF Spec

(* The files, the four dictionaries and the queue agree in every            *)
(* interleaving: no index is used for two check-ins, the check-ins the      *)
(* writer holds for written are on disk, and a flag that was reported and   *)
(* not written yet is being scheduled or has a task the writer looks at.    *)
THEOREM ReporterSound == Spec => []CheckInsAgree
<1>1. SInv => CheckInsAgree
  <2> SUFFICES ASSUME SInv PROVE CheckInsAgree
    OBVIOUS
  <2>1. TypeOK
    BY TypesTogether DEF SInv
  <2>2. IndicesUnique
    BY DEF SInv, Numbers, Apart, Counted, IndicesUnique
  <2> QED
    BY <2>1, <2>2 DEF SInv, CheckInsAgree
<1> QED
  BY <1>1, SAlways, PTL

(* What a monitor sees of a flag never goes back: Touch adds a file above   *)
(* or below the newest, and _cleanup keeps the newest.                      *)
THEOREM NeverBack == Spec => NewestKept
<1> DEFINE Kept1 == \A f \in Flags : Max({0} \cup disk[f]) <= Max({0} \cup disk'[f])
<1>1. ASSUME SInv, SInv', [Next]_vars PROVE Kept1
  <2> SUFFICES ASSUME NEW f \in Flags PROVE Max({0} \cup disk[f]) <= Max({0} \cup disk'[f])
    OBVIOUS
  <2> DEFINE S == {0} \cup disk[f]
             T == {0} \cup disk'[f]
  <2>1. MaxIdx \in Nat /\ disk[f] \subseteq 1..MaxIdx /\ disk'[f] \subseteq 1..MaxIdx
    BY <1>1, ReporterAssumption DEF SInv, DataTyped, Files
  <2>2. S \subseteq Nat /\ T \subseteq Nat /\ S # {} /\ T # {} /\ \A s \in S \cup T : s <= MaxIdx
    BY <2>1
  <2>3. \A s \in S : \E t \in T : s <= t
    <3>1. CASE Record
      <4>1. hand \in Task /\ seen \in disk[hand.flag]
        BY <1>1, <3>1 DEF SInv, Record, TasksTyped, HasTask, PopsWritten
      <4>2. CASE f = hand.flag
        <5>1. disk'[f] = {Max(disk[f])}
          BY <1>1, <3>1, <4>2 DEF Record, Kept, SInv, DataTyped
        <5>2. Max(disk[f]) \in disk[f] /\ \A i \in disk[f] : i <= Max(disk[f])
          BY <1>1, <4>1, <4>2, NewestOfFlag DEF SInv
        <5>3. Max(disk[f]) \in T /\ Max(disk[f]) \in Nat
          BY <2>1, <5>1, <5>2
        <5> QED
          BY <5>2, <5>3
      <4>3. CASE f # hand.flag
        <5>1. disk'[f] = disk[f]
          BY <1>1, <3>1, <4>3 DEF Record, SInv, DataTyped
        <5> QED
          BY <2>2, <5>1
      <4> QED
        BY <4>2, <4>3
    <3>2. CASE ~Record
      <4>1. disk[f] \subseteq disk'[f]
        <5>1. CASE Touch
          BY <1>1, <5>1 DEF Touch, SInv, DataTyped
        <5>2. CASE UNCHANGED vars
          BY <5>2 DEF vars, writerVars
        <5>3. ASSUME NEW p \in Callers,
                     (\E g \in Flags, mode \in Modes : CheckIn(p, g, mode)) \/ Stop(p) \/ CallerStep(p)
              PROVE  disk' = disk
          BY <5>3, CallersLeave
        <5>4. ASSUME Start \/ Crash \/ Sleep \/ Timeout \/ Get \/ (\E due \in BOOLEAN : Inspect(due))
                     \/ PutBack \/ Pop \/ Clean \/ TestStop
              PROVE  disk' = disk
          BY <5>4 DEF Start, Crash, Sleep, Timeout, Get, Inspect, PutBack, Pop, Clean, TestStop, writerVars
        <5> QED
          BY <1>1, <3>2, <5>1, <5>2, <5>3, <5>4 DEF Next, WriterStep
      <4> QED
        BY <2>2, <4>1
    <3> QED
      BY <3>1, <3>2
  <2> HIDE DEF S, T
  <2>4. Max(S) \in S
    BY <2>1, <2>2, Newest
  <2>5. Max(T) \in T /\ \A t \in T : t <= Max(T)
    BY <2>1, <2>2, Newest
  <2>6. PICK t \in T : Max(S) <= t
    BY <2>3, <2>4
  <2>7. Max(S) <= Max(T)
    <3>1. Max(S) \in Nat /\ Max(T) \in Nat /\ t \in Nat
      BY <2>2, <2>4, <2>5
    <3>2. Max(S) <= t /\ t <= Max(T)
      BY <2>5, <2>6
    <3> QED
      BY <3>1, <3>2
  <2> QED
    BY <2>7 DEF S, T
<1>2. SInv /\ SInv' /\ [Next]_vars => [Kept1]_vars
  BY <1>1
<1> QED
  BY <1>2, SAlways, PTL DEF Spec, NewestKept
=============================================================================
