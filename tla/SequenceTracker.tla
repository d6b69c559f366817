-------------------------- MODULE SequenceTracker --------------------------
(***************************************************************************)
(* run.track in a local repository (aim/sdk/tracker.py): each value goes   *)
(* to its sequence, under the step the caller gives or the next one, and   *)
(* an overview of the sequence is kept in the run's meta tree: first and   *)
(* last step, last value, type, extremes.                                  *)
(*                                                                         *)
(* Nothing makes the writes of one call atomic, so the process may die     *)
(* after any of them; opening the run again loads what the meta tree has.  *)
(* A step is a group of writes of one tree.  One thread tracks, in one     *)
(* context; epochs, times and the registration of types are left out, and  *)
(* the hashes of distinct steps are distinct.                              *)
(***************************************************************************)
EXTENDS Integers, Sequences

CONSTANTS
  Names,       \* sequence names
  Values,      \* what is tracked, see ValueType
  Steps,       \* the steps a caller may give
  MaxValues,   \* bound: values tracked
  MaxReopens   \* bound: times the run is closed, or dies, and is opened again

(* float('inf'); and what stands for a missing step, type, version, value. *)
(* A missing extreme is the infinity it is loaded as.                      *)
Inf == 1000
NoStep == -1
NoType == "none"
NoVersion == 0
NoValue == [type |-> NoType, num |-> 0]

Types == {"int", "float", "list", "list(int)", "list(float)"}
ValueType == [type : Types, num : (-Inf)..Inf]

ASSUME TrackerAssumption ==
  /\ Values \subseteq ValueType
  /\ Steps \subseteq Nat
  /\ {MaxValues, MaxReopens} \subseteq Nat

VARIABLES
  meta,     \* the overview of each sequence in the run's meta tree
  series,   \* the values of each sequence by step
  info,     \* sequence_infos
  todo,     \* what is left of the dictionary of values of the call
  step,     \* the variable `step` of _track
  source,   \* history: where the step of the value is from, see Track
  at,       \* where the call is
  tracked, reopens

stVars == <<meta, series, info, todo, step, source, at, tracked, reopens>>

NoMeta == [dtype |-> NoType, version |-> NoVersion, firstStep |-> NoStep, lastStep |-> NoStep,
           last |-> NoValue, min |-> Inf, max |-> -Inf]
NoInfo == [initialized |-> FALSE, count |-> 0, dtype |-> NoType, version |-> 1, min |-> Inf, max |-> -Inf]

STInit ==
  /\ meta = [n \in Names |-> NoMeta]
  /\ series = [n \in Names |-> << >>]
  /\ info = [n \in Names |-> NoInfo]
  /\ todo = <<>> /\ step = NoStep /\ source = "given"
  /\ at = "idle" /\ tracked = 0 /\ reopens = 0

-----------------------------------------------------------------------------
(* check_types_compatibility: may a value of type d go into a sequence of  *)
(* type base, and what does the sequence become?                           *)
ListOf == {"list(int)", "list(float)"}

Compatible(d, base) ==
  \/ d = base
  \/ d \in {"int", "float"} /\ base \in {"int", "float", "number"}
  \/ base = "list" /\ d \in ListOf
  \/ d = "list" /\ base \in ListOf

Updated(d, base) ==
  IF {d, base} = {"int", "float"} THEN "number" ELSE IF base = "list" THEN d ELSE base

-----------------------------------------------------------------------------
N == Head(todo).name
V == Head(todo).value

(* _track: the values of the call in the order of the dictionary.  A step  *)
(* is given, or counted for the first value and then inherited.            *)
Track(values, s) ==
  /\ at = "idle"
  /\ tracked + Len(values) <= MaxValues
  /\ tracked' = tracked + Len(values)
  /\ todo' = values
  /\ step' = s
  /\ source' = IF s = NoStep THEN "counted" ELSE "given"
  /\ at' = "begin"
  /\ UNCHANGED <<meta, series, info, reopens>>

(* The ValueError leaves _track, with the values before this one tracked. *)
Raise == at' = "idle" /\ step' = NoStep /\ todo' = <<>>

(* _init_sequence_info when the sequence is new, the step when none was    *)
(* given, for this value and the ones after it, and the type.              *)
BeginValue ==
  LET old == info[N]
      new == IF old.initialized THEN old
             ELSE [NoInfo EXCEPT !.initialized = TRUE, !.version = IF V.type \in {"int", "float"} THEN 2 ELSE 1]
      fits == new.dtype = NoType \/ Compatible(V.type, new.dtype)
      type == IF new.dtype = NoType THEN NoType ELSE Updated(V.type, new.dtype)
  IN  /\ at = "begin"
      /\ IF fits
         THEN /\ step' = IF step = NoStep THEN new.count ELSE step
              /\ info' = [info EXCEPT ![N] = [new EXCEPT !.dtype = type]]
              /\ meta' = IF type = new.dtype THEN meta ELSE [meta EXCEPT ![N].dtype = type]
              /\ at' = (IF new.count = 0 THEN "type" ELSE "last")
              /\ UNCHANGED todo
         ELSE Raise /\ info' = [info EXCEPT ![N] = new] /\ UNCHANGED meta
      /\ UNCHANGED <<series, source, tracked, reopens>>

(* The first value of a sequence: its type, then the rest. *)
WriteType ==
  /\ at = "type"
  /\ meta' = [meta EXCEPT ![N].dtype = V.type]
  /\ at' = "first"
  /\ UNCHANGED <<series, info, todo, step, source, tracked, reopens>>

WriteFirst ==
  /\ at = "first"
  /\ meta' = [meta EXCEPT ![N].version = info[N].version, ![N].firstStep = step]
  /\ info' = [info EXCEPT ![N].dtype = V.type]
  /\ at' = "last"
  /\ UNCHANGED <<series, todo, step, source, tracked, reopens>>

Advances_Strictly == step > info[N].count

Advances == step >= info[N].count

WriteLast ==
  /\ at = "last"
  /\ IF Advances
     THEN /\ meta' = [meta EXCEPT ![N].last = V, ![N].lastStep = step]
          /\ info' = [info EXCEPT ![N].count = step + 1]
     ELSE UNCHANGED <<meta, info>>
  /\ at' = "range"
  /\ UNCHANGED <<series, todo, step, source, tracked, reopens>>

(* The extremes, of a sequence of numbers only. *)
WriteRange ==
  LET high == info[N].version = 2 /\ V.num > info[N].max
      low == info[N].version = 2 /\ V.num < info[N].min
  IN  /\ at = "range"
      /\ meta' = [meta EXCEPT ![N].max = IF high THEN V.num ELSE @, ![N].min = IF low THEN V.num ELSE @]
      /\ info' = [info EXCEPT ![N].max = IF high THEN V.num ELSE @, ![N].min = IF low THEN V.num ELSE @]
      /\ at' = "add"
      /\ UNCHANGED <<series, todo, step, source, tracked, reopens>>

(* _add_value, and on to the next value: `step` is no longer None. *)
AddValue ==
  /\ at = "add"
  /\ series' = [series EXCEPT ![N] = [s \in DOMAIN @ \cup {step} |-> IF s = step THEN V ELSE @[s]]]
  /\ todo' = Tail(todo)
  /\ source' = IF source = "counted" /\ Len(todo) > 1 THEN "inherited" ELSE source
  /\ IF Len(todo) > 1 THEN at' = "begin" /\ UNCHANGED step ELSE at' = "idle" /\ step' = NoStep
  /\ UNCHANGED <<meta, info, tracked, reopens>>

-----------------------------------------------------------------------------
LoadedCount_LastStep(m) == m.lastStep

LoadedCount(m) == m.lastStep + 1

LoadedRange(m) == [min |-> m.min, max |-> m.max]

(* _load_sequence_info: a sequence without a last step stays uninitialized, *)
(* one without a version becomes one of version 1.                          *)
Loaded(m) ==
  IF m.lastStep = NoStep THEN NoInfo
  ELSE [initialized |-> TRUE, count |-> LoadedCount(m), dtype |-> m.dtype, version |-> m.version,
        min |-> LoadedRange(m).min, max |-> LoadedRange(m).max]

(* The run is closed between two calls, or the process dies within one,    *)
(* and the run is opened again.                                            *)
Reopen ==
  /\ reopens < MaxReopens
  /\ reopens' = reopens + 1
  /\ info' = [n \in Names |-> Loaded(meta[n])]
  /\ meta' = [n \in Names |-> IF meta[n] # NoMeta /\ meta[n].version = NoVersion
                              THEN [meta[n] EXCEPT !.version = 1] ELSE meta[n]]
  /\ todo' = <<>> /\ step' = NoStep /\ source' = "given" /\ at' = "idle"
  /\ UNCHANGED <<series, tracked>>

-----------------------------------------------------------------------------
Call(n, v) == [name |-> n, value |-> v]

STNext ==
  \/ \E n \in Names, v \in Values, s \in Steps \cup {NoStep} : Track(<<Call(n, v)>>, s)
  \/ \E n, m \in Names, v, w \in Values, s \in Steps \cup {NoStep} :
                    n # m /\ Track(<<Call(n, v), Call(m, w)>>, s)
  \/ BeginValue
  \/ WriteType
  \/ WriteFirst
  \/ WriteLast
  \/ WriteRange
  \/ AddValue
  \/ Reopen

STSpec == STInit /\ [][STNext]_stVars

-----------------------------------------------------------------------------
STTypeOK ==
  /\ \A n \in Names :
       /\ meta[n].dtype \in Types \cup {"number", NoType}
       /\ meta[n].version \in {1, 2, NoVersion}
       /\ {meta[n].firstStep, meta[n].lastStep} \subseteq Nat \cup {NoStep}
       /\ meta[n].last \in Values \cup {NoValue}
       /\ {meta[n].min, meta[n].max} \subseteq (-Inf)..Inf
       /\ DOMAIN series[n] \subseteq Nat /\ \A s \in DOMAIN series[n] : series[n][s] \in Values
       /\ info[n].dtype \in Types \cup {"number", NoType} /\ info[n].version \in {1, 2}
       /\ info[n].count \in Nat /\ {info[n].min, info[n].max} \subseteq (-Inf)..Inf
  /\ source \in {"given", "counted", "inherited"}
  /\ at \in {"idle", "begin", "type", "first", "last", "range", "add"}
  /\ IF at = "idle" THEN todo = <<>> /\ step = NoStep ELSE todo # <<>> /\ step \in Nat \cup {NoStep}

(* The value that AddValue adds to the sequence n goes behind the others.  *)
Appends(n) == \A s \in DOMAIN series[n] : s < step

(* A step that was counted for a value goes behind every step of its       *)
(* sequence, also after the run died in the middle of a call and was       *)
(* opened again: no value is overwritten unasked.                          *)
CountedStepAppends ==
  [][\A n \in Names : source = "counted" /\ series'[n] # series[n] => Appends(n)]_stVars

(* "Auto-incremented if not specified", "Appends the tracked value to the  *)
(* sequence": so does every value for which the caller gives no step, in a *)
(* dictionary too.                                                         *)
AutoStepAppends ==
  [][\A n \in Names : source # "given" /\ series'[n] # series[n] => Appends(n)]_stVars

(* The last step of the overview is not before any step of the sequence:   *)
(* it is from there that an opened run goes on, and that readers look up   *)
(* the end of the sequence.                                                *)
LastStepCovers ==
  \A n \in Names : \A s \in DOMAIN series[n] : s <= meta[n].lastStep

(* Every number of a sequence is between the extremes of its overview.     *)
RangeCovers ==
  \A n \in Names : \A s \in DOMAIN series[n] :
    meta[n].version = 2 => meta[n].min <= series[n][s].num /\ series[n][s].num <= meta[n].max

(* "A sequence is a homogeneous collection": its values have the type that *)
(* the overview says, across type changes, exceptions and deaths.          *)
Homogeneous ==
  \A n \in Names : \A s \in DOMAIN series[n] :
    LET d == series[n][s].type
    IN  \/ d = meta[n].dtype
        \/ d \in {"int", "float"} /\ meta[n].dtype = "number"
        \/ d = "list" /\ meta[n].dtype \in ListOf

(* The overview of a sequence tells of its values what they are, although  *)
(* each of its fields is written by itself.                                *)
OverviewHolds == STTypeOK /\ LastStepCovers /\ RangeCovers /\ Homogeneous
=============================================================================
