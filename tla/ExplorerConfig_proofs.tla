------------------------ MODULE ExplorerConfig_proofs ------------------------
(***************************************************************************)
(* Lemmas about the configuration of an explorer page, which the theorems  *)
(* about the metrics, params, scatters and images explorers rest on.       *)
(*                                                                         *)
(* A request holds the model's own config object or another one, and knows *)
(* which (HeldSound).  There is always a number for an object the model    *)
(* drops (NumberLeft), as every number stands for an object that two       *)
(* requests share, or one of them has.                                     *)
(*                                                                         *)
(* The handlers of the controls are more than thirty, but they are alike   *)
(* in what matters (HandlerStep): which of the five places follow the      *)
(* configuration.  One lemma per kind of handler says so.                  *)
(***************************************************************************)
EXTENDS ExplorerConfig, FiniteSetTheorems, TLAPS

-----------------------------------------------------------------------------
(* The objects requests hold. *)

N == Cardinality(Holders)
HeldTyped == held \in [Holders -> Held \cup {None}]

(* There is a number left for an object that is dropped, if some request     *)
(* holds the model's object, or two of them share one.                       *)
LEMMA NumberLeft ==
  ASSUME HeldTyped, NEW l \in Levels, NEW h \in Waiting,
         held[h].same[l] = 0 \/ \E o \in Waiting \ {h} : held[o].same[l] = held[h].same[l]
  PROVE  Dropped(l) \in 1..N /\ \A k \in Waiting : held[k].same[l] # Dropped(l)
<1> DEFINE Others == Holders \ {h}
           f == [k \in Others |-> held[k].same[l]]
           free(n) == \A k \in Waiting : held[k].same[l] # n
<1>1. IsFiniteSet(Holders) /\ h \in Holders /\ N \in Nat
  BY ConfigConstants, FS_CardinalityType DEF N, Waiting
<1>2. IsFiniteSet(Others) /\ Cardinality(Others) = N - 1
  BY <1>1, FS_RemoveElement DEF N
<1>3. ASSUME \A n \in 1..N : ~free(n) PROVE FALSE
  <2>1. ASSUME NEW n \in 1..N PROVE \E k \in Others : f[k] = n
    <3>1. PICK k \in Waiting : held[k].same[l] = n
      BY <1>3
    <3>2. k \in Holders
      BY DEF Waiting
    <3>3. CASE k # h
      BY <3>1, <3>2, <3>3
    <3>4. CASE k = h
      <4>1. n # 0
        BY <1>1
      <4>2. PICK o \in Waiting \ {h} : held[o].same[l] = held[h].same[l]
        BY <3>1, <3>4, <4>1
      <4>3. o \in Others
        BY DEF Waiting
      <4> QED
        BY <3>1, <3>4, <4>2, <4>3
    <3> QED
      BY <3>3, <3>4
  <2>2. PICK S : S = {f[k] : k \in Others}
    OBVIOUS
  <2>3. IsFiniteSet(S) /\ Cardinality(S) <= N - 1
    <3>1. f \in Surjection(Others, S)
      BY <2>2 DEF Surjection
    <3>2. IsFiniteSet(S) /\ Cardinality(S) <= Cardinality(Others)
      <4> HIDE DEF f, Others
      <4> QED
        BY <1>2, <3>1, FS_Surjection
    <3> QED
      BY <1>2, <3>2
  <2>4. 1..N \subseteq S
    BY <2>1, <2>2
  <2>5. IsFiniteSet(1..N) /\ Cardinality(1..N) = N
    <3>1. PICK n \in Nat : n = N
      BY <1>1
    <3>2. IsFiniteSet(1..n) /\ Cardinality(1..n) = n
      BY FS_Interval
    <3> QED
      BY <3>1, <3>2
  <2>6. Cardinality(1..N) <= Cardinality(S)
    BY <2>3, <2>4, FS_Subset
  <2>7. Cardinality(S) \in Nat
    BY <2>3, FS_CardinalityType
  <2> QED
    BY <1>1, <2>3, <2>5, <2>6, <2>7
<1>4. Dropped(l) \in 1..N /\ free(Dropped(l))
  BY <1>3 DEF Dropped, N
<1> QED
  BY <1>4

(* The fields of what a request holds. *)
LEMMA HeldFields ==
  ASSUME NEW hd \in Held
  PROVE  /\ hd.cfg \in Configs /\ hd.same \in [Levels -> 0..N]
         /\ hd = [cfg |-> hd.cfg, same |-> hd.same]
BY DEF Held, N

(* The fields of a configuration. *)
LEMMA ConfigFields ==
  ASSUME NEW c \in Configs
  PROVE  /\ c.select \in Selects /\ c.grouping \in Groupings /\ c.chart \in Charts
         /\ c.table \in Tables /\ c.live \in BOOLEAN
BY DEF Configs

(* The fields of a chart. *)
LEMMA ChartFields ==
  ASSUME NEW c \in Charts
  PROVE  /\ c.agg \in [enabled : BOOLEAN, applied : BOOLEAN]
         /\ c.align \in Alignment
         /\ c.density \in Looks /\ c.look \in Looks /\ c.deco \in Looks
         /\ c.zoomed \in BOOLEAN /\ c.extent \in BOOLEAN /\ c.stacking \in BOOLEAN
<1>1. c.agg \in [enabled : BOOLEAN, applied : BOOLEAN] /\ c.align \in Alignment
  BY DEF Charts
<1>2. c.density \in Looks /\ c.look \in Looks /\ c.deco \in Looks
  BY DEF Charts
<1>3. c.zoomed \in BOOLEAN /\ c.extent \in BOOLEAN /\ c.stacking \in BOOLEAN
  BY DEF Charts
<1> QED
  BY <1>1, <1>2, <1>3

(* A request goes on with the objects it holds, and with the model's own     *)
(* config it has the new one.                                                *)
LEMMA Followed ==
  ASSUME NEW hd \in Held, NEW new \in Configs, NEW replaced,
         \A l \in Levels : hd.same[l] = 0 => Dropped(l) \in 1..N
  PROVE  /\ Follow(hd, new, replaced) \in Held
         /\ Follow(hd, new, replaced).same["config"] = 0 => Follow(hd, new, replaced).cfg = new
<1> DEFINE same == [l \in Levels |-> IF hd.same[l] = 0 /\ l \in replaced THEN Dropped(l) ELSE hd.same[l]]
           chart == IF same["chart"] = 0 THEN new.chart
                    ELSE IF same["agg"] = 0 THEN [hd.cfg.chart EXCEPT !.agg = new.chart.agg]
                    ELSE hd.cfg.chart
           cfg == [hd.cfg EXCEPT !.select = IF same["select"] = 0 THEN new.select ELSE @,
                                 !.grouping = IF same["grouping"] = 0 THEN new.grouping ELSE @,
                                 !.chart = IF same["chart"] = 0 THEN new.chart
                                           ELSE IF same["agg"] = 0 THEN [@ EXCEPT !.agg = new.chart.agg]
                                           ELSE @]
<1>1. hd.cfg \in Configs /\ hd.same \in [Levels -> 0..N] /\ hd = [cfg |-> hd.cfg, same |-> hd.same] /\ "config" \in Levels
  BY HeldFields DEF Levels
<1>2. CASE hd.same["config"] = 0 /\ "config" \notin replaced
  <2>1. Follow(hd, new, replaced) = [hd EXCEPT !.cfg = new]
    BY <1>2 DEF Follow
  <2>2. [hd EXCEPT !.cfg = new] = [cfg |-> new, same |-> hd.same]
    BY <1>1
  <2>3. [cfg |-> new, same |-> hd.same] \in Held
    BY <1>1 DEF Held, N
  <2> QED
    BY <2>1, <2>2, <2>3
<1>3. CASE ~(hd.same["config"] = 0 /\ "config" \notin replaced)
  <2>1. Follow(hd, new, replaced) = [same |-> same, cfg |-> cfg]
    BY <1>3 DEF Follow
  <2>2. same \in [Levels -> 0..N]
    <3>1. \A n \in 1..N : n \in 0..N
      <4>1. N \in Nat
        BY ConfigConstants, FS_CardinalityType DEF N
      <4> QED
        BY <4>1
    <3> QED
      BY <1>1, <3>1
  <2>3. cfg \in Configs
    <3>1. cfg = [hd.cfg EXCEPT !.select = IF same["select"] = 0 THEN new.select ELSE hd.cfg.select,
                               !.grouping = IF same["grouping"] = 0 THEN new.grouping ELSE hd.cfg.grouping,
                               !.chart = chart]
      BY <1>1 DEF Configs
    <3> HIDE DEF cfg, same
    <3>2. chart \in Charts
      <4>1. new.chart \in Charts /\ hd.cfg.chart \in Charts
        BY <1>1, ConfigFields
      <4>2. [hd.cfg.chart EXCEPT !.agg = new.chart.agg] \in Charts
        BY <4>1 DEF Charts
      <4> QED
        BY <4>1, <4>2
    <3> HIDE DEF chart
    <3> QED
      BY <1>1, <3>1, <3>2 DEF Configs
  <2>4. same["config"] # 0
    <3>1. hd.same["config"] = 0 => Dropped("config") # 0
      <4>1. 0 \notin 1..N
        <5>1. \A m \in Nat : 0 \notin 1..m
          OBVIOUS
        <5> QED
          BY <5>1, ConfigConstants, FS_CardinalityType DEF N
      <4> QED
        BY <1>1, <4>1
    <3>2. same["config"] = IF hd.same["config"] = 0 /\ "config" \in replaced THEN Dropped("config") ELSE hd.same["config"]
      BY <1>1
    <3> HIDE DEF same
    <3> QED
      BY <1>3, <3>1, <3>2
  <2> HIDE DEF cfg, same
  <2>5. [same |-> same, cfg |-> cfg] \in Held
    BY <2>2, <2>3 DEF Held, N
  <2>6. [same |-> same, cfg |-> cfg].same["config"] # 0
    BY <2>4
  <2> QED
    BY <2>1, <2>5, <2>6
<1> QED
  BY <1>2, <1>3

(* What a request holds is well-formed, and the model's own object is its    *)
(* config.                                                                   *)
HeldSound ==
  /\ HeldTyped
  /\ \A h \in Holders : held[h] # None /\ held[h].same["config"] = 0 => held[h].cfg = config

Mine(hd, new) == hd \in Held /\ (hd.same["config"] = 0 => hd.cfg = new)

(* A request that goes on holds what it held, followed up.                   *)
LEMMA GoesOn ==
  ASSUME HeldTyped, NEW h \in Waiting, NEW new \in Configs, NEW replaced
  PROVE  held[h] \in Held /\ Mine(Follow(held[h], new, replaced), new)
<1>1. held[h] \in Held
  BY DEF HeldTyped, Waiting
<1>2. \A l \in Levels : held[h].same[l] = 0 => Dropped(l) \in 1..N
  BY NumberLeft
<1> QED
  BY <1>1, <1>2, Followed DEF Mine

(* The same for a request that stays when another one ends.                  *)
LEMMA GoesOnWithout ==
  ASSUME HeldTyped, NEW h \in Waiting, NEW o \in Waiting \ {h}, NEW new \in Configs, NEW replaced
  PROVE  Mine(Follow(Rebase(held[h], held[o]), new, replaced), new)
<1>1. held[h] \in Held /\ held[o] \in Held
  BY DEF HeldTyped, Waiting
<1> DEFINE same == [l \in Levels |-> IF held[h].same[l] = held[o].same[l] THEN 0
                                    ELSE IF held[h].same[l] = 0 THEN held[o].same[l] ELSE held[h].same[l]]
<1>2. Rebase(held[h], held[o]) = [cfg |-> held[h].cfg, same |-> same]
  <2>1. held[h] = [cfg |-> held[h].cfg, same |-> held[h].same]
    BY <1>1, HeldFields
  <2> QED
    BY <2>1 DEF Rebase
<1>3. same \in [Levels -> 0..N]
  <2>1. held[h].same \in [Levels -> 0..N] /\ held[o].same \in [Levels -> 0..N]
    BY <1>1, HeldFields
  <2>2. 0 \in 0..N
    BY ConfigConstants, FS_CardinalityType DEF N
  <2> QED
    BY <2>1, <2>2
<1>4. ASSUME NEW l \in Levels, same[l] = 0 PROVE Dropped(l) \in 1..N
  <2>1. held[h].same[l] = held[o].same[l] \/ held[h].same[l] = 0 \/ held[o].same[l] = 0
    BY <1>4
  <2> HIDE DEF same
  <2> QED
    BY <2>1, NumberLeft
<1> HIDE DEF same
<1>5. Rebase(held[h], held[o]) \in Held
  BY <1>1, <1>2, <1>3, HeldFields DEF Held, N
<1>6. Rebase(held[h], held[o]).same = same
  BY <1>2
<1> QED
  BY <1>4, <1>5, <1>6, Followed DEF Mine

(* What is held stays well-formed when each request holds something sound.   *)
LEMMA HeldAfter ==
  ASSUME config' \in Configs, NEW f, held' = f,
         f = [h \in Holders |-> f[h]], \A h \in Holders : f[h] = None \/ Mine(f[h], config')
  PROVE  HeldSound'
<1>1. \A h \in Holders : held'[h] \in Held \cup {None}
  BY DEF Mine
<1>2. \A h \in Holders : held'[h] # None /\ held'[h].same["config"] = 0 => held'[h].cfg = config'
  BY DEF Mine
<1>3. held' \in [Holders -> Held \cup {None}]
  BY <1>1
<1> QED
  BY <1>2, <1>3 DEF HeldSound, HeldTyped

(* An assignment to the config or a changed copy of it.                      *)
LEMMA AfterWrite ==
  ASSUME HeldTyped, NEW new \in Configs, NEW replaced, Write(new, replaced)
  PROVE  config' = new /\ HeldSound' /\ \A h \in Holders : held'[h] = None <=> held[h] = None
<1> DEFINE f == [h \in Holders |-> IF held[h] = None THEN None ELSE Follow(held[h], new, replaced)]
<1>1. config' = new /\ held' = f
  BY DEF Write
<1>2. ASSUME NEW h \in Holders, held[h] # None PROVE Mine(f[h], new)
  BY <1>2, GoesOn DEF Waiting
<1>3. \A h \in Holders : f[h] = None \/ Mine(f[h], config')
  BY <1>1, <1>2
<1>4. HeldSound'
  <2>1. f = [h \in Holders |-> f[h]]
    OBVIOUS
  <2> HIDE DEF f
  <2> QED
    BY <1>1, <1>3, <2>1, HeldAfter
<1>5. ASSUME NEW h \in Holders PROVE held'[h] = None <=> held[h] = None
  BY <1>1, <1>2, NoneIsNotHeld DEF Mine
<1> QED
  BY <1>1, <1>4, <1>5

(* The same, and the request o holds the new config.                         *)
LEMMA AfterHold ==
  ASSUME HeldTyped, NEW o \in Holders, NEW new \in Configs, NEW replaced, WriteAndHold(o, new, replaced)
  PROVE  /\ config' = new /\ HeldSound' /\ held'[o] # None
         /\ \A h \in Holders : h # o => (held'[h] = None <=> held[h] = None)
<1> DEFINE fresh == [cfg |-> new, same |-> [l \in Levels |-> 0]]
           f == [h \in Holders |-> IF h = o THEN fresh
                                   ELSE IF held[h] = None THEN None ELSE Follow(held[h], new, replaced)]
<1>1. config' = new /\ held' = f
  BY DEF WriteAndHold
<1>2. Mine(fresh, new)
  <2>1. 0 \in 0..N
    BY ConfigConstants, FS_CardinalityType DEF N
  <2> QED
    BY <2>1 DEF Mine, Held, N
<1> HIDE DEF fresh
<1>3. ASSUME NEW h \in Holders, held[h] # None \/ h = o PROVE Mine(f[h], new)
  <2>1. CASE h = o
    BY <1>2, <2>1
  <2>2. CASE h # o
    BY <1>3, <2>2, GoesOn DEF Waiting
  <2> QED
    BY <2>1, <2>2
<1>4. \A h \in Holders : f[h] = None \/ Mine(f[h], config')
  BY <1>1, <1>3
<1>5. HeldSound'
  <2>1. f = [h \in Holders |-> f[h]]
    OBVIOUS
  <2> HIDE DEF f
  <2> QED
    BY <1>1, <1>4, <2>1, HeldAfter
<1>6. ASSUME NEW h \in Holders, h # o PROVE held'[h] = None <=> held[h] = None
  BY <1>1, <1>3, <1>6, NoneIsNotHeld DEF Mine
<1>7. held'[o] # None
  BY <1>1, <1>3, NoneIsNotHeld DEF Mine
<1> QED
  BY <1>1, <1>5, <1>6, <1>7

(* The same, and the request o lets go of what it held.                      *)
LEMMA AfterRelease ==
  ASSUME HeldTyped, NEW o \in Holders, NEW new \in Configs, NEW replaced, WriteAndRelease(o, new, replaced)
  PROVE  /\ config' = new /\ HeldSound' /\ held'[o] = None
         /\ \A h \in Holders : h # o => (held'[h] = None <=> held[h] = None)
<1> DEFINE f == [h \in Holders |-> IF h = o \/ held[h] = None THEN None ELSE Follow(held[h], new, replaced)]
<1>1. config' = new /\ held' = f
  BY DEF WriteAndRelease
<1>2. ASSUME NEW h \in Holders, held[h] # None, h # o PROVE Mine(f[h], new)
  BY <1>2, GoesOn DEF Waiting
<1>3. \A h \in Holders : f[h] = None \/ Mine(f[h], config')
  BY <1>1, <1>2
<1>4. HeldSound'
  <2>1. f = [h \in Holders |-> f[h]]
    OBVIOUS
  <2> HIDE DEF f
  <2> QED
    BY <1>1, <1>3, <2>1, HeldAfter
<1>5. ASSUME NEW h \in Holders, h # o PROVE held'[h] = None <=> held[h] = None
  BY <1>1, <1>2, <1>5, NoneIsNotHeld DEF Mine
<1> QED
  BY <1>1, <1>4, <1>5

(* The request o ends, and the model's config is based on what it held.      *)
LEMMA AfterReturn ==
  ASSUME HeldTyped, NEW o \in Waiting, NEW new \in Configs, NEW replaced, Return(o, new, replaced)
  PROVE  /\ config' = new /\ HeldSound' /\ held'[o] = None
         /\ \A h \in Holders : h # o => (held'[h] = None <=> held[h] = None)
<1> DEFINE f == [h \in Holders |-> IF h = o \/ held[h] = None THEN None
                                   ELSE Follow(Rebase(held[h], held[o]), new, replaced)]
<1>1. config' = new /\ held' = f
  BY DEF Return
<1>2. ASSUME NEW h \in Holders, held[h] # None, h # o PROVE Mine(f[h], new)
  <2>1. h \in Waiting /\ o \in Waiting \ {h}
    BY <1>2 DEF Waiting
  <2>2. Mine(Follow(Rebase(held[h], held[o]), new, replaced), new)
    BY <2>1, GoesOnWithout
  <2> QED
    BY <1>2, <2>2
<1>3. \A h \in Holders : f[h] = None \/ Mine(f[h], config')
  BY <1>1, <1>2
<1>4. HeldSound'
  <2>1. f = [h \in Holders |-> f[h]]
    OBVIOUS
  <2> HIDE DEF f
  <2> QED
    BY <1>1, <1>3, <2>1, HeldAfter
<1>5. ASSUME NEW h \in Holders, h # o PROVE held'[h] = None <=> held[h] = None
  BY <1>1, <1>2, <1>5, NoneIsNotHeld DEF Mine
<1>6. held'[o] = None
  BY <1>1 DEF Waiting
<1> QED
  BY <1>1, <1>4, <1>5, <1>6

(* The request o ends and the config stays.                                  *)
LEMMA AfterEnd ==
  ASSUME HeldSound, NEW o \in Holders, Release(o), config' = config
  PROVE  HeldSound' /\ held'[o] = None /\ \A h \in Holders : h # o => held'[h] = held[h]
BY DEF Release, HeldSound, HeldTyped

-----------------------------------------------------------------------------
(* The aggregation follows the grouping. *)

(* Of a config or of an address.  Under the default grouping the aggregation *)
(* may be disabled still.                                                    *)
AggSound(c) ==
  Aggregates =>
    /\ c.chart.agg.applied => c.chart.agg.enabled
    /\ c.chart.agg.enabled => isGroupingApplied(c)
    /\ isGroupingApplied(c) /\ ~c.chart.agg.enabled =>
         c.grouping.fields = getConfig.grouping.fields /\ c.grouping.applied = getConfig.grouping.applied

(* The aggregation of d is that of c, or enabled since.                     *)
AggOn(c, d) ==
  d.chart.agg.applied = c.chart.agg.applied /\ (c.chart.agg.enabled => d.chart.agg.enabled)

(* All of the chart but its aggregation. *)
SameButAgg(c, d) ==
  /\ d.select = c.select /\ d.grouping = c.grouping /\ d.table = c.table /\ d.live = c.live
  /\ d.chart.align = c.chart.align /\ d.chart.density = c.chart.density /\ d.chart.zoomed = c.chart.zoomed
  /\ d.chart.extent = c.chart.extent /\ d.chart.stacking = c.chart.stacking
  /\ d.chart.look = c.chart.look /\ d.chart.deco = c.chart.deco

(* setAggregationEnabled makes it follow and touches nothing else.           *)
LEMMA AggregationSet ==
  ASSUME NEW c \in Configs
  PROVE  LET d == setAggregationEnabled(c) IN
         d \in Configs /\ AggSound(d) /\ SameButAgg(c, d) /\ (AggSound(c) => AggOn(c, d))
<1> DEFINE d == setAggregationEnabled(c)
           agg == [enabled |-> isGroupingApplied(c), applied |-> c.chart.agg.applied /\ isGroupingApplied(c)]
<1>1. CASE ~Aggregates
  BY <1>1 DEF setAggregationEnabled, AggSound, SameButAgg, AggOn
<1>2. CASE Aggregates
  <2>1. PICK on \in BOOLEAN : on = isGroupingApplied(c)
    BY DEF isGroupingApplied
  <2>2. PICK both \in BOOLEAN : both = (c.chart.agg.applied /\ isGroupingApplied(c))
    OBVIOUS
  <2>3. d = [c EXCEPT !.chart.agg = [enabled |-> on, applied |-> both]]
    BY <1>2, <2>1, <2>2 DEF setAggregationEnabled
  <2>4. d \in Configs
    BY <2>3 DEF Configs, Charts
  <2>5. SameButAgg(c, d) /\ d.chart.agg = [enabled |-> on, applied |-> both]
    BY <2>3 DEF Configs, Charts, SameButAgg
  <2>6. isGroupingApplied(d) = isGroupingApplied(c)
    BY <2>5 DEF isGroupingApplied, SameButAgg
  <2>7. AggSound(d)
    <3>1. d.chart.agg.enabled = on /\ d.chart.agg.applied = both
      BY <2>5
    <3>2. both => on
      BY <2>1, <2>2
    <3> HIDE DEF d
    <3> QED
      BY <2>1, <2>6, <3>1, <3>2 DEF AggSound
  <2>8. ASSUME AggSound(c) PROVE AggOn(c, d)
    <3>1. c.chart.agg \in [enabled : BOOLEAN, applied : BOOLEAN]
      BY ConfigFields, ChartFields
    <3>2. d.chart.agg.enabled = on /\ d.chart.agg.applied = both
      BY <2>5
    <3>3. c.chart.agg.enabled => on
      BY <1>2, <2>1, <2>8 DEF AggSound
    <3>4. c.chart.agg.applied = both
      <4>1. c.chart.agg.applied \in BOOLEAN
        BY <3>1
      <4>2. c.chart.agg.applied => isGroupingApplied(c)
        BY <1>2, <2>8 DEF AggSound
      <4> QED
        BY <2>2, <4>1, <4>2
    <3> HIDE DEF d
    <3> QED
      BY <3>2, <3>3, <3>4 DEF AggOn
  <2> QED
    BY <2>4, <2>5, <2>7, <2>8
<1> QED
  BY <1>1, <1>2

-----------------------------------------------------------------------------
(* A handler of a control: what all of them have in common.                  *)

(* The part of a config that is in the address and that the listed property  *)
(* compares, and the part the shown data are computed with.                  *)
Addressed(c) ==
  <<c.grouping, c.chart.agg, c.chart.zoomed, c.chart.stacking, c.chart.look, c.chart.deco>>
Viewed(c) == <<c.grouping, c.chart.look, getDataAsTableRows(c)>>
AlignKept(new) == new.chart.align = config.chart.align \/ new.chart.align.type # "custom"
AggKept(new) == AggSound(config) => AggSound(new)

HandlerStep ==
  /\ config' \in Configs /\ HeldSound'
  /\ \A h \in Holders : held'[h] = None <=> held[h] = None
  /\ edits' = edits + 1 /\ config'.live = config.live /\ UNCHANGED <<rawData, overtaken>>
  /\ updateURL(config') \/ (KeepURL /\ Addressed(config') = Addressed(config))
  /\ view' = ViewOf(rawData, config') \/ (view' = view /\ Viewed(config') = Viewed(config))
  /\ storedTable' = config'.table
     \/ (storedTable' = storedTable /\ config'.table = config.table)
  /\ AlignKept(config') /\ AggKept(config')

(* Every handler but one writes; what is left to show is of its new config.  *)
LEMMA HandlerWrites ==
  ASSUME HeldTyped, edits \in Nat, NEW new \in Configs, NEW replaced, User, Write(new, replaced),
         UNCHANGED <<rawData, overtaken>>,
         updateURL(new) \/ (KeepURL /\ Addressed(new) = Addressed(config)),
         view' = ViewOf(rawData, new) \/ (view' = view /\ Viewed(new) = Viewed(config)),
         storedTable' = new.table \/ (storedTable' = storedTable /\ new.table = config.table),
         AlignKept(new), AggKept(new), new.live = config.live
  PROVE  HandlerStep
<1>1. config' = new /\ HeldSound' /\ \A h \in Holders : held'[h] = None <=> held[h] = None
  BY AfterWrite
<1>2. edits' = edits + 1
  BY DEF User
<1> HIDE DEF AlignKept, AggKept
<1>3. AlignKept(config') /\ AggKept(config')
  BY <1>1
<1> QED
  BY <1>1, <1>2, <1>3 DEF HandlerStep

(* An assignment that computes everything again and pushes the address.     *)
LEMMA Assigned ==
  ASSUME HeldTyped, edits \in Nat, NEW new \in Configs, NEW replaced, AssignAndRecompute(new, replaced),
         new.table = config.table /\ new.live = config.live, AlignKept(new), AggKept(new)
  PROVE  HandlerStep
BY HandlerWrites DEF AssignAndRecompute, Recompute

(* The same with the aggregation set first, as after a change of the        *)
(* grouping.                                                                *)
LEMMA AssignedGrouping ==
  ASSUME HeldTyped, edits \in Nat, NEW c \in Configs, NEW replaced, Grouped(c, replaced),
         c.table = config.table /\ c.live = config.live, c.chart.align = config.chart.align
  PROVE  HandlerStep
<1> DEFINE new == setAggregationEnabled(c)
<1>1. new \in Configs /\ AggSound(new) /\ SameButAgg(c, new)
  BY AggregationSet
<1>2. AssignAndRecompute(new, replaced)
  BY DEF Grouped
<1> HIDE DEF new
<1>3. new.table = config.table /\ new.live = config.live /\ AlignKept(new) /\ AggKept(new)
  BY <1>1 DEF SameButAgg, AlignKept, AggKept
<1> QED
  BY <1>1, <1>2, <1>3, Assigned

(* A copy is set and the address pushed, and nothing is computed.           *)
LEMMA Shown ==
  ASSUME HeldTyped, edits \in Nat, NEW new \in Configs, ReplaceAndShow(new),
         new.table = config.table /\ new.live = config.live, AlignKept(new), AggKept(new), Viewed(new) = Viewed(config)
  PROVE  HandlerStep
BY HandlerWrites DEF ReplaceAndShow

(* A copy with another table is set and saved.                              *)
LEMMA TableReplaced ==
  ASSUME HeldTyped, edits \in Nat, NEW new \in Configs, ReplaceTable(new), new.live = config.live,
         Addressed(new) = Addressed(config), AlignKept(new), AggKept(new),
         view' = ViewOf(rawData, new) \/ (view' = view /\ Viewed(new) = Viewed(config))
  PROVE  HandlerStep
BY HandlerWrites DEF ReplaceTable, setItemTable

(* The handlers of the grouping.                                             *)
LEMMA GroupingHandled ==
  ASSUME HeldTyped, edits \in Nat, config \in Configs,
         \/ \E g \in Groups : onGroupingModeChange(g) \/ onGroupingReset(g) \/ onGroupingApplyChange(g)
         \/ onGroupingPaletteChange \/ onGroupingPersistenceChange \/ onShuffleChange
  PROVE  HandlerStep
<1>1. config.grouping \in Groupings /\ config.chart \in Charts
  BY ConfigFields
<1>2. ASSUME NEW g \in Groups, onGroupingModeChange(g) PROVE HandlerStep
  <2>1. PICK v \in Looks :
          LET new == [config EXCEPT !.grouping.look = v]
          IN IF g = "chart" THEN Grouped(resetChartZoom(new), {"chart"}) ELSE Grouped(new, {})
    BY <1>2 DEF onGroupingModeChange
  <2> DEFINE new == [config EXCEPT !.grouping.look = v]
  <2>2. new \in Configs /\ new.table = config.table /\ new.live = config.live /\ new.chart = config.chart
    BY DEF Configs, Groupings
  <2> HIDE DEF new
  <2>3. LET c == resetChartZoom(new)
        IN c \in Configs /\ c.table = config.table /\ c.live = config.live /\ c.chart.align = config.chart.align
    BY <1>1, <2>2 DEF resetChartZoom, Configs, Charts
  <2>4. Grouped(resetChartZoom(new), {"chart"}) \/ Grouped(new, {})
    BY <2>1 DEF new
  <2> QED
    BY <2>2, <2>3, <2>4, AssignedGrouping
<1>3. ASSUME NEW g \in Groups, onGroupingReset(g) PROVE HandlerStep
  <2> DEFINE fields == config.grouping.fields \ {g}
             applied == config.grouping.applied \cup {g}
             new == [config EXCEPT !.grouping.fields = fields, !.grouping.applied = applied,
                                   !.grouping.look = 0]
  <2>1. new \in Configs /\ new.table = config.table /\ new.live = config.live /\ new.chart = config.chart
    <3>1. fields \in SUBSET Groups /\ applied \in SUBSET Groups /\ 0 \in Looks
      BY <1>1 DEF Groupings, Looks
    <3> HIDE DEF fields, applied
    <3> QED
      BY <1>1, <3>1 DEF Configs, Groupings
  <2>2. Grouped(new, {"grouping"})
    BY <1>3 DEF onGroupingReset
  <2> HIDE DEF new
  <2> QED
    BY <2>1, <2>2, AssignedGrouping
<1>4. ASSUME NEW g \in Groups, onGroupingApplyChange(g) PROVE HandlerStep
  <2> DEFINE applied == IF g \in config.grouping.applied THEN config.grouping.applied \ {g}
                        ELSE config.grouping.applied \cup {g}
             new == [config EXCEPT !.grouping.applied = applied]
  <2>1. new \in Configs /\ new.table = config.table /\ new.live = config.live /\ new.chart = config.chart
    <3>1. applied \in SUBSET Groups
      BY <1>1 DEF Groupings
    <3> HIDE DEF applied
    <3> QED
      BY <1>1, <3>1 DEF Configs, Groupings
  <2>2. Grouped(new, {"grouping"})
    BY <1>4 DEF onGroupingApplyChange
  <2> HIDE DEF new
  <2> QED
    BY <2>1, <2>2, AssignedGrouping
<1>5. ASSUME NEW v \in Looks, Grouped([config EXCEPT !.grouping.look = v], {"grouping"})
      PROVE  HandlerStep
  <2> DEFINE new == [config EXCEPT !.grouping.look = v]
  <2>1. new \in Configs /\ new.table = config.table /\ new.live = config.live /\ new.chart = config.chart
    BY DEF Configs, Groupings
  <2> HIDE DEF new
  <2> QED
    BY <1>5, <2>1, AssignedGrouping DEF new
<1>6. 1 - config.grouping.look \in Looks
  BY <1>1 DEF Groupings, Looks
<1>7. CASE onGroupingPaletteChange
  BY <1>5, <1>7 DEF onGroupingPaletteChange
<1>8. CASE onGroupingPersistenceChange
  <2>1. Grouped([config EXCEPT !.grouping.look = 1 - config.grouping.look], {"grouping"})
    BY <1>8 DEF onGroupingPersistenceChange
  <2> QED
    BY <1>5, <1>6, <2>1
<1>9. CASE onShuffleChange
  <2> DEFINE new == [config EXCEPT !.grouping.look = 1 - config.grouping.look]
  <2>1. new \in Configs /\ new.table = config.table /\ new.live = config.live /\ new.chart = config.chart
    BY <1>6 DEF Configs, Groupings
  <2>2. new.grouping.fields = config.grouping.fields /\ new.grouping.applied = config.grouping.applied
    BY <1>1 DEF Configs, Groupings
  <2>3. AssignAndRecompute(new, {"grouping"})
    BY <1>9 DEF onShuffleChange
  <2> HIDE DEF new
  <2>4. AlignKept(new) /\ AggKept(new)
    BY <2>1, <2>2 DEF AlignKept, AggKept, AggSound, isGroupingApplied
  <2> QED
    BY <2>1, <2>3, <2>4, Assigned
<1> QED
  BY <1>2, <1>3, <1>4, <1>7, <1>8, <1>9

(* A change of the chart's own settings is not one of its alignment, nor of  *)
(* its aggregation, nor of the table.                                        *)
ChartOnly(new) ==
  /\ new \in Configs /\ new.table = config.table /\ new.live = config.live /\ new.grouping = config.grouping
  /\ new.chart.align = config.chart.align /\ new.chart.agg = config.chart.agg

(* A setting of the chart, with everything computed again.                  *)
LEMMA ChartAssigned ==
  ASSUME HeldTyped, edits \in Nat, NEW new, NEW replaced, ChartOnly(new), AssignAndRecompute(new, replaced)
  PROVE  HandlerStep
<1>1. AggKept(new) /\ AlignKept(new)
  BY DEF ChartOnly, AggKept, AlignKept, AggSound, isGroupingApplied
<1> QED
  BY <1>1, Assigned DEF ChartOnly

(* A setting of the chart that is read when it is drawn.                    *)
LEMMA ChartShown ==
  ASSUME HeldTyped, edits \in Nat, NEW new, ChartOnly(new), new.chart.look = config.chart.look,
         ReplaceAndShow(new)
  PROVE  HandlerStep
<1>1. AggKept(new) /\ AlignKept(new)
  BY DEF ChartOnly, AggKept, AlignKept, AggSound, isGroupingApplied
<1>2. Viewed(new) = Viewed(config)
  BY DEF ChartOnly, Viewed, getDataAsTableRows
<1> QED
  BY <1>1, <1>2, Shown DEF ChartOnly

(* The handlers of the chart.                                                *)
LEMMA ChartHandled ==
  ASSUME HeldTyped, edits \in Nat, config \in Configs,
         \/ onAggregationConfigChange \/ onSmoothingChange \/ onIgnoreOutliersChange \/ onLegendsChange
         \/ onAxesScaleTypeChange \/ onAxesScaleRangeChange \/ onZoomChange \/ onHighlightModeChange
         \/ onChangeTooltip \/ onActivePointChange \/ onChangeTrendlineOptions
  PROVE  HandlerStep
<1>1. config.chart \in Charts
  BY ConfigFields
<1>2. ASSUME NEW v \in Looks, NEW replaced, AssignAndRecompute([config EXCEPT !.chart.look = v], replaced)
      PROVE  HandlerStep
  <2> DEFINE new == [config EXCEPT !.chart.look = v]
  <2>1. ChartOnly(new)
    BY <1>1 DEF ChartOnly, Configs, Charts
  <2> HIDE DEF new
  <2> QED
    BY <1>2, <2>1, ChartAssigned DEF new
<1>3. ASSUME NEW v \in Looks PROVE LET new == [config EXCEPT !.chart.deco = v]
                                   IN ChartOnly(new) /\ new.chart.look = config.chart.look
  BY <1>1 DEF ChartOnly, Configs, Charts
<1>4. ASSUME NEW v \in Looks, ReplaceAndShow([config EXCEPT !.chart.deco = v]) PROVE HandlerStep
  <2> DEFINE new == [config EXCEPT !.chart.deco = v]
  <2>1. ChartOnly(new) /\ new.chart.look = config.chart.look
    BY <1>3
  <2> HIDE DEF new
  <2> QED
    BY <1>4, <2>1, ChartShown DEF new
<1>5. CASE onAggregationConfigChange
  <2>1. PICK applied \in BOOLEAN, v \in Looks :
          AssignAndRecompute([config EXCEPT !.chart.agg.applied = applied, !.chart.look = v],
                             {"chart", "agg"})
    BY <1>5 DEF onAggregationConfigChange
  <2>2. config.chart.agg.enabled
    BY <1>5 DEF onAggregationConfigChange
  <2> DEFINE new == [config EXCEPT !.chart.agg.applied = applied, !.chart.look = v]
  <2>3. config.chart.agg \in [enabled : BOOLEAN, applied : BOOLEAN]
    BY <1>1, ChartFields
  <2>4. new \in Configs
    BY <1>1, <2>3 DEF Configs, Charts
  <2>5. /\ new.table = config.table /\ new.live = config.live /\ new.grouping = config.grouping
        /\ new.chart.align = config.chart.align
    BY <1>1 DEF Configs, Charts
  <2>6. new.chart.agg.enabled = config.chart.agg.enabled
    BY <1>1, <2>3 DEF Configs, Charts
  <2>7. AssignAndRecompute(new, {"chart", "agg"})
    BY <2>1
  <2> HIDE DEF new
  <2>8. AggKept(new)
    BY <2>2, <2>5, <2>6 DEF AggKept, AggSound, isGroupingApplied
  <2> QED
    BY <2>4, <2>5, <2>7, <2>8, Assigned DEF AlignKept
<1>6. CASE onSmoothingChange
  BY <1>2, <1>6 DEF onSmoothingChange
<1>7. CASE onIgnoreOutliersChange
  <2>1. 1 - config.chart.look \in Looks
    BY <1>1, ChartFields DEF Looks
  <2>2. AssignAndRecompute([config EXCEPT !.chart.look = 1 - config.chart.look], {})
    BY <1>7 DEF onIgnoreOutliersChange
  <2> QED
    BY <1>2, <2>1, <2>2
<1>8. CASE onLegendsChange
  BY <1>2, <1>8 DEF onLegendsChange
<1>9. CASE onAxesScaleTypeChange
  BY <1>2, <1>9 DEF onAxesScaleTypeChange
<1>10. CASE onAxesScaleRangeChange
  <2> DEFINE new == [config EXCEPT !.chart.extent = TRUE]
  <2>1. ChartOnly(new) /\ new.chart.look = config.chart.look
    BY <1>1 DEF ChartOnly, Configs, Charts
  <2> HIDE DEF new
  <2> QED
    BY <1>10, <2>1, ChartShown DEF new, onAxesScaleRangeChange
<1>11. CASE onZoomChange
  <2>1. PICK z \in BOOLEAN : ReplaceAndShow([config EXCEPT !.chart.zoomed = z])
    BY <1>11 DEF onZoomChange
  <2> DEFINE new == [config EXCEPT !.chart.zoomed = z]
  <2>2. ChartOnly(new) /\ new.chart.look = config.chart.look
    BY <1>1 DEF ChartOnly, Configs, Charts
  <2> HIDE DEF new
  <2> QED
    BY <2>1, <2>2, ChartShown DEF new
<1>12. CASE onHighlightModeChange
  BY <1>4, <1>12 DEF onHighlightModeChange
<1>13. CASE onChangeTooltip
  BY <1>4, <1>13 DEF onChangeTooltip
<1>14. CASE onChangeTrendlineOptions
  BY <1>4, <1>14 DEF onChangeTrendlineOptions
<1>15. CASE onActivePointChange
  <2>1. PICK v \in Looks :
          LET new == [config EXCEPT !.chart.deco = v]
          IN /\ User
             /\ Write(new, {"config", "chart"})
             /\ IF new = config THEN KeepURL ELSE updateURL(new)
             /\ UNCHANGED <<storedTable, rawData, view, overtaken>>
    BY <1>15 DEF onActivePointChange
  <2> DEFINE new == [config EXCEPT !.chart.deco = v]
  <2>2. ChartOnly(new) /\ new.chart.look = config.chart.look
    BY <1>3
  <2> HIDE DEF new
  <2>3. /\ User /\ Write(new, {"config", "chart"})
        /\ updateURL(new) \/ (KeepURL /\ Addressed(new) = Addressed(config))
        /\ UNCHANGED <<storedTable, rawData, view, overtaken>>
    BY <2>1 DEF new
  <2>4. AggKept(new) /\ AlignKept(new)
    BY <2>2 DEF ChartOnly, AggKept, AlignKept, AggSound, isGroupingApplied
  <2>5. Viewed(new) = Viewed(config)
    BY <2>2 DEF ChartOnly, Viewed, getDataAsTableRows
  <2> QED
    BY <2>2, <2>3, <2>4, <2>5, HandlerWrites DEF ChartOnly
<1> QED
  BY <1>5, <1>6, <1>7, <1>8, <1>9, <1>10, <1>11, <1>12, <1>13, <1>14, <1>15

(* The handlers of the table and of the search form, and the handlers that   *)
(* are neither.                                                              *)
TableOnly(new) ==
  /\ new \in Configs /\ new.live = config.live
  /\ new.grouping = config.grouping /\ new.chart = config.chart

(* Grouping, chart and address have nothing to do with the table.           *)
LEMMA TableOnlyKeeps ==
  ASSUME NEW new, TableOnly(new)
  PROVE  Addressed(new) = Addressed(config) /\ AlignKept(new) /\ AggKept(new)
<1>1. Addressed(new) = Addressed(config) /\ AlignKept(new)
  BY DEF TableOnly, Addressed, AlignKept
<1>2. AggKept(new)
  BY DEF TableOnly, AggKept, AggSound, isGroupingApplied
<1> QED
  BY <1>1, <1>2

(* The handlers of the table, and grouping by one of its columns.           *)
LEMMA TableHandled ==
  ASSUME HeldTyped, edits \in Nat, config \in Configs, NEW systems \in SUBSET {"fresh", "hidden", "shown"},
         \/ \E g \in Groups : onGroupingSelectChange(g)
         \/ onColumnsVisibilityChange(systems) \/ onTableDiffShow(systems)
         \/ ReplaceColumns \/ ReplaceWidget
  PROVE  HandlerStep
<1>1. config.table \in Tables /\ config.chart \in Charts /\ config.grouping \in Groupings
  BY ConfigFields
<1>2. ASSUME ReplaceColumns PROVE HandlerStep
  <2>1. PICK v \in Looks :
          LET new == [config EXCEPT !.table.cols = v] IN ReplaceTable(new) /\ Recompute(new)
    BY <1>2 DEF ReplaceColumns
  <2> DEFINE new == [config EXCEPT !.table.cols = v]
  <2>2. TableOnly(new)
    BY <1>1 DEF TableOnly, Configs, Tables
  <2> HIDE DEF new
  <2>3. ReplaceTable(new) /\ Recompute(new)
    BY <2>1 DEF new
  <2> QED
    BY <2>2, <2>3, TableOnlyKeeps, TableReplaced DEF TableOnly, Recompute
<1>3. ASSUME onColumnsVisibilityChange(systems) PROVE HandlerStep
  <2>1. PICK v \in Looks, t \in {"fresh", "hidden", "shown"} :
          LET new == [config EXCEPT !.table.cols = v, !.table.system = t]
          IN ReplaceTable(new) /\ Recompute(new)
    BY <1>3 DEF onColumnsVisibilityChange
  <2> DEFINE new == [config EXCEPT !.table.cols = v, !.table.system = t]
  <2>2. TableOnly(new)
    BY <1>1 DEF TableOnly, Configs, Tables
  <2> HIDE DEF new
  <2>3. ReplaceTable(new) /\ Recompute(new)
    BY <2>1 DEF new
  <2> QED
    BY <2>2, <2>3, TableOnlyKeeps, TableReplaced DEF TableOnly, Recompute
<1>4. ASSUME ReplaceWidget PROVE HandlerStep
  <2>1. PICK v \in Looks : ReplaceTable([config EXCEPT !.table.size = v]) /\ UNCHANGED view
    BY <1>4 DEF ReplaceWidget
  <2> DEFINE new == [config EXCEPT !.table.size = v]
  <2>2. TableOnly(new) /\ Viewed(new) = Viewed(config)
    BY <1>1 DEF TableOnly, Configs, Tables, Viewed, getDataAsTableRows
  <2> HIDE DEF new
  <2>3. ReplaceTable(new) /\ UNCHANGED view
    BY <2>1 DEF new
  <2> QED
    BY <2>2, <2>3, TableOnlyKeeps, TableReplaced DEF TableOnly
<1>5. ASSUME NEW g \in Groups, onGroupingSelectChange(g) PROVE HandlerStep
  <2>1. PICK filled \in BOOLEAN :
          LET fields == IF filled THEN config.grouping.fields \cup {g} ELSE config.grouping.fields \ {g}
          IN Grouped(resetChartZoom([config EXCEPT !.grouping.fields = fields]), {"grouping", "chart"})
    BY <1>5 DEF onGroupingSelectChange
  <2> DEFINE fields == IF filled THEN config.grouping.fields \cup {g} ELSE config.grouping.fields \ {g}
             filledIn == [config EXCEPT !.grouping.fields = fields]
  <2>2. filledIn \in Configs /\ filledIn.table = config.table /\ filledIn.live = config.live /\ filledIn.chart = config.chart
    <3>1. fields \in SUBSET Groups
      BY <1>1 DEF Groupings
    <3> HIDE DEF fields
    <3> QED
      BY <1>1, <3>1 DEF Configs, Groupings
  <2>3. Grouped(resetChartZoom(filledIn), {"grouping", "chart"})
    BY <2>1
  <2> HIDE DEF filledIn
  <2>4. LET c == resetChartZoom(filledIn)
        IN c \in Configs /\ c.table = config.table /\ c.live = config.live /\ c.chart.align = config.chart.align
    BY <1>1, <2>2 DEF resetChartZoom, Configs, Charts
  <2> QED
    BY <2>3, <2>4, AssignedGrouping
<1>6. CASE onTableDiffShow(systems)
  BY <1>3, <1>6 DEF onTableDiffShow
<1> QED
  BY <1>2, <1>3, <1>4, <1>5, <1>6

(* The handlers of the search form.                                         *)
LEMMA SelectHandled ==
  ASSUME HeldTyped, edits \in Nat, config \in Configs,
         \/ onSelectRunQueryChange \/ onSelectAdvancedQueryChange
         \/ onSelectOptionsChange \/ toggleSelectAdvancedMode
  PROVE  HandlerStep
<1>1. ASSUME NEW q \in Selects, ReplaceSelect(q) PROVE HandlerStep
  <2> DEFINE new == [config EXCEPT !.select = q]
  <2>1. TableOnly(new) /\ new.table = config.table /\ new.live = config.live
    BY DEF TableOnly, Configs
  <2>2. /\ User /\ Write(new, {"config", "select"}) /\ KeepURL
        /\ UNCHANGED <<storedTable, rawData, view, overtaken>>
    BY <1>1 DEF ReplaceSelect
  <2> HIDE DEF new
  <2>3. Viewed(new) = Viewed(config)
    BY <2>1 DEF Viewed, getDataAsTableRows, TableOnly
  <2> QED
    BY <2>1, <2>2, <2>3, TableOnlyKeeps, HandlerWrites DEF TableOnly
<1>2. {config.select} \cup Queries \subseteq Selects
  BY ConfigFields DEF Selects
<1> QED
  BY <1>1, <1>2 DEF onSelectRunQueryChange, onSelectAdvancedQueryChange,
     onSelectOptionsChange, toggleSelectAdvancedMode

(* Grouping and chart become the defaults again.                            *)
LEMMA ResetHandled ==
  ASSUME HeldTyped, edits \in Nat, config \in Configs, onResetConfigData
  PROVE  HandlerStep
<1> DEFINE new == [config EXCEPT !.grouping = getConfig.grouping, !.chart = getConfig.chart]
<1>1. getConfig.grouping \in Groupings /\ getConfig.chart \in Charts
  BY ConfigConstants DEF getConfig, Groupings, Charts, Alignment, Looks
<1>2. /\ new \in Configs /\ new.table = config.table /\ new.live = config.live /\ new.chart = getConfig.chart
      /\ new.grouping = getConfig.grouping
  <2> HIDE DEF getConfig
  <2> QED
    BY <1>1 DEF Configs
<1>3. AssignAndRecompute(new, {"grouping", "chart", "agg"})
  BY DEF onResetConfigData
<1> HIDE DEF new
<1>4. AlignKept(new)
  BY <1>2 DEF AlignKept, getConfig
<1>5. AggKept(new)
  <2>1. getConfig.chart.agg = [enabled |-> FALSE, applied |-> FALSE]
    BY DEF getConfig
  <2>2. new.chart.agg.enabled = FALSE /\ new.chart.agg.applied = FALSE
    BY <1>2, <2>1
  <2> QED
    BY <1>2, <2>2 DEF AggKept, AggSound
<1> QED
  BY <1>2, <1>3, <1>4, <1>5, Assigned

(* Alignment by steps or epochs.                                            *)
LEMMA AlignTypeHandled ==
  ASSUME HeldTyped, edits \in Nat, config \in Configs, onAlignmentTypeChange
  PROVE  HandlerStep
<1>1. PICK type \in {"step", "epoch"} :
        AssignAndRecompute([config EXCEPT !.chart.align = [type |-> type, metric |-> None],
                                          !.chart.extent = FALSE, !.chart.zoomed = FALSE],
                           {"chart"})
  BY DEF onAlignmentTypeChange
<1> DEFINE align == [type |-> type, metric |-> None]
           new == [config EXCEPT !.chart.align = align, !.chart.extent = FALSE, !.chart.zoomed = FALSE]
<1>2. config.chart \in Charts /\ align \in Alignment /\ align.type # "custom"
  BY ConfigFields DEF Alignment
<1>3. AssignAndRecompute(new, {"chart"})
  BY <1>1
<1> HIDE DEF align
<1>4. new \in Configs
  BY <1>2 DEF Configs, Charts
<1>5. /\ new.table = config.table /\ new.live = config.live /\ new.grouping = config.grouping
      /\ new.chart.align = align /\ new.chart.agg = config.chart.agg
  BY <1>2 DEF Configs, Charts
<1> HIDE DEF new
<1>6. AlignKept(new) /\ AggKept(new)
  BY <1>2, <1>5 DEF AlignKept, AggKept, AggSound, isGroupingApplied
<1> QED
  BY <1>3, <1>4, <1>5, <1>6, Assigned

(* The rows become new objects.                                             *)
LEMMA TagsHandled ==
  ASSUME HeldSound, edits \in Nat, config \in Configs, onRunsTagsChange
  PROVE  HandlerStep
<1>1. /\ User /\ view' = ViewOf(rawData, config)
      /\ UNCHANGED <<config, held, url, previous, storedTable, rawData, overtaken>>
  BY DEF onRunsTagsChange, Recompute
<1>2. HeldSound'
  BY <1>1 DEF HeldSound, HeldTyped
<1>3. KeepURL /\ Addressed(config') = Addressed(config) /\ edits' = edits + 1 /\ config'.live = config.live
  BY <1>1 DEF KeepURL, User, Addressed
<1>4. AlignKept(config') /\ AggKept(config')
  BY <1>1 DEF AlignKept, AggKept
<1>5. /\ config' \in Configs /\ \A h \in Holders : held'[h] = None <=> held[h] = None
      /\ view' = ViewOf(rawData, config') /\ UNCHANGED <<rawData, overtaken, storedTable>>
      /\ config'.table = config.table
  BY <1>1
<1> QED
  BY <1>2, <1>3, <1>4, <1>5 DEF HandlerStep

-----------------------------------------------------------------------------
(* The five places. *)

PlacesTyped ==
  /\ config \in Configs /\ HeldSound
  /\ url \in Urls \cup {None} /\ previous \in {<<>>} \cup {<<u>> : u \in Urls \cup {None}}
  /\ storedTable \in Tables \cup {None}
  /\ edits \in Nat /\ overtaken \in BOOLEAN

(* The part of the config the view was computed with.                        *)
Computed(v) == <<v.data.groups.grouping, v.data.look, v.table>>

(* A table t is as it is stored in s.                                        *)
StoredAs(t, s) ==
  s # None => /\ s.cols = t.cols /\ t.size \in {s.size, 0}
              /\ s.system = t.system \/ (s.system = "fresh" /\ t.system = "hidden")

(* What is computed from rows and a config shows them.                      *)
LEMMA ViewComputed ==
  ASSUME NEW rows, NEW c
  PROVE  ViewOf(rows, c).data.rows = rows /\ Computed(ViewOf(rows, c)) = Viewed(c)
BY DEF ViewOf, processData, groupData, getDataAsTableRows, Computed, Viewed

(* The grouping and the aggregation decide.                                  *)
LEMMA AggSoundOf ==
  ASSUME NEW c, NEW d, c.grouping = d.grouping, c.chart.agg = d.chart.agg, AggSound(c)
  PROVE  AggSound(d)
BY DEF AggSound, isGroupingApplied

(* What the same addressed part means, field by field.                      *)
LEMMA AddressedParts ==
  ASSUME NEW c, NEW d, Addressed(c) = Addressed(d)
  PROVE  /\ c.grouping = d.grouping /\ c.chart.agg = d.chart.agg
         /\ c.chart.zoomed = d.chart.zoomed /\ c.chart.stacking = d.chart.stacking
         /\ c.chart.look = d.chart.look /\ c.chart.deco = d.chart.deco
BY DEF Addressed

(* The part an address u shows of a config c; rows that arrive enable the    *)
(* aggregation and leave the address.                                        *)
Shows(u, c) ==
  /\ u.grouping = c.grouping /\ AggOn(u, c)
  /\ u.chart.zoomed = c.chart.zoomed /\ u.chart.stacking = c.chart.stacking
  /\ u.chart.look = c.chart.look /\ u.chart.deco = c.chart.deco

(* An address of the same grouping and chart shows it.                      *)
LEMMA AddressedShows ==
  ASSUME NEW u, NEW c, Addressed(u) = Addressed(c)
  PROVE  Shows(u, c)
BY AddressedParts DEF Shows, AggOn

(* What shows a config shows what the config shows in turn.                  *)
LEMMA ShowsOn ==
  ASSUME NEW u, NEW c, NEW d, Shows(u, c), Shows(c, d)
  PROVE  Shows(u, d)
BY DEF Shows, AggOn

(* A config of a sound aggregation shows in the one setAggregationEnabled    *)
(* makes of it.                                                              *)
LEMMA AggregationShows ==
  ASSUME NEW c, NEW d, SameButAgg(c, d), AggOn(c, d)
  PROVE  Shows(c, d)
BY DEF Shows, SameButAgg

(* The address of a config is an address, and shows it.                     *)
LEMMA AddressOf ==
  ASSUME NEW c \in Configs
  PROVE  UrlOf(c) \in Urls /\ Addressed(UrlOf(c)) = Addressed(c)
<1>1. UrlOf(c) \in Urls
  BY ConfigFields DEF UrlOf, Urls
<1>2. UrlOf(c).grouping = c.grouping /\ UrlOf(c).chart = c.chart
  BY DEF UrlOf
<1> QED
  BY <1>1, <1>2 DEF Addressed

(* An address is pushed: it and the one before are addresses.                *)
LEMMA UrlPushed ==
  ASSUME PlacesTyped, NEW c \in Configs, updateURL(c)
  PROVE  /\ url' \in Urls \cup {None} /\ previous' \in {<<>>} \cup {<<u>> : u \in Urls \cup {None}}
         /\ url' = UrlOf(c) /\ previous' \in {previous, <<url>>}
BY AddressOf DEF updateURL, PlacesTyped

(* An address that stays is one.                                            *)
LEMMA UrlKept ==
  ASSUME PlacesTyped, KeepURL
  PROVE  url' \in Urls \cup {None} /\ previous' \in {<<>>} \cup {<<u>> : u \in Urls \cup {None}}
BY DEF KeepURL, PlacesTyped

(* When an address is pushed or not and the table is saved or not, types stay. *)
LEMMA TypesKept ==
  ASSUME PlacesTyped, config' \in Configs, HeldSound', overtaken' \in BOOLEAN, edits' \in Nat,
         (\E c \in Configs : updateURL(c)) \/ KeepURL, storedTable' \in {storedTable, config'.table}
  PROVE  PlacesTyped'
<1>1. url' \in Urls \cup {None} /\ previous' \in {<<>>} \cup {<<u>> : u \in Urls \cup {None}}
  BY UrlPushed, UrlKept
<1>2. storedTable' \in Tables \cup {None}
  BY ConfigFields DEF PlacesTyped
<1> QED
  BY <1>1, <1>2 DEF PlacesTyped

(* An address and localStorage are merged over a config c.                   *)
LEMMA Merged ==
  ASSUME PlacesTyped, NEW c \in Configs, NEW address \in Urls \cup {None}
  PROVE  LET d == setDefaultAppConfigData(c, address)
             shown == IF address = None THEN UrlOf(c) ELSE address
         IN /\ d \in Configs /\ Addressed(d) = Addressed(shown)
            /\ d.table = IF storedTable = None THEN getConfig.table ELSE storedTable
            /\ d.live = c.live /\ (AggSound(shown) => AggSound(d))
<1> DEFINE d == setDefaultAppConfigData(c, address)
<1>1. PICK shown \in Urls : shown = IF address = None THEN UrlOf(c) ELSE address
  BY AddressOf
<1>2. /\ shown.select \in Selects /\ shown.grouping \in Groupings /\ shown.chart \in Charts
      /\ c.live \in BOOLEAN
  BY ConfigFields DEF Urls
<1>3. PICK extent \in BOOLEAN : extent = (shown.chart.extent \/ c.chart.extent)
  OBVIOUS
<1>4. PICK chart : chart = [shown.chart EXCEPT !.extent = extent]
  OBVIOUS
<1>5. /\ chart \in Charts /\ chart.agg = shown.chart.agg /\ chart.zoomed = shown.chart.zoomed
      /\ chart.stacking = shown.chart.stacking /\ chart.look = shown.chart.look
      /\ chart.deco = shown.chart.deco
  BY <1>2, <1>4 DEF Charts
<1>6. PICK table \in Tables : table = IF storedTable = None THEN getConfig.table ELSE storedTable
  <2>1. getConfig.table \in Tables
    BY DEF getConfig, Tables, Looks
  <2> HIDE DEF getConfig
  <2> QED
    BY <2>1 DEF PlacesTyped
<1>7. d = [select |-> shown.select, grouping |-> shown.grouping, chart |-> chart,
           table |-> table, live |-> c.live]
  BY <1>1, <1>3, <1>4, <1>6 DEF setDefaultAppConfigData
<1> HIDE DEF d
<1>8. /\ d \in Configs /\ d.grouping = shown.grouping /\ d.chart = chart /\ d.table = table
      /\ d.live = c.live
  BY <1>2, <1>5, <1>6, <1>7 DEF Configs
<1>9. Addressed(d) = Addressed(shown)
  BY <1>5, <1>8 DEF Addressed
<1>10. AggSound(shown) => AggSound(d)
  BY <1>5, <1>8, AggSoundOf
<1> QED
  BY <1>1, <1>6, <1>8, <1>9, <1>10 DEF d

(* The stored table, or the default one, is as it is stored.                 *)
LEMMA MergedTable ==
  ASSUME NEW t, t = IF storedTable = None THEN getConfig.table ELSE storedTable
  PROVE  StoredAs(t, storedTable)
BY DEF StoredAs

(* The default configuration is one.                                        *)
LEMMA DefaultConfig == getConfig \in Configs
<1>1. getConfig.grouping \in Groupings /\ getConfig.chart \in Charts
  BY ConfigConstants DEF getConfig, Groupings, Charts, Alignment, Looks
<1>2. getConfig.table \in Tables /\ getConfig.select \in Selects /\ getConfig.live \in BOOLEAN
  BY DEF getConfig, Tables, Selects, Looks
<1>3. getConfig = [select |-> getConfig.select, grouping |-> getConfig.grouping, chart |-> getConfig.chart,
                   table |-> getConfig.table, live |-> getConfig.live]
  BY DEF getConfig
<1> HIDE DEF getConfig
<1> QED
  BY <1>1, <1>2, <1>3 DEF Configs

(* The types as the modules state them.                                     *)
LEMMA PlacesTypeOK == PlacesTyped => ConfigTypeOK
BY DEF PlacesTyped, HeldSound, HeldTyped, ConfigTypeOK

=============================================================================
