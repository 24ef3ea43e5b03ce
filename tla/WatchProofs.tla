----------------------------- MODULE WatchProofs -----------------------------
(***************************************************************************)
(* Theorems about Watch, for any calendar, business hours, threshold and   *)
(* clock.  The loop of business_seconds is shown to count the open ticks,  *)
(* and everything about the gap alarm follows from facts about that count. *)
(***************************************************************************)
EXTENDS Watch, FiniteSetTheorems, WellFoundedInduction, TLAPS

(* Integer division, told by bounds.                                       *)
LEMMA DayIs ==
  ASSUME NEW t \in Int, NEW d \in Int, d * TicksPerDay <= t, t < d * TicksPerDay + TicksPerDay
  PROVE  Day(t) = d
BY WatchAssumption DEF Day

LEMMA DayBounds ==
  ASSUME NEW t \in Int
  PROVE  /\ Day(t) \in Int /\ Day(t) * TicksPerDay \in Int
         /\ Day(t) * TicksPerDay <= t /\ t < Day(t) * TicksPerDay + TicksPerDay
         /\ t % TicksPerDay = t - Day(t) * TicksPerDay
BY WatchAssumption DEF Day

LEMMA DaysFollow ==
  ASSUME NEW s \in Int, NEW t \in Int, s <= t
  PROVE  Day(s) <= Day(t)
<1> DEFINE a == Day(s)  b == Day(t)  T == TicksPerDay
<1>1. a \in Int /\ b \in Int /\ a * T <= s /\ t < b * T + T /\ T \in Nat /\ T > 0
  BY DayBounds, WatchAssumption
<1> HIDE DEF a, b, T
<1>2. ~(b < a)
  <2>1. b < a => b * T + T <= a * T
    BY <1>1
  <2>2. a * T \in Int /\ b * T \in Int
    BY <1>1
  <2>3. QED BY <1>1, <2>1, <2>2
<1>3. QED BY <1>1, <1>2 DEF a, b

LEMMA WorkingDays ==
  ASSUME NEW d \in Int
  PROVE  WorkingDay(d) <=> Weekday(d) \notin {5, 6}
BY WatchAssumption DEF WorkingDay, Weekday

LEMMA MaxOfTwo ==
  ASSUME NEW a \in Int, NEW b \in Int
  PROVE  Max({a, b}) = IF a >= b THEN a ELSE b
BY DEF Max

LEMMA MinOfTwo ==
  ASSUME NEW a \in Int, NEW b \in Int
  PROVE  Min({a, b}) = IF a <= b THEN a ELSE b
BY DEF Min

(* The open ticks of a day between two ticks are as many as its part.      *)
LEMMA PartIsOpenTime ==
  ASSUME NEW start \in Int, NEW end \in Int, NEW d \in Int
  PROVE  LET opened == {t \in start .. end - 1 : Open(t) /\ Day(t) = d}
         IN IsFiniteSet(opened) /\ Cardinality(opened) = Part(start, end, d)
<1> DEFINE opened == {t \in start .. end - 1 : Open(t) /\ Day(t) = d}
           D == d * TicksPerDay
           low == Max({start, D + StartHour})
           high == Min({end, D + EndHour})
<1> SUFFICES IsFiniteSet(opened) /\ Cardinality(opened) = Part(start, end, d)
  OBVIOUS
<1>1. /\ D \in Int /\ StartHour \in Nat /\ EndHour \in Nat /\ TicksPerDay \in Nat
      /\ EndHour <= TicksPerDay
  BY WatchAssumption
<1>2. Part(start, end, d) = IF WorkingDay(d) /\ high > low THEN high - low ELSE 0
  BY DEF Part, Overlap
<1>3. low \in Int /\ high \in Int
      /\ low = (IF start >= D + StartHour THEN start ELSE D + StartHour)
      /\ high = (IF end <= D + EndHour THEN end ELSE D + EndHour)
  BY <1>1, MaxOfTwo, MinOfTwo
<1>4. ASSUME NEW t \in Int, Day(t) = d PROVE t % TicksPerDay = t - D
  BY <1>4, DayBounds
<1>5. ASSUME NEW t \in Int, D <= t, t < D + TicksPerDay PROVE Day(t) = d
  BY <1>5, DayIs
<1>6. CASE WorkingDay(d)
  <2>1. ASSUME NEW t \in Int
        PROVE  t \in opened <=> t \in low .. high - 1
    <3>1. ASSUME t \in opened PROVE t \in low .. high - 1
      <4>1. Day(t) = d /\ t % TicksPerDay \in StartHour .. EndHour - 1 /\ t \in start .. end - 1
        BY <3>1 DEF Open
      <4>2. t % TicksPerDay = t - D
        BY <4>1, <1>4
      <4> HIDE DEF low, high, D, opened
      <4>3. QED BY <4>1, <4>2, <1>1, <1>3
    <3>2. ASSUME t \in low .. high - 1 PROVE t \in opened
      <4> HIDE DEF low, high, D
      <4>1. start <= t /\ t <= end - 1 /\ D + StartHour <= t /\ t <= D + EndHour - 1
        BY <3>2, <1>1, <1>3
      <4>2. Day(t) = d
        BY <4>1, <1>1, <1>5
      <4>3. t % TicksPerDay = t - D
        BY <4>2, <1>4
      <4>4. t % TicksPerDay \in StartHour .. EndHour - 1
        BY <4>1, <4>3, <1>1
      <4>5. Open(t)
        BY <1>6, <4>2, <4>4, WorkingDays DEF Open
      <4>6. QED BY <4>1, <4>2, <4>5
    <3>3. QED BY <3>1, <3>2
  <2>2. opened = low .. high - 1
    <3>1. opened \subseteq Int /\ low .. high - 1 \subseteq Int
      BY <1>3
    <3> HIDE DEF opened, low, high
    <3>2. QED BY <2>1, <3>1
  <2>3. high - 1 \in Int
    BY <1>3
  <2> HIDE DEF low, high, D, opened
  <2>4. IsFiniteSet(opened) /\ Cardinality(opened) = IF low > high - 1 THEN 0 ELSE (high - 1) - low + 1
    BY <2>2, <2>3, <1>3, FS_Interval
  <2>5. QED BY <2>4, <1>2, <1>3, <1>6
<1>7. CASE ~WorkingDay(d)
  <2>1. opened = {}
    BY <1>7, WorkingDays DEF Open
  <2>2. QED BY <2>1, <1>2, <1>7, FS_EmptySet
<1>8. QED BY <1>6, <1>7

-----------------------------------------------------------------------------
(* OpenTime between two ticks.                                             *)
LEMMA OpenTimeType ==
  ASSUME NEW a \in Int, NEW b \in Int
  PROVE  IsFiniteSet({t \in a .. b - 1 : Open(t)}) /\ OpenTime(a, b) \in Nat
<1>1. b - 1 \in Int
  OBVIOUS
<1>2. IsFiniteSet(a .. b - 1)
  BY <1>1, FS_Interval
<1>3. IsFiniteSet({t \in a .. b - 1 : Open(t)})
  BY <1>2, FS_Subset
<1>4. QED BY <1>3, FS_CardinalityType DEF OpenTime

LEMMA OpenTimeGrows ==
  ASSUME NEW a \in Int, NEW b \in Int, NEW c \in Int, NEW d \in Int, c <= a, b <= d
  PROVE  OpenTime(a, b) <= OpenTime(c, d)
<1>1. {t \in a .. b - 1 : Open(t)} \subseteq {t \in c .. d - 1 : Open(t)}
  OBVIOUS
<1>2. QED BY <1>1, OpenTimeType, FS_Subset DEF OpenTime

LEMMA OpenTimeAdds ==
  ASSUME NEW a \in Int, NEW b \in Int, NEW c \in Int
  PROVE  OpenTime(a, c) <= OpenTime(a, b) + OpenTime(b, c)
<1> DEFINE S == {t \in a .. b - 1 : Open(t)}
           T == {t \in b .. c - 1 : Open(t)}
           U == {t \in a .. c - 1 : Open(t)}
<1>1. IsFiniteSet(S) /\ IsFiniteSet(T)
  BY OpenTimeType
<1>2. U \in SUBSET (S \cup T)
  OBVIOUS
<1> HIDE DEF S, T, U
<1>3. /\ IsFiniteSet(S \cup T) /\ IsFiniteSet(S \cap T)
      /\ Cardinality(S \cup T) = Cardinality(S) + Cardinality(T) - Cardinality(S \cap T)
  BY <1>1, FS_Union, FS_Intersection
<1>4. Cardinality(U) <= Cardinality(S \cup T) /\ IsFiniteSet(U)
  BY <1>2, <1>3, FS_Subset
<1>5. /\ Cardinality(S) \in Nat /\ Cardinality(T) \in Nat /\ Cardinality(S \cap T) \in Nat
      /\ Cardinality(S \cup T) \in Nat /\ Cardinality(U) \in Nat
  BY <1>1, <1>3, <1>4, FS_CardinalityType
<1>6. Cardinality(U) <= Cardinality(S) + Cardinality(T)
  BY <1>3, <1>4, <1>5
<1>7. QED BY <1>6 DEF S, T, U, OpenTime

LEMMA OpenTimeFits ==
  ASSUME NEW a \in Int, NEW b \in Int, a <= b
  PROVE  OpenTime(a, b) <= b - a
<1>1. {t \in a .. b - 1 : Open(t)} \in SUBSET (a .. b - 1) /\ b - 1 \in Int
  OBVIOUS
<1>2. IsFiniteSet(a .. b - 1) /\ Cardinality(a .. b - 1) = IF a > b - 1 THEN 0 ELSE (b - 1) - a + 1
  BY <1>1, FS_Interval
<1>3. Cardinality({t \in a .. b - 1 : Open(t)}) <= Cardinality(a .. b - 1)
  BY <1>1, <1>2, FS_Subset
<1>4. OpenTime(a, b) <= Cardinality(a .. b - 1)
  BY <1>3 DEF OpenTime
<1>5. OpenTime(a, b) \in Nat
  BY OpenTimeType
<1>6. QED BY <1>2, <1>4, <1>5

LEMMA NothingOpen ==
  ASSUME NEW a \in Int, NEW b \in Int, \A t \in a .. b - 1 : ~Open(t)
  PROVE  OpenTime(a, b) = 0
<1>1. {t \in a .. b - 1 : Open(t)} = {}
  OBVIOUS
<1>2. QED BY <1>1, FS_EmptySet DEF OpenTime

(* The open ticks of the days before a day, and the part of that day.      *)
OpenBefore(start, end, d) == {t \in start .. end - 1 : Open(t) /\ Day(t) < d}

LEMMA OneDayMore ==
  ASSUME NEW start \in Int, NEW end \in Int, NEW d \in Int
  PROVE  Cardinality(OpenBefore(start, end, d + 1))
           = Cardinality(OpenBefore(start, end, d)) + Part(start, end, d)
<1> DEFINE S == OpenBefore(start, end, d)
           T == {t \in start .. end - 1 : Open(t) /\ Day(t) = d}
           U == OpenBefore(start, end, d + 1)
<1>1. \A t \in start .. end - 1 : Day(t) \in Int
  BY DayBounds
<1>2. U = S \cup T /\ S \cap T = {}
  BY <1>1 DEF OpenBefore
<1>3. IsFiniteSet(S)
  <2>1. S \in SUBSET {t \in start .. end - 1 : Open(t)}
    BY DEF OpenBefore
  <2>2. QED BY <2>1, OpenTimeType, FS_Subset
<1>4. IsFiniteSet(T) /\ Cardinality(T) = Part(start, end, d)
  BY PartIsOpenTime
<1> HIDE DEF S, T, U
<1>5. Cardinality(U) = Cardinality(S) + Cardinality(T) - Cardinality({})
  BY <1>2, <1>3, <1>4, FS_Union
<1>6. Cardinality({}) = 0 /\ Cardinality(S) \in Nat /\ Cardinality(T) \in Nat
  BY <1>3, <1>4, FS_EmptySet, FS_CardinalityType
<1>7. QED BY <1>4, <1>5, <1>6 DEF S, U

(* business_seconds is right: its loop over the days counts the open ticks *)
(* between two instants, for any calendar, business hours and number of    *)
(* days and wherever in a day they lie.                                    *)
THEOREM BusinessTimeIsOpenTime ==
  ASSUME NEW start \in Int, NEW end \in Int
  PROVE  BusinessTime(start, end) = OpenTime(start, end)
<1>1. CASE end <= start
  <2>1. OpenTime(start, end) = 0
    BY <1>1, NothingOpen
  <2>2. QED BY <1>1, <2>1 DEF BusinessTime
<1>2. CASE start < end
  <2> DEFINE Sums(f) ==
               f = [n \in Nat |-> IF n = 0 THEN 0
                                 ELSE f[n - 1] + Part(start, end, Day(start) + n - 1)]
             total == CHOOSE f : Sums(f)
             count == [n \in Nat |-> Cardinality(OpenBefore(start, end, Day(start) + n))]
             last == Day(end) - Day(start) + 1
  <2>1. Day(start) \in Int /\ Day(end) \in Int /\ Day(start) <= Day(end)
    BY <1>2, DayBounds, DaysFollow
  <2>2. count[0] = 0
    <3>1. \A t \in start .. end - 1 : Day(start) <= Day(t) /\ Day(t) \in Int
      BY DayBounds, DaysFollow
    <3>2. OpenBefore(start, end, Day(start) + 0) = {}
      BY <2>1, <3>1 DEF OpenBefore
    <3>3. QED BY <3>2, FS_EmptySet
  <2>3. ASSUME NEW n \in Nat, n # 0
        PROVE  count[n] = count[n - 1] + Part(start, end, Day(start) + n - 1)
    <3>1. Day(start) + n - 1 \in Int /\ n - 1 \in Nat
          /\ (Day(start) + n - 1) + 1 = Day(start) + n /\ Day(start) + (n - 1) = Day(start) + n - 1
      BY <2>1, <2>3
    <3>2. QED BY <3>1, OneDayMore
  <2>4. Sums(count)
    <3>1. count = [n \in Nat |-> count[n]]
      OBVIOUS
    <3>2. ASSUME NEW n \in Nat
          PROVE  count[n] = IF n = 0 THEN 0 ELSE count[n - 1] + Part(start, end, Day(start) + n - 1)
      BY <2>2, <2>3
    <3> HIDE DEF count
    <3>3. QED BY <3>1, <3>2
  <2>5. Sums(total)
    BY <2>4
  <2>6. \A n \in Nat : total[n] = count[n]
    <3> DEFINE wrong == {n \in Nat : total[n] # count[n]}
    <3>1. \A n \in Nat : total[n] = IF n = 0 THEN 0 ELSE total[n - 1] + Part(start, end, Day(start) + n - 1)
      <4> HIDE DEF total
      <4>1. QED BY <2>5
    <3> HIDE DEF total, count
    <3>2. SUFFICES ASSUME wrong # {} PROVE FALSE
      OBVIOUS
    <3>3. PICK n \in wrong : \A k \in wrong : ~(<<k, n>> \in OpToRel(<, Nat))
      BY <3>2, WFMin, NatLessThanWellFounded
    <3>4. n \in Nat /\ \A k \in Nat : k < n => total[k] = count[k]
      BY <3>3 DEF OpToRel
    <3>5. CASE n = 0
      BY <2>2, <3>1, <3>3, <3>5
    <3>6. CASE n # 0
      <4>1. n - 1 \in Nat /\ n - 1 < n
        BY <3>4, <3>6
      <4>2. total[n - 1] = count[n - 1]
        BY <3>4, <4>1
      <4>3. total[n] = count[n]
        BY <2>3, <3>1, <3>4, <3>6, <4>2
      <4>4. QED BY <3>3, <4>3
    <3>7. QED BY <3>5, <3>6
  <2>7. last \in Nat /\ total[last] = count[last]
    BY <2>1, <2>6
  <2>8. count[last] = OpenTime(start, end)
    <3>1. Day(start) + last = Day(end) + 1
      BY <2>1
    <3>2. \A t \in start .. end - 1 : Day(t) \in Int /\ Day(t) <= Day(end)
      BY DayBounds, DaysFollow
    <3>3. OpenBefore(start, end, Day(end) + 1) = {t \in start .. end - 1 : Open(t)}
      BY <2>1, <3>2 DEF OpenBefore
    <3> HIDE DEF last
    <3>4. QED BY <2>7, <3>1, <3>3 DEF OpenTime
  <2>9. QED BY <1>2, <2>7, <2>8 DEF BusinessTime
<1>3. QED BY <1>1, <1>2
-----------------------------------------------------------------------------
(* The largest of the datapoints.                                          *)
LEMMA MaxExists ==
  ASSUME NEW n \in Nat, NEW S \in SUBSET (0 .. n), S # {}
  PROVE  Max(S) \in S /\ \A g \in S : g <= Max(S)
<1> DEFINE gapsBelow == {n - g : g \in S}
<1>1. gapsBelow \subseteq Nat /\ gapsBelow # {}
  <2>1. \A g \in S : n - g \in Nat
    OBVIOUS
  <2>2. QED BY <2>1
<1>2. PICK x \in gapsBelow : \A y \in gapsBelow : ~(<<y, x>> \in OpToRel(<, Nat))
  <2> HIDE DEF gapsBelow
  <2>1. QED BY <1>1, WFMin, NatLessThanWellFounded
<1>3. PICK m \in S : x = n - m
  BY <1>2
<1>4. \A g \in S : g <= m
  <2>1. ASSUME NEW g \in S PROVE g <= m
    <3>1. n - g \in Nat /\ n - m \in Nat /\ ~(n - g < n - m)
      BY <1>1, <1>2, <1>3 DEF OpToRel
    <3>2. QED BY <3>1
  <2>2. QED BY <2>1
<1>5. \E h \in S : \A g \in S : h >= g
  BY <1>4
<1>6. Max(S) \in S /\ \A g \in S : Max(S) >= g
  BY <1>5 DEF Max
<1>7. QED BY <1>6

LEMMA MeasureIsType ==
  ASSUME TypeOK, lastInbound # Never
  PROVE  BusinessTime(lastInbound, detector.asOf) \in 0 .. now
<1>1. lastInbound \in Int /\ 0 <= lastInbound /\ detector.asOf \in 0 .. now /\ now \in Nat
  BY DEF TypeOK
<1> DEFINE a == lastInbound  b == detector.asOf
<1>2. BusinessTime(a, b) = OpenTime(a, b) /\ OpenTime(a, b) \in Nat
  <2>1. a \in Int /\ b \in Int
    BY <1>1
  <2> HIDE DEF a, b
  <2>2. QED BY <2>1, BusinessTimeIsOpenTime, OpenTimeType
<1>3. CASE a <= b
  <2>1. OpenTime(a, b) <= b - a
    BY <1>1, <1>3, OpenTimeFits
  <2> HIDE DEF a, b
  <2>2. QED BY <1>1, <1>2, <2>1 DEF a, b
<1>4. CASE b < a
  <2>1. OpenTime(a, b) = 0
    BY <1>1, <1>4, NothingOpen
  <2>2. QED BY <1>1, <1>2, <2>1
<1>5. QED BY <1>1, <1>3, <1>4

LEMMA TypeInit == Init => TypeOK
<1> SUFFICES ASSUME Init PROVE TypeOK
  OBVIOUS
<1>1. now \in 0 .. MaxTick /\ lastInbound \in (0 .. now) \cup {Never}
  BY WatchAssumption DEF Init
<1>2. detector \in [pc : {"off", "query", "put"}, asOf : 0 .. now, gap : 0 .. now]
  BY DEF Init, Idle
<1>3. gaps \subseteq 0 .. now /\ rewriter \in {"off", "on", "lasting"}
      /\ canary \in {"off", "begun", "chatting", "kept", "changed"} /\ verdicts \subseteq {0, 1}
  BY DEF Init
<1>4. gapAlarm \in BOOLEAN /\ chat \in BOOLEAN /\ canaryAlarm \in BOOLEAN
  BY Zenon DEF Init
<1>5. QED BY <1>1, <1>2, <1>3, <1>4, Zenon DEF TypeOK

DetectorType == detector \in [pc : {"off", "query", "put"}, asOf : 0 .. now, gap : 0 .. now]

CanaryType ==
  /\ rewriter \in {"off", "on", "lasting"} /\ chat \in BOOLEAN
  /\ canary \in {"off", "begun", "chatting", "kept", "changed"}
  /\ verdicts \subseteq {0, 1} /\ canaryAlarm \in BOOLEAN

LEMMA DetectorKeepsTypes ==
  ASSUME TypeOK, DetectorStart \/ LatestInbound \/ PutGap \/ DetectorFails \/ Inbound
  PROVE  TypeOK'
<1>1. now' = now /\ now \in Nat /\ now \in 0 .. MaxTick
  BY WatchAssumption DEF TypeOK, DetectorStart, LatestInbound, PutGap, DetectorFails, Inbound
<1>2. UNCHANGED <<gapAlarm, rewriter, chat, canary, verdicts, canaryAlarm>>
  BY DEF DetectorStart, LatestInbound, PutGap, DetectorFails, Inbound, canaryVars
<1>3. lastInbound' \in (0 .. now') \cup {Never}
  BY <1>1 DEF TypeOK, DetectorStart, LatestInbound, PutGap, DetectorFails, Inbound
<1>4. gaps' \subseteq 0 .. now'
  BY <1>1 DEF TypeOK, DetectorStart, LatestInbound, PutGap, DetectorFails, Inbound
<1>5. DetectorType'
  <2>1. CASE DetectorStart
    <3>1. detector' = [pc |-> "query", asOf |-> now, gap |-> 0]
      BY <2>1 DEF DetectorStart, Idle
    <3>2. QED BY <1>1, <3>1 DEF DetectorType
  <2>2. CASE LatestInbound
    <3>1. CASE lastInbound = Never
      BY <1>1, <2>2, <3>1 DEF LatestInbound, Idle, DetectorType
    <3>2. CASE lastInbound # Never
      <4>1. BusinessTime(lastInbound, detector.asOf) \in 0 .. now
        BY <3>2, MeasureIsType
      <4>2. QED BY <1>1, <2>2, <3>2, <4>1 DEF LatestInbound, TypeOK, DetectorType
    <3>3. QED BY <3>1, <3>2
  <2>3. CASE detector' = Idle
    BY <1>1, <2>3 DEF Idle, DetectorType
  <2>4. CASE Inbound
    BY <1>1, <2>4 DEF Inbound, TypeOK, DetectorType
  <2>5. QED BY <2>1, <2>2, <2>3, <2>4 DEF PutGap, DetectorFails
<1>6. QED BY <1>1, <1>2, <1>3, <1>4, <1>5, Zenon DEF TypeOK, DetectorType

LEMMA CanaryKeepsTypes ==
  ASSUME TypeOK,
         Rewrite \/ CanaryStart \/ CreateChat \/ FindChatId \/ SendMessage \/ ReadBack \/ CanaryFails
  PROVE  TypeOK'
<1>1. UNCHANGED <<now, lastInbound, detector, gaps, gapAlarm, canaryAlarm>>
  BY DEF Rewrite, CanaryStart, CreateChat, FindChatId, SendMessage, ReadBack, CanaryFails, gapVars
<1>2. rewriter' \in {"off", "on", "lasting"}
      /\ canary' \in {"off", "begun", "chatting", "kept", "changed"}
  BY DEF TypeOK, Rewrite, CanaryStart, CreateChat, FindChatId, SendMessage, ReadBack, CanaryFails
<1>3. chat' \in BOOLEAN
  <2>1. chat' = chat \/ chat' = TRUE
    BY DEF Rewrite, CanaryStart, CreateChat, FindChatId, SendMessage, ReadBack, CanaryFails
  <2>2. QED BY <2>1, Zenon DEF TypeOK
<1>4. verdicts' \subseteq {0, 1}
  <2>1. CASE ReadBack
    BY <2>1 DEF TypeOK, ReadBack
  <2>2. CASE verdicts' = verdicts
    BY <2>2 DEF TypeOK
  <2>3. QED BY <2>1, <2>2 DEF Rewrite, CanaryStart, CreateChat, FindChatId, SendMessage, CanaryFails
<1>5. QED BY <1>1, <1>2, <1>3, <1>4, Zenon DEF TypeOK

LEMMA TickKeepsTypes ==
  ASSUME TypeOK, Tick
  PROVE  TypeOK'
<1>1. now \in Nat /\ now' = now + 1 /\ now' \in 0 .. MaxTick /\ 0 .. now \subseteq 0 .. now'
  BY WatchAssumption DEF TypeOK, Tick
<1>2. UNCHANGED <<lastInbound, detector, chat, canary>> /\ gaps' = {}
  BY DEF Tick
<1>3. lastInbound' \in (0 .. now') \cup {Never} /\ DetectorType'
  BY <1>1, <1>2 DEF TypeOK, DetectorType
<1>4. rewriter' \in {"off", "on", "lasting"} /\ verdicts' \subseteq {0, 1}
  BY DEF TypeOK, Tick
<1>5. gapAlarm' \in BOOLEAN
  BY Zenon DEF Tick, GapBreaching
<1>6. canaryAlarm' \in BOOLEAN
  BY Zenon DEF Tick, CanaryBreaching, TypeOK
<1>7. gaps' \subseteq 0 .. now'
  BY <1>2
<1>8. QED BY <1>1, <1>2, <1>3, <1>4, <1>5, <1>6, <1>7, Zenon DEF TypeOK, DetectorType

LEMMA TypeStep == TypeOK /\ [Next]_vars => TypeOK'
<1> SUFFICES ASSUME TypeOK, [Next]_vars PROVE TypeOK'
  OBVIOUS
<1>1. CASE UNCHANGED vars
  BY <1>1 DEF vars, gapVars, canaryVars, TypeOK
<1>2. QED BY <1>1, DetectorKeepsTypes, CanaryKeepsTypes, TickKeepsTypes DEF Next

-----------------------------------------------------------------------------
(* What has been measured, or will be put, is no less than the open time   *)
(* since the newest message, up to the period before.                      *)
Measured ==
  /\ detector.pc # "off" => now - 1 <= detector.asOf
  /\ lastInbound = Never => gaps = {} /\ detector.pc # "put"
  /\ lastInbound # Never =>
       /\ \A g \in gaps : OpenTime(lastInbound, now - 1) <= g
       /\ detector.pc = "put" => OpenTime(lastInbound, detector.asOf) <= detector.gap

(* A later run measures no more than an earlier one and the period that    *)
(* has begun; after a period without alarm every gap is below the threshold*)
(* but for the open time of the last two periods.                          *)
Quiet ==
  /\ detector.pc = "put" => \A g \in gaps : detector.gap <= g + OpenTime(now - 1, now)
  /\ ~gapAlarm =>
       /\ lastInbound # Never
       /\ OpenTime(lastInbound, now) < Threshold + OpenTime(now - 2, now)
       /\ detector.pc = "put" => detector.gap < Threshold + OpenTime(now - 2, now)
       /\ \A g \in gaps : g < Threshold + OpenTime(now - 2, now)

GapInv == TypeOK /\ Measured /\ Quiet

LEMMA GapNumbers ==
  ASSUME TypeOK
  PROVE  /\ now \in Nat /\ now - 1 \in Int /\ now - 2 \in Int /\ now + 1 \in Int
         /\ Threshold \in Nat /\ Threshold > 0
         /\ gaps \subseteq Nat /\ detector.asOf \in 0 .. now /\ detector.gap \in Nat
         /\ lastInbound # Never => lastInbound \in 0 .. now
<1>1. now \in Nat /\ Threshold \in Nat /\ Threshold > 0
  BY WatchAssumption DEF TypeOK
<1>2. detector.asOf \in 0 .. now /\ detector.gap \in 0 .. now /\ gaps \subseteq 0 .. now
      /\ lastInbound \in (0 .. now) \cup {Never}
  BY DEF TypeOK
<1>3. QED BY <1>1, <1>2

(* A gap that is measured now.                                             *)
LEMMA GapIsMeasured ==
  ASSUME GapInv, lastInbound # Never, detector.pc = "query"
  PROVE  LET gap == BusinessTime(lastInbound, detector.asOf) IN
           /\ gap = OpenTime(lastInbound, detector.asOf)
           /\ \A g \in gaps : gap <= g + OpenTime(now - 1, now)
           /\ ~gapAlarm => gap < Threshold + OpenTime(now - 2, now)
<1> DEFINE l == lastInbound  b == detector.asOf  gap == BusinessTime(l, b)
<1>1. l \in Int /\ b \in Int /\ b <= now /\ now \in Int /\ now - 1 \in Int /\ now - 2 \in Int
  BY GapNumbers DEF GapInv
<1>2. /\ \A g \in gaps : g \in Nat /\ OpenTime(l, now - 1) <= g
      /\ ~gapAlarm => OpenTime(l, now) < Threshold + OpenTime(now - 2, now)
  BY GapNumbers DEF GapInv, Measured, Quiet
<1>3. Threshold \in Nat
  BY WatchAssumption
<1> HIDE DEF l, b
<1>4. gap = OpenTime(l, b)
  BY <1>1, BusinessTimeIsOpenTime
<1>5. OpenTime(l, b) <= OpenTime(l, now)
  BY <1>1, OpenTimeGrows
<1>6. OpenTime(l, now) <= OpenTime(l, now - 1) + OpenTime(now - 1, now)
  BY <1>1, OpenTimeAdds
<1>7. /\ OpenTime(l, b) \in Nat /\ OpenTime(l, now) \in Nat /\ OpenTime(l, now - 1) \in Nat
      /\ OpenTime(now - 1, now) \in Nat /\ OpenTime(now - 2, now) \in Nat
  BY <1>1, OpenTimeType
<1> HIDE DEF gap
<1>8. /\ \A g \in gaps : gap <= g + OpenTime(now - 1, now)
      /\ ~gapAlarm => gap < Threshold + OpenTime(now - 2, now)
  BY <1>2, <1>3, <1>4, <1>5, <1>6, <1>7
<1>9. QED BY <1>4, <1>8 DEF gap, l, b

LEMMA DetectorKeepsGapInv ==
  ASSUME GapInv, DetectorStart \/ LatestInbound \/ PutGap \/ DetectorFails
  PROVE  (Measured /\ Quiet)'
<1>1. now' = now /\ lastInbound' = lastInbound /\ gapAlarm' = gapAlarm /\ TypeOK /\ Measured /\ Quiet
  BY DEF GapInv, DetectorStart, LatestInbound, PutGap, DetectorFails
<1>2. CASE DetectorStart
  <2>1. detector'.pc = "query" /\ detector'.asOf = now /\ gaps' = gaps
    BY <1>2 DEF DetectorStart, Idle
  <2>2. now - 1 <= now
    BY <1>1, GapNumbers
  <2>3. QED BY <1>1, <2>1, <2>2 DEF Measured, Quiet
<1>3. CASE LatestInbound /\ lastInbound = Never
  <2>1. detector'.pc = "off" /\ gaps' = gaps
    BY <1>3 DEF LatestInbound, Idle
  <2>2. QED BY <1>1, <2>1 DEF Measured, Quiet
<1>4. CASE LatestInbound /\ lastInbound # Never
  <2> DEFINE gap == BusinessTime(lastInbound, detector.asOf)
  <2>1. detector.pc = "query" /\ gaps' = gaps /\ detector' = [detector EXCEPT !.pc = "put", !.gap = gap]
    BY <1>4 DEF LatestInbound
  <2> HIDE DEF gap
  <2>2. detector'.pc = "put" /\ detector'.asOf = detector.asOf /\ detector'.gap = gap
    BY <1>1, <2>1 DEF TypeOK
  <2>3. /\ gap = OpenTime(lastInbound, detector.asOf)
        /\ \A g \in gaps : gap <= g + OpenTime(now - 1, now)
        /\ ~gapAlarm => gap < Threshold + OpenTime(now - 2, now)
    BY <1>4, <2>1, GapIsMeasured DEF gap
  <2>4. OpenTime(lastInbound, detector.asOf) <= gap
    <3>1. lastInbound \in Int /\ detector.asOf \in Int
      BY <1>1, <1>4, GapNumbers
    <3>2. OpenTime(lastInbound, detector.asOf) \in Nat
      BY <3>1, OpenTimeType
    <3>3. QED BY <2>3, <3>2
  <2>5. Measured'
    BY <1>1, <1>4, <2>1, <2>2, <2>4 DEF Measured
  <2>6. Quiet'
    BY <1>1, <1>4, <2>1, <2>2, <2>3 DEF Quiet
  <2>7. QED BY <2>5, <2>6
<1>5. CASE PutGap
  <2>1. /\ detector.pc = "put" /\ detector'.pc = "off" /\ gaps' = gaps \cup {detector.gap}
    BY <1>5 DEF PutGap, Idle
  <2>2. lastInbound # Never
    BY <1>1, <2>1 DEF Measured
  <2>3. OpenTime(lastInbound, now - 1) <= detector.gap
    <3>1. OpenTime(lastInbound, now - 1) <= OpenTime(lastInbound, detector.asOf)
      BY <1>1, <2>1, <2>2, GapNumbers, OpenTimeGrows DEF Measured
    <3>2. OpenTime(lastInbound, detector.asOf) <= detector.gap
      BY <1>1, <2>1, <2>2 DEF Measured
    <3>3. OpenTime(lastInbound, now - 1) \in Nat /\ OpenTime(lastInbound, detector.asOf) \in Nat
          /\ detector.gap \in Nat
      <4>1. lastInbound \in Int /\ now - 1 \in Int /\ detector.asOf \in Int /\ detector.gap \in Nat
        BY <1>1, <2>2, GapNumbers
      <4>2. QED BY <4>1, OpenTimeType
    <3>4. QED BY <3>1, <3>2, <3>3
  <2>4. Measured'
    BY <1>1, <2>1, <2>2, <2>3 DEF Measured
  <2>5. Quiet'
    BY <1>1, <2>1 DEF Quiet
  <2>6. QED BY <2>4, <2>5
<1>6. CASE DetectorFails
  <2>1. detector'.pc = "off" /\ gaps' = gaps
    BY <1>6 DEF DetectorFails, Idle
  <2>2. QED BY <1>1, <2>1 DEF Measured, Quiet
<1>7. QED BY <1>2, <1>3, <1>4, <1>5, <1>6

(* A new message makes what was measured an overstatement.                 *)
LEMMA InboundKeepsGapInv ==
  ASSUME GapInv, Inbound
  PROVE  (Measured /\ Quiet)'
<1>1. /\ lastInbound' = now /\ UNCHANGED <<now, detector, gaps, gapAlarm>>
      /\ TypeOK /\ Measured /\ Quiet
  BY DEF GapInv, Inbound
<1>2. now \in Nat /\ now # Never /\ detector.asOf \in 0 .. now /\ gaps \subseteq Nat /\ detector.gap \in Nat
  BY <1>1, GapNumbers, WatchAssumption
<1>3. /\ OpenTime(now, now - 1) = 0 /\ OpenTime(now, now) = 0 /\ OpenTime(now, detector.asOf) = 0
  BY <1>2, NothingOpen
<1>4. Measured'
  BY <1>1, <1>2, <1>3 DEF Measured
<1>5. Quiet'
  <2>1. 0 < Threshold + OpenTime(now - 2, now)
    <3>1. Threshold \in Nat /\ Threshold > 0 /\ now - 2 \in Int /\ now \in Int
      BY <1>1, GapNumbers
    <3>2. OpenTime(now - 2, now) \in Nat
      BY <3>1, OpenTimeType
    <3>3. QED BY <3>1, <3>2
  <2>2. QED BY <1>1, <1>2, <1>3, <2>1 DEF Quiet
<1>6. QED BY <1>4, <1>5

(* A period that ends without an alarm had a datapoint below the threshold.*)
LEMMA NoAlarmMeans ==
  ASSUME TypeOK, ~GapBreaching
  PROVE  gaps # {} /\ \A g \in gaps : g < Threshold
<1>1. gaps # {} /\ ~(Max(gaps) >= Threshold)
  BY DEF GapBreaching
<1>2. Max(gaps) \in gaps /\ \A g \in gaps : g <= Max(gaps)
  BY <1>1, GapNumbers, MaxExists DEF TypeOK
<1>3. QED BY <1>1, <1>2, GapNumbers

LEMMA TickKeepsGapInv ==
  ASSUME GapInv, Tick
  PROVE  (Measured /\ Quiet)'
<1>1. /\ now' = now + 1 /\ gaps' = {} /\ UNCHANGED <<lastInbound, detector>>
      /\ gapAlarm' = GapBreaching
      /\ detector.pc # "off" => detector.asOf = now
      /\ TypeOK /\ Measured /\ Quiet
  BY DEF GapInv, Tick
<1>2. now \in Nat /\ now' - 1 = now /\ now' - 2 = now - 1
  BY <1>1, GapNumbers
<1>3. Measured'
  BY <1>1, <1>2 DEF Measured
<1>4. CASE gapAlarm'
  <2>1. \A h \in gaps' : FALSE
    BY <1>1
  <2>2. (~gapAlarm)' => FALSE
    BY <1>4
  <2>3. QED BY <1>3, <2>1, <2>2 DEF Quiet
<1>5. CASE ~gapAlarm'
  <2>1. gaps # {} /\ \A g \in gaps : g < Threshold
    BY <1>1, <1>5, NoAlarmMeans
  <2>2. PICK g \in gaps : TRUE
    BY <2>1
  <2>3. lastInbound # Never /\ OpenTime(lastInbound, now - 1) <= g /\ g < Threshold
    BY <1>1, <2>1, <2>2 DEF Measured
  <2>4. lastInbound \in Int /\ now - 1 \in Int /\ now + 1 \in Int /\ g \in Nat
        /\ Threshold \in Nat /\ detector.gap \in Nat
    BY <1>1, <2>3, GapNumbers
  <2>5. OpenTime(lastInbound, now + 1) <= OpenTime(lastInbound, now - 1) + OpenTime(now - 1, now + 1)
    BY <2>4, OpenTimeAdds
  <2>6. OpenTime(now - 1, now) <= OpenTime(now - 1, now + 1)
    BY <1>2, <2>4, OpenTimeGrows
  <2>7. /\ OpenTime(lastInbound, now + 1) \in Nat /\ OpenTime(lastInbound, now - 1) \in Nat
        /\ OpenTime(now - 1, now + 1) \in Nat /\ OpenTime(now - 1, now) \in Nat
    <3>1. now \in Int
      BY <1>2
    <3>2. QED BY <2>4, <3>1, OpenTimeType
  <2>8. OpenTime(lastInbound, now + 1) < Threshold + OpenTime(now - 1, now + 1)
    BY <2>3, <2>4, <2>5, <2>7
  <2>9. detector.pc = "put" => detector.gap < Threshold + OpenTime(now - 1, now + 1)
    <3>1. detector.pc = "put" => detector.gap <= g + OpenTime(now - 1, now)
      BY <1>1, <2>2 DEF Quiet
    <3>2. QED BY <2>3, <2>4, <2>6, <2>7, <3>1
  <2>10. /\ OpenTime(lastInbound', now') < Threshold + OpenTime(now' - 2, now')
         /\ detector'.pc = "put" => detector'.gap < Threshold + OpenTime(now' - 2, now')
    BY <1>1, <1>2, <2>8, <2>9
  <2>11. lastInbound' # Never /\ gaps' = {}
    BY <1>1, <2>3
  <2>12. QED BY <1>3, <2>10, <2>11 DEF Quiet
<1>6. QED BY <1>3, <1>4, <1>5

LEMMA GapInvInit == Init => GapInv
<1>1. ASSUME Init PROVE Measured
  BY <1>1 DEF Init, Idle, Measured
<1>2. ASSUME Init PROVE Quiet
  <2>1. gapAlarm = TRUE /\ detector.pc = "off"
    BY <1>2 DEF Init, Idle
  <2>2. QED BY <2>1 DEF Quiet
<1>3. QED BY <1>1, <1>2, TypeInit DEF GapInv

LEMMA GapInvStep == GapInv /\ [Next]_vars => GapInv'
<1> SUFFICES ASSUME GapInv, [Next]_vars PROVE (Measured /\ Quiet)'
  BY TypeStep DEF GapInv
<1>1. CASE UNCHANGED <<now, gapVars>>
  BY <1>1 DEF gapVars, GapInv, Measured, Quiet
<1>2. CASE Rewrite \/ CanaryStart \/ CreateChat \/ FindChatId \/ SendMessage \/ ReadBack \/ CanaryFails
  BY <1>1, <1>2 DEF Rewrite, CanaryStart, CreateChat, FindChatId, SendMessage, ReadBack, CanaryFails
<1>3. CASE UNCHANGED vars
  BY <1>1, <1>3 DEF vars
<1>4. QED BY <1>2, <1>3, DetectorKeepsGapInv, InboundKeepsGapInv, TickKeepsGapInv DEF Next

NoTick == now' = now /\ gapAlarm' = gapAlarm

LEMMA TheClockTicks == [Next]_vars => Tick \/ NoTick
BY DEF Next, DetectorStart, LatestInbound, PutGap, DetectorFails, Inbound, Rewrite, CanaryStart,
       CreateChat, FindChatId, SendMessage, ReadBack, CanaryFails, NoTick, vars, gapVars

LEMMA SilenceStep ==
  ASSUME GapInv, [Next]_vars
  PROVE  now' # now =>
           (lastInbound = Never \/ OpenTime(lastInbound, now - 1) >= Threshold => gapAlarm')
<1> SUFFICES ASSUME now' # now, lastInbound = Never \/ OpenTime(lastInbound, now - 1) >= Threshold,
                    ~GapBreaching
             PROVE  FALSE
  BY TheClockTicks DEF Tick, NoTick
<1>1. gaps # {} /\ \A g \in gaps : g < Threshold
  BY NoAlarmMeans DEF GapInv
<1>2. PICK g \in gaps : TRUE
  BY <1>1
<1>3. lastInbound # Never /\ OpenTime(lastInbound, now - 1) <= g /\ g < Threshold
  BY <1>1, <1>2 DEF GapInv, Measured
<1>4. g \in Nat /\ Threshold \in Nat /\ OpenTime(lastInbound, now - 1) \in Nat
  <2>1. lastInbound \in Int /\ now - 1 \in Int /\ g \in Nat /\ Threshold \in Nat
    BY <1>2, <1>3, GapNumbers DEF GapInv
  <2>2. QED BY <2>1, OpenTimeType
<1>5. QED BY <1>3, <1>4

LEMMA QuietStep ==
  ASSUME GapInv, [Next]_vars
  PROVE  gapAlarm' /\ ~gapAlarm /\ gaps # {} => Open(now - 1) \/ Open(now - 2)
<1> SUFFICES ASSUME gapAlarm', ~gapAlarm, gaps # {}, ~Open(now - 1), ~Open(now - 2)
             PROVE  FALSE
  OBVIOUS
<1>1. GapBreaching
  BY TheClockTicks DEF Tick, NoTick
<1>2. Max(gaps) \in gaps /\ Max(gaps) >= Threshold
  BY <1>1, GapNumbers, MaxExists DEF GapBreaching, GapInv, TypeOK
<1>3. OpenTime(now - 2, now) = 0
  <2>1. now \in Nat /\ now - 2 \in Int
    BY GapNumbers DEF GapInv
  <2>2. \A t \in now - 2 .. now - 1 : t = now - 1 \/ t = now - 2
    BY <2>1
  <2>3. QED BY <2>1, <2>2, NothingOpen
<1>4. Max(gaps) < Threshold + 0
  BY <1>2, <1>3 DEF GapInv, Quiet
<1>5. QED BY <1>2, <1>4, GapNumbers DEF GapInv

(* The clock, the detector, the canary and their datapoints have their     *)
(* types; a gap is never more than the time that has passed.               *)
THEOREM TypeCorrect == Spec => []TypeOK
<1>1. QED BY TypeInit, TypeStep, PTL DEF Spec

(* Silent inbound transport pages, for any calendar, business hours and    *)
(* threshold, and wherever messages, failures and ticks fall between the   *)
(* steps of the detector.                                                  *)
THEOREM SilenceIsPaged == Spec => SilencePages
<1>1. GapInv /\ [Next]_vars =>
        [now' # now =>
           (lastInbound = Never \/ OpenTime(lastInbound, now - 1) >= Threshold => gapAlarm')]_vars
  BY SilenceStep
<1>2. QED BY <1>1, GapInvInit, GapInvStep, PTL DEF Spec, SilencePages

(* A night or a weekend never turns the alarm on while the detector        *)
(* reports, for any calendar, business hours and threshold.                *)
THEOREM QuietIsNoAlarm == Spec => QuietIsNotPaged
<1>1. GapInv /\ [Next]_vars =>
        [gapAlarm' /\ ~gapAlarm /\ gaps # {} => Open(now - 1) \/ Open(now - 2)]_vars
  BY QuietStep
<1>2. QED BY <1>1, GapInvInit, GapInvStep, PTL DEF Spec, QuietIsNotPaged
-----------------------------------------------------------------------------
(* While the rewriter has been on since the day began, the canary has found*)
(* no text kept, and none it has sent will be.                             *)
RewriteInv ==
  /\ verdicts \subseteq {0, 1}
  /\ rewriter = "lasting" => 1 \notin verdicts /\ canary # "kept"

LEMMA RewriteInvInit == Init => RewriteInv
BY DEF Init, RewriteInv

LEMMA RewriteInvStep == RewriteInv /\ [Next]_vars => RewriteInv'
<1> SUFFICES ASSUME RewriteInv, [Next]_vars PROVE RewriteInv'
  OBVIOUS
<1> USE DEF RewriteInv
<1>1. CASE DetectorStart \/ LatestInbound \/ PutGap \/ DetectorFails \/ Inbound
  BY <1>1 DEF DetectorStart, LatestInbound, PutGap, DetectorFails, Inbound, canaryVars
<1>2. CASE Rewrite
  BY <1>2 DEF Rewrite
<1>3. CASE CanaryStart \/ CreateChat \/ FindChatId \/ CanaryFails
  BY <1>3 DEF CanaryStart, CreateChat, FindChatId, CanaryFails
<1>4. CASE SendMessage
  BY <1>4 DEF SendMessage
<1>5. CASE ReadBack
  <2>1. PICK found \in BOOLEAN :
          verdicts' = verdicts \cup {IF Identical(found) THEN 1 ELSE 0}
    BY <1>5 DEF ReadBack
  <2>2. canary' = "off" /\ rewriter' = rewriter
    BY <1>5 DEF ReadBack
  <2>3. QED BY <2>1, <2>2 DEF Identical
<1>6. CASE Tick
  <2>1. CASE LastOfDay
    BY <1>6, <2>1 DEF Tick
  <2>2. CASE ~LastOfDay
    BY <1>6, <2>2 DEF Tick
  <2>3. QED BY <2>1, <2>2
<1>7. CASE UNCHANGED vars
  BY <1>7 DEF vars, canaryVars
<1>8. QED BY <1>1, <1>2, <1>3, <1>4, <1>5, <1>6, <1>7 DEF Next

LEMMA MinOfZero == Min({0}) = 0
BY DEF Min

LEMMA NoticedStep ==
  ASSUME RewriteInv, [Next]_vars
  PROVE  now' # now /\ LastOfDay /\ rewriter = "lasting" => canaryAlarm'
<1> SUFFICES ASSUME now' # now, LastOfDay, rewriter = "lasting" PROVE canaryAlarm'
  OBVIOUS
<1>1. Tick
  BY DEF Next, DetectorStart, LatestInbound, PutGap, DetectorFails, Inbound, Rewrite, CanaryStart,
         CreateChat, FindChatId, SendMessage, ReadBack, CanaryFails, vars
<1>2. verdicts \in {{}, {0}}
  BY DEF RewriteInv
<1>3. CanaryBreaching
  BY <1>2, MinOfZero DEF CanaryBreaching
<1>4. QED BY <1>1, <1>3 DEF Tick

(* A rewriter that is on for a whole day is paged at its end, whatever the *)
(* canary met: it never counts a changed text, a failed send or a message  *)
(* it does not find as an all-clear.                                       *)
THEOREM RewritingIsNoticed == Spec => RewriteIsNoticed
<1>1. RewriteInv /\ [Next]_vars => [now' # now /\ LastOfDay /\ rewriter = "lasting" => canaryAlarm']_vars
  BY NoticedStep
<1>2. QED BY <1>1, RewriteInvInit, RewriteInvStep, PTL DEF Spec, RewriteIsNoticed
=============================================================================
