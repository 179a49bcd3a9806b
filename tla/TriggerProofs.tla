---------------------------- MODULE TriggerProofs ----------------------------
(***************************************************************************)
(* The search for the next fire of a trigger finds the first of the times  *)
(* at which it is documented to fire, for any period, hour, length of the  *)
(* day and offsets of the zones: a trigger is accepted for arming exactly  *)
(* when it has a fire to come.                                             *)
(***************************************************************************)
EXTENDS TriggerRules, TLAPS

-----------------------------------------------------------------------------
(* Division. *)

LEMMA Division ==
    ASSUME NEW a \in Int, NEW b \in Nat \ {0}
    PROVE  \E q \in Int, r \in 0..b-1 : q = a \div b /\ r = a % b /\ a = b * q + r
<1>1. a \div b \in Int /\ a % b \in 0..b-1
  BY SMT
<1>2. PICK q \in Int : q = a \div b
  BY <1>1, Zenon
<1>3. PICK r \in 0..b-1 : r = a % b
  BY <1>1, Zenon
<1>4. a = b * q + r
  BY <1>2, <1>3, SMTT(30)
<1> QED
  BY <1>2, <1>3, <1>4, Zenon

\* Multiples of b are b apart.
LEMMA Ordered ==
    ASSUME NEW b \in Nat \ {0}, NEW q \in Int, NEW k \in Int, q < k
    PROVE  b * q + b <= b * k
<1>1. b * (k - q) >= b
  BY Z3
<1>2. b * (k - q) = b * k - b * q
  BY Z3
<1> QED
  BY <1>1, <1>2, Z3

LEMMA DivisionUnique ==
    ASSUME NEW b \in Nat \ {0}, NEW q \in Int, NEW k \in Int,
           NEW r \in 0..b-1, NEW x \in 0..b-1, b * q + r = b * k + x
    PROVE  r = x
<1>1. b * q \in Int /\ b * k \in Int
  OBVIOUS
<1>2. ~(q < k)
  <2> SUFFICES ASSUME q < k PROVE FALSE
    OBVIOUS
  <2> QED BY Ordered, <1>1
<1>3. ~(k < q)
  <2> SUFFICES ASSUME k < q PROVE FALSE
    OBVIOUS
  <2> QED BY Ordered, <1>1
<1>4. q = k
  BY <1>2, <1>3
<1> QED
  BY <1>1, <1>4

LEMMA Remainder ==
    ASSUME NEW a \in Int, NEW b \in Nat \ {0}, NEW x \in 0..b-1
    PROVE  a % b = x <=> \E q \in Int : a = b * q + x
<1>1. PICK q \in Int, r \in 0..b-1 : r = a % b /\ a = b * q + r
  BY Division, Zenon
<1>2. ASSUME NEW k \in Int, a = b * k + x
      PROVE  r = x
  <2>1. b * q + r = b * k + x
    BY <1>1, <1>2, Zenon
  <2> QED
    BY <2>1, DivisionUnique, Zenon
<1> QED
  BY <1>1, <1>2, Zenon

-----------------------------------------------------------------------------
(* The two searches. *)

LEMMA FirstStep ==
    ASSUME NEW first \in Int, NEW step \in Nat \ {0}, NEW now \in Int
    PROVE  LET n == NextStep(first, step, now)
           IN /\ n \in Int /\ n >= first /\ n >= now
              /\ n <= Later(first, now) + step - 1
              /\ (n - first) % step = 0
              /\ \A t \in Int : t >= first /\ t >= now /\ (t - first) % step = 0 => n <= t
<1> DEFINE n == NextStep(first, step, now)
           Fires(t) == \E q \in Int : t - first = step * q
<1>0. ASSUME NEW t \in Int PROVE (t - first) % step = 0 <=> Fires(t)
  <2>1. t - first \in Int /\ 0 \in 0..step-1
    OBVIOUS
  <2>2. (t - first) % step = 0 <=> \E q \in Int : t - first = step * q + 0
    BY <2>1, Remainder, Zenon
  <2>3. \A q \in Int : step * q + 0 = step * q
    OBVIOUS
  <2> QED
    BY <2>2, <2>3, Zenon
<1>1. CASE first >= now
  <2>1. n = first
    BY <1>1 DEF NextStep
  <2>2. n - first = step * 0
    BY <2>1
  <2>3. Fires(n)
    BY <2>2
  <2> HIDE DEF Fires, n
  <2>4. (n - first) % step = 0
    BY <2>1, <2>3, <1>0
  <2>5. n \in Int /\ n >= first /\ n >= now /\ n <= Later(first, now) + step - 1
    BY <2>1, <1>1 DEF Later
  <2>6. \A t \in Int : t >= first => n <= t
    BY <2>1
  <2> QED
    BY <2>4, <2>5, <2>6 DEF n
<1>2. CASE ~(first >= now)
  <2> DEFINE a == now - first + step - 1
  <2>1. a \in Int
    OBVIOUS
  <2>2. PICK k \in Int, r \in 0..step-1 : k = a \div step /\ a = step * k + r
    <3> HIDE DEF a
    <3> QED BY <2>1, Division, Zenon
  <2>3. n = first + k * step
    BY <1>2, <2>2, Zenon DEF NextStep
  <2>4. step * k \in Int /\ k * step = step * k
    BY Z3
  <2>5. PICK m \in Int : m = step * k
    BY <2>4, Zenon
  <2>6. n = first + m
    BY <2>3, <2>4, <2>5, Zenon
  <2>7. m + r = now - first + step - 1
    BY <2>2, <2>5, Zenon
  <2>8. n \in Int /\ n >= now /\ n >= first /\ n <= Later(first, now) + step - 1
    <3> HIDE DEF n
    <3> QED BY <2>6, <2>7, <1>2 DEF Later
  <2>9. n - first = step * k
    <3> HIDE DEF n
    <3> QED BY <2>6, <2>5
  <2>10. (n - first) % step = 0
    <3>1. Fires(n)
      BY <2>9, Zenon
    <3> HIDE DEF Fires, n
    <3> QED BY <3>1, <2>8, <1>0
  <2>11. ASSUME NEW t \in Int, t >= first, t >= now, (t - first) % step = 0
         PROVE  n <= t
    <3>1. PICK j \in Int : t - first = step * j
      BY <2>11, <1>0, Zenon
    <3>2. PICK i \in Int : i = step * j
      <4>1. step * j \in Int
        OBVIOUS
      <4> QED BY <4>1, Zenon
    <3>3. t = first + i
      BY <3>1, <3>2
    <3>4. ~(j < k)
      <4> SUFFICES ASSUME j < k PROVE FALSE
        OBVIOUS
      <4>1. i + step <= m
        BY Ordered, <3>2, <2>5, Zenon
      <4> QED
        BY <4>1, <3>3, <2>7, <2>11
    <3>5. CASE j = k
      <4>1. i = m
        BY <3>5, <3>2, <2>5, Zenon
      <4> HIDE DEF n
      <4> QED BY <4>1, <3>3, <2>6
    <3>6. CASE k < j
      <4>1. m + step <= i
        BY <3>6, Ordered, <3>2, <2>5, Zenon
      <4> HIDE DEF n
      <4> QED BY <4>1, <3>3, <2>6
    <3> QED
      BY <3>4, <3>5, <3>6
  <2> HIDE DEF n
  <2>12. \A t \in Int : t >= first /\ t >= now /\ (t - first) % step = 0 => n <= t
    BY <2>11, Zenon
  <2> QED
    BY <2>8, <2>10, <2>12, Zenon DEF n
<1> QED
  BY <1>1, <1>2

LEMMA FirstHour ==
    ASSUME NEW zone \in DOMAIN Offset, NEW hour \in 0..DayLength-1, NEW from \in Int
    PROVE  LET n == NextHour(hour, zone, from)
           IN /\ n \in Int /\ n >= from /\ n <= from + DayLength - 1
              /\ LocalHour(n, zone) = hour
              /\ \A t \in Int : t >= from /\ LocalHour(t, zone) = hour => n <= t
<1> DEFINE n == NextHour(hour, zone, from)
           a == hour - from - Offset[zone]
           Strikes(t) == \E q \in Int : t + Offset[zone] = DayLength * q + hour
<1>1. Offset[zone] \in Int /\ DayLength \in Nat \ {0}
  BY TimeAssumption
<1>2. PICK o \in Int : o = Offset[zone]
  BY <1>1, Zenon
<1>3. ASSUME NEW t \in Int PROVE LocalHour(t, zone) = hour <=> Strikes(t)
  <2>1. t + Offset[zone] \in Int
    BY <1>1
  <2> QED
    BY <2>1, <1>1, Remainder, Zenon DEF LocalHour
<1>4. a \in Int
  BY <1>1
<1>5. PICK q \in Int, r \in 0..DayLength-1 : r = a % DayLength /\ a = DayLength * q + r
  <2> HIDE DEF a
  <2> QED BY <1>1, <1>4, Division, Zenon
<1>6. n = from + r
  BY <1>5, Zenon DEF NextHour
<1>7. PICK m \in Int : m = DayLength * q
  <2>1. DayLength * q \in Int
    BY <1>1
  <2> QED BY <2>1, Zenon
<1>8. hour - from - o = m + r
  BY <1>2, <1>5, <1>7, Zenon
<1>9. n \in Int /\ n >= from /\ n <= from + DayLength - 1
  <2>1. r \in Int /\ r >= 0 /\ r <= DayLength - 1
    BY <1>1
  <2> HIDE DEF n
  <2> QED BY <1>1, <1>6, <2>1
<1>10. LocalHour(n, zone) = hour
  <2>1. PICK z \in Int : z = DayLength * (0 - q)
    <3>1. DayLength * (0 - q) \in Int
      BY <1>1
    <3> QED BY <3>1, Zenon
  <2>2. z = 0 - m
    BY <1>1, <1>7, <2>1, Z3
  <2>3. hour \in Int /\ r \in Int
    BY <1>1
  <2>4. n + o = z + hour
    <3> HIDE DEF n
    <3> QED BY <1>6, <1>8, <2>2, <2>3
  <2>5. Strikes(n)
    <3>1. 0 - q \in Int
      OBVIOUS
    <3>2. n + Offset[zone] = DayLength * (0 - q) + hour
      BY <2>4, <2>1, <1>2, Zenon
    <3> QED BY <3>1, <3>2, Zenon
  <2> HIDE DEF Strikes, n
  <2> QED BY <2>5, <1>9, <1>3, Zenon
<1>11. ASSUME NEW t \in Int, t >= from, LocalHour(t, zone) = hour
       PROVE  n <= t
  <2>1. PICK k \in Int : t + Offset[zone] = DayLength * k + hour
    BY <1>11, <1>3, Zenon
  <2>2. PICK i \in Int : i = DayLength * k
    <3>1. DayLength * k \in Int
      BY <1>1
    <3> QED BY <3>1, Zenon
  <2>3. t + o = i + hour
    BY <2>1, <2>2, <1>2, Zenon
  <2>4. PICK z \in Int : z = DayLength * (0 - q)
    <3>1. DayLength * (0 - q) \in Int
      BY <1>1
    <3> QED BY <3>1, Zenon
  <2>5. z = 0 - m
    BY <1>1, <1>7, <2>4, Z3
  <2>6. hour \in Int /\ r \in Int /\ r < DayLength
    BY <1>1
  <2>7. t - from = i - z + r
    BY <2>3, <2>5, <2>6, <1>8
  <2>8. ~(k < 0 - q)
    <3> SUFFICES ASSUME k < 0 - q PROVE FALSE
      OBVIOUS
    <3>1. 0 - q \in Int
      OBVIOUS
    <3>2. i + DayLength <= z
      BY <3>1, Ordered, <1>1, <2>2, <2>4, Zenon
    <3> QED
      BY <3>2, <2>6, <2>7, <1>1, <1>11
  <2>9. CASE k = 0 - q
    <3>1. i = z
      BY <2>9, <2>2, <2>4, Zenon
    <3> HIDE DEF n
    <3> QED BY <3>1, <2>6, <2>7, <1>6
  <2>10. CASE 0 - q < k
    <3>1. 0 - q \in Int
      OBVIOUS
    <3>2. z + DayLength <= i
      BY <3>1, <2>10, Ordered, <1>1, <2>2, <2>4, Zenon
    <3> HIDE DEF n
    <3> QED BY <3>2, <2>6, <2>7, <1>1, <1>6
  <2> QED
    BY <2>8, <2>9, <2>10
<1> HIDE DEF n
<1>12. \A t \in Int : t >= from /\ LocalHour(t, zone) = hour => n <= t
  BY <1>11, Zenon
<1> QED
  BY <1>9, <1>10, <1>12, Zenon DEF n

-----------------------------------------------------------------------------
(* Specifications. *)

HasLength(spec, Hours) ==
    spec.start_date # None /\ spec.end_date # None =>
        \E t \in Hours : InWindow(spec, t) /\ InWindow(spec, t + 1)

LEMMA LocalizedType ==
    ASSUME NEW date, IsDate(date), NEW zone \in DOMAIN Offset
    PROVE  Localize(date, zone) \in Int
  BY TimeAssumption DEF Localize, IsDate

LEMMA WindowLength ==
    ASSUME NEW spec, WellFormed(spec), ZoneKnown(spec), NEW Hours \in SUBSET Int,
           spec.start_date # None => Localize(spec.start_date, spec.timezone) \in Hours
    PROVE  WindowInOrder(spec) <=> HasLength(spec, Hours)
<1>1. CASE spec.start_date # None /\ spec.end_date # None
  <2>1. PICK s \in Int : s = Localize(spec.start_date, spec.timezone)
    BY <1>1, LocalizedType, Zenon DEF WellFormed, ZoneKnown
  <2>2. PICK e \in Int : e = Localize(spec.end_date, spec.timezone)
    BY <1>1, LocalizedType, Zenon DEF WellFormed, ZoneKnown
  <2>3. \A t : InWindow(spec, t) <=> t >= s /\ t <= e
    BY <1>1, <2>1, <2>2, Zenon DEF InWindow
  <2>4. s < e <=> \E t \in Hours : (t >= s /\ t <= e) /\ (t + 1 >= s /\ t + 1 <= e)
    <3>1. s < e => s >= s /\ s <= e /\ s + 1 >= s /\ s + 1 <= e
      OBVIOUS
    <3>2. \A t \in Int : t >= s /\ t + 1 <= e => s < e
      OBVIOUS
    <3>3. s \in Hours
      BY <1>1, <2>1
    <3> QED BY <3>1, <3>2, <3>3, Zenon
  <2> QED
    BY <1>1, <2>1, <2>2, <2>3, <2>4, Zenon DEF WindowInOrder, HasLength
<1>2. CASE ~(spec.start_date # None /\ spec.end_date # None)
  BY <1>2, Zenon DEF WindowInOrder, HasLength
<1> QED
  BY <1>1, <1>2

\* The next fire found is the first of the times of firing, and none is found
\* exactly when there is none.
LEMMA FoundIsFirst ==
    ASSUME NEW spec, WellFormed(spec), ZoneKnown(spec), ArgsFit(spec),
           spec.trigger_type # "date", NEW now \in Int
    PROVE  \E n \in Int :
              /\ n >= now
              /\ n \in LET from == Later(Opens(spec, now), now) IN from .. from + Period(spec) - 1
              /\ NextFire(spec, now) = IF Closed(spec, n) THEN {} ELSE {n}
              /\ ~Closed(spec, n) => FiresAt(spec, n, now)
              /\ \A t \in Int : t >= now /\ FiresAt(spec, t, now) => n <= t
<1> DEFINE first == Opens(spec, now)
           arg == spec.trigger_args[2]
           zone == spec.timezone
<1>1. zone \in DOMAIN Offset
  BY DEF ZoneKnown
<1>2. spec.start_date # None => Localize(spec.start_date, zone) \in Int
  BY <1>1, LocalizedType, Zenon DEF WellFormed
<1>3. spec.end_date # None => Localize(spec.end_date, zone) \in Int
  BY <1>1, LocalizedType, Zenon DEF WellFormed
<1>4. spec.start_date # None => first = Localize(spec.start_date, zone)
  BY DEF Opens
<1>5. ASSUME NEW t \in Int, ~Closed(spec, t), t >= first
      PROVE  InWindow(spec, t)
  BY <1>3, <1>4, <1>5 DEF InWindow, Closed
<1>6. CASE spec.trigger_type = "interval"
  <2>1. arg \in Nat \ {0}
    BY <1>6 DEF WellFormed
  <2>2. first \in Int
    BY <1>2, <1>6, <2>1 DEF Opens
  <2> DEFINE n == NextStep(first, arg, now)
  <2>3. /\ n \in Int /\ n >= first /\ n >= now
        /\ n <= Later(first, now) + arg - 1
        /\ (n - first) % arg = 0
        /\ \A t \in Int : t >= first /\ t >= now /\ (t - first) % arg = 0 => n <= t
    <3> HIDE DEF first, arg
    <3> QED BY <2>1, <2>2, FirstStep
  <2>4. NextFire(spec, now) = IF Closed(spec, n) THEN {} ELSE {n}
    BY <1>6 DEF NextFire
  <2>5. \A t : FiresAt(spec, t, now) <=>
                  InWindow(spec, t) /\ t >= first /\ (t - first) % arg = 0
    BY <1>6 DEF FiresAt
  <2>6. ~Closed(spec, n) => FiresAt(spec, n, now)
    <3> HIDE DEF n, first, arg
    <3> QED BY <2>3, <2>5, <1>5, Zenon
  <2>7. n \in LET from == Later(first, now) IN from .. from + Period(spec) - 1
    <3>1. Period(spec) = arg
      BY <1>6 DEF Period
    <3> HIDE DEF n, first, arg
    <3> QED BY <2>1, <2>2, <2>3, <3>1 DEF Later
  <2> HIDE DEF n, arg
  <2> QED
    BY <2>3, <2>4, <2>5, <2>6, <2>7, Zenon
<1>7. CASE spec.trigger_type = "cron"
  <2>1. arg \in 0..DayLength-1
    BY <1>7 DEF WellFormed
  <2>2. first \in Int
    BY <1>2, <1>7 DEF Opens
  <2> DEFINE from == Later(first, now)
             n == NextHour(arg, zone, from)
  <2>3. from \in Int /\ from >= first /\ from >= now
        /\ \A t \in Int : t >= first /\ t >= now => t >= from
    <3> HIDE DEF first
    <3> QED BY <2>2 DEF Later
  <2>4. /\ n \in Int /\ n >= from /\ n <= from + DayLength - 1
        /\ LocalHour(n, zone) = arg
        /\ \A t \in Int : t >= from /\ LocalHour(t, zone) = arg => n <= t
    <3> HIDE DEF from, arg, zone
    <3> QED BY <1>1, <2>1, <2>3, FirstHour
  <2>5. NextFire(spec, now) = IF Closed(spec, n) THEN {} ELSE {n}
    BY <1>7 DEF NextFire
  <2>6. \A t : FiresAt(spec, t, now) <=> InWindow(spec, t) /\ LocalHour(t, zone) = arg
    BY <1>7 DEF FiresAt
  <2>7. n >= first /\ n >= now
    <3> HIDE DEF n, from, first
    <3> QED BY <2>2, <2>3, <2>4
  <2>8. ~Closed(spec, n) => FiresAt(spec, n, now)
    <3> HIDE DEF n, from, first, arg, zone
    <3> QED BY <2>4, <2>6, <2>7, <1>5, Zenon
  <2>9. ASSUME NEW t \in Int, t >= now, FiresAt(spec, t, now)
        PROVE  n <= t
    <3>1. t >= first
      <4>1. CASE spec.start_date # None
        BY <4>1, <2>9, <2>6, <1>4, Zenon DEF InWindow
      <4>2. CASE spec.start_date = None
        <5>1. first = now
          BY <4>2, <1>7 DEF Opens
        <5> QED BY <5>1, <2>9
      <4> QED BY <4>1, <4>2
    <3> HIDE DEF n, from, first, arg, zone
    <3> QED BY <3>1, <2>9, <2>3, <2>4, <2>6, Zenon
  <2>10. n \in from .. from + Period(spec) - 1
    <3>1. Period(spec) = DayLength
      BY <1>7 DEF Period
    <3> HIDE DEF n, from
    <3> QED BY <2>3, <2>4, <3>1, TimeAssumption
  <2> HIDE DEF n, arg, zone
  <2> QED
    BY <2>4, <2>5, <2>7, <2>8, <2>9, <2>10, Zenon
<1> QED
  BY <1>6, <1>7 DEF WellFormed, TriggerTypes

\* The hours that Covers asks for are enough to look at.
LEMMA CoveredIsEnough ==
    ASSUME NEW spec, WellFormed(spec), NEW now \in Int, NEW Hours \in SUBSET Int,
           Covers(Hours, spec, now)
    PROVE  ArmableAt(spec, now) <=> Promised(spec, now, Hours)
<1>1. ArgsFit(spec) => ArgsAllowed(spec)
  BY DEF ArgsFit, ArgsAllowed, Argument, ReservedKeys, WellFormed, TriggerTypes
<1>2. ZoneKnown(spec) /\ ArgsFit(spec) => (WindowInOrder(spec) <=> HasLength(spec, Hours))
  BY WindowLength, Zenon DEF Covers
<1>3. ASSUME ZoneKnown(spec), ArgsFit(spec)
      PROVE  HasFutureFire(spec, now) <=> \E t \in Hours : t >= now /\ FiresAt(spec, t, now)
  <2>1. CASE spec.trigger_type = "date"
    <3>1. PICK at \in Int : at = Localize(spec.trigger_args[2], spec.timezone)
      <4>1. IsDate(spec.trigger_args[2])
        BY <1>3, <2>1 DEF WellFormed
      <4> QED BY <4>1, <1>3, LocalizedType, Zenon DEF ZoneKnown
    <3>2. NextFire(spec, now) = {at}
      BY <2>1, <3>1 DEF NextFire
    <3>3. \A t : FiresAt(spec, t, now) <=> t = at
      BY <2>1, <3>1 DEF FiresAt
    <3>4. at \in Hours
      BY <1>3, <2>1, <3>1 DEF Covers
    <3> QED
      BY <3>2, <3>3, <3>4, Zenon DEF HasFutureFire
  <2>2. CASE spec.trigger_type # "date"
    <3>1. PICK n \in Int :
              /\ n >= now
              /\ n \in LET from == Later(Opens(spec, now), now)
                      IN from .. from + Period(spec) - 1
              /\ NextFire(spec, now) = IF Closed(spec, n) THEN {} ELSE {n}
              /\ ~Closed(spec, n) => FiresAt(spec, n, now)
              /\ \A t \in Int : t >= now /\ FiresAt(spec, t, now) => n <= t
      BY <1>3, <2>2, FoundIsFirst, Zenon
    <3>2. HasFutureFire(spec, now) <=> ~Closed(spec, n)
      BY <3>1, Zenon DEF HasFutureFire
    <3>3. ASSUME NEW t \in Int, t >= now, FiresAt(spec, t, now)
          PROVE  ~Closed(spec, n)
      <4>1. n <= t
        BY <3>1, <3>3, Zenon
      <4>2. InWindow(spec, t)
        BY <2>2, <3>3 DEF FiresAt, WellFormed, TriggerTypes
      <4> SUFFICES ASSUME spec.end_date # None
                   PROVE  ~(n > Localize(spec.end_date, spec.timezone))
        BY DEF Closed
      <4>3. Localize(spec.end_date, spec.timezone) \in Int
        BY <1>3, LocalizedType, Zenon DEF WellFormed, ZoneKnown
      <4>4. t <= Localize(spec.end_date, spec.timezone)
        BY <4>2, Zenon DEF InWindow
      <4> QED
        BY <4>1, <4>3, <4>4
    <3>4. n \in Hours
      BY <1>3, <2>2, <3>1 DEF Covers
    <3> QED
      BY <3>1, <3>2, <3>3, <3>4
  <2> QED
    BY <2>1, <2>2
<1> QED
  BY <1>1, <1>2, <1>3, Zenon DEF ArmableAt, Builds, Promised, HasLength

\* A specification is accepted for arming (armable_trigger) exactly when it
\* makes sense and one of the times at which it is documented to fire is still
\* to come, at any hour, for any period and with any window.
THEOREM ArmableExactlyWhenPromised ==
    ASSUME NEW spec, WellFormed(spec), NEW now \in Int
    PROVE  ArmableAt(spec, now) <=> Promised(spec, now, Int)
<1>1. ASSUME ZoneKnown(spec)
      PROVE  spec.start_date # None => Localize(spec.start_date, spec.timezone) \in Int
  BY <1>1, LocalizedType DEF WellFormed, ZoneKnown
<1>2. ASSUME ZoneKnown(spec), ArgsFit(spec), spec.trigger_type = "date"
      PROVE  Localize(spec.trigger_args[2], spec.timezone) \in Int
  BY <1>2, LocalizedType DEF WellFormed, ZoneKnown
<1>3. \A a, b : a .. b \subseteq Int
  OBVIOUS
<1>4. Covers(Int, spec, now)
  BY <1>1, <1>2, <1>3, Zenon DEF Covers
<1> QED
  BY <1>4, CoveredIsEnough
==============================================================================
