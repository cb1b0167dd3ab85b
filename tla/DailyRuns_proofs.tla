--------------------------- MODULE DailyRuns_proofs ---------------------------
(* Theorems about the daily run: the times it is asked for, in any zone with
   at most one change of its offset, and the runs that are logged as done. *)
EXTENDS DailyRuns, DataLemmas

-----------------------------------------------------------------------------
(* Days and wall clocks.                                                   *)

\* The multiple of d below x.
LEMMA DivisionBounds ==
    ASSUME NEW x \in Int, NEW d \in Nat \ {0}
    PROVE  /\ x \div d \in Int
           /\ (x \div d) * d \in Int
           /\ (x \div d) * d <= x /\ x < (x \div d) * d + d
OBVIOUS

\* Two multiples that are not a whole Day apart are the same.
LEMMA SameMultiple ==
    ASSUME NEW j \in Int, NEW k \in Int, NEW d \in Nat \ {0},
           j * d - k * d < d, k * d - j * d < d
    PROVE  j = k
<1>1. ~ (j >= k + 1)
    <2> SUFFICES ASSUME j >= k + 1  PROVE FALSE
        OBVIOUS
    <2>1. j * d >= (k + 1) * d
        OBVIOUS
    <2>2. QED  BY <2>1
<1>2. ~ (k >= j + 1)
    <2> SUFFICES ASSUME k >= j + 1  PROVE FALSE
        OBVIOUS
    <2>1. k * d >= (j + 1) * d
        OBVIOUS
    <2>2. QED  BY <2>1
<1>3. QED  BY <1>1, <1>2

\* What is left of x above it.
LEMMA Remainder ==
    ASSUME NEW x \in Int, NEW d \in Nat \ {0}
    PROVE  x % d = x - (x \div d) * d
OBVIOUS

\* A number written as a multiple of d and a remainder has that remainder.
LEMMA RemainderOf ==
    ASSUME NEW k \in Int, NEW d \in Nat \ {0}, NEW r \in 0..(d - 1)
    PROVE  (k * d + r) % d = r
<1>1. PICK x \in Int : x = k * d + r
    OBVIOUS
<1>2. PICK j \in Int : j = x \div d
    BY DivisionBounds
<1>3. j * d \in Int /\ k * d \in Int /\ j * d <= x /\ x < j * d + d /\ x % d = x - j * d
    BY <1>2, DivisionBounds, Remainder
<1>4. j * d - k * d < d /\ k * d - j * d < d
    BY <1>1, <1>3
<1>5. j = k
    BY <1>4, SameMultiple
<1>6. QED  BY <1>1, <1>3, <1>5

-----------------------------------------------------------------------------
(* The next daily run.                                                     *)

ClockOK ==
    /\ now \in Int /\ daily \in 0..(Day - 1)
    /\ zone.before \in Int /\ zone.after \in Int /\ zone.at \in Int

\* The zone's wall clock shows the configured time.
Shows(t) == (t + Offset(t)) % Day = daily

\* The offset of an instant, before and after the change.
LEMMA OffsetIs ==
    ASSUME ClockOK, NEW t \in Int
    PROVE  /\ Offset(t) \in Int
           /\ t < zone.at => Offset(t) = zone.before
           /\ t >= zone.at => Offset(t) = zone.after
BY DEF ClockOK, Offset

\* The size of the change.
LEMMA ShiftIs ==
    ASSUME ClockOK
    PROVE  /\ Shift \in Nat
           /\ zone.before - zone.after <= Shift /\ zone.after - zone.before <= Shift
           /\ Shift = zone.before - zone.after \/ Shift = zone.after - zone.before
BY DEF ClockOK, Shift

\* What time.Date gives: an instant that shows the wall time, or one of two
\* readings of a wall time that the change skips.
LEMMA DateIs ==
    ASSUME ClockOK, NEW wall \in Int, NEW u \in Date(wall)
    PROVE  /\ u \in Int
           /\ u = wall - zone.before \/ u = wall - zone.after
           /\ \/ u + Offset(u) = wall
              \/ /\ wall - zone.before >= zone.at /\ wall - zone.after < zone.at
<1> DEFINE readings == {wall - zone.before, wall - zone.after}
           shown == {v \in readings : v + Offset(v) = wall}
<1>1. u \in readings /\ (shown = {} \/ u \in shown)
    BY DEF Date
<1>2. u \in Int /\ (u = wall - zone.before \/ u = wall - zone.after)
    BY <1>1 DEF ClockOK
<1>3. CASE u \in shown
    BY <1>2, <1>3
<1>4. CASE shown = {}
    <2> DEFINE early == wall - zone.before
               late == wall - zone.after
    <2>1. early \in Int /\ late \in Int
        BY DEF ClockOK
    <2>2. early + Offset(early) # wall /\ late + Offset(late) # wall
        BY <1>4
    <2>3. early >= zone.at
        BY <2>1, <2>2, OffsetIs DEF ClockOK
    <2>4. late < zone.at
        BY <2>1, <2>2, OffsetIs DEF ClockOK
    <2>5. QED  BY <1>2, <2>3, <2>4
<1>5. QED  BY <1>1, <1>3, <1>4

\* What is left of a sleep is at most a day, or else ...
SleepBounded(w) ==
    w - now > Day =>
        /\ zone.before # zone.after
        /\ w - now <= Day + Shift
        /\ w - zone.at < Day + Shift /\ zone.at <= w + Shift

\* An instant nextDailyRun returns shows the daily time, is later than now and at most
\* a day away, but for a change of the offset nearby.
LEMMA NextDailyRunIs ==
    ASSUME ClockOK, NEW w \in NextDailyRun
    PROVE  /\ w \in Int
           /\ Shows(w) \/ ZoneChanges(w - Day, w)
           /\ w > now \/ ZoneChanges(now - Day, now)
           /\ SleepBounded(w)
<1>1. PICK x \in Int : x = now + Offset(now)
    BY OffsetIs DEF ClockOK
<1>2. PICK k \in Int : k = x \div Day
    BY WalkForwardAssumption, DivisionBounds
<1>3. PICK midnight \in Int : midnight = k * Day
    BY WalkForwardAssumption
<1>4. midnight <= x /\ x < midnight + Day
    BY <1>1, <1>2, <1>3, WalkForwardAssumption, DivisionBounds
<1>5. PICK wall \in Int : wall = midnight + daily
    BY DEF ClockOK
<1>6. PICK u \in Date(wall) : w = IF u > now THEN u ELSE u + Day
    BY <1>1, <1>2, <1>3, <1>5 DEF NextDailyRun
<1>7. /\ u \in Int
      /\ u = wall - zone.before \/ u = wall - zone.after
      /\ u + Offset(u) = wall
           \/ (wall - zone.before >= zone.at /\ wall - zone.after < zone.at)
    BY DateIs
<1>8. /\ Day \in Nat \ {0} /\ Shift \in Nat
      /\ now \in Int /\ zone.before \in Int /\ zone.after \in Int /\ zone.at \in Int
      /\ wall >= midnight /\ wall < midnight + Day
    BY <1>5, WalkForwardAssumption, ShiftIs DEF ClockOK
<1>9. w \in Int
    BY <1>6, <1>7, <1>8
<1>10. Shows(w) \/ ZoneChanges(w - Day, w)
    <2>1. CASE u + Offset(u) = wall
        <3>1. Offset(w) = Offset(u) \/ ZoneChanges(w - Day, w)
            BY <1>6, <1>7, <1>8, <1>9, OffsetIs DEF ZoneChanges
        <3>2. ASSUME Offset(w) = Offset(u)
              PROVE  Shows(w)
            <4>1. (k + 1) * Day = midnight + Day /\ k + 1 \in Int
                BY <1>3, <1>8
            <4>2. w + Offset(w) = wall \/ w + Offset(w) = wall + Day
                BY <1>6, <1>7, <1>8, <2>1, <3>2, OffsetIs
            <4>3. wall = k * Day + daily /\ wall + Day = (k + 1) * Day + daily
                BY <1>3, <1>5, <1>8, <4>1 DEF ClockOK
            <4>4. daily \in 0..(Day - 1)
                BY DEF ClockOK
            <4>5. (k * Day + daily) % Day = daily
                BY <1>8, <4>4, RemainderOf
            <4>6. ((k + 1) * Day + daily) % Day = daily
                BY <1>8, <4>1, <4>4, RemainderOf
            <4>7. wall % Day = daily /\ (wall + Day) % Day = daily
                BY <4>3, <4>5, <4>6
            <4>8. QED  BY <4>2, <4>7 DEF Shows
        <3>3. QED  BY <3>1, <3>2
    <2>2. CASE wall - zone.before >= zone.at /\ wall - zone.after < zone.at
        BY <1>6, <1>7, <1>8, <2>2, ShiftIs DEF ZoneChanges
    <2>3. QED  BY <1>7, <2>1, <2>2
<1>11. w > now \/ ZoneChanges(now - Day, now)
    <2> SUFFICES ASSUME w <= now  PROVE ZoneChanges(now - Day, now)
        BY <1>8, <1>9
    <2>1. u <= now - Day
        BY <1>6, <1>7, <1>8
    <2>2. CASE u + Offset(u) = wall
        BY <1>1, <1>4, <1>7, <1>8, <2>1, <2>2, OffsetIs, ShiftIs DEF ZoneChanges
    <2>3. CASE wall - zone.before >= zone.at /\ wall - zone.after < zone.at
        BY <1>1, <1>4, <1>7, <1>8, <2>1, <2>3, OffsetIs, ShiftIs DEF ZoneChanges
    <2>4. QED  BY <1>7, <2>2, <2>3
<1>12. SleepBounded(w)
    <2> SUFFICES ASSUME w - now > Day
                 PROVE  /\ zone.before # zone.after
                        /\ w - now <= Day + Shift
                        /\ w - zone.at < Day + Shift /\ zone.at <= w + Shift
        BY DEF SleepBounded
    <2>1. w = u /\ u - now > Day
        BY <1>6, <1>7, <1>8
    <2>2. CASE u + Offset(u) = wall
        BY <1>1, <1>4, <1>7, <1>8, <2>1, <2>2, OffsetIs, ShiftIs
    <2>3. CASE wall - zone.before >= zone.at /\ wall - zone.after < zone.at
        BY <1>1, <1>4, <1>7, <1>8, <2>1, <2>3, OffsetIs, ShiftIs
    <2>4. QED  BY <1>7, <2>2, <2>3
<1>13. QED  BY <1>9, <1>10, <1>11, <1>12

-----------------------------------------------------------------------------
(* Types, and the one call the scheduler waits for.                        *)

Call == [by : {"scheduler", "worker"}, at : Nat,
         stage : {"collecting", "running", "done", "failed"},
         client : {"waiting", "told", "untold"},
         life : Int, id : Nat, session : Int]

StateTypes ==
    /\ now \in 0..MaxTime /\ zone \in Zones /\ daily \in DailyTimes
    /\ sched \in [state : {"down", "awake", "asleep", "calling"}, wakeAt : Int]
    /\ engine \in [up : BOOLEAN, life : Nat \ {0}, seq : Nat]
    /\ calls \in Seq(Call) /\ Len(calls) <= MaxCalls
    /\ disk \in [1..MaxCalls -> 0..MaxCalls]
    /\ crashes \in 0..MaxEvents /\ engine.life <= crashes + 1

OneCallWaits ==
    IF sched.state = "calling" THEN \E i \in Scheduled : Waiting = {i} ELSE Waiting = {}

\* The calls that have got past collecting, of which the engine's have an id.
Begun == {i \in Calls : calls[i].stage # "collecting"}

SeqCounted == engine.seq <= Cardinality(Begun)

TypesInv == StateTypes /\ OneCallWaits /\ SeqCounted

\* The calls, by their indices.
LEMMA CallsAre ==
    ASSUME calls \in Seq(Call)
    PROVE  /\ Len(calls) \in Nat /\ Calls = 1..Len(calls) /\ IsFiniteSet(Calls)
           /\ Cardinality(Calls) = Len(calls)
           /\ \A i \in Calls : calls[i] \in Call
<1>1. Len(calls) \in Nat /\ Calls = 1..Len(calls) /\ \A i \in Calls : calls[i] \in Call
    BY DEF Calls
<1>2. PICK n \in Nat : n = Len(calls)
    BY <1>1
<1>3. IsFiniteSet(1..n) /\ Cardinality(1..n) = IF 1 > n THEN 0 ELSE n - 1 + 1
    BY FS_Interval
<1>4. Cardinality(1..n) = n
    BY <1>3
<1>5. QED  BY <1>1, <1>2, <1>3, <1>4

\* There are no more calls that began than calls.
LEMMA BegunIs ==
    ASSUME calls \in Seq(Call)
    PROVE  /\ IsFiniteSet(Begun) /\ Cardinality(Begun) \in Nat
           /\ Cardinality(Begun) <= Len(calls)
BY CallsAre, FS_Subset, FS_CardinalityType DEF Begun

\* An event that is allowed stays within its bound.
LEMMA MayCrash ==
    ASSUME StateTypes, EventAllowed
    PROVE  crashes + 1 \in 0..MaxEvents
<1>1. MaxEvents \in Nat
    BY DailyAssumption
<1>2. IsFiniteSet(Calls \ Scheduled)
    BY CallsAre, FS_Subset DEF StateTypes
<1>3. Cardinality(Calls \ Scheduled) \in Nat
    BY <1>2, FS_CardinalityType
<1>4. QED  BY <1>1, <1>3 DEF StateTypes, EventAllowed

\* The types say what the lemmas about the clock assume.
LEMMA ClockTypes == StateTypes => ClockOK
BY DailyAssumption DEF StateTypes, ClockOK

\* Changing a call, or all of them, or adding one.
LEMMA SetCall ==
    ASSUME calls \in Seq(Call), NEW i \in Calls, NEW new \in Call,
           calls' = [calls EXCEPT ![i] = new]
    PROVE  /\ calls' \in Seq(Call) /\ Len(calls') = Len(calls) /\ Calls' = Calls
           /\ calls'[i] = new /\ \A j \in Calls \ {i} : calls'[j] = calls[j]
BY DEF Calls

\* All calls changed at once are still calls, at the same indices.
LEMMA SetCalls ==
    ASSUME calls \in Seq(Call), NEW f, calls' = [i \in Calls |-> f[i]],
           \A i \in Calls : f[i] \in Call
    PROVE  /\ calls' \in Seq(Call) /\ Len(calls') = Len(calls) /\ Calls' = Calls
           /\ \A i \in Calls : calls'[i] = f[i]
BY DEF Calls

\* A call appended is a new one and leaves the others alone.
LEMMA AddCall ==
    ASSUME calls \in Seq(Call), NEW new \in Call, calls' = Append(calls, new)
    PROVE  /\ calls' \in Seq(Call) /\ Len(calls') = Len(calls) + 1
           /\ Calls' = Calls \cup {Len(calls) + 1} /\ Len(calls) + 1 \notin Calls
           /\ calls'[Len(calls) + 1] = new /\ \A j \in Calls : calls'[j] = calls[j]
<1>1. Calls = 1..Len(calls) /\ Len(calls) \in Nat
    BY CallsAre
<1>2. /\ calls' \in Seq(Call) /\ Len(calls') = Len(calls) + 1
      /\ calls'[Len(calls) + 1] = new /\ \A j \in 1..Len(calls) : calls'[j] = calls[j]
    OBVIOUS
<1>3. Calls' = 1..(Len(calls) + 1)
    BY <1>2 DEF Calls
<1>4. QED  BY <1>1, <1>2, <1>3

-----------------------------------------------------------------------------
(* What a step does to the calls, the engine's counter and the disk.        *)

\* A call stays what it is, but may fail and may be given up or answered.
Quiet ==
    /\ Calls' = Calls /\ disk' = disk
    /\ \/ engine'.life = engine.life /\ engine'.seq = engine.seq
       \/ engine'.life = engine.life + 1 /\ engine'.seq = 0
    /\ \A i \in Calls :
        /\ calls'[i].by = calls[i].by /\ calls'[i].at = calls[i].at
        /\ calls'[i].life = calls[i].life /\ calls'[i].id = calls[i].id
        /\ \/ calls'[i].stage = calls[i].stage
           \/ calls[i].stage \in {"collecting", "running"} /\ calls'[i].stage = "failed"
        /\ calls'[i].client = "told" => calls[i].client = "told" \/ calls[i].stage = "done"

Adds ==
    /\ Calls' = Calls \cup {Len(calls) + 1} /\ Len(calls) + 1 \notin Calls
    /\ UNCHANGED <<now, engine, disk>>
    /\ \A j \in Calls : calls'[j] = calls[j]
    /\ LET new == calls'[Len(calls) + 1]
       IN  /\ new.at = now /\ new.life = 0 /\ new.id = 0
           /\ new.stage \in {"collecting", "failed"} /\ new.client # "told"
           /\ new.by = "scheduler" => /\ sched.state = "asleep" /\ now >= sched.wakeAt
                                     /\ sched'.state # "asleep"

Begins(i) ==
    /\ Calls' = Calls /\ disk' = disk
    /\ \A j \in Calls \ {i} : calls'[j] = calls[j]
    /\ calls[i].stage = "collecting" /\ calls'[i].stage = "running"
    /\ calls'[i].by = calls[i].by /\ calls'[i].at = calls[i].at
    /\ calls'[i].client = calls[i].client
    /\ engine'.life = engine.life
    /\ IF calls[i].by = "worker"
       THEN engine'.seq = engine.seq /\ calls'[i].life = -i /\ calls'[i].id = 1
       ELSE /\ engine'.seq = engine.seq + 1
            /\ calls'[i].life = engine.life /\ calls'[i].id = engine.seq + 1

Stores(i) ==
    /\ Calls' = Calls /\ engine' = engine
    /\ disk' = [disk EXCEPT ![calls[i].id] = i]
    /\ \A j \in Calls \ {i} : calls'[j] = calls[j]
    /\ calls[i].stage = "running" /\ calls'[i].stage \in {"done", "failed"}
    /\ calls'[i].by = calls[i].by /\ calls'[i].at = calls[i].at
    /\ calls'[i].life = calls[i].life /\ calls'[i].id = calls[i].id
    /\ calls'[i].client = "told" => calls[i].client = "told" \/ calls'[i].stage = "done"

\* The call that is waited for is the same when no client starts or stops waiting.
LEMMA WaitingKept ==
    ASSUME OneCallWaits, Calls' = Calls,
           sched'.state = sched.state
             \/ ("calling" \notin {sched.state, sched'.state}),
           \A i \in Calls :
               calls'[i].by = calls[i].by
               /\ (calls'[i].client = "waiting" <=> calls[i].client = "waiting")
    PROVE  OneCallWaits'
<1>1. Waiting' = Waiting
    BY DEF Waiting
<1>2. Scheduled' = Scheduled
    BY DEF Scheduled
<1>3. QED  BY <1>1, <1>2 DEF OneCallWaits

\* A scheduler that is not in a call has no client waiting.
LEMMA NobodyWaits ==
    ASSUME Calls' = Calls, sched'.state # "calling",
           \A i \in Calls : calls'[i].client # "waiting"
    PROVE  OneCallWaits'
BY DEF OneCallWaits, Waiting

\* A counter that does not grow counts no more than the calls that began.
LEMMA SeqKept ==
    ASSUME SeqCounted, StateTypes, calls' \in Seq(Call), Calls \subseteq Calls',
           \A i \in Calls : calls[i].stage # "collecting" => calls'[i].stage # "collecting",
           engine'.seq = engine.seq \/ engine'.seq = 0
    PROVE  SeqCounted'
<1>1. Begun \subseteq Begun'
    BY DEF Begun
<1>2. PICK n \in Nat : n = Cardinality(Begun)
    BY BegunIs DEF StateTypes
<1>3. PICK later \in SUBSET Calls' : later = Begun'
    BY DEF Begun
<1>4. IsFiniteSet(later)
    <2>1. PICK m \in Nat : Calls' = 1..m
        BY DEF Calls
    <2>2. IsFiniteSet(1..m)
        BY FS_Interval
    <2>3. later \subseteq 1..m
        BY <2>1
    <2>4. QED  BY <2>2, <2>3, FS_Subset
<1>5. Cardinality(later) \in Nat /\ n <= Cardinality(later)
    BY <1>1, <1>2, <1>3, <1>4, FS_Subset, FS_CardinalityType
<1>6. engine.seq \in Nat
    BY DEF StateTypes
<1>7. QED  BY <1>2, <1>3, <1>5, <1>6 DEF SeqCounted

\* At the start nothing was called.
LEMMA TypesInit == Init => TypesInv
<1> SUFFICES ASSUME Init  PROVE TypesInv
    OBVIOUS
<1>1. /\ calls = <<>> /\ calls \in Seq(Call) /\ Len(calls) = 0 /\ Calls = {}
      /\ MaxCalls \in Nat /\ MaxTime \in Nat /\ MaxEvents \in Nat
    BY DailyAssumption DEF Init, Calls
<1>2. StateTypes
    BY <1>1 DEF Init, StateTypes
<1>3. OneCallWaits
    BY <1>1 DEF Init, OneCallWaits, Waiting
<1>4. SeqCounted
    BY <1>1, BegunIs DEF Init, SeqCounted
<1>5. QED  BY <1>2, <1>3, <1>4 DEF TypesInv

\* A call that is asked for.
LEMMA NewCallStep ==
    ASSUME TypesInv, NEW by \in {"scheduler", "worker"},
           NEW st \in {"collecting", "failed"}, NEW client \in {"waiting", "untold"},
           NewCall(by, st, client), UNCHANGED <<now, engine, disk>>,
           by = "scheduler" => /\ sched.state = "asleep" /\ now >= sched.wakeAt
                               /\ sched'.state # "asleep"
    PROVE  /\ Adds /\ SeqCounted'
           /\ calls' \in Seq(Call) /\ Len(calls') <= MaxCalls
           /\ calls'[Len(calls) + 1].client = client /\ calls'[Len(calls) + 1].by = by
<1> DEFINE new == [by |-> by, at |-> now, stage |-> st, client |-> client,
                   life |-> 0, id |-> 0, session |-> 0]
<1>1. StateTypes /\ SeqCounted /\ calls \in Seq(Call) /\ MaxCalls \in Nat
    BY DailyAssumption DEF TypesInv, StateTypes
<1>2. new \in Call
    BY <1>1, DailyAssumption DEF StateTypes, Call
<1>3. Len(calls) < MaxCalls /\ calls' = Append(calls, new)
    BY DEF NewCall
<1> HIDE DEF new
<1>4. /\ calls' \in Seq(Call) /\ Len(calls') = Len(calls) + 1
      /\ Calls' = Calls \cup {Len(calls) + 1} /\ Len(calls) + 1 \notin Calls
      /\ calls'[Len(calls) + 1] = new /\ \A j \in Calls : calls'[j] = calls[j]
    BY <1>1, <1>2, <1>3, AddCall
<1>5. Len(calls') <= MaxCalls
    BY <1>1, <1>3, <1>4, CallsAre
<1>6. Adds
    BY <1>4 DEF Adds, new
<1>7. SeqCounted'
    BY <1>1, <1>4, SeqKept
<1>8. QED  BY <1>4, <1>5, <1>6, <1>7 DEF new

\* runOnce begins a call, or is refused by an engine that is down.
LEMMA RunOnceStep ==
    ASSUME TypesInv, RunOnce
    PROVE  TypesInv' /\ Adds
<1>1. StateTypes /\ OneCallWaits /\ sched.state = "asleep" /\ now >= sched.wakeAt
    BY DEF TypesInv, RunOnce
<1>2. Waiting = {}
    BY <1>1 DEF OneCallWaits
<1>3. CASE engine.up
    <2>1. NewCall("scheduler", "collecting", "waiting") /\ sched' = [sched EXCEPT !.state = "calling"]
        BY <1>3 DEF RunOnce
    <2>2. /\ Adds /\ SeqCounted' /\ calls' \in Seq(Call) /\ Len(calls') <= MaxCalls
          /\ calls'[Len(calls) + 1].client = "waiting" /\ calls'[Len(calls) + 1].by = "scheduler"
        BY <1>1, <2>1, NewCallStep DEF RunOnce, StateTypes
    <2>3. StateTypes'
        BY <1>1, <2>1, <2>2 DEF RunOnce, StateTypes, config
    <2>4. Waiting' = {Len(calls) + 1} /\ Len(calls) + 1 \in Scheduled'
        BY <1>2, <2>2 DEF Adds, Waiting, Scheduled
    <2>5. OneCallWaits'
        <3>1. sched'.state = "calling"
            BY <1>1, <2>1 DEF StateTypes
        <3>2. PICK n : n = Len(calls) + 1
            OBVIOUS
        <3>3. Waiting' = {n} /\ n \in Scheduled'
            BY <2>4, <3>2
        <3>4. QED  BY <3>1, <3>3 DEF OneCallWaits
    <2>6. QED  BY <2>2, <2>3, <2>5 DEF TypesInv
<1>4. CASE ~ engine.up
    <2>1. NewCall("scheduler", "failed", "untold") /\ sched' = [sched EXCEPT !.state = "awake"]
        BY <1>4 DEF RunOnce
    <2>2. /\ Adds /\ SeqCounted' /\ calls' \in Seq(Call) /\ Len(calls') <= MaxCalls
          /\ calls'[Len(calls) + 1].client = "untold"
        BY <1>1, <2>1, NewCallStep DEF RunOnce, StateTypes
    <2>3. StateTypes'
        BY <1>1, <2>1, <2>2 DEF RunOnce, StateTypes, config
    <2>4. Waiting' = {} /\ sched'.state = "awake"
        BY <1>1, <1>2, <2>1, <2>2 DEF Adds, Waiting, StateTypes
    <2>5. OneCallWaits'
        BY <2>4 DEF OneCallWaits
    <2>6. QED  BY <2>2, <2>3, <2>5 DEF TypesInv
<1>5. QED  BY <1>3, <1>4

\* A worker begins a run that nobody waits for.
LEMMA WorkerStartsStep ==
    ASSUME TypesInv, WorkerStarts
    PROVE  TypesInv' /\ Adds
<1>1. StateTypes /\ OneCallWaits
    BY DEF TypesInv
<1>2. /\ Adds /\ SeqCounted' /\ calls' \in Seq(Call) /\ Len(calls') <= MaxCalls
      /\ calls'[Len(calls) + 1].client = "untold" /\ calls'[Len(calls) + 1].by = "worker"
    BY NewCallStep DEF WorkerStarts
<1>3. StateTypes'
    BY <1>1, <1>2 DEF WorkerStarts, StateTypes, config
<1>4. Waiting' = Waiting /\ Scheduled' = Scheduled
    BY <1>2 DEF Adds, Waiting, Scheduled
<1>5. OneCallWaits'
    BY <1>1, <1>4 DEF OneCallWaits, WorkerStarts
<1>6. QED  BY <1>2, <1>3, <1>5 DEF TypesInv

\* A call whose client is given up or answered.
LEMMA AnsweredStep ==
    ASSUME TypesInv, NEW i \in Waiting \cap Scheduled,
           NEW client \in {"told", "untold"}, client = "told" => calls[i].stage = "done",
           calls' = [calls EXCEPT ![i].client = client],
           sched' = [sched EXCEPT !.state = "awake"],
           UNCHANGED <<now, config, engine, disk, crashes>>
    PROVE  TypesInv' /\ Quiet
<1> DEFINE new == [calls[i] EXCEPT !.client = client]
<1>1. StateTypes /\ OneCallWaits /\ SeqCounted /\ calls \in Seq(Call) /\ i \in Calls
    BY DEF TypesInv, StateTypes, Waiting
<1>2. calls[i] \in Call
    BY <1>1, CallsAre
<1>3. new \in Call
    BY <1>2 DEF Call
<1>4. calls' = [calls EXCEPT ![i] = new]
    OBVIOUS
<1>5. /\ new.by = calls[i].by /\ new.at = calls[i].at /\ new.stage = calls[i].stage
      /\ new.life = calls[i].life /\ new.id = calls[i].id /\ new.client = client
    BY <1>2 DEF Call
<1> HIDE DEF new
<1>6. /\ calls' \in Seq(Call) /\ Len(calls') = Len(calls) /\ Calls' = Calls
      /\ calls'[i] = new /\ \A j \in Calls \ {i} : calls'[j] = calls[j]
    BY <1>1, <1>3, <1>4, SetCall
<1>7. StateTypes'
    BY <1>1, <1>6 DEF StateTypes, config
<1>8. Quiet
    BY <1>1, <1>5, <1>6 DEF Quiet, StateTypes
<1>9. SeqCounted'
    BY <1>1, <1>5, <1>6, SeqKept
<1>10. Waiting = {i}
    BY <1>1 DEF OneCallWaits
<1>11. OneCallWaits'
    <2>1. \A j \in Calls : calls'[j].client # "waiting"
        BY <1>5, <1>6, <1>10 DEF Waiting
    <2>2. sched'.state # "calling"
        BY <1>1 DEF StateTypes
    <2>3. QED  BY <1>6, <2>1, <2>2, NobodyWaits
<1>12. QED  BY <1>7, <1>8, <1>9, <1>11 DEF TypesInv

\* A run that takes its id: the engine's counter goes up with the calls that
\* have begun.
LEMMA CollectedStep ==
    ASSUME TypesInv, NEW i \in Calls, Collected(i)
    PROVE  TypesInv' /\ Begins(i)
<1> DEFINE life == IF calls[i].by = "worker" THEN -i ELSE engine.life
           id == IF calls[i].by = "worker" THEN 1 ELSE engine.seq + 1
           new == [calls[i] EXCEPT !.stage = "running", !.life = life, !.id = id]
<1>1. /\ StateTypes /\ OneCallWaits /\ SeqCounted /\ calls \in Seq(Call)
      /\ engine \in [up : BOOLEAN, life : Nat \ {0}, seq : Nat] /\ i \in Nat
      /\ calls[i].stage = "collecting"
    BY CallsAre DEF TypesInv, StateTypes, Collected
<1>2. calls[i] \in Call
    BY <1>1, CallsAre
<1>3. life \in Int /\ id \in Nat
    BY <1>1
<1>4. calls' = [calls EXCEPT ![i] = new]
    BY DEF Collected, TakeRunID
<1>5. /\ engine' \in [up : BOOLEAN, life : Nat \ {0}, seq : Nat]
      /\ engine'.life = engine.life
      /\ engine'.seq = IF calls[i].by = "worker" THEN engine.seq ELSE engine.seq + 1
    BY <1>1 DEF Collected, TakeRunID
<1> HIDE DEF life, id
<1>6. /\ new \in Call /\ new.by = calls[i].by /\ new.at = calls[i].at
      /\ new.stage = "running" /\ new.client = calls[i].client
      /\ new.life = life /\ new.id = id
    BY <1>2, <1>3 DEF Call
<1> HIDE DEF new
<1>7. /\ calls' \in Seq(Call) /\ Len(calls') = Len(calls) /\ Calls' = Calls
      /\ calls'[i] = new /\ \A j \in Calls \ {i} : calls'[j] = calls[j]
    BY <1>1, <1>4, <1>6, SetCall
<1>8. Begins(i)
    BY <1>1, <1>5, <1>6, <1>7 DEF Begins, Collected, life, id
<1>9. StateTypes'
    BY <1>1, <1>5, <1>7 DEF StateTypes, Collected, config
<1>10. OneCallWaits'
    BY <1>1, <1>6, <1>7, WaitingKept DEF Collected
<1>11. SeqCounted'
    <2>1. i \notin Begun /\ Begun' = Begun \cup {i}
        <3>1. \A j \in Calls : calls'[j].stage # "collecting"
                                <=> j = i \/ calls[j].stage # "collecting"
            BY <1>6, <1>7
        <3>2. QED  BY <1>1, <1>7, <3>1 DEF Begun
    <2>2. PICK begun \in SUBSET Calls : begun = Begun
        BY DEF Begun
    <2>3. IsFiniteSet(begun) /\ Cardinality(begun) \in Nat
        BY <1>1, <2>2, BegunIs
    <2>4. Cardinality(begun \cup {i}) = Cardinality(begun) + 1
        BY <2>1, <2>2, <2>3, FS_AddElement
    <2>5. engine.seq \in Nat /\ engine.seq <= Cardinality(begun) /\ Begun' = begun \cup {i}
        BY <1>1, <2>1, <2>2 DEF SeqCounted
    <2>6. engine'.seq <= Cardinality(begun \cup {i})
        BY <1>5, <2>3, <2>4, <2>5
    <2>7. QED  BY <2>5, <2>6 DEF SeqCounted
<1>12. QED  BY <1>8, <1>9, <1>10, <1>11 DEF TypesInv

\* A session is an instant.
LEMMA SessionIsInt ==
    ASSUME NEW t \in Int
    PROVE  SessionDate(t) \in Int
<1>1. Day \in Nat \ {0} /\ IST \in Int
    BY WalkForwardAssumption
<1>2. ((t + IST) \div Day) * Day \in Int
    BY <1>1, DivisionBounds
<1>3. QED  BY <1>1, <1>2 DEF SessionDate

\* A run whose artifacts are written.
LEMMA StoredStep ==
    ASSUME TypesInv, NEW i \in Calls, NEW to \in {"done", "failed"},
           calls[i].stage = "running", Stored(i, to),
           UNCHANGED <<now, config, sched, engine, crashes>>
    PROVE  TypesInv' /\ Stores(i)
<1>1. /\ StateTypes /\ OneCallWaits /\ SeqCounted /\ calls \in Seq(Call)
      /\ calls[i] \in Call /\ i \in 0..MaxCalls
    <2>1. StateTypes /\ OneCallWaits /\ SeqCounted /\ calls \in Seq(Call) /\ Len(calls) <= MaxCalls
        BY DEF TypesInv, StateTypes
    <2>2. i \in 1..Len(calls) /\ Len(calls) \in Nat /\ MaxCalls \in Nat /\ calls[i] \in Call
        BY <2>1, CallsAre, DailyAssumption
    <2>3. QED  BY <2>1, <2>2
<1>2. calls[i].at \in Int /\ Window \in Int
    BY <1>1, DailyAssumption DEF Call
<1>3. PICK published \in (calls[i].at - Window)..calls[i].at :
        calls' = [calls EXCEPT ![i].stage = to, ![i].session = SessionDate(published),
                               ![i].client = IF calls[i].by = "worker" /\ to = "done"
                                             THEN "told" ELSE @]
    BY DEF Stored
<1> DEFINE session == SessionDate(published)
           client == IF calls[i].by = "worker" /\ to = "done" THEN "told" ELSE calls[i].client
           new == [calls[i] EXCEPT !.stage = to, !.session = session, !.client = client]
<1>4. session \in Int
    BY <1>2, SessionIsInt
<1>5. client \in {"waiting", "told", "untold"}
    BY <1>1 DEF Call
<1>6. calls' = [calls EXCEPT ![i] = new]
    BY <1>3
<1> HIDE DEF session, client
<1>7. /\ new \in Call /\ new.by = calls[i].by /\ new.at = calls[i].at
      /\ new.stage = to /\ new.client = client
      /\ new.life = calls[i].life /\ new.id = calls[i].id
    BY <1>1, <1>4, <1>5 DEF Call
<1> HIDE DEF new
<1>8. /\ calls' \in Seq(Call) /\ Len(calls') = Len(calls) /\ Calls' = Calls
      /\ calls'[i] = new /\ \A j \in Calls \ {i} : calls'[j] = calls[j]
    BY <1>1, <1>6, <1>7, SetCall
<1>9. disk' = [disk EXCEPT ![calls[i].id] = i]
    BY DEF Stored
<1>10. Stores(i)
    BY <1>7, <1>8, <1>9 DEF Stores, client
<1>11. disk' \in [1..MaxCalls -> 0..MaxCalls]
    BY <1>1, <1>9 DEF StateTypes
<1>12. StateTypes'
    BY <1>1, <1>8, <1>11 DEF StateTypes, config
<1>13. OneCallWaits'
    <2>1. calls[i].client = "waiting" => i \in Scheduled
        BY <1>1 DEF OneCallWaits, Waiting
    <2>2. client = "waiting" <=> calls[i].client = "waiting"
        BY <2>1 DEF client, Scheduled
    <2>3. QED  BY <1>1, <1>7, <1>8, <2>2, WaitingKept
<1>14. SeqCounted'
    BY <1>1, <1>7, <1>8, SeqKept
<1>15. QED  BY <1>10, <1>12, <1>13, <1>14 DEF TypesInv

\* Some of the calls fail, or their client stops waiting.
LosesSome ==
    /\ calls' \in Seq(Call) /\ Len(calls') = Len(calls) /\ Calls' = Calls
    /\ disk' = disk /\ zone' = zone /\ daily' = daily
    /\ now' \in 0..MaxTime /\ crashes' \in 0..MaxEvents
    /\ sched' \in [state : {"down", "awake", "asleep", "calling"}, wakeAt : Int]
    /\ engine' \in [up : BOOLEAN, life : Nat \ {0}, seq : Nat] /\ engine'.life <= crashes' + 1
    /\ \/ engine'.life = engine.life /\ engine'.seq = engine.seq
       \/ engine'.life = engine.life + 1 /\ engine'.seq = 0
    /\ \A i \in Calls :
         /\ calls'[i].by = calls[i].by /\ calls'[i].at = calls[i].at
         /\ calls'[i].life = calls[i].life /\ calls'[i].id = calls[i].id
         /\ \/ calls'[i].stage = calls[i].stage
            \/ calls[i].stage \in {"collecting", "running"} /\ calls'[i].stage = "failed"
         /\ calls'[i].client \in {calls[i].client, "untold"}
    /\ \/ /\ \A i \in Calls : calls'[i].client = calls[i].client
          /\ sched'.state = sched.state \/ ("calling" \notin {sched.state, sched'.state})
       \/ sched'.state # "calling" /\ \A i \in Calls : calls'[i].client # "waiting"

\* A crash, or time, makes some calls fail or their clients go.
LEMMA LosesSomeStep ==
    ASSUME TypesInv, LosesSome
    PROVE  TypesInv' /\ Quiet
<1>1. StateTypes /\ OneCallWaits /\ SeqCounted
    BY DEF TypesInv
<1>2. StateTypes'
    BY <1>1 DEF StateTypes, LosesSome
<1>3. SeqCounted'
    BY <1>1, SeqKept DEF LosesSome
<1>4. OneCallWaits'
    BY <1>1, WaitingKept, NobodyWaits DEF LosesSome
<1>5. Quiet
    BY DEF Quiet, LosesSome
<1>6. QED  BY <1>2, <1>3, <1>4, <1>5 DEF TypesInv

\* Every step keeps the types and does one of four things to the runs.
LEMMA TypesStep ==
    ASSUME TypesInv, [Next]_vars
    PROVE  /\ TypesInv'
           /\ Quiet \/ Adds \/ (\E i \in Calls : Begins(i)) \/ (\E i \in Calls : Stores(i))
<1> USE DEF config
<1>1. /\ StateTypes /\ OneCallWaits /\ calls \in Seq(Call)
      /\ now \in 0..MaxTime /\ crashes \in 0..MaxEvents
      /\ sched \in [state : {"down", "awake", "asleep", "calling"}, wakeAt : Int]
      /\ engine \in [up : BOOLEAN, life : Nat \ {0}, seq : Nat]
      /\ engine.life <= crashes + 1
    BY DEF TypesInv, StateTypes
<1>2. ASSUME calls' = calls, disk' = disk, zone' = zone, daily' = daily, now' = now,
             crashes' = crashes,
             sched' \in [state : {"down", "awake", "asleep", "calling"}, wakeAt : Int],
             sched'.state = sched.state \/ ("calling" \notin {sched.state, sched'.state}),
             engine' \in [up : BOOLEAN, life : Nat \ {0}, seq : Nat],
             engine'.life = engine.life, engine'.seq = engine.seq
      PROVE  TypesInv' /\ Quiet
    <2>1. LosesSome
        BY <1>1, <1>2 DEF LosesSome, Calls
    <2>2. QED  BY <2>1, LosesSomeStep
<1>3. CASE Sleep
    <2>1. PICK w \in NextDailyRun : sched' = [state |-> "asleep", wakeAt |-> w]
        BY <1>3 DEF Sleep
    <2>2. w \in Int
        BY <1>1, NextDailyRunIs, ClockTypes
    <2>3. QED  BY <1>1, <1>2, <1>3, <2>1, <2>2 DEF Sleep
<1>4. CASE EngineStarts \/ SchedulerStarts \/ UNCHANGED vars
    BY <1>1, <1>2, <1>4 DEF EngineStarts, SchedulerStarts, vars
<1>5. CASE RunOnce
    BY <1>5, RunOnceStep
<1>6. CASE WorkerStarts
    BY <1>6, WorkerStartsStep
<1>7. ASSUME NEW i \in Calls, TimeOut(i) \/ ReadAnswer(i)
      PROVE  TypesInv' /\ Quiet
    <2>1. PICK client \in {"told", "untold"} :
            /\ client = "told" => calls[i].stage = "done"
            /\ calls' = [calls EXCEPT ![i].client = client]
        BY <1>7 DEF TimeOut, HangUp, ReadAnswer
    <2>2. /\ i \in Waiting \cap Scheduled /\ sched' = [sched EXCEPT !.state = "awake"]
          /\ UNCHANGED <<now, config, engine, disk, crashes>>
        BY <1>7 DEF TimeOut, HangUp, ReadAnswer
    <2>3. QED  BY <2>1, <2>2, AnsweredStep
<1>8. ASSUME NEW i \in Calls, Collected(i)
      PROVE  TypesInv' /\ Begins(i)
    BY <1>8, CollectedStep
<1>9. ASSUME NEW i \in Calls, Done(i)
      PROVE  TypesInv' /\ Stores(i)
    BY <1>9, StoredStep DEF Done
<1>10. ASSUME NEW i \in Calls, Fails(i)
       PROVE  TypesInv' /\ (Quiet \/ Stores(i))
    <2>1. CASE calls[i].stage = "running" /\ Stored(i, "failed")
        BY <1>10, <2>1, StoredStep DEF Fails
    <2>2. CASE calls' = [calls EXCEPT ![i].stage = "failed"] /\ UNCHANGED disk
        <3> DEFINE new == [calls[i] EXCEPT !.stage = "failed"]
        <3>1. calls[i] \in Call /\ calls[i].stage \in {"collecting", "running"}
            BY <1>1, <1>10, CallsAre DEF Fails, Running
        <3>2. calls' = [calls EXCEPT ![i] = new]
            BY <2>2
        <3>3. /\ new \in Call /\ new.by = calls[i].by /\ new.at = calls[i].at
              /\ new.stage = "failed" /\ new.client = calls[i].client
              /\ new.life = calls[i].life /\ new.id = calls[i].id
            BY <3>1 DEF Call
        <3> HIDE DEF new
        <3>4. /\ calls' \in Seq(Call) /\ Len(calls') = Len(calls) /\ Calls' = Calls
              /\ calls'[i] = new /\ \A j \in Calls \ {i} : calls'[j] = calls[j]
            BY <1>1, <3>2, <3>3, SetCall
        <3>5. UNCHANGED <<now, zone, daily, sched, engine, crashes>>
            BY <1>10 DEF Fails
        <3>6. LosesSome
            BY <1>1, <2>2, <3>1, <3>3, <3>4, <3>5 DEF LosesSome
        <3>7. QED  BY <3>6, LosesSomeStep
    <2>3. QED  BY <1>10, <2>1, <2>2 DEF Fails
<1>11. CASE EngineCrashes
    <2> DEFINE f == [i \in Calls |->
                       IF i \in Scheduled \cap Running
                       THEN [calls[i] EXCEPT !.stage = "failed"] ELSE calls[i]]
    <2>1. calls' = [i \in Calls |-> f[i]]
        BY <1>11 DEF EngineCrashes
    <2>2. ASSUME NEW i \in Calls
          PROVE  /\ f[i] \in Call
                 /\ f[i].by = calls[i].by /\ f[i].at = calls[i].at
                 /\ f[i].life = calls[i].life /\ f[i].id = calls[i].id
                 /\ \/ f[i].stage = calls[i].stage
                    \/ calls[i].stage \in {"collecting", "running"} /\ f[i].stage = "failed"
                 /\ f[i].client = calls[i].client
        <3>1. calls[i] \in Call
            BY <1>1, CallsAre
        <3>2. QED  BY <3>1 DEF Call, Running
    <2> HIDE DEF f
    <2>3. /\ calls' \in Seq(Call) /\ Len(calls') = Len(calls) /\ Calls' = Calls
          /\ \A i \in Calls : calls'[i] = f[i]
        BY <1>1, <2>1, <2>2, SetCalls
    <2>4. crashes + 1 \in 0..MaxEvents
        BY <1>1, <1>11, MayCrash DEF EngineCrashes
    <2>5. /\ engine' \in [up : BOOLEAN, life : Nat \ {0}, seq : Nat]
          /\ engine'.life = engine.life + 1 /\ engine'.seq = 0
          /\ crashes' = crashes + 1 /\ engine'.life <= crashes' + 1
          /\ UNCHANGED <<now, zone, daily, sched, disk>>
        BY <1>1, <1>11 DEF EngineCrashes
    <2>6. ASSUME NEW i \in Calls
          PROVE  /\ calls'[i].by = calls[i].by /\ calls'[i].at = calls[i].at
                 /\ calls'[i].life = calls[i].life /\ calls'[i].id = calls[i].id
                 /\ \/ calls'[i].stage = calls[i].stage
                    \/ calls[i].stage \in {"collecting", "running"} /\ calls'[i].stage = "failed"
                 /\ calls'[i].client = calls[i].client
        BY <2>2, <2>3
    <2>7. now' \in 0..MaxTime /\ crashes' \in 0..MaxEvents
        BY <1>1, <2>4, <2>5
    <2>8. LosesSome
        BY <1>1, <2>3, <2>5, <2>6, <2>7 DEF LosesSome
    <2>9. QED  BY <2>8, LosesSomeStep
<1>12. CASE SchedulerCrashes
    <2> DEFINE f == [i \in Calls |->
                       IF i \in Waiting THEN [calls[i] EXCEPT !.client = "untold"] ELSE calls[i]]
    <2>1. calls' = [i \in Calls |-> f[i]]
        BY <1>12 DEF SchedulerCrashes
    <2>2. ASSUME NEW i \in Calls
          PROVE  /\ f[i] \in Call
                 /\ f[i].by = calls[i].by /\ f[i].at = calls[i].at
                 /\ f[i].life = calls[i].life /\ f[i].id = calls[i].id
                 /\ f[i].stage = calls[i].stage
                 /\ f[i].client \in {calls[i].client, "untold"} /\ f[i].client # "waiting"
        <3>1. calls[i] \in Call
            BY <1>1, CallsAre
        <3>2. QED  BY <3>1 DEF Call, Waiting
    <2> HIDE DEF f
    <2>3. /\ calls' \in Seq(Call) /\ Len(calls') = Len(calls) /\ Calls' = Calls
          /\ \A i \in Calls : calls'[i] = f[i]
        BY <1>1, <2>1, <2>2, SetCalls
    <2>4. crashes + 1 \in 0..MaxEvents
        BY <1>1, <1>12, MayCrash DEF SchedulerCrashes
    <2>5. /\ sched' \in [state : {"down", "awake", "asleep", "calling"}, wakeAt : Int]
          /\ sched'.state = "down" /\ crashes' = crashes + 1 /\ engine'.life <= crashes' + 1
          /\ UNCHANGED <<now, zone, daily, engine, disk>>
        BY <1>1, <1>12 DEF SchedulerCrashes
    <2>6. ASSUME NEW i \in Calls
          PROVE  /\ calls'[i].by = calls[i].by /\ calls'[i].at = calls[i].at
                 /\ calls'[i].life = calls[i].life /\ calls'[i].id = calls[i].id
                 /\ calls'[i].stage = calls[i].stage
                 /\ calls'[i].client \in {calls[i].client, "untold"}
                 /\ calls'[i].client # "waiting"
        BY <2>2, <2>3
    <2>7. now' \in 0..MaxTime /\ crashes' \in 0..MaxEvents
        BY <1>1, <2>4, <2>5
    <2>8. LosesSome
        BY <1>1, <2>3, <2>5, <2>6, <2>7 DEF LosesSome
    <2>9. QED  BY <2>8, LosesSomeStep
<1>13. CASE Tick
    <2>1. PICK later : later = now'
        OBVIOUS
    <2> DEFINE f == [i \in Calls |->
                       IF i \in Running \ Waiting /\ later > calls[i].at + MaxRunTime
                       THEN [calls[i] EXCEPT !.stage = "failed"] ELSE calls[i]]
    <2>2. calls' = [i \in Calls |-> f[i]]
        BY <1>13, <2>1 DEF Tick
    <2>3. ASSUME NEW i \in Calls
          PROVE  /\ f[i] \in Call
                 /\ f[i].by = calls[i].by /\ f[i].at = calls[i].at
                 /\ f[i].life = calls[i].life /\ f[i].id = calls[i].id
                 /\ \/ f[i].stage = calls[i].stage
                    \/ calls[i].stage \in {"collecting", "running"} /\ f[i].stage = "failed"
                 /\ f[i].client = calls[i].client
        <3>1. calls[i] \in Call
            BY <1>1, CallsAre
        <3>2. QED  BY <3>1 DEF Call, Running
    <2> HIDE DEF f
    <2>4. /\ calls' \in Seq(Call) /\ Len(calls') = Len(calls) /\ Calls' = Calls
          /\ \A i \in Calls : calls'[i] = f[i]
        BY <1>1, <2>2, <2>3, SetCalls
    <2>5. now' \in 0..MaxTime /\ UNCHANGED <<zone, daily, sched, engine, disk, crashes>>
        BY <1>1, <1>13, DailyAssumption DEF Tick
    <2>6. LosesSome
        BY <1>1, <2>3, <2>4, <2>5 DEF LosesSome
    <2>7. QED  BY <2>6, LosesSomeStep
<1>14. QED
    BY <1>3, <1>4, <1>5, <1>6, <1>7, <1>8, <1>9, <1>10, <1>11, <1>12, <1>13
    DEF Next, SchedulerStep, RunStep
(* The types, and the one answer a scheduler in a call waits for, in any    *)
(* instance: DailyTypeOK, cmd/scheduler/main.go.                            *)
THEOREM DailyTypes == Spec => []DailyTypeOK
<1>1. TypesInv => DailyTypeOK
    <2> SUFFICES ASSUME TypesInv  PROVE DailyTypeOK
        OBVIOUS
    <2>1. StateTypes /\ OneCallWaits /\ SeqCounted /\ calls \in Seq(Call) /\ MaxEvents \in Nat /\ MaxCalls \in Nat
        BY DailyAssumption DEF TypesInv, StateTypes
    <2>2. PICK begun \in Nat : begun = Cardinality(Begun)
        BY <2>1, BegunIs
    <2>3. begun <= Len(calls) /\ Len(calls) \in Nat /\ Len(calls) <= MaxCalls
        BY <2>1, <2>2, BegunIs DEF StateTypes
    <2>4. engine \in [up : BOOLEAN, life : 1..(MaxEvents + 1), seq : 0..MaxCalls]
        BY <2>1, <2>2, <2>3 DEF StateTypes, SeqCounted
    <2>5. Cardinality(Waiting) = IF sched.state = "calling" THEN 1 ELSE 0
        BY <2>1, FS_EmptySet, FS_Singleton DEF OneCallWaits
    <2>6. \A i \in Calls :
            /\ calls[i].by \in {"scheduler", "worker"}
            /\ calls[i].stage \in {"collecting", "running", "done", "failed"}
            /\ calls[i].client \in {"waiting", "told", "untold"}
        BY <2>1, CallsAre DEF Call
    <2>7. QED  BY <2>1, <2>4, <2>5, <2>6 DEF StateTypes, DailyTypeOK
<1>2. TypesInv /\ [Next]_vars => TypesInv'
    BY TypesStep
<1>3. QED  BY <1>1, <1>2, TypesInit, PTL DEF Spec

-----------------------------------------------------------------------------
(* When the scheduler sleeps and when it calls.                             *)

SleepTimed ==
    sched.state = "asleep" =>
        /\ Shows(sched.wakeAt) \/ ZoneChanges(sched.wakeAt - Day, sched.wakeAt)
        /\ SleepBounded(sched.wakeAt)
        /\ \/ now <= sched.wakeAt /\ \A i \in Scheduled : calls[i].at < sched.wakeAt
           \/ sched.wakeAt <= now /\ ZoneChanges(now - Day, now)

CallsTimed ==
    \A i \in Scheduled :
        /\ calls[i].at <= now
        /\ Shows(calls[i].at) \/ ZoneChanges(calls[i].at - Day, calls[i].at)

CallsInOrder ==
    \A i, j \in Scheduled :
        i < j => /\ calls[i].at <= calls[j].at
                 /\ \/ calls[i].at < calls[j].at
                    \/ ZoneChanges(calls[j].at - Day, calls[j].at)

TimesInv == TypesInv /\ SleepTimed /\ CallsTimed /\ CallsInOrder

\* At the start nothing was asked for.
LEMMA TimesInit == Init => TimesInv
<1> SUFFICES ASSUME Init  PROVE TimesInv
    OBVIOUS
<1>1. Scheduled = {} /\ sched.state = "awake"
    BY DEF Init, Scheduled, Calls
<1>2. QED  BY <1>1, TypesInit DEF TimesInv, SleepTimed, CallsTimed, CallsInOrder

\* What a step does to the sleep of the scheduler.
LEMMA SleepStep ==
    ASSUME TypesInv, [Next]_vars
    PROVE  /\ zone' = zone /\ daily' = daily
           /\ now' = now \/ now' = now + 1
           /\ \/ sched'.state # "asleep"
              \/ sched' = sched /\ (now' = now \/ now < sched.wakeAt)
              \/ now' = now /\ calls' = calls /\ sched'.wakeAt \in NextDailyRun
<1>1. sched \in [state : {"down", "awake", "asleep", "calling"}, wakeAt : Int]
    BY DEF TypesInv, StateTypes
<1> USE DEF config
<1>2. CASE Sleep
    BY <1>1, <1>2 DEF Sleep
<1>3. CASE RunOnce
    BY <1>1, <1>3 DEF RunOnce
<1>4. ASSUME NEW i \in Calls, TimeOut(i) \/ ReadAnswer(i)  PROVE sched'.state # "asleep" /\ now' = now /\ UNCHANGED config
    BY <1>1, <1>4 DEF TimeOut, HangUp, ReadAnswer
<1>5. ASSUME NEW i \in Calls, Collected(i) \/ Done(i) \/ Fails(i)  PROVE sched' = sched /\ now' = now /\ UNCHANGED config
    BY <1>5 DEF Collected, Done, Fails
<1>6. CASE WorkerStarts \/ EngineCrashes \/ EngineStarts \/ UNCHANGED vars
    BY <1>6 DEF WorkerStarts, EngineCrashes, EngineStarts, vars
<1>7. CASE SchedulerCrashes \/ SchedulerStarts
    BY <1>1, <1>7 DEF SchedulerCrashes, SchedulerStarts
<1>8. CASE Tick
    BY <1>8 DEF Tick
<1>9. QED  BY <1>2, <1>3, <1>4, <1>5, <1>6, <1>7, <1>8 DEF Next, SchedulerStep, RunStep

\* What was said of an instant remains so.
LEMMA ClockKept ==
    ASSUME zone' = zone, daily' = daily, NEW t, NEW u
    PROVE  /\ Shows(t)' <=> Shows(t)
           /\ ZoneChanges(t, u)' <=> ZoneChanges(t, u)
<1>1. Shows(t)' <=> Shows(t)
    BY DEF Shows, Offset
<1>2. ZoneChanges(t, u)' <=> ZoneChanges(t, u)
    BY DEF ZoneChanges, Shift
<1>3. QED  BY <1>1, <1>2
\* A step keeps the scheduled calls or adds one at the end of a sleep.
SameSchedule ==
    Scheduled' = Scheduled /\ \A i \in Scheduled : calls'[i].at = calls[i].at

OneMoreScheduled ==
    /\ sched.state = "asleep" /\ now >= sched.wakeAt /\ sched'.state # "asleep"
    /\ now' = now
    /\ \E new \in Nat :
        /\ Scheduled' = Scheduled \cup {new} /\ \A i \in Scheduled : i < new
        /\ calls'[new].at = now
        /\ \A i \in Scheduled : calls'[i].at = calls[i].at

\* A step adds at most one scheduled run, and changes the time of none.
LEMMA ScheduleStep ==
    ASSUME TypesInv, [Next]_vars
    PROVE  SameSchedule \/ OneMoreScheduled
<1>1. calls \in Seq(Call)
    BY DEF TypesInv, StateTypes
<1>2. Len(calls) \in Nat /\ Calls = 1..Len(calls)
    BY <1>1, CallsAre
<1>3. CASE Quiet
    BY <1>3 DEF Quiet, SameSchedule, Scheduled
<1>4. ASSUME NEW i \in Calls, Begins(i) \/ Stores(i)
      PROVE  SameSchedule
    <2>1. Calls' = Calls /\ \A j \in Calls : calls'[j].by = calls[j].by /\ calls'[j].at = calls[j].at
        BY <1>4 DEF Begins, Stores
    <2>2. QED  BY <2>1 DEF SameSchedule, Scheduled
<1>5. CASE Adds
    <2>1. PICK new \in Nat : new = Len(calls) + 1
        BY <1>2
    <2>2. /\ Calls' = Calls \cup {new} /\ new \notin Calls /\ now' = now
          /\ \A j \in Calls : calls'[j] = calls[j]
          /\ calls'[new].at = now
          /\ calls'[new].by = "scheduler" => /\ sched.state = "asleep" /\ now >= sched.wakeAt
                                             /\ sched'.state # "asleep"
        BY <1>5, <2>1 DEF Adds
    <2>3. CASE calls'[new].by = "scheduler"
        <3>1. Scheduled' = Scheduled \cup {new}
            BY <2>2, <2>3 DEF Scheduled
        <3>2. \A i \in Scheduled : i < new /\ calls'[i].at = calls[i].at
            BY <1>2, <2>1, <2>2 DEF Scheduled
        <3>3. QED  BY <2>2, <2>3, <3>1, <3>2 DEF OneMoreScheduled
    <2>4. CASE calls'[new].by # "scheduler"
        BY <2>2, <2>4 DEF SameSchedule, Scheduled
    <2>5. QED  BY <2>3, <2>4
<1>6. QED  BY <1>3, <1>4, <1>5, TypesStep

\* No step breaks the schedule.
LEMMA TimesStep ==
    ASSUME TimesInv, [Next]_vars
    PROVE  TimesInv'
<1>1. TypesInv /\ StateTypes /\ SleepTimed /\ CallsTimed /\ CallsInOrder /\ ClockOK
    BY ClockTypes DEF TimesInv, TypesInv
<1>2. /\ now \in Int /\ sched.wakeAt \in Int
      /\ zone.before \in Int /\ zone.after \in Int /\ zone.at \in Int
      /\ Day \in Nat \ {0} /\ Shift \in Nat
    BY <1>1, ShiftIs, WalkForwardAssumption DEF StateTypes, ClockOK
<1>3. Scheduled \subseteq Nat /\ \A i \in Scheduled : calls[i].at \in Int
    BY <1>1, CallsAre DEF StateTypes, Scheduled, Call
<1>4. zone' = zone /\ daily' = daily /\ (now' = now \/ now' = now + 1)
    BY <1>1, SleepStep
<1>5. SameSchedule \/ OneMoreScheduled
    BY <1>1, ScheduleStep
<1>6. \A t, u : (Shows(t)' <=> Shows(t)) /\ (ZoneChanges(t, u)' <=> ZoneChanges(t, u))
    BY <1>4, ClockKept
<1>7. CallsTimed' /\ CallsInOrder'
    <2>1. CASE SameSchedule
        <3>1. Scheduled' = Scheduled
            BY <2>1 DEF SameSchedule
        <3>2. ASSUME NEW i \in Scheduled
              PROVE  /\ calls'[i].at = calls[i].at /\ calls'[i].at <= now'
                     /\ (Shows(calls[i].at) \/ ZoneChanges(calls[i].at - Day, calls[i].at))'
            <4>1. PICK t \in Int : t = calls[i].at
                BY <1>3
            <4>2. calls'[i].at = t
                BY <2>1, <4>1 DEF SameSchedule
            <4>3. t <= now /\ (Shows(t) \/ ZoneChanges(t - Day, t))
                BY <1>1, <4>1 DEF CallsTimed
            <4>4. (Shows(t) \/ ZoneChanges(t - Day, t))'
                BY <1>6, <4>3
            <4>5. calls'[i].at = calls[i].at /\ calls'[i].at <= now'
                BY <1>2, <1>4, <4>1, <4>2, <4>3
            <4>6. QED  BY <4>2, <4>4, <4>5
        <3>3. CallsTimed'
            BY <3>1, <3>2 DEF CallsTimed
        <3>4. ASSUME NEW i \in Scheduled, NEW j \in Scheduled, i < j
              PROVE  /\ calls'[i].at <= calls'[j].at
                     /\ \/ calls'[i].at < calls'[j].at
                        \/ ZoneChanges(calls[j].at - Day, calls[j].at)'
            <4>1. PICK t \in Int, u \in Int : t = calls[i].at /\ u = calls[j].at
                BY <1>3
            <4>2. calls'[i].at = t /\ calls'[j].at = u
                BY <2>1, <4>1 DEF SameSchedule
            <4>3. t <= u /\ (t < u \/ ZoneChanges(u - Day, u))
                BY <1>1, <3>4, <4>1 DEF CallsInOrder
            <4>4. t < u \/ ZoneChanges(u - Day, u)'
                BY <1>6, <4>3
            <4>5. QED  BY <4>2, <4>3, <4>4
        <3>5. CallsInOrder'
            BY <3>1, <3>4 DEF CallsInOrder
        <3>6. QED  BY <3>3, <3>5
    <2>2. CASE OneMoreScheduled
        <3>1. PICK new \in Nat :
                /\ Scheduled' = Scheduled \cup {new} /\ \A i \in Scheduled : i < new
                /\ calls'[new].at = now
                /\ \A i \in Scheduled : calls'[i].at = calls[i].at
            BY <2>2 DEF OneMoreScheduled
        <3>2. now' = now /\ sched.state = "asleep" /\ now >= sched.wakeAt
            BY <2>2 DEF OneMoreScheduled
        <3>3. PICK t \in Int : t = now
            BY <1>2
        <3>4. \/ Shows(t) /\ \A i \in Scheduled : calls[i].at < t
              \/ ZoneChanges(t - Day, t)
            <4>1. PICK w \in Int : w = sched.wakeAt
                BY <1>2
            <4>2. /\ Shows(w) \/ ZoneChanges(w - Day, w)
                  /\ \/ t <= w /\ \A i \in Scheduled : calls[i].at < w
                     \/ ZoneChanges(t - Day, t)
                BY <1>1, <3>2, <3>3, <4>1 DEF SleepTimed
            <4>3. t >= w
                BY <3>2, <3>3, <4>1
            <4>4. t <= w => t = w
                BY <4>3
            <4>5. QED  BY <4>2, <4>4
        <3>5. (Shows(t) \/ ZoneChanges(t - Day, t))'
            BY <1>6, <3>4
        <3>6. ASSUME NEW i \in Scheduled
              PROVE  /\ calls'[i].at \in Int /\ calls'[i].at <= t
                     /\ calls'[i].at < t \/ ZoneChanges(t - Day, t)'
                     /\ (Shows(calls[i].at) \/ ZoneChanges(calls[i].at - Day, calls[i].at))'
            <4>1. PICK u \in Int : u = calls[i].at
                BY <1>3
            <4>2. calls'[i].at = u
                BY <3>1, <4>1
            <4>3. u <= t /\ (Shows(u) \/ ZoneChanges(u - Day, u))
                BY <1>1, <3>3, <4>1 DEF CallsTimed
            <4>4. (Shows(u) \/ ZoneChanges(u - Day, u))'
                BY <1>6, <4>3
            <4>5. u < t \/ ZoneChanges(t - Day, t)'
                BY <1>6, <3>4, <4>1
            <4>6. QED  BY <4>2, <4>3, <4>4, <4>5
        <3>7. calls'[new].at = t /\ now' = t
            BY <3>1, <3>2, <3>3
        <3>8. (Shows(calls[new].at) \/ ZoneChanges(calls[new].at - Day, calls[new].at))'
            BY <3>5, <3>7
        <3>9. CallsTimed'
            BY <3>1, <3>6, <3>7, <3>8 DEF CallsTimed
        <3>10. ASSUME NEW i \in Scheduled'
               PROVE  /\ i < new => /\ calls'[i].at <= calls'[new].at
                                    /\ calls'[i].at < calls'[new].at
                                         \/ ZoneChanges(calls[new].at - Day, calls[new].at)'
                      /\ i \in Scheduled \/ i = new
            BY <3>1, <3>6, <3>7
        <3>11. ASSUME NEW i \in Scheduled, NEW j \in Scheduled, i < j
              PROVE  /\ calls'[i].at <= calls'[j].at
                     /\ \/ calls'[i].at < calls'[j].at
                        \/ ZoneChanges(calls[j].at - Day, calls[j].at)'
            <4>1. PICK v \in Int, u \in Int : v = calls[i].at /\ u = calls[j].at
                BY <1>3
            <4>2. calls'[i].at = v /\ calls'[j].at = u
                BY <3>1, <4>1
            <4>3. v <= u /\ (v < u \/ ZoneChanges(u - Day, u))
                BY <1>1, <3>11, <4>1 DEF CallsInOrder
            <4>4. v < u \/ ZoneChanges(u - Day, u)'
                BY <1>6, <4>3
            <4>5. QED  BY <4>2, <4>3, <4>4
        <3>12. ASSUME NEW i \in Scheduled
               PROVE  ~ (new < i)
            <4>1. i \in Nat /\ i < new
                BY <1>3, <3>1
            <4>2. QED  BY <4>1
        <3>13. CallsInOrder'
            BY <3>1, <3>10, <3>11, <3>12 DEF CallsInOrder
        <3>14. QED  BY <3>9, <3>13
    <2>3. QED  BY <1>5, <2>1, <2>2
<1>8. SleepTimed'
    <2>1. CASE sched'.state # "asleep"
        BY <2>1 DEF SleepTimed
    <2>2. CASE sched' = sched /\ sched'.state = "asleep" /\ (now' = now \/ now < sched.wakeAt)
        <3>1. SameSchedule
            BY <1>5, <2>2 DEF OneMoreScheduled
        <3>2. PICK w \in Int, t \in Int : w = sched.wakeAt /\ t = now
            BY <1>2
        <3>3. /\ Shows(w) \/ ZoneChanges(w - Day, w)
              /\ SleepBounded(w)
              /\ \/ t <= w /\ \A i \in Scheduled : calls[i].at < w
                 \/ w <= t /\ ZoneChanges(t - Day, t)
            BY <1>1, <2>2, <3>2 DEF SleepTimed
        <3>4. sched'.wakeAt = w
            BY <2>2, <3>2
        <3>5. (Shows(w) \/ ZoneChanges(w - Day, w))'
            BY <1>6, <3>3
        <3>6. SleepBounded(w)'
            BY <1>2, <1>4, <3>3 DEF SleepBounded, Shift
        <3>7. \A i \in Scheduled' : calls'[i].at = calls[i].at /\ i \in Scheduled
            BY <3>1 DEF SameSchedule
        <3>8. \/ now' <= w /\ \A i \in Scheduled' : calls'[i].at < w
              \/ w <= now' /\ ZoneChanges(now - Day, now)'
            <4>1. CASE t <= w /\ \A i \in Scheduled : calls[i].at < w
                <5>1. now' <= w
                    BY <1>2, <1>4, <2>2, <3>2, <4>1
                <5>2. QED  BY <3>7, <4>1, <5>1
            <4>2. CASE w <= t /\ ZoneChanges(t - Day, t)
                <5>1. now' = t
                    BY <2>2, <3>2, <4>2
                <5>2. ZoneChanges(t - Day, t)'
                    BY <1>6, <4>2
                <5>3. QED  BY <4>2, <5>1, <5>2
            <4>3. QED  BY <3>3, <4>1, <4>2
        <3>9. QED  BY <3>4, <3>5, <3>6, <3>8 DEF SleepTimed
    <2>3. CASE now' = now /\ calls' = calls /\ sched'.wakeAt \in NextDailyRun
        <3>1. PICK w \in NextDailyRun : w = sched'.wakeAt
            BY <2>3
        <3>2. PICK t \in Int : t = now
            BY <1>2
        <3>3. /\ w \in Int /\ SleepBounded(w)
              /\ Shows(w) \/ ZoneChanges(w - Day, w)
              /\ w > t \/ ZoneChanges(t - Day, t)
            BY <1>1, <3>2, NextDailyRunIs
        <3>4. now' = t
            BY <2>3, <3>2
        <3>5. (Shows(w) \/ ZoneChanges(w - Day, w))'
            BY <1>6, <3>3
        <3>6. SleepBounded(w)'
            BY <1>2, <1>4, <2>3, <3>3 DEF SleepBounded, Shift
        <3>7. \A i \in Scheduled' : i \in Scheduled /\ calls'[i].at = calls[i].at /\ calls[i].at <= t
            BY <1>1, <2>3, <3>2 DEF Scheduled, Calls, CallsTimed
        <3>8. \/ now' <= w /\ \A i \in Scheduled' : calls'[i].at < w
              \/ w <= now' /\ ZoneChanges(now - Day, now)'
            <4>1. CASE w > t
                <5>1. now' <= w
                    BY <3>3, <3>4, <4>1
                <5>2. ASSUME NEW i \in Scheduled'
                      PROVE  calls'[i].at < w
                    <6>1. calls'[i].at \in Int /\ calls'[i].at <= t
                        BY <1>3, <3>7
                    <6>2. QED  BY <3>3, <4>1, <6>1
                <5>3. QED  BY <5>1, <5>2
            <4>2. CASE ~ (w > t)
                <5>1. ZoneChanges(t - Day, t)'
                    BY <1>6, <3>3, <4>2
                <5>2. w <= t
                    BY <3>3, <4>2
                <5>3. QED  BY <3>4, <5>1, <5>2
            <4>3. QED  BY <4>1, <4>2
        <3>9. QED  BY <3>1, <3>5, <3>6, <3>8 DEF SleepTimed
    <2>4. QED  BY <1>1, <2>1, <2>2, <2>3, SleepStep
<1>9. QED  BY <1>1, <1>7, <1>8, TypesStep DEF TimesInv
(* Every scheduled run is asked for at the configured time of the zone's     *)
(* wall clock, but for the days around a change of its offset:              *)
(* AtTheDailyTime, nextDailyRun of cmd/scheduler/main.go.                   *)
THEOREM DailyAtTheDailyTime == Spec => []AtTheDailyTime
<1>1. TimesInv => AtTheDailyTime
    BY DEF TimesInv, CallsTimed, AtTheDailyTime, Shows
<1>2. QED  BY <1>1, TimesInit, TimesStep, PTL DEF Spec

(* No sleep skips a day, and none is longer but by a change of the offset:  *)
(* NoDayMissed, nextDailyRun of cmd/scheduler/main.go.                      *)
THEOREM DailyNoDayMissed == Spec => []NoDayMissed
<1>1. TimesInv => NoDayMissed
    <2> SUFFICES ASSUME TimesInv, sched.state = "asleep", ~ (sched.wakeAt - now <= Day)
                 PROVE  /\ ZoneChanges(now + 1, sched.wakeAt)
                        /\ sched.wakeAt - now <= Day + Shift
        BY DEF NoDayMissed
    <2>1. StateTypes /\ SleepBounded(sched.wakeAt) /\ ClockOK
        BY ClockTypes DEF TimesInv, TypesInv, SleepTimed
    <2>2. /\ now \in Int /\ sched.wakeAt \in Int /\ zone.at \in Int
          /\ Day \in Nat \ {0} /\ Shift \in Nat
        BY <2>1, ShiftIs, WalkForwardAssumption DEF StateTypes, ClockOK
    <2>3. PICK w \in Int : w = sched.wakeAt
        BY <2>2
    <2>4. /\ zone.before # zone.after
          /\ w - now <= Day + Shift
          /\ w - zone.at < Day + Shift /\ zone.at <= w + Shift
        BY <2>1, <2>2, <2>3 DEF SleepBounded
    <2>5. zone.at \in ((now + 1) - Shift)..(w + Shift)
        BY <2>2, <2>3, <2>4
    <2>6. ZoneChanges(now + 1, w)
        BY <2>4, <2>5 DEF ZoneChanges
    <2>7. QED  BY <2>3, <2>4, <2>6
<1>2. QED  BY <1>1, TimesInit, TimesStep, PTL DEF Spec

\* Two instants at which the same clock shows the daily time are a day apart.
LEMMA ADayApart ==
    ASSUME ClockOK, NEW t \in Int, NEW u \in Int, Shows(t), Shows(u), t < u,
           Offset(t) = Offset(u)
    PROVE  u - t >= Day
<1>1. PICK d \in Nat \ {0} : d = Day
    BY WalkForwardAssumption
<1>2. PICK o \in Int : o = Offset(t)
    BY OffsetIs
<1>3. PICK x \in Int, y \in Int : x = t + o /\ y = u + o
    BY <1>2
<1>4. PICK j \in Int, k \in Int : j = x \div d /\ k = y \div d
    BY DivisionBounds
<1>5. j * d \in Int /\ k * d \in Int
    OBVIOUS
<1>6. x - j * d = daily /\ y - k * d = daily
    <2>1. x % d = daily /\ y % d = daily
        BY <1>1, <1>2, <1>3 DEF Shows
    <2>2. QED  BY <1>4, <2>1, Remainder
<1>7. daily \in Int
    BY <1>1 DEF ClockOK
<1>8. SUFFICES ASSUME u - t < d  PROVE FALSE
    BY <1>1
<1>9. j * d - k * d < d /\ k * d - j * d < d
    BY <1>2, <1>3, <1>5, <1>6, <1>7, <1>8
<1>10. j = k
    BY <1>9, SameMultiple
<1>11. x = y
    BY <1>3, <1>5, <1>6, <1>7, <1>10
<1>12. QED  BY <1>2, <1>3, <1>11

(* The windows of two scheduled runs have no instant in common unless the   *)
(* zone changed its offset since a day before the first: WindowsDisjoint,   *)
(* nextDailyRun and runOnce of cmd/scheduler/main.go.                       *)
THEOREM DailyWindowsDisjoint == Spec => []WindowsDisjoint
<1>1. TimesInv => WindowsDisjoint
    <2> SUFFICES ASSUME TimesInv, NEW i \in Scheduled, NEW j \in Scheduled, i < j,
                        ~ ZoneChanges(calls[i].at - Day, calls[j].at)
                 PROVE  calls[j].at - calls[i].at > Window
        BY DEF WindowsDisjoint
    <2>1. StateTypes /\ CallsTimed /\ CallsInOrder /\ ClockOK
        BY ClockTypes DEF TimesInv, TypesInv
    <2>2. calls[i].at \in Int /\ calls[j].at \in Int
        BY <2>1, CallsAre DEF StateTypes, Scheduled, Call
    <2>3. PICK t \in Int, u \in Int : t = calls[i].at /\ u = calls[j].at
        BY <2>2
    <2>4. /\ Day \in Nat \ {0} /\ Window \in Nat /\ Window < Day /\ Shift \in Nat
          /\ zone.at \in Int
        BY <2>1, ShiftIs, WalkForwardAssumption, DailyAssumption DEF ClockOK
    <2>5. /\ t <= u /\ (t < u \/ ZoneChanges(u - Day, u))
          /\ Shows(t) \/ ZoneChanges(t - Day, t)
          /\ Shows(u) \/ ZoneChanges(u - Day, u)
        BY <2>1, <2>3 DEF CallsTimed, CallsInOrder
    <2>6. ~ ZoneChanges(t - Day, u)
        BY <2>3
    <2>7. (~ ZoneChanges(t - Day, t)) /\ (~ ZoneChanges(u - Day, u))
        BY <2>4, <2>5, <2>6 DEF ZoneChanges
    <2>8. Offset(t) = Offset(u)
        BY <2>1, <2>4, <2>5, <2>6, OffsetIs DEF ZoneChanges, ClockOK
    <2>9. u - t >= Day
        BY <2>1, <2>5, <2>7, <2>8, ADayApart
    <2>10. QED  BY <2>3, <2>4, <2>9
<1>2. QED  BY <1>1, TimesInit, TimesStep, PTL DEF Spec
-----------------------------------------------------------------------------
(* Whose artifacts a run directory holds.                                   *)

\* A run that has begun has an id, and one that has ended well was told of, at most.
IdsGiven ==
    \A i \in Calls :
        /\ calls[i].client = "told" => calls[i].stage = "done"
        /\ calls[i].stage = "collecting" => calls[i].id = 0
        /\ calls[i].stage \in {"running", "done"} => calls[i].id \in 1..MaxCalls

\* The lives that give ids: a worker's, and the engine's one after the other.
LivesCounted ==
    \A i \in Calls : calls[i].id # 0 =>
        IF calls[i].by = "worker"
        THEN calls[i].life = -i
        ELSE /\ calls[i].life \in 1..engine.life
             /\ calls[i].life = engine.life => calls[i].id <= engine.seq

\* No life gives an id twice.
IdsUnique ==
    \A i, j \in Calls :
        i # j /\ calls[i].id # 0 /\ calls[i].id = calls[j].id => calls[i].life # calls[j].life

HoldersBegan ==
    \A d \in 1..MaxCalls :
        disk[d] # 0 => disk[d] \in Calls /\ calls[disk[d]].id = d

DoneOnDisk ==
    \A i \in Calls : calls[i].stage = "done" =>
        LET holder == disk[calls[i].id]
        IN  holder = i \/ (holder # 0 /\ calls[holder].life # calls[i].life)

IdsInv == TypesInv /\ IdsGiven /\ LivesCounted /\ IdsUnique /\ HoldersBegan /\ DoneOnDisk

\* At the start no directory holds anything.
LEMMA IdsInit == Init => IdsInv
<1> SUFFICES ASSUME Init  PROVE IdsInv
    OBVIOUS
<1>1. Calls = {} /\ \A d \in 1..MaxCalls : disk[d] = 0
    BY DEF Init, Calls
<1>2. QED
    BY <1>1, TypesInit DEF IdsInv, IdsGiven, LivesCounted, IdsUnique, HoldersBegan, DoneOnDisk

\* The types behind ids, lives and directories.
LEMMA IdTypes ==
    ASSUME TypesInv
    PROVE  /\ engine.life \in Nat \ {0} /\ engine.seq \in Nat /\ MaxCalls \in Nat
           /\ Calls = 1..Len(calls) /\ Len(calls) \in Nat /\ Len(calls) <= MaxCalls
           /\ Calls \subseteq 1..MaxCalls
           /\ disk \in [1..MaxCalls -> 0..MaxCalls]
           /\ \A i \in Calls :
                /\ calls[i].life \in Int /\ calls[i].id \in Nat
                /\ calls[i].stage \in {"collecting", "running", "done", "failed"}
                /\ calls[i].by \in {"scheduler", "worker"}
<1>1. StateTypes /\ calls \in Seq(Call) /\ Len(calls) <= MaxCalls /\ MaxCalls \in Nat
    BY DailyAssumption DEF TypesInv, StateTypes
<1>2. /\ Calls = 1..Len(calls) /\ Len(calls) \in Nat
      /\ \A i \in Calls : calls[i] \in Call
    BY <1>1, CallsAre
<1>3. Calls \subseteq 1..MaxCalls
    BY <1>1, <1>2
<1>4. QED  BY <1>1, <1>2, <1>3 DEF StateTypes, Call

\* The engine's counter is below the calls while one of them has not begun.
LEMMA SeqBelow ==
    ASSUME TypesInv, NEW i \in Calls, calls[i].stage = "collecting"
    PROVE  engine.seq + 1 <= MaxCalls
<1>1. /\ calls \in Seq(Call) /\ engine.seq \in Nat /\ Len(calls) \in Nat /\ MaxCalls \in Nat
      /\ Len(calls) <= MaxCalls
    BY IdTypes DEF TypesInv, StateTypes
<1>2. PICK begun \in SUBSET Calls : begun = Begun
    BY DEF Begun
<1>3. IsFiniteSet(begun) /\ Cardinality(begun) \in Nat /\ engine.seq <= Cardinality(begun)
    BY <1>1, <1>2, BegunIs DEF TypesInv, SeqCounted
<1>4. i \notin begun
    BY <1>2 DEF Begun
<1>5. Cardinality(begun \cup {i}) = Cardinality(begun) + 1
    BY <1>3, <1>4, FS_AddElement
<1>6. Cardinality(begun \cup {i}) <= Cardinality(Calls) /\ Cardinality(Calls) = Len(calls)
    <2>1. IsFiniteSet(Calls) /\ Cardinality(Calls) = Len(calls)
        BY <1>1, CallsAre
    <2>2. begun \cup {i} \subseteq Calls
        BY <1>2
    <2>3. QED  BY <2>1, <2>2, FS_Subset
<1>7. PICK n \in Nat : n = Cardinality(begun)
    BY <1>3
<1>8. engine.seq <= n /\ n + 1 <= Len(calls)
    BY <1>3, <1>5, <1>6, <1>7
<1>9. QED  BY <1>1, <1>7, <1>8

\* A step that touches no id keeps them.
LEMMA QuietKeepsIds ==
    ASSUME IdsInv, Quiet
    PROVE  IdsGiven' /\ LivesCounted' /\ IdsUnique' /\ HoldersBegan' /\ DoneOnDisk'
<1>1. /\ TypesInv /\ IdsGiven /\ LivesCounted /\ IdsUnique /\ HoldersBegan /\ DoneOnDisk
      /\ Calls' = Calls /\ disk' = disk
    BY DEF IdsInv, Quiet
<1>2. IdsGiven'
    BY <1>1 DEF Quiet, IdsGiven
<1>3. LivesCounted'
    <2> SUFFICES ASSUME NEW i \in Calls, calls'[i].id # 0
                 PROVE  IF calls'[i].by = "worker"
                        THEN calls'[i].life = -i
                        ELSE /\ calls'[i].life \in 1..engine'.life
                             /\ calls'[i].life = engine'.life => calls'[i].id <= engine'.seq
        BY <1>1 DEF LivesCounted
    <2>1. calls'[i].by = calls[i].by /\ calls'[i].life = calls[i].life /\ calls'[i].id = calls[i].id
        BY DEF Quiet
    <2>2. /\ engine.life \in Nat /\ calls[i].life \in Int
          /\ \/ engine'.life = engine.life /\ engine'.seq = engine.seq
             \/ engine'.life = engine.life + 1
        BY <1>1, IdTypes DEF Quiet
    <2>3. calls[i].by # "worker" => /\ calls[i].life \in 1..engine.life
                                    /\ calls[i].life = engine.life => calls[i].id <= engine.seq
        BY <1>1, <2>1 DEF LivesCounted
    <2>4. calls[i].by = "worker" => calls[i].life = -i
        BY <1>1, <2>1 DEF LivesCounted
    <2>5. QED  BY <2>1, <2>2, <2>3, <2>4
<1>4. IdsUnique'
    BY <1>1 DEF Quiet, IdsUnique
<1>5. HoldersBegan'
    BY <1>1 DEF Quiet, HoldersBegan
<1>6. DoneOnDisk'
    <2> SUFFICES ASSUME NEW i \in Calls, calls'[i].stage = "done"
                 PROVE  LET holder == disk[calls'[i].id]
                        IN  holder = i \/ (holder # 0 /\ calls'[holder].life # calls'[i].life)
        BY <1>1 DEF DoneOnDisk
    <2>1. calls[i].stage = "done" /\ calls'[i].id = calls[i].id /\ calls'[i].life = calls[i].life
        BY DEF Quiet
    <2>2. PICK holder : holder = disk[calls[i].id]
        OBVIOUS
    <2>3. holder = i \/ (holder # 0 /\ calls[holder].life # calls[i].life)
        BY <1>1, <2>1, <2>2 DEF DoneOnDisk
    <2>4. holder # 0 => holder \in Calls
        BY <1>1, <2>1, <2>2 DEF HoldersBegan, IdsGiven
    <2>5. holder # 0 => calls'[holder].life = calls[holder].life
        BY <2>4 DEF Quiet
    <2>6. QED  BY <2>1, <2>2, <2>3, <2>5
<1>7. QED  BY <1>2, <1>3, <1>4, <1>5, <1>6

\* A call that is added has no id yet.
LEMMA AddsKeepsIds ==
    ASSUME IdsInv, Adds
    PROVE  IdsGiven' /\ LivesCounted' /\ IdsUnique' /\ HoldersBegan' /\ DoneOnDisk'
<1>1. TypesInv /\ IdsGiven /\ LivesCounted /\ IdsUnique /\ HoldersBegan /\ DoneOnDisk
    BY DEF IdsInv
<1>2. PICK new \in Nat : new = Len(calls) + 1
    BY <1>1, IdTypes
<1>3. /\ Calls' = Calls \cup {new} /\ new \notin Calls /\ engine' = engine /\ disk' = disk
      /\ \A j \in Calls : calls'[j] = calls[j]
      /\ calls'[new].id = 0 /\ calls'[new].stage \in {"collecting", "failed"}
      /\ calls'[new].client # "told"
    BY <1>2 DEF Adds
<1>4. IdsGiven'
    BY <1>1, <1>3 DEF IdsGiven
<1>5. LivesCounted'
    BY <1>1, <1>3 DEF LivesCounted
<1>6. IdsUnique'
    BY <1>1, <1>3 DEF IdsUnique
<1>7. HoldersBegan'
    BY <1>1, <1>3 DEF HoldersBegan
<1>8. DoneOnDisk'
    <2> SUFFICES ASSUME NEW i \in Calls', calls'[i].stage = "done"
                 PROVE  LET holder == disk[calls'[i].id]
                        IN  holder = i \/ (holder # 0 /\ calls'[holder].life # calls'[i].life)
        BY <1>3 DEF DoneOnDisk
    <2>1. i \in Calls /\ calls'[i] = calls[i] /\ calls[i].stage = "done"
        BY <1>3
    <2>2. PICK holder : holder = disk[calls[i].id]
        OBVIOUS
    <2>3. holder = i \/ (holder # 0 /\ calls[holder].life # calls[i].life)
        BY <1>1, <2>1, <2>2 DEF DoneOnDisk
    <2>4. holder # 0 => holder \in Calls
        BY <1>1, <2>1, <2>2 DEF HoldersBegan, IdsGiven
    <2>5. QED  BY <1>3, <2>1, <2>2, <2>3, <2>4
<1>9. QED  BY <1>4, <1>5, <1>6, <1>7, <1>8

\* A call that begins gets an id that no other call of its life has.
LEMMA BeginsKeepsIds ==
    ASSUME IdsInv, NEW i \in Calls, Begins(i)
    PROVE  IdsGiven' /\ LivesCounted' /\ IdsUnique' /\ HoldersBegan' /\ DoneOnDisk'
<1>1. /\ TypesInv /\ IdsGiven /\ LivesCounted /\ IdsUnique /\ HoldersBegan /\ DoneOnDisk
      /\ Calls' = Calls /\ disk' = disk /\ calls[i].stage = "collecting" /\ calls[i].id = 0
      /\ calls'[i].stage = "running" /\ calls'[i].by = calls[i].by
      /\ engine'.life = engine.life
      /\ \A j \in Calls \ {i} : calls'[j] = calls[j]
    BY DEF IdsInv, Begins, IdsGiven
<1>2. /\ engine.life \in Nat \ {0} /\ engine.seq \in Nat /\ i \in 1..MaxCalls /\ MaxCalls \in Nat
      /\ \A j \in Calls : calls[j].life \in Int /\ calls[j].id \in Nat /\ j \in Nat \ {0}
    BY <1>1, IdTypes
<1>3. engine.seq + 1 <= MaxCalls
    BY <1>1, SeqBelow
<1>4. \/ /\ calls[i].by = "worker" /\ engine'.seq = engine.seq
         /\ calls'[i].life = -i /\ calls'[i].id = 1
      \/ /\ calls[i].by # "worker" /\ engine'.seq = engine.seq + 1
         /\ calls'[i].life = engine.life /\ calls'[i].id = engine.seq + 1
    BY DEF Begins
<1>5. calls'[i].id \in 1..MaxCalls
    BY <1>2, <1>3, <1>4
<1>6. IdsGiven'
    <2>1. calls'[i].client # "told"
        BY <1>1 DEF Begins, IdsGiven
    <2>2. QED  BY <1>1, <1>5, <2>1 DEF IdsGiven
<1>7. LivesCounted'
    <2> SUFFICES ASSUME NEW j \in Calls, calls'[j].id # 0
                 PROVE  IF calls'[j].by = "worker"
                        THEN calls'[j].life = -j
                        ELSE /\ calls'[j].life \in 1..engine'.life
                             /\ calls'[j].life = engine'.life => calls'[j].id <= engine'.seq
        BY <1>1 DEF LivesCounted
    <2>1. CASE j = i
        BY <1>1, <1>2, <1>4, <2>1
    <2>2. CASE j # i
        <3>1. calls'[j] = calls[j]
            BY <1>1, <2>2
        <3>2. IF calls[j].by = "worker"
              THEN calls[j].life = -j
              ELSE /\ calls[j].life \in 1..engine.life
                   /\ calls[j].life = engine.life => calls[j].id <= engine.seq
            BY <1>1, <3>1 DEF LivesCounted
        <3>3. engine'.seq = engine.seq \/ engine'.seq = engine.seq + 1
            BY <1>4
        <3>4. QED  BY <1>1, <1>2, <3>1, <3>2, <3>3
    <2>3. QED  BY <2>1, <2>2
<1>8. ASSUME NEW j \in Calls \ {i}, calls[j].id # 0, calls[j].id = calls'[i].id
      PROVE  calls[j].life # calls'[i].life
    <2>1. IF calls[j].by = "worker"
          THEN calls[j].life = -j
          ELSE /\ calls[j].life \in 1..engine.life
               /\ calls[j].life = engine.life => calls[j].id <= engine.seq
        BY <1>1, <1>8 DEF LivesCounted
    <2>2. QED  BY <1>2, <1>4, <1>8, <2>1
<1>9. IdsUnique'
    <2> SUFFICES ASSUME NEW j \in Calls, NEW k \in Calls, j # k,
                        calls'[j].id # 0, calls'[j].id = calls'[k].id
                 PROVE  calls'[j].life # calls'[k].life
        BY <1>1 DEF IdsUnique
    <2>1. CASE j = i
        BY <1>1, <1>8, <2>1
    <2>2. CASE k = i
        BY <1>1, <1>8, <2>2
    <2>3. CASE j # i /\ k # i
        BY <1>1, <2>3 DEF IdsUnique
    <2>4. QED  BY <2>1, <2>2, <2>3
<1>10. \A d \in 1..MaxCalls : disk[d] # i
    BY <1>1, <1>2 DEF HoldersBegan
<1>11. HoldersBegan'
    BY <1>1, <1>10 DEF HoldersBegan
<1>12. DoneOnDisk'
    <2> SUFFICES ASSUME NEW j \in Calls, calls'[j].stage = "done"
                 PROVE  LET holder == disk[calls'[j].id]
                        IN  holder = j \/ (holder # 0 /\ calls'[holder].life # calls'[j].life)
        BY <1>1 DEF DoneOnDisk
    <2>1. j # i /\ calls'[j] = calls[j] /\ calls[j].stage = "done"
        BY <1>1
    <2>2. PICK holder : holder = disk[calls[j].id]
        OBVIOUS
    <2>3. holder = j \/ (holder # 0 /\ calls[holder].life # calls[j].life)
        BY <1>1, <2>1, <2>2 DEF DoneOnDisk
    <2>4. holder # 0 => holder \in Calls /\ holder # i
        BY <1>1, <1>10, <2>1, <2>2 DEF HoldersBegan, IdsGiven
    <2>5. QED  BY <1>1, <2>1, <2>2, <2>3, <2>4
<1>13. QED  BY <1>6, <1>7, <1>9, <1>11, <1>12

\* A run that is stored takes its directory from a run of another life, or from nobody.
LEMMA StoresKeepsIds ==
    ASSUME IdsInv, NEW i \in Calls, Stores(i)
    PROVE  IdsGiven' /\ LivesCounted' /\ IdsUnique' /\ HoldersBegan' /\ DoneOnDisk'
<1>1. /\ TypesInv /\ IdsGiven /\ LivesCounted /\ IdsUnique /\ HoldersBegan /\ DoneOnDisk
      /\ Calls' = Calls /\ engine' = engine /\ disk' = [disk EXCEPT ![calls[i].id] = i]
      /\ calls[i].stage = "running" /\ calls'[i].stage \in {"done", "failed"}
      /\ calls[i].id \in 1..MaxCalls
      /\ \A j \in Calls \ {i} : calls'[j] = calls[j]
    BY DEF IdsInv, Stores, IdsGiven
<1>2. \A j \in Calls : calls'[j].by = calls[j].by /\ calls'[j].life = calls[j].life
                         /\ calls'[j].id = calls[j].id
    BY DEF Stores
<1>3. /\ disk \in [1..MaxCalls -> 0..MaxCalls] /\ Calls \subseteq 1..MaxCalls /\ MaxCalls \in Nat
      /\ \A j \in Calls : j # 0 /\ calls[j].id \in Nat
    BY <1>1, IdTypes
<1>4. \A d \in 1..MaxCalls : disk'[d] = IF d = calls[i].id THEN i ELSE disk[d]
    BY <1>1, <1>3
<1>5. IdsGiven'
    <2>1. calls'[i].client = "told" => calls'[i].stage = "done"
        BY <1>1 DEF Stores, IdsGiven
    <2>2. QED  BY <1>1, <1>2, <2>1 DEF IdsGiven
<1>6. LivesCounted'
    BY <1>1, <1>2 DEF LivesCounted
<1>7. IdsUnique'
    BY <1>1, <1>2 DEF IdsUnique
<1>8. HoldersBegan'
    BY <1>1, <1>2, <1>4 DEF HoldersBegan
<1>9. DoneOnDisk'
    <2> SUFFICES ASSUME NEW j \in Calls, calls'[j].stage = "done"
                 PROVE  LET holder == disk'[calls'[j].id]
                        IN  holder = j \/ (holder # 0 /\ calls'[holder].life # calls'[j].life)
        BY <1>1 DEF DoneOnDisk
    <2>1. CASE j = i
        BY <1>1, <1>2, <1>4, <2>1
    <2>2. CASE j # i /\ calls[j].id = calls[i].id
        <3>1. disk'[calls'[j].id] = i
            BY <1>1, <1>2, <1>4, <2>2
        <3>2. calls[i].life # calls[j].life
            BY <1>1, <2>2 DEF IdsUnique
        <3>3. QED  BY <1>2, <1>3, <3>1, <3>2
    <2>3. CASE j # i /\ calls[j].id # calls[i].id
        <3>1. calls'[j] = calls[j] /\ calls[j].stage = "done"
            BY <1>1, <2>3
        <3>2. PICK holder : holder = disk[calls[j].id]
            OBVIOUS
        <3>3. calls[j].id \in 1..MaxCalls /\ disk'[calls'[j].id] = holder
            BY <1>1, <1>4, <2>3, <3>1, <3>2 DEF IdsGiven
        <3>4. holder = j \/ (holder # 0 /\ calls[holder].life # calls[j].life)
            BY <1>1, <3>1, <3>2 DEF DoneOnDisk
        <3>5. holder # 0 => holder \in Calls
            BY <1>1, <3>2, <3>3 DEF HoldersBegan
        <3>6. QED  BY <1>2, <3>1, <3>3, <3>4, <3>5
    <2>4. QED  BY <2>1, <2>2, <2>3
<1>10. QED  BY <1>5, <1>6, <1>7, <1>8, <1>9

\* No step loses a run that is done.
LEMMA IdsStep ==
    ASSUME IdsInv, [Next]_vars
    PROVE  IdsInv'
<1>1. /\ TypesInv /\ TypesInv'
      /\ Quiet \/ Adds \/ (\E i \in Calls : Begins(i)) \/ (\E i \in Calls : Stores(i))
    BY TypesStep DEF IdsInv
<1>2. IdsGiven' /\ LivesCounted' /\ IdsUnique' /\ HoldersBegan' /\ DoneOnDisk'
    BY <1>1, QuietKeepsIds, AddsKeepsIds, BeginsKeepsIds, StoresKeepsIds
<1>3. QED  BY <1>1, <1>2 DEF IdsInv

(* A run that was logged as done is on disk, or a run of a later or other    *)
(* life that was given its id is: ToldRunsOnDisk, handleRunCreate of        *)
(* cmd/api, triggerRun of cmd/scheduler and runOnce of cmd/worker.          *)
THEOREM DailyToldRunsOnDisk == Spec => []ToldRunsOnDisk
<1>1. IdsInv => ToldRunsOnDisk
    BY DEF IdsInv, IdsGiven, DoneOnDisk, ToldRunsOnDisk
<1>2. QED  BY <1>1, IdsInit, IdsStep, PTL DEF Spec
-----------------------------------------------------------------------------
(* The folds.  That a finite set of dates can be put in order is proved by  *)
(* looking at a smallest set that cannot.                                   *)

HasLast(U) == \E m \in U : \A x \in U : x <= m

Ordered(s) == \A i, j \in DOMAIN s : i < j => s[i] < s[j]

InOrder(U) == \E s \in [1..Cardinality(U) -> U] : Ordered(s)

\* A finite set of integers has a last one.
LEMMA LastExists ==
    ASSUME NEW S \in SUBSET Int, IsFiniteSet(S), S # {}
    PROVE  HasLast(S)
<1> DEFINE Bad(n) == \E U \in SUBSET S : U # {} /\ Cardinality(U) = n /\ (~ HasLast(U))
           T == {n \in Nat : Bad(n)}
<1>1. T = {}
    <2> SUFFICES ASSUME T # {}  PROVE FALSE
        OBVIOUS
    <2>1. PICK n \in T : \A k \in T : ~ (k < n)
        BY Smallest
    <2>2. PICK U \in SUBSET S : U # {} /\ Cardinality(U) = n /\ (~ HasLast(U))
        BY <2>1
    <2>3. IsFiniteSet(U)
        BY FS_Subset
    <2>4. PICK y \in U : TRUE
        BY <2>2
    <2>5. PICK k \in Nat : k + 1 = n /\ Cardinality(U \ {y}) = k
        BY <2>2, <2>3, OneLess
    <2>6. CASE U \ {y} = {}
        <3>1. \A x \in U : x <= y
            BY <2>6
        <3>2. QED  BY <2>2, <3>1 DEF HasLast
    <2>7. CASE U \ {y} # {}
        <3>1. k < n
            BY <2>5
        <3>2. ~ Bad(k)
            BY <2>1, <2>5, <3>1
        <3>3. HasLast(U \ {y})
            BY <2>5, <2>7, <3>2
        <3>4. PICK m \in U \ {y} : \A x \in U \ {y} : x <= m
            BY <3>3 DEF HasLast
        <3>5. m \in Int /\ y \in Int
            OBVIOUS
        <3>6. CASE m <= y
            <4>1. \A x \in U : x <= y
                BY <3>4, <3>5, <3>6
            <4>2. QED  BY <2>2, <4>1 DEF HasLast
        <3>7. CASE y <= m
            <4>1. \A x \in U : x <= m
                BY <3>4, <3>7
            <4>2. QED  BY <2>2, <4>1 DEF HasLast
        <3>8. QED  BY <3>5, <3>6, <3>7
    <2>8. QED  BY <2>6, <2>7
<1>2. Cardinality(S) \in Nat
    BY FS_CardinalityType
<1>3. QED  BY <1>1, <1>2

\* A finite set of integers can be counted off in order.
LEMMA OrderExists ==
    ASSUME NEW S \in SUBSET Int, IsFiniteSet(S)
    PROVE  InOrder(S)
<1> DEFINE Bad(n) == \E U \in SUBSET S : Cardinality(U) = n /\ (~ InOrder(U))
           T == {n \in Nat : Bad(n)}
<1>1. T = {}
    <2> SUFFICES ASSUME T # {}  PROVE FALSE
        OBVIOUS
    <2>1. PICK n \in T : \A k \in T : ~ (k < n)
        BY Smallest
    <2>2. PICK U \in SUBSET S : Cardinality(U) = n /\ (~ InOrder(U))
        BY <2>1
    <2>3. IsFiniteSet(U)
        BY FS_Subset
    <2>4. CASE U = {}
        <3>1. Cardinality(U) = 0
            BY <2>4, FS_EmptySet
        <3>2. <<>> \in [1..0 -> U] /\ Ordered(<<>>)
            BY DEF Ordered
        <3>3. QED  BY <2>2, <3>1, <3>2 DEF InOrder
    <2>5. CASE U # {}
        <3>1. PICK m \in U : \A x \in U : x <= m
            BY <2>3, <2>5, LastExists DEF HasLast
        <3>2. PICK k \in Nat : k + 1 = n /\ Cardinality(U \ {m}) = k
            BY <2>2, <2>3, OneLess
        <3>3. k < n
            BY <3>2
        <3>4. InOrder(U \ {m})
            BY <2>1, <3>2, <3>3
        <3>5. PICK s \in [1..k -> U \ {m}] : Ordered(s)
            BY <3>2, <3>4 DEF InOrder
        <3> DEFINE t == [i \in 1..(k + 1) |-> IF i = k + 1 THEN m ELSE s[i]]
        <3>6. t \in [1..(k + 1) -> U]
            BY <3>5
        <3>7. ASSUME NEW i \in 1..(k + 1), NEW j \in 1..(k + 1), i < j
              PROVE  t[i] < t[j]
            <4>1. i \in 1..k /\ t[i] = s[i]
                BY <3>7
            <4>2. s[i] \in U \ {m} /\ s[i] \in Int /\ m \in Int
                BY <4>1
            <4>3. s[i] <= m /\ s[i] # m
                BY <3>1, <4>2
            <4>4. CASE j = k + 1
                BY <4>1, <4>2, <4>3, <4>4
            <4>5. CASE j # k + 1
                <5>1. j \in 1..k /\ t[j] = s[j]
                    BY <4>5
                <5>2. s[i] < s[j]
                    BY <3>5, <3>7, <4>1, <5>1 DEF Ordered
                <5>3. QED  BY <4>1, <5>1, <5>2
            <4>6. QED  BY <4>4, <4>5
        <3> HIDE DEF t
        <3>8. Ordered(t)
            BY <3>6, <3>7 DEF Ordered
        <3>9. QED  BY <2>2, <3>2, <3>6, <3>8 DEF InOrder
    <2>6. QED  BY <2>4, <2>5
<1>2. Cardinality(S) \in Nat
    BY FS_CardinalityType
<1>3. QED  BY <1>1, <1>2
\* The dates that the folds are cut from, each a multiple of a Day, in order.
LEMMA DatesInOrder ==
    ASSUME NEW rows \in SUBSET Int, IsFiniteSet(rows)
    PROVE  LET dates == UniqueDates(rows)
           IN  /\ DOMAIN dates = 1..Len(dates) /\ Len(dates) \in Nat
               /\ Ordered(dates)
               /\ \A i \in DOMAIN dates : \E k \in Int : dates[i] = k * Day - IST
<1> DEFINE dates == {SessionDate(t) : t \in rows}
           s == UniqueDates(rows)
<1>1. dates \in SUBSET Int
    BY SessionIsInt
<1>2. IsFiniteSet(dates)
    <2> DEFINE f == [t \in rows |-> SessionDate(t)]
    <2>1. f \in Surjection(rows, dates)
        BY DEF Surjection
    <2>2. QED  BY <2>1, FS_Surjection
<1>3. InOrder(dates)
    BY <1>1, <1>2, OrderExists
<1>4. PICK n \in Nat : n = Cardinality(dates)
    BY <1>2, FS_CardinalityType
<1>5. \E r \in [1..n -> dates] : \A i, j \in DOMAIN r : i < j => r[i] < r[j]
    BY <1>3, <1>4 DEF InOrder, Ordered
<1>6. s = CHOOSE r \in [1..n -> dates] : \A i, j \in DOMAIN r : i < j => r[i] < r[j]
    BY <1>4 DEF UniqueDates
<1>7. s \in [1..n -> dates] /\ Ordered(s)
    BY <1>5, <1>6 DEF Ordered
<1> HIDE DEF s
<1>8. DOMAIN s = 1..n /\ Len(s) = n
    BY <1>7
<1>9. ASSUME NEW i \in 1..n
      PROVE  \E k \in Int : s[i] = k * Day - IST
    <2>1. PICK t \in rows : s[i] = SessionDate(t)
        BY <1>7
    <2>2. PICK x \in Int : x = t + IST
        BY WalkForwardAssumption
    <2>3. x \div Day \in Int
        BY WalkForwardAssumption, DivisionBounds
    <2>4. s[i] = (x \div Day) * Day - IST
        BY <2>1, <2>2 DEF SessionDate
    <2>5. QED  BY <2>3, <2>4
<1>10. QED  BY <1>7, <1>8, <1>9 DEF s

\* Different dates are a Day apart at least.
LEMMA DatesApart ==
    ASSUME NEW x \in Int, NEW y \in Int, x < y,
           \E k \in Int : x = k * Day - IST, \E k \in Int : y = k * Day - IST
    PROVE  x + Day <= y
<1>1. PICK d \in Nat \ {0}, o \in Int : d = Day /\ o = IST
    BY WalkForwardAssumption
<1>2. PICK j \in Int, k \in Int : x = j * d - o /\ y = k * d - o
    BY <1>1
<1>3. SUFFICES ASSUME y - x < d  PROVE FALSE
    BY <1>1
<1>4. j * d \in Int /\ k * d \in Int
    OBVIOUS
<1>5. j * d - k * d < d /\ k * d - j * d < d
    BY <1>2, <1>3, <1>4
<1>6. j = k
    BY <1>5, SameMultiple
<1>7. QED  BY <1>2, <1>6

\* BuildPurgedWalkForward, for any rows and any number of days.
LEMMA FoldPurged ==
    ASSUME NEW rows \in SUBSET Int, IsFiniteSet(rows),
           NEW trainDays \in Nat \ {0}, NEW testDays \in Nat \ {0}, NEW embargoDays \in Nat \ {0},
           NEW fold \in BuildPurgedWalkForward(rows, trainDays, testDays, embargoDays)
    PROVE  /\ fold.testStart <= fold.testEnd
           /\ \A row \in rows : row <= fold.trainEnd => LabelWindowEnd(row) < fold.testStart
<1> DEFINE dates == UniqueDates(rows)
<1>1. /\ DOMAIN dates = 1..Len(dates) /\ Len(dates) \in Nat /\ Ordered(dates)
      /\ \A i \in DOMAIN dates : \E k \in Int : dates[i] = k * Day - IST
    BY DatesInOrder
<1>2. /\ Day \in Nat \ {0} /\ IST \in Int /\ MarketClose \in 0..(Day - 1)
    BY WalkForwardAssumption
<1>3. \A i \in DOMAIN dates : dates[i] \in Int
    BY <1>1, <1>2
<1>4. PICK n \in Nat : n = Len(dates)
    BY <1>1
<1>5. PICK start \in 1..(n - trainDays - embargoDays - testDays + 1) :
        fold = Fold(dates, start, trainDays, testDays, embargoDays)
    BY <1>4 DEF BuildPurgedWalkForward
<1> HIDE DEF dates
<1>6. PICK last \in Int, between \in Int, first \in Int, end \in Int :
        /\ last = start + trainDays - 1 /\ between = start + trainDays
        /\ first = start + trainDays + embargoDays /\ end = first + testDays - 1
    OBVIOUS
<1>7. /\ {last, between, first, end} \subseteq 1..n
      /\ last < between /\ between < first /\ (first = end \/ first < end)
    BY <1>5, <1>6
<1>8. /\ fold.trainEnd = dates[last] /\ fold.testStart = dates[first] /\ fold.testEnd = dates[end]
    BY <1>5, <1>6 DEF Fold
<1>9. /\ dates[last] < dates[between] /\ dates[between] < dates[first]
      /\ dates[first] = dates[end] \/ dates[first] < dates[end]
    BY <1>1, <1>4, <1>7 DEF Ordered
<1>10. PICK x \in Int, y \in Int, z \in Int :
        x = dates[last] /\ y = dates[between] /\ z = dates[first]
    BY <1>1, <1>3, <1>4, <1>7
<1>11. x + Day <= y /\ y + Day <= z
    BY <1>1, <1>4, <1>7, <1>9, <1>10, DatesApart
<1>12. fold.testStart <= fold.testEnd
    BY <1>1, <1>3, <1>4, <1>7, <1>8, <1>9
<1>13. ASSUME NEW row \in rows, row <= fold.trainEnd
       PROVE  LabelWindowEnd(row) < fold.testStart
    <2>1. PICK r \in Int : r = row + IST
        BY <1>2
    <2>2. PICK session \in Int : session = (r \div Day) * Day
        BY <1>2, DivisionBounds
    <2>3. session <= r
        BY <1>2, <2>2, DivisionBounds
    <2>4. LabelWindowEnd(row) = session - IST + MarketClose + Day
        BY <2>1, <2>2 DEF LabelWindowEnd, SessionDate
    <2>5. row <= x /\ fold.testStart = z
        BY <1>8, <1>10, <1>13
    <2>6. QED  BY <1>2, <1>11, <2>1, <2>3, <2>4, <2>5
<1>14. QED  BY <1>12, <1>13

\* The rows on disk are finitely many instants.
LEMMA RowsAreFinite ==
    ASSUME TypesInv, HoldersBegan
    PROVE  DiskRows \in SUBSET Int /\ IsFiniteSet(DiskRows)
<1> DEFINE held == {d \in DOMAIN disk : disk[d] # 0}
           f == [d \in held |-> calls[disk[d]].session]
<1>1. DOMAIN disk = 1..MaxCalls /\ MaxCalls \in Nat
    BY DailyAssumption DEF TypesInv, StateTypes
<1>2. DiskRows \in SUBSET Int
    <2>1. \A i \in Calls : calls[i].session \in Int
        BY CallsAre DEF TypesInv, StateTypes, Call
    <2>2. QED  BY <1>1, <2>1 DEF HoldersBegan, DiskRows
<1>3. PICK n \in Nat : n = MaxCalls
    BY <1>1
<1>4. IsFiniteSet(1..n) /\ held \in SUBSET (1..n)
    BY <1>1, <1>3, FS_Interval
<1>5. IsFiniteSet(held)
    BY <1>4, FS_Subset
<1>6. f \in Surjection(held, DiskRows)
    BY DEF Surjection, DiskRows
<1>7. QED  BY <1>2, <1>5, <1>6, FS_Surjection

(* Whatever runs have left on disk, no row that a fold trains on has a label *)
(* window that reaches into the fold's test: FoldsPurged,                   *)
(* BuildPurgedWalkForward of internal/eval.  FoldPurged says it of any rows *)
(* and any number of days.                                                  *)
THEOREM DailyFoldsPurged == Spec => []FoldsPurged
<1>1. IdsInv => FoldsPurged
    <2> SUFFICES ASSUME IdsInv,
                        NEW trainDays \in 1..2, NEW testDays \in 1..2, NEW embargoDays \in 1..2,
                        NEW fold \in BuildPurgedWalkForward(DiskRows, trainDays, testDays, embargoDays)
                 PROVE  /\ fold.testStart <= fold.testEnd
                        /\ \A row \in DiskRows :
                             fold.trainStart <= row /\ row <= fold.trainEnd =>
                                LabelWindowEnd(row) < fold.testStart
        BY DEF FoldsPurged
    <2>1. PICK rows \in SUBSET Int : rows = DiskRows /\ IsFiniteSet(rows)
        BY RowsAreFinite DEF IdsInv
    <2>2. fold \in BuildPurgedWalkForward(rows, trainDays, testDays, embargoDays)
        BY <2>1
    <2>3. /\ fold.testStart <= fold.testEnd
          /\ \A row \in rows : row <= fold.trainEnd => LabelWindowEnd(row) < fold.testStart
        BY <2>1, <2>2, FoldPurged
    <2>4. QED  BY <2>1, <2>3
<1>2. QED  BY <1>1, IdsInit, IdsStep, PTL DEF Spec
=============================================================================
