------------------------------ MODULE DailyRuns ------------------------------
(***************************************************************************)
(* The daily run: cmd/scheduler sleeps until a wall-clock time of its zone *)
(* and posts a run to the engine, with a client that gives up; the handler *)
(* of cmd/api goes on without it.  cmd/worker runs the same pipeline over  *)
(* the same store in a process of its own.  The sessions of the rows that  *)
(* runs leave on disk are what WalkForward cuts into folds.                 *)
(***************************************************************************)
EXTENDS WalkForward

CONSTANTS
    DailyTimes,     \* times of the day, counted from midnight
    Zones,          \* time zones, each with at most one change of offset
    ClientTimeout,  \* http.Client.Timeout of the scheduler
    Window,         \* DateTo - DateFrom of the runs, two hours
    MaxRunTime,     \* bound: a run that takes longer never ends
    MaxTime,        \* bound: the last instant
    MaxCalls,       \* bound: scheduled and worker runs
    MaxEvents       \* bound: worker runs, and crashes of the scheduler or the engine

ASSUME DailyAssumption ==
    /\ DailyTimes \subseteq 0..(Day - 1)
    /\ \A z \in Zones : z \in [before : Int, after : Int, at : Int]
    /\ {ClientTimeout, Window, MaxRunTime, MaxTime, MaxCalls, MaxEvents} \subseteq Nat
    /\ Window < Day

VARIABLES
    now,        \* the instant
    zone,       \* SCHEDULER_TIMEZONE
    daily,      \* SCHEDULER_DAILY_TIME, counted from midnight
    sched,      \* the scheduler: what it does and when its sleep is over
    engine,     \* the engine: whether it is up, its life and its run counter
    calls,      \* the runs asked for, in order
    disk,       \* the run whose artifacts each run directory holds, 0 for none
    crashes     \* crashes so far

vars == <<now, zone, daily, sched, engine, calls, disk, crashes>>
config == <<zone, daily>>

Calls == DOMAIN calls
Scheduled == {i \in Calls : calls[i].by = "scheduler"}
Waiting == {i \in Calls : calls[i].client = "waiting"}
Running == {i \in Calls : calls[i].stage \in {"collecting", "running"}}

-----------------------------------------------------------------------------
(* The wall clock *)
Offset(t) == IF t < zone.at THEN zone.before ELSE zone.after

\* time.Date: the instants at which the zone shows this wall time.  A wall time
\* that is skipped is read with either offset, and one that is shown twice is
\* either instant, as the documentation of time.Date has it.
Date(wall) ==
    LET readings == {wall - zone.before, wall - zone.after}
        shown == {u \in readings : u + Offset(u) = wall}
    IN  IF shown = {} THEN readings ELSE shown

\* Wrong on purpose: the day's time is due until it is over.
NextDailyRunNotBefore ==
    LET midnight == ((now + Offset(now)) \div Day) * Day
    IN  {IF u >= now THEN u ELSE u + Day : u \in Date(midnight + daily)}

\* Wrong on purpose: the next run is a day after the last one has ended.
NextDailyRunAfterLast ==
    LET midnight == ((now + Offset(now)) \div Day) * Day
    IN  {IF u > now THEN u ELSE now + Day : u \in Date(midnight + daily)}

\* Wrong on purpose: the date is taken in UTC.
NextDailyRunOfUTC ==
    LET midnight == (now \div Day) * Day
    IN  {IF u > now THEN u ELSE u + Day : u \in Date(midnight + daily)}

\* nextDailyRun: today's instant, or 24 hours after it, which need not be later
\* than now and need not be tomorrow.
NextDailyRun ==
    LET midnight == ((now + Offset(now)) \div Day) * Day
    IN  {IF u > now THEN u ELSE u + Day : u \in Date(midnight + daily)}

-----------------------------------------------------------------------------
Init ==
    /\ now = 0
    /\ zone \in Zones
    /\ daily \in DailyTimes
    /\ sched = [state |-> "awake", wakeAt |-> 0]
    /\ engine = [up |-> TRUE, life |-> 1, seq |-> 0]
    /\ calls = <<>>
    /\ disk = [id \in 1..MaxCalls |-> 0]
    /\ crashes = 0

(* The scheduler *)
Sleep ==
    /\ sched.state = "awake"
    /\ \E next \in NextDailyRun : sched' = [state |-> "asleep", wakeAt |-> next]
    /\ UNCHANGED <<now, config, engine, calls, disk, crashes>>

\* runOnce asks for the Window before now.  The id and the session come later.
NewCall(by, stage, client) ==
    /\ Len(calls) < MaxCalls
    /\ calls' = Append(calls, [by |-> by, at |-> now, stage |-> stage, client |-> client,
                               life |-> 0, id |-> 0, session |-> 0])

RunOnce ==
    /\ sched.state = "asleep"
    /\ now >= sched.wakeAt
    /\ now + ClientTimeout <= MaxTime
    /\ IF engine.up
       THEN /\ NewCall("scheduler", "collecting", "waiting")
            /\ sched' = [sched EXCEPT !.state = "calling"]
       ELSE /\ NewCall("scheduler", "failed", "untold")
            /\ sched' = [sched EXCEPT !.state = "awake"]
    /\ UNCHANGED <<now, config, engine, disk, crashes>>

\* Wrong on purpose: the client has no timeout.
NeverGivesUp(call) == MaxTime + 1

GivesUpAt(call) == call.at + ClientTimeout

\* Wrong on purpose: the request is given up and its answer still awaited.
HangUpLate(i) ==
    /\ now >= GivesUpAt(calls[i])
    /\ sched' = [sched EXCEPT !.state = "awake"]
    /\ UNCHANGED calls

\* client.Do returns the timeout, and the connection is closed.
HangUp(i) ==
    /\ now >= GivesUpAt(calls[i])
    /\ calls' = [calls EXCEPT ![i].client = "untold"]
    /\ sched' = [sched EXCEPT !.state = "awake"]

TimeOut(i) ==
    /\ i \in Waiting \cap Scheduled
    /\ HangUp(i)
    /\ UNCHANGED <<now, config, engine, disk, crashes>>

\* triggerRun reads the answer: a run id, or else a status that is not 200, a
\* body it cannot read or a connection that breaks off.
ReadAnswer(i) ==
    /\ i \in Waiting \cap Scheduled
    /\ calls[i].stage \in {"done", "failed"}
    /\ \/ calls[i].stage = "done" /\ calls' = [calls EXCEPT ![i].client = "told"]
       \/ calls' = [calls EXCEPT ![i].client = "untold"]
    /\ sched' = [sched EXCEPT !.state = "awake"]
    /\ UNCHANGED <<now, config, engine, disk, crashes>>

-----------------------------------------------------------------------------
(* The run, in a handler of the engine or in a worker *)
EventAllowed == crashes + Cardinality(Calls \ Scheduled) < MaxEvents

\* Wrong on purpose: the counter is read and not advanced.
TakeStaleRunID(i) ==
    /\ calls' = [calls EXCEPT ![i].stage = "running", ![i].life = engine.life,
                              ![i].id = engine.seq + 1]
    /\ UNCHANGED engine

\* A worker is a life of its own and counts from one.
TakeRunID(i) ==
    IF calls[i].by = "worker"
    THEN /\ calls' = [calls EXCEPT ![i].stage = "running", ![i].life = -i, ![i].id = 1]
         /\ UNCHANGED engine
    ELSE /\ calls' = [calls EXCEPT ![i].stage = "running", ![i].life = engine.life,
                                   ![i].id = engine.seq + 1]
         /\ engine' = [engine EXCEPT !.seq = @ + 1]

Collected(i) ==
    /\ calls[i].stage = "collecting"
    /\ TakeRunID(i)
    /\ UNCHANGED <<now, config, sched, disk, crashes>>

\* The run's artifacts are in its directory, with a row of an article of the
\* window.
Stored(i, stage) ==
    /\ \E published \in (calls[i].at - Window)..calls[i].at :
         calls' = [calls EXCEPT ![i].stage = stage, ![i].session = SessionDate(published),
                                ![i].client = IF calls[i].by = "worker" /\ stage = "done"
                                              THEN "told" ELSE @]
    /\ disk' = [disk EXCEPT ![calls[i].id] = i]

\* handleRunCreate writes the result; the worker logs it.
Done(i) ==
    /\ calls[i].stage = "running"
    /\ Stored(i, "done")
    /\ UNCHANGED <<now, config, sched, engine, crashes>>

\* A source cannot be fetched, always so once the client is gone; or the run
\* fails, before or after it has overwritten its directory.
Fails(i) ==
    /\ i \in Running
    /\ \/ calls' = [calls EXCEPT ![i].stage = "failed"] /\ UNCHANGED disk
       \/ calls[i].stage = "running" /\ Stored(i, "failed")
    /\ UNCHANGED <<now, config, sched, engine, crashes>>

WorkerStarts ==
    /\ EventAllowed
    /\ NewCall("worker", "collecting", "untold")
    /\ UNCHANGED <<now, config, sched, engine, disk, crashes>>

-----------------------------------------------------------------------------
(* Crashes, restarts and time *)
EngineCrashes ==
    /\ engine.up
    /\ EventAllowed
    /\ crashes' = crashes + 1
    /\ engine' = [up |-> FALSE, life |-> engine.life + 1, seq |-> 0]
    /\ calls' = [i \in Calls |->
         IF i \in Scheduled \cap Running
         THEN [calls[i] EXCEPT !.stage = "failed"] ELSE calls[i]]
    /\ UNCHANGED <<now, config, sched, disk>>

EngineStarts ==
    /\ ~ engine.up
    /\ engine' = [engine EXCEPT !.up = TRUE]
    /\ UNCHANGED <<now, config, sched, calls, disk, crashes>>

SchedulerCrashes ==
    /\ sched.state # "down"
    /\ EventAllowed
    /\ crashes' = crashes + 1
    /\ sched' = [state |-> "down", wakeAt |-> 0]
    /\ calls' = [i \in Calls |->
         IF i \in Waiting THEN [calls[i] EXCEPT !.client = "untold"] ELSE calls[i]]
    /\ UNCHANGED <<now, config, engine, disk>>

SchedulerStarts ==
    /\ sched.state = "down"
    /\ sched' = [sched EXCEPT !.state = "awake"]
    /\ UNCHANGED <<now, config, engine, calls, disk, crashes>>

\* Time does not pass a deadline of the scheduler, nor while it is awake.
Tick ==
    /\ now < MaxTime
    /\ sched.state # "awake"
    /\ sched.state = "asleep" => now < sched.wakeAt
    /\ \A i \in Waiting : now < GivesUpAt(calls[i]) /\ i \in Running
    /\ now' = now + 1
    /\ calls' = [i \in Calls |->
         IF i \in Running \ Waiting /\ now' > calls[i].at + MaxRunTime
         THEN [calls[i] EXCEPT !.stage = "failed"] ELSE calls[i]]
    /\ UNCHANGED <<config, sched, engine, disk, crashes>>

SchedulerStep == Sleep \/ RunOnce \/ \E i \in Calls : TimeOut(i) \/ ReadAnswer(i)
RunStep == \E i \in Calls : Collected(i) \/ Done(i) \/ Fails(i)

Next ==
    \/ SchedulerStep \/ RunStep \/ WorkerStarts
    \/ EngineCrashes \/ EngineStarts \/ SchedulerCrashes \/ SchedulerStarts
    \/ Tick

Spec == Init /\ [][Next]_vars

\* The scheduler's loop and the clock go on; the engine may hang for ever.
FairSpec == Spec /\ WF_vars(SchedulerStep) /\ WF_vars(Tick)
-----------------------------------------------------------------------------
(* Properties *)
Shift == IF zone.before <= zone.after THEN zone.after - zone.before ELSE zone.before - zone.after

\* The zone changes its offset between the two instants, or by no more than the
\* change itself before or after: then a day has an hour twice, or not at all,
\* and "today" may be over before it has begun.
ZoneChanges(from, to) ==
    zone.before # zone.after /\ zone.at \in (from - Shift)..(to + Shift)

DiskRows == {calls[disk[id]].session : id \in {d \in DOMAIN disk : disk[d] # 0}}

(***************************************************************************)
(* Types: the scheduler waits for exactly one answer when it is in a call, *)
(* and for none when it is not (cmd/scheduler/main.go, triggerRun).        *)
(***************************************************************************)
DailyTypeOK ==
    /\ now \in 0..MaxTime
    /\ zone \in Zones /\ daily \in DailyTimes
    /\ sched.state \in {"down", "awake", "asleep", "calling"} /\ sched.wakeAt \in Int
    /\ engine \in [up : BOOLEAN, life : 1..(MaxEvents + 1), seq : 0..MaxCalls]
    /\ \A i \in Calls :
         /\ calls[i].by \in {"scheduler", "worker"}
         /\ calls[i].stage \in {"collecting", "running", "done", "failed"}
         /\ calls[i].client \in {"waiting", "told", "untold"}
    /\ disk \in [1..MaxCalls -> 0..MaxCalls]
    /\ Cardinality(Waiting) = IF sched.state = "calling" THEN 1 ELSE 0

(***************************************************************************)
(* The windows of two scheduled runs have no instant in common, so no      *)
(* article is collected and charged twice, however long calls took and     *)
(* however often the scheduler was restarted (nextDailyRun, runOnce).  It  *)
(* fails only where the zone changed its offset since a day before.        *)
(***************************************************************************)
WindowsDisjoint ==
    \A i, j \in Scheduled :
        i < j => \/ calls[j].at - calls[i].at > Window
                 \/ ZoneChanges(calls[i].at - Day, calls[j].at)

(***************************************************************************)
(* Every scheduled run is asked for when the zone's wall clock shows the   *)
(* configured time, and never drifts with the duration of the calls        *)
(* (nextDailyRun), except within a day of a change of the offset.          *)
(***************************************************************************)
AtTheDailyTime ==
    \A i \in Scheduled :
        \/ (calls[i].at + Offset(calls[i].at)) % Day = daily
        \/ ZoneChanges(calls[i].at - Day, calls[i].at)

(***************************************************************************)
(* No day passes without a run while the scheduler is up: what is left of  *)
(* its sleep is at most a day, and longer only by a change of the offset   *)
(* that is still to come or has just been made (nextDailyRun).             *)
(***************************************************************************)
NoDayMissed ==
    sched.state = "asleep" =>
        \/ sched.wakeAt - now <= Day
        \/ /\ ZoneChanges(now + 1, sched.wakeAt)
           /\ sched.wakeAt - now <= Day + Shift

(***************************************************************************)
(* A run the scheduler or the worker logged as done is on disk under its   *)
(* id, whatever was given up, failed or crashed since, unless a process    *)
(* that counts its ids from one again was given the same one               *)
(* (handleRunCreate, triggerRun, cmd/worker runOnce).                      *)
(***************************************************************************)
ToldRunsOnDisk ==
    \A i \in Calls :
        calls[i].client = "told" =>
            LET holder == disk[calls[i].id]
            IN  holder = i \/ (holder # 0 /\ calls[holder].life # calls[i].life)

(***************************************************************************)
(* With an embargo of a session or more, the label window of every row on  *)
(* disk that a fold trains on ends before the fold's test begins           *)
(* (BuildPurgedWalkForward with AlignToNSESession and LabelWindowEnd).     *)
(***************************************************************************)
FoldsPurged ==
    \A trainDays, testDays, embargoDays \in 1..2 :
        \A fold \in BuildPurgedWalkForward(DiskRows, trainDays, testDays, embargoDays) :
            /\ fold.testStart <= fold.testEnd
            /\ \A row \in DiskRows :
                 fold.trainStart <= row /\ row <= fold.trainEnd =>
                    LabelWindowEnd(row) < fold.testStart

(***************************************************************************)
(* Whatever the engine does with a call, the scheduler is down or asleep   *)
(* until a later instant again, and does not hang or post in a loop (the   *)
(* loop of main with the timeout of its client).  It may post in a loop    *)
(* for the rest of a day that a change of the offset made longer.          *)
(***************************************************************************)
SchedulerSleepsAgain ==
    sched.state = "calling" ~>
        \/ sched.state = "down"
        \/ sched.state = "asleep" /\ sched.wakeAt > now
        \/ ZoneChanges(now - Day, now)
=============================================================================
