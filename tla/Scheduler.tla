----------------------------- MODULE Scheduler ------------------------------
(***************************************************************************)
(* The cron scheduler: the loops of scheduler.py (ScheduleWorker) in the   *)
(* server and in `sdpstudio worker`, that share the schedules table        *)
(* (claim_schedule), the dispatch of app.py and the submission thread it   *)
(* waits for.  Time is the minute a loop reads from its clock when a tick  *)
(* begins; a tick may still be under way many minutes later.               *)
(***************************************************************************)
EXTENDS Naturals

CONSTANTS
  Workers,    \* scheduling loops, one per process
  Schedules,  \* schedule rows
  MaxMinute,  \* bound on the clock
  MaxBoots,   \* bound on process starts
  Fires,      \* [Schedules -> SUBSET Minutes], what schedule_matches accepts
  NoSchedule  \* the loop is between two schedules

Minutes == 1..MaxMinute
Never == 0
Marks == 0..MaxMinute

ASSUME SchedulerAssumption ==
  /\ MaxMinute \in Nat \ {0}
  /\ MaxBoots \in Nat
  /\ Fires \in [Schedules -> SUBSET Minutes]
  /\ NoSchedule \notin Schedules

VARIABLES
  now,        \* the current minute
  row,        \* schedules: 'enabled', 'paused' or 'deleted'
  replace,    \* schedules whose concurrency_policy is 'replace', not 'skip'
              \* or 'forbid'
  runOnce,    \* schedules whose missed_run_policy is 'run_once', not 'skip'
  marker,     \* schedules.last_claim_marker
  at,         \* where each loop is
  boots,      \* process starts so far
  last,       \* _last_minute
  fresh,      \* the tick under way, or the last one, is the first
  listed,     \* the markers of the listed schedules as the tick read them
  todo,       \* due schedules the tick has not come to
  pick,       \* the schedule whose claim succeeded
  task,       \* _running_tasks: the dispatch of a schedule, and its minute
  threads,    \* submissions that go on although their task was cancelled
  edited,     \* history: schedules paused, resumed or deleted
  claims,     \* history: occurrences <<s, m>> claimed
  started,    \* history: dispatches begun per occurrence
  overtaken   \* history: a claim was made for a minute before the stored one

policy  == <<replace, runOnce>>
rows    == <<row, marker, policy>>
ticks   == <<last, fresh, listed, todo, pick>>
work    == <<task, threads>>
history == <<edited, claims, started, overtaken>>
vars    == <<now, rows, at, boots, ticks, work, history>>

Steps == {"off", "idle", "listing", "ticking", "claimed", "replacing", "dead",
          "stopping"}
NoTask == [step |-> "none", minute |-> Never]
Tasks == [step : {"profile", "submitting"}, minute : Minutes] \cup {NoTask}

TypeOK ==
  /\ now \in Minutes
  /\ row \in [Schedules -> {"enabled", "paused", "deleted"}]
  /\ replace \subseteq Schedules
  /\ runOnce \subseteq Schedules
  /\ marker \in [Schedules -> Marks]
  /\ at \in [Workers -> Steps]
  /\ boots \in 0..MaxBoots
  /\ last \in [Workers -> Marks]
  /\ fresh \in [Workers -> BOOLEAN]
  /\ listed \in [Workers -> [Schedules -> Marks]]
  /\ todo \in [Workers -> SUBSET Schedules]
  /\ pick \in [Workers -> Schedules \cup {NoSchedule}]
  /\ task \in [Workers -> [Schedules -> Tasks]]
  /\ threads \in [Workers -> SUBSET (Schedules \X Minutes)]
  /\ edited \subseteq Schedules
  /\ claims \subseteq Schedules \X Minutes
  /\ started \in [Schedules \X Minutes -> Nat]
  /\ overtaken \in BOOLEAN

Unlisted == [s \in Schedules |-> Never]
Unbusy == [s \in Schedules |-> NoTask]

Init ==
  /\ now = 1
  /\ row = [s \in Schedules |-> "enabled"]
  /\ replace \in SUBSET Schedules
  /\ runOnce \in SUBSET Schedules
  /\ marker = [s \in Schedules |-> Never]
  /\ at = [w \in Workers |-> "off"]
  /\ boots = 0
  /\ last = [w \in Workers |-> Never]
  /\ fresh = [w \in Workers |-> FALSE]
  /\ listed = [w \in Workers |-> Unlisted]
  /\ todo = [w \in Workers |-> {}]
  /\ pick = [w \in Workers |-> NoSchedule]
  /\ task = [w \in Workers |-> Unbusy]
  /\ threads = [w \in Workers |-> {}]
  /\ edited = {}
  /\ claims = {}
  /\ started = [o \in Schedules \X Minutes |-> 0]
  /\ overtaken = FALSE

-----------------------------------------------------------------------------
(* The clock and the user.                                                 *)

Clock ==
  /\ now < MaxMinute
  /\ now' = now + 1
  /\ UNCHANGED <<rows, at, boots, ticks, work, history>>

\* update_schedule and delete_schedule; neither touches the marker.  Changes
\* of the cron expression and of the policies are left out.
Edit(s) ==
  /\ row[s] # "deleted"
  /\ \E state \in {"enabled", "paused", "deleted"} \ {row[s]} :
       row' = [row EXCEPT ![s] = state]
  /\ edited' = edited \cup {s}
  /\ UNCHANGED <<now, marker, policy, at, boots, ticks, work, claims, started, overtaken>>

-----------------------------------------------------------------------------
(* ScheduleWorker.tick.                                                    *)

Boot(w) ==
  /\ at[w] = "off"
  /\ boots < MaxBoots
  /\ at' = [at EXCEPT ![w] = "idle"]
  /\ boots' = boots + 1
  /\ UNCHANGED <<now, rows, ticks, work, history>>

Starting(w) == last[w] = Never

\* The marker of the minute; nothing is done twice for one minute.
BeginTick(w) ==
  /\ at[w] = "idle"
  /\ last[w] # now
  /\ fresh' = [fresh EXCEPT ![w] = Starting(w)]
  /\ last' = [last EXCEPT ![w] = now]
  /\ at' = [at EXCEPT ![w] = "listing"]
  /\ UNCHANGED <<now, rows, boots, listed, todo, pick, work, history>>

\* Mutant of Missed: the scan starts one minute too late.
MissedLate(s, m) ==
  marker[s] # Never /\ \E d \in Fires[s] : marker[s] + 1 < d /\ d <= m

\* _missed_since: the cron expression matched a minute after the last claim,
\* up to the present one.
Missed(s, m) ==
  marker[s] # Never /\ \E d \in Fires[s] : marker[s] < d /\ d <= m

\* Mutant of Due: the minute after the present one.
DueLate(s, m, starting) ==
  m + 1 \in Fires[s] \/ (starting /\ s \in runOnce /\ Missed(s, m))

Due(s, m, starting) ==
  m \in Fires[s] \/ (starting /\ s \in runOnce /\ Missed(s, m))

\* list_schedules: what follows uses the rows as they are now.
List(w) ==
  /\ at[w] = "listing"
  /\ listed' = [listed EXCEPT ![w] =
       [s \in Schedules |-> IF row[s] = "enabled" THEN marker[s] ELSE Never]]
  /\ todo' = [todo EXCEPT ![w] =
       {s \in Schedules : row[s] = "enabled" /\ Due(s, last[w], fresh[w])}]
  /\ at' = [at EXCEPT ![w] = "ticking"]
  /\ UNCHANGED <<now, rows, boots, last, fresh, pick, work, history>>

\* Mutant of Claimable: any enabled schedule.
ClaimableAgain(s, m) == row[s] = "enabled"

\* claim_schedule: WHERE enabled=1 AND (last_claim_marker IS NULL OR
\* last_claim_marker<>marker).
Claimable(s, m) == row[s] = "enabled" /\ marker[s] # m

Claim(w, s) ==
  /\ at[w] = "ticking"
  /\ s \in todo[w]
  /\ Claimable(s, last[w])
  /\ marker' = [marker EXCEPT ![s] = last[w]]
  /\ claims' = claims \cup {<<s, last[w]>>}
  /\ overtaken' = (overtaken \/ last[w] < marker[s])
  /\ pick' = [pick EXCEPT ![w] = s]
  /\ at' = [at EXCEPT ![w] = "claimed"]
  /\ UNCHANGED <<now, row, policy, boots, last, fresh, listed, todo, work, edited, started>>

Refuse(w, s) ==
  /\ at[w] = "ticking"
  /\ s \in todo[w]
  /\ ~Claimable(s, last[w])
  /\ todo' = [todo EXCEPT ![w] = @ \ {s}]
  /\ UNCHANGED <<now, rows, at, boots, last, fresh, listed, pick, work, history>>

Picked(w) ==
  /\ pick' = [pick EXCEPT ![w] = NoSchedule]
  /\ todo' = [todo EXCEPT ![w] = @ \ {pick[w]}]
  /\ at' = [at EXCEPT ![w] = "ticking"]
  /\ UNCHANGED <<now, rows, boots, last, fresh, listed, edited, claims, overtaken>>

\* asyncio.ensure_future(self.dispatch(schedule)).
Start(w) ==
  /\ task' = [task EXCEPT ![w][pick[w]] = [step |-> "profile", minute |-> last[w]]]
  /\ started' = [started EXCEPT ![<<pick[w], last[w]>>] = @ + 1]
  /\ Picked(w)

Busy(w, s) == task[w][s] # NoTask

\* Mutant of Dispatch: a dispatch under way is not looked at.
DispatchAnyway(w) ==
  /\ at[w] = "claimed"
  /\ threads' = [threads EXCEPT ![w] = @ \cup
       IF task[w][pick[w]].step = "submitting"
       THEN {<<pick[w], task[w][pick[w]].minute>>} ELSE {}]
  /\ Start(w)

Dispatch(w) ==
  /\ at[w] = "claimed"
  /\ ~Busy(w, pick[w])
  /\ Start(w)
  /\ UNCHANGED threads

\* 'skip' and 'forbid': the occurrence, already claimed, is dropped.
Drop(w) ==
  /\ at[w] = "claimed"
  /\ Busy(w, pick[w])
  /\ pick[w] \notin replace
  /\ Picked(w)
  /\ UNCHANGED <<work, started>>

\* A cancelled dispatch ends at once; a submission it has handed to a thread
\* does not.
Released(w, s) ==
  threads[w] \cup IF task[w][s].step = "submitting"
                  THEN {<<s, task[w][s].minute>>} ELSE {}

\* 'replace': task.cancel(), and the tick waits for it.
Cancel(w) ==
  /\ at[w] = "claimed"
  /\ Busy(w, pick[w])
  /\ pick[w] \in replace
  /\ threads' = [threads EXCEPT ![w] = Released(w, pick[w])]
  /\ task' = [task EXCEPT ![w][pick[w]] = NoTask]
  /\ at' = [at EXCEPT ![w] = "replacing"]
  /\ UNCHANGED <<now, rows, boots, ticks, history>>

Replacing(w) ==
  /\ at[w] = "replacing"
  /\ Start(w)
  /\ UNCHANGED threads

EndTick(w) ==
  /\ at[w] = "ticking"
  /\ todo[w] = {}
  /\ at' = [at EXCEPT ![w] = "idle"]
  /\ UNCHANGED <<now, rows, boots, ticks, work, history>>

\* What the tick and the loop remember is gone.
Abandon(w) ==
  /\ last' = [last EXCEPT ![w] = Never]
  /\ fresh' = [fresh EXCEPT ![w] = FALSE]
  /\ listed' = [listed EXCEPT ![w] = Unlisted]
  /\ todo' = [todo EXCEPT ![w] = {}]
  /\ pick' = [pick EXCEPT ![w] = NoSchedule]

\* A database call of the tick raises: the task of _run ends, and start()
\* does not begin another.
TickRaises(w) ==
  /\ at[w] \in {"listing", "ticking"}
  /\ at' = [at EXCEPT ![w] = "dead"]
  /\ Abandon(w)
  /\ UNCHANGED <<now, rows, boots, work, history>>

-----------------------------------------------------------------------------
(* The dispatch: the profile is read, then a thread submits a run.         *)

Profile(w, s) ==
  /\ task[w][s].step = "profile"
  /\ task' = [task EXCEPT ![w][s].step = "submitting"]
  /\ UNCHANGED <<now, rows, at, boots, ticks, threads, history>>

\* The run is queued, or the profile or the submission raised: either way
\* _dispatch_finished forgets the task.
DispatchEnds(w, s) ==
  /\ Busy(w, s)
  /\ task' = [task EXCEPT ![w][s] = NoTask]
  /\ UNCHANGED <<now, rows, at, boots, ticks, threads, history>>

ThreadEnds(w) ==
  /\ \E o \in threads[w] : threads' = [threads EXCEPT ![w] = @ \ {o}]
  /\ UNCHANGED <<now, rows, at, boots, ticks, task, history>>

-----------------------------------------------------------------------------
(* The process.                                                            *)

Forget(w) ==
  /\ at' = [at EXCEPT ![w] = "off"]
  /\ Abandon(w)
  /\ threads' = [threads EXCEPT ![w] = {}]

\* ScheduleWorker.stop: the tick is cancelled wherever it is, dispatches are
\* waited for.
Stop(w) ==
  /\ at[w] \notin {"off", "stopping"}
  /\ at' = [at EXCEPT ![w] = "stopping"]
  /\ Abandon(w)
  /\ UNCHANGED <<now, rows, boots, work, history>>

Stopped(w) ==
  /\ at[w] = "stopping"
  /\ \A s \in Schedules : ~Busy(w, s)
  /\ Forget(w)
  /\ UNCHANGED <<now, rows, boots, task, history>>

Crash(w) ==
  /\ at[w] # "off"
  /\ Forget(w)
  /\ task' = [task EXCEPT ![w] = Unbusy]
  /\ UNCHANGED <<now, rows, boots, history>>

-----------------------------------------------------------------------------
Tick(w) ==
  \/ BeginTick(w) \/ List(w) \/ EndTick(w) \/ TickRaises(w)
  \/ \E s \in Schedules : Claim(w, s) \/ Refuse(w, s)
  \/ Dispatch(w) \/ Drop(w) \/ Cancel(w) \/ Replacing(w)

Deliver(w) ==
  \/ \E s \in Schedules : Profile(w, s) \/ DispatchEnds(w, s)
  \/ ThreadEnds(w)

Next ==
  \/ Clock
  \/ \E s \in Schedules : Edit(s)
  \/ \E w \in Workers :
       Boot(w) \/ Tick(w) \/ Deliver(w) \/ Stop(w) \/ Stopped(w) \/ Crash(w)

Spec == Init /\ [][Next]_vars

-----------------------------------------------------------------------------
(* Properties.                                                             *)

\* "The scheduler claims each due firing transactionally so multiple workers
\* do not start the same occurrence" (docs/guides/scheduling.md).
StartedOnce == \A o \in Schedules \X Minutes : started[o] <= 1

\* What the claim does guarantee: an occurrence is started twice only after
\* some loop claimed a minute that another one had already left behind;
\* restarts within the minute, pauses and resumes, and any interleaving of
\* the loops within one minute start it once.
StartedOnceInOrder == ~overtaken => StartedOnce

\* In one process a schedule that skips or forbids overlap has never two
\* dispatches under way, not even one that was cancelled.
NoOverlap ==
  \A w \in Workers, s \in Schedules \ replace :
    \A o \in threads[w] : o[1] # s

\* A tick that came to its end has seen to it that each due occurrence of a
\* schedule nobody pauses was claimed, by this loop or another.
DueIsClaimed ==
  \A w \in Workers, s \in Schedules \ edited :
    at[w] = "idle" /\ last[w] \in Fires[s] => <<s, last[w]>> \in claims

\* When the first tick of a process is over, no firing that a run-once
\* schedule missed since the claim it found is left behind.
RecoveredAtStart ==
  \A w \in Workers, s \in runOnce \ edited :
    at[w] = "idle" /\ fresh[w] /\ listed[w][s] # Never /\ ~overtaken =>
      ~\E d \in Fires[s] : marker[s] < d /\ d <= last[w]
=============================================================================
