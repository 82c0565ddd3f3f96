--------------------------- MODULE Scheduler_proofs ---------------------------
(***************************************************************************)
(* Proofs about Scheduler for any number of loops and schedules, any cron  *)
(* expressions and any sequence of restarts.                               *)
(***************************************************************************)
EXTENDS Scheduler, TLAPS

-----------------------------------------------------------------------------
(* The inductive invariants.                                               *)

\* A loop has claimed an occurrence that it has not dispatched yet.
Pending(w) == at[w] \in {"claimed", "replacing"}
Working(w) == at[w] = "ticking" \/ Pending(w)

\* Outside a tick nothing is picked, and a process that is off remembers
\* nothing of the minutes before.
LoopsInv ==
  \A w \in Workers :
    /\ Pending(w) => pick[w] \in Schedules
    /\ at[w] = "listing" \/ Working(w) => last[w] \in Minutes
    /\ at[w] = "off" => last[w] = Never /\ ~fresh[w]

\* While claims of a schedule are made in the order of their minutes, the
\* marker is the newest of them: nothing was begun for a later minute, and
\* what is pending is pending once and not begun.
NothingAhead ==
  \A s \in Schedules, m \in Minutes : marker[s] < m =>
    /\ started[<<s, m>>] = 0
    /\ \A w \in Workers : Pending(w) => <<pick[w], last[w]>> # <<s, m>>

PendingOnce ==
  \A w \in Workers : Pending(w) =>
    /\ started[<<pick[w], last[w]>>] = 0
    /\ \A v \in Workers \ {w} :
         Pending(v) => <<pick[v], last[v]>> # <<pick[w], last[w]>>

OrderInv == ~overtaken => NothingAhead /\ PendingOnce /\ StartedOnce

\* The marker is a minute that was claimed, and a due schedule nobody edits is
\* claimed or still to come.
ClaimsInv ==
  /\ \A s \in Schedules : marker[s] # Never => <<s, marker[s]>> \in claims
  /\ \A s \in Schedules \ edited : row[s] = "enabled"
  /\ \A w \in Workers :
       /\ Pending(w) => <<pick[w], last[w]>> \in claims
       /\ \A s \in Schedules \ edited : last[w] \in Fires[s] =>
            /\ Working(w) => s \in todo[w] \/ <<s, last[w]>> \in claims
            /\ at[w] = "idle" => <<s, last[w]>> \in claims

\* During the first tick of a process, a run-once schedule that has missed a
\* firing is still to come.
RecoveryInv ==
  ~overtaken =>
    \A w \in Workers :
      /\ Pending(w) => last[w] <= marker[pick[w]]
      /\ \A s \in runOnce \ edited :
           fresh[w] /\ listed[w][s] # Never /\ (Working(w) \/ at[w] = "idle") =>
             \/ s \in todo[w] /\ at[w] # "idle"
             \/ ~\E d \in Fires[s] : marker[s] < d /\ d <= last[w]

-----------------------------------------------------------------------------
(* Every variable keeps its type.                                          *)

\* Processes that are off and schedules without a claim have the types.
LEMMA TypeInit == Init => TypeOK
<1> SUFFICES ASSUME Init PROVE TypeOK
  OBVIOUS
<1>1. now \in Minutes /\ boots \in 0..MaxBoots
  BY SchedulerAssumption DEF Init, Minutes
<1>2. task \in [Workers -> [Schedules -> Tasks]]
  BY DEF Init, Unbusy, Tasks
<1>3. /\ marker \in [Schedules -> Marks] /\ last \in [Workers -> Marks]
      /\ listed \in [Workers -> [Schedules -> Marks]]
  BY SchedulerAssumption DEF Init, Unlisted, Marks, Never
<1>4. /\ at \in [Workers -> Steps] /\ fresh \in [Workers -> BOOLEAN]
      /\ row \in [Schedules -> {"enabled", "paused", "deleted"}]
  BY DEF Init, Steps
<1>5. /\ todo \in [Workers -> SUBSET Schedules]
      /\ pick \in [Workers -> Schedules \cup {NoSchedule}]
      /\ threads \in [Workers -> SUBSET (Schedules \X Minutes)]
      /\ started \in [Schedules \X Minutes -> Nat]
  BY DEF Init
<1> QED BY <1>1, <1>2, <1>3, <1>4, <1>5 DEF Init, TypeOK

\* A dispatch that begins is a task of the minute of the tick.
LEMMA StartTyped ==
  ASSUME TypeOK, LoopsInv, NEW w \in Workers, Pending(w), Start(w)
  PROVE  /\ task' \in [Workers -> [Schedules -> Tasks]]
         /\ started' \in [Schedules \X Minutes -> Nat]
         /\ at' \in [Workers -> Steps]
         /\ todo' \in [Workers -> SUBSET Schedules]
         /\ pick' \in [Workers -> Schedules \cup {NoSchedule}]
<1>1. pick[w] \in Schedules /\ last[w] \in Minutes
  BY DEF LoopsInv, Working
<1>2. [step |-> "profile", minute |-> last[w]] \in Tasks
  BY <1>1 DEF Tasks
<1>3. task' \in [Workers -> [Schedules -> Tasks]]
  BY <1>1, <1>2 DEF Start, TypeOK
<1>4. started' \in [Schedules \X Minutes -> Nat]
  BY <1>1 DEF Start, TypeOK
<1> QED BY <1>3, <1>4 DEF Start, Picked, TypeOK, Steps

\* Every step of a loop, a dispatch or a process keeps the types.
LEMMA TypeStep == TypeOK /\ LoopsInv /\ [Next]_vars => TypeOK'
<1> SUFFICES ASSUME TypeOK, LoopsInv, [Next]_vars PROVE TypeOK'
  OBVIOUS
<1> USE SchedulerAssumption
<1>1. CASE Clock
  BY <1>1 DEF Clock, TypeOK, Minutes, rows, policy, ticks, work, history
<1>2. ASSUME NEW s \in Schedules, Edit(s) PROVE TypeOK'
  BY <1>2 DEF Edit, TypeOK, policy, ticks, work
<1>3. ASSUME NEW w \in Workers, Boot(w) PROVE TypeOK'
  BY <1>3 DEF Boot, TypeOK, Steps, rows, policy, ticks, work, history
<1>4. ASSUME NEW w \in Workers, BeginTick(w) PROVE TypeOK'
  <2>1. now \in Marks
    BY DEF TypeOK, Minutes, Marks
  <2>2. fresh' \in [Workers -> BOOLEAN]
    BY <1>4 DEF BeginTick, TypeOK, Starting
  <2>3. last' \in [Workers -> Marks] /\ at' \in [Workers -> Steps]
    BY <1>4, <2>1 DEF BeginTick, TypeOK, Steps
  <2> QED BY <1>4, <2>2, <2>3 DEF BeginTick, TypeOK, rows, policy, work, history
<1>5. ASSUME NEW w \in Workers, List(w) PROVE TypeOK'
  <2>1. [s \in Schedules |-> IF row[s] = "enabled" THEN marker[s] ELSE Never]
          \in [Schedules -> Marks]
    BY DEF TypeOK, Marks, Never
  <2>2. listed' \in [Workers -> [Schedules -> Marks]]
    BY <1>5, <2>1 DEF List, TypeOK
  <2>3. todo' \in [Workers -> SUBSET Schedules] /\ at' \in [Workers -> Steps]
    BY <1>5 DEF List, TypeOK, Steps
  <2> QED BY <1>5, <2>2, <2>3 DEF List, TypeOK, rows, policy, work, history
<1>6. ASSUME NEW w \in Workers, NEW s \in Schedules, Claim(w, s) PROVE TypeOK'
  <2>1. last[w] \in Minutes /\ last[w] \in Marks
    BY <1>6 DEF Claim, LoopsInv, Working, TypeOK
  <2>2. marker' \in [Schedules -> Marks] /\ claims' \subseteq Schedules \X Minutes
    BY <1>6, <2>1 DEF Claim, TypeOK
  <2>3. /\ pick' \in [Workers -> Schedules \cup {NoSchedule}]
        /\ at' \in [Workers -> Steps]
    BY <1>6 DEF Claim, TypeOK, Steps
  <2>4. overtaken' \in BOOLEAN
    BY <1>6 DEF Claim, TypeOK
  <2> QED BY <1>6, <2>2, <2>3, <2>4 DEF Claim, TypeOK, policy, work
<1>7. ASSUME NEW w \in Workers, NEW s \in Schedules, Refuse(w, s) PROVE TypeOK'
  BY <1>7 DEF Refuse, TypeOK, rows, policy, work, history
<1>8. ASSUME NEW w \in Workers, Dispatch(w) \/ Replacing(w) PROVE TypeOK'
  <2>1. Pending(w) /\ Start(w) /\ UNCHANGED threads
    BY <1>8 DEF Dispatch, Replacing, Pending
  <2> QED BY <2>1, StartTyped DEF Start, Picked, TypeOK, rows, policy
<1>9. ASSUME NEW w \in Workers, Drop(w) PROVE TypeOK'
  BY <1>9 DEF Drop, Picked, TypeOK, Steps, rows, policy, work
<1>10. ASSUME NEW w \in Workers, Cancel(w) PROVE TypeOK'
  <2>1. pick[w] \in Schedules
    BY <1>10 DEF Cancel, LoopsInv, Pending
  <2>2. task[w][pick[w]].step = "submitting" => task[w][pick[w]].minute \in Minutes
    BY <2>1 DEF TypeOK, Tasks, NoTask
  <2>3. Released(w, pick[w]) \subseteq Schedules \X Minutes
    BY <2>1, <2>2 DEF Released, TypeOK
  <2>4. threads' \in [Workers -> SUBSET (Schedules \X Minutes)]
    BY <1>10, <2>3 DEF Cancel, TypeOK
  <2>5. task' \in [Workers -> [Schedules -> Tasks]] /\ at' \in [Workers -> Steps]
    BY <1>10, <2>1 DEF Cancel, TypeOK, Tasks, Steps
  <2> QED
    BY <1>10, <2>4, <2>5 DEF Cancel, TypeOK, rows, policy, ticks, history
<1>11. ASSUME NEW w \in Workers, EndTick(w) PROVE TypeOK'
  BY <1>11 DEF EndTick, TypeOK, Steps, rows, policy, ticks, work, history
<1>12. ASSUME NEW w \in Workers, Abandon(w)
       PROVE  /\ last' \in [Workers -> Marks] /\ fresh' \in [Workers -> BOOLEAN]
              /\ listed' \in [Workers -> [Schedules -> Marks]]
              /\ todo' \in [Workers -> SUBSET Schedules]
              /\ pick' \in [Workers -> Schedules \cup {NoSchedule}]
  BY <1>12 DEF Abandon, TypeOK, Unlisted, Marks, Never
<1>13. ASSUME NEW w \in Workers, TickRaises(w) \/ Stop(w) PROVE TypeOK'
  BY <1>12, <1>13 DEF TickRaises, Stop, TypeOK, Steps, rows, policy, work, history
<1>14. ASSUME NEW w \in Workers, NEW s \in Schedules, Profile(w, s) \/ DispatchEnds(w, s)
       PROVE  TypeOK'
  <2>1. task' \in [Workers -> [Schedules -> Tasks]]
    <3>1. CASE Profile(w, s)
      <4>1. [task[w][s] EXCEPT !.step = "submitting"] \in Tasks
        <5>1. task[w][s] \in [step : {"profile", "submitting"}, minute : Minutes]
          BY <3>1 DEF Profile, TypeOK, Tasks, NoTask
        <5> QED BY <5>1 DEF Tasks
      <4>2. task' = [task EXCEPT ![w][s] = [task[w][s] EXCEPT !.step = "submitting"]]
        BY <3>1 DEF Profile
      <4> QED BY <4>1, <4>2 DEF TypeOK
    <3>2. CASE DispatchEnds(w, s)
      BY <3>2 DEF DispatchEnds, TypeOK, Tasks
    <3> QED BY <1>14, <3>1, <3>2
  <2> QED
    BY <1>14, <2>1 DEF Profile, DispatchEnds, TypeOK, rows, policy, ticks, history
<1>15. ASSUME NEW w \in Workers, ThreadEnds(w) PROVE TypeOK'
  BY <1>15 DEF ThreadEnds, TypeOK, rows, policy, ticks, history
<1>16. ASSUME NEW w \in Workers, Stopped(w) \/ Crash(w) PROVE TypeOK'
  <2>1. Forget(w) /\ Abandon(w)
    BY <1>16 DEF Stopped, Crash, Forget
  <2>2. at' \in [Workers -> Steps] /\ threads' \in [Workers -> SUBSET (Schedules \X Minutes)]
    BY <2>1 DEF Forget, TypeOK, Steps
  <2>3. task' \in [Workers -> [Schedules -> Tasks]]
    <3>1. Unbusy \in [Schedules -> Tasks]
      BY DEF Unbusy, Tasks
    <3> QED BY <1>16, <3>1 DEF Stopped, Crash, TypeOK
  <2> QED
    BY <1>12, <1>16, <2>1, <2>2, <2>3 DEF Stopped, Crash, TypeOK, rows, policy, history
<1>17. CASE UNCHANGED vars
  BY <1>17 DEF vars, TypeOK, rows, policy, ticks, work, history
<1> QED
  BY <1>1, <1>2, <1>3, <1>4, <1>5, <1>6, <1>7, <1>8, <1>9, <1>10, <1>11, <1>13, <1>14,
     <1>15, <1>16, <1>17
  DEF Next, Tick, Deliver
\* What a loop remembers while it is in a tick, and forgets when it ends.
LEMMA LoopsInit == Init => LoopsInv
BY DEF Init, LoopsInv, Pending, Working

\* A loop is at one step at a time.
LEMMA LoopsStep == TypeOK /\ LoopsInv /\ [Next]_vars => LoopsInv'
<1> SUFFICES ASSUME TypeOK, LoopsInv, [Next]_vars PROVE LoopsInv'
  OBVIOUS
<1>1. ASSUME UNCHANGED <<at, ticks>> PROVE LoopsInv'
  BY <1>1 DEF LoopsInv, Pending, Working, ticks
<1>2. CASE Clock \/ (\E s \in Schedules : Edit(s)) \/ UNCHANGED vars
  BY <1>1, <1>2 DEF Clock, Edit, vars
<1>3. ASSUME NEW w \in Workers, Deliver(w) PROVE LoopsInv'
  BY <1>1, <1>3 DEF Deliver, Profile, DispatchEnds, ThreadEnds
<1>4. ASSUME NEW w \in Workers, Boot(w) \/ EndTick(w) PROVE LoopsInv'
  BY <1>4 DEF Boot, EndTick, LoopsInv, Pending, Working, TypeOK, ticks
<1>5. ASSUME NEW w \in Workers, BeginTick(w) PROVE LoopsInv'
  BY <1>5 DEF BeginTick, LoopsInv, Pending, Working, TypeOK
<1>6. ASSUME NEW w \in Workers, List(w) PROVE LoopsInv'
  BY <1>6 DEF List, LoopsInv, Pending, Working, TypeOK
<1>7. ASSUME NEW w \in Workers, NEW s \in Schedules, Claim(w, s) \/ Refuse(w, s)
      PROVE  LoopsInv'
  BY <1>7 DEF Claim, Refuse, LoopsInv, Pending, Working, TypeOK
<1>8. ASSUME NEW w \in Workers, Dispatch(w) \/ Replacing(w) \/ Drop(w) PROVE LoopsInv'
  BY <1>8 DEF Dispatch, Replacing, Drop, Start, Picked, LoopsInv, Pending, Working, TypeOK
<1>9. ASSUME NEW w \in Workers, Cancel(w) PROVE LoopsInv'
  BY <1>9 DEF Cancel, LoopsInv, Pending, Working, TypeOK, ticks
<1>10. ASSUME NEW w \in Workers, TickRaises(w) \/ Stop(w) \/ Stopped(w) \/ Crash(w)
       PROVE  LoopsInv'
  <2>1. Abandon(w) /\ at' = [at EXCEPT ![w] = at'[w]] /\ at'[w] \in {"dead", "stopping", "off"}
    BY <1>10 DEF TickRaises, Stop, Stopped, Crash, Forget, TypeOK
  <2> QED BY <2>1 DEF Abandon, LoopsInv, Pending, Working, TypeOK
<1> QED
  BY <1>2, <1>3, <1>4, <1>5, <1>6, <1>7, <1>8, <1>9, <1>10 DEF Next, Tick

\* The rows, the loops and the dispatches keep their types.
THEOREM TypeCorrect == Spec => []TypeOK
BY TypeInit, LoopsInit, TypeStep, LoopsStep, PTL DEF Spec
\* A tick that raises, a stop and a crash leave the table and the history, and
\* the loop has no claim any more.
LEMMA GivesUp ==
  ASSUME TypeOK, NEW w \in Workers, TickRaises(w) \/ Stop(w) \/ Stopped(w) \/ Crash(w)
  PROVE  /\ Abandon(w)
         /\ at'[w] \in {"dead", "stopping", "off"}
         /\ \A v \in Workers \ {w} : at'[v] = at[v]
         /\ UNCHANGED <<rows, history>>
BY DEF TickRaises, Stop, Stopped, Crash, Forget, TypeOK

-----------------------------------------------------------------------------
(* Overlap.                                                                *)

\* Only a cancelled dispatch leaves a thread behind, and only schedules that
\* replace are cancelled.
LEMMA OverlapStep == TypeOK /\ LoopsInv /\ NoOverlap /\ [Next]_vars => NoOverlap'
<1> SUFFICES ASSUME TypeOK, LoopsInv, NoOverlap, [Next]_vars PROVE NoOverlap'
  OBVIOUS
<1>1. ASSUME replace' = replace, \A w \in Workers : threads'[w] \subseteq threads[w]
      PROVE  NoOverlap'
  BY <1>1 DEF NoOverlap
<1>2. CASE Clock \/ (\E s \in Schedules : Edit(s)) \/ UNCHANGED vars
  BY <1>1, <1>2 DEF Clock, Edit, vars, work, rows, policy
<1>3. ASSUME NEW w \in Workers,
             Boot(w) \/ BeginTick(w) \/ List(w) \/ EndTick(w) \/ TickRaises(w) \/ Stop(w)
      PROVE  NoOverlap'
  BY <1>1, <1>3 DEF Boot, BeginTick, List, EndTick, TickRaises, Stop, work, rows, policy
<1>4. ASSUME NEW w \in Workers, NEW s \in Schedules,
             Claim(w, s) \/ Refuse(w, s) \/ Profile(w, s) \/ DispatchEnds(w, s)
      PROVE  NoOverlap'
  BY <1>1, <1>4 DEF Claim, Refuse, Profile, DispatchEnds, work, rows, policy
<1>5. ASSUME NEW w \in Workers, Dispatch(w) \/ Replacing(w) \/ Drop(w) PROVE NoOverlap'
  BY <1>1, <1>5 DEF Dispatch, Replacing, Drop, Start, Picked, work, rows, policy
<1>6. ASSUME NEW w \in Workers, Stopped(w) \/ Crash(w) \/ ThreadEnds(w) PROVE NoOverlap'
  <2>1. \A v \in Workers : threads'[v] \subseteq threads[v]
    BY <1>6 DEF Stopped, Crash, ThreadEnds, Forget, TypeOK
  <2> QED BY <1>1, <1>6, <2>1 DEF Stopped, Crash, ThreadEnds, rows, policy
<1>7. ASSUME NEW w \in Workers, Cancel(w) PROVE NoOverlap'
  <2> SUFFICES ASSUME NEW v \in Workers, NEW o \in threads'[v], NEW s \in Schedules \ replace
               PROVE  o[1] # s
    BY <1>7 DEF Cancel, NoOverlap, rows, policy
  <2>1. pick[w] \in replace
    BY <1>7 DEF Cancel
  <2>2. o \in threads[v] \/ o[1] = pick[w]
    BY <1>7 DEF Cancel, Released, TypeOK
  <2> QED BY <2>1, <2>2 DEF NoOverlap
<1> QED BY <1>2, <1>3, <1>4, <1>5, <1>6, <1>7 DEF Next, Tick, Deliver

\* A schedule that skips or forbids overlap never has two dispatches under way
\* in one process, not even one that was cancelled and whose thread goes on.
THEOREM OverlapIsRefused == Spec => []NoOverlap
<1>1. Init => NoOverlap
  BY DEF Init, NoOverlap
<1> QED
  BY <1>1, TypeInit, LoopsInit, TypeStep, LoopsStep, OverlapStep, PTL DEF Spec

-----------------------------------------------------------------------------
(* One start per occurrence.  The invariant says that the marker separates *)
(* what was claimed from what may still be: it does so only while no loop  *)
(* claims a minute that another one had already left behind.               *)

\* Nothing is claimed or started at first.
LEMMA OrderInit == Init => OrderInv
BY DEF Init, OrderInv, NothingAhead, PendingOnce, StartedOnce, Pending

\* The claims, the starts and the order stay, and no loop makes a new claim.
LEMMA OrderKept ==
  ASSUME OrderInv, UNCHANGED <<marker, started, overtaken>>,
         \A w \in Workers :
           Pending(w)' => Pending(w) /\ pick'[w] = pick[w] /\ last'[w] = last[w]
  PROVE  OrderInv'
BY DEF OrderInv, NothingAhead, PendingOnce, StartedOnce

\* A claim in order is of a minute after all that were claimed.
LEMMA ClaimInOrder ==
  ASSUME TypeOK, LoopsInv, OrderInv, NEW w \in Workers, NEW s \in Schedules, Claim(w, s)
  PROVE  OrderInv'
<1> SUFFICES ASSUME ~overtaken' PROVE (NothingAhead /\ PendingOnce /\ StartedOnce)'
  BY DEF OrderInv
<1> DEFINE m == last[w]
<1>1. ~overtaken /\ m \in Minutes /\ marker[s] \in Marks /\ marker[s] < m
  <2>1. m \in Minutes /\ marker[s] \in Marks /\ marker[s] # m
    BY DEF Claim, Claimable, LoopsInv, Working, TypeOK
  <2>2. ~overtaken /\ ~(m < marker[s])
    BY DEF Claim
  <2> QED BY <2>1, <2>2, SchedulerAssumption DEF Minutes, Marks
<1>2. NothingAhead /\ PendingOnce /\ StartedOnce
  BY <1>1 DEF OrderInv
<1>3. /\ marker' = [marker EXCEPT ![s] = m] /\ started' = started /\ last' = last
      /\ pick'[w] = s /\ ~Pending(w)
      /\ \A v \in Workers \ {w} :
           pick'[v] = pick[v] /\ at'[v] = at[v] /\ (Pending(v)' <=> Pending(v))
  BY DEF Claim, TypeOK, Pending
<1>4. started[<<s, m>>] = 0 /\ \A v \in Workers : Pending(v) => <<pick[v], last[v]>> # <<s, m>>
  BY <1>1, <1>2 DEF NothingAhead
<1>5. ASSUME NEW t \in Schedules, NEW d \in Minutes, marker'[t] < d
      PROVE  /\ started'[<<t, d>>] = 0
             /\ \A v \in Workers : Pending(v)' => <<pick'[v], last'[v]>> # <<t, d>>
  <2>1. marker[t] < d /\ (t = s => m < d)
    BY <1>1, <1>3, <1>5 DEF TypeOK, Minutes, Marks
  <2>2. /\ started[<<t, d>>] = 0
        /\ \A v \in Workers : Pending(v) => <<pick[v], last[v]>> # <<t, d>>
    BY <1>2, <2>1 DEF NothingAhead
  <2>3. <<s, m>> # <<t, d>>
    BY <1>1, <2>1 DEF Minutes
  <2> QED BY <1>3, <2>2, <2>3
<1>6. ASSUME NEW v \in Workers, Pending(v)'
      PROVE  /\ started'[<<pick'[v], last'[v]>>] = 0
             /\ \A u \in Workers \ {v} :
                  Pending(u)' => <<pick'[u], last'[u]>> # <<pick'[v], last'[v]>>
  BY <1>2, <1>3, <1>4, <1>6 DEF PendingOnce
<1> QED BY <1>2, <1>3, <1>5, <1>6 DEF NothingAhead, PendingOnce, StartedOnce

\* A dispatch begins what was pending, and was pending once.
LEMMA StartInOrder ==
  ASSUME TypeOK, LoopsInv, OrderInv, NEW w \in Workers, Pending(w), Start(w)
  PROVE  OrderInv'
<1> SUFFICES ASSUME ~overtaken' PROVE (NothingAhead /\ PendingOnce /\ StartedOnce)'
  BY DEF OrderInv
<1> DEFINE o == <<pick[w], last[w]>>
<1>1. o \in Schedules \X Minutes
  BY DEF LoopsInv, Working
<1>2. /\ marker' = marker /\ last' = last /\ overtaken' = overtaken
      /\ started' = [started EXCEPT ![o] = @ + 1]
      /\ ~Pending(w)'
      /\ \A v \in Workers \ {w} : pick'[v] = pick[v] /\ (Pending(v)' <=> Pending(v))
  BY DEF Start, Picked, TypeOK, Pending, rows
<1>3. NothingAhead /\ PendingOnce /\ StartedOnce
  BY <1>2 DEF OrderInv
<1>4. /\ started[o] = 0 /\ started'[o] = 1
      /\ \A p \in Schedules \X Minutes : p # o => started'[p] = started[p]
  BY <1>1, <1>2, <1>3 DEF PendingOnce, TypeOK
<1>5. StartedOnce'
  BY <1>3, <1>4 DEF StartedOnce
<1>6. PendingOnce'
  <2> SUFFICES ASSUME NEW v \in Workers, Pending(v)'
               PROVE  /\ started'[<<pick'[v], last'[v]>>] = 0
                      /\ \A u \in Workers \ {v} :
                           Pending(u)' => <<pick'[u], last'[u]>> # <<pick'[v], last'[v]>>
    BY DEF PendingOnce
  <2>1. v # w /\ Pending(v) /\ pick'[v] = pick[v] /\ last'[v] = last[v]
    BY <1>2
  <2>2. <<pick[v], last[v]>> # o /\ <<pick[v], last[v]>> \in Schedules \X Minutes
    BY <1>3, <2>1 DEF PendingOnce, LoopsInv, Working
  <2>3. started'[<<pick[v], last[v]>>] = started[<<pick[v], last[v]>>]
    BY <1>4, <2>2
  <2> QED BY <1>2, <1>3, <2>1, <2>3 DEF PendingOnce
<1>7. NothingAhead'
  <2> SUFFICES ASSUME NEW t \in Schedules, NEW d \in Minutes, marker'[t] < d
               PROVE  /\ started'[<<t, d>>] = 0
                      /\ \A v \in Workers : Pending(v)' => <<pick'[v], last'[v]>> # <<t, d>>
    BY DEF NothingAhead
  <2>1. /\ started[<<t, d>>] = 0
        /\ \A v \in Workers : Pending(v) => <<pick[v], last[v]>> # <<t, d>>
    BY <1>2, <1>3 DEF NothingAhead
  <2>2. <<t, d>> # o /\ <<t, d>> \in Schedules \X Minutes
    BY <2>1
  <2> QED BY <1>2, <1>4, <2>1, <2>2
<1> QED BY <1>5, <1>6, <1>7

\* Every step keeps the order of claims and starts.
LEMMA OrderStep == TypeOK /\ LoopsInv /\ OrderInv /\ [Next]_vars => OrderInv'
<1> SUFFICES ASSUME TypeOK, LoopsInv, OrderInv, [Next]_vars PROVE OrderInv'
  OBVIOUS
<1>1. CASE Clock \/ (\E s \in Schedules : Edit(s)) \/ UNCHANGED vars
  BY <1>1, OrderKept DEF Clock, Edit, vars, rows, ticks, history, Pending
<1>2. ASSUME NEW w \in Workers,
             Boot(w) \/ BeginTick(w) \/ List(w) \/ EndTick(w) \/ Cancel(w) \/ Drop(w)
      PROVE  OrderInv'
  BY <1>2, OrderKept
  DEF Boot, BeginTick, List, EndTick, Cancel, Drop, Picked, TypeOK, rows, ticks, history, Pending
<1>3. ASSUME NEW w \in Workers, NEW s \in Schedules,
             Refuse(w, s) \/ Profile(w, s) \/ DispatchEnds(w, s)
      PROVE  OrderInv'
  BY <1>3, OrderKept DEF Refuse, Profile, DispatchEnds, rows, ticks, history, Pending
<1>4. ASSUME NEW w \in Workers, ThreadEnds(w) PROVE OrderInv'
  BY <1>4, OrderKept DEF ThreadEnds, rows, ticks, history, Pending
<1>5. ASSUME NEW w \in Workers, TickRaises(w) \/ Stop(w) \/ Stopped(w) \/ Crash(w)
      PROVE  OrderInv'
  BY <1>5, GivesUp, OrderKept DEF Abandon, TypeOK, rows, history, Pending
<1>6. ASSUME NEW w \in Workers, NEW s \in Schedules, Claim(w, s) PROVE OrderInv'
  BY <1>6, ClaimInOrder
<1>7. ASSUME NEW w \in Workers, Dispatch(w) \/ Replacing(w) PROVE OrderInv'
  BY <1>7, StartInOrder DEF Dispatch, Replacing, Pending
<1> QED BY <1>1, <1>2, <1>3, <1>4, <1>5, <1>6, <1>7 DEF Next, Tick, Deliver

\* An occurrence is started twice only after some loop claimed a minute that
\* another one had left behind: restarts within the minute, pauses, resumes,
\* crashes and any interleaving of loops in one minute start it once.
THEOREM OccurrencesStartOnce == Spec => []StartedOnceInOrder
<1>1. OrderInv => StartedOnceInOrder
  BY DEF OrderInv, StartedOnceInOrder
<1> QED
  BY <1>1, TypeInit, LoopsInit, OrderInit, TypeStep, LoopsStep, OrderStep, PTL DEF Spec
-----------------------------------------------------------------------------
(* Nothing that is due is passed over.                                     *)

\* Nothing is due before the first minute.
LEMMA DueInit == Init => ClaimsInv
BY SchedulerAssumption DEF Init, ClaimsInv, Pending, Working, Minutes, Never

\* What was claimed and what is to come stays while no loop looks at the table.
LEMMA DueKept ==
  ASSUME ClaimsInv, UNCHANGED <<row, marker, claims, edited>>,
         \A w \in Workers :
           /\ Pending(w)' => Pending(w) /\ pick'[w] = pick[w] /\ last'[w] = last[w]
           /\ Working(w)' => Working(w) /\ todo'[w] = todo[w] /\ last'[w] = last[w]
           /\ at'[w] = "idle" => last'[w] = last[w] /\ (at[w] = "idle" \/ last[w] = Never
                                   \/ (at[w] = "ticking" /\ todo[w] = {}))
  PROVE  ClaimsInv'
<1> SUFFICES ASSUME NEW w \in Workers, NEW s \in Schedules \ edited, last'[w] \in Fires[s]
             PROVE  /\ Working(w)' => s \in todo'[w] \/ <<s, last'[w]>> \in claims
                    /\ at'[w] = "idle" => <<s, last'[w]>> \in claims
  BY DEF ClaimsInv
<1>1. last'[w] # Never
  BY SchedulerAssumption DEF Minutes, Never
<1> QED BY <1>1 DEF ClaimsInv, Working

\* Every step of a tick sees to what is due.
LEMMA DueStep == TypeOK /\ LoopsInv /\ ClaimsInv /\ [Next]_vars => ClaimsInv'
<1> SUFFICES ASSUME TypeOK, LoopsInv, ClaimsInv, [Next]_vars PROVE ClaimsInv'
  OBVIOUS
<1>1. CASE Clock \/ UNCHANGED vars
  BY <1>1, DueKept DEF Clock, vars, rows, ticks, history, Pending, Working
<1>2. ASSUME NEW s \in Schedules, Edit(s) PROVE ClaimsInv'
  BY <1>2 DEF Edit, ClaimsInv, TypeOK, ticks, Pending, Working
<1>3. ASSUME NEW w \in Workers, Deliver(w) PROVE ClaimsInv'
  BY <1>3, DueKept
  DEF Deliver, Profile, DispatchEnds, ThreadEnds, rows, ticks, history, Pending, Working
<1>4. ASSUME NEW w \in Workers, Boot(w) PROVE ClaimsInv'
  BY <1>4, DueKept DEF Boot, LoopsInv, TypeOK, rows, ticks, history, Pending, Working
<1>5. ASSUME NEW w \in Workers, EndTick(w) \/ Cancel(w) PROVE ClaimsInv'
  BY <1>5, DueKept DEF EndTick, Cancel, TypeOK, rows, ticks, history, Pending, Working
<1>6. ASSUME NEW w \in Workers, BeginTick(w) PROVE ClaimsInv'
  BY <1>6 DEF BeginTick, ClaimsInv, TypeOK, rows, history, Pending, Working
<1>7. ASSUME NEW w \in Workers, List(w) PROVE ClaimsInv'
  BY <1>7 DEF List, Due, ClaimsInv, TypeOK, rows, history, Pending, Working
<1>8. ASSUME NEW w \in Workers, NEW s \in Schedules, Claim(w, s) PROVE ClaimsInv'
  BY <1>8 DEF Claim, ClaimsInv, TypeOK, Pending, Working
<1>9. ASSUME NEW w \in Workers, NEW s \in Schedules, Refuse(w, s) PROVE ClaimsInv'
  <2>1. /\ UNCHANGED <<row, marker, claims, edited, at, pick, last>> /\ at[w] = "ticking"
        /\ s \in todo[w] /\ todo' = [todo EXCEPT ![w] = @ \ {s}]
        /\ row[s] # "enabled" \/ marker[s] = last[w]
    BY <1>9 DEF Refuse, Claimable, rows, history
  <2>2. last[w] \in Minutes
    BY <2>1 DEF LoopsInv, Working
  <2>3. s \notin edited => <<s, last[w]>> \in claims
    BY <2>1, <2>2, SchedulerAssumption DEF ClaimsInv, Minutes, Never
  <2>4. ASSUME NEW v \in Workers, NEW t \in Schedules \ edited, last[v] \in Fires[t]
        PROVE  Working(v) => t \in todo'[v] \/ <<t, last[v]>> \in claims
    BY <2>1, <2>3, <2>4 DEF ClaimsInv, TypeOK
  <2> QED BY <2>1, <2>4 DEF ClaimsInv, Pending, Working
<1>10. ASSUME NEW w \in Workers, Dispatch(w) \/ Replacing(w) \/ Drop(w) PROVE ClaimsInv'
  <2>1. Pending(w) /\ Picked(w)
    BY <1>10 DEF Dispatch, Replacing, Drop, Start, Pending
  <2>2. UNCHANGED <<row, marker, claims, edited, last>> /\ at' = [at EXCEPT ![w] = "ticking"]
        /\ todo' = [todo EXCEPT ![w] = @ \ {pick[w]}] /\ ~Pending(w)'
        /\ \A v \in Workers \ {w} : pick'[v] = pick[v]
    BY <2>1 DEF Picked, TypeOK, rows, Pending
  <2>3. <<pick[w], last[w]>> \in claims
    BY <2>1 DEF ClaimsInv
  <2>4. ASSUME NEW v \in Workers, NEW t \in Schedules \ edited, last[v] \in Fires[t]
        PROVE  /\ Working(v)' => t \in todo'[v] \/ <<t, last[v]>> \in claims
               /\ at'[v] = "idle" => <<t, last[v]>> \in claims
    BY <2>1, <2>2, <2>3, <2>4 DEF ClaimsInv, TypeOK, Pending, Working
  <2>5. \A v \in Workers : Pending(v)' => <<pick'[v], last[v]>> \in claims
    BY <2>2 DEF ClaimsInv, TypeOK, Pending
  <2> QED BY <2>2, <2>4, <2>5 DEF ClaimsInv
<1>11. ASSUME NEW w \in Workers, TickRaises(w) \/ Stop(w) \/ Stopped(w) \/ Crash(w)
       PROVE  ClaimsInv'
  BY <1>11, GivesUp, DueKept DEF Abandon, TypeOK, rows, history, Pending, Working
<1> QED
  BY <1>1, <1>2, <1>3, <1>4, <1>5, <1>6, <1>7, <1>8, <1>9, <1>10, <1>11 DEF Next, Tick
\* A tick that came to its end has left no due occurrence unclaimed.
THEOREM DueIsSeenTo == Spec => []DueIsClaimed
<1>1. ClaimsInv => DueIsClaimed
  BY DEF ClaimsInv, DueIsClaimed
<1> QED
  BY <1>1, TypeInit, LoopsInit, DueInit, TypeStep, LoopsStep, DueStep, PTL DEF Spec

-----------------------------------------------------------------------------
(* Missed firings.                                                         *)

\* No process has begun a tick at first.
LEMMA RecoveryInit == Init => RecoveryInv
BY DEF Init, RecoveryInv, Pending, Working

\* What a first tick has found stays while no loop looks at the table.
LEMMA RecoveryKept ==
  ASSUME RecoveryInv, UNCHANGED <<marker, overtaken, runOnce>>, edited \subseteq edited',
         \A w \in Workers :
           /\ Pending(w)' => Pending(w) /\ pick'[w] = pick[w] /\ last'[w] = last[w]
           /\ fresh'[w] /\ (Working(w)' \/ at'[w] = "idle") =>
                /\ fresh[w] /\ last'[w] = last[w] /\ listed'[w] = listed[w]
                /\ (Working(w) /\ todo'[w] = todo[w]) \/ at[w] = "idle"
                /\ at'[w] = "idle" => at[w] = "idle" \/ todo[w] = {}
  PROVE  RecoveryInv'
BY DEF RecoveryInv, Working

\* Every step of a first tick sees to what was missed.
LEMMA RecoveryStep ==
  TypeOK /\ LoopsInv /\ ClaimsInv /\ RecoveryInv /\ [Next]_vars => RecoveryInv'
<1> SUFFICES ASSUME TypeOK, LoopsInv, ClaimsInv, RecoveryInv, [Next]_vars PROVE RecoveryInv'
  OBVIOUS
<1>1. CASE Clock \/ (\E s \in Schedules : Edit(s)) \/ UNCHANGED vars
  BY <1>1, RecoveryKept
  DEF Clock, Edit, vars, rows, policy, ticks, history, Pending, Working
<1>2. ASSUME NEW w \in Workers, Deliver(w) PROVE RecoveryInv'
  BY <1>2, RecoveryKept
  DEF Deliver, Profile, DispatchEnds, ThreadEnds, rows, policy, ticks, history, Pending, Working
<1>3. ASSUME NEW w \in Workers, Boot(w) \/ EndTick(w) \/ Cancel(w) PROVE RecoveryInv'
  BY <1>3, RecoveryKept
  DEF Boot, EndTick, Cancel, LoopsInv, TypeOK, rows, policy, ticks, history, Pending, Working
<1>4. ASSUME NEW w \in Workers, BeginTick(w) PROVE RecoveryInv'
  BY <1>4, RecoveryKept DEF BeginTick, TypeOK, rows, policy, history, Pending, Working
<1>5. ASSUME NEW w \in Workers, TickRaises(w) \/ Stop(w) \/ Stopped(w) \/ Crash(w)
      PROVE  RecoveryInv'
  BY <1>5, GivesUp, RecoveryKept DEF Abandon, TypeOK, rows, policy, history, Pending, Working
<1>6. ASSUME NEW w \in Workers, List(w) PROVE RecoveryInv'
  <2>1. /\ UNCHANGED <<marker, overtaken, runOnce, edited, fresh, last, pick>>
        /\ at' = [at EXCEPT ![w] = "ticking"]
        /\ \A v \in Workers \ {w} : listed'[v] = listed[v] /\ todo'[v] = todo[v]
        /\ ~Pending(w)'
    BY <1>6 DEF List, TypeOK, rows, policy, history, Pending
  <2>2. ASSUME NEW s \in runOnce \ edited, fresh[w], listed'[w][s] # Never
        PROVE  \/ s \in todo'[w]
               \/ ~\E d \in Fires[s] : marker[s] < d /\ d <= last[w]
    <3>1. s \in Schedules
      BY DEF TypeOK
    <3>2. row[s] = "enabled" /\ listed'[w][s] = marker[s]
      BY <1>6, <2>2, <3>1 DEF List, ClaimsInv, TypeOK
    <3>3. Missed(s, last[w]) => s \in todo'[w]
      BY <1>6, <2>2, <3>1, <3>2 DEF List, Due, TypeOK
    <3> QED BY <2>2, <3>2, <3>3 DEF Missed
  <2> QED BY <2>1, <2>2 DEF RecoveryInv, TypeOK, Pending, Working
<1>7. ASSUME NEW w \in Workers, NEW s \in Schedules, Claim(w, s) PROVE RecoveryInv'
  <2> SUFFICES ASSUME ~overtaken' PROVE RecoveryInv'
    BY DEF RecoveryInv
  <2>1. ~overtaken /\ ~(last[w] < marker[s])
    BY <1>7 DEF Claim
  <2>2. /\ last[w] \in Minutes /\ marker[s] \in Marks
        /\ \A v \in Workers : last[v] \in Marks
    BY <1>7 DEF Claim, LoopsInv, Working, TypeOK
  <2>3. /\ marker' = [marker EXCEPT ![s] = last[w]] /\ pick' = [pick EXCEPT ![w] = s]
        /\ at' = [at EXCEPT ![w] = "claimed"] /\ at[w] = "ticking"
        /\ UNCHANGED <<last, fresh, listed, todo, edited, runOnce>>
    BY <1>7 DEF Claim, policy
  <2>4. \A t \in Schedules : marker'[t] \in Nat /\ marker[t] \in Nat /\ marker[t] <= marker'[t]
    BY <2>1, <2>2, <2>3, SchedulerAssumption DEF TypeOK, Minutes, Marks
  <2>5. ASSUME NEW v \in Workers, Pending(v)' PROVE last'[v] <= marker'[pick'[v]]
    <3>1. CASE v = w
      BY <2>2, <2>3, <3>1, SchedulerAssumption DEF TypeOK, Minutes
    <3>2. CASE v # w
      <4>1. Pending(v) /\ pick'[v] = pick[v] /\ pick[v] \in Schedules
        BY <2>3, <2>5, <3>2 DEF Pending, LoopsInv, TypeOK
      <4>2. last[v] <= marker[pick[v]]
        BY <2>1, <4>1 DEF RecoveryInv
      <4> QED BY <2>2, <2>3, <2>4, <4>1, <4>2, SchedulerAssumption DEF Marks
    <3> QED BY <3>1, <3>2
  <2>6. ASSUME NEW v \in Workers, NEW t \in runOnce \ edited, fresh[v], listed[v][t] # Never,
               Working(v)' \/ at'[v] = "idle"
        PROVE  \/ t \in todo[v] /\ at'[v] # "idle"
               \/ ~\E d \in Fires[t] : marker'[t] < d /\ d <= last[v]
    <3>1. t \in Schedules /\ Fires[t] \subseteq Nat
      BY SchedulerAssumption DEF TypeOK, Minutes
    <3>2. Working(v) \/ at[v] = "idle"
      BY <2>3, <2>6 DEF TypeOK, Pending, Working
    <3>3. \/ t \in todo[v] /\ at[v] # "idle"
          \/ ~\E d \in Fires[t] : marker[t] < d /\ d <= last[v]
      BY <2>1, <2>6, <3>2 DEF RecoveryInv
    <3>4. \A d \in Fires[t] : marker'[t] < d => marker[t] < d
      BY <2>4, <3>1
    <3>5. at[v] # "idle" => at'[v] # "idle"
      BY <2>3 DEF TypeOK
    <3> QED BY <3>3, <3>4, <3>5
  <2> QED BY <2>3, <2>5, <2>6 DEF RecoveryInv
<1>8. ASSUME NEW w \in Workers, NEW s \in Schedules, Refuse(w, s) PROVE RecoveryInv'
  <2>1. /\ UNCHANGED <<row, marker, overtaken, runOnce, edited, fresh, listed, at, pick, last>>
        /\ at[w] = "ticking" /\ todo' = [todo EXCEPT ![w] = @ \ {s}]
        /\ row[s] # "enabled" \/ marker[s] = last[w]
    BY <1>8 DEF Refuse, Claimable, rows, policy, history
  <2>2. s \notin edited => ~\E d \in Fires[s] : marker[s] < d /\ d <= last[w]
    <3>1. s \notin edited => marker[s] = last[w]
      BY <2>1 DEF ClaimsInv
    <3>2. Fires[s] \subseteq Nat /\ marker[s] \in Nat
      BY SchedulerAssumption DEF TypeOK, Minutes, Marks
    <3> QED BY <3>1, <3>2
  <2>3. ASSUME ~overtaken, NEW v \in Workers, NEW t \in runOnce \ edited,
               fresh[v], listed[v][t] # Never, Working(v) \/ at[v] = "idle"
        PROVE  \/ t \in todo'[v] /\ at[v] # "idle"
               \/ ~\E d \in Fires[t] : marker[t] < d /\ d <= last[v]
    <3>1. \/ t \in todo[v] /\ at[v] # "idle"
          \/ ~\E d \in Fires[t] : marker[t] < d /\ d <= last[v]
      BY <2>3 DEF RecoveryInv
    <3> QED BY <2>1, <2>2, <2>3, <3>1 DEF TypeOK
  <2> QED BY <2>1, <2>3 DEF RecoveryInv, Pending, Working
<1>9. ASSUME NEW w \in Workers, Dispatch(w) \/ Replacing(w) \/ Drop(w) PROVE RecoveryInv'
  <2>1. Pending(w) /\ Picked(w)
    BY <1>9 DEF Dispatch, Replacing, Drop, Start, Pending
  <2>2. /\ UNCHANGED <<marker, overtaken, runOnce, edited, fresh, listed, last>>
        /\ at' = [at EXCEPT ![w] = "ticking"] /\ todo' = [todo EXCEPT ![w] = @ \ {pick[w]}]
        /\ ~Pending(w)' /\ \A v \in Workers \ {w} : pick'[v] = pick[v]
    BY <2>1 DEF Picked, TypeOK, rows, policy, Pending
  <2>3. ~overtaken =>
          ~\E d \in Fires[pick[w]] : marker[pick[w]] < d /\ d <= last[w]
    <3>1. pick[w] \in Schedules /\ last[w] \in Nat
      BY <2>1, SchedulerAssumption DEF LoopsInv, TypeOK, Marks
    <3>2. Fires[pick[w]] \subseteq Nat /\ marker[pick[w]] \in Nat
      BY <3>1, SchedulerAssumption DEF TypeOK, Minutes, Marks
    <3>3. ~overtaken => last[w] <= marker[pick[w]]
      BY <2>1 DEF RecoveryInv
    <3> QED BY <3>1, <3>2, <3>3
  <2>4. ASSUME ~overtaken, NEW v \in Workers, NEW t \in runOnce \ edited,
               fresh[v], listed[v][t] # Never, Working(v)' \/ at'[v] = "idle"
        PROVE  \/ t \in todo'[v] /\ at'[v] # "idle"
               \/ ~\E d \in Fires[t] : marker[t] < d /\ d <= last[v]
    <3>1. Working(v) \/ at[v] = "idle"
      BY <2>1, <2>2, <2>4 DEF TypeOK, Pending, Working
    <3>2. \/ t \in todo[v] /\ at[v] # "idle"
          \/ ~\E d \in Fires[t] : marker[t] < d /\ d <= last[v]
      BY <2>4, <3>1 DEF RecoveryInv
    <3> QED BY <2>2, <2>3, <2>4, <3>2 DEF TypeOK
  <2>5. ~overtaken => \A v \in Workers : Pending(v)' => last[v] <= marker[pick'[v]]
    BY <2>2 DEF RecoveryInv, TypeOK, Pending
  <2> QED BY <2>2, <2>4, <2>5 DEF RecoveryInv
<1> QED BY <1>1, <1>2, <1>3, <1>4, <1>5, <1>6, <1>7, <1>8, <1>9 DEF Next, Tick

\* When the first tick of a process is over, no firing that a run-once schedule
\* missed since the claim it found is left behind.
THEOREM MissedAreRecovered == Spec => []RecoveredAtStart
<1>1. RecoveryInv => RecoveredAtStart
  BY DEF RecoveryInv, RecoveredAtStart
<1> QED
  BY <1>1, TypeInit, LoopsInit, DueInit, RecoveryInit,
     TypeStep, LoopsStep, DueStep, RecoveryStep, PTL DEF Spec
=============================================================================
