----------------------------- MODULE SparkEvents -----------------------------
(***************************************************************************)
(* The two summaries of a Spark event log (sdpstudio_core/debug.py): of a  *)
(* list of events, and of a stream of events of which a bounded number of  *)
(* tasks per stage is kept.                                                *)
(*                                                                         *)
(* An event is [kind, stage] with, for an ended task, its launch and       *)
(* finish, the run time of its executor and one counter for the bytes,     *)
(* all of which are summed alike.                                          *)
(***************************************************************************)
EXTENDS Lists, SequencesExt

StageSubmitted(e) == e.kind = "SparkListenerStageSubmitted"
TaskEnded(e) == e.kind = "SparkListenerTaskEnd"

\* A log has events of many kinds; times and counters are integers.
Events ==
  [kind : {"SparkListenerStageSubmitted"}, stage : Int]
    \cup [kind : {"SparkListenerTaskEnd"}, stage : Int, launch : Int, finish : Int, run : Int, bytes : Int]
    \cup [kind : STRING \ {"SparkListenerStageSubmitted", "SparkListenerTaskEnd"}]

Duration(e) == Max({0, e.finish - e.launch})
TasksOf(events, stage) == Among(events, {e \in Elements(events) : TaskEnded(e) /\ e.stage = stage})
Total(counts) == FoldLeft(LAMBDA sum, count : sum + count, 0, counts)

\* The k-th smallest duration, counting from 1.
Nth(tasks, k) ==
  LET AtMost(v) == Cardinality({i \in DOMAIN tasks : Duration(tasks[i]) <= v})
  IN  Min({v \in {Duration(tasks[i]) : i \in DOMAIN tasks} : AtMost(v) >= k})

\* The sum of the two middle durations: twice the median.
MedianTwice(tasks) ==
  LET n == Len(tasks)
  IN  IF n = 0 THEN 0 ELSE Nth(tasks, (n + 1) \div 2) + Nth(tasks, n \div 2 + 1)

\* The longest task over the median, in hundredths; 0 when the median is 0.
SkewScore(tasks) ==
  LET twice == MedianTwice(tasks)
  IN  IF twice = 0 THEN 0 ELSE (400 * Nth(tasks, Len(tasks)) + twice) \div (2 * twice)

Diagnostic(skew, moderate, severe) ==
  IF skew >= severe THEN "severe skew"
  ELSE IF skew >= moderate THEN "moderate skew" ELSE "balanced/unknown"

StageSummary(events, stage, moderate, severe) ==
  LET tasks == TasksOf(events, stage)
      n == Len(tasks)
  IN  [task_count |-> n,
       median2 |-> MedianTwice(tasks),
       max |-> IF n = 0 THEN 0 ELSE Nth(tasks, n),
       p95 |-> IF n = 0 THEN 0 ELSE Nth(tasks, Min({n, (19 * n + 19) \div 20})),
       skew |-> SkewScore(tasks),
       bytes |-> Total([i \in 1..n |-> tasks[i].bytes]),
       delay |-> Total([i \in 1..n |-> Max({0, Duration(tasks[i]) - tasks[i].run})]),
       diagnostic |-> Diagnostic(SkewScore(tasks), moderate, severe)]

\* Thresholds are in hundredths too.
summarize_spark_events(events, moderate, severe) ==
  [stage \in {e.stage : e \in {e \in Elements(events) : StageSubmitted(e) \/ TaskEnded(e)}} |->
     StageSummary(events, stage, moderate, severe)]

\* The last tasks of every stage that ended one, replayed from time 0.
ReplayedMutant(e) == [e EXCEPT !.launch = 0]
Replayed(e) == [e EXCEPT !.launch = 0, !.finish = Duration(e)]
Kept(events, stage, max_tasks) ==
  LET tasks == TasksOf(events, stage)
  IN  SubSeq(tasks, Max({1, Len(tasks) - max_tasks + 1}), Len(tasks))
summarize_spark_event_stream(events, moderate, severe, max_tasks) ==
  [stage \in {e.stage : e \in {e \in Elements(events) : TaskEnded(e)}} |->
     LET kept == Kept(events, stage, max_tasks)
     IN  StageSummary([i \in DOMAIN kept |-> Replayed(kept[i])], stage, moderate, severe)]
=============================================================================
