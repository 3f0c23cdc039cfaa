----------------------------- MODULE Scheduler -----------------------------
(***************************************************************************)
(* The periodic scheduler of the supervisor, scheduler.py, with the part   *)
(* of the task queue that decides what becomes of its requests             *)
(* (supervisor.py: _handle_task_request, TaskQueue.submit, _run_task,      *)
(* _process_next, _record_scheduler_completion).                           *)
(*                                                                         *)
(* An hourly, daily or weekly entry is a coarse entry: check submits it    *)
(* when its boundary passes.  An interval entry ("5m") is looked at every  *)
(* minute.  Both are due by what health/scheduler.json says of their last  *)
(* run, and that file is written by the threads of the tasks.              *)
(*                                                                         *)
(* Time is counted in periods of each entry: mark[e] is the number of its  *)
(* current period, lastRun[e] the period in which its last run ended.      *)
(* Actors: the supervisor's loop, the callosum thread that receives the    *)
(* loop's own requests, and the thread of each partition's task.           *)
(***************************************************************************)
EXTENDS Naturals, Sequences, FiniteSets, SequencesExt

CONSTANTS
    Coarse,       \* entries run every hour, day or week
    Interval,     \* entries run every n minutes
    Partition,    \* the queue partition of each entry's command
    Extra,        \* entries whose command is also submitted without a name
    MaxMark,      \* bound: periods of each entry
    MaxRequests,  \* bound: requests on their way
    MaxExtra,     \* bound: submissions without a scheduler name
    MaxFaults,    \* bound: restarts, lost requests and failed reads and writes
    None

Entry == Coarse \cup Interval
Part  == {Partition[e] : e \in Entry}

ASSUME SchedulerAssumption ==
    /\ IsFiniteSet(Entry) /\ Coarse \cap Interval = {}
    /\ DOMAIN Partition = Entry
    /\ Extra \subseteq Entry
    /\ None \notin Entry \cup Part
    /\ MaxMark \in Nat \ {0}
    /\ MaxRequests \in Nat /\ MaxExtra \in Nat /\ MaxFaults \in Nat

\* What the queue holds: a command, and the entry to write back when it ends.
Task == [cmd : Entry, name : Entry \cup {None}]
Idle == [phase |-> "idle", task |-> None, period |-> 0]
Phases == {"idle", "starting", "active", "ended", "recording", "recorded"}

Blank == [e \in Entry |-> 0]   \* no health/scheduler.json

VARIABLES
    main,      \* the loop: "down", "init" (before catch_up) or "loop"
    mark,      \* the clock: the current period of each entry
    seen,      \* _last_hour, _last_daily_mark and _last_weekly_mark
    minute,    \* the minute has changed since the last check
    lastRun,   \* health/scheduler.json
    requests,  \* supervisor.request messages on their way to the supervisor
    run,       \* _running and _active, by partition
    queues,    \* _queues, by partition
    writer,    \* who holds _SCHEDULER_JSON_LOCK
    copy,      \* the file as each partition's writer read it
    blind,     \* the partitions whose writer could not read the file
    missed,    \* history: coarse entries whose run of this period was dropped
    extras,    \* how many submissions without a name there were
    faults     \* how many of the bounded faults happened

clock == <<mark, minute>>
file  == <<lastRun, writer, copy, blind>>
tasks == <<run, queues>>
vars  == <<main, clock, seen, file, requests, tasks, missed, extras, faults>>

Fault == faults < MaxFaults /\ faults' = faults + 1

-----------------------------------------------------------------------------
(* The clock *)

\* An hour, a day or a week ends, whether or not the supervisor runs.
Boundary(e) ==
    /\ mark[e] < MaxMark
    /\ mark' = [mark EXCEPT ![e] = @ + 1]
    /\ minute' = TRUE
    /\ missed' = missed \ {e}
    /\ UNCHANGED <<main, seen, file, requests, tasks, extras, faults>>

\* n minutes have passed since an interval entry last ran.
Lapse(e) ==
    /\ mark[e] < MaxMark /\ lastRun[e] = mark[e]
    /\ mark' = [mark EXCEPT ![e] = @ + 1]
    /\ UNCHANGED <<main, minute, seen, file, requests, tasks, missed, extras,
                   faults>>

Tick ==
    /\ main = "loop" /\ ~minute
    /\ minute' = TRUE
    /\ UNCHANGED <<main, mark, seen, file, requests, tasks, missed, extras,
                   faults>>

-----------------------------------------------------------------------------
(* The loop *)

\* _is_due: the last run ended before the current boundary, or too long ago.
Due(e) == lastRun[e] < mark[e]

\* _submit_entry for each of es: one request each on the bus.
Submit(es) ==
    /\ Len(requests) + Cardinality(es) <= MaxRequests
    /\ requests' = requests \o SetToSeq(es)

\* init: the marks start at the current boundaries, not at those of the last
\* process.
Start ==
    /\ main = "down"
    /\ main' = "init"
    /\ seen' = [e \in Coarse |-> mark[e]]
    /\ minute' = FALSE
    /\ UNCHANGED <<mark, file, requests, tasks, missed, extras, faults>>

\* Mutant: it looks for boundaries that passed, as check does.
CatchUpEdges ==
    /\ main = "init"
    /\ Submit({e \in Coarse : seen[e] # mark[e] /\ Due(e)} \cup
              {e \in Interval : Due(e)})
    /\ main' = "loop"
    /\ missed' = {}
    /\ UNCHANGED <<clock, seen, file, tasks, extras, faults>>

\* catch_up: whatever is due, whenever its boundary passed.
CatchUp ==
    /\ main = "init"
    /\ Submit({e \in Entry : Due(e)})
    /\ main' = "loop"
    /\ missed' = {}
    /\ UNCHANGED <<clock, seen, file, tasks, extras, faults>>

\* Mutant: the marks move on with each look at the file, not with each check.
CheckMinutes ==
    /\ main = "loop"
    /\ minute \/ \E e \in Coarse : seen[e] # mark[e]
    /\ Submit({e \in Coarse : seen[e] # mark[e] /\ Due(e) /\ ~minute} \cup
              {e \in Interval : minute /\ Due(e)})
    /\ seen' = [e \in Coarse |-> mark[e]]
    /\ minute' = FALSE
    /\ UNCHANGED <<main, mark, file, tasks, missed, extras, faults>>

\* Mutant: nothing is looked at unless an hour, a day or a week ended.
CheckHourly ==
    /\ main = "loop"
    /\ \E e \in Coarse : seen[e] # mark[e]
    /\ Submit({e \in Coarse : seen[e] # mark[e] /\ Due(e)} \cup
              {e \in Interval : minute /\ Due(e)})
    /\ seen' = [e \in Coarse |-> mark[e]]
    /\ minute' = FALSE
    /\ UNCHANGED <<main, mark, file, tasks, missed, extras, faults>>

\* check: the coarse entries whose own boundary passed since the last check
\* and the interval entries when the minute changed, if they are due.
Check ==
    /\ main = "loop"
    /\ minute \/ \E e \in Coarse : seen[e] # mark[e]
    /\ Submit({e \in Coarse : seen[e] # mark[e] /\ Due(e)} \cup
              {e \in Interval : minute /\ Due(e)})
    /\ seen' = [e \in Coarse |-> mark[e]]
    /\ minute' = FALSE
    /\ UNCHANGED <<main, mark, file, tasks, missed, extras, faults>>

\* The process ends: tasks, queues and requests go with it.  (A task that a
\* shutdown terminates may still be recorded before: Exit and Record.)
Crash ==
    /\ main # "down" /\ Fault
    /\ main' = "down"
    /\ requests' = <<>>
    /\ run' = [p \in Part |-> Idle] /\ queues' = [p \in Part |-> <<>>]
    /\ writer' = None /\ blind' = {}
    /\ copy' = [p \in Part |-> Blank]
    /\ UNCHANGED <<clock, seen, lastRun, missed, extras>>

-----------------------------------------------------------------------------
(* The callosum thread *)

Miss(e) == missed' = missed \cup ({e} \cap Coarse)

\* TaskQueue.submit: start, queue, or coalesce onto the task queued for the
\* same command, which keeps its own scheduler name, or none.
Queued(p, c) == \E i \in DOMAIN queues[p] : queues[p][i].cmd = c
Enqueue(t) ==
    LET p == Partition[t.cmd]
    IN  IF run[p].phase = "idle"
        THEN /\ run' = [run EXCEPT ![p] = [phase |-> "starting", task |-> t,
                                           period |-> 0]]
             /\ UNCHANGED queues
        ELSE /\ queues' = IF Queued(p, t.cmd) THEN queues
                          ELSE [queues EXCEPT ![p] = Append(@, t)]
             /\ UNCHANGED run

\* _handle_task_request: a request is dropped while a task of its partition
\* is active.
Receive ==
    /\ main # "down" /\ requests # <<>>
    /\ requests' = Tail(requests)
    /\ LET e == Head(requests)
           p == Partition[e]
       IN  IF run[p].phase = "active"
           THEN Miss(e) /\ UNCHANGED tasks
           ELSE /\ Enqueue([cmd |-> e, name |-> e])
                /\ IF [cmd |-> e, name |-> None] \in
                          {queues[p][i] : i \in DOMAIN queues[p]}
                   THEN Miss(e) ELSE UNCHANGED missed
    /\ UNCHANGED <<main, clock, seen, file, extras, faults>>

\* The connection broke between the emit and the callback.
Lose ==
    /\ Fault
    /\ \E i \in DOMAIN requests :
         /\ requests' = RemoveAt(requests, i)
         /\ Miss(requests[i])
    /\ UNCHANGED <<main, clock, seen, file, tasks, extras>>

\* _handle_think_daily_complete: the heartbeat that follows the daily run is
\* submitted straight to the queue, with no scheduler name.
SubmitExtra(e) ==
    /\ main # "down" /\ extras < MaxExtra
    /\ extras' = extras + 1
    /\ Enqueue([cmd |-> e, name |-> None])
    /\ UNCHANGED <<main, clock, seen, file, requests, missed, faults>>

-----------------------------------------------------------------------------
(* The thread of a partition's task *)

Phase(p, from, to) ==
    /\ run[p].phase = from
    /\ run' = [run EXCEPT ![p].phase = to]
    /\ UNCHANGED <<main, clock, seen, requests, queues, extras>>

\* The process is spawned and the task enters _active.
Begin(p) == Phase(p, "starting", "active") /\ UNCHANGED <<file, missed, faults>>

\* The task leaves _active, its process ended or never spawned; ended_at is
\* taken here.
Exit(p) ==
    /\ run[p].phase \in {"starting", "active"}
    /\ LET t == run[p].task
       IN  run' = [run EXCEPT ![p] =
                     [phase |-> "ended", task |-> t,
                      period |-> IF t.name = None THEN 0 ELSE mark[t.name]]]
    /\ UNCHANGED <<main, clock, seen, file, requests, queues, missed, extras,
                   faults>>

\* Mutant: no lock around the read and the write.
ReadStateUnlocked(p) ==
    /\ Phase(p, "ended", "recording")
    /\ run[p].task.name # None
    /\ writer' = p
    /\ \/ copy' = [copy EXCEPT ![p] = lastRun] /\ UNCHANGED <<blind, faults>>
       \/ blind' = blind \cup {p} /\ Fault /\ UNCHANGED copy
    /\ UNCHANGED <<lastRun, missed>>

\* _record_scheduler_completion takes the lock and reads the file; a file it
\* cannot read counts as empty.
ReadState(p) ==
    /\ Phase(p, "ended", "recording")
    /\ run[p].task.name # None /\ writer = None
    /\ writer' = p
    /\ \/ copy' = [copy EXCEPT ![p] = lastRun] /\ UNCHANGED <<blind, faults>>
       \/ blind' = blind \cup {p} /\ Fault /\ UNCHANGED copy
    /\ UNCHANGED <<lastRun, missed>>

Release(p) ==
    /\ writer' = None /\ blind' = blind \ {p}
    /\ copy' = [copy EXCEPT ![p] = Blank]

\* It replaces the file and releases the lock.  Entries that a blind write
\* forgets are due again.
WriteState(p) ==
    LET e == run[p].task.name
    IN  /\ Phase(p, "recording", "recorded")
        /\ lastRun' = [copy[p] EXCEPT ![e] = run[p].period]
        /\ missed' = IF p \in blind THEN missed \cup (Coarse \ {e}) ELSE missed
        /\ Release(p)
        /\ UNCHANGED faults

\* The write fails: a warning in the log, and the run was for nothing.
WriteFails(p) ==
    /\ Phase(p, "recording", "recorded")
    /\ Fault
    /\ Miss(run[p].task.name)
    /\ Release(p)
    /\ UNCHANGED lastRun

\* _process_next
ProcessNext(p) ==
    /\ \/ run[p].phase = "recorded"
       \/ run[p].phase = "ended" /\ run[p].task.name = None
    /\ IF queues[p] # <<>>
       THEN /\ run' = [run EXCEPT ![p] = [phase |-> "starting",
                                          task |-> Head(queues[p]),
                                          period |-> 0]]
            /\ queues' = [queues EXCEPT ![p] = Tail(@)]
       ELSE run' = [run EXCEPT ![p] = Idle] /\ UNCHANGED queues
    /\ UNCHANGED <<main, clock, seen, file, requests, missed, extras, faults>>

Run(p) ==
    \/ Begin(p) \/ Exit(p) \/ ReadState(p) \/ WriteState(p) \/ WriteFails(p)
    \/ ProcessNext(p)

-----------------------------------------------------------------------------
\* The supervisor is down; each entry ran in the first period or before it.
Init ==
    /\ main = "down"
    /\ mark = [e \in Entry |-> 1] /\ minute = FALSE
    /\ lastRun \in [Entry -> {0, 1}]
    /\ seen = [e \in Coarse |-> 0]
    /\ requests = <<>>
    /\ run = [p \in Part |-> Idle] /\ queues = [p \in Part |-> <<>>]
    /\ writer = None /\ copy = [p \in Part |-> Blank] /\ blind = {}
    /\ missed = {}
    /\ extras = 0 /\ faults = 0

Next ==
    \/ \E e \in Coarse : Boundary(e)
    \/ \E e \in Interval : Lapse(e)
    \/ Tick \/ Start \/ CatchUp \/ Check \/ Crash \/ Receive \/ Lose
    \/ \E e \in Extra : SubmitExtra(e)
    \/ \E p \in Part : Run(p)

Spec == Init /\ [][Next]_vars

\* The minutes pass, the loop and the callosum thread go on, and tasks end: a
\* task over its cap is terminated.  Nothing obliges the supervisor to start.
Fairness ==
    /\ WF_vars(Tick) /\ WF_vars(CatchUp) /\ WF_vars(Check) /\ WF_vars(Receive)
    /\ \A p \in Part : WF_vars(Run(p))

FairSpec == Spec /\ Fairness

-----------------------------------------------------------------------------
(* Properties *)

\* Types, and the lock is held by the one task that is recording.
TypeOK ==
    /\ main \in {"down", "init", "loop"} /\ minute \in BOOLEAN
    /\ mark \in [Entry -> 1..MaxMark] /\ seen \in [Coarse -> 0..MaxMark]
    /\ lastRun \in [Entry -> 0..MaxMark] /\ copy \in [Part -> [Entry -> 0..MaxMark]]
    /\ requests \in Seq(Entry) /\ Len(requests) <= MaxRequests
    /\ run \in [Part -> [phase : Phases, task : Task \cup {None}, period : 0..MaxMark]]
    /\ \A p \in Part : run[p].phase # "idle" => run[p].task \in Task
    /\ queues \in [Part -> Seq(Task)]
    /\ writer \in Part \cup {None} /\ blind \subseteq Part \cap {writer}
    /\ \A p \in Part : writer = p <=> run[p].phase = "recording"
    /\ missed \subseteq Coarse
    /\ extras \in 0..MaxExtra /\ faults \in 0..MaxFaults

\* A request, a queued task or a running task will write e back.
InHand(e) ==
    \/ \E i \in DOMAIN requests : requests[i] = e
    \/ \E p \in Part :
         \/ run[p].phase # "idle" /\ run[p].task.name = e
         \/ \E i \in DOMAIN queues[p] : queues[p][i].name = e

\* Since check looks at a coarse entry only when its boundary passes, an entry
\* that is due after that look must be on its way to a run.  Whatever the
\* clock, the tasks' ends and their write-backs do, it is, unless its request
\* was dropped or its record lost (scheduler.py:487-564, supervisor.py:1293,
\* 1394-1428).
OverdueIsAccountedFor ==
    main = "loop" =>
        \A e \in Coarse :
            Due(e) /\ seen[e] = mark[e] => InHand(e) \/ e \in missed

\* Two tasks that end together do not undo each other's record: a record goes
\* back only when the writer could not read the file (supervisor.py:1304-1337).
RecordsAreKept ==
    [][\A e \in Entry : lastRun'[e] < lastRun[e] => writer \in blind]_vars

\* An interval entry that is due is run, however often its requests are
\* dropped because a task of its partition is active.
IntervalEntryRuns ==
    \A e \in Interval : [](Due(e) /\ main = "loop" => <>(~Due(e) \/ main = "down"))

\* What fell due while the supervisor was down is run after it starts, unless
\* the run was dropped.
OverdueIsCaughtUp ==
    \A e \in Coarse :
        [](Due(e) /\ main = "init" =>
               <>(~Due(e) \/ e \in missed \/ main = "down"))

=============================================================================
