----------------------------- MODULE TaskQueue -----------------------------
(***************************************************************************)
(* The supervisor's TaskQueue (solstone/think/supervisor.py): on-demand    *)
(* tasks, serialized per command partition, each run by a daemon thread    *)
(* that spawns one process, waits for it and then starts the next entry.   *)
(*                                                                         *)
(* One action is one critical section of TaskQueue._lock, or one step of a *)
(* task thread between two of them.  Creating and starting a thread follows*)
(* the release of the lock with nothing read in between, and a new thread  *)
(* first takes the lock, so the start is folded into the critical section  *)
(* that decided it; a start that fails is StartFails.                      *)
(***************************************************************************)
EXTENDS Naturals, Sequences, FiniteSets

CONSTANTS
  Cmds,          \* commands, compared for exact equality
  Partitions,    \* command names
  CmdName,       \* get_command_name: the partition of a command
  None,
  StartReady,    \* the constructor's ready argument; the supervisor passes FALSE
  SameMs,        \* TRUE: two submissions may fall in one millisecond and
                 \* draw the same now_ms() ref
  MaxSubmits,    \* bound: submissions and requests
  MaxLate,       \* bound: tasks that outlive their cap
  MaxFaults      \* bound: task threads that die before their try block

ASSUME CmdNameAssumption == CmdName \in [Cmds -> Partitions]
ASSUME NoneAssumption == None \notin Nat \cup Cmds
ASSUME NobodyAssumption == None \notin [cmd : Cmds, callers : SUBSET Nat, ended : BOOLEAN]
ASSUME BoundsAssumption ==
  /\ MaxSubmits \in Nat /\ MaxLate \in Nat /\ MaxFaults \in Nat
  /\ SameMs \in BOOLEAN /\ StartReady \in BOOLEAN

\* Correlation ids and task threads, numbered in the order they come to be; an
\* entry comes from one submission and is run by one thread.
Refs == 1 .. MaxSubmits
Threads == 1 .. MaxSubmits

VARIABLES
  ready,         \* _ready
  pending,       \* _pending: entries buffered until set_ready
  draining,      \* set_ready's local list, still to be submitted (main thread)
  request,       \* a supervisor.request that passed _handle_task_request's
                 \* active check and is about to be submitted (callosum thread)
  running,       \* _running: per partition [busy, ref, thread]
  queues,        \* _queues: per partition, entries [cmd, refs]
  active,        \* _active: ref -> the thread whose process it is, or None
  capTerminated, \* _cap_terminated
  pc,            \* where each task thread is in _run_task
  task,          \* the entry a thread was started with
  proc,          \* its process: none, running, signalled, exited
  overCap,       \* threads whose process has outlived its cap
  outcome,       \* exit_status the thread put in _history
  phase,         \* supervisor: up, stopping (TaskQueue.shutdown), gone
  targets,       \* shutdown's snapshot of the active processes
  issued,        \* the refs drawn so far, in order
  accepted,      \* refs that submit took
  declined,      \* refs answered with supervisor.skipped
  answered,      \* per ref, the number of supervisor.stopped events
  faults

tables == <<ready, pending, draining, request, running, queues>>
threads == <<pc, task, proc, overCap, outcome>>
ghosts == <<issued, accepted, declined, answered>>
vars == <<tables, active, capTerminated, threads, phase, targets, ghosts, faults>>

Entry == [cmd : Cmds, refs : Seq(Refs) \ {<<>>}]
Idle == [busy |-> FALSE, ref |-> None, thread |-> None]
NoEntry == [cmd |-> None, refs |-> <<>>]

PcValues == {"unborn", "starting", "open", "spawned", "failed", "waiting",
             "reported", "retired", "done", "dead"}
ProcValues == {"none", "running", "signalled", "exited"}

Name(t) == CmdName[task[t].cmd]
Primary(t) == Head(task[t].refs)
RefsIn(e) == {e.refs[i] : i \in DOMAIN e.refs}
RefsOf(s) == UNION {RefsIn(s[i]) : i \in DOMAIN s}

\* Started and not yet past _process_next: the thread that owns its partition.
InFlight(t) == pc[t] \notin {"unborn", "done", "dead"}
\* threading.Thread.is_alive for a registered thread
Alive(t) == pc[t] \notin {"done", "dead"}
HasProcess(t) == proc[t] \in {"running", "signalled"}

----------------------------------------------------------------------------
(* submit *)

\* ref or str(now_ms()): never drawn before, unless within the same millisecond.
Draw(r) ==
  /\ Len(issued) < MaxSubmits
  /\ \/ r = Len(issued) + 1
     \/ SameMs /\ issued # <<>> /\ r = issued[Len(issued)]
  /\ issued' = Append(issued, r)

\* Mark partition p as running entry and start its thread.
Start(p, entry, pcs) ==
  \E t \in Threads :
    /\ \A u \in Threads : pcs[u] = "unborn" <=> u >= t
    /\ pc' = [pcs EXCEPT ![t] = "starting"]
    /\ task' = [task EXCEPT ![t] = entry]
    /\ running' = [running EXCEPT ![p] =
                     [busy |-> TRUE, ref |-> Head(entry.refs), thread |-> None]]

\* Mutant: an entry whose thread has not registered yet counts as stale.
StaleIfUnregistered(p) == running[p].thread # None => ~Alive(running[p].thread)

\* A running entry whose registered thread has died without clearing it.
Stale(p) == running[p].thread # None /\ ~Alive(running[p].thread)

\* Mutant: the second caller's ref is not kept.
CoalesceDropsRef(p, c, r) ==
  (\E i \in DOMAIN queues[p] : queues[p][i].cmd = c) /\ UNCHANGED queues

Coalesce(p, c, r) ==
  \E i \in DOMAIN queues[p] :
    /\ queues[p][i].cmd = c
    /\ queues' = IF r \in RefsIn(queues[p][i]) THEN queues
                 ELSE [queues EXCEPT ![p][i].refs = Append(@, r)]

Enqueue(p, c, r) ==
  /\ \A i \in DOMAIN queues[p] : queues[p][i].cmd # c
  /\ queues' = [queues EXCEPT ![p] = Append(@, [cmd |-> c, refs |-> <<r>>])]

\* The ready check and the second critical section are one step: _ready is
\* never reset, and the check alone changes nothing.
Submit(c, r) ==
  LET p == CmdName[c]
  IN  /\ accepted' = accepted \cup {r}
      /\ \/ /\ ~ready
            /\ pending' = Append(pending, [cmd |-> c, refs |-> <<r>>])
            /\ UNCHANGED <<running, queues, pc, task>>
         \/ /\ ready /\ running[p].busy /\ ~Stale(p)
            /\ Coalesce(p, c, r) \/ Enqueue(p, c, r)
            /\ UNCHANGED <<pending, running, pc, task>>
         \/ /\ ready /\ (~running[p].busy \/ Stale(p))
            /\ Start(p, [cmd |-> c, refs |-> <<r>>], pc)
            /\ UNCHANGED <<pending, queues>>

Up == phase # "gone"
CallosumFree == request = <<>>
MainFree == draining = <<>> /\ phase = "up"

\* The supervisor's own handlers and its main loop submit directly.
SubmitDirect(c, r) ==
  /\ Up
  /\ CallosumFree \/ MainFree
  /\ Draw(r)
  /\ Submit(c, r)
  /\ UNCHANGED <<ready, draining, request, active, capTerminated, proc, overCap,
                 outcome, phase, targets, declined, answered, faults>>

\* _handle_task_request: a request whose partition has a process in _active is
\* answered with supervisor.skipped and dropped; otherwise the callosum thread
\* goes on to submit, after the lock is released.
ActiveIn(p) == \E r \in Refs : active[r] # None /\ Name(active[r]) = p

HandleTaskRequest(c, r) ==
  /\ Up
  /\ CallosumFree
  /\ Draw(r)
  /\ \/ /\ ActiveIn(CmdName[c])
        /\ declined' = declined \cup {r}
        /\ UNCHANGED request
     \/ /\ ~ActiveIn(CmdName[c])
        /\ request' = <<[cmd |-> c, refs |-> <<r>>]>>
        /\ UNCHANGED declined
  /\ UNCHANGED <<ready, pending, draining, running, queues, active, capTerminated,
                 threads, phase, targets, accepted, answered, faults>>

SubmitRequest ==
  /\ Up /\ request # <<>>
  /\ Submit(Head(request).cmd, Head(Head(request).refs))
  /\ request' = <<>>
  /\ UNCHANGED <<ready, draining, active, capTerminated, proc, overCap, outcome,
                 phase, targets, issued, declined, answered, faults>>

SetReady ==
  /\ ~ready /\ phase = "up"
  /\ ready' = TRUE
  /\ draining' = pending
  /\ pending' = <<>>
  /\ UNCHANGED <<request, running, queues, active, capTerminated, threads, phase,
                 targets, ghosts, faults>>

DrainOne ==
  /\ Up /\ draining # <<>>
  /\ Submit(Head(draining).cmd, Head(Head(draining).refs))
  /\ draining' = Tail(draining)
  /\ UNCHANGED <<ready, request, active, capTerminated, proc, overCap, outcome,
                 phase, targets, issued, declined, answered, faults>>

----------------------------------------------------------------------------
(* _run_task *)

Register(t) ==
  /\ Up /\ pc[t] = "starting"
  /\ pc' = [pc EXCEPT ![t] = "open"]
  /\ running' = IF running[Name(t)].busy /\ running[Name(t)].ref = Primary(t)
                THEN [running EXCEPT ![Name(t)].thread = t] ELSE running
  /\ UNCHANGED <<ready, pending, draining, request, queues, active, capTerminated,
                 task, proc, overCap, outcome, phase, targets, ghosts, faults>>

\* RunnerManagedProcess.spawn: the process runs before _active knows it.
Spawn(t) ==
  /\ Up /\ pc[t] = "open"
  /\ \/ /\ pc' = [pc EXCEPT ![t] = "spawned"]
        /\ proc' = [proc EXCEPT ![t] = "running"]
     \/ /\ pc' = [pc EXCEPT ![t] = "failed"]
        /\ UNCHANGED proc
  /\ UNCHANGED <<tables, active, capTerminated, task, overCap, outcome, phase,
                 targets, ghosts, faults>>

Activate(t) ==
  /\ Up /\ pc[t] = "spawned"
  /\ pc' = [pc EXCEPT ![t] = "waiting"]
  /\ active' = [active EXCEPT ![Primary(t)] = t]
  /\ UNCHANGED <<tables, capTerminated, task, proc, overCap, outcome, phase,
                 targets, ghosts, faults>>

\* managed.wait returned, or spawn raised: supervisor.stopped for every ref.
Report(t) ==
  /\ Up
  /\ pc[t] = "failed" \/ (pc[t] = "waiting" /\ proc[t] = "exited")
  /\ pc' = [pc EXCEPT ![t] = "reported"]
  /\ answered' = [r \in Refs |-> answered[r] + (IF r \in RefsIn(task[t]) THEN 1 ELSE 0)]
  /\ UNCHANGED <<tables, active, capTerminated, task, proc, overCap, outcome, phase,
                 targets, issued, accepted, declined, faults>>

\* The finally block's critical section.
Retire(t) ==
  /\ Up /\ pc[t] = "reported"
  /\ pc' = [pc EXCEPT ![t] = "retired"]
  /\ active' = [active EXCEPT ![Primary(t)] = None]
  /\ outcome' = [outcome EXCEPT ![t] =
                   IF Primary(t) \in capTerminated THEN "timeout" ELSE "ended"]
  /\ capTerminated' = capTerminated \ {Primary(t)}
  /\ UNCHANGED <<tables, task, proc, overCap, phase, targets, ghosts, faults>>

\* Mutants of ProcessNext: the queue is forgotten; the newest entry goes first.
ProcessNextForgets(t) ==
  /\ Up /\ pc[t] = "retired"
  /\ pc' = [pc EXCEPT ![t] = "done"]
  /\ running' = [running EXCEPT ![Name(t)] = Idle]
  /\ UNCHANGED <<ready, pending, draining, request, queues, active, capTerminated, task,
                 proc, overCap, outcome, phase, targets, ghosts, faults>>

ProcessNextNewest(t) ==
  LET q == queues[Name(t)]
      left == [pc EXCEPT ![t] = "done"]
  IN  /\ Up /\ pc[t] = "retired"
      /\ IF q # <<>>
         THEN /\ Start(Name(t), q[Len(q)], left)
              /\ queues' = [queues EXCEPT ![Name(t)] = SubSeq(@, 1, Len(@) - 1)]
         ELSE /\ pc' = left
              /\ running' = [running EXCEPT ![Name(t)] = Idle]
              /\ UNCHANGED <<queues, task>>
      /\ UNCHANGED <<ready, pending, draining, request, active, capTerminated, proc,
                     overCap, outcome, phase, targets, ghosts, faults>>

ProcessNext(t) ==
  LET p == Name(t)
      left == [pc EXCEPT ![t] = "done"]
  IN  /\ Up /\ pc[t] = "retired"
      /\ \/ /\ queues[p] # <<>>
            /\ Start(p, Head(queues[p]), left)
            /\ queues' = [queues EXCEPT ![p] = Tail(@)]
         \/ /\ queues[p] = <<>>
            /\ pc' = left
            /\ running' = [running EXCEPT ![p] = Idle]
            /\ UNCHANGED <<queues, task>>
      /\ UNCHANGED <<ready, pending, draining, request, active, capTerminated, proc,
                     overCap, outcome, phase, targets, ghosts, faults>>

Die(t, at) ==
  /\ Up /\ pc[t] = at
  /\ faults < MaxFaults
  /\ pc' = [pc EXCEPT ![t] = "dead"]
  /\ faults' = faults + 1
  /\ UNCHANGED <<tables, active, capTerminated, task, proc, overCap, outcome, phase,
                 targets, ghosts>>

\* Thread.start raises: _running keeps its entry with no thread registered.
StartFails(t) == Die(t, "starting")
\* CallosumConnection() raises, before the try block: the thread dies with
\* _running naming it.
DiesBeforeTry(t) == Die(t, "open")

----------------------------------------------------------------------------
(* processes, deadlines, shutdown *)

\* The process ends by itself, by TaskQueue.cancel, or by the signals sent to it.
Exit(t) ==
  /\ HasProcess(t)
  /\ proc' = [proc EXCEPT ![t] = "exited"]
  /\ UNCHANGED <<tables, active, capTerminated, pc, task, overCap, outcome, phase,
                 targets, ghosts, faults>>

\* Time passes: a task's runtime exceeds its cap (or it has been stopped for
\* STOPPED_TICKS_THRESHOLD ticks).
Outlive(t) ==
  /\ phase = "up"
  /\ proc[t] = "running"
  /\ t \notin overCap /\ Cardinality(overCap) < MaxLate
  /\ overCap' = overCap \cup {t}
  /\ UNCHANGED <<tables, active, capTerminated, pc, task, proc, outcome, phase,
                 targets, ghosts, faults>>

Signal(T) == [t \in Threads |-> IF t \in T /\ proc[t] = "running"
                                THEN "signalled" ELSE proc[t]]

ActiveThreads == {active[r] : r \in Refs} \ {None}

\* Mutants: one late task condemns all; a late task is marked, never signalled.
EnforceDeadlinesOnAll ==
  /\ MainFree
  /\ ActiveThreads \cap overCap # {}
  /\ capTerminated' = capTerminated \cup {r \in Refs : active[r] # None}
  /\ proc' = Signal(ActiveThreads)
  /\ UNCHANGED <<tables, active, pc, task, overCap, outcome, phase, targets,
                 ghosts, faults>>

EnforceDeadlinesMarksOnly ==
  LET late == {r \in Refs : active[r] \in overCap}
  IN  /\ MainFree
      /\ late # {}
      /\ capTerminated' = capTerminated \cup late
      /\ UNCHANGED <<tables, active, pc, task, proc, overCap, outcome, phase, targets,
                     ghosts, faults>>

\* One supervise tick over the whole of _active.
EnforceDeadlines ==
  LET late == {r \in Refs : active[r] \in overCap}
  IN  /\ MainFree
      /\ late # {}
      /\ capTerminated' = capTerminated \cup late
      /\ proc' = Signal({active[r] : r \in late})
      /\ UNCHANGED <<tables, active, pc, task, overCap, outcome, phase, targets,
                     ghosts, faults>>

\* TaskQueue.shutdown: terminate a snapshot of _active and wait for it ...
BeginShutdown ==
  /\ ready /\ MainFree
  /\ phase' = "stopping"
  /\ targets' = ActiveThreads
  /\ proc' = Signal(ActiveThreads)
  /\ UNCHANGED <<tables, active, capTerminated, pc, task, overCap, outcome, ghosts,
                 faults>>

\* ... then the services are stopped and the interpreter exits, taking the
\* daemon threads with it.
EndShutdown ==
  /\ phase = "stopping"
  /\ \A t \in targets : ~HasProcess(t)
  /\ phase' = "gone"
  /\ UNCHANGED <<tables, active, capTerminated, threads, targets, ghosts, faults>>

Terminated == phase = "gone" /\ UNCHANGED vars

----------------------------------------------------------------------------
Init ==
  /\ ready = StartReady
  /\ pending = <<>> /\ draining = <<>> /\ request = <<>>
  /\ running = [p \in Partitions |-> Idle]
  /\ queues = [p \in Partitions |-> <<>>]
  /\ active = [r \in Refs |-> None]
  /\ capTerminated = {}
  /\ pc = [t \in Threads |-> "unborn"]
  /\ task = [t \in Threads |-> NoEntry]
  /\ proc = [t \in Threads |-> "none"]
  /\ overCap = {}
  /\ outcome = [t \in Threads |-> "none"]
  /\ phase = "up"
  /\ targets = {}
  /\ issued = <<>> /\ accepted = {} /\ declined = {}
  /\ answered = [r \in Refs |-> 0]
  /\ faults = 0

ThreadStep(t) ==
  \/ Register(t) \/ Spawn(t) \/ Activate(t) \/ Report(t) \/ Retire(t) \/ ProcessNext(t)

Next ==
  \/ \E c \in Cmds, r \in Refs : SubmitDirect(c, r) \/ HandleTaskRequest(c, r)
  \/ SubmitRequest \/ SetReady \/ DrainOne
  \/ \E t \in Threads : ThreadStep(t) \/ StartFails(t) \/ DiesBeforeTry(t)
  \/ EnforceDeadlines
  \/ \E t \in Threads : Exit(t) \/ Outlive(t)
  \/ BeginShutdown \/ EndShutdown \/ Terminated

Spec == Init /\ [][Next]_vars

\* Threads run, the main loop ticks, a signalled process dies (SIGKILL follows
\* SIGTERM) and time passes.  Nothing makes a task end by itself.
Fairness ==
  /\ WF_vars(SetReady)
  /\ WF_vars(DrainOne)
  /\ WF_vars(SubmitRequest)
  /\ WF_vars(EnforceDeadlines)
  /\ \A t \in Threads :
       /\ WF_vars(ThreadStep(t))
       /\ WF_vars(Outlive(t))
       /\ WF_vars(proc[t] = "signalled" /\ Exit(t))

FairSpec == Spec /\ Fairness
----------------------------------------------------------------------------
(* Properties *)

\* Type correctness.
TypeOK ==
  /\ ready \in BOOLEAN
  /\ pending \in Seq(Entry)
  /\ draining \in Seq(Entry)
  /\ request \in Seq(Entry)
  /\ running \in [Partitions -> [busy : BOOLEAN, ref : Refs \cup {None},
                                 thread : Threads \cup {None}]]
  /\ queues \in [Partitions -> Seq(Entry)]
  /\ active \in [Refs -> Threads \cup {None}]
  /\ capTerminated \subseteq Refs
  /\ pc \in [Threads -> PcValues]
  /\ task \in [Threads -> Entry \cup {NoEntry}]
  /\ \A t \in Threads : pc[t] # "unborn" => task[t] \in Entry
  /\ proc \in [Threads -> ProcValues]
  /\ overCap \subseteq Threads
  /\ outcome \in [Threads -> {"none", "ended", "timeout"}]
  /\ phase \in {"up", "stopping", "gone"}
  /\ targets \subseteq Threads
  /\ issued \in Seq(Refs)
  /\ accepted \subseteq Refs
  /\ declined \subseteq Refs
  /\ answered \in [Refs -> Nat]
  /\ faults \in Nat

\* Two live task processes never belong to the same partition, whatever the
\* interleaving of submits, finishing threads and stale clearing.
OneTaskPerCommand ==
  \A t, u \in Threads :
    HasProcess(t) /\ HasProcess(u) /\ Name(t) = Name(u) => t = u

\* A queue holds commands of its own partition.
QueuesAtHome ==
  \A p \in Partitions : \A i \in DOMAIN queues[p] : CmdName[queues[p][i].cmd] = p

\* The inductive form.  A thread in flight holds its partition's _running entry,
\* which names it or nobody, so that stale clearing never takes it for dead; it
\* is alone in its partition; only a thread that will still wait has a process.
Ownership ==
  /\ \A t \in Threads : InFlight(t) =>
       running[Name(t)].busy /\ running[Name(t)].thread \in {None, t}
  /\ \A t, u \in Threads :
       InFlight(t) /\ InFlight(u) /\ Name(t) = Name(u) => t = u
  /\ \A t \in Threads : HasProcess(t) => pc[t] \in {"spawned", "waiting"}

\* A ref that submit took is in the buffer, in the drain, in a queue or with a
\* thread that has yet to report, and not answered; after the report it has had
\* its one supervisor.stopped event; only a dead thread can take it away.  A
\* caller that was answered with supervisor.skipped has no task and hears no
\* supervisor.stopped.
Tracked(r) ==
  \/ r \in RefsOf(pending) \/ r \in RefsOf(draining)
  \/ \E p \in Partitions : r \in RefsOf(queues[p])
  \/ \E t \in Threads : /\ r \in RefsIn(task[t])
                        /\ pc[t] \in {"starting", "open", "spawned", "failed", "waiting"}
Lost(r) == \E t \in Threads : pc[t] = "dead" /\ r \in RefsIn(task[t])
NoRefLost ==
  /\ \A r \in accepted : IF Tracked(r) THEN answered[r] = 0
                          ELSE answered[r] = 1 \/ Lost(r)
  /\ \A r \in declined : r \notin accepted /\ answered[r] = 0

\* enforce_deadlines and cancel look for a task in _active: whoever waits for its
\* process is there under its own ref, and no task is recorded as timed out that
\* was not over its cap, whatever ended or started beside it.
DeadlinesHitTheirTasks ==
  \A t \in Threads :
    /\ pc[t] = "waiting" => active[Primary(t)] = t
    /\ outcome[t] = "timeout" => t \in overCap

\* What was accepted and not answered is with somebody who will come to it: start-up, the
\* drain, the thread that runs its entry, or the partition it is queued in, which has a
\* thread in flight or one whose death the next submit notices.  Only a thread that
\* died before its try block takes refs with it, and only one that died unregistered
\* leaves a partition that nobody comes round to.
Working(t) == pc[t] \in {"starting", "open", "spawned", "failed", "waiting"}
DiedUnregistered(t, p) ==
  /\ pc[t] = "dead" /\ Name(t) = p
  /\ running[p] = [busy |-> TRUE, ref |-> Primary(t), thread |-> None]
ComesRound(p) ==
  \/ \E t \in Threads : InFlight(t) /\ Name(t) = p
  \/ running[p].busy /\ Stale(p)
  \/ \E t \in Threads : DiedUnregistered(t, p)
Attended(r) ==
  \/ ~ready /\ r \in RefsOf(pending)
  \/ r \in RefsOf(draining)
  \/ \E t \in Threads : Working(t) /\ r \in RefsIn(task[t])
  \/ Lost(r)
  \/ \E p \in Partitions : r \in RefsOf(queues[p]) /\ ComesRound(p)
UnansweredAreAttended == \A r \in accepted : answered[r] = 0 => Attended(r)

\* Every accepted ref is answered, unless the supervisor stops.
EveryRefAnswered ==
  \A r \in Refs : (r \in accepted) ~> (answered[r] > 0 \/ phase # "up")

\* A task over its cap is ended, even while the supervisor is up for ever.
OverCapTaskEnds ==
  \A t \in Threads : (t \in overCap) ~> (~HasProcess(t) \/ phase # "up")

\* TaskQueue implements SerialExecutor: FIFO per partition with coalescing.
Entries(s) == [i \in DOMAIN s |-> [cmd |-> s[i].cmd, callers |-> RefsIn(s[i])]]
Runner(p) == CHOOSE t \in Threads : InFlight(t) /\ Name(t) = p
RunOf(t) == [cmd |-> task[t].cmd, callers |-> RefsIn(task[t]),
             ended |-> pc[t] \in {"reported", "retired"}]
Held == Entries(draining \o pending)
Current == [p \in Partitions |-> IF running[p].busy THEN RunOf(Runner(p)) ELSE None]
Waiting == [p \in Partitions |-> Entries(queues[p])]
Informed == {r \in Refs : answered[r] > 0}
Executor == INSTANCE SerialExecutor WITH
  Names <- Partitions, NameOf <- CmdName, Callers <- Refs, Nobody <- None,
  open <- ready, held <- Held, current <- Current, waiting <- Waiting, told <- Informed
SerialExecution == Executor!Spec
============================================================================
