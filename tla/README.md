# TLA+ models of the solstone processing core

This directory holds TLA+ specifications of the part of solstone that decides
*what runs, when, and what is remembered of it*: the supervisor with its task
queue, services, scheduler and daily catch-up; the Callosum bus between the
processes; Sense, which turns new files into segments; Cortex, which runs the
talents; and the chat runtime on top of it. The specifications are translated from
the Python source, model-checked with TLC on small instances, and their
safety properties are proved with TLAPS for all values of the constants.
`PROJECT.json` lists the runs, the lines each definition models, the mutants each
property is tested with, the hazards, the findings and the theorems.

To repeat a run: `tlc -config Sense.cfg SenseMC.tla`; to repeat the proofs of a
component: `tlapm SenseProofs.tla`.

1. [Inventory](#1-inventory)
2. [Modules](#2-modules)
3. [Runs and bounds](#3-runs-and-bounds)
4. [Fairness](#4-fairness)
5. [Proofs](#5-proofs)
6. [Findings](#6-findings)
7. [Not modelled](#7-not-modelled)
8. [What could come next](#8-what-could-come-next)

## 1. Inventory

solstone captures audio and screens into a *journal*, a directory tree by day,
stream and segment. One **supervisor** process runs everything else as child
processes: the **Callosum** bus (in the supervisor itself), **sense** (per-file
handlers), **Cortex** (AI talents), **convey** (the web UI, with the chat runtime in
it), a local model server, and on-demand tasks such as `journal think --day D`.
Components talk through Callosum messages (`tract`, `event`, fields) over a Unix
socket, and through files in the journal. Nothing is transactional: the bus may
drop, a process may die at any line.

| Component | State | Operations | What is hard | Correct when |
|---|---|---|---|---|
| Task queue (`supervisor.py`) | `_running`, `_queues`, `_active`, `_cap_terminated`, `_pending`, `_ready` under one lock | `submit`, `set_ready`, `_run_task`, `_process_next`, `enforce_deadlines`, `cancel`, `shutdown`; before it `_handle_task_request` | the callosum thread, the main loop and one daemon thread per task; a thread that dies; refs from a millisecond clock | one task per command name; nobody who asked is forgotten or told twice; nothing stays queued without a runner |
| Service lifecycle (`supervisor.py`) | `procs`, `_managed_procs`, `_SERVICE_STATE` | launch at startup, `handle_runner_exits`, `restart` and `start_local` requests, `handle_shutdown`, the `finally` of `main` | sleeps between seeing an exit and relaunching; requests on the bus thread meanwhile; a signal anywhere | a service is on a list or about to be, has one child, comes back after an exit, and is gone when the supervisor is |
| Process runner (`runner.py`) | process, pipes, output threads | `spawn`, `wait`, `terminate` (SIGTERM, then SIGKILL), `cleanup` | process groups, late output | terminate ends the process |
| Daily catch-up (`catchup_state.py`, the drains of `supervisor.py`) | `health/catchup-state.json`: attempts, misses, backoff, stuck notice per day; `stream.updated` and `daily.updated` of each day | `record_attempt`, `record_outcome`, `reconcile_interrupted_attempts`, the drains | unlocked reads, markers touched by other processes, a crash between any two writes | every pending day is completed in the end, its owner hears of a stuck day once per episode, no crash wedges a day |
| Scheduler (`scheduler.py`) | the marks of the last looks, `health/scheduler.json` | `init`, `catch_up`, `check`; the write-back in `supervisor.py` | edge-triggered looks, requests that travel over the bus, records written by the threads of several partitions | what is due is run, or known to be on its way |
| Callosum (`callosum.py`) | server: clients and a bounded queue; client: send queue, receive buffer, connection | `emit`, the client loop, `_handle_client`, `broadcast`, `_writer_loop`, `start`, `stop` | half-written lines, full queues, reconnection in mid-message | all listeners hear messages in one order, whole, at most once |
| Sense (`observe/sense.py`) | `segment_files`, `_day`, `_batch`, `_stream`, `_errors`; a pool per handler; running handlers | `_handle_callosum_message`, `_handle_file`, `_run_handler`, `_check_segment_observed`, `stop` | handlers end in any order on threads of their own; keys without stream or day | a segment is announced once, after its last file, with its errors; `stop` returns |
| Cortex (`cortex.py`, `cortex_client.py`) | a log per use, `<use>_active.jsonl` until renamed; `running_uses`; a process, two monitors and a timer per use | `_handle_request`, `_spawn_subprocess`, the monitors, `_timeout_talent`, `start`, `stop`; `wait_for_uses` | four threads write or rename one log by path; broadcasts are lost; a crash leaves logs active | a use runs once and ends with one log that says how; who waits is told what the log says |
| Chat runtime (`convey/chat.py`, `chat_stream.py`) | the current turn, the trigger queue, active talents, watchdogs; the day's chat log | `POST /api/chat`, Cortex's finish and error, timeouts, recovery | spawns outside the lock that decided on them, late reports of retried or timed-out uses, restarts, midnight | every trigger gets one turn and every turn one end; a talent ends once and gives its slot back |
| Segment flush (`supervisor.py`) | `_flush_state`, five fields without a lock | `_handle_segment_observed`, `_check_segment_flush` | two threads | the last segment is flushed once |
| Sync check (`sync_check.py`) | heartbeat files in a synchronised folder | `write_self_heartbeat`, `check_journal_sync` | two writers, delayed files | at most one writer goes on |
| Activity state machine | current activities per facet | a fold over segments | day boundaries, gaps | records do not overlap |
| Think pipeline (`thinking.py`) | the day's markers | one run per day, segment or activity | ends with or without touching `daily.updated` | touches it only when the work was done |
| Indexer, journal I/O, entities, importers, providers, transcription, backup, link, spl, push, pairing, the other apps of convey | files and external services | | data and I/O rather than protocol | |

How they interact: Sense hears `observe.observing` and announces
`observe.observed`, on which the supervisor submits a segment run to the task
queue; the drains, the scheduler and requests on the bus submit the other tasks;
think runs and the chat runtime ask Cortex for uses; everything is heard over
Callosum. Each model takes what its neighbours promise as its environment:
`CatchupState` uses the daily partition as `SerialExecutor` promises it,
`Cortex` listeners may miss any broadcast, as `LossyBus` allows, and `Scheduler`
may lose requests.

Every component has a row in `PROJECT.json` with its status; the hazards there
name the line where each kind of trouble bites and the property that would show it.

## 2. Modules

| Module | What it is |
|---|---|
| `TaskQueue`, `SerialExecutor` | the task queue and its processes; what it promises, abstractly (`Executor == INSTANCE ...`) |
| `CatchupState` | the catch-up records, the markers and the drains |
| `Scheduler` | the schedule, its requests, its tasks and their write-back |
| `Services` | the long-running children |
| `Callosum`, `LossyBus` | server and clients; what they promise, abstractly (`Bus == INSTANCE ...`) |
| `Sense` | segments, files and handlers |
| `Cortex` | uses, logs and callers |
| `Chat` | turns, talents, watchdogs and the chat log |
| `...MC` | instances for TLC |
| `...Proofs` | theorems and their proofs |

Definitions marked "Mutant" in their comment are plausible bugs that no
specification uses: the variants `PROJECT.json` substitutes to show that each
property can fail. Variables marked "history" are read by properties only.

### TaskQueue

One action is one critical section of `TaskQueue._lock`, or one step of a task
thread between two of them.

| Code | Model |
|---|---|
| `_running[name]` | `running[p]`: busy, ref, thread (registered late, in `Register`) |
| `_queues[name]`, refs of coalesced callers | `queues[p]`, sequences of `[cmd, refs]` |
| `_active[ref]` | `active[r]`: the thread whose process it is |
| `_pending`, the local list of `set_ready` | `pending`, `draining` |
| a request between its check of `_active` and `submit` | `request` |
| program counter of a task thread | `pc`: starting, open (inside `try`), spawned, waiting, reported, retired, done; `failed` when spawn raised, `dead` when it died before `try` |
| `ManagedProcess` | `proc`: none, running, signalled, exited |
| `submit` | `SubmitDirect`, `SubmitRequest`, `DrainOne`: `Stale`, then `Coalesce`, `Enqueue` or `Start` |
| `_run_task` | `Register`, `Spawn`, `Activate`, `Report`, `Retire`, `ProcessNext`, `Die` |
| `enforce_deadlines`, `shutdown` | `EnforceDeadlines`; `BeginShutdown`, `EndShutdown` |

Starting a thread is folded into the critical section that decided it, since a
new thread first takes the lock. `StartFails` is `Thread.start` raising.
`supervisor.stopped` is sent for every ref of an entry: `answered` counts.
`SameMs` says whether two submissions may fall in one millisecond and draw one ref;
the runs exclude it (section 6).

### CatchupState

The daily partition of the task queue is used as `SerialExecutor` promises it
(one task, a queue without duplicates). A marker's mtime is a number, a touch
makes it later than both markers (`Later`). `recs` is the file; `retry` the time
to `next_retry_at`, counted down by `Tick` in units of the base delay; `print`
stands for `raw_fingerprint`, and `raw` for what it hashes. `record_attempt` is
two actions, `ReadAttempt` (marker and fingerprint, before the lock) and
`RecordAttempt`; `run_catchup_drain` is a computation of the days (`ToDrain`) and
one `DrainSubmit` per day, per actor (main loop, callosum thread). A read of the
state file that fails yields an empty state, which the next write makes real; a
write that fails is logged and forgotten (`Loaded`, `Unsaved`).

`phase` follows `main`: starting (submissions are buffered), flushing
(`set_ready`), announcing (the reconciliation's stuck notices), up. A task that
`set_ready` has released may record its attempt before the reconciliation, a few
statements later, has run, and then counts as interrupted although it runs:
`overtaken` remembers such attempts. `episode` numbers a day's stuck episodes and
`notes` counts the notices of the newest one; a notice names its episode, as
`entered_backoff_at` does, and one that an overtaken attempt leaves behind may come
when its episode is over (section 6).

### Scheduler

Time is counted in periods of each entry, since only the order of a run's end and
a boundary matters: `mark[e]` is the current period, `lastRun[e]` (the file) the
one in which its last recorded run ended, `seen[e]` the one at the last look.

| Code | Model |
|---|---|
| `init`, `catch_up`, `check`, `_is_due`, `_submit_entry` | `Start`, `CatchUp`, `Check`, `Due`, `Submit` |
| `supervisor.request` on its way | `requests`; `Receive` is `_handle_task_request` with `submit`, `Lose` a broken connection |
| a partition's task | `run[p]`: starting, active, ended (`ended_at` taken), recording (holds `_SCHEDULER_JSON_LOCK`), recorded |
| `_record_scheduler_completion` | `ReadState`, `WriteState`, `WriteFails` |
| `_handle_think_daily_complete` | `SubmitExtra`: a command submitted without the entry's name |
| restart of the supervisor | `Crash`, `Start` |

`missed` remembers the entries whose run of this period was dropped: by
`_handle_task_request`, by a lost request, by coalescing onto a task without a
scheduler name, by a failed write.

### Services

One action is a step of `main`, of the callosum thread or of the signal handler,
between two points where another of them can see the difference. A child is its
number in `launched`; `procs` is the list the loop watches, `stale` the list that
`_managed_procs` names until `main` assigns it, `order` the order in which children
were listed, since `_restart_service` looks at the first of a name only; `new` and
`extra` are children spawned and not yet listed, by `main` and by `start_local`.
`stage` is where `main` is: boot (launching), armed (before the `try`), loop,
stopping, closing (the `finally`), stopped, or cut off by a signal before the `try`.
`orphans` are the children that no list will ever hold: spawned when a signal came,
or put on the list of the startup. Backoffs are waits of any length.

### Callosum

A message is a line; `recv` and a failing `sendall` cut lines anywhere, so a line
travels in two parts, head and tail. Connections are numbered; `up[k]` and
`down[k]` are the bytes under way, `side[k]` the server's end (in the backlog, in
`clients`, closed). A glued line, the head of one message and the tail of another,
is no JSON and is dropped (`Whole`). `log` numbers the messages the writer has begun to
send; `heard[c]` is what a client's callback got, as places in it. The writer closes
the connections whose send failed, `dead`, after it has written to all (`WriterDone`).

### Sense

One action is one critical section of `self.lock`, or one step between two of them
that another thread can tell. `pending` is `segment_files`, keyed by the segment's
name (`KeyOf`), as in the code; `owner` stands for `segment_day` and
`segment_batch`, which are written together; `stream` for `segment_stream`, which
`_handle_callosum_message` writes without the lock. The message being handled is
`listener`: `Receive`, `PreRegister`, `HandleFile` per file, `CloseMessage`. A
file's `job` goes from queued through taken, spawned and running (in
`running_handlers`) to reported (the segment has been looked at) and done;
`retrying` is the second run on the CPU. A touch of the day marker that fails is
swallowed (`Touch`; `untouched` remembers it). `stop` is `BeginStop`, `StopBus`,
`CancelJobs`, `Snapshot`, `Terminate`, `StopEndsPools`.

### Cortex

| Code | Model |
|---|---|
| the two log files of a use | `active[u]`, `done[u]`: the sequence of events, or `None` |
| what the talent will print | `pipe[u]`, drawn from `Outputs` at `Spawn`; only finish and error lines, terminal or not, are told apart |
| `_handle_request`, `_spawn_subprocess`, `_write_error_and_complete` | `Accept`, then `handling`: `Spawn`, or `SpawnFails` and `CompleteUse` |
| `_monitor_stdout` | `LogEvent`, `EmitEvent`, `Reap`, `LogNoFinish`, `Rename`, `Release` |
| `_monitor_stderr` | `Stderr` |
| `_timeout_talent` | `Timeout`, `LogTimeout`, `EndTalent` |
| `start`, SIGINT, SIGTERM, `stop`, SIGKILL | `Start`, `Recover`, `CompleteRecovered`, `Recovered`; `RequestShutdown`, `ExitIdle`; `Stop`, `StopTalent`, `Stopped`; `Quit`, `Crash` |
| `wait_for_uses` | `Listen` (start the listener), `Link` (it connects), `FirstCheck`, `Heard`, `LastCheck` |

`open(path, "a")` creates a missing file (`Appended`), `rename` replaces what is
there (`Complete`): both matter, see section 6. `stop()` holds the lock
throughout, so the steps of other threads that take it wait (`phase # "stopping"`).
After `start()` has returned the interpreter waits for the timers, the only
threads that are not daemons (`closing`, `leaving`, `Quit`). The thread of the bus is
given half a second by `stop()` and goes on with the requests it has received for as
long as the process lasts (`Listening`); how many there are only `MaxRequests` bounds.

Assumptions of this model: two requests carry one use id only while that use has
not ended (ids are drawn from a millisecond clock by each client process); a
broadcast reaches a connected listener at once or, when `Lossy`, perhaps not at
all; a talent that outlives Cortex prints to nobody (`gone`); SIGTERM during the
recovery is covered by `Crash`; reads, writes and renames of logs succeed; a spawn
fails before the process is tracked (after `cortex.py:353` only the start of a thread
can fail), and is one step.

### Chat

A trigger is an owner's message or the end of a talent; a *turn* runs the chat
generator for one trigger. A turn is named by its trigger and its number among that
trigger's turns, a talent by the turn that dispatched it, so names say where
things come from and nothing else.

| Code | Model |
|---|---|
| `post_chat`: look at the queue, append to the log, queue the turn | `Check`, `Record`, `Post` |
| `_activate_or_enqueue_trigger_locked`, `_clear_current_locked`, `_promote_deferred_spawn_locked`, `_register_talent_spawn_locked` | `Offer`, `ClearCurrent`, `Promoted`, `Register` |
| the spawns after a locked section (`_run_next_action`) | `jobs`: a thread with the rest of its actions; `SpawnChat`, `SpawnTalent`, `Arm` and their failures |
| `_on_cortex_finish`, `_on_cortex_error` | `Retry`, `Reply`, `Dispatch`, `Fail`, `ReportUnwritten`, `TalentReport`, `Drop` |
| `threading.Timer`, the watchdog handlers | `Expire`; `ChatTimeout`, `TalentTimeout`, `StaleTimeout` |
| `_recover_chat_if_needed`; the process and the day end | `Recover`; `Restart`, `Midnight` |
| `reduce_chat_state` and the other readers of the day's log | `trigger`, `owned`, `spawned`, `rootless`, `deferred` |

The callosum thread handles one message to its end (`BusIdle`). `rootless` are
talents whose root message the day's log does not hold, which the recovery cannot take
back. The runtime reads today's log only, so a `Midnight` empties the queue of deferred
talents: one that waits then is never promoted (`chat.py:1305-1347`) and stays
without an end. `asked` and `left` remember every talent that a turn asked for and
those that a midnight or a restart leaves behind; the properties speak of the former
and name the latter as their exception.

## 3. Runs and bounds

| Run | Instance | States | What it shows |
|---|---|---|---|
| `task_queue` | two commands of one partition and one of another, 3 submissions, 1 task over its cap, 1 dead thread, buffered startup | 1.8 M | tasks are serialized, each caller is kept and told once, deadlines hit their tasks, whoever waits waits for somebody who comes round |
| `task_queue_live` | one partition, 3 submissions, every task may outlive its cap | | each accepted ref is answered; over-cap tasks end; the refinement of `SerialExecutor` |
| `catchup_state` | 1 day, past retention, 1 arrival of data, mark or from-scratch request, 1 failing run, 1 crash, 1 buffered submission, 1 failed access to the state file (an arrival and a failed access not both in one behaviour: `MCNewsOrFault`) | 2.1 M | one notice per episode, misses among attempts and overtaken ones, no wedged day before the failure |
| `catchup_live` | 1 day, new data or a from-scratch request, 1 failing run, 1 crash | 1.3 M | the day is completed in the end |
| `scheduler` | a daily and an interval entry and one submitted without its name, 2 partitions, 2 periods, 1 fault | 170 k | what is due is accounted for; records are kept; interval entries run again; a start catches up |
| `services` | two services, one the local server, 4 events (exits, failed launches, requests) and a signal or a conflict | 716 k | no child out of sight, no service forgotten, one child each, nothing left after a stop, each comes back |
| `callosum` | two clients, one of which sends, a server queue of 1, 3 connections, 2 faults | 113 k | order, no duplicates, the refinement of `LossyBus`; delivery without faults; reconnection |
| `sense` | two segments, four files, one worker per handler, one batch segment, one handler with a second run, 1 file that vanishes, 1 touch of a marker that fails, `stop` at any point | 204 k | events after the last file, with their errors, markers touched or the touch swallowed, every segment announced, `stop` returns |
| `cortex` | 1 use, 2 requests, five outputs, losses, 2 crashes or shutdowns | 251 k | logs, owners, answers, one run per use, completion, shutdown |
| `chat` | 1 message with up to 2 turns per trigger, 1 talent at a time, a queue of 1, a midnight, and a restart, session request or failed write | 955 k | turns and talents end, once, with their own answers, but for what a midnight or a restart leaves |
| `services_signal`, `chat_wedged` | the smallest instance with the behaviour | | a counterexample each, see [Findings](#6-findings) |

**Why these bounds.** *TaskQueue*: partitions only share the lock, `_pending` and
the refs, so two of them, one with two commands, show all interference; three
submissions are a running task, a queued one and one that coalesces with it,
overtakes it or is queued behind it; one dead thread suffices to leave a stale entry
behind a live queue. *CatchupState*: the threshold is 2 misses, reached by a failing
run and a crash, or by one run that a startup overtakes; the day is an old one, so
that `_prune` drops its cleared record; one arrival is new data, a mark or a
from-scratch request, and `MCNewsOrFault` keeps it out of the behaviours in which an
access to the file fails: `MissesAreAttempts` and `ActiveHasAttempt` only speak of
behaviours without a failure, and `OneNoticePerEpisode`, which the two together could
concern, is proved for both at once (`NoticedOnce`). Days share the partition, its queue and the file, and every
property speaks of one day. The delay is one unit: the doubling is
`DelaysAssumption`, which `BackoffMeasured` builds on, and the cut at
`MAX_UPDATED_CATCHUP` takes a second day, which only the theorems cover.
*Scheduler*: two periods are a boundary while a run of the period before is under
way; two partitions make two writers; two requests on their way are as many as there
are entries. *Services*: four events are, for instance, an exit during a relaunch
that fails while a `start_local` is warming; the local server is the one service
that may be launched on the callosum thread, all others are alike. *Callosum*: one
sender with two messages, heard by itself and by the other client, fills both
queues; three connections let a client reconnect and the other one too; two faults
are a half-written line and a restart of the server after it. *Sense*: segments of
different names share only pools and the main thread; a file that no handler wants,
one that vanishes and a second run cover the ways around a handler. *Cortex*: uses
share only the lock, `running_uses` and `handling`; one use with two requests, five
outputs (nothing; a finish; a terminal error; a nonterminal error, alone or before a
finish) and two stops shows the late appends, the recovery of a log that a late
append made anew, and a crash during the recovery. *Chat*: one message yields a
turn, its talent, the turns that the talent's end and a recovery offer, so that
turns wait while one is in progress and a talent is deferred behind another; with
the midnight a deferred talent or a running one is left behind. That talents left by
a restart hold every slot of the day (`SlotsAreLeft`, an exception of
`EveryTalentEnds`) takes more turns than the run has. The theorems of section 5 lift
the invariants and action properties to any number of everything.

`MaxSubmits`, `MaxLate`, `MaxFaults`, `MaxNews`, `MaxFailures`, `MaxStops`,
`MaxHeld`, `MaxRequests`, `MaxMark`, `MaxExtra`, `MaxEvents`, `MaxEmits`,
`MaxConns`, `MaxVanish`, `MaxUntouched`, `MaxTurns` and `MaxNights` bound the
environment, never the code: each limits how many inputs, faults, periods or
restarts a behaviour holds.

`CHECK_DEADLOCK FALSE` is set where the system may be idle with nothing left to ask
of it: Cortex, Sense, Chat, the scheduler at the end of its bounded time, services
after a stop, and the bus once its clients have left or said all they had to.
`TaskQueue` ends in a state that stutters explicitly (`Terminated`), and in
`CatchupState` the clock and the drains always go on. The runs check the properties
that several threads can break; the type invariants are proved (section 5).

## 4. Fairness

Weak fairness only, and only of what the code or the operating system drives.

* *Threads and main loops proceed.* Task threads, monitors, workers, timers that
  went off, the callosum thread in the middle of a message, the threads of clients
  and connections (their loops poll every 0.1 to 2 s), the supervise loop (every
  second), `Cortex.start` (likewise). Where a thread does two things in turn, as a
  Callosum client sends and receives, each has its own condition.
* *Tasks and children end, or are ended.* `TaskQueue` assumes nothing of a task that
  outlives its cap: `register_baseline_caps` and the default maximum runtime give
  each partition a cap, `enforce_deadlines` compares against it on every tick, and
  `terminate` sends SIGKILL after SIGTERM; so a task either ends or outlives its cap
  (`Outlive`) and is signalled. Likewise a Cortex talent need not end before it was
  signalled: every use has a timer. A Sense handler ends by itself or by its
  watchdog while the sensor is up; during `stop` nothing is asked of a handler that
  was not signalled. A service child ends only when it was signalled (`Obey`).
  `Scheduler` and `catchup_live` take over that a task ends, and the latter allows
  finitely many failing runs.
* *Timers go off*: chat's watchdogs, so that a turn ends although no use ever
  reports.
* *The supervisor, Cortex and convey are started again* where a liveness property
  speaks of a time after a crash (`Boot`, `Start`, `starting /\ Recover`,
  `ServerStarts`); midnight comes (`HandleDailyTasks`), time passes (`Tick`).

Nothing is assumed of requests, new data, messages, page loads, signals, crashes,
listeners, or the end of a well-behaved talent.

## 5. Proofs

All theorems hold for every value of the constants that satisfies the named
assumption of the module, which says little more than that sets are disjoint,
bounds are numbers and `None` is none of the values it is compared with. TLC
evaluates each assumption in the runs that use the module. `TypeCorrect` in each
proof module is the type invariant.

The theorems are of two kinds. Most state an invariant, an action property or a
refinement that a run checks on a small instance. The others go beyond the runs and
name their formula in the table: they close an exception that a run's property makes
(`OneIsLeft`, `MissesBounded`), say what a process leaves when it ends
(`StopEndsTalents`), or are the safety core of a liveness property: what must be
true in every state for fairness to do the rest. A fair scheduler cannot answer a
caller that is in nobody's hands (`NobodyForgotten`), end a talent that nobody
remembers (`TalentsKept`), complete a day whose backoff has no end
(`EveryDayIsDue`), or deliver a broadcast that was skipped (`NothingSkipped`). TLC
agreed with each before it was proved, on the instances of section 3: `task_queue`
with `SameMs`, `callosum` with two senders and a larger server queue, `scheduler`
also with one partition for both entries.

| Theorem | Says |
|---|---|
| `TaskQueueProofs!TypeCorrect` | Every reachable state of the task queue is well typed, for any commands, partitions and bounds. |
| `TaskQueueProofs!Serialized` | Two live task processes never belong to one partition, for any number of commands, partitions, submissions and dying threads. |
| `TaskQueueProofs!RefsKept` | As long as no two submissions have drawn one ref, no accepted ref is lost or answered twice but by a dying thread, and a declined one is never answered, for any number of submissions, partitions and faults. |
| `TaskQueueProofs!DeadlinesHit` | As long as no two submissions have drawn one ref, whoever waits for its process is in _active under its own ref, and only a task over its cap is recorded as timed out. |
| `TaskQueueProofs!QueueIsSerialExecutor` | Every behaviour in which no two submissions draw one ref and no thread dies before its try block is one of SerialExecutor: every step of the threads is a step of the executor or a stutter. |
| `TaskQueueProofs!NobodyForgotten` | An accepted ref without an answer is in the startup buffer before set_ready, with the drain, with a thread that runs its task, with a thread that died before its try block, or in the queue of a partition that comes round: a thread of it is in flight, or dead and noticed by the next submit, unless one died unregistered. Equal refs included. The safety core of EveryRefAnswered. |
| `CatchupProofs!TypeCorrect` | Every reachable state of the catch-up is well typed, for any set of days, thresholds and bounds. |
| `CatchupProofs!NoWedge` | As long as no access to catchup-state.json has failed, a record is active after startup only while its own attempt runs: no crash wedges a day. |
| `CatchupProofs!NoticedOnce` | The journal is told of a wedged day once per stuck episode and is told unless the supervisor stopped between write and notice, over any number of crashes and failed accesses to the file, and with attempts recorded before startup has swept it. |
| `CatchupProofs!MissesCounted` | As long as no access to the file failed, a day never counts more misses than attempts and attempts that a startup sweep took for interrupted ones while their thread had still to record the outcome, over any number of crashes. |
| `CatchupProofs!MissesBounded` | OvertakenOnce: a startup overtakes one attempt of a day at most, so that with MissesCounted misses outrun attempts by one for each startup at most. |
| `CatchupProofs!BackoffMeasured` | BackoffIsMeasured: a record is stuck exactly from its Threshold-th miss on and waits no longer than the delay of that miss, over crashes, sweeps, lost reads and writes. |
| `CatchupProofs!EveryDayIsDue` | DueAgain: after startup, and unless an access to the file failed, every day may be attempted, waits MaxDelay at most, or is being attempted: the safety core of PendingDayCompletes. |
| `CatchupProofs!MissesRemembered` | Unless an access to the file failed, no step forgets the misses of a day: it is complete, its raw input is new, or its record is still there with as many. |
| `CortexProofs!TypeCorrect` | Every reachable state of Cortex is well typed, for any uses, talent outputs and bounds. |
| `CortexProofs!Conclusive` | A completed log holds a finish or a terminal error, whoever completed it and however many crashes came before. |
| `CortexProofs!Owned` | While Cortex is up, an active log without a completed one has a handler, or a monitor and an entry in running_uses, for any number of uses. |
| `CortexProofs!OneRunPerUse` | A use id never gets a second talent process, for any number of requests that carry it and of restarts. |
| `CortexProofs!AnswersRecorded` | An error that a waiter heard is in the use's log through any number of stops and recoveries, and so is a finish before the first stop, for any talent output. |
| `CortexProofs!CompletedOnce` | CompletedLogsLast: nothing changes the events of a completed log, except the recovery of a log that a late append made anew. |
| `CortexProofs!TalentsTimed` | TalentsAreTimed: a talent at work is in running_uses, both its outputs are read, and it was given a timer unless it was signalled; the safety core of ClaimedUseCompletes and ShutdownEnds. |
| `CortexProofs!StopEndsTalents` | NoTalentAbandoned: stop() lets the lock go only when no talent is alive, whatever the callback loop goes on to accept after it, and a process that ends in good order leaves no talent behind that it has not signalled. |
| `ServicesProofs!TypeCorrect` | Every reachable state of the service lifecycle is well typed, for any set of services and number of events. |
| `ServicesProofs!Watched` | A live child is on a list that main watches, in main's or start_local's hands, or recorded as an orphan of a closed window: no other path loses one. |
| `ServicesProofs!ServicesAreKept` | While the loop runs, each service that was started is listed, being brought back, or was dropped by a failed launch. |
| `ServicesProofs!OneChild` | No service other than the local server ever has two live children, whatever exits and requests interleave. |
| `ServicesProofs!NothingIsLeft` | When the supervisor has stopped in an orderly way no child runs that is not an orphan. |
| `ServicesProofs!WritersWatched` | WritersAreWatched: before a shutdown every running child of a service other than the local server is in procs, the list that boot fills and the loop watches, or in the hands of whoever launches or waits for it, without exception. During boot _managed_procs still names the empty list it was made with: the theorem is about the list that replaces it. |
| `ServicesProofs!OneIsLeft` | AtMostOneIsLeft: what StopLeavesNothing excepts, a child launched when the signal came, is one at most among all services but the local server. |
| `SchedulerProofs!TypeCorrect` | Every reachable state of the scheduler is well typed, for any entries, partitions and bounds. |
| `SchedulerProofs!Accountable` | An overdue entry that check and catch_up have passed over has a request under way, a task that will record it, or a recorded fault that excuses it. |
| `SchedulerProofs!RecordsKept` | A write-back never takes another entry's newer run out of the file, whatever completions overlap. |
| `SchedulerProofs!OverdueWillRun` | Accounted: an overdue entry that was looked at has a request, a place in a queue or a run whose end will count for this very period, or its run was dropped; the safety core of OverdueIsCaughtUp and stronger than OverdueIsAccountedFor. |
| `SchedulerProofs!RecordedByRun` | RecordedByItsRun: an entry is recorded as run only by a task of its own that ended, as of the period in which it ended, whatever its writer read. |
| `SchedulerProofs!NoDuplicates` | OneTaskPerCommand: the queue of a partition holds a command once at most, however it is requested while it waits. |
| `CallosumProofs!TypeCorrect` | Every reachable state of the bus is well typed, for any clients, queue sizes and bounds. |
| `CallosumProofs!OneOrder` | Callosum implements LossyBus: there is one order of the broadcasts, and every client hears a subsequence of it. |
| `CallosumProofs!InOrder` | The messages a client sent on one connection are broadcast in the order in which it sent them, none twice, whatever is lost and whoever reconnects. |
| `CallosumProofs!HeardIsSent` | HeardWasSent: a callback is given only messages that were emitted and sent, none twice, and those of one connection in their sender's order, whatever is cut, dropped or restarted. |
| `CallosumProofs!NothingSkipped` | HearsEverything: as long as nothing fails, a client hears the broadcasts without a gap, and all that follow the first it heard are heard, on its connection or about to be written to it; the safety core of QueuedIsHeard. |
| `SenseProofs!TypeCorrect` | Every reachable state of the sensor is well typed, for any segments, files and handlers. |
| `SenseProofs!NothingForgotten` | A registered file that is still pending waits in the message, in a pool or in a handler, or is one that vanished, or the sensor is stopping: PendingIsWorkedOn. |
| `SenseProofs!AfterLastFile` | observed is emitted for a segment only when no handler works for it, if its name is its own. |
| `SenseProofs!FaithfulEvents` | An observed event names its own segment's stream and exactly its failed files, once, if the segment's name is its own. |
| `SenseProofs!MarkedWhenThrough` | When the entry of a live segment is gone its day is marked, or the touch of the marker failed and was swallowed, also when its event came too late to be sent, if its name is its own. |
| `SenseProofs!StoppedIsQuiet` | StopEndsHandlers: once stop() has emptied the pools no job waits, a handler that still runs was signalled, and when the sensor has stopped none runs. |
| `SenseProofs!EventsSent` | EventIsSent: the entry of a segment with a name of its own goes only with its observed event, unless the connection was stopped; the safety core of AnnouncedIsObserved. |
| `SenseProofs!MarkedLast` | MarkedAfterLastFile: a day is marked for a segment only when each of its handlers has reported, if its name is its own. |
| `ChatProofs!TypeCorrect` | Every reachable state of the chat runtime is well typed, for any messages, limits and bounds. |
| `ChatProofs!Kept` | No trigger is forgotten: its turn is in progress, waits once, is answered or failed in the log, or died with the process. |
| `ChatProofs!Watched` | The turn in progress has a watchdog unless the write of its answer failed: that failure is the only way to the state that chat_wedged shows. |
| `ChatProofs!Limited` | Dispatch, promotion and recovery together never have more than MaxActive talents of one day running in the log. |
| `ChatProofs!OneEnd` | A talent's report, its timeout and its failed spawn log one end between them, over restarts and recoveries. |
| `ChatProofs!OwnAnswer` | An answer is logged for the turn whose use gave it, however late, retried or superseded the report. |
| `ChatProofs!TalentsWatched` | TalentsAreWatched: a talent in the active set has its watchdog, running or gone off, or a thread that is about to arm it. |
| `ChatProofs!TalentsKept` | NoTalentForgotten: a talent that a turn asked for runs in the active set, waits for a slot, is about to be started, has its end in the log, or was left behind by a midnight or a restart; the safety core of EveryTalentEnds. |
| `ChatProofs!RunningTaken` | RunningAreActive: once a start has recovered, every talent that the log has as running is in the active set, but those of a day without an owner's message. |
| `ChatProofs!SlotsUsed` | NoIdleSlot: a talent waits only while MaxActive others run; whoever frees a slot hands it on. |

Each follows from an inductive invariant, `IInv` in the proof modules (TaskQueue:
`TypeOK` with `QueuesAtHome` and `Ownership`), shown to hold initially and to be
preserved by each action in a lemma of its own.

*TaskQueue.* That two processes never share a partition is not inductive: it says
nothing of the threads about to spawn one. `Ownership` does: a thread in flight
(from its start to the end of `_process_next`) holds its partition's `_running`
entry, which names it or nobody yet, and is alone in its partition; only a thread
in the middle of its run has a process. Hence `Stale`, which looks at the
registered thread only, is never true of a partition whose thread lives, and
`Start` happens only where no thread is in flight. `QueuesAtHome` (a queue holds
commands of its own partition) is needed for `_process_next`, which starts the
next entry under the name of the one that ended.

The refs need more. `Feeds` and `Books` say that each accepted ref is in exactly
one place (the startup buffer, the local list of `set_ready`, the request in hand, an
entry of a queue, a task) and that it has been answered exactly if the thread it is
with has reported: `Kept`, hence `NoRefLost`. `Marks` says the same of `active` and
the recorded timeouts, hence `DeadlinesHitTheirTasks`. Both rest on refs being
different, and with two equal refs the code breaks them (section 6). That is a
condition on the behaviour, `DistinctRefs`, not on the constants: issued refs are never
taken back, so a state in which they differ was reached through states in which they
differ, and the theorems hold of every behaviour up to the first collision
(`DistinctBefore`). `NobodyForgotten` needs no such condition: it asks only that an
unanswered ref is somewhere, not that it is in one place (`Found`), and that the
somewhere is attended: only a busy partition has a queue, and each busy one has a thread
that holds it (`Holds`), in flight or dead; a dead one that had registered makes the
entry stale for the next submit, one that had not leaves the partition as it is until
the supervisor ends. In the
refinement of `SerialExecutor` each partition's run is the task whose thread is in
flight (`RunOf`); `Owners`, one lemma per action for what becomes of the current run
(`CurrentKept`) and `Held`, `Waiting`, `Informed` for the callers show that every step
is a step of the executor or a stutter. It needs a behaviour without faults besides,
since a thread that dies before its `try` leaves a partition busy that runs nothing.

*CatchupState.* `ActiveHasAttempt` is inductive together with `TypeOK`: before the
reconciliation any record may be active, the reconciliation clears all of them (if
no access has failed), and after it only `RecordAttempt` makes one active, in the
stage that ends with `RecordOutcome`. For `OneNoticePerEpisode` the invariant says
who may still tell of a day: main and the thread have different notices (`Apart`),
each of an episode that has begun, and nobody has been told of that episode if it is
the newest (`Untold`). For `MissesAreAttempts` an active record has fewer misses
than attempts, so that the outcome or the reconciliation that ends it may count one
more. An attempt recorded before the reconciliation is counted there and again by
its outcome; so the invariant adds `overtaken`, for the record and for the attempt
that runs (`Counted`, `ToMiss`), and `MissesBounded` says how often that can be:
once for each startup. The backoff is a function of the misses (`Measured`), whoever
wrote the record and even after a failed access; with `ActiveHasAttempt` it gives
`EveryDayIsDue`. `MissesRemembered` is an action property: each operation's new
record is compared with the one it read (`Remembers`), through `_prune` too.

*Scheduler.* `Homes`: tasks are in the partition of their command, under the entry's
name or none. `Records`: the file is never ahead of the clock or of a run about to be
recorded, and what the writer read is still what the file says, because it holds the
lock. `Accounted` refines `OverdueIsAccountedFor`: an entry overdue after its look
has a request, a queued task, or a task whose end will count for this period; a task
whose `ended_at` was taken in the period before does not count, and the boundary
that made it so moved the entry away from its last look. `Records` also gives the
converse of `RecordsAreKept`: a blind writer's copy is empty and a sighted one's is the
file, so that only the entry that ran can gain.

*Services.* `Positions` says what `main`'s and the callosum thread's positions mean
for their variables. `Places`: what `main` launched stays known. `OnePlace`: of each
service but the local server at most one child runs, is listed or is in `main`'s
hands, and none while `main` is about to launch one; that `procs` keeps exited
children until `HandleExit` is what makes it inductive. `Kept` extends
`ServiceIsKept` to the startup, `Leaving` says who still has to be stopped.
`OrphansAreFew` says who the orphans are that `ChildrenAreWatched` and
`StopLeavesNothing` except: before a shutdown only local servers, and after it one
other child at most, the one `main` was launching when the signal came. TLC shows that
one to be reachable.

*Callosum.* `Fresh`: nothing has happened on a connection that is not made, and no
two clients share one. `Order`: on each connection places rise, all of them later
than what the client has heard and earlier than what the writer is about to send;
since a buffered head of one line and the tail of another are never taken for a
message, half-written lines cannot disturb it. From it every step is a step of
`LossyBus` or a stutter: the refinement is proved in full, `LossyBus` having no
fairness. `SentOnceInOrder` needs the way of a message in the other direction:
`Queued` (send queues rise), `Sent` (what a connection carried came before the
queue), `Unread` (lines not yet read are in the order of sending), `Broadcast` (`log
\o bq` has each message once, in the order of its connection, before what is
unread). What a client has heard are rising places of the log (`Ascending`), so that
`SentOnceInOrder` carries over to what its callback is given. `Steady` is the
invariant of a bus on which nothing has failed: each connection has its client and
is open or in the backlog, a connection holds whole lines (`Framed`), and from the
first place that is on its way to a client no later one is missing; a broadcast is
added for all accepted connections at once, and each move keeps it on its way. It
needs that the writer at work is told from the writer at rest (`NoneAssumption`).

*Sense.* `Pools` and `Jobs` say where a file can be, `Entries` that entries belong to
their name and that files still to be handled are registered. For a segment with a
name of its own, `Life` says that it is new, waiting or through: new, it has neither
entry nor errors; waiting, its entry holds exactly its files that are not through
and its errors are those of its failed handlers; through, it was announced once,
with them. The registration before the first handler starts is what makes this
inductive. `Settled` adds that an entry that is gone has been announced or the
connection was stopped before, since event, mark and clean-up are one section of the
lock (`_emit_segment_observed`). `StopEndsHandlers` follows the phases of `stop`:
cancelled pools take no job, and a worker that lists its handler after `_stopping` was set
ends it itself, so that whatever still runs is in the snapshot.

*Cortex.* `Ready`: a log about to be renamed (by the monitor, after a failed spawn,
by the recovery) already says how its use ended, which later appends cannot take
away. `Exclusive`: a use is in `running_uses` exactly as long as its monitor runs,
the use being handled is not among them, and the recovery is over before the first
request; so nobody renames a log under another thread. `Logged`: whoever may still
append to a log finds one, active or completed; so a late append never makes an
active log for a use that has no completed one. `RunOnce` needs `Fresh` besides: a
use that was spawned has a log, and a use about to be spawned has no talent and no
completed log. For `AnswerIsRecorded`, what is still to be broadcast is in the log
already; the recovery appends an error before it completes a log, and before the
first stop nothing is recovered, so that no finish is replaced. `NoTalentAbandoned`
rests on `TalentsAreTimed`: only `Spawn` begins a talent, under the same lock
under which `stop` ends them all, so that none is at work when `stop` returns. The
thread of the bus may still spawn talents from requests that it has received, but each
gets a timer, no daemon, so that the process does not end before it has ended or been
told to.

*Chat.* `Numbered`: a trigger's turns are numbered without gaps, so that a new turn
is new (this takes cardinalities of finite sets). `InTurn`: a turn in hand is
reserved and unanswered. `Talents` orders the stages of a talent (waits in the log,
is registered and about to be spawned, is spawned, has ended) and `Once` says that
one thread spawns it; so a late watchdog finds either the talent or nothing. The
theorem about the watchdog says that a failed write of an answer is the only way to
the state of the finding. A talent's slot is never lost: it has a watchdog or somebody
about to arm it (`TalentsAreWatched`), and whoever frees a slot promotes a waiting talent
in the same locked section (`Slots`). So the promotion at the end of the recovery has
nothing to do in the model: no restart finds a free slot beside a waiting talent.
`TalentsKept` follows them from the turn that asked: it adds (`Fate`) that each step
that takes a talent out of the queue, out of the active set or out of the log has
another place for it, or is the midnight or the restart that leaves it.

Only model-checked: the liveness properties (`EveryRefAnswered`, `OverCapTaskEnds`,
`PendingDayCompletes` and their like), since liveness under fairness is out of reach
of the proof system, and the two counterexamples of section 6. Every invariant and
action property of the passing runs is proved, under the assumptions named above. No
definition of a module that is proved about is recursive, and nothing is proved by
induction over data.

## 6. Findings

Each is a run that checks one sentence of the repository and finds it violated by
what the code does.

| Run | What happens |
|---|---|
| `services_signal` | `handle_shutdown` raises `KeyboardInterrupt` wherever `main` is, but only the `try` at `supervisor.py:2951` cleans up. A SIGTERM before it ends `main` with the services of the startup running and the server's thread alive; a second SIGTERM does nothing, since "cleanup is already in progress" (`supervisor.py:2675`). |
| `chat_wedged` | `_on_cortex_finish` cancels a turn's watchdog before it writes the answer. If the write raises, the turn stays current, unwatched, and every later message queues behind it until convey restarts. |

Seen while modelling, without a run of their own:

* *Refs.* Two submissions to different partitions in one millisecond draw one ref, the
  "unique correlation ID" of `runner.py:221`; the second task's `_active` entry
  replaces the first one's, whose process deadlines, `cancel` and `shutdown` no
  longer reach (`SameMs`).
* *Queueing.* `docs/CALLOSUM.md:51` says a request is queued when its command is
  already running. `_handle_task_request` answers it with `supervisor.skipped`
  instead; only a request that comes before the running task has entered `_active` is
  queued.
* *Day markers.* `reprocess --mark-updated` touches `stream.updated` so that
  `updated_days()` "re-queues the day" (`reprocess.py:96`). A think run that is going
  on touches `daily.updated` at its end (`thinking.py:3862`), later than the mark: the
  day counts as complete.
* *Catch-up.* An attempt recorded between `set_ready` and the reconciliation
  (`supervisor.py:2932`, `2945`) is counted as interrupted, and again when it ends, so
  that "stuck after N attempts" comes early; the stuck notice of that count may follow
  the end of its episode. A failed write in `record_outcome` leaves the record active and
  the day ineligible until the supervisor restarts.
* *Scheduler.* `journal schedule` shows "now" for a due entry whose request was
  skipped, though nothing repeats it before its next boundary. An unreadable
  `scheduler.json` at a write-back makes the write erase all other entries. A spawn that
  failed and a run that was terminated are recorded like one that succeeded. A
  request that coalesces onto a task submitted without a name is never recorded. Just
  after a start `catch_up` and `check` may both submit an entry.
* *Services.* `docs/PROVIDER_MATRIX.md:113` says the supervisor manages one
  `llama-server`; a `start_local` during startup or a backoff starts a second one
  (`supervisor.py:1508-1515`).
* *Callosum.* `callosum.py:359` clears the receive buffer at the end of a connection;
  after a failed send (323-334) it is kept, and the first message of the next
  connection is glued to it and lost.
* *Sense.* `docs/CALLOSUM.md:92` says that `stream` is forwarded from the originating
  event; it is written without the lock under the segment's name alone
  (`sense.py:717`), so two streams with segments of one name can exchange it.
* *Cortex.* `wait_for_uses` starts its listener before the initial check "to avoid race
  condition" (`cortex_client.py:173`), but `start` only starts the thread that
  connects: a finish between the check and the connection is missed. An error with
  `terminal: false` ends the wait though the talent goes on (`cortex_client.py:165`). A
  late append after the rename (`cortex.py:601`) makes a new active log, which the
  next start renames over the completed one, whose finish is gone.
  `_cortex_request_with_retry` retries on `None`, which `cortex_request` no longer
  returns. When Cortex leaves because it is idle, the interpreter still waits for the
  timers of uses that ended.
* *Chat.* A talent that is still deferred at midnight is never promoted, nor
  reported as failed: the promotion reads the new day's log (`chat.py:1305-1347`). A
  talent whose root message today's log does not hold is not taken back by a restart
  and holds its slot for the rest of the day. An owner's message may be answered
  twice: a page load between `Record` and `Post` finds it without an answer and
  starts a turn for it.

## 7. Not modelled

* *TaskQueue*: the queue events (`supervisor.queue`), the scheduler write-back (in
  `Scheduler`), logging; `cancel` needs no action of its own (it signals a process
  that may end at any time).
* *CatchupState*: records of kind segment, which no drain reads; `clear_day_backoff`,
  which has no caller.
* *Scheduler*: reload of the configuration, daylight saving time,
  `register_defaults`, the status display.
* *Services*: the length of backoffs and of the delay after a temporary failure, wedge
  detection (it sends the restart request that is modelled), the recovery nudge, the
  port file, the environment that a relaunch does not pass on, what goes on after
  `main` was cut off.
* *Callosum*: `callosum_send`, which is a client of one message, and the contents of
  messages.
* *Sense*: the batch mode `process_day`, status events, a worker that dies of an
  unexpected exception; a segment is announced to the sensor once at most.
* *Cortex*: day index, symlinks, token usage, status events, I/O errors on a log,
  `cortex_uses`; a spawn that fails after the process was created, whose process runs
  on untracked.
* *Chat*: support drafts and consent offers, declined offers, requests that Sol
  starts, the thinking buffer, the watchdog's refresh on progress, failed writes of
  other events than an answer.
* *Segment flush*: its race is a hazard of the list; what it submits is an ordinary
  task. *Sync check*: a heuristic over delays that nothing bounds, so that there is no
  safety property to check. *Activity state machine*: a sequential fold with one caller,
  for unit tests.
* *Outside*: data transformation (indexer, entities, importers, think prompts),
  media processing, model providers, network services, the other apps of the web UI.
  Their correctness is in data and I/O, not in protocol; where they touch a modelled
  part (a think run, an importer's drain request) they appear as its environment.

## 8. What could come next

In the order in which they would add most:

1. the order of the `supervisor.queue` events, which several threads send after
   they have released the lock;
2. the five unlocked fields of `_flush_state` between two threads: a flush that names
   the new segment with the old stream;
3. the chat runtime's support drafts and the requests that Sol starts, which share
   the trigger queue with what `Chat` models;
4. the batch mode of Sense.
