---------------------------- MODULE CatchupState ----------------------------
(***************************************************************************)
(* Daily catch-up: which past days are thought about again, and when.      *)
(*                                                                         *)
(* catchup_state.py keeps a record per day and kind of command in          *)
(* health/catchup-state.json, which outlives the supervisor.  The          *)
(* supervisor's drains read it without a lock and submit                   *)
(* `journal think --day D`; the task thread that runs the command records  *)
(* the attempt and its outcome; the think process itself touches           *)
(* daily.updated when the day's work is done; sense and reprocess touch    *)
(* stream.updated at any time.                                             *)
(*                                                                         *)
(* The daily partition of the TaskQueue is used as SerialExecutor promises *)
(* it: one task, and a queue without duplicates.                           *)
(***************************************************************************)
EXTENDS Integers, Sequences, FiniteSets

CONSTANTS
  Days,         \* past days, in order
  OldDays,      \* days more than RETENTION_DAYS before the newest
  None,
  Threshold,    \* STUCK_THRESHOLD
  MaxDelay,     \* BACKOFF_MAX_SECONDS, in units of BACKOFF_BASE_SECONDS
  Delays,       \* the backoff delays in those units; the last one repeats
  MaxUpdated,   \* MAX_UPDATED_CATCHUP
  MaxNews,      \* bound: arrivals of data, marks and requests
  MaxFailures,  \* bound: runs that end without completing the day
  MaxStops,     \* bound: crashes and shutdowns of the supervisor
  MaxFaults,    \* bound: reads or writes of the state file that fail
  MaxHeld       \* bound: submissions buffered during startup

ASSUME DaysAssumption == Days \subseteq Nat /\ IsFiniteSet(Days) /\ OldDays \subseteq Days
ASSUME NoneAssumption ==
  /\ None \notin Nat
  /\ None \notin [attempts : Nat, misses : Nat, retry : Nat, stuck : BOOLEAN,
                   print : Nat \cup {None}, active : Nat \cup {None}]
ASSUME ParametersAssumption ==
  /\ Threshold \in Nat \ {0, 1} /\ MaxDelay \in Nat \ {0} /\ MaxUpdated \in Nat
  /\ MaxNews \in Nat /\ MaxFailures \in Nat /\ MaxStops \in Nat /\ MaxFaults \in Nat
  /\ MaxHeld \in Nat
\* _backoff_delay doubles up to the maximum.
ASSUME DelaysAssumption ==
  /\ Delays \in Seq(Nat) /\ Delays # <<>>
  /\ Delays[Len(Delays)] = MaxDelay
ASSUME DoublingAssumption ==
  \A n \in DOMAIN Delays :
    Delays[n] = IF 2^(n - 1) < MaxDelay THEN 2^(n - 1) ELSE MaxDelay

Kinds == {"catchup", "scratch"}
Actors == {"main", "bus"}        \* the supervise loop, the callosum thread
Commands == [day : Days, kind : Kinds]

VARIABLES
  stream,    \* mtime of stream.updated per day, 0 if absent
  daily,     \* mtime of daily.updated per day, 0 if absent
  raw,       \* the raw input of a day, as its fingerprint tells it apart
  recs,      \* catchup-state.json: per day and kind a record, or None
  phase,     \* the supervisor: down, or how far main has come
  held,      \* TaskQueue._pending
  current,   \* the daily partition's task, or the command of a process that
             \* outlived its supervisor, or None
  stage,     \* how far current's thread has come in _run_task
  proc,      \* its think process
  seen,      \* its locals: the [mark, print] that record_attempt read, or the
             \* notice that record_outcome's result asks for
  queue,     \* the daily partition's queue
  drain,     \* per actor, the days run_catchup_drain has still to submit
  announce,  \* notices that startup has still to give
  episode,   \* history: the number of a day's newest stuck episode
  notes,     \* history: notices given of that episode
  missed,    \* history: days whose notice of it went down with the supervisor
  overtaken, \* history: attempts in a day's record that startup took for
             \* interrupted ones while their thread had still to record the outcome
  news, failures, stops, faults

files == <<stream, daily, raw>>
partition == <<current, stage, proc, seen, queue>>
ghosts == <<episode, notes, missed, overtaken>>
counters == <<news, failures, stops>>
vars == <<files, recs, phase, held, partition, drain, announce, ghosts, counters, faults>>

Phases == {"down", "starting", "flushing", "announcing", "up"}
Stages == {"idle", "starting", "spawned", "reading", "waiting", "notifying", "leaving"}
Procs == {"none", "running", "finishing", "exited"}

\* retry is the time left until next_retry_at; stuck stands for entered_backoff_at
\* and notified_at, always set together; active is marker_mtime_at_start.
Record == [attempts : Nat, misses : Nat, retry : Nat, stuck : BOOLEAN,
           print : Nat \cup {None}, active : Nat \cup {None}]
NewRecord == [attempts |-> 0, misses |-> 0, retry |-> 0, stuck |-> FALSE,
              print |-> None, active |-> None]
Empty == [d \in Days |-> [k \in Kinds |-> None]]

\* A notice names its episode, as entered_backoff_at does.
Notices == [day : Days, episode : Nat]
Notice(d, n) == [day |-> d, episode |-> n]

----------------------------------------------------------------------------
(* Markers and records *)

\* day_is_complete; a day with nothing in stream.updated has nothing pending.
Complete(d) == stream[d] # 0 => daily[d] # 0 /\ stream[d] <= daily[d]

\* A touch of either marker is later than both.
Later(d) == 1 + IF stream[d] > daily[d] THEN stream[d] ELSE daily[d]

IsActive(r) == r # None /\ r.active # None
IsStuck(rs, d) == rs[d]["catchup"] # None /\ rs[d]["catchup"].stuck

\* _completed_daily: the marker has moved since the attempt began, if anyone
\* remembers when that was.
CompletedSince(d, mark) ==
  daily[d] # 0 /\ (mark \in {None, 0} \/ daily[d] > mark) /\ Complete(d)

\* _backoff_delay
Delay(n) == Delays[IF n < Len(Delays) THEN n ELSE Len(Delays)]

\* One more attempt that did not complete the day.
Missed(r) ==
  LET n == r.misses + 1
  IN  [r EXCEPT !.misses = n, !.retry = Delay(n), !.active = None,
                !.stuck = IF n >= Threshold THEN TRUE ELSE @]

\* _prune, before every write: cleared records of old days go.
Pruned(rs) ==
  [d \in Days |-> [k \in Kinds |->
     IF d \in OldDays /\ rs[d][k] # None /\ rs[d][k].active = None
        /\ rs[d][k].misses = 0 /\ ~rs[d][k].stuck
     THEN None ELSE rs[d][k]]]

\* _read_state_from_disk: a file that cannot be read is an empty state.
Loaded == {recs} \cup (IF faults < MaxFaults THEN {Empty} ELSE {})

\* The notice of a day's newest episode.
Latest(d) == Notice(d, episode[d])

\* Notices that main or the thread has still to give.
Pending == announce \cup (IF stage = "notifying" THEN {seen} ELSE {})

\* A stuck episode begins with the write that makes the day stuck.  It takes a new
\* number where a notice of the one before it is still to be given.
Episodes(rs) ==
  LET begun == {d \in Days : IsStuck(rs, d) /\ ~IsStuck(recs, d)}
  IN  /\ episode' = [d \in Days |-> IF d \in begun /\ Latest(d) \in Pending
                                   THEN episode[d] + 1 ELSE episode[d]]
      /\ notes' = [d \in Days |-> IF d \in begun THEN 0 ELSE notes[d]]
      /\ missed' = {d \in missed \ begun : IsStuck(rs, d)}

\* What startup overtook counts until a write leaves the day without a record.
Overtaken(rs, early) ==
  overtaken' = [d \in Days |-> (IF rs[d]["catchup"] = None THEN 0 ELSE overtaken[d])
                               + (IF d \in early THEN 1 ELSE 0)]

Saved(base, new, early) ==
  /\ recs' = Pruned(new)
  /\ faults' = IF base = recs THEN faults ELSE faults + 1
  /\ Episodes(recs') /\ Overtaken(recs', early)

\* _write_state raised; the caller logs it and goes on.
Unsaved(base) ==
  /\ base = recs /\ faults < MaxFaults
  /\ faults' = faults + 1
  /\ UNCHANGED <<recs, ghosts>>

\* Mutant: entered_backoff_at is not looked at.
EnteredAgain(base, new, d) == IsStuck(new, d)

\* entered_backoff: this write begins a stuck episode.
Entered(base, new, d) == IsStuck(new, d) /\ ~IsStuck(base, d)

----------------------------------------------------------------------------
(* The world outside the supervisor *)

Touch(d) == stream' = [stream EXCEPT ![d] = Later(d)]

\* sense: a live segment brings data and touches the marker; a batch segment
\* only brings data.
NewSegment(d, batch) ==
  /\ news < MaxNews /\ news' = news + 1
  /\ raw' = [raw EXCEPT ![d] = @ + 1]
  /\ IF batch THEN UNCHANGED stream ELSE Touch(d)
  /\ UNCHANGED <<daily, recs, phase, held, partition, drain, announce, ghosts,
                 failures, stops, faults>>

\* reprocess --mark-updated
MarkUpdated(d) ==
  /\ news < MaxNews /\ news' = news + 1
  /\ Touch(d)
  /\ UNCHANGED <<daily, raw, recs, phase, held, partition, drain, announce, ghosts,
                 failures, stops, faults>>

\* The think process touches daily.updated last, when no work was left.
Finish ==
  /\ proc = "running"
  /\ daily' = [daily EXCEPT ![current.day] = Later(current.day)]
  /\ proc' = "finishing"
  /\ UNCHANGED <<stream, raw, recs, phase, held, current, stage, seen, queue, drain,
                 announce, ghosts, counters, faults>>

Exit ==
  /\ \/ proc = "finishing" /\ UNCHANGED failures
     \/ proc = "running" /\ failures < MaxFailures /\ failures' = failures + 1
  /\ proc' = "exited"
  /\ UNCHANGED <<files, recs, phase, held, current, stage, seen, queue, drain,
                 announce, ghosts, news, stops, faults>>

\* One BACKOFF_BASE_SECONDS passes.
Tick ==
  /\ recs' = [d \in Days |-> [k \in Kinds |->
                IF recs[d][k] # None /\ recs[d][k].retry > 0
                THEN [recs[d][k] EXCEPT !.retry = @ - 1] ELSE recs[d][k]]]
  /\ UNCHANGED <<files, phase, held, partition, drain, announce, ghosts, counters,
                 faults>>

----------------------------------------------------------------------------
(* Submissions *)

\* A command that is queued already stays where it is.
Enqueued(cmd) == IF \E i \in DOMAIN queue : queue[i] = cmd THEN queue
                 ELSE Append(queue, cmd)

\* TaskQueue.submit for the daily partition.
Submit(cmd) ==
  \/ /\ phase = "starting" /\ Len(held) < MaxHeld
     /\ held' = Append(held, cmd)
     /\ UNCHANGED partition
  \/ /\ phase # "starting" /\ stage = "idle"
     /\ current' = cmd /\ stage' = "starting" /\ proc' = "none"
     /\ UNCHANGED <<held, seen, queue>>
  \/ /\ phase # "starting" /\ stage # "idle"
     /\ queue' = Enqueued(cmd)
     /\ UNCHANGED <<held, current, stage, proc, seen>>

\* day_eligible_to_drain
Eligible(d) ==
  LET r == recs[d]["catchup"]
  IN  \/ r = None
      \/ r.active = None /\ (r.retry = 0 \/ r.print # raw[d])

\* run_catchup_drain up to its submits: the freshest eligible pending days, and
\* the forced ones that are eligible.
ToDrain(forced) ==
  LET natural == {d \in Days : ~Complete(d) /\ Eligible(d)}
  IN  {d \in natural : Cardinality({e \in natural : e > d}) < MaxUpdated}
        \cup {d \in forced : Eligible(d)}

\* At midnight, on the main thread.
HandleDailyTasks ==
  /\ phase = "up" /\ drain["main"] = {}
  /\ drain' = [drain EXCEPT !["main"] = ToDrain({})]
  /\ UNCHANGED <<files, recs, phase, held, partition, announce, ghosts, counters, faults>>

\* A supervisor.drain message: a nudge, or one day from reprocess or an importer.
HandleDrain(forced) ==
  /\ phase # "down" /\ drain["bus"] = {}
  /\ \/ forced = {} /\ UNCHANGED news
     \/ forced # {} /\ news < MaxNews /\ news' = news + 1
  /\ drain' = [drain EXCEPT !["bus"] = ToDrain(forced)]
  /\ UNCHANGED <<files, recs, phase, held, partition, announce, ghosts, failures,
                 stops, faults>>

DrainSubmit(a) ==
  \E d \in drain[a] :
    /\ \A e \in drain[a] : d <= e
    /\ Submit([day |-> d, kind |-> "catchup"])
    /\ drain' = [drain EXCEPT ![a] = @ \ {d}]
    /\ UNCHANGED <<files, recs, phase, announce, ghosts, counters, faults>>

\* A supervisor.request for --from-scratch; _handle_task_request drops it while a
\* daily task has a process.
RequestFromScratch(d) ==
  /\ phase # "down" /\ drain["bus"] = {}
  /\ news < MaxNews /\ news' = news + 1
  /\ stage \notin {"spawned", "reading"} /\ (stage = "waiting" => proc = "exited")
  /\ Submit([day |-> d, kind |-> "scratch"])
  /\ UNCHANGED <<files, recs, phase, drain, announce, ghosts, failures, stops, faults>>

----------------------------------------------------------------------------
(* The task thread *)

Spawn ==
  /\ stage = "starting"
  /\ \/ /\ stage' = "spawned" /\ proc' = "running"
        /\ UNCHANGED failures
     \/ /\ failures < MaxFailures /\ failures' = failures + 1
        /\ stage' = "leaving"
        /\ UNCHANGED proc
  /\ UNCHANGED <<files, recs, phase, held, current, seen, queue, drain, announce,
                 ghosts, news, stops, faults>>

\* record_attempt reads the marker and the raw input before it takes the lock.
ReadAttempt ==
  /\ stage = "spawned"
  /\ stage' = "reading"
  /\ seen' = [mark |-> daily[current.day], print |-> raw[current.day]]
  /\ UNCHANGED <<files, recs, phase, held, current, proc, queue, drain, announce,
                 ghosts, counters, faults>>

Started(r, k) ==
  LET print == IF k = "catchup" THEN seen.print ELSE None
      kept == IF k = "catchup" /\ r.print # print
              THEN [r EXCEPT !.misses = 0, !.stuck = FALSE, !.retry = 0] ELSE r
  IN  [kept EXCEPT !.attempts = @ + 1, !.print = print, !.active = seen.mark]

\* set_ready has released the first tasks a few statements before main reconciles:
\* their attempts may be recorded before, or after.
RecordAttempt ==
  /\ stage = "reading"
  /\ stage' = "waiting"
  /\ seen' = None
  /\ \E base \in Loaded :
       LET d == current.day
           k == current.kind
           r == IF base[d][k] = None THEN NewRecord ELSE base[d][k]
       IN  Saved(base, [base EXCEPT ![d][k] = Started(r, k)], {}) \/ Unsaved(base)
  /\ UNCHANGED <<files, phase, held, current, proc, queue, drain, announce, counters>>

\* The exit status plays no part for daily commands.
RecordOutcome ==
  /\ stage = "waiting" /\ proc = "exited"
  /\ \E base \in Loaded :
       LET d == current.day
           k == current.kind
           r == IF base[d][k] = None THEN NewRecord ELSE base[d][k]
           done == CompletedSince(d, r.active)
           new == IF done THEN [base EXCEPT ![d] = Empty[d]]
                  ELSE IF k = "catchup" THEN [base EXCEPT ![d][k] = Missed(r)]
                  ELSE [base EXCEPT ![d][k] = [r EXCEPT !.active = None]]
       IN  \/ /\ Saved(base, new, {})
              /\ IF Entered(base, new, d)
                 THEN stage' = "notifying" /\ seen' = Notice(d, episode'[d])
                 ELSE stage' = "leaving" /\ UNCHANGED seen
           \/ Unsaved(base) /\ stage' = "leaving" /\ UNCHANGED seen
  /\ UNCHANGED <<files, phase, held, current, proc, queue, drain, announce, counters>>

\* _emit_catchup_backoff; the notice of an episode that is over is no other's.
Notified(n) ==
  /\ notes' = IF n = Latest(n.day) THEN [notes EXCEPT ![n.day] = @ + 1] ELSE notes
  /\ UNCHANGED <<episode, missed, overtaken>>

Notify ==
  /\ stage = "notifying"
  /\ stage' = "leaving"
  /\ Notified(seen) /\ seen' = None
  /\ UNCHANGED <<files, recs, phase, held, current, proc, queue, drain, announce,
                 counters, faults>>

ProcessNext ==
  /\ stage = "leaving"
  /\ proc' = "none"
  /\ \/ /\ queue # <<>>
        /\ current' = Head(queue) /\ queue' = Tail(queue) /\ stage' = "starting"
     \/ /\ queue = <<>>
        /\ current' = None /\ stage' = "idle" /\ UNCHANGED queue
  /\ UNCHANGED <<files, recs, phase, held, seen, drain, announce, ghosts, counters,
                 faults>>

----------------------------------------------------------------------------
(* The life of the supervisor *)

\* main begins by sweeping the processes a dead supervisor left behind.
Boot ==
  /\ phase = "down"
  /\ phase' = "starting"
  /\ current' = None /\ proc' = "none"
  /\ UNCHANGED <<files, recs, held, stage, seen, queue, drain, announce, ghosts,
                 counters, faults>>

SetReady ==
  /\ phase = "starting"
  /\ phase' = "flushing"
  /\ UNCHANGED <<files, recs, held, partition, drain, announce, ghosts, counters, faults>>

FlushHeld ==
  /\ phase = "flushing" /\ held # <<>>
  /\ \/ /\ stage = "idle"
        /\ current' = Head(held) /\ stage' = "starting" /\ UNCHANGED queue
     \/ /\ stage # "idle"
        /\ queue' = Enqueued(Head(held))
        /\ UNCHANGED <<current, stage>>
  /\ held' = Tail(held)
  /\ UNCHANGED <<files, recs, phase, proc, seen, drain, announce, ghosts, counters, faults>>

\* Mutants: nothing is reconciled; attempts long ended are interrupted too.
ReconciledNothing(d, rs) == rs
ReconciledEnded(d, rs) ==
  IF rs["catchup"] = None THEN rs ELSE [rs EXCEPT !["catchup"] = Missed(@)]

\* One day of reconcile_interrupted_attempts.
Reconciled(d, rs) ==
  IF \A k \in Kinds : ~IsActive(rs[k]) THEN rs
  ELSE IF Complete(d) THEN Empty[d]
  ELSE [k \in Kinds |->
          IF ~IsActive(rs[k]) THEN rs[k]
          ELSE IF k = "catchup" THEN Missed(rs[k])
          ELSE [rs[k] EXCEPT !.active = None]]

\* Every active record counts as interrupted, also that of an attempt which a
\* task of this supervisor has recorded already.
ReconcileInterruptedAttempts ==
  /\ phase = "flushing" /\ held = <<>>
  /\ phase' = "announcing"
  /\ \E base \in Loaded :
       LET new == [d \in Days |-> Reconciled(d, base[d])]
           early == {d \in Days : /\ stage = "waiting"
                                  /\ current = [day |-> d, kind |-> "catchup"]}
       IN  \/ /\ new = base
              /\ faults' = IF base = recs THEN faults ELSE faults + 1
              /\ UNCHANGED <<recs, announce, ghosts>>
           \/ /\ new # base
              /\ Saved(base, new, early)
              /\ announce' = {Notice(d, episode'[d]) : d \in {e \in Days : Entered(base, new, e)}}
           \/ new # base /\ Unsaved(base) /\ UNCHANGED announce
  /\ UNCHANGED <<files, held, partition, drain, counters>>

AnnounceTransition ==
  \E n \in announce :
    /\ announce' = announce \ {n}
    /\ Notified(n)
    /\ UNCHANGED <<files, recs, phase, held, partition, drain, counters, faults>>

StartupDrain ==
  /\ phase = "announcing" /\ announce = {}
  /\ phase' = "up"
  /\ drain' = [drain EXCEPT !["main"] = ToDrain({})]
  /\ UNCHANGED <<files, recs, held, partition, announce, ghosts, counters, faults>>

\* A crash, or a shutdown that gives the thread no time for its outcome.  A
\* process may live on until the next Boot.
Stop ==
  /\ phase # "down" /\ stops < MaxStops
  /\ stops' = stops + 1
  /\ phase' = "down"
  /\ held' = <<>> /\ queue' = <<>> /\ stage' = "idle" /\ seen' = None
  /\ drain' = [a \in Actors |-> {}]
  /\ announce' = {}
  /\ missed' = missed \cup {d \in Days : Latest(d) \in Pending}
  /\ UNCHANGED <<files, recs, current, proc, episode, notes, overtaken, news, failures,
                 faults>>

----------------------------------------------------------------------------
\* Each day has data to think about; the first supervisor is about to start.
Init ==
  /\ stream = [d \in Days |-> 1]
  /\ daily = [d \in Days |-> 0]
  /\ raw = [d \in Days |-> 0]
  /\ recs = Empty
  /\ phase = "down"
  /\ held = <<>> /\ queue = <<>>
  /\ current = None /\ stage = "idle" /\ proc = "none" /\ seen = None
  /\ drain = [a \in Actors |-> {}]
  /\ announce = {}
  /\ missed = {}
  /\ episode = [d \in Days |-> 0] /\ notes = [d \in Days |-> 0]
  /\ overtaken = [d \in Days |-> 0]
  /\ news = 0 /\ failures = 0 /\ stops = 0 /\ faults = 0

World == \E d \in Days : (\E b \in BOOLEAN : NewSegment(d, b)) \/ MarkUpdated(d)
Drains ==
  \/ HandleDailyTasks
  \/ \E forced \in {{}} \cup {{d} : d \in Days} : HandleDrain(forced)
  \/ \E a \in Actors : DrainSubmit(a)
  \/ \E d \in Days : RequestFromScratch(d)
Thread ==
  Spawn \/ ReadAttempt \/ RecordAttempt \/ RecordOutcome \/ Notify \/ ProcessNext
Startup ==
  \/ Boot \/ SetReady \/ FlushHeld \/ ReconcileInterruptedAttempts
  \/ AnnounceTransition \/ StartupDrain

Next == World \/ Finish \/ Exit \/ Tick \/ Drains \/ Thread \/ Startup \/ Stop
Spec == Init /\ [][Next]_vars

\* Midnight comes, time passes, threads and main proceed, a stopped supervisor
\* is started again, and a run ends one way or the other (its cap sees to that).
Fairness ==
  /\ WF_vars(Startup \/ HandleDailyTasks \/ DrainSubmit("main"))
  /\ WF_vars(Thread) /\ WF_vars(Finish \/ Exit) /\ WF_vars(Tick)
FairSpec == Spec /\ Fairness
----------------------------------------------------------------------------
(* Properties *)

\* Type correctness; a supervisor that is down has no thread.
TypeOK ==
  /\ stream \in [Days -> Nat] /\ daily \in [Days -> Nat] /\ raw \in [Days -> Nat]
  /\ recs \in [Days -> [Kinds -> Record \cup {None}]]
  /\ phase \in Phases
  /\ held \in Seq(Commands) /\ queue \in Seq(Commands)
  /\ current \in Commands \cup {None}
  /\ stage \in Stages /\ proc \in Procs
  /\ stage # "idle" => current \in Commands
  /\ proc \in {"running", "finishing"} => current \in Commands
  /\ phase = "down" => stage = "idle" /\ \A a \in Actors : drain[a] = {}
  /\ seen \in [mark : Nat, print : Nat] \cup Notices \cup {None}
  /\ stage = "reading" => seen \in [mark : Nat, print : Nat]
  /\ stage = "notifying" => seen \in Notices
  /\ drain \in [Actors -> SUBSET Days]
  /\ announce \subseteq Notices /\ missed \subseteq Days
  /\ episode \in [Days -> Nat] /\ notes \in [Days -> Nat]
  /\ overtaken \in [Days -> Nat]
  /\ news \in Nat /\ failures \in Nat /\ stops \in Nat /\ faults \in Nat

\* Once startup has reconciled, only the running attempt makes a day ineligible:
\* no attempt of a dead supervisor wedges a day for good.  An outcome that could
\* not be written may (PendingDayCompletes fails then).
ActiveHasAttempt ==
  faults = 0 /\ phase \in {"announcing", "up"} =>
    \A d \in Days, k \in Kinds :
      IsActive(recs[d][k]) =>
        stage = "waiting" /\ current = [day |-> d, kind |-> k]

\* The owner is told once per stuck episode, and is told, unless the supervisor
\* stopped between the write and the notification.
OneNoticePerEpisode ==
  \A d \in Days :
    /\ notes[d] <= 1
    /\ IsStuck(recs, d) =>
         notes[d] = 1 \/ Latest(d) \in Pending \/ d \in missed

\* "stuck after N attempts": as long as the file could be read and written, a day
\* has no more misses than attempts, but one for each attempt that startup took
\* for an interrupted one while its own thread had still to record the outcome.
MissesAreAttempts ==
  faults = 0 => \A d \in Days : recs[d]["catchup"] # None =>
    recs[d]["catchup"].misses <= recs[d]["catchup"].attempts + overtaken[d]

\* A pending day is completed in the end.
PendingDayCompletes == \A d \in Days : ~Complete(d) ~> Complete(d)
=============================================================================
