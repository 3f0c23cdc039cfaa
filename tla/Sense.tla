------------------------------- MODULE Sense -------------------------------
(***************************************************************************)
(* The file sensor, src/solstone/observe/sense.py: it is told of a new     *)
(* segment with its files (observe.observing), runs one handler process    *)
(* per media file on a pool of worker threads per handler, and announces   *)
(* the segment (observe.observed) after its last file.                     *)
(*                                                                         *)
(* Threads: the callosum thread, which runs _handle_callosum_message to    *)
(* its end for one message after another; the workers, which run           *)
(* _run_handler; the main thread, which runs stop.  One action is one      *)
(* critical section of self.lock, or one step between two of them that     *)
(* another thread can tell.                                                *)
(*                                                                         *)
(* Segment bookkeeping is keyed by the segment's name, HHMMSS_LEN, alone:  *)
(* KeyOf maps a segment (day, stream, name) to it, and two streams or two  *)
(* days may hold segments of one name.                                     *)
(***************************************************************************)
EXTENDS Naturals, Sequences, FiniteSets

CONSTANTS
    Segs,       \* segments, each of one day and one stream
    Keys,       \* segment names
    KeyOf,      \* [Segs -> Keys]
    Files,      \* the files that ingest saves
    FilesOf,    \* [Segs -> SUBSET Files]
    Handlers,   \* "transcribe", "describe", ...
    HandlerOf,  \* [Files -> Handlers \cup {None}], None: matches no pattern
    Batch,      \* segments that an importer announces as batch
    Workers,    \* [Handlers -> Nat], max_concurrent
    Retries,    \* handlers that run again on the CPU after exit code 134
    MaxVanish,  \* bound: files that are deleted before they are handled
    MaxUntouched, \* bound: segments whose marker could not be touched
    None

ASSUME SenseAssumption ==
    /\ KeyOf \in [Segs -> Keys]
    /\ FilesOf \in [Segs -> SUBSET Files]
    /\ \A s, t \in Segs : s # t => FilesOf[s] \cap FilesOf[t] = {}
    /\ HandlerOf \in [Files -> Handlers \cup {None}]
    /\ Workers \in [Handlers -> Nat \ {0}]
    /\ Batch \subseteq Segs /\ Retries \subseteq Handlers
    /\ MaxVanish \in Nat /\ MaxUntouched \in Nat
    /\ None \notin Segs /\ None \notin Handlers
    /\ \A todo \in SUBSET Files : todo # None
    /\ \A m \in [seg : Segs, step : {"register", "files"}, todo : SUBSET Files] :
          m # None

VARIABLES
    announced,  \* segments whose observing message has been delivered
    vanished,   \* files that no longer exist when their turn comes
    listener,   \* the message being handled: segment, step, files to go
    pending,    \* segment_files: files to wait for, None: no entry
    owner,      \* segment_day, segment_batch: whose message made the entry
    stream,     \* segment_stream: whose stream name was written last
    errors,     \* segment_errors: the files that had one
    job,        \* where each file's handler is
    pool,       \* the queue of each handler's thread pool
    cpu,        \* files whose handler runs for the second time (cpu_fallback)
    phase,      \* the main thread: up, then the steps of stop
    doomed,     \* the handlers that stop found running
    observed,   \* the observe.observed events sent, in order
    marked,     \* segments whose entry touched their day's stream.updated
    untouched,  \* history: segments whose touch failed, which nobody learns
    failed      \* history: files whose handler failed

vars == <<announced, vanished, listener, pending, owner, stream, errors, job,
          pool, cpu, phase, doomed, observed, marked, untouched, failed>>
table == <<pending, owner, stream, errors, observed, marked, untouched>>
stopping == <<phase, doomed>>

-----------------------------------------------------------------------------
(* Helpers *)

SegOf(f) == CHOOSE s \in Segs : f \in FilesOf[s]
FileKey(f) == KeyOf[SegOf(f)]

\* Mutant: every file of the message is waited for, matched or not.
MatchedAll(s) == FilesOf[s]

\* The files of a segment that match a registered pattern.
Matched(s) == {f \in FilesOf[s] : HandlerOf[f] # None}

JobStates == {"none", "queued", "taken", "retrying", "spawned", "running",
              "killed", "reported", "done", "cancelled"}
Phases == {"up", "stopping", "deaf", "cancelled", "terminating", "stopped"}
Steps == {"register", "files"}
Message == [seg : Segs, step : Steps, todo : SUBSET Files]
Event == [key : Keys, owner : Segs \cup {None},
          stream : Segs \cup {None}, errors : SUBSET Files]

\* The job's file has not been reported yet, and its worker will come to it.
AtWork == {"queued", "taken", "retrying", "spawned", "running", "killed"}

\* The sensor's callosum connection sends and receives until stop ends it.
BusUp == phase \in {"up", "stopping"}

\* The worker threads of a pool that are busy, one file each.
Busy(h) == {f \in Files : /\ HandlerOf[f] = h
                          /\ job[f] \in {"taken", "retrying", "spawned",
                                         "running", "killed", "reported"}}

\* The day of a live segment is marked for the daily run; a touch that fails is
\* passed over in silence.
Touch(seg) ==
    \/ marked' = marked \cup seg /\ UNCHANGED untouched
    \/ /\ Cardinality(untouched \cup seg) <= MaxUntouched
       /\ untouched' = untouched \cup seg /\ UNCHANGED marked

\* Mutant: the marker is touched only if the event went out.
EmitObservedOrNothing(k, errs) ==
    /\ observed' = IF BusUp
                   THEN Append(observed, [key |-> k, owner |-> owner[k],
                                          stream |-> stream[k],
                                          errors |-> errs])
                   ELSE observed
    /\ IF BusUp THEN Touch({owner[k]} \ Batch) ELSE UNCHANGED <<marked, untouched>>
    /\ pending' = [pending EXCEPT ![k] = None]
    /\ owner'   = [owner EXCEPT ![k] = None]
    /\ stream'  = [stream EXCEPT ![k] = None]
    /\ errors'  = [errors EXCEPT ![k] = {}]

\* _emit_segment_observed: announce the segment, touch its day's marker unless
\* the entry is a batch one, forget the entry.  Once the connection is stopped,
\* emit drops the event.
EmitObserved(k, errs) ==
    /\ observed' = IF BusUp
                   THEN Append(observed, [key |-> k, owner |-> owner[k],
                                          stream |-> stream[k],
                                          errors |-> errs])
                   ELSE observed
    /\ Touch({owner[k]} \ Batch)
    /\ pending' = [pending EXCEPT ![k] = None]
    /\ owner'   = [owner EXCEPT ![k] = None]
    /\ stream'  = [stream EXCEPT ![k] = None]
    /\ errors'  = [errors EXCEPT ![k] = {}]

\* Mutant: the error of the last file is noted after the event has gone out.
CheckObservedLate(f, bad) ==
    LET k == FileKey(f)
    IN  IF pending[k] = None
        THEN UNCHANGED table
        ELSE IF pending[k] \subseteq {f}
        THEN EmitObserved(k, errors[k])
        ELSE /\ pending' = [pending EXCEPT ![k] = @ \ {f}]
             /\ errors'  = [errors EXCEPT ![k] = @ \cup IF bad THEN {f} ELSE {}]
             /\ UNCHANGED <<owner, stream, observed, marked, untouched>>

\* _check_segment_observed: one file is through, with an error or without.
CheckObserved(f, bad) ==
    LET k == FileKey(f)
        errs == errors[k] \cup (IF bad THEN {f} ELSE {})
    IN  IF pending[k] = None
        THEN UNCHANGED table
        ELSE IF pending[k] \subseteq {f}
        THEN EmitObserved(k, errs)
        ELSE /\ pending' = [pending EXCEPT ![k] = @ \ {f}]
             /\ errors'  = [errors EXCEPT ![k] = errs]
             /\ UNCHANGED <<owner, stream, observed, marked, untouched>>

-----------------------------------------------------------------------------
(* The callosum thread: _handle_callosum_message and _handle_file *)

\* The message arrives; the stream's name is written without the lock.
Receive(s) ==
    /\ listener = None /\ BusUp
    /\ s \notin announced
    /\ announced' = announced \cup {s}
    /\ stream' = [stream EXCEPT ![KeyOf[s]] = s]
    /\ listener' = [seg |-> s, step |-> "register", todo |-> FilesOf[s]]
    /\ UNCHANGED <<vanished, pending, owner, errors, job, pool, cpu,
                   observed, marked, untouched, failed>>
    /\ UNCHANGED stopping

\* Mutant: the files are registered one by one, as they are handled.
PreRegisterNothing ==
    /\ listener # None
    /\ listener.step = "register"
    /\ LET s == listener.seg
           k == KeyOf[s]
       IN  /\ pending' = [pending EXCEPT ![k] = IF @ = None THEN {} ELSE @]
           /\ owner' = [owner EXCEPT ![k] = IF pending[k] = None THEN s ELSE @]
    /\ listener' = [listener EXCEPT !.step = "files"]
    /\ UNCHANGED <<announced, vanished, stream, errors, job, pool, cpu,
                   observed, marked, untouched, failed>>
    /\ UNCHANGED stopping

\* All files that will have a handler are registered before any is started.
PreRegister ==
    /\ listener # None
    /\ listener.step = "register"
    /\ LET s == listener.seg
           k == KeyOf[s]
       IN  /\ pending' = [pending EXCEPT ![k] =
                 (IF @ = None THEN {} ELSE @) \cup Matched(s)]
           /\ owner' = [owner EXCEPT ![k] = IF pending[k] = None THEN s ELSE @]
    /\ listener' = [listener EXCEPT !.step = "files"]
    /\ UNCHANGED <<announced, vanished, stream, errors, job, pool, cpu,
                   observed, marked, untouched, failed>>
    /\ UNCHANGED stopping

\* The file is in queued_handlers or in running_handlers.
InHand(f) == job[f] \in {"queued", "running", "killed", "reported"}

\* A file that is gone, an unmatched one, or any file during stop is passed
\* over; the others are queued for their handler.
HandleFile(f) ==
    /\ listener # None
    /\ listener.step = "files"
    /\ f \in listener.todo
    /\ listener' = [listener EXCEPT !.todo = @ \ {f}]
    /\ LET h == HandlerOf[f]
           k == FileKey(f)
       IN  IF f \in vanished \/ phase # "up" \/ h = None \/ InHand(f)
           THEN UNCHANGED <<job, pool, pending, owner>>
           ELSE /\ job' = [job EXCEPT ![f] = "queued"]
                /\ pool' = [pool EXCEPT ![h] = Append(@, f)]
                /\ pending' = [pending EXCEPT ![k] =
                      (IF @ = None THEN {} ELSE @) \cup {f}]
                /\ owner' = [owner EXCEPT ![k] =
                      IF pending[k] = None THEN SegOf(f) ELSE @]
    /\ UNCHANGED <<announced, vanished, stream, errors, cpu, observed,
                   marked, untouched, failed>>
    /\ UNCHANGED stopping

\* After the last file: a segment with nothing to wait for is announced.
CloseMessage ==
    /\ listener # None
    /\ listener.step = "files" /\ listener.todo = {}
    /\ LET k == KeyOf[listener.seg]
       IN  IF pending[k] = {}
           THEN EmitObserved(k, errors[k])
           ELSE UNCHANGED table
    /\ listener' = None
    /\ UNCHANGED <<announced, vanished, job, pool, cpu, failed>>
    /\ UNCHANGED stopping

\* Somebody deletes a saved file, with its stream or its day.
Vanish(f) ==
    /\ Cardinality(vanished) < MaxVanish
    /\ job[f] = "none" /\ f \notin vanished
    /\ vanished' = vanished \cup {f}
    /\ UNCHANGED <<announced, listener, job, pool, cpu, failed>>
    /\ UNCHANGED table /\ UNCHANGED stopping

Listener ==
    \/ PreRegister
    \/ \E f \in Files : HandleFile(f)
    \/ CloseMessage

-----------------------------------------------------------------------------
(* The workers: _run_handler *)

\* A free worker of the pool takes the oldest job.
Take(h) ==
    /\ pool[h] # <<>>
    /\ Cardinality(Busy(h)) < Workers[h]
    /\ job' = [job EXCEPT ![Head(pool[h])] = "taken"]
    /\ pool' = [pool EXCEPT ![h] = Tail(@)]
    /\ UNCHANGED <<announced, vanished, listener, cpu, failed>>
    /\ UNCHANGED table /\ UNCHANGED stopping

\* A job that starts after stop returns at once, its file still pending.
Abandon(f) ==
    /\ job[f] = "taken" /\ phase # "up"
    /\ job' = [job EXCEPT ![f] = "done"]
    /\ UNCHANGED <<announced, vanished, listener, pool, cpu, failed>>
    /\ UNCHANGED table /\ UNCHANGED stopping

MaySpawn(f) == job[f] = "retrying" \/ (job[f] = "taken" /\ phase = "up")

Spawn(f) ==
    /\ MaySpawn(f)
    /\ job' = [job EXCEPT ![f] = "spawned"]
    /\ UNCHANGED <<announced, vanished, listener, pool, cpu, failed>>
    /\ UNCHANGED table /\ UNCHANGED stopping

SpawnFails(f) ==
    /\ MaySpawn(f)
    /\ CheckObserved(f, TRUE)
    /\ job' = [job EXCEPT ![f] = "done"]
    /\ failed' = failed \cup {f}
    /\ UNCHANGED <<announced, vanished, listener, pool, cpu>>
    /\ UNCHANGED stopping

\* Mutant: the worker does not look for stop when it adds its process.
TrackAlways(f) ==
    /\ job[f] = "spawned"
    /\ job' = [job EXCEPT ![f] = "running"]
    /\ UNCHANGED <<announced, vanished, listener, pool, cpu, failed>>
    /\ UNCHANGED table /\ UNCHANGED stopping

\* The process enters running_handlers; a worker that finds the sensor
\* stopping in the same critical section terminates it and leaves.
Track(f) ==
    /\ job[f] = "spawned"
    /\ job' = [job EXCEPT ![f] = IF phase = "up" THEN "running" ELSE "done"]
    /\ UNCHANGED <<announced, vanished, listener, pool, cpu, failed>>
    /\ UNCHANGED table /\ UNCHANGED stopping

\* The process ends by itself, with success or with an error, or it outlives
\* the handler's cap and is terminated; then the segment is looked at.  A
\* process blocked on its provider ends like one that succeeded.
Finish(f, bad) ==
    /\ job[f] = "running"
    /\ CheckObserved(f, bad)
    /\ job' = [job EXCEPT ![f] = "reported"]
    /\ failed' = IF bad THEN failed \cup {f} ELSE failed
    /\ UNCHANGED <<announced, vanished, listener, pool, cpu>>
    /\ UNCHANGED stopping

\* stop() has ended the process, which the worker takes for an error.
FinishKilled(f) ==
    /\ job[f] = "killed"
    /\ CheckObserved(f, TRUE)
    /\ job' = [job EXCEPT ![f] = "reported"]
    /\ failed' = failed \cup {f}
    /\ UNCHANGED <<announced, vanished, listener, pool, cpu>>
    /\ UNCHANGED stopping

\* Exit code 134 of transcribe: out of running_handlers and, once, again on
\* the CPU.
Retry(f) ==
    /\ job[f] = "running" /\ HandlerOf[f] \in Retries
    /\ f \notin cpu
    /\ job' = [job EXCEPT ![f] = "retrying"]
    /\ cpu' = cpu \cup {f}
    /\ UNCHANGED <<announced, vanished, listener, pool, failed>>
    /\ UNCHANGED table /\ UNCHANGED stopping

\* The process leaves running_handlers and the worker is free again.
Leave(f) ==
    /\ job[f] = "reported"
    /\ job' = [job EXCEPT ![f] = "done"]
    /\ UNCHANGED <<announced, vanished, listener, pool, cpu, failed>>
    /\ UNCHANGED table /\ UNCHANGED stopping

Worker(f) ==
    \/ Abandon(f)
    \/ Spawn(f)
    \/ SpawnFails(f)
    \/ Track(f)
    \/ FinishKilled(f)
    \/ Leave(f)

\* How a handler process ends.
Ends(f) == Retry(f) \/ \E bad \in BOOLEAN : Finish(f, bad)

-----------------------------------------------------------------------------
(* The main thread: stop *)

BeginStop ==
    /\ phase = "up"
    /\ phase' = "stopping"
    /\ UNCHANGED <<announced, vanished, listener, job, pool, cpu, doomed,
                   failed>>
    /\ UNCHANGED table

StopBus ==
    /\ phase = "stopping"
    /\ phase' = "deaf"
    /\ UNCHANGED <<announced, vanished, listener, job, pool, cpu, doomed,
                   failed>>
    /\ UNCHANGED table

\* pool.shutdown(cancel_futures=True)
CancelJobs ==
    /\ phase = "deaf"
    /\ phase' = "cancelled"
    /\ job' = [f \in Files |-> IF job[f] = "queued" THEN "cancelled" ELSE job[f]]
    /\ pool' = [h \in Handlers |-> <<>>]
    /\ UNCHANGED <<announced, vanished, listener, cpu, doomed, failed>>
    /\ UNCHANGED table

Snapshot ==
    /\ phase = "cancelled"
    /\ phase' = "terminating"
    /\ doomed' = {f \in Files : job[f] \in {"running", "reported"}}
    /\ UNCHANGED <<announced, vanished, listener, job, pool, cpu, failed>>
    /\ UNCHANGED table

\* A handler that is still running is killed (SIGTERM, then SIGKILL).
Terminate(f) ==
    /\ phase = "terminating" /\ f \in doomed
    /\ doomed' = doomed \ {f}
    /\ job' = [job EXCEPT ![f] = IF @ = "running" THEN "killed" ELSE @]
    /\ UNCHANGED <<announced, vanished, listener, pool, cpu, phase, failed>>
    /\ UNCHANGED table

\* pool.shutdown(wait=True) returns when every worker has returned.
StopEndsPools ==
    /\ phase = "terminating" /\ doomed = {}
    /\ \A h \in Handlers : Busy(h) = {}
    /\ phase' = "stopped"
    /\ UNCHANGED <<announced, vanished, listener, job, pool, cpu, doomed,
                   failed>>
    /\ UNCHANGED table

Stop ==
    \/ StopBus
    \/ CancelJobs
    \/ Snapshot
    \/ \E f \in Files : Terminate(f)
    \/ StopEndsPools

-----------------------------------------------------------------------------
Init ==
    /\ announced = {} /\ vanished = {} /\ listener = None
    /\ pending = [k \in Keys |-> None]
    /\ owner   = [k \in Keys |-> None]
    /\ stream  = [k \in Keys |-> None]
    /\ errors  = [k \in Keys |-> {}]
    /\ job = [f \in Files |-> "none"]
    /\ pool = [h \in Handlers |-> <<>>]
    /\ cpu = {} /\ phase = "up" /\ doomed = {}
    /\ observed = <<>> /\ marked = {} /\ untouched = {} /\ failed = {}

Next ==
    \/ \E s \in Segs : Receive(s)
    \/ Listener
    \/ \E f \in Files : Vanish(f) \/ Worker(f) \/ Ends(f)
    \/ \E h \in Handlers : Take(h)
    \/ BeginStop
    \/ Stop

Spec == Init /\ [][Next]_vars

\* Threads go on.  A handler ends by itself or by its cap, so some end comes
\* as long as the sensor is up; during stop nothing is asked of a handler
\* that was not signalled.
Fairness ==
    /\ WF_vars(Listener)
    /\ \A f \in Files : WF_vars(Worker(f))
    /\ \A f \in Files : WF_vars(phase = "up" /\ Ends(f))
    /\ \A h \in Handlers : WF_vars(Take(h))
    /\ WF_vars(Stop)

FairSpec == Spec /\ Fairness

-----------------------------------------------------------------------------
(* Properties *)

\* Type correctness.
TypeOK ==
    /\ announced \subseteq Segs
    /\ vanished \subseteq Files
    /\ listener \in Message \cup {None}
    /\ pending \in [Keys -> (SUBSET Files) \cup {None}]
    /\ owner \in [Keys -> Segs \cup {None}]
    /\ stream \in [Keys -> Segs \cup {None}]
    /\ errors \in [Keys -> SUBSET Files]
    /\ job \in [Files -> JobStates]
    /\ pool \in [Handlers -> Seq(Files)]
    /\ cpu \subseteq Files
    /\ phase \in Phases
    /\ doomed \subseteq Files
    /\ observed \in Seq(Event)
    /\ marked \subseteq Segs /\ untouched \subseteq Segs
    /\ failed \subseteq Files

\* No other segment has this one's name.
Alone(s) == \A t \in Segs : KeyOf[t] = KeyOf[s] => t = s

\* Nothing is forgotten: a file that its segment waits for has a job, or its
\* turn in the message is still to come, or the file is gone, or the sensor is
\* stopping; and an entry that waits for nothing is closed by the message that
\* made it.
PendingIsWorkedOn ==
    \A k \in Keys : pending[k] # None =>
        /\ \A f \in pending[k] :
              \/ job[f] \in AtWork
              \/ f \in vanished
              \/ phase # "up"
              \/ listener # None /\ f \in listener.todo
        /\ pending[k] = {} => listener # None /\ KeyOf[listener.seg] = k

\* A segment is announced after the last of its files, not before: no handler
\* of an announced segment is queued, running or still to be asked for.
ObservedAfterLastFile ==
    \A i \in DOMAIN observed :
        LET s == observed[i].owner
        IN  Alone(s) => \A f \in Matched(s) : job[f] \in {"reported", "done"}

\* A segment with a name of its own is announced at most once, under its own
\* stream, with the errors of its handlers, all of them and no others.
EventIsFaithful ==
    \A i \in DOMAIN observed :
        LET s == observed[i].owner
        IN  Alone(s) =>
                /\ observed[i].stream = s
                /\ observed[i].errors = failed \cap FilesOf[s]
                /\ \A j \in DOMAIN observed : observed[j].owner = s => j = i

\* Data is not lost on the daily run: when a live segment's entry is gone, its
\* day is marked, also when its event came too late to be sent, unless the
\* marker could not be touched.
ThroughIsMarked ==
    \A s \in announced \ Batch :
        \/ ~ Alone(s)
        \/ pending[KeyOf[s]] # None
        \/ listener # None /\ listener.seg = s /\ listener.step = "register"
        \/ s \in marked \cup untouched

\* A segment that was announced to the sensor is announced by it in the end,
\* however its handlers end, unless the sensor stops or a file has gone.
AnnouncedIsObserved ==
    \A s \in Segs :
        s \in announced ~>
            \/ phase # "up"
            \/ FilesOf[s] \cap vanished # {}
            \/ \E i \in DOMAIN observed : observed[i].owner = s

\* stop() returns, whatever the handlers do that nobody signalled: a handler
\* spawned while stop is under way is found and ended by its own worker.
StopReturns == phase = "stopping" ~> phase = "stopped"

=============================================================================
