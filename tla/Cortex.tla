-------------------------------- MODULE Cortex --------------------------------
(***************************************************************************)
(* Cortex: one talent process per use, and the log of what it did.         *)
(*                                                                         *)
(* cortex.py takes requests from Callosum on one thread, claims a use by   *)
(* creating <use>_active.jsonl, spawns the talent and leaves it to three   *)
(* threads: _monitor_stdout appends and broadcasts its events and at last  *)
(* renames the log to <use>.jsonl, _monitor_stderr appends an error, and a *)
(* timer ends a talent that takes too long.  cortex_client.wait_for_uses   *)
(* answers from the broadcasts, and from the log as a backstop.            *)
(***************************************************************************)
EXTENDS Naturals, SequencesExt

CONSTANTS
  Uses,         \* use ids
  Outputs,      \* what a talent may print: sequences of Events
  None,
  Awaited,      \* uses that somebody waits for
  Lossy,        \* TRUE: a broadcast may miss a connected listener
  MaxRequests,  \* bound: requests that carry one use id
  MaxStops      \* bound: crashes and shutdowns of Cortex

\* What the code tells apart: "nonterminal" is an error event with terminal false.
Events == {"request", "nonterminal", "finish", "error"}
Verdicts == {"nonterminal", "finish", "error"}

\* A use in the hands of _handle_request or of the recovery, and what comes next.
Steps == [use : Uses, step : {"spawn", "complete", "recover"}]

ASSUME OutputsAssumption == Outputs \subseteq Seq(Verdicts) /\ <<>> \in Outputs
ASSUME NoneAssumption == None \notin Seq(Events) \cup Steps
ASSUME WaitAssumption == Awaited \subseteq Uses /\ Lossy \in BOOLEAN
ASSUME BoundsAssumption == MaxRequests \in Nat /\ MaxStops \in Nat

VARIABLES
  active,    \* per use <use>_active.jsonl: its events, or None
  done,      \* per use <use>.jsonl: its events, or None
  phase,     \* how far the Cortex process has come
  shutdown,  \* shutdown_requested
  handling,  \* the use in _handle_request or in the recovery, and the step there
  running,   \* running_uses
  child,     \* per use its talent process
  pipe,      \* per use what it printed or will print that nobody has read
  out,       \* per use the _monitor_stdout thread
  err,       \* per use the _monitor_stderr thread
  timer,     \* per use the timeout timer's thread
  wait,      \* per use a caller of wait_for_uses, and its answer
  linked,    \* per use: that caller's listener is connected
  asked, stops

logs == <<active, done>>
service == <<phase, shutdown, handling, running>>
threads == <<out, err, timer>>
waiter == <<wait, linked>>
vars == <<logs, service, child, pipe, threads, waiter, asked, stops>>

\* "closing" and "leaving": start() has returned after stop() or when idle, and the
\* interpreter waits for the timer threads, the only ones that are not daemons.
Phases == {"down", "recovering", "up", "stopping", "closing", "leaving"}
Answers == {"finish", "error", "timeout"}

----------------------------------------------------------------------------
(* Logs *)

\* open(..., "a") creates what is not there.
Appended(log, e) == IF log = None THEN <<e>> ELSE Append(log, e)
LogTo(u, e) == active' = [active EXCEPT ![u] = Appended(@, e)]

\* _complete_use_file: the rename replaces what was there.
Complete(u) ==
  /\ done' = [done EXCEPT ![u] = active[u]]
  /\ active' = [active EXCEPT ![u] = None]

\* _has_finish_event
HasFinish(log) == log # None /\ \E e \in {"finish", "error"} : e \in Range(log)

\* get_use_end_state: the last finish or error of the log _find_use_file finds.
UseFile(u) == IF done[u] # None THEN done[u] ELSE active[u]
EndState(u) ==
  LET log == UseFile(u)
      ends == {i \in DOMAIN log : log[i] \in Verdicts}
  IN  CASE log = None -> "unknown"
        [] log # None /\ ends = {} -> "running"
        [] OTHER -> IF log[Max(ends)] = "finish" THEN "finish" ELSE "error"

----------------------------------------------------------------------------
(* The caller *)

\* A broadcast of e ends the wait of a caller whose listener is connected.  After
\* stop() the thread of the bus drains its queue and ends, so it may send e or not.
Connected == phase \in {"up", "leaving"}
Heard(u, e) ==
  LET answer == IF e = "finish" THEN "finish" ELSE "error"
  IN  \/ /\ linked[u] /\ wait[u] \in {"listening", "waiting"}
         /\ wait' = [wait EXCEPT ![u] = answer] /\ linked' = [linked EXCEPT ![u] = FALSE]
      \/ /\ \/ ~Connected \/ ~linked[u] \/ wait[u] \notin {"listening", "waiting"}
            \/ Lossy
         /\ UNCHANGED waiter

\* wait_for_uses starts the listener, whose thread connects when it gets to it.
Listen(u) ==
  /\ u \in Awaited /\ wait[u] = "idle"
  /\ wait' = [wait EXCEPT ![u] = "listening"]
  /\ UNCHANGED <<logs, service, child, pipe, threads, linked, asked, stops>>

Link(u) ==
  /\ wait[u] \in {"listening", "waiting"} /\ ~linked[u]
  /\ linked' = [linked EXCEPT ![u] = TRUE]
  /\ UNCHANGED <<logs, service, child, pipe, threads, wait, asked, stops>>

Answer(u, otherwise) ==
  /\ LET end == EndState(u)
         answer == IF end \in {"finish", "error"} THEN end ELSE otherwise
     IN  /\ wait' = [wait EXCEPT ![u] = answer]
         /\ linked' = [linked EXCEPT ![u] = @ /\ answer = "waiting"]
  /\ UNCHANGED <<logs, service, child, pipe, threads, asked, stops>>

\* The initial file check, and the one after the timeout.
FirstCheck(u) == wait[u] = "listening" /\ Answer(u, "waiting")
LastCheck(u) == wait[u] = "waiting" /\ Answer(u, "timeout")

Waiter(u) == Listen(u) \/ Link(u) \/ FirstCheck(u) \/ LastCheck(u)

----------------------------------------------------------------------------
(* Requests: the Callosum thread *)

\* Step of handling a use.
At(u, step) == handling = [use |-> u, step |-> step]
To(u, step) == handling' = [use |-> u, step |-> step]

\* stop() gives the thread of the bus half a second, and it goes on with the requests
\* it has received; the first thing it does with one is to take the lock.
Listening == phase \in {"up", "leaving", "closing"}

\* Mutant: a request is taken whatever has become of its use.
AcceptAgain(u) ==
  /\ Listening /\ handling = None /\ asked[u] < MaxRequests /\ done[u] = None
  /\ asked' = [asked EXCEPT ![u] = @ + 1]
  /\ LogTo(u, "request") /\ To(u, "spawn")
  /\ UNCHANGED <<done, phase, shutdown, running, child, pipe, threads, waiter, stops>>

\* _handle_request up to the exclusive creation of the log.  Clients draw use ids
\* from the clock, each for itself, so two may draw the same one, but not once
\* the use they name is over.
Accept(u) ==
  /\ Listening /\ handling = None /\ asked[u] < MaxRequests /\ done[u] = None
  /\ asked' = [asked EXCEPT ![u] = @ + 1]
  /\ IF u \in running \/ active[u] # None
     THEN UNCHANGED <<active, handling>>
     ELSE LogTo(u, "request") /\ To(u, "spawn")
  /\ UNCHANGED <<done, phase, shutdown, running, child, pipe, threads, waiter, stops>>

\* _spawn_subprocess; printed is all that the talent would print.
Spawn(u) ==
  /\ At(u, "spawn") /\ phase # "stopping"
  /\ \E printed \in Outputs : pipe' = [pipe EXCEPT ![u] = printed]
  /\ child' = [child EXCEPT ![u] = "running"]
  /\ running' = running \cup {u}
  /\ timer' = [timer EXCEPT ![u] = "armed"]
  /\ out' = [out EXCEPT ![u] = "reading"] /\ err' = [err EXCEPT ![u] = "reading"]
  /\ handling' = None
  /\ UNCHANGED <<logs, phase, shutdown, waiter, asked, stops>>

\* The exception handler, _write_error_and_complete: it broadcasts nothing.
SpawnFails(u) ==
  /\ At(u, "spawn")
  /\ LogTo(u, "error") /\ To(u, "complete")
  /\ UNCHANGED <<done, phase, shutdown, running, child, pipe, threads, waiter, asked, stops>>

CompleteUse(u) ==
  /\ At(u, "complete")
  /\ Complete(u) /\ handling' = None
  /\ UNCHANGED <<phase, shutdown, running, child, pipe, threads, waiter, asked, stops>>

Handler(u) == Spawn(u) \/ SpawnFails(u) \/ CompleteUse(u)

----------------------------------------------------------------------------
(* The talent process *)

Alive(u) == child[u] \in {"running", "signalled"}

\* It prints as it goes, and may end before it has printed everything.
Exit(u) ==
  /\ Alive(u)
  /\ \E code \in {"ok", "failed"} : child' = [child EXCEPT ![u] = code]
  /\ \E printed \in Prefixes(pipe[u]) :
       /\ out[u] = "emitting" => printed # <<>>
       /\ pipe' = [pipe EXCEPT ![u] = printed]
  /\ UNCHANGED <<logs, service, threads, waiter, asked, stops>>

----------------------------------------------------------------------------
(* _monitor_stdout *)

\* Append the next event, under the lock that stop() holds throughout.
LogEvent(u) ==
  /\ out[u] = "reading" /\ pipe[u] # <<>> /\ phase # "stopping"
  /\ LogTo(u, Head(pipe[u]))
  /\ out' = [out EXCEPT ![u] = "emitting"]
  /\ UNCHANGED <<done, service, child, pipe, err, timer, waiter, asked, stops>>

\* Broadcast it; a finish or a terminal error ends the loop, after a look at the
\* request under the lock.
EmitEvent(u) ==
  /\ out[u] = "emitting"
  /\ phase = "stopping" => Head(pipe[u]) = "nonterminal"
  /\ LET e == Head(pipe[u])
     IN  /\ Heard(u, e)
         /\ IF e = "nonterminal"
            THEN out' = [out EXCEPT ![u] = "reading"] /\ pipe' = [pipe EXCEPT ![u] = Tail(@)]
            ELSE out' = [out EXCEPT ![u] = "leaving"] /\ pipe' = [pipe EXCEPT ![u] = <<>>]
  /\ UNCHANGED <<logs, service, child, err, timer, asked, stops>>

\* Mutant: nobody looks for a finish.
ReapUnchecked(u) ==
  /\ child[u] \in {"ok", "failed"}
  /\ out[u] = "leaving" \/ (out[u] = "reading" /\ pipe[u] = <<>>)
  /\ out' = [out EXCEPT ![u] = "renaming"]
  /\ UNCHANGED <<logs, service, child, pipe, err, timer, waiter, asked, stops>>

\* Mutant: the use is released before its log is complete.
ReapReleased(u) ==
  /\ child[u] \in {"ok", "failed"}
  /\ out[u] = "leaving" \/ (out[u] = "reading" /\ pipe[u] = <<>>)
  /\ out' = [out EXCEPT ![u] = IF HasFinish(active[u]) THEN "renaming" ELSE "failing"]
  /\ running' = running \ {u}
  /\ UNCHANGED <<logs, phase, shutdown, handling, child, pipe, err, timer, waiter, asked, stops>>

\* finally: wait for the process, then look for a finish in the log.
Reap(u) ==
  /\ child[u] \in {"ok", "failed"}
  /\ out[u] = "leaving" \/ (out[u] = "reading" /\ pipe[u] = <<>>)
  /\ out' = [out EXCEPT ![u] = IF HasFinish(active[u]) THEN "renaming" ELSE "failing"]
  /\ UNCHANGED <<logs, service, child, pipe, err, timer, waiter, asked, stops>>

LogNoFinish(u) ==
  /\ out[u] = "failing"
  /\ LogTo(u, "error")
  /\ out' = [out EXCEPT ![u] = "renaming"]
  /\ UNCHANGED <<done, service, child, pipe, err, timer, waiter, asked, stops>>

Rename(u) ==
  /\ out[u] = "renaming"
  /\ Complete(u)
  /\ out' = [out EXCEPT ![u] = "releasing"]
  /\ UNCHANGED <<service, child, pipe, err, timer, waiter, asked, stops>>

\* Mutant: the use stays in running_uses.
ReleaseNothing(u) ==
  /\ out[u] = "releasing" /\ phase # "stopping"
  /\ out' = [out EXCEPT ![u] = "none"]
  /\ UNCHANGED <<logs, service, child, pipe, err, timer, waiter, asked, stops>>

Release(u) ==
  /\ out[u] = "releasing" /\ phase # "stopping"
  /\ running' = running \ {u}
  /\ out' = [out EXCEPT ![u] = "none"]
  /\ UNCHANGED <<logs, phase, shutdown, handling, child, pipe, err, timer, waiter, asked, stops>>

Stdout(u) ==
  LogEvent(u) \/ EmitEvent(u) \/ Reap(u) \/ LogNoFinish(u) \/ Rename(u) \/ Release(u)

----------------------------------------------------------------------------
(* _monitor_stderr *)

\* stderr is closed: of a talent that failed and had complained, that is logged,
\* unless poll() finds the process not dead yet.
Stderr(u) ==
  /\ err[u] = "reading" /\ child[u] \in {"ok", "failed"}
  /\ \/ child[u] = "failed" /\ LogTo(u, "error")
     \/ UNCHANGED active
  /\ err' = [err EXCEPT ![u] = "none"]
  /\ UNCHANGED <<done, service, child, pipe, out, timer, waiter, asked, stops>>

----------------------------------------------------------------------------
(* _timeout_talent *)

\* is_running.  The end of a use does not cancel its timer.
Timeout(u) ==
  /\ timer[u] = "armed"
  /\ timer' = [timer EXCEPT ![u] = IF Alive(u) THEN "logging" ELSE "none"]
  /\ UNCHANGED <<logs, service, child, pipe, out, err, waiter, asked, stops>>

\* Mutant: the timeout is broadcast only.
LogTimeoutNowhere(u) ==
  /\ timer[u] = "logging"
  /\ timer' = [timer EXCEPT ![u] = "ending"]
  /\ UNCHANGED <<logs, service, child, pipe, out, err, waiter, asked, stops>>

LogTimeout(u) ==
  /\ timer[u] = "logging"
  /\ LogTo(u, "error")
  /\ timer' = [timer EXCEPT ![u] = "ending"]
  /\ UNCHANGED <<done, service, child, pipe, out, err, waiter, asked, stops>>

\* TalentProcess.stop
Signal(u) == child' = [child EXCEPT ![u] = IF @ = "running" THEN "signalled" ELSE @]

EndTalent(u) ==
  /\ timer[u] = "ending"
  /\ Heard(u, "error") /\ Signal(u)
  /\ timer' = [timer EXCEPT ![u] = "none"]
  /\ UNCHANGED <<logs, service, pipe, out, err, asked, stops>>

Timer(u) == Timeout(u) \/ LogTimeout(u) \/ EndTalent(u)

----------------------------------------------------------------------------
(* The service *)

\* start(): a new process appends an error to every log still active, renames
\* it, and only then listens.
Start ==
  /\ phase = "down"
  /\ phase' = "recovering" /\ shutdown' = FALSE
  /\ UNCHANGED <<logs, handling, running, child, pipe, threads, waiter, asked, stops>>

Recover(u) ==
  /\ phase = "recovering" /\ handling = None /\ active[u] # None
  /\ LogTo(u, "error") /\ To(u, "recover")
  /\ UNCHANGED <<done, phase, shutdown, running, child, pipe, threads, waiter, asked, stops>>

CompleteRecovered(u) ==
  /\ At(u, "recover")
  /\ Complete(u) /\ handling' = None
  /\ UNCHANGED <<phase, shutdown, running, child, pipe, threads, waiter, asked, stops>>

\* Mutant: what is still active is left as it is.
RecoveredNothing ==
  /\ phase = "recovering" /\ handling = None
  /\ phase' = "up"
  /\ UNCHANGED <<logs, shutdown, handling, running, child, pipe, threads, waiter, asked, stops>>

Recovered ==
  /\ phase = "recovering" /\ handling = None /\ \A u \in Uses : active[u] = None
  /\ phase' = "up"
  /\ UNCHANGED <<logs, shutdown, handling, running, child, pipe, threads, waiter, asked, stops>>

\* SIGINT: exit when idle.
RequestShutdown ==
  /\ phase = "up" /\ ~shutdown /\ stops < MaxStops
  /\ shutdown' = TRUE /\ stops' = stops + 1
  /\ UNCHANGED <<logs, phase, handling, running, child, pipe, threads, waiter, asked>>

ExitIdle ==
  /\ phase = "up" /\ shutdown /\ running = {}
  /\ phase' = "leaving"
  /\ UNCHANGED <<logs, shutdown, handling, running, child, pipe, threads, waiter, asked, stops>>

\* SIGTERM: stop() has the thread of the bus end, if it does in time, then takes the lock and ends the
\* talents one after the other.  A signal during the recovery is left to Crash.
Stop ==
  /\ phase \in {"up", "leaving"} /\ stops < MaxStops
  /\ phase' = "stopping" /\ stops' = stops + 1
  /\ UNCHANGED <<logs, shutdown, handling, running, child, pipe, threads, waiter, asked>>

\* One agent.stop(): it cancels the timer, and waits for the process to end.
StopTalent(u) ==
  /\ phase = "stopping" /\ u \in running
  /\ \A v \in running : child[v] # "signalled"
  /\ child[u] = "running" \/ timer[u] = "armed"
  /\ Signal(u)
  /\ timer' = [timer EXCEPT ![u] = IF @ = "armed" THEN "none" ELSE @]
  /\ UNCHANGED <<logs, service, pipe, out, err, waiter, asked, stops>>

Stopped ==
  /\ phase = "stopping" /\ \A u \in running : ~Alive(u) /\ timer[u] # "armed"
  /\ phase' = "closing"
  /\ UNCHANGED <<logs, shutdown, handling, running, child, pipe, threads, waiter, asked, stops>>

\* The process is gone, and its threads with it; a talent that outlives it has
\* nobody to read what it prints.
Gone ==
  /\ phase' = "down" /\ shutdown' = FALSE /\ handling' = None /\ running' = {}
  /\ child' = [u \in Uses |-> IF child[u] = "none" THEN "none" ELSE "gone"]
  /\ pipe' = [u \in Uses |-> <<>>]
  /\ out' = [u \in Uses |-> "none"] /\ err' = [u \in Uses |-> "none"]
  /\ timer' = [u \in Uses |-> "none"]
  /\ UNCHANGED <<logs, waiter, asked>>

Quit ==
  /\ phase \in {"closing", "leaving"} /\ \A u \in Uses : timer[u] = "none"
  /\ Gone /\ UNCHANGED stops

\* At any time, SIGKILL by the supervisor included.
Crash ==
  /\ phase # "down" /\ stops < MaxStops
  /\ Gone /\ stops' = stops + 1

----------------------------------------------------------------------------
Init ==
  /\ active = [u \in Uses |-> None] /\ done = [u \in Uses |-> None]
  /\ phase = "recovering" /\ shutdown = FALSE /\ handling = None /\ running = {}
  /\ child = [u \in Uses |-> "none"] /\ pipe = [u \in Uses |-> <<>>]
  /\ out = [u \in Uses |-> "none"] /\ err = [u \in Uses |-> "none"]
  /\ timer = [u \in Uses |-> "none"]
  /\ wait = [u \in Uses |-> "idle"] /\ linked = [u \in Uses |-> FALSE]
  /\ asked = [u \in Uses |-> 0] /\ stops = 0

Use(u) ==
  \/ Accept(u) \/ Handler(u) \/ Exit(u)
  \/ Stdout(u) \/ Stderr(u) \/ Timer(u)
  \/ Recover(u) \/ CompleteRecovered(u) \/ StopTalent(u)
  \/ Waiter(u)

Service ==
  Start \/ Recovered \/ RequestShutdown \/ ExitIdle \/ Stop \/ Stopped \/ Quit \/ Crash

Next == Service \/ \E u \in Uses : Use(u)

\* Threads run.  A talent need not end before its timer sends SIGTERM, and SIGKILL
\* after it.  The supervisor starts Cortex again, and start()'s loop runs.
Fairness ==
  /\ WF_vars(Start) /\ WF_vars(Recovered) /\ WF_vars(ExitIdle)
  /\ WF_vars(Stopped) /\ WF_vars(Quit)
  /\ \A u \in Uses :
       /\ WF_vars(Handler(u)) /\ WF_vars(Stdout(u)) /\ WF_vars(Stderr(u))
       /\ WF_vars(Timer(u)) /\ WF_vars(Recover(u)) /\ WF_vars(CompleteRecovered(u))
       /\ WF_vars(StopTalent(u)) /\ WF_vars(child[u] = "signalled" /\ Exit(u))

Spec == Init /\ [][Next]_vars
FairSpec == Spec /\ Fairness

----------------------------------------------------------------------------
(* Properties *)

Log == Seq(Events) \cup {None}

\* Every variable has its type.
TypeOK ==
  /\ active \in [Uses -> Log] /\ done \in [Uses -> Log]
  /\ phase \in Phases /\ shutdown \in BOOLEAN
  /\ handling \in Steps \cup {None} /\ running \subseteq Uses
  /\ child \in [Uses -> {"none", "running", "signalled", "ok", "failed", "gone"}]
  /\ pipe \in [Uses -> Seq(Verdicts)]
  /\ out \in [Uses -> {"none", "reading", "emitting", "leaving", "failing", "renaming", "releasing"}]
  /\ err \in [Uses -> {"none", "reading"}]
  /\ timer \in [Uses -> {"none", "armed", "logging", "ending"}]
  /\ wait \in [Uses -> {"idle", "listening", "waiting"} \cup Answers]
  /\ linked \in [Uses -> BOOLEAN]
  /\ asked \in [Uses -> Nat] /\ stops \in Nat

Recorded(u) == (IF active[u] = None THEN {} ELSE Range(active[u]))
               \cup (IF done[u] = None THEN {} ELSE Range(done[u]))

\* A completed log says how the use ended, whichever of the monitor, the failed
\* spawn, a late writer and the recovery completed it (_has_finish_event).
CompletedLogIsConclusive == \A u \in Uses : done[u] # None => HasFinish(done[u])

\* While Cortex runs, a use whose log is active and not yet completed has somebody
\* who will complete it: the request's handler, or a monitor that keeps the use
\* in running_uses until its log is complete.
LiveLogHasOwner ==
  phase \notin {"down", "recovering"} =>
    \A u \in Uses : active[u] # None /\ done[u] = None =>
      \/ u \in running /\ out[u] # "none"
      \/ At(u, "spawn") \/ At(u, "complete")

\* What wait_for_uses was told is in the log: an event is appended before it is
\* broadcast.  Only a log written anew after a restart may have lost a finish.
AnswerIsRecorded ==
  \A u \in Uses :
    /\ wait[u] = "error" => Recorded(u) \cap {"nonterminal", "error"} # {}
    /\ wait[u] = "finish" /\ stops = 0 => "finish" \in Recorded(u)

\* A use id is run once, though two requests may carry it, before or after the
\* first was spawned (the check of running_uses, the exclusive creation).
RunOnce ==
  [][\A u \in Uses : child'[u] = "running" /\ child[u] # "running" =>
       child[u] = "none" /\ done[u] = None]_vars

\* A claimed use ends with a completed log, whatever becomes of the talent, its
\* timer and Cortex.
ClaimedUseCompletes == \A u \in Uses : active[u] # None ~> done[u] # None

\* A requested shutdown ends Cortex.
ShutdownEnds == shutdown \/ phase \in {"stopping", "closing"} ~> phase = "down"

=============================================================================
