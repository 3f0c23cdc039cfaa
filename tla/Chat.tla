-------------------------------- MODULE Chat --------------------------------
(***************************************************************************)
(* The chat runtime of the web process, src/solstone/convey/chat.py: one   *)
(* chat turn at a time for the whole process, a queue of triggers behind   *)
(* it, at most MaxActive talents that turns dispatched, and the day's chat *)
(* log (chat_stream.py), from which it recovers.                           *)
(*                                                                         *)
(* A trigger is an owner's message or the end of a talent; a turn runs the *)
(* chat generator for one trigger.  A turn is named after its trigger and  *)
(* its number among that trigger's turns, a talent after the turn that     *)
(* dispatched it.                                                          *)
(*                                                                         *)
(* Threads: one per request, the callosum thread, one per watchdog that    *)
(* went off.  Each takes _state_lock for one action, and the spawns that   *)
(* the locked part decided on follow outside of it: jobs holds them.       *)
(* The log is kept as what its readers compute from the day's events.      *)
(***************************************************************************)
EXTENDS Naturals, Sequences, FiniteSets

CONSTANTS
    Message,      \* the owner's messages, each posted once
    MaxActive,    \* MAX_ACTIVE_TALENTS
    QueueCap,     \* waiting triggers at which post_chat refuses
    MaxTurns,     \* bound: turns of one trigger
    MaxEvents,    \* bound: session requests, restarts and answers that cannot be
                  \* written, together
    MaxNights,    \* bound: midnights
    None

ASSUME ChatAssumption ==
    /\ MaxActive \in Nat \ {0}
    /\ QueueCap \in Nat /\ MaxTurns \in Nat /\ MaxEvents \in Nat
    /\ MaxNights \in Nat
    /\ \A c \in [turn : [trig : [msg : Message, talent : 0..MaxTurns],
                        nth  : 1..MaxTurns], try : {0, 1}] : c # None

VARIABLES
    post,       \* how far post_chat is with each message
    current,    \* the turn in progress and its try, or None
    queue,      \* _queued_triggers: the turns that wait
    turns,      \* history: the turns whose use id was reserved
    active,     \* _active_talents
    armed,      \* _watchdog_timers, by the run they watch
    fired,      \* watchdogs that went off and wait for the lock
    jobs,       \* what threads still have to spawn or arm
    runs,       \* the uses that Cortex runs and that may still report
    trigger,    \* log: the newest trigger without a later answer, or None
    owned,      \* log: today has an owner's message
    spawned,    \* log: talents spawned today that have not ended
    rootless,   \* log: those among them with no owner's message before
    deferred,   \* log: talents queued today, in order
    answered,   \* log: turns with a sol_message
    failed,     \* log: turns with a chat_error
    endings,    \* log: how each talent ended
    lost,       \* history: turns that a restart forgot
    asked,      \* history: turns that asked for a talent
    left,       \* history: talents that nobody will end or start, by a midnight
                \* or a restart
    unwritten,  \* history: turns whose answer could not be written
    starting,   \* the process has started and has not recovered yet
    events,     \* how many of the bounded events happened
    nights      \* how many midnights

memory  == <<current, queue, active, armed, fired>>
log     == <<trigger, owned, spawned, rootless, deferred, answered, failed,
             endings>>
history == <<turns, lost, asked, left, unwritten, events, nights>>
vars == <<post, memory, jobs, runs, log, history, starting>>

-----------------------------------------------------------------------------
(* Names *)

\* talent = 0: the owner's message; n: the end of its nth turn's talent.
Trigger == [msg : Message, talent : 0..MaxTurns]
Turn    == [trig : Trigger, nth : 1..MaxTurns]
Run     == [kind : {"chat"}, turn : Turn, try : {0, 1}]
             \cup [kind : {"talent"}, turn : Turn, try : {0}]
Act     == Run \cup [kind : {"arm"}, turn : Turn, try : {0}]
Job     == [thread : {"bus", "other"}, acts : Seq(Act) \ {<<>>}]

OwnerTrigger(m) == [msg |-> m, talent |-> 0]
EndTrigger(t)   == [msg |-> t.trig.msg, talent |-> t.nth]
ChatRun(u, n)   == [kind |-> "chat", turn |-> u, try |-> n]
TalentRun(t)    == [kind |-> "talent", turn |-> t, try |-> 0]
ArmJob(t)       == [kind |-> "arm", turn |-> t, try |-> 0]

NewTurn(g) == [trig |-> g, nth |-> 1 + Cardinality({u \in turns : u.trig = g})]
IsCurrent(r) == current # None /\ r = ChatRun(current.turn, current.try)
Waits(t) == \E i \in DOMAIN deferred : deferred[i] = t
Ended(t) == \E e \in endings : e.talent = t
BusIdle == \A j \in jobs : j.thread # "bus"

-----------------------------------------------------------------------------
(* Parts of the locked sections.  Each says what happens to current, queue *)
(* and the watchdogs, given the watchdogs that are left, and the spawns    *)
(* that follow are the operator of the same name with Spawns.              *)

\* _activate_current_locked.
Activate(u, timers) ==
    /\ current' = [turn |-> u, try |-> 0]
    /\ armed'   = timers \cup {ChatRun(u, 0)}

\* _activate_or_enqueue_trigger_locked.  MaxTurns bounds the turns of a trigger.
Offer(g, timers) ==
    LET u == NewTurn(g) IN
    /\ u.nth <= MaxTurns
    /\ turns' = turns \cup {u}
    /\ IF current = None
       THEN Activate(u, timers) /\ UNCHANGED queue
       ELSE /\ queue' = Append(queue, u)
            /\ armed' = timers
            /\ UNCHANGED current

OfferSpawns(g) == IF current = None THEN <<ChatRun(NewTurn(g), 0)>> ELSE <<>>

\* Mutant: the turn is cleared and the queue left for the next message.
ClearOnly(timers) ==
    /\ current' = None
    /\ armed'   = timers
    /\ UNCHANGED queue

\* _clear_current_locked: the next waiting turn takes its place.
ClearCurrent(timers) ==
    IF queue = <<>>
    THEN /\ current' = None
         /\ armed'   = timers
         /\ UNCHANGED queue
    ELSE /\ Activate(Head(queue), timers)
         /\ queue' = Tail(queue)

ClearSpawns == IF queue = <<>> THEN <<>> ELSE <<ChatRun(Head(queue), 0)>>

\* _active_talent_count_for_today_locked reads the log, not _active_talents.
Room(running) == Cardinality(running) < MaxActive

\* _promote_deferred_spawn_locked: the oldest deferred talent, if there is room.
Promoted(running) ==
    IF deferred # <<>> /\ Room(running) THEN <<Head(deferred)>> ELSE <<>>

\* _register_talent_spawn_locked, for the talents of a sequence.
Register(ts, was, running) ==
    LET new == {ts[i] : i \in DOMAIN ts} IN
    /\ active'  = was \cup new
    /\ spawned' = running \cup new
TalentSpawns(ts) == [i \in DOMAIN ts |-> TalentRun(ts[i])]

\* A thread goes on with what it has to do.
Goes(thread, acts) ==
    IF acts = <<>> THEN {} ELSE {[thread |-> thread, acts |-> acts]}

-----------------------------------------------------------------------------
(* POST /api/chat *)

\* The queue is looked at in a locked section of its own.
Check(m) ==
    /\ post[m] = "new" /\ ~starting
    /\ post' = [post EXCEPT ![m] =
                  IF current # None /\ Len(queue) >= QueueCap
                  THEN "rejected" ELSE "checked"]
    /\ UNCHANGED <<memory, jobs, runs, log, history, starting>>

\* append_chat_event("owner_message"), under the log's lock.
Record(m) ==
    /\ post[m] = "checked"
    /\ post'    = [post EXCEPT ![m] = "logged"]
    /\ trigger' = OwnerTrigger(m)
    /\ owned'   = TRUE
    /\ UNCHANGED <<memory, jobs, runs, spawned, rootless, deferred, answered,
                   failed, endings, history, starting>>

\* The second locked section of post_chat.
Post(m) ==
    /\ post[m] = "logged"
    /\ post' = [post EXCEPT ![m] = "done"]
    /\ Offer(OwnerTrigger(m), armed)
    /\ jobs' = jobs \cup Goes("other", OfferSpawns(OwnerTrigger(m)))
    /\ UNCHANGED <<active, fired, runs, log, lost, asked, left, unwritten, events,
                   nights, starting>>

-----------------------------------------------------------------------------
(* What a thread does after its locked section: _run_next_action *)

\* One thread's next action, and the thread with the actions acts instead.
Doing(j, kind) == j \in jobs /\ Head(j.acts).kind = kind
Rest(j, acts) == (jobs \ {j}) \cup Goes(j.thread, acts \o Tail(j.acts))

\* spawn_agent delivered the request to Cortex.
SpawnChat(j) ==
    /\ Doing(j, "chat")
    /\ runs' = runs \cup {Head(j.acts)}
    /\ jobs' = Rest(j, <<>>)
    /\ UNCHANGED <<post, memory, log, history, starting>>

\* It did not: _handle_chat_failure.  The turn may no longer be the current one.
SpawnChatFails(j) ==
    LET u == Head(j.acts).turn IN
    /\ Doing(j, "chat")
    /\ failed' = failed \cup {u}
    /\ IF current # None /\ current.turn = u
       THEN /\ ClearCurrent(armed \ {ChatRun(u, current.try)})
            /\ jobs' = Rest(j, ClearSpawns)
       ELSE jobs' = Rest(j, <<>>) /\ UNCHANGED <<current, queue, armed>>
    /\ UNCHANGED <<post, active, fired, runs, trigger, owned, spawned, rootless,
                   deferred, answered, endings, history, starting>>

SpawnTalent(j) ==
    /\ Doing(j, "talent")
    /\ runs' = runs \cup {Head(j.acts)}
    /\ jobs' = Rest(j, <<ArmJob(Head(j.acts).turn)>>)
    /\ UNCHANGED <<post, memory, log, history, starting>>

\* The watchdog is armed after the spawn, even if the talent ended meanwhile.
Arm(j) ==
    /\ Doing(j, "arm")
    /\ armed' = armed \cup {TalentRun(Head(j.acts).turn)}
    /\ jobs'  = Rest(j, <<>>)
    /\ UNCHANGED <<post, current, queue, active, fired, runs, log, history,
                   starting>>

\* Mutant: a talent that ended frees no slot for one that waits.
TalentEndsNoPromotion(t, how) ==
    /\ Offer(EndTrigger(t), armed \ {TalentRun(t)})
    /\ Register(<<>>, active \ {t}, spawned \ {t})
    /\ UNCHANGED deferred
    /\ endings'  = endings \cup {[talent |-> t, how |-> how]}
    /\ trigger'  = EndTrigger(t)
    /\ rootless' = rootless \ {t}
    /\ UNCHANGED <<post, owned, answered, failed, lost, asked, left, unwritten,
                   events, nights, starting>>

\* _handle_talent_terminal_locked and the locked part of
\* _handle_talent_spawn_failure: log the end, offer it as a trigger, promote.
TalentEnds(t, how) ==
    LET next == Promoted(spawned \ {t}) IN
    /\ Offer(EndTrigger(t), armed \ {TalentRun(t)})
    /\ Register(next, active \ {t}, spawned \ {t})
    /\ deferred' = SubSeq(deferred, 1 + Len(next), Len(deferred))
    /\ endings'  = endings \cup {[talent |-> t, how |-> how]}
    /\ trigger'  = EndTrigger(t)
    /\ rootless' = rootless \ {t}
    /\ UNCHANGED <<post, owned, answered, failed, lost, asked, left, unwritten,
                   events, nights, starting>>

EndSpawns(t) ==
    OfferSpawns(EndTrigger(t)) \o TalentSpawns(Promoted(spawned \ {t}))

SpawnTalentFails(j) ==
    LET t == Head(j.acts).turn IN
    /\ Doing(j, "talent")
    /\ TalentEnds(t, "unknown")
    /\ jobs' = Rest(j, EndSpawns(t))
    /\ UNCHANGED <<fired, runs>>

JobStep(j) ==
    \/ SpawnChat(j)   \/ SpawnChatFails(j)
    \/ SpawnTalent(j) \/ SpawnTalentFails(j) \/ Arm(j)

-----------------------------------------------------------------------------
(* _on_cortex_finish and _on_cortex_error, on the callosum thread *)

Reports(r) ==
    /\ r \in runs /\ BusIdle
    /\ runs' = runs \ {r}
    /\ UNCHANGED <<post, fired, starting>>

\* The result does not parse, for the first time: run the generator again.
Retry(r) ==
    /\ Reports(r) /\ IsCurrent(r) /\ r.try = 0
    /\ current' = [current EXCEPT !.try = 1]
    /\ armed'   = (armed \ {r}) \cup {ChatRun(r.turn, 1)}
    /\ jobs'    = jobs \cup Goes("bus", <<ChatRun(r.turn, 1)>>)
    /\ UNCHANGED <<queue, active, log, history>>

\* An error, or a result that does not parse twice: chat_error.
Fail(r) ==
    /\ Reports(r) /\ IsCurrent(r)
    /\ failed' = failed \cup {r.turn}
    /\ jobs'   = jobs \cup Goes("bus", ClearSpawns)
    /\ ClearCurrent(armed \ {r})
    /\ UNCHANGED <<active, trigger, owned, spawned, rootless, deferred,
                   answered, endings, history>>

\* Mutant: a late answer is logged for the turn that is current now.
ReplyToCurrent(r) ==
    /\ Reports(r) /\ current # None /\ r.kind = "chat"
    /\ answered' = answered \cup {current.turn}
    /\ trigger'  = None
    /\ jobs'     = jobs \cup Goes("bus", ClearSpawns)
    /\ ClearCurrent(armed \ {r})
    /\ UNCHANGED <<active, owned, spawned, rootless, deferred, failed, endings,
                   history>>

\* A message without a talent request.
Reply(r) ==
    /\ Reports(r) /\ IsCurrent(r)
    /\ answered' = answered \cup {r.turn}
    /\ trigger'  = None
    /\ jobs'     = jobs \cup Goes("bus", ClearSpawns)
    /\ ClearCurrent(armed \ {r})
    /\ UNCHANGED <<active, owned, spawned, rootless, deferred, failed, endings,
                   history>>

\* A turn that answers an owner's message may ask for a talent: it is spawned,
\* or deferred when the log shows MaxActive of them running.
Dispatch(r) ==
    LET t == r.turn
        spawns == IF Room(spawned) THEN <<t>> ELSE <<>> IN
    /\ Reports(r) /\ IsCurrent(r) /\ t.trig.talent = 0
    /\ answered' = answered \cup {t}
    /\ trigger'  = None
    /\ ClearCurrent(armed \ {r})
    /\ Register(spawns, active, spawned)
    /\ deferred' = IF Room(spawned) THEN deferred ELSE Append(deferred, t)
    /\ rootless' = IF Room(spawned) /\ ~owned THEN rootless \cup {t}
                   ELSE rootless
    /\ jobs' = jobs \cup Goes("bus", ClearSpawns \o TalentSpawns(spawns))
    /\ asked' = asked \cup {t}
    /\ UNCHANGED <<owned, failed, endings, turns, lost, left, unwritten, events,
                   nights>>

\* append_chat_event raises after the watchdog was cancelled; the callosum
\* thread logs the exception and goes on with the next message.
ReportUnwritten(r) ==
    /\ Reports(r) /\ IsCurrent(r)
    /\ events < MaxEvents
    /\ events'    = events + 1
    /\ armed'     = armed \ {r}
    /\ unwritten' = unwritten \cup {r.turn}
    /\ UNCHANGED <<current, queue, active, jobs, log, turns, lost, asked, left,
                   nights>>

\* talent_finished or talent_errored: the runtime treats them alike.
TalentReport(r) ==
    /\ r \in runs /\ BusIdle /\ r.kind = "talent" /\ r.turn \in active
    /\ runs' = runs \ {r}
    /\ TalentEnds(r.turn, "reported")
    /\ jobs' = jobs \cup Goes("bus", EndSpawns(r.turn))
    /\ UNCHANGED fired

\* Superseded, late or unknown: logged and dropped.
Drop(r) ==
    /\ Reports(r) /\ ~IsCurrent(r)
    /\ r.kind = "talent" => r.turn \notin active
    /\ UNCHANGED <<current, queue, active, armed, jobs, log, history>>

Report(r) ==
    \/ Retry(r) \/ Fail(r) \/ Reply(r) \/ Dispatch(r) \/ ReportUnwritten(r)
    \/ TalentReport(r) \/ Drop(r)

-----------------------------------------------------------------------------
(* Watchdogs: the timer's thread starts, then takes the lock *)

Expire(r) ==
    /\ r \in armed
    /\ armed' = armed \ {r}
    /\ fired' = fired \cup {r}
    /\ UNCHANGED <<post, current, queue, active, jobs, runs, log, history,
                   starting>>

ChatTimeout(r) ==
    /\ r \in fired /\ IsCurrent(r)
    /\ fired'  = fired \ {r}
    /\ failed' = failed \cup {r.turn}
    /\ jobs'   = jobs \cup Goes("other", ClearSpawns)
    /\ ClearCurrent(armed)
    /\ UNCHANGED <<post, active, runs, trigger, owned, spawned, rootless,
                   deferred, answered, endings, history, starting>>

\* Mutant: the watchdog does not ask whether the talent still runs.
TalentTimeoutAlways(r) ==
    /\ r \in fired /\ r.kind = "talent"
    /\ fired' = fired \ {r}
    /\ TalentEnds(r.turn, "timeout")
    /\ jobs'  = jobs \cup Goes("other", EndSpawns(r.turn))
    /\ UNCHANGED runs

TalentTimeout(r) ==
    /\ r \in fired /\ r.kind = "talent" /\ r.turn \in active
    /\ fired' = fired \ {r}
    /\ TalentEnds(r.turn, "timeout")
    /\ jobs'  = jobs \cup Goes("other", EndSpawns(r.turn))
    /\ UNCHANGED runs

\* What it watched has ended.
StaleTimeout(r) ==
    /\ r \in fired /\ ~IsCurrent(r)
    /\ r.kind = "talent" => r.turn \notin active
    /\ fired' = fired \ {r}
    /\ UNCHANGED <<post, current, queue, active, armed, jobs, runs, log,
                   history, starting>>

Watchdog(r) == ChatTimeout(r) \/ TalentTimeout(r) \/ StaleTimeout(r)

-----------------------------------------------------------------------------
(* Recovery, restarts and midnight *)

\* _recover_chat_if_needed, when the runtime starts and at GET /session: take
\* back the talents that the log shows running, promote deferred ones while
\* there is room, and answer the newest trigger if no turn is in progress.
Recover ==
    LET room == IF Cardinality(spawned) < MaxActive
                THEN MaxActive - Cardinality(spawned) ELSE 0
        n == IF Len(deferred) < room THEN Len(deferred) ELSE room
        next == SubSeq(deferred, 1, n)
        back == spawned \ rootless
        timers == armed \cup {TalentRun(t) : t \in back \ active}
        wake == current = None /\ trigger # None
        spawns == TalentSpawns(next)
                    \o (IF wake THEN OfferSpawns(trigger) ELSE <<>>) IN
    /\ starting \/ events < MaxEvents
    /\ starting' = FALSE
    /\ events'   = IF starting THEN events ELSE events + 1
    /\ Register(next, active \cup back, spawned)
    /\ deferred' = SubSeq(deferred, n + 1, Len(deferred))
    /\ IF wake THEN Offer(trigger, timers)
       ELSE armed' = timers /\ UNCHANGED <<current, queue, turns>>
    /\ jobs' = jobs \cup Goes("other", spawns)
    /\ UNCHANGED <<post, fired, runs, trigger, owned, rootless, answered,
                   failed, endings, lost, asked, left, unwritten, nights>>

\* The web process dies and starts again; Cortex and its uses go on.  Of the
\* talents it had in hand, recovery finds those with a parent in today's log.
Restart ==
    /\ events < MaxEvents
    /\ events'   = events + 1
    /\ starting' = TRUE
    /\ post' = [m \in Message |-> IF post[m] \in {"checked", "logged"}
                                  THEN "cut off" ELSE post[m]]
    /\ lost' = turns \ (answered \cup failed)
    /\ left' = left \cup (active \ (spawned \ rootless))
    /\ current' = None /\ queue' = <<>> /\ jobs' = {}
    /\ active' = {} /\ armed' = {} /\ fired' = {}
    /\ UNCHANGED <<runs, log, turns, asked, unwritten, nights>>

\* The runtime reads today's log only: a talent that is still deferred is never
\* promoted, and one that a restart has not taken back yet never is.
Midnight ==
    /\ nights < MaxNights
    /\ nights'   = nights + 1
    /\ trigger'  = None /\ owned' = FALSE
    /\ spawned'  = {} /\ rootless' = {} /\ deferred' = <<>>
    /\ left' = left \cup {t \in asked : Waits(t)} \cup (spawned \ active)
    /\ UNCHANGED <<post, memory, jobs, runs, answered, failed, endings, turns,
                   lost, asked, unwritten, events, starting>>

-----------------------------------------------------------------------------
Init ==
    /\ post = [m \in Message |-> "new"]
    /\ current = None /\ queue = <<>>
    /\ active = {} /\ armed = {} /\ fired = {} /\ jobs = {} /\ runs = {}
    /\ trigger = None /\ owned = FALSE
    /\ spawned = {} /\ rootless = {} /\ deferred = <<>>
    /\ answered = {} /\ failed = {} /\ endings = {}
    /\ turns = {} /\ lost = {} /\ asked = {} /\ left = {} /\ unwritten = {}
    /\ starting = FALSE
    /\ events = 0 /\ nights = 0

Next ==
    \/ \E m \in Message : Check(m) \/ Record(m) \/ Post(m)
    \/ \E j \in jobs : JobStep(j)
    \/ \E r \in runs : Report(r)
    \/ \E r \in armed : Expire(r)
    \/ \E r \in fired : Watchdog(r)
    \/ Recover \/ Restart \/ Midnight

Spec == Init /\ [][Next]_vars

\* Threads go on and timers go off.  Nothing obliges a use to report, a
\* message to be posted, a page to be loaded or the process to restart.
Fairness ==
    /\ \A m \in Message : WF_vars(Record(m)) /\ WF_vars(Post(m))
    /\ WF_vars(\E j \in jobs : JobStep(j))
    /\ WF_vars(\E r \in armed : Expire(r))
    /\ WF_vars(\E r \in fired : Watchdog(r))
    /\ WF_vars(starting /\ Recover)

FairSpec == Spec /\ Fairness

-----------------------------------------------------------------------------
(* Properties *)

\* Types, and no turn both waits and is in progress.
TypeOK ==
    /\ post \in [Message -> {"new", "checked", "rejected", "logged", "done",
                             "cut off"}]
    /\ current \in {None} \cup [turn : Turn, try : {0, 1}]
    /\ queue \in Seq(turns) /\ turns \subseteq Turn
    /\ active \subseteq Turn /\ armed \subseteq Run /\ fired \subseteq Run
    /\ runs \subseteq Run /\ jobs \subseteq Job
    /\ trigger \in {None} \cup Trigger /\ owned \in BOOLEAN
    /\ spawned \subseteq Turn /\ rootless \subseteq spawned
    /\ deferred \in Seq(Turn)
    /\ answered \subseteq turns /\ failed \subseteq turns
    /\ lost \subseteq turns /\ unwritten \subseteq turns
    /\ asked \subseteq turns /\ left \subseteq Turn
    /\ endings \subseteq [talent : Turn, how : {"reported", "timeout",
                                                "unknown"}]
    /\ starting \in BOOLEAN /\ events \in 0..MaxEvents
    /\ nights \in 0..MaxNights

\* The turn in progress is always watched: a timer runs for it, or went off
\* and waits for the lock.  Without that, a use that never reports would keep
\* every later message waiting (chat.py:1376-1429, 1506-1562).
CurrentIsWatched ==
    current # None => ChatRun(current.turn, current.try) \in armed \cup fired

\* The same, but for a turn whose answer could not be written.
WatchedUnlessUnwritten ==
    current # None /\ current.turn \notin unwritten => CurrentIsWatched

\* No trigger is forgotten: an accepted message and the end of a talent get a
\* turn, and a turn is the one in progress, waits once, has its answer or its
\* error in the log, or died with the process (chat.py:1167-1179, 1356-1390).
InHand(u) ==
    \/ current # None /\ current.turn = u
    \/ \E i \in DOMAIN queue : queue[i] = u
TurnIsKept ==
    /\ \A m \in Message :
         post[m] = "done" => \E u \in turns : u.trig = OwnerTrigger(m)
    /\ \A e \in endings : \E u \in turns : u.trig = EndTrigger(e.talent)
    /\ turns = {u \in turns : InHand(u)} \cup answered \cup failed \cup lost
    /\ \A i \in DOMAIN queue :
         /\ current # None /\ current.turn # queue[i]
         /\ \A k \in DOMAIN queue : queue[i] = queue[k] => i = k

\* At most MaxActive talents started on one day run, whichever of dispatch,
\* promotion and recovery started them.
TalentLimit == Cardinality(spawned) <= MaxActive

\* The log records the end of a talent once, whatever its timeout, its report
\* and its failed spawn do.
EndsOnce == \A e, f \in endings : e.talent = f.talent => e = f

\* An answer is logged for the turn whose use gave it: a report that comes
\* after the timeout, a retry or a restart is not taken for the answer of the
\* turn in progress by then (chat.py:554-558, 735-749).
AnswerIsOwn ==
    [][\A u \in answered' \ answered :
         \E r \in runs \ runs' : r.kind = "chat" /\ r.turn = u]_vars

\* Every turn ends in an answer or an error, even if no use ever reports, but
\* for a turn whose answer could not be written and what waits behind it.
EveryTurnEnds ==
    <>[](\A u \in turns :
           \/ u \in answered \cup failed \cup lost
           \/ InHand(u) /\ current # None /\ current.turn \in unwritten)

\* Every talent that a turn asked for ends, whether it started at once or was
\* deferred behind others, and even if its use never reports.  Only a midnight or
\* a restart may leave it: at midnight the deferred ones, which the log of the
\* new day does not name; at a restart those that today's log does not show with
\* a parent.  Such a one still counts as running today, and when they hold all
\* slots a deferred talent waits behind them (chat.py:1042-1138, 1305-1347).
SlotsAreLeft == Cardinality(spawned \cap left) >= MaxActive
EveryTalentEnds ==
    <>[](\A t \in asked : Ended(t) \/ t \in left \/ (Waits(t) /\ SlotsAreLeft))

=============================================================================
