------------------------------ MODULE Services ------------------------------
(***************************************************************************)
(* The long-running children of the supervisor, supervisor.py: how main    *)
(* launches them, how handle_runner_exits brings back one that exited, how *)
(* restart and start_local requests and the shutdown interfere with it.    *)
(*                                                                         *)
(* Threads: main, which first starts the services and then runs the        *)
(* supervision loop; the callosum thread, which serves the requests; the   *)
(* signal handler, which interrupts main wherever it is.                   *)
(*                                                                         *)
(* A child is named by its number in launched.  During startup             *)
(* _managed_procs is not yet main's procs but the module's own empty list: *)
(* what is appended there is in nobody's sight later.                      *)
(***************************************************************************)
EXTENDS Naturals, Sequences, FiniteSets

CONSTANTS
    Service,    \* convey, sense, cortex, spl and the local model server
    Local,      \* the local model server, which is waited for
    MaxEvents,  \* bound: exits, failed launches and requests, together
    None

ASSUME ServicesAssumption ==
    /\ Local \in Service /\ None \notin Service
    /\ MaxEvents \in Nat

VARIABLES
    stage,     \* of main: "boot", "armed", "loop", "stopping", "closing",
               \* "stopped", or "cut off" by a signal before the loop
    launched,  \* every child spawned so far: its service
    alive,     \* the children that run
    procs,     \* procs, the list that the loop watches
    stale,     \* the list that _managed_procs names during startup
    order,     \* the children in the order in which they were listed
    known,     \* _SERVICE_STATE: services to be restarted
    todo,      \* children that main has still to handle or to stop
    pc,        \* main: "idle", "warming", "waiting" or "spawned"
    cur,       \* the service that main is launching, or None
    new,       \* the child that main has spawned and not listed, or 0
    local,     \* start_local on the callosum thread: "idle", "checked"
               \* or "warming"
    extra,     \* the child that it has spawned and not listed, or 0
    killed,    \* children that a restart request has sent SIGTERM
    shutdown,  \* shutdown_requested
    booted,    \* the services that main has launched at startup
    dropped,   \* history: services whose relaunch failed
    orphans,   \* history: children that no list will ever hold
    events     \* how many of the bounded events happened

lists == <<procs, stale, order, known, dropped, orphans>>
mains == <<stage, booted, todo, pc, cur, new, shutdown>>
bus   == <<local, extra>>
vars  == <<mains, launched, alive, lists, bus, killed, events>>

Event == events < MaxEvents /\ events' = events + 1

Running(s)   == \E p \in alive : launched[p] = s
Fresh        == Len(launched) + 1
ManagedProcs == IF stage = "boot" THEN stale ELSE procs

\* Of two children that a list holds, the one that was appended first.
Before(p, q) ==
    \E j \in DOMAIN order : \E i \in 1..(j - 1) : order[i] = p /\ order[j] = q

\* _launch_process: the child is spawned and the service marked to be
\* restarted.
LaunchProcess(s) ==
    /\ launched' = Append(launched, s)
    /\ alive' = alive \cup {Fresh}
    /\ known' = known \cup {s}

-----------------------------------------------------------------------------
(* main, before the loop *)

\* The next service is started; the local model server is waited for before
\* it joins procs.
BootLaunch(s) ==
    /\ stage = "boot" /\ pc = "idle"
    /\ s \notin booted /\ booted' = booted \cup {s}
    /\ LaunchProcess(s)
    /\ IF s = Local
       THEN pc' = "warming" /\ new' = Fresh /\ UNCHANGED <<procs, order>>
       ELSE /\ procs' = procs \cup {Fresh} /\ order' = Append(order, Fresh)
            /\ UNCHANGED <<pc, new>>
    /\ UNCHANGED <<stage, todo, cur, shutdown, stale, dropped, orphans, bus,
                   killed, events>>

\* start_local_server ends: the server answers or is late, or it has exited.
\* Then its service state goes too.
BootWarmed ==
    /\ pc = "warming"
    /\ IF new \in alive
       THEN /\ procs' = procs \cup {new} /\ order' = Append(order, new)
            /\ UNCHANGED <<known, dropped>>
       ELSE /\ known' = known \ {Local} /\ dropped' = dropped \cup {Local}
            /\ UNCHANGED <<procs, order>>
    /\ pc' = "idle" /\ new' = 0
    /\ UNCHANGED <<stage, booted, todo, cur, shutdown, launched, alive, stale,
                   orphans, bus, killed, events>>

\* _managed_procs = procs.  The local server is not part of every install.
BootDone ==
    /\ stage = "boot" /\ pc = "idle"
    /\ Service \ {Local} \subseteq booted
    /\ stage' = "armed"
    /\ UNCHANGED <<booted, todo, pc, cur, new, shutdown, launched, alive,
                   lists, bus, killed, events>>

EnterLoop ==
    /\ stage = "armed"
    /\ stage' = "loop"
    /\ UNCHANGED <<booted, todo, pc, cur, new, shutdown, launched, alive,
                   lists, bus, killed, events>>

-----------------------------------------------------------------------------
(* The loop: handle_runner_exits *)

\* Mutant: it waits until every child has exited.
CheckExitsAll ==
    /\ stage = "loop" /\ pc = "idle" /\ todo = {}
    /\ procs # {} /\ procs \cap alive = {}
    /\ todo' = procs \ alive
    /\ UNCHANGED <<stage, booted, pc, cur, new, shutdown, launched, alive,
                   lists, bus, killed, events>>

\* check_runner_exits
CheckExits ==
    /\ stage = "loop" /\ pc = "idle" /\ todo = {}
    /\ procs \ alive # {}
    /\ todo' = procs \ alive
    /\ UNCHANGED <<stage, booted, pc, cur, new, shutdown, launched, alive,
                   lists, bus, killed, events>>

\* Mutant: a child that was terminated is taken for one that was stopped.
HandleExitStops ==
    /\ stage = "loop" /\ pc = "idle"
    /\ \E p \in todo :
         /\ todo' = todo \ {p}
         /\ procs' = procs \ {p}
         /\ IF launched[p] \in known /\ p \notin killed
            THEN pc' = "waiting" /\ cur' = launched[p]
            ELSE UNCHANGED <<pc, cur>>
    /\ UNCHANGED <<stage, booted, new, shutdown, launched, alive, stale, order, known,
                   dropped, orphans, bus, killed, events>>

\* The exited child leaves procs; a service to be restarted is next.
HandleExit ==
    /\ stage = "loop" /\ pc = "idle"
    /\ \E p \in todo :
         /\ todo' = todo \ {p}
         /\ procs' = procs \ {p}
         /\ IF launched[p] \in known
            THEN pc' = "waiting" /\ cur' = launched[p]
            ELSE UNCHANGED <<pc, cur>>
    /\ UNCHANGED <<stage, booted, new, shutdown, launched, alive, stale, order, known,
                   dropped, orphans, bus, killed, events>>

\* The backoff is over and the same command is launched again.
Relaunch ==
    /\ stage = "loop" /\ pc = "waiting"
    /\ LaunchProcess(cur)
    /\ pc' = "spawned" /\ new' = Fresh
    /\ UNCHANGED <<stage, booted, todo, cur, shutdown, procs, stale, order, dropped,
                   orphans, bus, killed, events>>

\* The launch raises: the exception is logged, and no list names the service.
RelaunchFails ==
    /\ stage = "loop" /\ pc = "waiting" /\ Event
    /\ dropped' = dropped \cup {cur}
    /\ pc' = "idle" /\ cur' = None
    /\ UNCHANGED <<stage, booted, todo, new, shutdown, launched, alive, procs,
                   stale, order, known, orphans, bus, killed>>

\* Mutant: the new child is not listed.
ListRelaunchedNot ==
    /\ stage = "loop" /\ pc = "spawned"
    /\ pc' = "idle" /\ cur' = None /\ new' = 0
    /\ UNCHANGED <<stage, booted, todo, shutdown, launched, alive, lists, bus,
                   killed, events>>

ListRelaunched ==
    /\ stage = "loop" /\ pc = "spawned"
    /\ procs' = procs \cup {new} /\ order' = Append(order, new)
    /\ pc' = "idle" /\ cur' = None /\ new' = 0
    /\ UNCHANGED <<stage, booted, todo, shutdown, launched, alive, stale,
                   known, dropped, orphans, bus, killed, events>>

-----------------------------------------------------------------------------
(* The callosum thread *)

BusUp == stage \notin {"stopped", "cut off"}

\* Mutant: the request launches the new child itself.
RestartServiceNow(s) ==
    /\ BusUp /\ local = "idle" /\ Event
    /\ \E p \in ManagedProcs \cap alive :
         /\ launched[p] = s
         /\ killed' = killed \cup {p}
    /\ LaunchProcess(s)
    /\ procs' = procs \cup {Fresh} /\ order' = Append(order, Fresh)
    /\ UNCHANGED <<mains, stale, dropped, orphans, bus>>

\* _restart_service: the first child of that name in the list is sent SIGTERM by
\* a thread of its own, if it runs; the loop sees to the rest.
RestartService(s) ==
    /\ BusUp /\ local = "idle" /\ Event
    /\ \E p \in ManagedProcs \cap alive :
         /\ launched[p] = s
         /\ ~ \E q \in ManagedProcs : launched[q] = s /\ Before(q, p)
         /\ killed' = killed \cup {p}
    /\ known' = known \cup {s}
    /\ UNCHANGED <<mains, launched, alive, procs, stale, order, dropped,
                   orphans, bus>>

\* _handle_supervisor_start_local: no local server in the list runs.
StartLocal ==
    /\ BusUp /\ local = "idle" /\ Event
    /\ ~ \E p \in ManagedProcs \cap alive : launched[p] = Local
    /\ local' = "checked"
    /\ UNCHANGED <<mains, launched, alive, lists, extra, killed>>

\* start_local_server on this thread.  Without artifacts or a GPU it gives up.
StartLocalLaunch ==
    /\ BusUp /\ local = "checked"
    /\ LaunchProcess(Local)
    /\ local' = "warming" /\ extra' = Fresh
    /\ UNCHANGED <<mains, procs, stale, order, dropped, orphans, killed, events>>

StartLocalSkips ==
    /\ BusUp /\ local = "checked"
    /\ local' = "idle"
    /\ UNCHANGED <<mains, launched, alive, lists, extra, killed, events>>

\* The server joins the list that _managed_procs names by now; one that exited
\* takes the service state with it.
StartLocalDone ==
    /\ BusUp /\ local = "warming"
    /\ IF extra \in alive
       THEN /\ IF stage = "boot"
               THEN stale' = stale \cup {extra} /\ UNCHANGED procs
               ELSE procs' = procs \cup {extra} /\ UNCHANGED stale
            /\ order' = Append(order, extra)
            /\ orphans' = IF stage \in {"boot", "closing"}
                          THEN orphans \cup {extra} ELSE orphans
            /\ dropped' = dropped \ {Local}
            /\ UNCHANGED known
       ELSE /\ known' = known \ {Local}
            /\ UNCHANGED <<procs, stale, order, orphans, dropped>>
    /\ local' = "idle" /\ extra' = 0
    /\ UNCHANGED <<mains, launched, alive, killed, events>>

-----------------------------------------------------------------------------
(* The children and the end *)

Die(p) ==
    /\ alive' = alive \ {p}
    /\ UNCHANGED <<mains, launched, lists, bus, killed>>
Exit   == \E p \in alive : Die(p) /\ Event
Obey   == \E p \in alive \cap killed : Die(p) /\ UNCHANGED events

\* handle_shutdown: the children of _managed_procs are terminated or killed,
\* and main is interrupted, inside or outside of the try that cleans up.
\* A second signal does nothing.
Signal ==
    /\ stage \in {"boot", "armed", "loop"} /\ ~shutdown
    /\ shutdown' = TRUE
    /\ alive' = alive \ ManagedProcs
    /\ stage' = IF stage = "loop" THEN "stopping" ELSE "cut off"
    /\ orphans' = orphans \cup ({new} \ {0})
    /\ pc' = "idle" /\ cur' = None /\ new' = 0 /\ todo' = {}
    /\ UNCHANGED <<booted, launched, procs, stale, order, known, dropped, bus, killed,
                   events>>

\* _run_sync_tick found another writer: supervise returns.
ConflictStop ==
    /\ stage = "loop" /\ pc = "idle" /\ todo = {}
    /\ shutdown' = TRUE
    /\ stage' = "stopping"
    /\ UNCHANGED <<booted, todo, pc, cur, new, launched, alive, lists, bus,
                   killed, events>>

\* The finally of main: the children of procs are stopped one by one; one that
\* joins the list meanwhile is not among them.
BeginStop ==
    /\ stage = "stopping"
    /\ stage' = "closing"
    /\ todo' = procs
    /\ UNCHANGED <<booted, pc, cur, new, shutdown, launched, alive, lists, bus,
                   killed, events>>

StopProcess ==
    /\ stage = "closing"
    /\ \E p \in todo : todo' = todo \ {p} /\ alive' = alive \ {p}
    /\ UNCHANGED <<stage, booted, pc, cur, new, shutdown, launched, lists, bus,
                   killed, events>>

\* Mutant: the process does not wait for its children.
StoppedEarly ==
    /\ stage = "closing"
    /\ stage' = "stopped"
    /\ todo' = {}
    /\ orphans' = orphans \cup ({extra} \ {0})
    /\ UNCHANGED <<booted, pc, cur, new, shutdown, launched, alive, procs, stale, order,
                   known, dropped, bus, killed, events>>

\* The bus is stopped and the process ends, whatever start_local is doing.
Stopped ==
    /\ stage = "closing" /\ todo = {}
    /\ stage' = "stopped"
    /\ orphans' = orphans \cup ({extra} \ {0})
    /\ UNCHANGED <<booted, todo, pc, cur, new, shutdown, launched, alive,
                   procs, stale, order, known, dropped, bus, killed, events>>

-----------------------------------------------------------------------------
Init ==
    /\ stage = "boot" /\ booted = {} /\ shutdown = FALSE
    /\ launched = <<>> /\ alive = {}
    /\ procs = {} /\ stale = {} /\ order = <<>> /\ known = {}
    /\ todo = {} /\ pc = "idle" /\ cur = None /\ new = 0
    /\ local = "idle" /\ extra = 0
    /\ killed = {} /\ dropped = {} /\ orphans = {}
    /\ events = 0

Main ==
    \/ \E s \in Service : BootLaunch(s)
    \/ BootWarmed \/ BootDone \/ EnterLoop
    \/ CheckExits \/ HandleExit \/ Relaunch \/ RelaunchFails \/ ListRelaunched
    \/ BeginStop \/ StopProcess \/ Stopped

Next ==
    \/ Main
    \/ \E s \in Service : RestartService(s)
    \/ StartLocal \/ StartLocalLaunch \/ StartLocalSkips \/ StartLocalDone
    \/ Exit \/ Obey
    \/ Signal \/ ConflictStop

Spec == Init /\ [][Next]_vars

\* main goes on, SIGTERM and SIGKILL work, and start_local ends.  Nothing
\* obliges anyone to send a request or a signal.
Fairness ==
    /\ WF_vars(Main) /\ WF_vars(Obey)
    /\ WF_vars(StartLocalLaunch \/ StartLocalSkips \/ StartLocalDone)

FairSpec == Spec /\ Fairness

-----------------------------------------------------------------------------
(* Properties *)

Child == DOMAIN launched

\* Types, and a child is in hand exactly where main or the callosum thread has
\* one.
TypeOK ==
    /\ stage \in {"boot", "armed", "loop", "stopping", "closing", "stopped",
                  "cut off"}
    /\ launched \in Seq(Service)
    /\ alive \subseteq Child /\ procs \subseteq Child /\ stale \subseteq Child
    /\ todo \subseteq procs /\ killed \subseteq Child
    /\ orphans \subseteq Child /\ order \in Seq(Nat)
    /\ known \subseteq Service /\ dropped \subseteq Service
    /\ cur \in Service \cup {None} /\ booted \subseteq Service
    /\ new \in Child \cup {0} /\ extra \in Child \cup {0}
    /\ pc \in {"idle", "warming", "waiting", "spawned"}
    /\ pc \in {"warming", "spawned"} <=> new # 0
    /\ local \in {"idle", "checked", "warming"}
    /\ local = "warming" <=> extra # 0
    /\ shutdown \in BOOLEAN /\ events \in 0..MaxEvents

InHand == ({new, extra} \ {0})

\* No child runs out of sight: the loop watches it, or a thread is about to
\* list it, unless a signal came between its spawn and its listing or it was
\* started by a request during startup (supervisor.py:1513-1515, 2091-2106).
ChildrenAreWatched == alive \subseteq procs \cup InHand \cup orphans

\* No service is forgotten: a child of it is watched, or its relaunch is on
\* its way, or failed (supervisor.py:2059-2111).
ServiceIsKept ==
    stage = "loop" =>
        \A s \in known \cup (Service \ {Local}) :
            \/ \E p \in procs \cup InHand \cup orphans : launched[p] = s
            \/ cur = s
            \/ s \in dropped

\* Never two children of a service that writes the journal, whatever restart
\* requests and exits come together.
OneChildPerService ==
    \A p, q \in alive :
        launched[p] = launched[q] /\ p # q => launched[p] = Local

\* A stop leaves no child behind but those that were out of sight.
StopLeavesNothing == stage = "stopped" => alive \subseteq orphans

\* A service whose child exits, of itself or for a restart, comes back, unless
\* its relaunch fails, its state is withdrawn or the supervisor stops.
ServiceComesBack ==
    \A s \in Service :
        [](stage = "loop" /\ (\E p \in procs \ alive : launched[p] = s) =>
               <>(Running(s) \/ s \in dropped \/ s \notin known \/ shutdown))

\* supervisor.py:2675, of a second signal: "cleanup is already in progress".
SignalStops == [](shutdown => <>(stage = "stopped"))

=============================================================================
