--------------------------- MODULE ServicesProofs ---------------------------
(***************************************************************************)
(* Proofs about Services, for every set of services and every bound.       *)
(***************************************************************************)
EXTENDS Services, TLAPS

-----------------------------------------------------------------------------
(* The inductive invariant *)

\* What main's and the callosum thread's positions say of their variables.
Positions ==
    /\ pc = "idle" => cur = None
    /\ pc = "waiting" => stage = "loop" /\ cur # None
    /\ pc = "spawned" => stage = "loop" /\ cur # None
    /\ pc = "warming" => stage = "boot" /\ cur = None
    /\ todo # {} => stage \in {"loop", "closing"}
    /\ stage = "loop" => todo \cap alive = {}
    /\ stage \in {"boot", "armed", "loop"} => ~shutdown
    /\ new # 0 /\ pc = "spawned" => launched[new] = cur
    /\ new # 0 /\ pc = "warming" => launched[new] = Local
    /\ extra # 0 => launched[extra] = Local

\* Where the services are: what main launched stays known, and what joined the
\* list of the startup is out of sight.
Places ==
    /\ stale \subseteq orphans
    /\ booted \ {Local} \subseteq known
    /\ stage \in {"armed", "loop"} => Service \ {Local} \subseteq booted
    /\ \A p \in Child : launched[p] \in booted \cup {Local}

\* A service other than the local server has one child at most that runs, is
\* listed or is about to be listed by main, and none while main is about to
\* launch one.
Here == alive \cup procs \cup ({new} \ {0})

OnePlace ==
    /\ \A p, q \in Here :
         launched[p] = launched[q] /\ launched[p] # Local => p = q
    /\ pc = "waiting" /\ cur # Local => \A p \in Here : launched[p] # cur

\* Every service that is to be restarted is somewhere, before the loop too.
Kept ==
    stage \in {"boot", "armed", "loop"} =>
        \A s \in known :
            \/ \E p \in procs \cup InHand \cup orphans : launched[p] = s
            \/ cur = s
            \/ s \in dropped

\* While the children are stopped, those that run are still to be stopped, or
\* nobody will.
Leaving ==
    /\ stage = "closing" => alive \subseteq todo \cup orphans \cup ({extra} \ {0})
    /\ stage = "stopped" => alive \subseteq orphans

Whereabouts == Places /\ ChildrenAreWatched /\ OnePlace /\ Kept /\ Leaving

IInv == TypeOK /\ Positions /\ Whereabouts

-----------------------------------------------------------------------------
(* Lemmas *)

\* A launch gives the child the next number and disturbs no other.
LEMMA LaunchFacts ==
    ASSUME TypeOK, NEW s \in Service, LaunchProcess(s)
    PROVE  /\ Fresh \in Nat \ {0} /\ Fresh \notin Child
           /\ Child' = Child \cup {Fresh}
           /\ launched' \in Seq(Service)
           /\ launched'[Fresh] = s
           /\ \A p \in Child : launched'[p] = launched[p]
           /\ alive' = alive \cup {Fresh} /\ known' = known \cup {s}
           /\ Append(order, Fresh) \in Seq(Nat)
<1>1. launched \in Seq(Service) /\ launched' = Append(launched, s)
  BY DEF TypeOK, LaunchProcess
<1>2. /\ Child = 1 .. Len(launched) /\ Len(launched) \in Nat
      /\ Child' = 1 .. Len(launched) + 1
      /\ launched' \in Seq(Service)
      /\ launched'[Len(launched) + 1] = s
      /\ \A p \in 1 .. Len(launched) : launched'[p] = launched[p]
  BY <1>1 DEF Child
<1>3. Append(order, Fresh) \in Seq(Nat)
  <2>1. order \in Seq(Nat)
    BY DEF TypeOK
  <2>2. Fresh \in Nat
    BY <1>2 DEF Fresh
  <2> QED BY <2>1, <2>2
<1> QED BY <1>2, <1>3 DEF Fresh, LaunchProcess

\* What is listed next has a number.
LEMMA OrderType ==
    ASSUME TypeOK, NEW p \in Child
    PROVE  Append(order, p) \in Seq(Nat)
<1>1. order \in Seq(Nat) /\ launched \in Seq(Service)
  BY DEF TypeOK
<1>2. p \in Nat
  BY <1>1 DEF Child
<1> QED BY <1>1, <1>2

\* The actions, by the variables that matter to the invariants.
LEMMA StepCases ==
    ASSUME Next
    PROVE  \/ \E s \in Service : BootLaunch(s)
           \/ BootWarmed \/ BootDone \/ EnterLoop
           \/ CheckExits \/ HandleExit \/ Relaunch \/ RelaunchFails
           \/ ListRelaunched
           \/ BeginStop \/ StopProcess \/ Stopped
           \/ \E s \in Service : RestartService(s)
           \/ StartLocal \/ StartLocalLaunch \/ StartLocalSkips \/ StartLocalDone
           \/ Exit \/ Obey \/ Signal \/ ConflictStop
BY DEF Next, Main

-----------------------------------------------------------------------------
(* Type correctness *)

\* A bounded event keeps the count in its bound.
LEMMA EventType ==
    ASSUME events \in 0..MaxEvents, Event
    PROVE  events' \in 0..MaxEvents
BY ServicesAssumption DEF Event

\* What main is about to launch is a service.
LEMMA CurType ==
    ASSUME TypeOK, Positions, pc \in {"waiting", "spawned"}
    PROVE  cur \in Service
BY ServicesAssumption DEF TypeOK, Positions

\* Types and positions are kept together: a launch is typed because of where
\* main is.
LEMMA TypeInv == Spec => [](TypeOK /\ Positions)
<1>1. Init => TypeOK /\ Positions
  <2> SUFFICES ASSUME Init PROVE TypeOK /\ Positions
    OBVIOUS
  <2>1. /\ launched \in Seq(Service) /\ Child = {} /\ 0 \in 0..MaxEvents
        /\ order \in Seq(Nat)
    BY ServicesAssumption DEF Init, Child
  <2> QED BY <2>1 DEF Init, TypeOK, Positions
<1>2. TypeOK /\ Positions /\ [Next]_vars => TypeOK'
  <2> SUFFICES ASSUME TypeOK, Positions, [Next]_vars PROVE TypeOK'
    OBVIOUS
  <2>e. Event => events' \in 0..MaxEvents
    BY EventType DEF TypeOK
  <2>1. ASSUME NEW s \in Service, BootLaunch(s) PROVE TypeOK'
    <3>1. LaunchProcess(s)
      BY <2>1 DEF BootLaunch
    <3> QED BY <2>1, <3>1, LaunchFacts DEF TypeOK, BootLaunch, bus
  <2>2. CASE Relaunch
    <3>1. cur \in Service /\ LaunchProcess(cur)
      BY <2>2, CurType DEF Relaunch
    <3> QED BY <2>2, <3>1, LaunchFacts DEF TypeOK, Relaunch, bus
  <2>3. CASE StartLocalLaunch
    <3>1. Local \in Service /\ LaunchProcess(Local)
      BY <2>3, ServicesAssumption DEF StartLocalLaunch
    <3> QED BY <2>3, <3>1, LaunchFacts DEF TypeOK, StartLocalLaunch, mains
  <2>o. order' \in Seq(Nat)
    <3>0. order \in Seq(Nat)
      BY DEF TypeOK
    <3>1. CASE UNCHANGED order
      BY <3>0, <3>1
    <3>2. CASE BootWarmed \/ ListRelaunched \/ StartLocalDone
      BY <3>1, <3>2, OrderType
      DEF BootWarmed, ListRelaunched, StartLocalDone, TypeOK
    <3>3. ASSUME NEW s \in Service, BootLaunch(s) PROVE order' \in Seq(Nat)
      BY <3>1, <3>3, LaunchFacts DEF BootLaunch
    <3>4. ASSUME NEW s \in Service, RestartService(s) PROVE order' \in Seq(Nat)
      BY <3>1, <3>4 DEF RestartService
    <3>5. CASE \/ BootDone \/ EnterLoop \/ CheckExits \/ HandleExit \/ Relaunch
               \/ RelaunchFails \/ BeginStop \/ StopProcess \/ Stopped
               \/ StartLocal \/ StartLocalLaunch \/ StartLocalSkips \/ Exit
               \/ Obey \/ Signal \/ ConflictStop \/ UNCHANGED vars
      BY <3>1, <3>5
      DEF BootDone, EnterLoop, CheckExits, HandleExit, Relaunch, RelaunchFails,
          BeginStop, StopProcess, Stopped, StartLocal, StartLocalLaunch,
          StartLocalSkips, Exit, Obey, Die, Signal, ConflictStop, lists, vars
    <3> QED BY <3>2, <3>3, <3>4, <3>5, StepCases
  <2>4. CASE BootWarmed \/ BootDone \/ EnterLoop \/ CheckExits \/ HandleExit
    BY <2>4, <2>o, ServicesAssumption
    DEF TypeOK, BootWarmed, BootDone, EnterLoop, CheckExits, HandleExit, Child,
        lists, bus
  <2>5. CASE RelaunchFails
    BY <2>5, <2>e, CurType DEF TypeOK, RelaunchFails, Child, lists, bus
  <2>6. CASE ListRelaunched
    BY <2>6 DEF TypeOK, ListRelaunched, Child, lists, bus
  <2>7. CASE BeginStop \/ StopProcess \/ Stopped
    BY <2>7 DEF TypeOK, BeginStop, StopProcess, Stopped, Child, lists, bus
  <2>8. ASSUME NEW s \in Service, RestartService(s) PROVE TypeOK'
    <3>1. PICK p \in alive : killed' = killed \cup {p}
      BY <2>8 DEF RestartService
    <3> QED BY <2>8, <3>1, <2>e DEF TypeOK, RestartService, Child, mains, bus
  <2>9. CASE StartLocal
    BY <2>9, <2>e DEF TypeOK, StartLocal, Child, mains, lists
  <2>10. CASE StartLocalSkips
    BY <2>10 DEF TypeOK, StartLocalSkips, Child, mains, lists
  <2>11. CASE StartLocalDone
    <3>1. UNCHANGED <<stage, booted, todo, pc, cur, new, shutdown, launched,
                      alive, killed, events>>
      BY <2>11 DEF StartLocalDone, mains
    <3>2. extra \in Child
      BY <2>11 DEF StartLocalDone, TypeOK
    <3>3. /\ procs \subseteq procs' /\ procs' \subseteq procs \cup {extra}
          /\ stale' \subseteq stale \cup {extra}
          /\ orphans' \subseteq orphans \cup {extra}
          /\ dropped' \subseteq dropped /\ known' \subseteq known
          /\ local' = "idle" /\ extra' = 0
      BY <2>11 DEF StartLocalDone
    <3>4. Child' = Child
      BY <3>1 DEF Child
    <3>5. /\ (procs \subseteq Child /\ stale \subseteq Child)'
          /\ (orphans \subseteq Child /\ todo \subseteq procs)'
          /\ (known \subseteq Service /\ dropped \subseteq Service)'
      BY <3>1, <3>2, <3>3, <3>4 DEF TypeOK
    <3>6. /\ (local \in {"idle", "checked", "warming"})'
          /\ (extra \in Child \cup {0} /\ (local = "warming" <=> extra # 0))'
      BY <3>3
    <3>7. /\ (launched \in Seq(Service))'
          /\ (alive \subseteq Child /\ killed \subseteq Child)'
          /\ (new \in Child \cup {0})'
      BY <3>1, <3>4 DEF TypeOK
    <3>8. /\ (stage \in {"boot", "armed", "loop", "stopping", "closing",
                       "stopped", "cut off"})'
          /\ (cur \in Service \cup {None} /\ booted \subseteq Service)'
          /\ (pc \in {"idle", "warming", "waiting", "spawned"})'
          /\ (pc \in {"warming", "spawned"} <=> new # 0)'
          /\ (shutdown \in BOOLEAN /\ events \in 0..MaxEvents)'
      BY <3>1 DEF TypeOK
    <3> QED BY <2>o, <3>5, <3>6, <3>7, <3>8 DEF TypeOK
  <2>12. CASE Exit \/ Obey
    <3>1. /\ alive' \subseteq alive /\ events' \in 0..MaxEvents
          /\ UNCHANGED <<mains, launched, lists, bus, killed>>
      BY <2>12, <2>e DEF Exit, Obey, Die, TypeOK
    <3> QED BY <3>1 DEF TypeOK, Child, mains, lists, bus
  <2>13. CASE Signal
    BY <2>13 DEF TypeOK, Signal, Child, bus
  <2>14. CASE ConflictStop \/ UNCHANGED vars
    BY <2>14 DEF TypeOK, ConflictStop, vars, mains, lists, bus, Child
  <2> QED
    BY <2>1, <2>2, <2>3, <2>4, <2>5, <2>6, <2>7, <2>8, <2>9, <2>10, <2>11,
       <2>12, <2>13, <2>14, StepCases
<1>3. TypeOK /\ Positions /\ [Next]_vars => Positions'
  <2> SUFFICES ASSUME TypeOK, Positions, [Next]_vars PROVE Positions'
    OBVIOUS
  <2>1. ASSUME NEW s \in Service, BootLaunch(s) PROVE Positions'
    <3>1. LaunchProcess(s)
      BY <2>1 DEF BootLaunch
    <3> QED BY <2>1, <3>1, LaunchFacts DEF TypeOK, Positions, BootLaunch, bus
  <2>2. CASE Relaunch
    <3>1. cur \in Service /\ LaunchProcess(cur)
      BY <2>2, CurType DEF Relaunch
    <3> QED
      BY <2>2, <3>1, LaunchFacts DEF TypeOK, Positions, Relaunch, bus
  <2>3. CASE StartLocalLaunch
    <3>1. Local \in Service /\ LaunchProcess(Local)
      BY <2>3, ServicesAssumption DEF StartLocalLaunch
    <3>2. UNCHANGED mains /\ extra' = Fresh
      BY <2>3 DEF StartLocalLaunch
    <3>3. todo \subseteq Child /\ (new # 0 => new \in Child)
      BY DEF TypeOK
    <3>4. todo' \cap alive' = todo \cap alive
      BY <3>1, <3>2, <3>3, LaunchFacts DEF mains
    <3>5. (new # 0 => launched'[new] = launched[new]) /\ launched'[extra'] = Local
      BY <3>1, <3>2, <3>3, LaunchFacts
    <3> QED BY <3>2, <3>4, <3>5 DEF Positions, mains
  <2>o. order' \in Seq(Nat)
    <3>0. order \in Seq(Nat)
      BY DEF TypeOK
    <3>1. CASE UNCHANGED order
      BY <3>0, <3>1
    <3>2. CASE BootWarmed \/ ListRelaunched \/ StartLocalDone
      BY <3>1, <3>2, OrderType
      DEF BootWarmed, ListRelaunched, StartLocalDone, TypeOK
    <3>3. ASSUME NEW s \in Service, BootLaunch(s) PROVE order' \in Seq(Nat)
      BY <3>1, <3>3, LaunchFacts DEF BootLaunch
    <3>4. ASSUME NEW s \in Service, RestartService(s) PROVE order' \in Seq(Nat)
      BY <3>1, <3>4 DEF RestartService
    <3>5. CASE \/ BootDone \/ EnterLoop \/ CheckExits \/ HandleExit \/ Relaunch
               \/ RelaunchFails \/ BeginStop \/ StopProcess \/ Stopped
               \/ StartLocal \/ StartLocalLaunch \/ StartLocalSkips \/ Exit
               \/ Obey \/ Signal \/ ConflictStop \/ UNCHANGED vars
      BY <3>1, <3>5
      DEF BootDone, EnterLoop, CheckExits, HandleExit, Relaunch, RelaunchFails,
          BeginStop, StopProcess, Stopped, StartLocal, StartLocalLaunch,
          StartLocalSkips, Exit, Obey, Die, Signal, ConflictStop, lists, vars
    <3> QED BY <3>2, <3>3, <3>4, <3>5, StepCases
  <2>4. CASE BootWarmed \/ BootDone \/ EnterLoop
    <3>1. todo = {} /\ UNCHANGED <<todo, shutdown, launched, cur, bus>>
      BY <2>4 DEF Positions, BootWarmed, BootDone, EnterLoop, lists
    <3> QED
      BY <2>4, <3>1 DEF Positions, BootWarmed, BootDone, EnterLoop, bus
  <2>5. CASE CheckExits
    BY <2>5 DEF Positions, CheckExits, bus
  <2>6. CASE HandleExit
    <3>1. PICK p \in todo :
            /\ todo' = todo \ {p}
            /\ IF launched[p] \in known
               THEN pc' = "waiting" /\ cur' = launched[p]
               ELSE UNCHANGED <<pc, cur>>
      BY <2>6 DEF HandleExit
    <3>2. launched \in Seq(Service) /\ p \in DOMAIN launched
      BY <3>1 DEF TypeOK, Child
    <3>3. launched[p] \in Service
      BY <3>2
    <3>4. launched[p] # None
      BY <3>3, ServicesAssumption
    <3> QED BY <2>6, <3>1, <3>4 DEF Positions, HandleExit, bus
  <2>7. CASE RelaunchFails \/ ListRelaunched
    BY <2>7 DEF Positions, RelaunchFails, ListRelaunched, bus
  <2>12. CASE BeginStop \/ StopProcess \/ Stopped
    BY <2>12 DEF TypeOK, Positions, BeginStop, StopProcess, Stopped, lists, bus
  <2>8. ASSUME NEW s \in Service, RestartService(s) PROVE Positions'
    BY <2>8 DEF Positions, RestartService, mains, bus
  <2>9. CASE StartLocal \/ StartLocalSkips \/ StartLocalDone
    BY <2>9
    DEF Positions, StartLocal, StartLocalSkips, StartLocalDone, mains, lists
  <2>10. CASE Exit \/ Obey
    BY <2>10 DEF Positions, Exit, Obey, Die, mains, lists, bus
  <2>11. CASE Signal
    BY <2>11 DEF Positions, Signal, bus
  <2>13. CASE ConflictStop \/ UNCHANGED vars
    BY <2>13 DEF Positions, ConflictStop, vars, mains, bus
  <2> QED
    BY <2>1, <2>2, <2>3, <2>4, <2>5, <2>6, <2>7, <2>8, <2>9, <2>10, <2>11,
       <2>12, <2>13, StepCases
<1> QED BY <1>1, <1>2, <1>3, PTL DEF Spec

\* Every variable keeps its type, and a thread has a child in hand exactly
\* where its position says so.
THEOREM TypeCorrect == Spec => []TypeOK
BY TypeInv, PTL

-----------------------------------------------------------------------------
(* The steps of the other parts of the invariant *)

LEMMA PlacesStep ==
    ASSUME TypeOK, Positions, Places, [Next]_vars
    PROVE  Places'
<1>1. ASSUME NEW s \in Service, BootLaunch(s) PROVE Places'
  <2>1. LaunchProcess(s)
    BY <1>1 DEF BootLaunch
  <2> QED BY <1>1, <2>1, LaunchFacts DEF Places, BootLaunch
<1>2. CASE Relaunch
  <2>1. cur \in Service /\ LaunchProcess(cur)
    BY <1>2, CurType DEF Relaunch
  <2>2. cur \in booted \cup {Local}
    BY <1>2, <2>1 DEF Places, Relaunch
  <2> QED BY <1>2, <2>1, <2>2, LaunchFacts DEF Places, Relaunch
<1>3. CASE StartLocalLaunch
  <2>1. Local \in Service /\ LaunchProcess(Local)
    BY <1>3, ServicesAssumption DEF StartLocalLaunch
  <2> QED BY <1>3, <2>1, LaunchFacts DEF Places, StartLocalLaunch, mains
<1>4. CASE BootWarmed \/ BootDone \/ EnterLoop
  BY <1>4 DEF Places, BootWarmed, BootDone, EnterLoop, Child, lists
<1>5. CASE CheckExits \/ HandleExit \/ RelaunchFails \/ ListRelaunched
  BY <1>5
  DEF Places, CheckExits, HandleExit, RelaunchFails, ListRelaunched, Child,
      lists
<1>6. CASE BeginStop \/ StopProcess \/ Stopped
  BY <1>6 DEF Places, BeginStop, StopProcess, Stopped, Child, lists
<1>7. ASSUME NEW s \in Service, RestartService(s) PROVE Places'
  BY <1>7 DEF Places, RestartService, Child, mains
<1>8. CASE StartLocal \/ StartLocalSkips \/ StartLocalDone
  BY <1>8
  DEF Places, StartLocal, StartLocalSkips, StartLocalDone, Child, mains, lists
<1>9. CASE Exit \/ Obey \/ Signal
  BY <1>9 DEF Places, Exit, Obey, Die, Signal, Child, mains, lists
<1>10. CASE ConflictStop \/ UNCHANGED vars
  BY <1>10 DEF Places, ConflictStop, vars, mains, lists, Child
<1> QED
  BY <1>1, <1>2, <1>3, <1>4, <1>5, <1>6, <1>7, <1>8, <1>9, <1>10, StepCases

LEMMA WatchedStep ==
    ASSUME TypeOK, Positions, ChildrenAreWatched, [Next]_vars
    PROVE  ChildrenAreWatched'
<1>1. ASSUME NEW s \in Service, BootLaunch(s) PROVE ChildrenAreWatched'
  <2>1. LaunchProcess(s)
    BY <1>1 DEF BootLaunch
  <2>2. new = 0
    BY <1>1 DEF BootLaunch, TypeOK
  <2> QED
    BY <1>1, <2>1, <2>2, LaunchFacts
    DEF ChildrenAreWatched, InHand, BootLaunch, bus
<1>2. CASE Relaunch
  <2>1. cur \in Service /\ LaunchProcess(cur) /\ new = 0
    BY <1>2, CurType DEF Relaunch, TypeOK
  <2> QED
    BY <1>2, <2>1, LaunchFacts DEF ChildrenAreWatched, InHand, Relaunch, bus
<1>3. CASE StartLocalLaunch
  <2>1. Local \in Service /\ LaunchProcess(Local) /\ extra = 0
    BY <1>3, ServicesAssumption DEF StartLocalLaunch, TypeOK
  <2> QED
    BY <1>3, <2>1, LaunchFacts
    DEF ChildrenAreWatched, InHand, StartLocalLaunch, mains
<1>4. CASE BootWarmed \/ BootDone \/ EnterLoop
  BY <1>4
  DEF ChildrenAreWatched, InHand, BootWarmed, BootDone, EnterLoop, lists, bus
<1>5. CASE CheckExits \/ RelaunchFails \/ ListRelaunched
  BY <1>5
  DEF ChildrenAreWatched, InHand, CheckExits, RelaunchFails, ListRelaunched,
      lists, bus
<1>6. CASE HandleExit
  <2>1. PICK p \in todo : procs' = procs \ {p}
    BY <1>6 DEF HandleExit
  <2>2. p \notin alive
    BY <1>6, <2>1 DEF Positions, HandleExit
  <2> QED BY <1>6, <2>1, <2>2 DEF ChildrenAreWatched, InHand, HandleExit, bus
<1>7. CASE BeginStop \/ StopProcess \/ Stopped
  BY <1>7
  DEF ChildrenAreWatched, InHand, BeginStop, StopProcess, Stopped, lists, bus
<1>8. ASSUME NEW s \in Service, RestartService(s) PROVE ChildrenAreWatched'
  BY <1>8 DEF ChildrenAreWatched, InHand, RestartService, mains, bus
<1>9. CASE StartLocal \/ StartLocalSkips
  BY <1>9
  DEF ChildrenAreWatched, InHand, StartLocal, StartLocalSkips, mains, lists
<1>10. CASE StartLocalDone
  BY <1>10 DEF ChildrenAreWatched, InHand, StartLocalDone, mains
<1>11. CASE Exit \/ Obey
  BY <1>11 DEF ChildrenAreWatched, InHand, Exit, Obey, Die, mains, lists, bus
<1>12. CASE Signal
  BY <1>12 DEF ChildrenAreWatched, InHand, Signal, bus
<1>13. CASE ConflictStop \/ UNCHANGED vars
  BY <1>13 DEF ChildrenAreWatched, InHand, ConflictStop, vars, mains, lists, bus
<1> QED
  BY <1>1, <1>2, <1>3, <1>4, <1>5, <1>6, <1>7, <1>8, <1>9, <1>10, <1>11,
     <1>12, <1>13, StepCases

\* A restart launches only what has no other child: the exit that it answers
\* took the last one from the list.
LEMMA OnePlaceStep ==
    ASSUME TypeOK, Positions, Places, OnePlace, [Next]_vars
    PROVE  OnePlace'
<1>0. Here \subseteq Child
  BY DEF Here, TypeOK
<1>1. ASSUME NEW s \in Service, BootLaunch(s) PROVE OnePlace'
  <2>1. LaunchProcess(s) /\ pc' # "waiting" /\ s \notin booted /\ new = 0
    BY <1>1 DEF BootLaunch, TypeOK
  <2>2. Here' = Here \cup {Fresh}
    BY <1>1, <2>1, LaunchFacts DEF BootLaunch, Here
  <2>3. \A p \in Here : launched[p] # s \/ s = Local
    BY <1>0, <2>1 DEF Places
  <2> QED BY <1>0, <2>1, <2>2, <2>3, LaunchFacts DEF OnePlace
<1>2. CASE Relaunch
  <2>1. cur \in Service /\ LaunchProcess(cur) /\ pc' # "waiting" /\ new = 0
    BY <1>2, CurType DEF Relaunch, TypeOK
  <2>2. Here' = Here \cup {Fresh}
    BY <1>2, <2>1, LaunchFacts DEF Relaunch, Here
  <2>3. \A p \in Here : launched[p] # cur \/ cur = Local
    BY <1>2 DEF OnePlace, Relaunch
  <2> QED BY <1>0, <2>1, <2>2, <2>3, LaunchFacts DEF OnePlace
<1>3. CASE StartLocalLaunch
  <2>1. /\ Local \in Service /\ LaunchProcess(Local)
        /\ UNCHANGED <<pc, cur, new, procs>>
    BY <1>3, ServicesAssumption DEF StartLocalLaunch, mains
  <2>2. Here' = Here \cup {Fresh}
    BY <2>1, LaunchFacts DEF Here
  <2> QED BY <1>0, <2>1, <2>2, LaunchFacts DEF OnePlace
<1>4. CASE BootWarmed \/ BootDone \/ EnterLoop \/ CheckExits \/ RelaunchFails
  <2>1. Here' \subseteq Here /\ pc' # "waiting" /\ UNCHANGED launched
    BY <1>4
    DEF BootWarmed, BootDone, EnterLoop, CheckExits, RelaunchFails, Here,
        lists, Positions
  <2> QED BY <2>1 DEF OnePlace
<1>5. CASE HandleExit
  <2>1. PICK p \in todo :
          /\ procs' = procs \ {p}
          /\ IF launched[p] \in known
             THEN pc' = "waiting" /\ cur' = launched[p]
             ELSE UNCHANGED <<pc, cur>>
    BY <1>5 DEF HandleExit
  <2>2. p \notin alive /\ p \in procs /\ new = 0 /\ pc = "idle"
    BY <1>5, <2>1 DEF Positions, HandleExit, TypeOK
  <2>3. Here' = Here \ {p} /\ p \in Here /\ UNCHANGED launched
    BY <1>5, <2>1, <2>2 DEF HandleExit, Here
  <2>4. \A q \in Here' : launched[p] # Local => launched[q] # launched[p]
    BY <2>3 DEF OnePlace
  <2> QED BY <2>1, <2>2, <2>3, <2>4 DEF OnePlace
<1>6. CASE ListRelaunched
  <2>1. Here' \subseteq Here /\ pc' # "waiting" /\ UNCHANGED launched
    BY <1>6 DEF ListRelaunched, Here, TypeOK
  <2> QED BY <2>1 DEF OnePlace
<1>7. CASE BeginStop \/ StopProcess \/ Stopped
  <2>1. Here' \subseteq Here /\ UNCHANGED <<launched, pc, cur>>
    BY <1>7 DEF BeginStop, StopProcess, Stopped, Here, lists
  <2> QED BY <2>1 DEF OnePlace
<1>8. ASSUME NEW s \in Service, RestartService(s) PROVE OnePlace'
  BY <1>8 DEF OnePlace, Here, RestartService, mains
<1>9. CASE StartLocal \/ StartLocalSkips
  BY <1>9 DEF OnePlace, Here, StartLocal, StartLocalSkips, mains, lists
<1>10. CASE StartLocalDone
  <2>1. /\ Here' \subseteq Here \cup {extra} /\ launched[extra] = Local
        /\ UNCHANGED <<launched, pc, cur>>
    BY <1>10 DEF StartLocalDone, Here, mains, TypeOK, Positions
  <2> QED BY <2>1 DEF OnePlace
<1>11. CASE Exit \/ Obey
  <2>1. Here' \subseteq Here /\ UNCHANGED <<launched, pc, cur>>
    BY <1>11 DEF Exit, Obey, Die, Here, mains, lists
  <2> QED BY <2>1 DEF OnePlace
<1>12. CASE Signal
  <2>1. Here' \subseteq Here /\ pc' # "waiting" /\ UNCHANGED launched
    BY <1>12 DEF Signal, Here
  <2> QED BY <2>1 DEF OnePlace
<1>13. CASE ConflictStop \/ UNCHANGED vars
  BY <1>13 DEF OnePlace, Here, ConflictStop, vars, mains, lists
<1> QED
  BY <1>1, <1>2, <1>3, <1>4, <1>5, <1>6, <1>7, <1>8, <1>9, <1>10, <1>11,
     <1>12, <1>13, StepCases

\* Where a child of service s is still to be found.
LEMMA KeptStep ==
    ASSUME TypeOK, Positions, Places, Kept, [Next]_vars
    PROVE  Kept'
<1>0. procs \cup InHand \cup orphans \subseteq Child
  BY DEF InHand, TypeOK
<1>1. ASSUME NEW s \in Service, BootLaunch(s) PROVE Kept'
  <2>1. LaunchProcess(s) /\ stage = "boot" /\ new = 0
    BY <1>1 DEF BootLaunch, TypeOK
  <2>2. /\ procs \cup InHand \cup orphans \subseteq procs' \cup InHand' \cup orphans'
        /\ Fresh \in procs' \cup InHand'
    BY <1>1, <2>1, LaunchFacts DEF BootLaunch, InHand, bus
  <2> QED
    BY <1>0, <1>1, <2>1, <2>2, LaunchFacts DEF Kept, BootLaunch
<1>2. CASE Relaunch
  <2>1. cur \in Service /\ LaunchProcess(cur) /\ new = 0
    BY <1>2, CurType DEF Relaunch, TypeOK
  <2>2. /\ procs \cup InHand \cup orphans \subseteq procs' \cup InHand' \cup orphans'
        /\ Fresh \in InHand'
    BY <1>2, <2>1, LaunchFacts DEF Relaunch, InHand, bus
  <2> QED BY <1>0, <1>2, <2>1, <2>2, LaunchFacts DEF Kept, Relaunch
<1>3. CASE StartLocalLaunch
  <2>1. Local \in Service /\ LaunchProcess(Local) /\ extra = 0
    BY <1>3, ServicesAssumption DEF StartLocalLaunch, TypeOK
  <2>2. /\ procs \cup InHand \cup orphans \subseteq procs' \cup InHand' \cup orphans'
        /\ Fresh \in InHand'
    BY <1>3, <2>1, LaunchFacts DEF StartLocalLaunch, InHand, mains
  <2>3. UNCHANGED <<stage, cur, dropped>>
    BY <1>3 DEF StartLocalLaunch, mains
  <2> QED BY <1>0, <2>1, <2>2, <2>3, LaunchFacts DEF Kept
<1>4. CASE BootWarmed
  <2>1. /\ stage = "boot" /\ UNCHANGED <<stage, cur, launched, orphans, extra>>
        /\ launched[new] = Local /\ new # 0 /\ new' = 0
    BY <1>4 DEF BootWarmed, Positions, TypeOK, bus
  <2>2. CASE new \in alive
    <3>1. /\ procs' \cup InHand' \cup orphans' = procs \cup InHand \cup orphans
          /\ UNCHANGED <<known, dropped>>
      BY <1>4, <2>1, <2>2 DEF BootWarmed, InHand
    <3> QED BY <2>1, <3>1 DEF Kept
  <2>3. CASE new \notin alive
    <3>1. /\ known' = known \ {Local} /\ dropped \subseteq dropped'
          /\ (procs \cup InHand \cup orphans) \ {new}
               \subseteq procs' \cup InHand' \cup orphans'
      BY <1>4, <2>1, <2>3 DEF BootWarmed, InHand
    <3> QED BY <2>1, <3>1 DEF Kept
  <2> QED BY <2>2, <2>3
<1>5. CASE BootDone \/ EnterLoop
  <2>1. /\ UNCHANGED <<known, procs, new, extra, orphans, launched, cur, dropped>>
        /\ stage \in {"boot", "armed", "loop"}
    BY <1>5 DEF BootDone, EnterLoop, lists, bus
  <2> QED BY <2>1 DEF Kept, InHand
<1>6. CASE CheckExits
  BY <1>6 DEF Kept, InHand, CheckExits, lists, bus
<1>7. CASE HandleExit
  <2>1. PICK p \in todo :
          /\ procs' = procs \ {p}
          /\ IF launched[p] \in known
             THEN cur' = launched[p]
             ELSE UNCHANGED cur
    BY <1>7 DEF HandleExit
  <2>2. cur = None /\ known \subseteq Service /\ None \notin Service
    BY <1>7, ServicesAssumption DEF HandleExit, Positions, TypeOK
  <2>3. /\ stage = "loop" /\ UNCHANGED <<known, launched, dropped>>
        /\ (procs \cup InHand \cup orphans) \ {p}
             \subseteq procs' \cup InHand' \cup orphans'
    BY <1>7, <2>1 DEF HandleExit, InHand, bus
  <2> QED BY <2>1, <2>2, <2>3 DEF Kept
<1>8. CASE RelaunchFails
  BY <1>8 DEF Kept, InHand, RelaunchFails, lists, bus
<1>9. CASE ListRelaunched
  <2>1. new # 0 /\ launched[new] = cur /\ new' = 0
    BY <1>9 DEF ListRelaunched, TypeOK, Positions
  <2>2. /\ UNCHANGED <<stage, known, launched, dropped>>
        /\ new \in procs'
        /\ procs \cup InHand \cup orphans \subseteq procs' \cup InHand' \cup orphans'
    BY <1>9, <2>1 DEF ListRelaunched, InHand, bus
  <2> QED BY <1>9, <2>1, <2>2 DEF Kept, ListRelaunched
<1>10. CASE BeginStop \/ StopProcess \/ Stopped
  BY <1>10 DEF Kept, BeginStop, StopProcess, Stopped
<1>11. ASSUME NEW s \in Service, RestartService(s) PROVE Kept'
  <2>1. PICK p \in ManagedProcs \cap alive : launched[p] = s
    BY <1>11 DEF RestartService
  <2>2. p \in procs \cup orphans
    BY <2>1 DEF ManagedProcs, Places
  <2> QED BY <1>11, <2>1, <2>2 DEF Kept, InHand, RestartService, mains, bus
<1>12. CASE StartLocal \/ StartLocalSkips
  BY <1>12 DEF Kept, InHand, StartLocal, StartLocalSkips, mains, lists
<1>13. CASE StartLocalDone
  <2>1. /\ UNCHANGED <<stage, new, cur, launched>>
        /\ launched[extra] = Local /\ extra # 0 /\ extra' = 0
    BY <1>13 DEF StartLocalDone, Positions, TypeOK, mains
  <2>2. CASE extra \in alive
    <3>1. /\ dropped' = dropped \ {Local} /\ UNCHANGED known
          /\ stage \in {"boot", "armed", "loop"} =>
               extra \in procs' \cup orphans'
          /\ (procs \cup InHand \cup orphans) \ {extra}
               \subseteq procs' \cup InHand' \cup orphans'
      BY <1>13, <2>1, <2>2 DEF StartLocalDone, InHand
    <3> QED BY <2>1, <3>1 DEF Kept
  <2>3. CASE extra \notin alive
    <3>1. /\ known' = known \ {Local} /\ UNCHANGED dropped
          /\ (procs \cup InHand \cup orphans) \ {extra}
               \subseteq procs' \cup InHand' \cup orphans'
      BY <1>13, <2>1, <2>3 DEF StartLocalDone, InHand
    <3> QED BY <2>1, <3>1 DEF Kept
  <2> QED BY <2>2, <2>3
<1>14. CASE Exit \/ Obey
  BY <1>14 DEF Kept, InHand, Exit, Obey, Die, mains, lists, bus
<1>15. CASE Signal \/ ConflictStop
  BY <1>15 DEF Kept, Signal, ConflictStop
<1>16. CASE UNCHANGED vars
  BY <1>16 DEF Kept, InHand, vars, mains, lists, bus
<1> QED
  BY <1>1, <1>2, <1>3, <1>4, <1>5, <1>6, <1>7, <1>8, <1>9, <1>10, <1>11,
     <1>12, <1>13, <1>14, <1>15, <1>16, StepCases

LEMMA LeavingStep ==
    ASSUME TypeOK, Positions, ChildrenAreWatched, Leaving, [Next]_vars
    PROVE  Leaving'
<1>1. ASSUME NEW s \in Service, BootLaunch(s) PROVE Leaving'
  BY <1>1 DEF Leaving, BootLaunch
<1>2. CASE BootWarmed \/ BootDone \/ EnterLoop
  BY <1>2 DEF Leaving, Positions, BootWarmed, BootDone, EnterLoop
<1>3. CASE CheckExits \/ HandleExit \/ Relaunch \/ RelaunchFails \/ ListRelaunched
  BY <1>3
  DEF Leaving, CheckExits, HandleExit, Relaunch, RelaunchFails, ListRelaunched
<1>4. CASE BeginStop
  <2>1. new = 0
    BY <1>4 DEF BeginStop, Positions, TypeOK
  <2> QED
    BY <1>4, <2>1
    DEF Leaving, BeginStop, ChildrenAreWatched, InHand, lists, bus
<1>5. CASE StopProcess \/ Stopped
  BY <1>5 DEF Leaving, StopProcess, Stopped, lists, bus
<1>6. ASSUME NEW s \in Service, RestartService(s) PROVE Leaving'
  BY <1>6 DEF Leaving, RestartService, mains, bus
<1>7. CASE StartLocal \/ StartLocalSkips
  BY <1>7 DEF Leaving, StartLocal, StartLocalSkips, mains, lists
<1>8. CASE StartLocalLaunch
  <2>1. /\ Local \in Service /\ LaunchProcess(Local) /\ extra = 0
        /\ extra' = Fresh /\ stage # "stopped" /\ UNCHANGED <<stage, todo, orphans>>
    BY <1>8, ServicesAssumption DEF StartLocalLaunch, TypeOK, mains, BusUp
  <2> QED BY <2>1, LaunchFacts DEF Leaving
<1>9. CASE StartLocalDone
  BY <1>9 DEF Leaving, StartLocalDone, mains, BusUp
<1>10. CASE Exit \/ Obey
  BY <1>10 DEF Leaving, Exit, Obey, Die, mains, lists, bus
<1>11. CASE Signal \/ ConflictStop
  BY <1>11 DEF Leaving, Signal, ConflictStop
<1>12. CASE UNCHANGED vars
  BY <1>12 DEF Leaving, vars, mains, lists, bus
<1> QED
  BY <1>1, <1>2, <1>3, <1>4, <1>5, <1>6, <1>7, <1>8, <1>9, <1>10, <1>11,
     <1>12, StepCases

-----------------------------------------------------------------------------
(* The safety properties *)

\* The inductive invariant holds throughout.
LEMMA Invariance == Spec => []IInv
<1>1. Init => Whereabouts
  <2> SUFFICES ASSUME Init PROVE Whereabouts
    OBVIOUS
  <2>1. Child = {}
    BY DEF Init, Child
  <2>2. Places
    BY <2>1, ServicesAssumption DEF Init, Places
  <2>3. ChildrenAreWatched /\ Leaving
    BY DEF Init, ChildrenAreWatched, Leaving
  <2>4. OnePlace /\ Kept
    BY DEF Init, OnePlace, Here, Kept
  <2> QED BY <2>2, <2>3, <2>4 DEF Whereabouts
<1>2. IInv /\ [Next]_vars => Whereabouts'
  BY PlacesStep, WatchedStep, OnePlaceStep, KeptStep, LeavingStep
  DEF IInv, Whereabouts
<1> QED BY <1>1, <1>2, TypeInv, PTL DEF Spec, IInv

\* handle_runner_exits and start_local_server between them lose sight of no
\* child that runs, but for the cases that ChildrenAreWatched names.
THEOREM Watched == Spec => []ChildrenAreWatched
<1>1. IInv => ChildrenAreWatched
  BY DEF IInv, Whereabouts
<1> QED BY <1>1, Invariance, PTL

\* Every service that was launched is watched, on its way back or known to
\* have failed, as long as the loop runs.
THEOREM ServicesAreKept == Spec => []ServiceIsKept
<1>1. IInv => ServiceIsKept
  BY DEF IInv, Whereabouts, Kept, Places, ServiceIsKept
<1> QED BY <1>1, Invariance, PTL

\* A relaunch never meets a running child of the same service, whatever exits
\* and restart requests come together; the local model server is apart.
THEOREM OneChild == Spec => []OneChildPerService
<1>1. IInv => OneChildPerService
  BY DEF IInv, Whereabouts, OnePlace, Here, OneChildPerService
<1> QED BY <1>1, Invariance, PTL

\* After the cleanup of main no child runs but those nobody could see.
THEOREM NothingIsLeft == Spec => []StopLeavesNothing
<1>1. IInv => StopLeavesNothing
  BY DEF IInv, Whereabouts, Leaving, StopLeavesNothing
<1> QED BY <1>1, Invariance, PTL

-----------------------------------------------------------------------------
(* Who the orphans are *)

Writer(p) == launched[p] # Local

\* Until a signal comes, a child that no list will hold is a local model server;
\* a signal adds one other child, the one whose launch it interrupted.
OrphansAreFew ==
    /\ ~shutdown => \A p \in orphans : ~ Writer(p)
    /\ \A p, q \in orphans : Writer(p) /\ Writer(q) => p = q

LEMMA OrphansStep ==
    ASSUME TypeOK, Positions, OrphansAreFew, [Next]_vars
    PROVE  OrphansAreFew'
<1>1. ASSUME UNCHANGED <<orphans, shutdown>>, \A p \in Child : launched'[p] = launched[p]
      PROVE  OrphansAreFew'
  BY <1>1 DEF OrphansAreFew, Writer, TypeOK
<1>2. ASSUME UNCHANGED <<launched, shutdown>>, orphans' \subseteq orphans \cup ({extra} \ {0})
      PROVE  OrphansAreFew'
  BY <1>2 DEF OrphansAreFew, Writer, Positions
<1>3. ASSUME NEW s \in Service, BootLaunch(s) PROVE OrphansAreFew'
  <2>1. LaunchProcess(s) /\ UNCHANGED <<orphans, shutdown>>
    BY <1>3 DEF BootLaunch
  <2> QED BY <1>1, <2>1, LaunchFacts
<1>4. CASE Relaunch
  <2>1. cur \in Service /\ LaunchProcess(cur) /\ UNCHANGED <<orphans, shutdown>>
    BY <1>4, CurType DEF Relaunch
  <2> QED BY <1>1, <2>1, LaunchFacts
<1>5. CASE StartLocalLaunch
  <2>1. /\ Local \in Service /\ LaunchProcess(Local)
        /\ UNCHANGED <<orphans, shutdown>>
    BY <1>5, ServicesAssumption DEF StartLocalLaunch, mains
  <2> QED BY <1>1, <2>1, LaunchFacts
<1>6. CASE BootWarmed \/ BootDone \/ EnterLoop \/ CheckExits \/ HandleExit
           \/ RelaunchFails \/ ListRelaunched \/ BeginStop \/ StopProcess
  BY <1>2, <1>6
  DEF BootWarmed, BootDone, EnterLoop, CheckExits, HandleExit, RelaunchFails,
      ListRelaunched, BeginStop, StopProcess, lists
<1>7. CASE Stopped \/ StartLocalDone
  <2>1. /\ UNCHANGED <<launched, shutdown>>
        /\ orphans' \subseteq orphans \cup ({extra} \ {0})
    BY <1>7 DEF Stopped, StartLocalDone, TypeOK, mains
  <2> QED BY <1>2, <2>1
<1>8. ASSUME NEW s \in Service, RestartService(s) PROVE OrphansAreFew'
  BY <1>2, <1>8 DEF RestartService, mains
<1>9. CASE StartLocal \/ StartLocalSkips \/ Exit \/ Obey
  BY <1>2, <1>9 DEF StartLocal, StartLocalSkips, Exit, Obey, Die, mains, lists
<1>10. CASE Signal
  <2>1. /\ ~ shutdown /\ shutdown' = TRUE /\ UNCHANGED launched
        /\ orphans' = orphans \cup ({new} \ {0})
    BY <1>10 DEF Signal
  <2> QED BY <2>1 DEF OrphansAreFew, Writer
<1>11. CASE ConflictStop
  BY <1>11 DEF OrphansAreFew, Writer, ConflictStop, lists
<1>12. CASE UNCHANGED vars
  BY <1>2, <1>12 DEF vars, mains, lists
<1> QED
  BY <1>3, <1>4, <1>5, <1>6, <1>7, <1>8, <1>9, <1>10, <1>11, <1>12, StepCases

LEMMA OrphansInvariance == Spec => [](IInv /\ OrphansAreFew)
<1>1. Init => OrphansAreFew
  BY DEF Init, OrphansAreFew
<1>2. IInv /\ OrphansAreFew /\ [Next]_vars => OrphansAreFew'
  BY OrphansStep DEF IInv
<1> QED BY <1>1, <1>2, Invariance, PTL DEF Spec

\* While the supervisor is at work, every child that runs and writes the journal is
\* in the list that the loop looks through, or about to join it.
WritersAreWatched ==
    ~ shutdown => \A p \in alive : Writer(p) => p \in procs \cup InHand

\* ChildrenAreWatched without its exceptions, for all services but the local model
\* server (supervisor.py:1513-1515, 2091-2106).
THEOREM WritersWatched == Spec => []WritersAreWatched
<1>1. IInv /\ OrphansAreFew => WritersAreWatched
  BY DEF IInv, Whereabouts, ChildrenAreWatched, OrphansAreFew, WritersAreWatched
<1> QED BY <1>1, OrphansInvariance, PTL

\* The cleanup leaves one running journal writer at most.
AtMostOneIsLeft ==
    stage = "stopped" => \A p, q \in alive : Writer(p) /\ Writer(q) => p = q

\* What StopLeavesNothing leaves open: a signal between a child's spawn and its
\* listing costs that child, and never more (supervisor.py:2091-2106, 2666-2684).
THEOREM OneIsLeft == Spec => []AtMostOneIsLeft
<1>1. IInv /\ OrphansAreFew => AtMostOneIsLeft
  BY DEF IInv, Whereabouts, Leaving, OrphansAreFew, AtMostOneIsLeft
<1> QED BY <1>1, OrphansInvariance, PTL

=============================================================================
