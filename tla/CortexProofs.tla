----------------------------- MODULE CortexProofs -----------------------------
(***************************************************************************)
(* Proofs about Cortex, for every set of uses, every output of a talent    *)
(* and every bound: type correctness, that a completed log is conclusive   *)
(* and is never added to, that a live log has an owner, that an answer     *)
(* heard is in the log, that a use never runs twice, that a running talent *)
(* has its timer, and that neither stop nor the exit leaves one behind.    *)
(***************************************************************************)
EXTENDS Cortex, FiniteSetTheorems, TLAPS

----------------------------------------------------------------------------
(* Logs *)

LEMMA VerdictsAreEvents == Verdicts \subseteq Events
  BY DEF Verdicts, Events

LEMMA AppendedType ==
  ASSUME NEW log \in Log, NEW e \in Events
  PROVE  Appended(log, e) \in Log /\ Appended(log, e) # None
<1>1. Appended(log, e) \in Seq(Events)
  BY DEF Appended, Log
<1> QED  BY <1>1, NoneAssumption DEF Log

LEMMA LogToType ==
  ASSUME TypeOK, NEW u \in Uses, NEW e \in Events, LogTo(u, e)
  PROVE  /\ active' \in [Uses -> Log] /\ active'[u] = Appended(active[u], e)
         /\ \A v \in Uses : active'[v] = active[v] \/ (v = u /\ active'[v] # None)
<1>1. active[u] \in Log
  BY DEF TypeOK
<1>2. Appended(active[u], e) \in Log /\ Appended(active[u], e) # None
  BY <1>1, AppendedType
<1> QED  BY <1>2 DEF LogTo, TypeOK

LEMMA CompleteType ==
  ASSUME TypeOK, NEW u \in Uses, Complete(u)
  PROVE  active' \in [Uses -> Log] /\ done' \in [Uses -> Log]
<1>1. active[u] \in Log /\ None \in Log
  BY DEF TypeOK, Log
<1> QED  BY <1>1 DEF Complete, TypeOK

\* Appending keeps a log conclusive, and a final event makes it so.
LEMMA AppendedFinish ==
  ASSUME NEW log \in Log, NEW e \in Events, HasFinish(log) \/ e \in {"finish", "error"}
  PROVE  HasFinish(Appended(log, e))
<1>1. Appended(log, e) # None
  BY AppendedType
<1>2. CASE log = None
  <2>1. e \in {"finish", "error"} /\ Appended(log, e) = <<e>>
    BY <1>2 DEF HasFinish, Appended
  <2>2. e \in Range(<<e>>)
    BY DEF Range
  <2> QED  BY <1>1, <2>1, <2>2 DEF HasFinish
<1>3. CASE log # None
  <2>1. log \in Seq(Events) /\ Appended(log, e) = Append(log, e)
    BY <1>3 DEF Appended, Log
  <2>2. \A i \in DOMAIN log : i \in DOMAIN Append(log, e) /\ Append(log, e)[i] = log[i]
    BY <2>1
  <2>3. Range(log) \subseteq Range(Append(log, e))
    BY <2>2 DEF Range
  <2>4. Len(log) + 1 \in DOMAIN Append(log, e) /\ Append(log, e)[Len(log) + 1] = e
    BY <2>1
  <2>5. e \in Range(Append(log, e))
    BY <2>4 DEF Range
  <2> QED  BY <1>1, <2>1, <2>3, <2>5 DEF HasFinish
<1> QED  BY <1>2, <1>3

----------------------------------------------------------------------------
(* Type correctness *)

\* The monitor broadcasts the event it has just appended.
Emitting == \A u \in Uses : out[u] = "emitting" => pipe[u] # <<>>

LEMMA HeardType ==
  ASSUME TypeOK, NEW u \in Uses, NEW e, Heard(u, e)
  PROVE  /\ wait' \in [Uses -> {"idle", "listening", "waiting"} \cup Answers]
         /\ linked' \in [Uses -> BOOLEAN]
<1>1. CASE UNCHANGED waiter
  BY <1>1 DEF TypeOK, waiter
<1>2. CASE /\ wait' = [wait EXCEPT ![u] = IF e = "finish" THEN "finish" ELSE "error"]
           /\ linked' = [linked EXCEPT ![u] = FALSE]
  BY <1>2 DEF TypeOK, Answers
<1> QED  BY <1>1, <1>2 DEF Heard

LEMMA TypeStep ==
  ASSUME TypeOK, Emitting, [Next]_vars
  PROVE  TypeOK' /\ Emitting'
<1> USE DEF logs, service, threads, waiter
<1>1. CASE UNCHANGED vars
  BY <1>1 DEF vars, TypeOK, Emitting
<1>2. CASE Service
  <2>1. CASE Gone /\ stops' \in Nat
    <3>1. pipe' \in [Uses -> Seq(Verdicts)]
      BY <2>1 DEF Gone
    <3>2. child' \in [Uses -> {"none", "running", "signalled", "ok", "failed", "gone"}]
      BY <2>1 DEF Gone
    <3>3. /\ out' = [u \in Uses |-> "none"] /\ err' = [u \in Uses |-> "none"]
          /\ timer' = [u \in Uses |-> "none"] /\ running' = {} /\ handling' = None
          /\ phase' = "down" /\ shutdown' = FALSE
      BY <2>1 DEF Gone
    <3>4. /\ active' \in [Uses -> Log] /\ done' \in [Uses -> Log]
          /\ wait' \in [Uses -> {"idle", "listening", "waiting"} \cup Answers]
          /\ linked' \in [Uses -> BOOLEAN] /\ asked' \in [Uses -> Nat]
      BY <2>1 DEF Gone, TypeOK
    <3> QED  BY <2>1, <3>1, <3>2, <3>3, <3>4 DEF TypeOK, Phases, Emitting
  <2>2. CASE Start \/ Recovered \/ RequestShutdown \/ ExitIdle \/ Stop \/ Stopped
    <3>1. /\ UNCHANGED <<logs, handling, running, child, pipe, threads, waiter, asked>>
          /\ phase' \in Phases /\ shutdown' \in BOOLEAN /\ stops' \in Nat
      <4> USE DEF TypeOK, Phases
      <4>1. CASE Start BY <4>1 DEF Start
      <4>2. CASE Recovered BY <4>2 DEF Recovered
      <4>3. CASE RequestShutdown BY <4>3 DEF RequestShutdown
      <4>4. CASE ExitIdle BY <4>4 DEF ExitIdle
      <4>5. CASE Stop BY <4>5 DEF Stop
      <4>6. CASE Stopped BY <4>6 DEF Stopped
      <4> QED  BY <2>2, <4>1, <4>2, <4>3, <4>4, <4>5, <4>6
    <3> QED  BY <3>1 DEF TypeOK, Emitting
  <2>3. CASE Quit
    BY <2>1, <2>3 DEF Quit, TypeOK
  <2>4. CASE Crash
    BY <2>1, <2>4 DEF Crash, TypeOK
  <2> QED  BY <1>2, <2>2, <2>3, <2>4 DEF Service
<1>3. ASSUME NEW u \in Uses, Use(u) PROVE TypeOK' /\ Emitting'
  <2>0. {"request", "error"} \subseteq Events
    BY DEF Events
  <2>1. CASE Accept(u)
    <3>1. asked' \in [Uses -> Nat]
      BY <2>1 DEF Accept, TypeOK
    <3>2. active' \in [Uses -> Log]
      BY <2>0, <2>1, LogToType DEF Accept, TypeOK
    <3>3. handling' \in Steps \cup {None}
      BY <2>1 DEF Accept, To, TypeOK, Steps
    <3>4. UNCHANGED <<done, phase, shutdown, running, child, pipe, threads, waiter, stops>>
      BY <2>1 DEF Accept
    <3> QED  BY <3>1, <3>2, <3>3, <3>4 DEF TypeOK, Emitting
  <2>2. CASE Spawn(u)
    <3>1. pipe' \in [Uses -> Seq(Verdicts)]
      BY <2>2, OutputsAssumption DEF Spawn, TypeOK
    <3>2. /\ out' = [out EXCEPT ![u] = "reading"] /\ err' = [err EXCEPT ![u] = "reading"]
          /\ timer' = [timer EXCEPT ![u] = "armed"] /\ child' = [child EXCEPT ![u] = "running"]
          /\ running' = running \cup {u} /\ handling' = None
          /\ UNCHANGED <<logs, phase, shutdown, waiter, asked, stops>>
          /\ \A v \in Uses : v # u => pipe'[v] = pipe[v]
      BY <2>2 DEF Spawn, TypeOK
    <3> QED  BY <3>1, <3>2 DEF TypeOK, Emitting
  <2>3. CASE SpawnFails(u)
    <3>1. active' \in [Uses -> Log]
      BY <2>0, <2>3, LogToType DEF SpawnFails
    <3> QED  BY <2>3, <3>1 DEF SpawnFails, To, Steps, TypeOK, Emitting
  <2>4. CASE CompleteUse(u) \/ CompleteRecovered(u)
    <3>1. active' \in [Uses -> Log] /\ done' \in [Uses -> Log]
      BY <2>4, CompleteType DEF CompleteUse, CompleteRecovered
    <3> QED  BY <2>4, <3>1 DEF CompleteUse, CompleteRecovered, TypeOK, Emitting
  <2>5. CASE Exit(u)
    <3>1. PICK code \in {"ok", "failed"} : child' = [child EXCEPT ![u] = code]
      BY <2>5 DEF Exit
    <3>2. PICK printed \in Prefixes(pipe[u]) :
            /\ out[u] = "emitting" => printed # <<>>
            /\ pipe' = [pipe EXCEPT ![u] = printed]
      BY <2>5 DEF Exit
    <3>3. pipe[u] \in Seq(Verdicts)
      BY DEF TypeOK
    <3>4. PICK l \in 0 .. Len(pipe[u]) : printed = SubSeq(pipe[u], 1, l)
      BY DEF Prefixes
    <3>5. printed \in Seq(Verdicts)
      BY <3>3, <3>4
    <3> QED  BY <2>5, <3>1, <3>2, <3>5 DEF Exit, TypeOK, Emitting
  <2>6. CASE LogEvent(u)
    <3>1. Head(pipe[u]) \in Events
      BY <2>6, VerdictsAreEvents DEF LogEvent, TypeOK
    <3>2. active' \in [Uses -> Log]
      BY <2>6, <3>1, LogToType DEF LogEvent
    <3> QED  BY <2>6, <3>2 DEF LogEvent, TypeOK, Emitting
  <2>7. CASE EmitEvent(u)
    <3>1. pipe[u] \in Seq(Verdicts) /\ pipe[u] # <<>>
      BY <2>7 DEF EmitEvent, TypeOK, Emitting
    <3>2. Tail(pipe[u]) \in Seq(Verdicts) /\ <<>> \in Seq(Verdicts)
      BY <3>1
    <3>3. /\ wait' \in [Uses -> {"idle", "listening", "waiting"} \cup Answers]
          /\ linked' \in [Uses -> BOOLEAN]
      BY <2>7, HeardType DEF EmitEvent
    <3>4. \/ /\ out' = [out EXCEPT ![u] = "reading"]
             /\ pipe' = [pipe EXCEPT ![u] = Tail(pipe[u])]
          \/ out' = [out EXCEPT ![u] = "leaving"] /\ pipe' = [pipe EXCEPT ![u] = <<>>]
      BY <2>7 DEF EmitEvent
    <3>5. pipe' \in [Uses -> Seq(Verdicts)]
      BY <3>2, <3>4, ZenonT(60) DEF TypeOK
    <3>6. \A v \in Uses : out'[v] = "emitting" => pipe'[v] # <<>>
      BY <3>4 DEF TypeOK, Emitting
    <3>7. UNCHANGED <<logs, service, child, err, timer, asked, stops>>
      BY <2>7 DEF EmitEvent
    <3> QED  BY <3>3, <3>4, <3>5, <3>6, <3>7 DEF TypeOK, Emitting, logs, service
  <2>8. CASE Reap(u) \/ Release(u)
    BY <2>8 DEF Reap, Release, TypeOK, Emitting
  <2>9. CASE LogNoFinish(u)
    <3>1. active' \in [Uses -> Log]
      BY <2>0, <2>9, LogToType DEF LogNoFinish
    <3> QED  BY <2>9, <3>1 DEF LogNoFinish, TypeOK, Emitting
  <2>10. CASE Rename(u)
    <3>1. active' \in [Uses -> Log] /\ done' \in [Uses -> Log]
      BY <2>10, CompleteType DEF Rename
    <3> QED  BY <2>10, <3>1 DEF Rename, TypeOK, Emitting
  <2>11. CASE Stderr(u)
    <3>1. active' \in [Uses -> Log]
      BY <2>0, <2>11, LogToType DEF Stderr, TypeOK
    <3> QED  BY <2>11, <3>1 DEF Stderr, TypeOK, Emitting
  <2>12. CASE Timeout(u)
    BY <2>12 DEF Timeout, TypeOK, Emitting
  <2>13. CASE LogTimeout(u)
    <3>1. active' \in [Uses -> Log]
      BY <2>0, <2>13, LogToType DEF LogTimeout
    <3> QED  BY <2>13, <3>1 DEF LogTimeout, TypeOK, Emitting
  <2>14. CASE EndTalent(u)
    <3>1. /\ wait' \in [Uses -> {"idle", "listening", "waiting"} \cup Answers]
          /\ linked' \in [Uses -> BOOLEAN]
      BY <2>14, HeardType DEF EndTalent
    <3> QED  BY <2>14, <3>1 DEF EndTalent, Signal, TypeOK, Emitting
  <2>15. CASE Recover(u)
    <3>1. active' \in [Uses -> Log]
      BY <2>0, <2>15, LogToType DEF Recover
    <3> QED  BY <2>15, <3>1 DEF Recover, To, Steps, TypeOK, Emitting
  <2>16. CASE StopTalent(u)
    BY <2>16 DEF StopTalent, Signal, TypeOK, Emitting
  <2>17. CASE Waiter(u)
    <3>1. CASE Listen(u) \/ Link(u)
      BY <3>1 DEF Listen, Link, TypeOK, Emitting
    <3>2. ASSUME NEW answer \in {"waiting", "timeout"}, Answer(u, answer)
          PROVE  TypeOK' /\ Emitting'
      BY <3>2 DEF Answer, Answers, TypeOK, Emitting
    <3> QED  BY <2>17, <3>1, <3>2 DEF Waiter, FirstCheck, LastCheck
  <2> QED
    BY <1>3, <2>1, <2>2, <2>3, <2>4, <2>5, <2>6, <2>7, <2>8, <2>9, <2>10, <2>11, <2>12,
       <2>13, <2>14, <2>15, <2>16, <2>17
    DEF Use, Handler, Stdout, Timer
<1> QED  BY <1>1, <1>2, <1>3 DEF Next

LEMMA TypeInit == ASSUME Init PROVE TypeOK /\ Emitting
<1>1. None \in Log /\ <<>> \in Seq(Verdicts)
  BY DEF Log
<1>2. /\ active \in [Uses -> Log] /\ done \in [Uses -> Log]
      /\ pipe \in [Uses -> Seq(Verdicts)] /\ out = [u \in Uses |-> "none"]
  BY <1>1 DEF Init
<1>3. /\ child \in [Uses -> {"none", "running", "signalled", "ok", "failed", "gone"}]
      /\ err \in [Uses -> {"none", "reading"}]
      /\ timer \in [Uses -> {"none", "armed", "logging", "ending"}]
      /\ wait \in [Uses -> {"idle", "listening", "waiting"} \cup Answers]
      /\ linked \in [Uses -> BOOLEAN] /\ asked \in [Uses -> Nat]
  BY DEF Init
<1>4. phase \in Phases /\ shutdown \in BOOLEAN /\ handling = None /\ running = {} /\ stops \in Nat
  BY DEF Init, Phases
<1> QED  BY <1>2, <1>3, <1>4 DEF TypeOK, Emitting

\* Type correctness of every reachable state.
THEOREM TypeCorrect == Spec => []TypeOK
<1>1. TypeOK /\ Emitting /\ [Next]_vars => (TypeOK /\ Emitting)'
  BY TypeStep
<1> QED  BY <1>1, TypeInit, PTL DEF Spec

----------------------------------------------------------------------------
(* Who completes a log *)

\* A log about to be renamed says how its use ended.
Ready ==
  \A u \in Uses :
    out[u] = "renaming" \/ At(u, "complete") \/ At(u, "recover") => HasFinish(active[u])

\* A use is in running_uses as long as its monitor runs, and only after its handler
\* is done with it; the recovery is over before the first request.
Exclusive ==
  /\ \A u \in Uses : u \in running <=> out[u] # "none"
  /\ handling # None => handling.use \notin running
  /\ phase \in {"down", "recovering"} => running = {}
  /\ \A u \in Uses : At(u, "spawn") \/ At(u, "complete") => phase \notin {"down", "recovering"}
  /\ \A u \in Uses : At(u, "recover") => phase = "recovering"

\* Whoever may still append to a log finds one, active or completed.
Logged ==
  \A u \in Uses :
    /\ u \in running \/ err[u] # "none" \/ timer[u] # "none" => active[u] # None \/ done[u] # None
    /\ At(u, "spawn") => active[u] # None
    /\ out[u] = "releasing" => done[u] # None

Inv == CompletedLogIsConclusive /\ Ready /\ Exclusive /\ Logged /\ LiveLogHasOwner

\* A handler at work is no None.
LEMMA SomeStep ==
  ASSUME NEW u \in Uses, NEW s \in {"spawn", "complete", "recover"}
  PROVE  [use |-> u, step |-> s] # None
<1>1. [use |-> u, step |-> s] \in Steps
  BY DEF Steps
<1> QED  BY <1>1, NoneAssumption

LEMMA NotAtNone ==
  ASSUME NEW u \in Uses, NEW s \in {"spawn", "complete", "recover"}
  PROVE  At(u, s) => handling # None /\ handling.use = u
  BY SomeStep DEF At

LEMMA InvInit == Init => Inv
  BY SomeStep
  DEF Init, Inv, CompletedLogIsConclusive, Ready, Exclusive, Logged, LiveLogHasOwner, At

\* Active logs only grow, and one of them may have become conclusive.
Grown == \A u \in Uses :
  /\ active[u] # None => active'[u] # None
  /\ HasFinish(active[u]) => HasFinish(active'[u])
  /\ active'[u] # None => active[u] # None \/ done[u] # None

\* A step that neither completes a log nor begins or ends the work on a use.
Quiet ==
  /\ UNCHANGED <<phase, handling, running, done>>
  /\ Grown
  /\ \A u \in Uses :
       /\ out'[u] = "none" <=> out[u] = "none"
       /\ out'[u] = "renaming" => out[u] = "renaming" \/ HasFinish(active'[u])
       /\ out'[u] = "releasing" => out[u] = "releasing"
       /\ err'[u] # "none" => err[u] # "none"
       /\ timer'[u] # "none" => timer[u] # "none"

LEMMA QuietStep == ASSUME Inv, Quiet PROVE Inv'
<1> USE DEF Inv, Quiet, Grown, At
<1>1. CompletedLogIsConclusive'
  BY DEF CompletedLogIsConclusive
<1>2. Ready'
  BY DEF Ready
<1>3. Exclusive'
  BY DEF Exclusive
<1>4. Logged'
  BY DEF Logged
<1>5. LiveLogHasOwner'
  BY DEF LiveLogHasOwner
<1> QED  BY <1>1, <1>2, <1>3, <1>4, <1>5

\* An append to the log of a use that has one makes the logs grow.
LEMMA LogToGrows ==
  ASSUME TypeOK, NEW u \in Uses, NEW e \in Events, LogTo(u, e),
         active[u] # None \/ done[u] # None
  PROVE  Grown /\ (e = "error" => HasFinish(active'[u]))
<1>1. /\ active'[u] = Appended(active[u], e)
      /\ \A v \in Uses : active'[v] = active[v] \/ (v = u /\ active'[v] # None)
  BY LogToType
<1>2. active[u] \in Log /\ Appended(active[u], e) # None
  BY AppendedType DEF TypeOK
<1>3. HasFinish(active[u]) => HasFinish(active'[u])
  BY <1>1, <1>2, AppendedFinish
<1>4. e = "error" => HasFinish(active'[u])
  BY <1>1, <1>2, AppendedFinish
<1> QED  BY <1>1, <1>2, <1>3, <1>4 DEF Grown

LEMMA Unchanged == ASSUME active' = active PROVE Grown
  BY DEF Grown

----------------------------------------------------------------------------
(* The steps of a use *)

\* Completing the log of a use that only its handler works on.
LEMMA CompletedByHandler ==
  ASSUME TypeOK, Inv, NEW u \in Uses, At(u, "complete") \/ At(u, "recover"),
         Complete(u), handling' = None,
         UNCHANGED <<phase, running, out, err, timer>>
  PROVE  Inv'
<1>1. HasFinish(active[u]) /\ active[u] # None
  BY DEF Inv, Ready, HasFinish
<1>2. /\ \A v \in Uses : v # u => active'[v] = active[v] /\ done'[v] = done[v]
      /\ done'[u] = active[u] /\ active'[u] = None
  BY DEF Complete, TypeOK
<1>3. handling.use = u /\ handling # None
  BY NotAtNone
<1>4. out[u] = "none"
  BY <1>3 DEF Inv, Exclusive
<1>5. \A v \in Uses : v # u => ~At(v, "spawn") /\ ~At(v, "complete") /\ ~At(v, "recover")
  BY <1>3 DEF At
<1>6. \A v \in Uses : ~At(v, "spawn")' /\ ~At(v, "complete")' /\ ~At(v, "recover")'
  BY SomeStep DEF At
<1>7. CompletedLogIsConclusive'
  BY <1>1, <1>2 DEF Inv, CompletedLogIsConclusive
<1>8. Ready'
  BY <1>2, <1>4, <1>6 DEF Inv, Ready
<1>9. Exclusive'
  BY <1>6 DEF Inv, Exclusive
<1>10. Logged'
  BY <1>1, <1>2, <1>6 DEF Inv, Logged
<1>11. LiveLogHasOwner'
  BY <1>1, <1>2, <1>5 DEF Inv, LiveLogHasOwner
<1> QED  BY <1>7, <1>8, <1>9, <1>10, <1>11 DEF Inv

\* The monitor completes the log of a use in running_uses.
LEMMA CompletedByMonitor ==
  ASSUME TypeOK, Inv, NEW u \in Uses, Rename(u)
  PROVE  Inv'
<1>1. HasFinish(active[u]) /\ active[u] # None
  BY DEF Rename, Inv, Ready, HasFinish
<1>2. /\ \A v \in Uses : v # u => active'[v] = active[v] /\ done'[v] = done[v]
      /\ done'[u] = active[u] /\ active'[u] = None
  BY DEF Rename, Complete, TypeOK
<1>3. /\ \A v \in Uses : v # u => out'[v] = out[v]
      /\ out[u] = "renaming" /\ out'[u] = "releasing"
      /\ UNCHANGED <<phase, handling, running, err, timer>>
  BY DEF Rename, TypeOK, service
<1>4. u \in running
  BY <1>3 DEF Inv, Exclusive
<1>5. ~At(u, "spawn") /\ ~At(u, "complete") /\ ~At(u, "recover")
  BY <1>4, NotAtNone DEF Inv, Exclusive
<1>7. CompletedLogIsConclusive'
  BY <1>1, <1>2 DEF Inv, CompletedLogIsConclusive
<1>8. Ready'
  BY <1>2, <1>3, <1>5 DEF Inv, Ready, At
<1>9. Exclusive'
  BY <1>3 DEF Inv, Exclusive, At
<1>10. Logged'
  BY <1>1, <1>2, <1>3, <1>5 DEF Inv, Logged, At
<1>11. LiveLogHasOwner'
  BY <1>1, <1>2, <1>3 DEF Inv, LiveLogHasOwner, At
<1> QED  BY <1>7, <1>8, <1>9, <1>10, <1>11 DEF Inv

LEMMA Accepted == ASSUME TypeOK, Inv, NEW u \in Uses, Accept(u) PROVE Inv'
<1>1. CASE UNCHANGED <<active, handling>>
  <2>1. Quiet
    BY <1>1, Unchanged DEF Accept, Quiet, threads
  <2> QED  BY <2>1, QuietStep
<1>2. CASE u \notin running /\ active[u] = None /\ LogTo(u, "request") /\ To(u, "spawn")
  <2>1. /\ phase \in {"up", "leaving", "closing"} /\ handling = None
        /\ UNCHANGED <<done, phase, running, out, err, timer>>
    BY DEF Accept, Listening, threads
  <2>2. /\ active'[u] # None
        /\ \A v \in Uses : v # u => active'[v] = active[v]
    <3>1. "request" \in Events
      BY DEF Events
    <3>2. Appended(active[u], "request") # None
      BY <3>1, AppendedType DEF TypeOK
    <3> QED  BY <1>2, <3>2 DEF LogTo, TypeOK
  <2>3. /\ handling' # None /\ handling'.use = u
        /\ \A v \in Uses : At(v, "spawn")' <=> v = u
        /\ \A v \in Uses : ~At(v, "complete")' /\ ~At(v, "recover")'
    BY <1>2, SomeStep DEF To, At
  <2>4. \A v \in Uses : ~At(v, "spawn") /\ ~At(v, "complete")
    BY <2>1, SomeStep DEF At
  <2>5. out[u] = "none"
    BY <1>2 DEF Inv, Exclusive
  <2>6. CompletedLogIsConclusive' /\ Ready'
    BY <2>1, <2>2, <2>3, <2>5 DEF Inv, CompletedLogIsConclusive, Ready
  <2>7. Exclusive'
    BY <1>2, <2>1, <2>3 DEF Inv, Exclusive
  <2>8. Logged'
    BY <2>1, <2>2, <2>3 DEF Inv, Logged
  <2>9. LiveLogHasOwner'
    BY <2>1, <2>2, <2>3, <2>4 DEF Inv, LiveLogHasOwner
  <2> QED  BY <2>6, <2>7, <2>8, <2>9 DEF Inv
<1> QED  BY <1>1, <1>2 DEF Accept

LEMMA Spawned == ASSUME TypeOK, Inv, NEW u \in Uses, Spawn(u) PROVE Inv'
<1>1. /\ handling = [use |-> u, step |-> "spawn"] /\ handling' = None
      /\ running' = running \cup {u} /\ out'[u] = "reading"
      /\ \A v \in Uses : v # u => out'[v] = out[v] /\ err'[v] = err[v] /\ timer'[v] = timer[v]
      /\ UNCHANGED <<active, done, phase>>
  BY DEF Spawn, At, TypeOK, logs
<1>2. active[u] # None /\ phase \notin {"down", "recovering"}
  BY <1>1 DEF Inv, Logged, Exclusive, At
<1>3. \A v \in Uses : ~At(v, "spawn")' /\ ~At(v, "complete")' /\ ~At(v, "recover")'
  BY <1>1, SomeStep DEF At
<1>4. \A v \in Uses : ~At(v, "complete") /\ (At(v, "spawn") => v = u)
  BY <1>1 DEF At
<1>5. CompletedLogIsConclusive' /\ Ready'
  BY <1>1, <1>3 DEF Inv, CompletedLogIsConclusive, Ready
<1>6. Exclusive'
  BY <1>1, <1>2, <1>3 DEF Inv, Exclusive
<1>7. Logged'
  BY <1>1, <1>2, <1>3 DEF Inv, Logged
<1>8. LiveLogHasOwner'
  BY <1>1, <1>3, <1>4 DEF Inv, LiveLogHasOwner
<1> QED  BY <1>5, <1>6, <1>7, <1>8 DEF Inv

\* The handler of a failed spawn and the recovery write their error first.
LEMMA ErrorWritten ==
  ASSUME TypeOK, Inv, NEW u \in Uses, LogTo(u, "error"),
         UNCHANGED <<done, phase, running, out, err, timer>>,
         active[u] # None,
         \/ At(u, "spawn") /\ To(u, "complete")
         \/ handling = None /\ phase = "recovering" /\ To(u, "recover")
  PROVE  Inv'
<1>1. Grown /\ HasFinish(active'[u])
  BY LogToGrows DEF Events
<1>2. \A v \in Uses : v # u => active'[v] = active[v]
  BY DEF LogTo, TypeOK
<1>3. /\ handling' # None /\ handling'.use = u
      /\ \A v \in Uses : ~At(v, "spawn")' /\ (At(v, "complete")' \/ At(v, "recover")' => v = u)
  BY SomeStep DEF To, At
<1>4. u \notin running
  <2>1. CASE At(u, "spawn")
    BY <2>1, NotAtNone DEF Inv, Exclusive
  <2>2. CASE phase = "recovering"
    BY <2>2 DEF Inv, Exclusive
  <2> QED  BY <2>1, <2>2
<1>5. CompletedLogIsConclusive' /\ Ready'
  BY <1>1, <1>2, <1>3 DEF Inv, CompletedLogIsConclusive, Ready
<1>6. Exclusive'
  <2>1. /\ At(u, "spawn") => phase \notin {"down", "recovering"}
        /\ \/ handling' = [use |-> u, step |-> "complete"] /\ At(u, "spawn")
           \/ handling' = [use |-> u, step |-> "recover"] /\ phase = "recovering"
    BY DEF Inv, Exclusive, To
  <2>2. \A v \in Uses : /\ At(v, "complete")' => phase \notin {"down", "recovering"}
                        /\ At(v, "recover")' => phase = "recovering"
    BY <2>1 DEF At
  <2> QED  BY <1>3, <1>4, <2>2 DEF Inv, Exclusive
<1>7. Logged'
  BY <1>1, <1>3 DEF Inv, Logged, Grown
<1>8. LiveLogHasOwner'
  <2>1. CASE phase = "recovering"
    BY <2>1 DEF LiveLogHasOwner
  <2>2. CASE At(u, "spawn") /\ To(u, "complete")
    <3>1. At(u, "complete")' /\ \A v \in Uses : v # u => ~At(v, "spawn") /\ ~At(v, "complete")
      BY <2>2 DEF At, To
    <3> QED  BY <1>2, <3>1 DEF Inv, LiveLogHasOwner
  <2> QED  BY <2>1, <2>2
<1> QED  BY <1>5, <1>6, <1>7, <1>8 DEF Inv

LEMMA Released == ASSUME TypeOK, Inv, NEW u \in Uses, Release(u) PROVE Inv'
<1>1. /\ out[u] = "releasing" /\ out'[u] = "none" /\ running' = running \ {u}
      /\ \A v \in Uses : v # u => out'[v] = out[v]
      /\ UNCHANGED <<active, done, phase, handling, err, timer>>
  BY DEF Release, TypeOK, logs
<1>2. done[u] # None
  BY <1>1 DEF Inv, Logged
<1>3. CompletedLogIsConclusive' /\ Ready'
  BY <1>1 DEF Inv, CompletedLogIsConclusive, Ready, At
<1>4. Exclusive'
  BY <1>1 DEF Inv, Exclusive, At
<1>5. Logged'
  BY <1>1, <1>2 DEF Inv, Logged, At
<1>6. LiveLogHasOwner'
  BY <1>1, <1>2 DEF Inv, LiveLogHasOwner, At
<1> QED  BY <1>3, <1>4, <1>5, <1>6 DEF Inv

\* The other steps of a use are quiet.
LEMMA QuietUse ==
  ASSUME TypeOK, Inv, NEW u \in Uses,
         \/ Exit(u) \/ LogEvent(u) \/ EmitEvent(u) \/ Reap(u) \/ LogNoFinish(u)
         \/ Stderr(u) \/ Timer(u) \/ StopTalent(u) \/ Waiter(u)
  PROVE  Quiet
<1> USE DEF logs, service, threads, waiter
<1>0. "error" \in Events
  BY DEF Events
<1>1. CASE Exit(u)
  BY <1>1, Unchanged DEF Exit, Quiet
<1>2. CASE LogEvent(u)
  <2>1. Head(pipe[u]) \in Events
    BY <1>2, VerdictsAreEvents DEF LogEvent, TypeOK
  <2>2. active[u] # None \/ done[u] # None
    BY <1>2 DEF LogEvent, Inv, Exclusive, Logged
  <2>3. Grown
    BY <1>2, <2>1, <2>2, LogToGrows DEF LogEvent
  <2> QED  BY <1>2, <2>3 DEF LogEvent, Quiet, TypeOK
<1>3. CASE EmitEvent(u)
  <2>1. out' = [out EXCEPT ![u] = "reading"] \/ out' = [out EXCEPT ![u] = "leaving"]
    BY <1>3 DEF EmitEvent
  <2> QED  BY <1>3, <2>1, Unchanged DEF EmitEvent, Quiet, TypeOK
<1>4. CASE Reap(u)
  BY <1>4, Unchanged DEF Reap, Quiet, TypeOK
<1>5. CASE LogNoFinish(u)
  <2>1. active[u] # None \/ done[u] # None
    BY <1>5 DEF LogNoFinish, Inv, Exclusive, Logged
  <2>2. Grown /\ HasFinish(active'[u])
    BY <1>0, <1>5, <2>1, LogToGrows DEF LogNoFinish
  <2> QED  BY <1>5, <2>2 DEF LogNoFinish, Quiet, TypeOK
<1>6. CASE Stderr(u)
  <2>1. active[u] # None \/ done[u] # None
    BY <1>6 DEF Stderr, Inv, Logged
  <2>2. Grown
    BY <1>0, <1>6, <2>1, LogToGrows, Unchanged DEF Stderr
  <2> QED  BY <1>6, <2>2 DEF Stderr, Quiet, TypeOK
<1>7. CASE Timeout(u)
  BY <1>7, Unchanged DEF Timeout, Quiet, TypeOK
<1>8. CASE LogTimeout(u)
  <2>1. active[u] # None \/ done[u] # None
    BY <1>8 DEF LogTimeout, Inv, Logged
  <2>2. Grown
    BY <1>0, <1>8, <2>1, LogToGrows DEF LogTimeout
  <2> QED  BY <1>8, <2>2 DEF LogTimeout, Quiet, TypeOK
<1>9. CASE EndTalent(u)
  BY <1>9, Unchanged DEF EndTalent, Quiet, TypeOK
<1>10. CASE StopTalent(u)
  BY <1>10, Unchanged DEF StopTalent, Quiet, TypeOK
<1>11. CASE Waiter(u)
  BY <1>11, Unchanged DEF Waiter, Listen, Link, FirstCheck, LastCheck, Answer, Quiet
<1> QED
  BY <1>1, <1>2, <1>3, <1>4, <1>5, <1>6, <1>7, <1>8, <1>9, <1>10, <1>11 DEF Timer

----------------------------------------------------------------------------
(* The steps of the service *)

LEMMA GoneStep == ASSUME TypeOK, Inv, Gone PROVE Inv'
<1>1. /\ phase' = "down" /\ handling' = None /\ running' = {} /\ UNCHANGED <<active, done>>
      /\ \A v \in Uses : out'[v] = "none" /\ err'[v] = "none" /\ timer'[v] = "none"
  BY DEF Gone, logs
<1>2. \A v \in Uses : ~At(v, "spawn")' /\ ~At(v, "complete")' /\ ~At(v, "recover")'
  BY <1>1, SomeStep DEF At
<1> QED
  BY <1>1, <1>2
  DEF Inv, CompletedLogIsConclusive, Ready, Exclusive, Logged, LiveLogHasOwner

\* A change of phase that leaves the uses alone.
LEMMA PhaseStep ==
  ASSUME Inv, UNCHANGED <<active, done, handling, running, out, err, timer>>,
         phase' \in {"down", "recovering"} => phase \in {"down", "recovering"},
         phase \in {"down", "recovering"} /\ phase' \notin {"down", "recovering"} =>
           handling = None /\ \A u \in Uses : active[u] = None,
         phase = "recovering" => phase' = "recovering" \/ handling = None
  PROVE  Inv'
<1>1. CompletedLogIsConclusive' /\ Ready' /\ Logged'
  BY DEF Inv, CompletedLogIsConclusive, Ready, Logged, At
<1>2. Exclusive'
  <2>1. handling = None => \A u \in Uses : ~At(u, "recover")
    BY SomeStep DEF At
  <2> QED  BY <2>1 DEF Inv, Exclusive, At
<1>3. LiveLogHasOwner'
  BY DEF Inv, LiveLogHasOwner, At
<1> QED  BY <1>1, <1>2, <1>3 DEF Inv

LEMMA InvStep == ASSUME TypeOK, Inv, [Next]_vars PROVE Inv'
<1>1. CASE UNCHANGED vars
  <2>1. Quiet
    BY <1>1, Unchanged DEF vars, Quiet, logs, service, threads
  <2> QED  BY <2>1, QuietStep
<1>2. CASE Service
  <2> USE DEF logs, threads
  <2>1. CASE Quit \/ Crash
    BY <2>1, GoneStep DEF Quit, Crash
  <2>2. CASE Start
    BY <2>2, PhaseStep DEF Start
  <2>3. CASE Recovered
    BY <2>3, PhaseStep DEF Recovered
  <2>4. CASE RequestShutdown
    BY <2>4, PhaseStep DEF RequestShutdown
  <2>5. CASE ExitIdle
    BY <2>5, PhaseStep DEF ExitIdle
  <2>6. CASE Stop \/ Stopped
    BY <2>6, PhaseStep DEF Stop, Stopped
  <2> QED  BY <1>2, <2>1, <2>2, <2>3, <2>4, <2>5, <2>6 DEF Service
<1>3. ASSUME NEW u \in Uses, Use(u) PROVE Inv'
  <2>1. CASE SpawnFails(u)
    <3>1. active[u] # None
      BY <2>1 DEF SpawnFails, Inv, Logged
    <3> QED  BY <2>1, <3>1, ErrorWritten DEF SpawnFails, threads
  <2>2. CASE Recover(u)
    BY <2>2, ErrorWritten DEF Recover, threads
  <2>3. CASE CompleteUse(u) \/ CompleteRecovered(u)
    BY <2>3, CompletedByHandler DEF CompleteUse, CompleteRecovered, threads
  <2>4. CASE Accept(u) \/ Spawn(u) \/ Rename(u) \/ Release(u)
    BY <2>4, Accepted, Spawned, CompletedByMonitor, Released
  <2>5. CASE \/ Exit(u) \/ LogEvent(u) \/ EmitEvent(u) \/ Reap(u) \/ LogNoFinish(u)
             \/ Stderr(u) \/ Timer(u) \/ StopTalent(u) \/ Waiter(u)
    BY <2>5, QuietUse, QuietStep
  <2> QED  BY <1>3, <2>1, <2>2, <2>3, <2>4, <2>5 DEF Use, Handler, Stdout
<1> QED  BY <1>1, <1>2, <1>3 DEF Next

LEMMA Invariance == Spec => []Inv
<1>1. TypeOK /\ Inv /\ [Next]_vars => Inv'
  BY InvStep
<1> QED  BY <1>1, InvInit, TypeCorrect, PTL DEF Spec

\* A completed log says how the use ended: of the monitor's finally clause, of a
\* failed spawn and of the recovery, after any number of crashes and late appends.
THEOREM Conclusive == Spec => []CompletedLogIsConclusive
BY Invariance, PTL DEF Inv

\* While Cortex is up, a log that is active and not yet completed belongs to a use
\* with a handler or with a monitor and an entry in running_uses.
THEOREM Owned == Spec => []LiveLogHasOwner
BY Invariance, PTL DEF Inv

----------------------------------------------------------------------------
(* One run per use *)

\* A use that was spawned has a log, and one to be spawned or still at work has
\* completed none.
Fresh ==
  \A u \in Uses :
    /\ child[u] # "none" => active[u] # None \/ done[u] # None
    /\ At(u, "spawn") => child[u] = "none" /\ done[u] = None
    /\ At(u, "complete") => done[u] = None
    /\ out[u] \notin {"none", "releasing"} => done[u] = None

\* The quiet steps leave alone what Fresh speaks of, too.
LEMMA QuietFresh ==
  ASSUME Fresh, Quiet,
         \A u \in Uses : /\ child'[u] = "none" <=> child[u] = "none"
                         /\ out[u] = "releasing" => out'[u] = "releasing"
  PROVE  Fresh'
  BY DEF Fresh, Quiet, Grown, At

\* A step whose talents stay as they are, but for those that are dropped.
LEMMA DroppedFresh ==
  ASSUME Fresh, UNCHANGED <<active, done>>,
         \A u \in Uses : /\ child'[u] # "none" => child[u] # "none"
                         /\ out'[u] # "none" => out'[u] = out[u],
         handling' = handling \/ handling' = None
  PROVE  Fresh'
<1>1. \A u \in Uses : (~At(u, "spawn")' /\ ~At(u, "complete")') \/ handling' = handling
  BY SomeStep DEF At
<1> QED  BY <1>1 DEF Fresh, At

LEMMA FreshStep == ASSUME TypeOK, Inv, Fresh, [Next]_vars PROVE Fresh'
<1>1. CASE UNCHANGED vars
  BY <1>1 DEF vars, logs, service, threads, Fresh, At
<1>2. CASE Service
  <2> USE DEF logs, threads
  <2>1. CASE Quit \/ Crash
    BY <2>1, DroppedFresh DEF Quit, Crash, Gone
  <2>2. CASE Start \/ Recovered \/ RequestShutdown \/ ExitIdle \/ Stop \/ Stopped
    BY <2>2, DroppedFresh DEF Start, Recovered, RequestShutdown, ExitIdle, Stop, Stopped
  <2> QED  BY <1>2, <2>1, <2>2 DEF Service
<1>3. ASSUME NEW u \in Uses, Use(u) PROVE Fresh'
  <2>1. CASE Accept(u)
    <3>1. UNCHANGED <<done, child, out>> /\ done[u] = None
      BY <2>1 DEF Accept, threads
    <3>2. CASE UNCHANGED <<active, handling>>
      BY <3>1, <3>2 DEF Fresh, At
    <3>3. CASE active[u] = None /\ LogTo(u, "request") /\ To(u, "spawn")
      <4>1. \A v \in Uses : active[v] # None => active'[v] # None
        BY <3>3, LogToType DEF Events
      <4>2. child[u] = "none"
        BY <3>1, <3>3 DEF Fresh
      <4>3. \A v \in Uses : (At(v, "spawn")' => v = u) /\ ~At(v, "complete")'
        BY <3>3 DEF To, At
      <4> QED  BY <3>1, <4>1, <4>2, <4>3 DEF Fresh
    <3> QED  BY <2>1, <3>2, <3>3 DEF Accept
  <2>2. CASE Spawn(u)
    <3>1. /\ At(u, "spawn") /\ handling' = None /\ UNCHANGED <<active, done>>
          /\ \A v \in Uses : v # u => child'[v] = child[v] /\ out'[v] = out[v]
      BY <2>2 DEF Spawn, logs, TypeOK
    <3>2. active[u] # None /\ done[u] = None
      BY <3>1 DEF Inv, Logged, Fresh
    <3>3. \A v \in Uses : ~At(v, "spawn")' /\ ~At(v, "complete")'
      BY <3>1, SomeStep DEF At
    <3> QED  BY <3>1, <3>2, <3>3 DEF Fresh
  <2>3. CASE SpawnFails(u) \/ Recover(u)
    <3>1. /\ LogTo(u, "error") /\ UNCHANGED <<done, child, out>>
          /\ \/ At(u, "spawn") /\ To(u, "complete")
             \/ To(u, "recover")
      BY <2>3 DEF SpawnFails, Recover, threads
    <3>2. \A v \in Uses : active[v] # None => active'[v] # None
      BY <3>1, LogToType DEF Events
    <3>3. \A v \in Uses : ~At(v, "spawn")' /\ (At(v, "complete")' => v = u /\ At(u, "spawn"))
      BY <3>1 DEF To, At
    <3> QED  BY <3>1, <3>2, <3>3 DEF Fresh
  <2>4. CASE CompleteUse(u) \/ CompleteRecovered(u)
    <3>1. /\ At(u, "complete") \/ At(u, "recover")
          /\ Complete(u) /\ handling' = None /\ UNCHANGED <<child, out>>
      BY <2>4 DEF CompleteUse, CompleteRecovered, threads
    <3>2. /\ \A v \in Uses : v # u => active'[v] = active[v] /\ done'[v] = done[v]
          /\ done'[u] = active[u]
      BY <3>1 DEF Complete, TypeOK
    <3>3. active[u] # None
      BY <3>1 DEF Inv, Ready, HasFinish
    <3>4. out[u] = "none"
      BY <3>1, NotAtNone DEF Inv, Exclusive
    <3>5. \A v \in Uses : ~At(v, "spawn")' /\ ~At(v, "complete")'
      BY <3>1, SomeStep DEF At
    <3> QED  BY <3>1, <3>2, <3>3, <3>4, <3>5 DEF Fresh
  <2>5. CASE Rename(u)
    <3>1. /\ \A v \in Uses : v # u => /\ active'[v] = active[v] /\ done'[v] = done[v]
                                     /\ out'[v] = out[v]
          /\ done'[u] = active[u] /\ out[u] = "renaming" /\ out'[u] = "releasing"
          /\ UNCHANGED <<child, handling>>
      BY <2>5 DEF Rename, Complete, TypeOK, service
    <3>2. active[u] # None /\ u \in running
      BY <3>1 DEF Inv, Ready, HasFinish, Exclusive
    <3>3. ~At(u, "spawn") /\ ~At(u, "complete")
      BY <3>2, NotAtNone DEF Inv, Exclusive
    <3> QED  BY <3>1, <3>2, <3>3 DEF Fresh, At
  <2>6. CASE Release(u)
    BY <2>6, DroppedFresh DEF Release, logs, TypeOK
  <2>7. CASE \/ Exit(u) \/ LogEvent(u) \/ EmitEvent(u) \/ Reap(u) \/ LogNoFinish(u)
             \/ Stderr(u) \/ Timer(u) \/ StopTalent(u) \/ Waiter(u)
    <3>1. \A v \in Uses : out[v] = "releasing" => out'[v] = "releasing"
      <4>1. CASE LogEvent(u) \/ Reap(u) \/ LogNoFinish(u)
        BY <4>1 DEF LogEvent, Reap, LogNoFinish, TypeOK
      <4>2. CASE EmitEvent(u)
        <5>1. \/ out' = [out EXCEPT ![u] = "reading"]
              \/ out' = [out EXCEPT ![u] = "leaving"]
          BY <4>2 DEF EmitEvent
        <5> QED  BY <4>2, <5>1 DEF EmitEvent, TypeOK
      <4>3. CASE Exit(u) \/ Stderr(u) \/ Timer(u) \/ StopTalent(u) \/ Waiter(u)
        BY <4>3
        DEF Exit, Stderr, Timer, Timeout, LogTimeout, EndTalent, StopTalent,
            Waiter, Listen, Link, FirstCheck, LastCheck, Answer, threads
      <4> QED  BY <2>7, <4>1, <4>2, <4>3
    <3>2. \A v \in Uses : child'[v] = "none" <=> child[v] = "none"
      <4>1. CASE Exit(u)
        BY <4>1 DEF Exit, Alive, TypeOK
      <4>2. CASE EndTalent(u) \/ StopTalent(u)
        BY <4>2 DEF EndTalent, StopTalent, Signal, TypeOK
      <4>3. CASE \/ LogEvent(u) \/ EmitEvent(u) \/ Reap(u) \/ LogNoFinish(u)
                 \/ Stderr(u) \/ Timeout(u) \/ LogTimeout(u) \/ Waiter(u)
        BY <4>3
        DEF LogEvent, EmitEvent, Reap, LogNoFinish, Stderr, Timeout, LogTimeout,
            Waiter, Listen, Link, FirstCheck, LastCheck, Answer
      <4> QED  BY <2>7, <4>1, <4>2, <4>3 DEF Timer
    <3> QED  BY <2>7, <3>1, <3>2, QuietUse, QuietFresh
  <2> QED  BY <1>3, <2>1, <2>2, <2>3, <2>4, <2>5, <2>6, <2>7 DEF Use, Handler, Stdout
<1> QED  BY <1>1, <1>2, <1>3 DEF Next

LEMMA FreshInit == Init => Fresh
  BY SomeStep DEF Init, Fresh, At

\* Only Spawn begins a talent, and only for a use that never had one.
LEMMA RunOnceStep ==
  ASSUME TypeOK, Inv, Fresh, [Next]_vars
  PROVE  \A u \in Uses : child'[u] = "running" /\ child[u] # "running" =>
           child[u] = "none" /\ done[u] = None
<1> SUFFICES ASSUME NEW u \in Uses, child'[u] = "running", child[u] # "running"
             PROVE  child[u] = "none" /\ done[u] = None
  OBVIOUS
<1>1. CASE UNCHANGED vars
  BY <1>1 DEF vars
<1>2. CASE Service
  <2>1. CASE Gone
    BY <2>1 DEF Gone
  <2> QED
    BY <1>2, <2>1
    DEF Service, Start, Recovered, RequestShutdown, ExitIdle, Stop, Stopped, Quit, Crash
<1>3. ASSUME NEW v \in Uses, Use(v) PROVE child[u] = "none" /\ done[u] = None
  <2>1. CASE Spawn(v)
    BY <2>1 DEF Spawn, Fresh, TypeOK
  <2>2. CASE Exit(v)
    BY <2>2 DEF Exit, TypeOK
  <2>3. CASE EndTalent(v) \/ StopTalent(v)
    BY <2>3 DEF EndTalent, StopTalent, Signal, TypeOK
  <2>4. CASE UNCHANGED child
    BY <2>4
  <2> QED
    BY <1>3, <2>1, <2>2, <2>3, <2>4
    DEF Use, Accept, Handler, SpawnFails, CompleteUse, Stdout, LogEvent, EmitEvent, Reap,
        LogNoFinish, Rename, Release, Stderr, Timer, Timeout, LogTimeout, Recover,
        CompleteRecovered, Waiter, Listen, Link, FirstCheck, LastCheck, Answer
<1> QED  BY <1>1, <1>2, <1>3 DEF Next

\* A use id is run once, however many requests carry it and however often Cortex
\* dies and starts again.
THEOREM OneRunPerUse == Spec => RunOnce
<1>1. Inv /\ TypeOK /\ Fresh /\ [Next]_vars => Fresh'
  BY FreshStep
<1>2. Spec => []Fresh
  BY <1>1, FreshInit, TypeCorrect, Invariance, PTL DEF Spec
<1>3. TypeOK /\ Inv /\ Fresh /\ [Next]_vars =>
        [\A u \in Uses : child'[u] = "running" /\ child[u] # "running" =>
           child[u] = "none" /\ done[u] = None]_vars
  BY RunOnceStep
<1> QED  BY <1>2, <1>3, TypeCorrect, Invariance, PTL DEF Spec, RunOnce

----------------------------------------------------------------------------
(* AnswerIsRecorded *)

\* A set of indexes has a largest member.
LEMMA LargestIndex ==
  ASSUME NEW n \in Nat, NEW S \in SUBSET (1 .. n), S # {}
  PROVE  \E i \in S : \A j \in S : i >= j
<1> DEFINE above(i) == {j \in S : j > i}
           R == StrictSubsetOrdering(S)
           T == {above(i) : i \in S}
<1>1. IsFiniteSet(S)
  <2>1. IsFiniteSet(1 .. n)
    BY FS_Interval
  <2> QED  BY <2>1, FS_Subset
<1>2. T \subseteq FiniteSubsetsOf(S) /\ T # {}
  <2>1. FiniteSubsetsOf(S) = SUBSET S
    BY <1>1, FS_FiniteSubsetsOfFinite
  <2>2. \A i \in S : above(i) \in SUBSET S
    OBVIOUS
  <2>3. PICK i : i \in S
    OBVIOUS
  <2>4. above(i) \in T
    BY <2>3
  <2>5. T \subseteq SUBSET S
    BY <2>2, Zenon
  <2> QED  BY <2>1, <2>4, <2>5, Zenon
<1>3. IsWellFoundedOn(R, FiniteSubsetsOf(S))
  BY FS_StrictSubsetOrderingWellFounded
<1>4. \E x \in T : \A y \in T : <<y, x>> \notin R
  <2> HIDE DEF R, T
  <2> QED  BY <1>2, <1>3, WFMin, Zenon
<1>5. PICK i \in S : \A j \in S : <<above(j), above(i)>> \notin R
  BY <1>4
<1>6. ASSUME NEW j \in S, j > i PROVE FALSE
  <2>1. above(j) \subseteq above(i) /\ j \in above(i) /\ j \notin above(j)
    <3>1. i \in Nat /\ j \in Nat /\ \A k \in S : k \in Nat
      OBVIOUS
    <3>2. \A k \in S : k > j => k > i
      BY <1>6, <3>1
    <3>3. j > i /\ ~(j > j)
      BY <1>6, <3>1
    <3> QED  BY <3>2, <3>3, Zenon
  <2>2. above(j) \in SUBSET S /\ above(i) \in SUBSET S
    OBVIOUS
  <2> HIDE DEF above
  <2>3. <<above(j), above(i)>> \in StrictSubsetOrdering(S)
    BY <2>1, <2>2 DEF StrictSubsetOrdering
  <2> QED  BY <1>5, <2>3
<1> QED  BY <1>6

\* get_use_end_state answers with an event that is in the log.
LEMMA EndStateRecorded ==
  ASSUME TypeOK, NEW u \in Uses
  PROVE  /\ EndState(u) = "finish" => "finish" \in Recorded(u)
         /\ EndState(u) = "error" => Recorded(u) \cap {"nonterminal", "error"} # {}
<1> DEFINE log == UseFile(u)
           ends == {i \in DOMAIN log : log[i] \in Verdicts}
<1>1. log \in Seq(Events) \cup {None}
  BY DEF UseFile, TypeOK, Log
<1>2. CASE log = None
  BY <1>2 DEF EndState
<1>3. CASE log # None
  <2>1. log \in Seq(Events) /\ DOMAIN log = 1 .. Len(log) /\ Len(log) \in Nat
    BY <1>1, <1>3
  <2>2. Range(log) \subseteq Recorded(u)
    BY <1>3 DEF UseFile, Recorded
  <2>3. CASE ends = {}
    BY <1>3, <2>3 DEF EndState
  <2>4. CASE ends # {}
    <3>1. Max(ends) \in ends
      <4>1. ends \in SUBSET (1 .. Len(log))
        BY <2>1
      <4> HIDE DEF ends, log
      <4>2. \E i \in ends : \A j \in ends : i >= j
        BY <2>1, <2>4, <4>1, LargestIndex
      <4> QED  BY <4>2 DEF Max
    <3>2. log[Max(ends)] \in Verdicts /\ log[Max(ends)] \in Range(log)
      BY <3>1 DEF Range
    <3>3. EndState(u) = IF log[Max(ends)] = "finish" THEN "finish" ELSE "error"
      BY <1>3, <2>4 DEF EndState
    <3> HIDE DEF ends, log
    <3> QED  BY <2>2, <3>2, <3>3 DEF Verdicts
  <2> QED  BY <2>3, <2>4
<1> QED  BY <1>2, <1>3

\* What has still to be broadcast is in the log already, and what the recovery
\* completes says so.  Before the first stop there is nothing to recover.
Told ==
  /\ \A u \in Uses :
       /\ out[u] = "emitting" => Head(pipe[u]) \in Recorded(u)
       /\ timer[u] = "ending" => "error" \in Recorded(u)
       /\ At(u, "recover") => active[u] # None /\ "error" \in Range(active[u])
  /\ stops = 0 =>
       /\ phase \in {"recovering", "up"} /\ ~shutdown
       /\ phase = "recovering" => handling = None /\ \A u \in Uses : active[u] = None

AnswerInv == Told /\ AnswerIsRecorded

\* A step forgets nothing, unless it completes a recovered log.
Remembered(u) ==
  \/ Recorded(u) \subseteq Recorded(u)'
  \/ At(u, "recover") /\ "error" \in Recorded(u)'

LEMMA LogToRecorded ==
  ASSUME TypeOK, NEW u \in Uses, NEW e \in Events, LogTo(u, e), UNCHANGED done
  PROVE  /\ active'[u] # None /\ e \in Range(active'[u]) /\ e \in Recorded(u)'
         /\ \A v \in Uses : Recorded(v) \subseteq Recorded(v)'
         /\ \A v \in Uses : v # u => active'[v] = active[v]
<1>1. active[u] \in Log /\ active'[u] = Appended(active[u], e) /\ active'[u] # None
  BY LogToType, AppendedType DEF TypeOK
<1>2. \A v \in Uses : v # u => active'[v] = active[v]
  BY DEF LogTo, TypeOK
<1>3. e \in Range(active'[u])
        /\ (active[u] # None => Range(active[u]) \subseteq Range(active'[u]))
  <2>1. CASE active[u] = None
    <3>1. active'[u] = <<e>> /\ 1 \in DOMAIN <<e>> /\ <<e>>[1] = e
      BY <1>1, <2>1 DEF Appended
    <3> QED  BY <2>1, <3>1 DEF Range
  <2>2. CASE active[u] # None
    <3> DEFINE log == active[u]
               longer == active'[u]
    <3>1. log \in Seq(Events) /\ longer = Append(log, e)
      BY <1>1, <2>2 DEF Appended, Log
    <3> HIDE DEF log, longer
    <3>2. \A i \in DOMAIN log : i \in DOMAIN longer /\ longer[i] = log[i]
      BY <3>1
    <3>3. Len(log) + 1 \in DOMAIN longer /\ longer[Len(log) + 1] = e
      BY <3>1
    <3>4. Range(log) \subseteq Range(longer) /\ e \in Range(longer)
      BY <3>2, <3>3 DEF Range
    <3> QED  BY <3>4 DEF log, longer
  <2> QED  BY <2>1, <2>2
<1>4. e \in Recorded(u)' /\ Recorded(u) \subseteq Recorded(u)'
  BY <1>1, <1>3 DEF Recorded
<1>5. \A v \in Uses : v # u => Recorded(v) = Recorded(v)'
  BY <1>2 DEF Recorded
<1> QED  BY <1>1, <1>2, <1>3, <1>4, <1>5

LEMMA CompleteRecorded ==
  ASSUME TypeOK, NEW u \in Uses, Complete(u), active[u] # None,
         \/ done[u] = None
         \/ At(u, "recover") /\ "error" \in Range(active[u])
  PROVE  /\ \A v \in Uses : Remembered(v)
         /\ done[u] = None => Recorded(u) \subseteq Recorded(u)'
         /\ \A v \in Uses : v # u => active'[v] = active[v] /\ Recorded(v) \subseteq Recorded(v)'
<1>1. /\ done'[u] = active[u] /\ active'[u] = None
      /\ \A v \in Uses : v # u => active'[v] = active[v] /\ done'[v] = done[v]
  BY DEF Complete, TypeOK
<1>2. Recorded(u)' = Range(active[u])
  BY <1>1 DEF Recorded
<1>3. done[u] = None => Recorded(u) = Range(active[u])
  BY DEF Recorded
<1>4. \A v \in Uses : v # u => Recorded(v)' = Recorded(v)
  BY <1>1 DEF Recorded
<1> QED  BY <1>1, <1>2, <1>3, <1>4 DEF Remembered

LEMMA SameRecorded ==
  ASSUME UNCHANGED logs
  PROVE  \A u \in Uses : Recorded(u)' = Recorded(u)
  BY DEF logs, Recorded

\* An answer that the log bears out.
Borne(u) ==
  /\ wait'[u] = "error" => Recorded(u)' \cap {"nonterminal", "error"} # {}
  /\ wait'[u] = "finish" => "finish" \in Recorded(u)'

\* What a step has to keep of each use.
LEMMA Hushed ==
  ASSUME TypeOK, Inv, AnswerInv,
         stops' = 0 => /\ stops = 0 /\ phase' \in {"recovering", "up"} /\ ~shutdown'
                       /\ phase' = "recovering" =>
                            handling' = None /\ \A u \in Uses : active'[u] = None,
         \A u \in Uses :
           /\ Remembered(u)
           /\ out'[u] = "emitting" => Head(pipe'[u]) \in Recorded(u)'
           /\ timer'[u] = "ending" => timer[u] = "ending" \/ "error" \in Recorded(u)'
           /\ At(u, "recover")' => active'[u] # None /\ "error" \in Range(active'[u])
           /\ wait'[u] = wait[u] \/ Borne(u)
  PROVE  AnswerInv'
<1>1. \A u \in Uses : "error" \in Recorded(u) => "error" \in Recorded(u)'
  BY DEF Remembered
<1>2. \A u \in Uses : stops = 0 => Recorded(u) \subseteq Recorded(u)'
  BY NotAtNone DEF Remembered, AnswerInv, Told, Inv, Exclusive
<1>3. Told'
  BY <1>1 DEF AnswerInv, Told
<1>4. AnswerIsRecorded'
  <2> SUFFICES ASSUME NEW u \in Uses
               PROVE  /\ wait'[u] = "error" => Recorded(u)' \cap {"nonterminal", "error"} # {}
                      /\ wait'[u] = "finish" /\ stops' = 0 => "finish" \in Recorded(u)'
    BY DEF AnswerIsRecorded
  <2>1. CASE Borne(u)
    BY <2>1 DEF Borne
  <2>2. CASE wait'[u] = wait[u]
    <3>1. /\ wait[u] = "error" => Recorded(u) \cap {"nonterminal", "error"} # {}
          /\ wait[u] = "finish" /\ stops = 0 => "finish" \in Recorded(u)
      BY DEF AnswerInv, AnswerIsRecorded
    <3> QED  BY <1>1, <1>2, <2>2, <3>1 DEF Remembered
  <2> QED  BY <2>1, <2>2
<1> QED  BY <1>3, <1>4 DEF AnswerInv

\* A step that leaves logs, answers and what is printed, and sets nobody to tell.
LEMMA Silent ==
  ASSUME TypeOK, Inv, AnswerInv, UNCHANGED <<logs, wait, pipe>>,
         stops' = 0 => stops = 0 /\ phase' \in {phase, "up"} /\ phase' \in {"recovering", "up"} /\ ~shutdown',
         handling' = handling \/ handling' = None,
         \A u \in Uses : /\ out'[u] = "emitting" => out[u] = "emitting"
                         /\ timer'[u] = "ending" => timer[u] = "ending"
  PROVE  AnswerInv'
<1>1. \A u \in Uses : Recorded(u)' = Recorded(u)
  BY SameRecorded
<1>2. \A u \in Uses : At(u, "recover")' => At(u, "recover")
  BY SomeStep DEF At
<1>3. \A u \in Uses : Remembered(u)
  BY <1>1 DEF Remembered
<1> QED  BY <1>1, <1>2, <1>3, Hushed DEF AnswerInv, Told, logs

\* An append by somebody who is not the recovery.
LEMMA Appending ==
  ASSUME TypeOK, Inv, AnswerInv, NEW u \in Uses, NEW e \in Events, LogTo(u, e),
         UNCHANGED <<done, phase, shutdown, wait, pipe, stops>>,
         phase \notin {"down", "recovering"},
         \A v \in Uses :
           /\ out'[v] = "emitting" => out[v] = "emitting" \/ (v = u /\ e = Head(pipe[u]))
           /\ timer'[v] = "ending" => timer[v] = "ending" \/ (v = u /\ e = "error"),
         \A v \in Uses : ~At(v, "recover")'
  PROVE  AnswerInv'
<1>1. /\ e \in Recorded(u)'
      /\ \A v \in Uses : Recorded(v) \subseteq Recorded(v)'
  BY LogToRecorded
<1>2. \A v \in Uses : Remembered(v)
  BY <1>1 DEF Remembered
<1>3. \A v \in Uses : out'[v] = "emitting" => Head(pipe'[v]) \in Recorded(v)'
  BY <1>1 DEF AnswerInv, Told
<1>4. \A v \in Uses : timer'[v] = "ending" => timer[v] = "ending" \/ "error" \in Recorded(v)'
  BY <1>1
<1> QED  BY <1>2, <1>3, <1>4, Hushed DEF AnswerInv, Told

\* A completion of a log.
LEMMA Completing ==
  ASSUME TypeOK, Inv, AnswerInv, NEW u \in Uses, Complete(u), active[u] # None,
         UNCHANGED <<phase, shutdown, wait, pipe, stops, timer>>,
         \/ done[u] = None /\ phase \notin {"down", "recovering"}
         \/ At(u, "recover"),
         \A v \in Uses : out'[v] = "emitting" => out[v] = "emitting" /\ v # u,
         \A v \in Uses : At(v, "recover")' => At(v, "recover") /\ v # u
  PROVE  AnswerInv'
<1>1. At(u, "recover") => "error" \in Range(active[u])
  BY DEF AnswerInv, Told
<1>2. /\ \A v \in Uses : Remembered(v)
      /\ \A v \in Uses : v # u => active'[v] = active[v] /\ Recorded(v) \subseteq Recorded(v)'
  BY <1>1, CompleteRecorded
<1>3. \A v \in Uses : out'[v] = "emitting" => Head(pipe'[v]) \in Recorded(v)'
  BY <1>2 DEF AnswerInv, Told
<1>4. \A v \in Uses : At(v, "recover")' => active'[v] # None /\ "error" \in Range(active'[v])
  BY <1>2 DEF AnswerInv, Told
<1>5. stops = 0 => phase = "up" /\ ~shutdown
  BY NotAtNone DEF AnswerInv, Told, Inv, Exclusive
<1> QED  BY <1>2, <1>3, <1>4, <1>5, Hushed

\* A dead Cortex has no threads.
Cleared ==
  phase \in {"down", "recovering"} => \A u \in Uses : err[u] = "none" /\ timer[u] = "none"

LEMMA ClearedStep == ASSUME TypeOK, Inv, Cleared, [Next]_vars PROVE Cleared'
<1>1. CASE UNCHANGED vars
  BY <1>1 DEF vars, service, threads, Cleared
<1>2. CASE Service
  BY <1>2
  DEF Service, Start, Recovered, RequestShutdown, ExitIdle, Stop, Stopped, Quit, Crash, Gone,
      threads, Cleared
<1>3. ASSUME NEW u \in Uses, Use(u) PROVE Cleared'
  <2>1. CASE Spawn(u)
    BY <2>1 DEF Spawn, Inv, Exclusive, Cleared
  <2>2. CASE \/ Accept(u) \/ SpawnFails(u) \/ CompleteUse(u) \/ Recover(u)
             \/ CompleteRecovered(u) \/ Rename(u) \/ Release(u)
    BY <2>2
    DEF Accept, SpawnFails, CompleteUse, Recover, CompleteRecovered, Rename, Release,
        threads, service, Cleared
  <2>3. CASE \/ Exit(u) \/ LogEvent(u) \/ EmitEvent(u) \/ Reap(u) \/ LogNoFinish(u)
             \/ Stderr(u) \/ Timer(u) \/ StopTalent(u) \/ Waiter(u)
    BY <2>3, QuietUse DEF Quiet, Cleared
  <2> QED  BY <1>3, <2>1, <2>2, <2>3 DEF Use, Handler, Stdout
<1> QED  BY <1>1, <1>2, <1>3 DEF Next

\* A broadcast tells what is in the log.
LEMMA HeardBorne ==
  ASSUME TypeOK, NEW u \in Uses, NEW e \in Verdicts, e \in Recorded(u), Heard(u, e),
         UNCHANGED logs
  PROVE  \A v \in Uses : wait'[v] = wait[v] \/ Borne(v)
<1>1. \A v \in Uses : Recorded(v)' = Recorded(v)
  BY SameRecorded
<1>2. \/ UNCHANGED wait
      \/ wait' = [wait EXCEPT ![u] = IF e = "finish" THEN "finish" ELSE "error"]
  BY DEF Heard, waiter
<1>3. CASE wait' = [wait EXCEPT ![u] = IF e = "finish" THEN "finish" ELSE "error"]
  <2>1. /\ \A v \in Uses : v # u => wait'[v] = wait[v]
        /\ wait'[u] = IF e = "finish" THEN "finish" ELSE "error"
    BY <1>3 DEF TypeOK
  <2> QED  BY <1>1, <2>1 DEF Borne, Verdicts
<1> QED  BY <1>2, <1>3

LEMMA WaiterStep ==
  ASSUME TypeOK, Inv, AnswerInv, NEW u \in Uses, Waiter(u)
  PROVE  AnswerInv'
<1>1. UNCHANGED <<logs, service, child, pipe, threads, asked, stops>>
  BY DEF Waiter, Listen, Link, FirstCheck, LastCheck, Answer
<1>2. \A v \in Uses : Recorded(v)' = Recorded(v)
  BY <1>1, SameRecorded
<1>3. \A v \in Uses : wait'[v] = wait[v] \/ Borne(v)
  <2>1. CASE Listen(u) \/ Link(u)
    BY <2>1 DEF Listen, Link, TypeOK, Borne
  <2>2. ASSUME NEW otherwise \in {"waiting", "timeout"}, Answer(u, otherwise)
        PROVE  \A v \in Uses : wait'[v] = wait[v] \/ Borne(v)
    <3> DEFINE answer == IF EndState(u) \in {"finish", "error"} THEN EndState(u) ELSE otherwise
    <3>1. wait' = [wait EXCEPT ![u] = answer]
      BY <2>2 DEF Answer
    <3>2. /\ answer = "finish" => "finish" \in Recorded(u)
          /\ answer = "error" => Recorded(u) \cap {"nonterminal", "error"} # {}
      BY EndStateRecorded
    <3> HIDE DEF answer
    <3>3. \A v \in Uses : wait'[v] = IF v = u THEN answer ELSE wait[v]
      BY <3>1 DEF TypeOK
    <3> QED  BY <1>2, <3>2, <3>3 DEF Borne
  <2> QED  BY <2>1, <2>2 DEF Waiter, FirstCheck, LastCheck
<1>4. \A v \in Uses : Remembered(v)
  BY <1>2 DEF Remembered
<1> QED  BY <1>1, <1>2, <1>3, <1>4, Hushed DEF AnswerInv, Told, At, logs, service, threads

LEMMA ExitStep ==
  ASSUME TypeOK, Inv, AnswerInv, NEW u \in Uses, Exit(u)
  PROVE  AnswerInv'
<1>1. UNCHANGED <<logs, service, threads, waiter, stops>>
  BY DEF Exit
<1>2. \A v \in Uses : Recorded(v)' = Recorded(v)
  BY <1>1, SameRecorded
<1>3. PICK printed \in Prefixes(pipe[u]) :
        /\ out[u] = "emitting" => printed # <<>>
        /\ pipe' = [pipe EXCEPT ![u] = printed]
  BY DEF Exit
<1>4. PICK l \in 0 .. Len(pipe[u]) : printed = SubSeq(pipe[u], 1, l)
  BY DEF Prefixes
<1>5. printed # <<>> => Head(printed) = Head(pipe[u])
  <2>1. pipe[u] \in Seq(Verdicts) /\ l \in Nat /\ l <= Len(pipe[u])
    BY DEF TypeOK
  <2>2. Len(printed) = l /\ \A i \in 1 .. l : printed[i] = pipe[u][i]
    BY <1>4, <2>1
  <2>3. CASE l = 0
    BY <1>4, <2>1, <2>3
  <2>4. CASE l > 0
    <3>1. printed[1] = pipe[u][1]
      BY <2>1, <2>2, <2>4
    <3>2. printed \in Seq(Verdicts) /\ printed # <<>> /\ pipe[u] # <<>>
      BY <1>4, <2>1, <2>2, <2>4
    <3> QED  BY <2>1, <3>1, <3>2
  <2> QED  BY <2>1, <2>3, <2>4
<1>6. \A v \in Uses : out[v] = "emitting" => Head(pipe'[v]) = Head(pipe[v])
  BY <1>3, <1>5 DEF TypeOK
<1>7. \A v \in Uses : Remembered(v)
  BY <1>2 DEF Remembered
<1> QED  BY <1>1, <1>2, <1>6, <1>7, Hushed DEF AnswerInv, Told, At, logs, service, threads, waiter

LEMMA EmitStep ==
  ASSUME TypeOK, Emitting, Inv, AnswerInv, NEW u \in Uses, EmitEvent(u)
  PROVE  AnswerInv'
<1> DEFINE e == Head(pipe[u])
<1>1. UNCHANGED <<logs, service, timer, stops>> /\ out[u] = "emitting" /\ Heard(u, e)
  BY DEF EmitEvent
<1>2. e \in Verdicts /\ e \in Recorded(u)
  BY <1>1 DEF Emitting, TypeOK, AnswerInv, Told
<1> HIDE DEF e
<1>3. \A v \in Uses : wait'[v] = wait[v] \/ Borne(v)
  BY <1>1, <1>2, HeardBorne
<1>4. \A v \in Uses : Recorded(v)' = Recorded(v)
  BY <1>1, SameRecorded
<1>5. \A v \in Uses : out'[v] = "emitting" => out[v] = "emitting" /\ pipe'[v] = pipe[v]
  <2>1. \/ out' = [out EXCEPT ![u] = "reading"] /\ pipe' = [pipe EXCEPT ![u] = Tail(pipe[u])]
        \/ out' = [out EXCEPT ![u] = "leaving"] /\ pipe' = [pipe EXCEPT ![u] = <<>>]
    BY DEF EmitEvent
  <2>2. CASE out' = [out EXCEPT ![u] = "reading"] /\ pipe' = [pipe EXCEPT ![u] = Tail(pipe[u])]
    BY <2>2 DEF TypeOK
  <2>3. CASE out' = [out EXCEPT ![u] = "leaving"] /\ pipe' = [pipe EXCEPT ![u] = <<>>]
    BY <2>3 DEF TypeOK
  <2> QED  BY <2>1, <2>2, <2>3
<1>6. \A v \in Uses : Remembered(v)
  BY <1>4 DEF Remembered
<1> QED  BY <1>1, <1>3, <1>4, <1>5, <1>6, Hushed DEF AnswerInv, Told, At, logs, service

LEMMA EndTalentStep ==
  ASSUME TypeOK, Inv, AnswerInv, NEW u \in Uses, EndTalent(u)
  PROVE  AnswerInv'
<1>1. /\ UNCHANGED <<logs, service, pipe, out, stops>>
      /\ timer[u] = "ending" /\ timer' = [timer EXCEPT ![u] = "none"] /\ Heard(u, "error")
  BY DEF EndTalent
<1>2. \A v \in Uses : wait'[v] = wait[v] \/ Borne(v)
  BY <1>1, HeardBorne DEF Verdicts, AnswerInv, Told
<1>3. \A v \in Uses : Recorded(v)' = Recorded(v)
  BY <1>1, SameRecorded
<1>4. \A v \in Uses : timer'[v] = "ending" => timer[v] = "ending"
  BY <1>1 DEF TypeOK
<1>5. \A v \in Uses : Remembered(v)
  BY <1>3 DEF Remembered
<1> QED  BY <1>1, <1>2, <1>3, <1>4, <1>5, Hushed DEF AnswerInv, Told, At, logs, service

LEMMA AnswerStep ==
  ASSUME TypeOK, Emitting, Inv, Fresh, Cleared, AnswerInv, [Next]_vars
  PROVE  AnswerInv'
<1> USE DEF logs, service, threads, waiter
<1>0. "error" \in Events /\ "request" \in Events
  BY DEF Events
<1>1. CASE UNCHANGED vars
  BY <1>1, Silent DEF vars, AnswerInv, Told
<1>2. CASE Service
  <2>s. stops \in Nat /\ phase \in Phases
    BY DEF TypeOK
  <2>1. CASE Quit \/ Crash
    <3>1. /\ UNCHANGED <<logs, waiter>> /\ handling' = None
          /\ \A v \in Uses : out'[v] = "none" /\ timer'[v] = "none"
      BY <2>1 DEF Quit, Crash, Gone
    <3>2. stops' # 0
      BY <2>1, <2>s DEF Quit, Crash, AnswerInv, Told
    <3>3. \A v \in Uses : Recorded(v)' = Recorded(v)
      BY <3>1, SameRecorded
    <3>4. \A v \in Uses : Remembered(v) /\ ~At(v, "recover")'
      BY <3>1, <3>3, SomeStep DEF Remembered, At
    <3> QED  BY <3>1, <3>2, <3>4, Hushed
  <2>2. CASE Start
    BY <2>2, Silent DEF Start, AnswerInv, Told
  <2>3. CASE Recovered
    BY <2>3, Silent DEF Recovered, AnswerInv, Told
  <2>4. CASE RequestShutdown
    BY <2>s, <2>4, Silent DEF RequestShutdown
  <2>5. CASE ExitIdle
    BY <2>5, Silent DEF ExitIdle, AnswerInv, Told
  <2>6. CASE Stop
    BY <2>s, <2>6, Silent DEF Stop
  <2>7. CASE Stopped
    BY <2>7, Silent DEF Stopped, AnswerInv, Told
  <2> QED  BY <1>2, <2>1, <2>2, <2>3, <2>4, <2>5, <2>6, <2>7 DEF Service
<1>3. ASSUME NEW u \in Uses, Use(u) PROVE AnswerInv'
  <2>1. CASE Accept(u)
    <3>1. UNCHANGED <<done, phase, shutdown, running, pipe, threads, waiter, stops>>
            /\ phase \notin {"down", "recovering"}
      BY <2>1 DEF Accept, Listening
    <3>2. CASE UNCHANGED <<active, handling>>
      BY <3>1, <3>2, Silent DEF AnswerInv, Told
    <3>3. CASE LogTo(u, "request") /\ To(u, "spawn")
      <4>1. \A v \in Uses : ~At(v, "recover")'
        BY <3>3 DEF To, At
      <4> QED  BY <1>0, <3>1, <3>3, <4>1, Appending
    <3> QED  BY <2>1, <3>2, <3>3 DEF Accept
  <2>2. CASE Spawn(u)
    <3>1. /\ handling' = None /\ UNCHANGED <<logs, phase, shutdown, waiter, stops>>
          /\ out' = [out EXCEPT ![u] = "reading"] /\ timer' = [timer EXCEPT ![u] = "armed"]
          /\ \A v \in Uses : v # u => pipe'[v] = pipe[v]
          /\ phase \notin {"down", "recovering"}
      BY <2>2 DEF Spawn, TypeOK, Inv, Exclusive
    <3>2. \A v \in Uses : timer'[v] = "ending" => timer[v] = "ending"
      BY <3>1 DEF TypeOK
    <3>3. \A v \in Uses : Recorded(v)' = Recorded(v) /\ ~At(v, "recover")'
      BY <3>1, SameRecorded, SomeStep DEF At
    <3>4. \A v \in Uses : Remembered(v)
      BY <3>3 DEF Remembered
    <3>5. \A v \in Uses : out'[v] = "emitting" => Head(pipe'[v]) \in Recorded(v)'
      <4> SUFFICES ASSUME NEW v \in Uses, out'[v] = "emitting"
                   PROVE  Head(pipe'[v]) \in Recorded(v)'
        OBVIOUS
      <4>1. out[v] = "emitting" /\ pipe'[v] = pipe[v]
        BY <3>1 DEF TypeOK
      <4>2. Head(pipe[v]) \in Recorded(v)
        BY <4>1 DEF AnswerInv, Told
      <4>3. Recorded(v)' = Recorded(v)
        BY <3>1, SameRecorded
      <4> QED  BY <4>1, <4>2, <4>3
    <3>6. stops' = 0 => stops = 0 /\ phase' = "up" /\ ~shutdown'
      BY <3>1 DEF AnswerInv, Told
    <3> QED  BY <3>1, <3>2, <3>3, <3>4, <3>5, <3>6, Hushed
  <2>3. CASE SpawnFails(u)
    <3>1. phase \notin {"down", "recovering"} /\ \A v \in Uses : ~At(v, "recover")'
      BY <2>3 DEF SpawnFails, To, At, Inv, Exclusive
    <3> QED  BY <1>0, <2>3, <3>1, Appending DEF SpawnFails
  <2>4. CASE CompleteUse(u)
    <3>1. /\ active[u] # None /\ done[u] = None /\ phase \notin {"down", "recovering"}
          /\ out[u] = "none"
      BY <2>4, NotAtNone DEF CompleteUse, Inv, Ready, HasFinish, Fresh, Exclusive
    <3>2. \A v \in Uses : ~At(v, "recover")'
      BY <2>4, SomeStep DEF CompleteUse, At
    <3> QED  BY <2>4, <3>1, <3>2, Completing DEF CompleteUse
  <2>5. CASE CompleteRecovered(u)
    <3>1. active[u] # None /\ out[u] = "none"
      BY <2>5, NotAtNone DEF CompleteRecovered, Inv, Ready, HasFinish, Exclusive
    <3>2. \A v \in Uses : ~At(v, "recover")'
      BY <2>5, SomeStep DEF CompleteRecovered, At
    <3> QED  BY <2>5, <3>1, <3>2, Completing DEF CompleteRecovered
  <2>6. CASE Exit(u)
    BY <2>6, ExitStep
  <2>7. CASE \/ LogEvent(u) \/ Reap(u) \/ LogNoFinish(u) \/ Rename(u) \/ Release(u)
    <3>1. phase \notin {"down", "recovering"}
      BY <2>7 DEF LogEvent, Reap, LogNoFinish, Rename, Release, Inv, Exclusive
    <3>2. \A v \in Uses : ~At(v, "recover")
      BY <3>1 DEF Inv, Exclusive
    <3>3. CASE LogEvent(u)
      <4>1. Head(pipe[u]) \in Events
        BY <3>3, VerdictsAreEvents DEF LogEvent, TypeOK
      <4>2. \A v \in Uses : out'[v] = "emitting" => out[v] = "emitting" \/ v = u
        BY <3>3 DEF LogEvent, TypeOK
      <4> QED  BY <3>1, <3>2, <3>3, <4>1, <4>2, Appending DEF LogEvent, At
    <3>4. CASE Reap(u)
      BY <3>4, Silent DEF Reap, TypeOK, AnswerInv, Told
    <3>5. CASE LogNoFinish(u)
      BY <1>0, <3>1, <3>2, <3>5, Appending DEF LogNoFinish, At, TypeOK
    <3>6. CASE Rename(u)
      <4>1. active[u] # None /\ done[u] = None
        BY <3>6 DEF Rename, Inv, Ready, HasFinish, Fresh
      <4>2. \A v \in Uses : out'[v] = "emitting" => out[v] = "emitting" /\ v # u
        BY <3>6 DEF Rename, TypeOK
      <4> QED  BY <3>1, <3>2, <3>6, <4>1, <4>2, Completing DEF Rename, At
    <3>7. CASE Release(u)
      BY <3>7, Silent DEF Release, TypeOK, AnswerInv, Told
    <3> QED  BY <2>7, <3>3, <3>4, <3>5, <3>6, <3>7
  <2>8. CASE EmitEvent(u)
    BY <2>8, EmitStep
  <2>9. CASE Stderr(u) \/ Timeout(u) \/ LogTimeout(u)
    <3>1. phase \notin {"down", "recovering"}
      BY <2>9 DEF Stderr, Timeout, LogTimeout, Cleared
    <3>2. \A v \in Uses : ~At(v, "recover")
      BY <3>1 DEF Inv, Exclusive
    <3>3. CASE Stderr(u) /\ LogTo(u, "error")
      BY <1>0, <3>1, <3>2, <3>3, Appending DEF Stderr, At
    <3>4. CASE Stderr(u) /\ UNCHANGED active
      BY <3>4, Silent DEF Stderr, AnswerInv, Told
    <3>5. CASE Timeout(u)
      <4>1. \A v \in Uses : timer'[v] = "ending" => timer[v] = "ending"
        BY <3>5 DEF Timeout, TypeOK
      <4> QED  BY <3>5, <4>1, Silent DEF Timeout, AnswerInv, Told
    <3>6. CASE LogTimeout(u)
      <4>1. \A v \in Uses : timer'[v] = "ending" => timer[v] = "ending" \/ v = u
        BY <3>6 DEF LogTimeout, TypeOK
      <4> QED  BY <1>0, <3>1, <3>2, <3>6, <4>1, Appending DEF LogTimeout, At
    <3> QED  BY <2>9, <3>3, <3>4, <3>5, <3>6 DEF Stderr
  <2>10. CASE EndTalent(u)
    BY <2>10, EndTalentStep
  <2>11. CASE Recover(u)
    <3>1. /\ LogTo(u, "error") /\ To(u, "recover") /\ active[u] # None
          /\ phase = "recovering"
          /\ UNCHANGED <<done, phase, shutdown, pipe, threads, waiter, stops>>
      BY <2>11 DEF Recover
    <3>2. /\ active'[u] # None /\ "error" \in Range(active'[u])
          /\ \A v \in Uses : Recorded(v) \subseteq Recorded(v)'
      BY <1>0, <3>1, LogToRecorded
    <3>3. \A v \in Uses : At(v, "recover")' => v = u
      BY <3>1 DEF To, At
    <3>4. stops # 0
      BY <3>1 DEF AnswerInv, Told
    <3>5. \A v \in Uses : Remembered(v)
      BY <3>2 DEF Remembered
    <3>6. \A v \in Uses : out'[v] = "emitting" => Head(pipe'[v]) \in Recorded(v)'
      BY <3>1, <3>2 DEF AnswerInv, Told
    <3> QED  BY <3>1, <3>2, <3>3, <3>4, <3>5, <3>6, Hushed
  <2>12. CASE StopTalent(u)
    <3>1. \A v \in Uses : timer'[v] = "ending" => timer[v] = "ending"
      BY <2>12 DEF StopTalent, TypeOK
    <3> QED  BY <2>12, <3>1, Silent DEF StopTalent, AnswerInv, Told
  <2>13. CASE Waiter(u)
    BY <2>13, WaiterStep
  <2> QED
    BY <1>3, <2>1, <2>2, <2>3, <2>4, <2>5, <2>6, <2>7, <2>8, <2>9, <2>10, <2>11, <2>12, <2>13
    DEF Use, Handler, Stdout, Timer
<1> QED  BY <1>1, <1>2, <1>3 DEF Next

LEMMA AnswerInit == Init => AnswerInv /\ Cleared
  BY SomeStep DEF Init, AnswerInv, Told, AnswerIsRecorded, Cleared, At

\* Whoever waited for a use was told what its log says; a finish may be missing
\* only from a log that was written anew after a stop.
THEOREM AnswersRecorded == Spec => []AnswerIsRecorded
<1>1. TypeOK /\ Emitting /\ [Next]_vars => (TypeOK /\ Emitting)'
  BY TypeStep
<1>2. TypeOK /\ Inv /\ Fresh /\ [Next]_vars => Fresh'
  BY FreshStep
<1>3. TypeOK /\ Inv /\ Cleared /\ [Next]_vars => Cleared'
  BY ClearedStep
<1>4. TypeOK /\ Emitting /\ Inv /\ Fresh /\ Cleared /\ AnswerInv /\ [Next]_vars => AnswerInv'
  BY AnswerStep
<1>5. AnswerInv => AnswerIsRecorded
  BY DEF AnswerInv
<1>6. Init => TypeOK /\ Emitting /\ Fresh /\ Cleared /\ AnswerInv
  BY TypeInit, FreshInit, AnswerInit
<1> QED  BY <1>1, <1>2, <1>3, <1>4, <1>5, <1>6, Invariance, PTL DEF Spec
----------------------------------------------------------------------------
(* What becomes of a completed log *)

\* <use>.jsonl is written once: only the recovery of a later start replaces it, when a
\* late writer has left an active log of the same use, and then by a completed log.
CompletedLogsLast ==
  \A u \in Uses : done[u] # None =>
    done'[u] # None /\ (done'[u] = done[u] \/ At(u, "recover"))

LEMMA CompletedStep ==
  ASSUME TypeOK, Inv, Fresh, [Next]_vars
  PROVE  CompletedLogsLast
<1>1. CASE UNCHANGED done
  BY <1>1 DEF CompletedLogsLast
<1>2. ASSUME NEW u \in Uses, Rename(u) \/ CompleteUse(u) \/ CompleteRecovered(u)
      PROVE  CompletedLogsLast
  <2>1. /\ done' = [done EXCEPT ![u] = active[u]] /\ active[u] # None
        /\ done[u] # None => At(u, "recover")
    BY <1>2
    DEF Rename, CompleteUse, CompleteRecovered, Complete, Inv, Ready, HasFinish, Fresh
  <2> QED  BY <2>1 DEF CompletedLogsLast, TypeOK
<1>3. CASE UNCHANGED vars
  BY <1>1, <1>3 DEF vars, logs
<1>4. CASE Service
  BY <1>1, <1>4
  DEF Service, Start, Recovered, RequestShutdown, ExitIdle, Stop, Stopped, Quit, Crash, Gone, logs
<1>5. ASSUME NEW u \in Uses, Use(u) PROVE CompletedLogsLast
  BY <1>1, <1>2, <1>5
  DEF Use, Accept, Handler, Spawn, SpawnFails, Exit, Stdout, LogEvent, EmitEvent, Reap,
      LogNoFinish, Release, Stderr, Timer, Timeout, LogTimeout, EndTalent, Recover,
      StopTalent, Waiter, Listen, Link, FirstCheck, LastCheck, Answer, logs
<1> QED  BY <1>3, <1>4, <1>5 DEF Next

\* What a completed log says stands, until a restart finds a late append to it.
THEOREM CompletedOnce == Spec => [][CompletedLogsLast]_vars
<1>1. Inv /\ TypeOK /\ Fresh /\ [Next]_vars => Fresh'
  BY FreshStep
<1>2. Spec => []Fresh
  BY <1>1, FreshInit, TypeCorrect, Invariance, PTL DEF Spec
<1>3. TypeOK /\ Inv /\ Fresh /\ [Next]_vars => [CompletedLogsLast]_vars
  BY CompletedStep
<1> QED  BY <1>2, <1>3, TypeCorrect, Invariance, PTL DEF Spec

----------------------------------------------------------------------------
(* Talents *)

\* A talent at work is in running_uses and has its two monitors; its timer has yet to
\* end it, unless somebody has signalled it.
TalentsAreTimed ==
  \A u \in Uses :
    /\ Alive(u) => /\ u \in running /\ err[u] = "reading"
                   /\ out[u] \in {"reading", "emitting", "leaving"}
    /\ child[u] = "running" => timer[u] # "none"

\* When stop() returns no talent is at work, whatever the handler has in hand.  One
\* may be spawned after that, for as long as the thread of the bus goes on: the process
\* does not end of itself before every talent has ended or been told to.  (A talent
\* counts from where it is tracked and its timer started: Spawn is one step.)
NoTalentAbandoned ==
  /\ phase = "stopping" /\ phase' = "closing" => \A u \in Uses : ~Alive(u)
  /\ phase # "down" /\ phase' = "down" /\ stops' = stops =>
       \A u \in Uses : child[u] # "running"

\* Only Spawn begins a talent, and while one is at work its threads move one way.
LEMMA TalentStep ==
  ASSUME TypeOK, Inv, TalentsAreTimed, NEW u \in Uses, Use(u)
  PROVE  TalentsAreTimed' /\ (\A v \in Uses : Alive(v)' => Alive(v) \/ (Spawn(u) /\ v = u))
<1> DEFINE Timed(v) ==
             /\ Alive(v) => err[v] = "reading" /\ out[v] \in {"reading", "emitting", "leaving"}
             /\ child[v] = "running" => timer[v] # "none"
           Goal == \A v \in Uses : Timed(v)' /\ (Alive(v)' => Alive(v) \/ (Spawn(u) /\ v = u))
<1>0. Inv'
  BY InvStep DEF Next
<1> SUFFICES Goal
  BY <1>0 DEF TalentsAreTimed, Inv, Exclusive, Alive
<1> USE DEF logs, service, threads
<1>1. \A v \in Uses : Timed(v)
  BY DEF TalentsAreTimed
<1>2. CASE Spawn(u)
  BY <1>1, <1>2 DEF Spawn, Alive, TypeOK
<1>3. CASE Exit(u)
  BY <1>1, <1>3 DEF Exit, Alive, TypeOK
<1>4. CASE LogEvent(u)
  BY <1>1, <1>4 DEF LogEvent, Alive, TypeOK
<1>5. CASE EmitEvent(u)
  <2>1. out' = [out EXCEPT ![u] = "reading"] \/ out' = [out EXCEPT ![u] = "leaving"]
    BY <1>5 DEF EmitEvent
  <2>2. UNCHANGED <<child, err, timer>>
    BY <1>5 DEF EmitEvent
  <2> QED  BY <1>1, <2>1, <2>2 DEF Alive, TypeOK
<1>6. CASE Reap(u) \/ LogNoFinish(u) \/ Rename(u) \/ Release(u)
  <2>1. /\ \A v \in Uses : v # u => out'[v] = out[v]
        /\ UNCHANGED <<child, err, timer>>
    BY <1>6 DEF Reap, LogNoFinish, Rename, Release, TypeOK
  <2>2. ~Alive(u)
    BY <1>1, <1>6 DEF Reap, LogNoFinish, Rename, Release, Alive
  <2> QED  BY <1>1, <2>1, <2>2 DEF Alive, TypeOK
<1>7. CASE Stderr(u)
  BY <1>1, <1>7 DEF Stderr, Alive, TypeOK
<1>8. CASE Timer(u)
  BY <1>1, <1>8 DEF Timer, Timeout, LogTimeout, EndTalent, Signal, Alive, TypeOK
<1>9. CASE StopTalent(u)
  BY <1>1, <1>9 DEF StopTalent, Signal, Alive, TypeOK
<1>10. CASE UNCHANGED <<child, out, err, timer>>
  BY <1>1, <1>10 DEF Alive
<1>11. CASE Accept(u) \/ SpawnFails(u) \/ CompleteUse(u) \/ Recover(u) \/ CompleteRecovered(u) \/ Waiter(u)
  BY <1>10, <1>11
  DEF Accept, SpawnFails, CompleteUse, Recover, CompleteRecovered, Waiter, Listen, Link,
      FirstCheck, LastCheck, Answer
<1> QED
  BY <1>2, <1>3, <1>4, <1>5, <1>6, <1>7, <1>8, <1>9, <1>11 DEF Use, Handler, Stdout

LEMMA TalentsTimedStep ==
  ASSUME TypeOK, Inv, TalentsAreTimed, [Next]_vars
  PROVE  TalentsAreTimed'
<1>1. CASE UNCHANGED vars
  BY <1>1 DEF vars, service, threads, TalentsAreTimed, Alive
<1>2. CASE Service
  <2>1. CASE Gone
    BY <2>1 DEF Gone, TalentsAreTimed, Alive
  <2>2. CASE Start \/ Recovered \/ RequestShutdown \/ ExitIdle \/ Stop \/ Stopped
    BY <2>2
    DEF Start, Recovered, RequestShutdown, ExitIdle, Stop, Stopped, threads,
        TalentsAreTimed, Alive
  <2> QED  BY <1>2, <2>1, <2>2 DEF Service, Quit, Crash
<1>3. ASSUME NEW u \in Uses, Use(u) PROVE TalentsAreTimed'
  BY <1>3, TalentStep
<1> QED  BY <1>1, <1>2, <1>3 DEF Next

LEMMA TalentInit == Init => TalentsAreTimed
  BY DEF Init, TalentsAreTimed, Alive

\* No talent runs without somebody to read it and a timer to end it.
THEOREM TalentsTimed == Spec => []TalentsAreTimed
<1>1. TypeOK /\ Inv /\ TalentsAreTimed /\ [Next]_vars => TalentsAreTimed'
  BY TalentsTimedStep
<1> QED  BY <1>1, TalentInit, TypeCorrect, Invariance, PTL DEF Spec

\* Only Stopped leads from "stopping" to "closing", and only Quit, of the steps that
\* are no crash, to "down".
LEMMA AbandonedStep ==
  ASSUME TypeOK, TalentsAreTimed, [Next]_vars
  PROVE  NoTalentAbandoned
<1>1. CASE UNCHANGED phase
  BY <1>1 DEF NoTalentAbandoned
<1>2. CASE UNCHANGED vars
  BY <1>1, <1>2 DEF vars, service
<1>3. CASE Stopped
  BY <1>3 DEF Stopped, TalentsAreTimed, NoTalentAbandoned
<1>4. CASE Quit
  BY <1>4 DEF Quit, Gone, TalentsAreTimed, NoTalentAbandoned
<1>5. CASE Crash
  BY <1>5 DEF Crash, Gone, TypeOK, NoTalentAbandoned
<1>6. CASE Start \/ Recovered \/ RequestShutdown \/ ExitIdle \/ Stop
  BY <1>6 DEF Start, Recovered, RequestShutdown, ExitIdle, Stop, NoTalentAbandoned
<1>7. ASSUME NEW u \in Uses, Use(u) PROVE UNCHANGED phase
  BY <1>7
  DEF Use, Accept, Handler, Spawn, SpawnFails, CompleteUse, Exit, Stdout, LogEvent,
      EmitEvent, Reap, LogNoFinish, Rename, Release, Stderr, Timer, Timeout, LogTimeout,
      EndTalent, Recover, CompleteRecovered, StopTalent, Waiter, Listen, Link, FirstCheck,
      LastCheck, Answer, service
<1> QED  BY <1>1, <1>2, <1>3, <1>4, <1>5, <1>6, <1>7 DEF Next, Service

\* stop() leaves no talent at work, and Cortex does not exit while one that was
\* spawned later runs on untold.
THEOREM StopEndsTalents == Spec => [][NoTalentAbandoned]_vars
<1>1. TypeOK /\ TalentsAreTimed /\ [Next]_vars => [NoTalentAbandoned]_vars
  BY AbandonedStep
<1> QED  BY <1>1, TypeCorrect, TalentsTimed, PTL DEF Spec
==============================================================================
