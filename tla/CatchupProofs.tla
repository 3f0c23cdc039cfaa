---------------------------- MODULE CatchupProofs ----------------------------
(***************************************************************************)
(* Theorems about CatchupState for every value of the constants: type      *)
(* correctness; ActiveHasAttempt: after startup, and unless an access to   *)
(* catchup-state.json has failed, the record of an attempt in progress     *)
(* belongs to the attempt in progress; one notice per stuck episode; how   *)
(* many misses a record can count, and that it keeps them until its day is *)
(* completed; and that the backoff is measured, so that every day is due   *)
(* again.                                                                  *)
(***************************************************************************)
EXTENDS CatchupState, TLAPS

States == [Days -> [Kinds -> Record \cup {None}]]

NoneActive(rs) == \A d \in Days, k \in Kinds : ~IsActive(rs[d][k])

----------------------------------------------------------------------------
(* Records *)

LEMMA DelayType == ASSUME NEW n \in Nat \ {0} PROVE Delay(n) \in Nat
<1>1. Len(Delays) \in Nat \ {0}
  BY DelaysAssumption
<1>2. (IF n < Len(Delays) THEN n ELSE Len(Delays)) \in 1 .. Len(Delays)
  BY <1>1
<1> QED  BY <1>2, DelaysAssumption DEF Delay

LEMMA UpdatedType ==
  ASSUME NEW r \in Record, NEW n \in Nat, NEW w \in Nat, NEW s \in BOOLEAN,
         NEW v \in Nat \cup {None}, NEW p \in Nat \cup {None}
  PROVE  /\ [r EXCEPT !.misses = n, !.retry = w, !.active = v, !.stuck = s] \in Record
         /\ [r EXCEPT !.attempts = n, !.print = p, !.active = v] \in Record
  BY DEF Record

LEMMA MissedType ==
  ASSUME NEW r \in Record
  PROVE  Missed(r) \in Record /\ Missed(r).active = None
<1> DEFINE n == r.misses + 1
           s == IF n >= Threshold THEN TRUE ELSE r.stuck
<1>1. n \in Nat /\ Delay(n) \in Nat /\ None \in Nat \cup {None}
  BY DelayType DEF Record
<1>2. s \in BOOLEAN
  BY DEF Record
<1>3. Missed(r) = [r EXCEPT !.misses = n, !.retry = Delay(n), !.active = None, !.stuck = s]
  BY DEF Missed
<1> HIDE DEF n, s
<1>4. \A w \in Nat : [r EXCEPT !.misses = n, !.retry = w, !.active = None, !.stuck = s] \in Record
  BY <1>1, <1>2, UpdatedType
<1>5. \A w : [r EXCEPT !.misses = n, !.retry = w, !.active = None, !.stuck = s].active = None
  BY DEF Record
<1> QED  BY <1>1, <1>3, <1>4, <1>5

LEMMA ClearedType ==
  ASSUME NEW r \in Record
  PROVE  [r EXCEPT !.active = None] \in Record /\ [r EXCEPT !.active = None].active = None
  BY DEF Record

LEMMA NewRecordType == NewRecord \in Record
  BY DEF Record, NewRecord

LEMMA StartedType ==
  ASSUME NEW r \in Record, NEW k, seen \in [mark : Nat, print : Nat]
  PROVE  Started(r, k) \in Record
<1> DEFINE print == IF k = "catchup" THEN seen.print ELSE None
           kept == IF k = "catchup" /\ r.print # print
                   THEN [r EXCEPT !.misses = 0, !.stuck = FALSE, !.retry = 0] ELSE r
<1>1. kept \in Record
  BY DEF Record
<1>2. print \in Nat \cup {None} /\ seen.mark \in Nat \cup {None}
  OBVIOUS
<1>3. kept.attempts + 1 \in Nat
  BY <1>1 DEF Record
<1>4. Started(r, k) =
        [kept EXCEPT !.attempts = kept.attempts + 1, !.print = print, !.active = seen.mark]
  BY DEF Started
<1> HIDE DEF kept, print
<1>5. \A n \in Nat, v \in Nat \cup {None} :
        [kept EXCEPT !.attempts = n, !.print = print, !.active = v] \in Record
  BY <1>1, <1>2, UpdatedType
<1> QED  BY <1>2, <1>3, <1>4, <1>5, ZenonT(60)

LEMMA EmptyType == Empty \in States /\ NoneActive(Empty)
  BY DEF States, Empty, NoneActive, IsActive

\* _prune makes nothing active.
LEMMA PrunedType ==
  ASSUME NEW rs \in States
  PROVE  /\ Pruned(rs) \in States
         /\ \A d \in Days, k \in Kinds : IsActive(Pruned(rs)[d][k]) => IsActive(rs[d][k])
<1>1. \A d \in Days, k \in Kinds : Pruned(rs)[d][k] \in {rs[d][k], None}
  BY DEF Pruned
<1>2. Pruned(rs) \in States
  BY DEF Pruned, States
<1> QED  BY <1>1, <1>2 DEF IsActive

\* reconcile_interrupted_attempts leaves nothing active.
LEMMA ReconciledType ==
  ASSUME NEW rs \in States
  PROVE  LET new == [d \in Days |-> Reconciled(d, rs[d])]
         IN  new \in States /\ NoneActive(new)
<1> DEFINE new == [d \in Days |-> Reconciled(d, rs[d])]
<1>1. ASSUME NEW d \in Days
      PROVE  /\ Reconciled(d, rs[d]) \in [Kinds -> Record \cup {None}]
             /\ \A k \in Kinds : ~IsActive(Reconciled(d, rs[d])[k])
  <2>1. rs[d] \in [Kinds -> Record \cup {None}]
    BY DEF States
  <2>2. CASE \A k \in Kinds : ~IsActive(rs[d][k])
    BY <2>1, <2>2 DEF Reconciled
  <2>3. CASE ~(\A k \in Kinds : ~IsActive(rs[d][k])) /\ Complete(d)
    <3>1. Reconciled(d, rs[d]) = Empty[d]
      BY <2>3 DEF Reconciled
    <3> QED  BY <3>1, EmptyType DEF States, NoneActive
  <2>4. CASE ~(\A k \in Kinds : ~IsActive(rs[d][k])) /\ ~Complete(d)
    <3> DEFINE one(k) == IF ~IsActive(rs[d][k]) THEN rs[d][k]
                         ELSE IF k = "catchup" THEN Missed(rs[d][k])
                         ELSE [rs[d][k] EXCEPT !.active = None]
    <3>1. Reconciled(d, rs[d]) = [k \in Kinds |-> one(k)]
      BY <2>4 DEF Reconciled
    <3>2. ASSUME NEW k \in Kinds
          PROVE  one(k) \in Record \cup {None} /\ ~IsActive(one(k))
      <4>1. rs[d][k] \in Record \cup {None}
        BY <2>1
      <4>2. CASE ~IsActive(rs[d][k])
        BY <4>1, <4>2
      <4>3. CASE IsActive(rs[d][k])
        <5>1. rs[d][k] \in Record
          BY <4>1, <4>3 DEF IsActive
        <5>2. one(k) \in Record /\ one(k).active = None
          BY <5>1, <4>3, MissedType, ClearedType
        <5> QED  BY <5>2 DEF IsActive
      <4> QED  BY <4>2, <4>3
    <3> HIDE DEF one
    <3> QED  BY <3>1, <3>2
  <2> QED  BY <2>2, <2>3, <2>4
<1>2. new \in States
  BY <1>1 DEF States
<1>3. NoneActive(new)
  BY <1>1 DEF NoneActive
<1> QED  BY <1>2, <1>3

\* One record of a state replaced.
LEMMA ReplacedType ==
  ASSUME NEW rs \in States, NEW d \in Days, NEW k \in Kinds,
         NEW r \in Record \cup {None}
  PROVE  /\ [rs EXCEPT ![d][k] = r] \in States
         /\ [rs EXCEPT ![d][k] = r][d][k] = r
         /\ \A e \in Days, j \in Kinds : e # d \/ j # k =>
              [rs EXCEPT ![d][k] = r][e][j] = rs[e][j]
  BY DEF States

\* The record that a transaction starts from.
LEMMA FoundType ==
  ASSUME NEW rs \in States, NEW d \in Days, NEW k \in Kinds
  PROVE  (IF rs[d][k] = None THEN NewRecord ELSE rs[d][k]) \in Record
  BY NewRecordType DEF States

LEMMA LoadedType ==
  ASSUME TypeOK, NEW base \in Loaded PROVE base \in States
  BY EmptyType DEF TypeOK, Loaded, States

\* What the histories must be.
Histories ==
  /\ episode \in [Days -> Nat] /\ notes \in [Days -> Nat]
  /\ missed \subseteq Days /\ overtaken \in [Days -> Nat]

\* What a transaction leaves behind is well typed.
LEMMA SavedType ==
  ASSUME TypeOK, NEW base, NEW new \in States, NEW early, Saved(base, new, early)
  PROVE  recs' \in States /\ faults' \in Nat /\ Histories'
<1>1. recs' \in States
  BY PrunedType DEF Saved
<1>2. faults' \in Nat
  BY DEF Saved, TypeOK
<1>3. Episodes(recs') /\ Overtaken(recs', early)
  BY DEF Saved
<1>4. episode' \in [Days -> Nat] /\ notes' \in [Days -> Nat] /\ missed' \subseteq Days
  BY <1>3 DEF Episodes, TypeOK
<1>5. overtaken' \in [Days -> Nat]
  BY <1>3 DEF Overtaken, TypeOK
<1> QED  BY <1>1, <1>2, <1>4, <1>5 DEF Histories

LEMMA UnsavedType ==
  ASSUME TypeOK, NEW base, Unsaved(base)
  PROVE  recs' \in States /\ faults' \in Nat /\ Histories'
  BY DEF Unsaved, TypeOK, States, Histories, ghosts

\* A notice given is counted, or is that of an episode that is over.
LEMMA NotifiedType ==
  ASSUME TypeOK, NEW n \in Notices, Notified(n)
  PROVE  Histories'
<1>1. n.day \in Days
  BY DEF Notices
<1>2. notes[n.day] + 1 \in Nat
  BY <1>1 DEF TypeOK
<1> QED  BY <1>1, <1>2 DEF Notified, TypeOK, Histories

----------------------------------------------------------------------------
(* Type correctness *)

\* What the partition's variables must be, and the steps that move them.
Placed ==
  /\ held \in Seq(Commands) /\ queue \in Seq(Commands)
  /\ current \in Commands \cup {None}
  /\ stage \in Stages /\ proc \in Procs
  /\ stage # "idle" => current \in Commands
  /\ proc \in {"running", "finishing"} => current \in Commands
  /\ seen \in [mark : Nat, print : Nat] \cup Notices \cup {None}
  /\ stage = "reading" => seen \in [mark : Nat, print : Nat]
  /\ stage = "notifying" => seen \in Notices

LEMMA EnqueuedType ==
  ASSUME queue \in Seq(Commands), NEW cmd \in Commands
  PROVE  Enqueued(cmd) \in Seq(Commands)
  BY DEF Enqueued

LEMMA SubmitPlaced ==
  ASSUME Placed, NEW cmd \in Commands, Submit(cmd)
  PROVE  Placed'
<1>1. CASE phase = "starting" /\ held' = Append(held, cmd) /\ UNCHANGED partition
  BY <1>1 DEF Placed, partition
<1>2. CASE /\ current' = cmd /\ stage' = "starting" /\ proc' = "none"
           /\ UNCHANGED <<held, seen, queue>>
  BY <1>2 DEF Placed, Stages, Procs
<1>3. CASE stage # "idle" /\ queue' = Enqueued(cmd)
           /\ UNCHANGED <<held, current, stage, proc, seen>>
  BY <1>3, EnqueuedType DEF Placed
<1> QED  BY <1>1, <1>2, <1>3 DEF Submit

LEMMA ToDrainType == ASSUME NEW forced \in SUBSET Days PROVE ToDrain(forced) \subseteq Days
  BY DEF ToDrain

\* Type correctness of every reachable state.
THEOREM TypeCorrect == Spec => []TypeOK
<1> USE DEF files, partition, ghosts, counters
<1>1. Init => TypeOK
  BY EmptyType DEF Init, TypeOK, States, Phases, Stages, Procs, Actors
<1>2. TypeOK /\ [Next]_vars => TypeOK'
  <2> SUFFICES ASSUME TypeOK, [Next]_vars PROVE TypeOK'
    OBVIOUS
  <2>0. Placed /\ recs \in States
    BY DEF TypeOK, Placed, States
  <2>1. CASE World
    <3>1. ASSUME NEW d \in Days, NEW b \in BOOLEAN, NewSegment(d, b) PROVE TypeOK'
      <4>1. Later(d) \in Nat
        BY DEF TypeOK, Later
      <4>2. raw' \in [Days -> Nat]
        BY <3>1 DEF NewSegment, TypeOK
      <4>3. stream' \in [Days -> Nat]
        BY <3>1, <4>1 DEF NewSegment, Touch, TypeOK
      <4> QED  BY <3>1, <4>2, <4>3 DEF NewSegment, TypeOK
    <3>2. ASSUME NEW d \in Days, MarkUpdated(d) PROVE TypeOK'
      <4>1. Later(d) \in Nat
        BY DEF TypeOK, Later
      <4> QED  BY <3>2, <4>1 DEF MarkUpdated, Touch, TypeOK
    <3> QED  BY <2>1, <3>1, <3>2 DEF World
  <2>2. CASE Finish
    <3>1. current.day \in Days
      BY <2>2 DEF Finish, TypeOK, Commands
    <3>2. Later(current.day) \in Nat
      BY <3>1 DEF TypeOK, Later
    <3> QED  BY <2>2, <3>1, <3>2 DEF Finish, TypeOK, Procs
  <2>3. CASE Exit
    BY <2>3 DEF Exit, TypeOK, Procs
  <2>4. CASE Tick
    <3> DEFINE older(r) == IF r # None /\ r.retry > 0 THEN [r EXCEPT !.retry = @ - 1] ELSE r
    <3>1. ASSUME NEW r \in Record \cup {None} PROVE older(r) \in Record \cup {None}
      <4>1. CASE r # None /\ r.retry > 0
        <5>1. r \in Record /\ r.retry - 1 \in Nat
          BY <4>1 DEF Record
        <5>2. \A n \in Nat : [r EXCEPT !.retry = n] \in Record
          BY <5>1 DEF Record
        <5> QED  BY <4>1, <5>1, <5>2
      <4> QED  BY <4>1
    <3>2. recs' = [d \in Days |-> [k \in Kinds |-> older(recs[d][k])]]
      BY <2>4 DEF Tick
    <3> HIDE DEF older
    <3>3. recs' \in States
      BY <2>0, <3>1, <3>2 DEF States
    <3> QED  BY <2>4, <3>3 DEF Tick, TypeOK, States
  <2>5. CASE Drains
    <3>1. CASE HandleDailyTasks
      <4>1. ToDrain({}) \subseteq Days
        BY ToDrainType
      <4> QED  BY <3>1, <4>1 DEF HandleDailyTasks, TypeOK, Actors
    <3>2. ASSUME NEW forced \in {{}} \cup {{d} : d \in Days}, HandleDrain(forced) PROVE TypeOK'
      <4>1. ToDrain(forced) \subseteq Days
        BY ToDrainType
      <4>2. drain' \in [Actors -> SUBSET Days] /\ (phase = "down" => FALSE)
        BY <3>2, <4>1 DEF HandleDrain, TypeOK, Actors
      <4>3. news' \in Nat
        BY <3>2 DEF HandleDrain, TypeOK
      <4> QED  BY <3>2, <4>2, <4>3 DEF HandleDrain, TypeOK
    <3>3. ASSUME NEW a \in Actors, DrainSubmit(a) PROVE TypeOK'
      <4>1. PICK d \in drain[a] :
              /\ Submit([day |-> d, kind |-> "catchup"])
              /\ drain' = [drain EXCEPT ![a] = @ \ {d}]
              /\ UNCHANGED <<files, recs, phase, announce, ghosts, counters, faults>>
        BY <3>3 DEF DrainSubmit
      <4>2. [day |-> d, kind |-> "catchup"] \in Commands
        BY DEF TypeOK, Commands, Kinds
      <4>3. Placed'
        BY <2>0, <4>1, <4>2, SubmitPlaced
      <4> QED  BY <4>1, <4>3 DEF TypeOK, Placed
    <3>4. ASSUME NEW d \in Days, RequestFromScratch(d) PROVE TypeOK'
      <4>1. [day |-> d, kind |-> "scratch"] \in Commands
        BY DEF Commands, Kinds
      <4>2. Placed'
        BY <2>0, <3>4, <4>1, SubmitPlaced DEF RequestFromScratch
      <4>3. news' \in Nat /\ phase # "down"
        BY <3>4 DEF RequestFromScratch, TypeOK
      <4> QED  BY <3>4, <4>2, <4>3 DEF RequestFromScratch, TypeOK, Placed
    <3> QED  BY <2>5, <3>1, <3>2, <3>3, <3>4 DEF Drains
  <2>6. CASE Thread
    <3>1. CASE Spawn
      BY <3>1 DEF Spawn, TypeOK, Stages, Procs
    <3>2. CASE ReadAttempt
      <4>1. current.day \in Days
        BY <3>2 DEF ReadAttempt, TypeOK, Commands
      <4>2. seen' \in [mark : Nat, print : Nat]
        BY <3>2, <4>1 DEF ReadAttempt, TypeOK
      <4> QED  BY <3>2, <4>2 DEF ReadAttempt, TypeOK, Stages
    <3>3. CASE RecordAttempt
      <4> DEFINE d == current.day
                 k == current.kind
                 found(base) == IF base[d][k] = None THEN NewRecord ELSE base[d][k]
      <4>1. d \in Days /\ k \in Kinds /\ seen \in [mark : Nat, print : Nat]
        BY <3>3 DEF RecordAttempt, TypeOK, Commands
      <4>2. PICK base \in Loaded :
              \/ Saved(base, [base EXCEPT ![d][k] = Started(found(base), k)], {})
              \/ Unsaved(base)
        BY <3>3 DEF RecordAttempt
      <4>3. base \in States
        BY LoadedType
      <4>4. found(base) \in Record
        BY <4>1, <4>3, FoundType
      <4>5. [base EXCEPT ![d][k] = Started(found(base), k)] \in States
        <5>1. Started(found(base), k) \in Record
          BY <4>1, <4>4, StartedType
        <5> QED  BY <4>1, <4>3, <5>1, ReplacedType
      <4> HIDE DEF d, k, found
      <4>6. recs' \in States /\ faults' \in Nat /\ Histories'
        BY <4>2, <4>5, SavedType, UnsavedType
      <4> QED  BY <3>3, <4>6 DEF RecordAttempt, TypeOK, Stages, States, Histories
    <3>4. CASE RecordOutcome
      <4> DEFINE d == current.day
                 k == current.kind
                 found(base) == IF base[d][k] = None THEN NewRecord ELSE base[d][k]
                 new(base) == IF CompletedSince(d, found(base).active)
                              THEN [base EXCEPT ![d] = Empty[d]]
                              ELSE IF k = "catchup"
                              THEN [base EXCEPT ![d][k] = Missed(found(base))]
                              ELSE [base EXCEPT ![d][k] = [found(base) EXCEPT !.active = None]]
      <4>1. d \in Days /\ k \in Kinds
        BY <3>4 DEF RecordOutcome, TypeOK, Commands
      <4>2. PICK base \in Loaded :
              \/ /\ Saved(base, new(base), {})
                 /\ IF Entered(base, new(base), d)
                    THEN stage' = "notifying" /\ seen' = Notice(d, episode'[d])
                    ELSE stage' = "leaving" /\ UNCHANGED seen
              \/ Unsaved(base) /\ stage' = "leaving" /\ UNCHANGED seen
        BY <3>4 DEF RecordOutcome
      <4>3. base \in States
        BY LoadedType
      <4>4. found(base) \in Record
        BY <4>1, <4>3, FoundType
      <4>5. new(base) \in States
        <5> HIDE DEF found
        <5>1. [base EXCEPT ![d] = Empty[d]] \in States
          BY <4>1, <4>3, EmptyType DEF States
        <5>2. [base EXCEPT ![d][k] = Missed(found(base))] \in States
          BY <4>1, <4>3, <4>4, MissedType, ReplacedType
        <5>3. [base EXCEPT ![d][k] = [found(base) EXCEPT !.active = None]] \in States
          BY <4>1, <4>3, <4>4, ClearedType, ReplacedType
        <5> QED  BY <5>1, <5>2, <5>3
      <4> HIDE DEF d, k, found, new
      <4>6. recs' \in States /\ faults' \in Nat /\ Histories'
        BY <4>2, <4>5, SavedType, UnsavedType
      <4>7. episode'[d] \in Nat
        BY <4>1, <4>6 DEF Histories
      <4>8. \/ stage' = "leaving" /\ seen' = seen
            \/ stage' = "notifying" /\ seen' \in Notices
        BY <4>1, <4>2, <4>7 DEF Notice, Notices
      <4> QED  BY <3>4, <4>6, <4>8 DEF RecordOutcome, TypeOK, Stages, States, Histories
    <3>5. CASE Notify
      <4>1. Histories'
        BY <3>5, NotifiedType DEF Notify, TypeOK
      <4> QED  BY <3>5, <4>1 DEF Notify, TypeOK, Stages, Histories
    <3>6. CASE ProcessNext
      <4>1. CASE queue # <<>>
        <5>1. Head(queue) \in Commands /\ Tail(queue) \in Seq(Commands)
          BY <4>1 DEF TypeOK
        <5> QED  BY <3>6, <4>1, <5>1 DEF ProcessNext, TypeOK, Stages, Procs
      <4>2. CASE queue = <<>>
        BY <3>6, <4>2 DEF ProcessNext, TypeOK, Stages, Procs
      <4> QED  BY <4>1, <4>2
    <3> QED  BY <2>6, <3>1, <3>2, <3>3, <3>4, <3>5, <3>6 DEF Thread
  <2>7. CASE Startup
    <3>1. CASE Boot
      BY <3>1 DEF Boot, TypeOK, Phases, Procs
    <3>2. CASE SetReady
      BY <3>2 DEF SetReady, TypeOK, Phases
    <3>3. CASE FlushHeld
      <4>1. Head(held) \in Commands /\ Tail(held) \in Seq(Commands)
        BY <3>3 DEF FlushHeld, TypeOK
      <4>2. CASE stage = "idle"
        BY <3>3, <4>1, <4>2 DEF FlushHeld, TypeOK, Stages
      <4>3. CASE stage # "idle"
        <5>1. queue' \in Seq(Commands)
          BY <3>3, <4>1, <4>3, EnqueuedType DEF FlushHeld, TypeOK
        <5> QED  BY <3>3, <4>1, <4>3, <5>1 DEF FlushHeld, TypeOK
      <4> QED  BY <4>2, <4>3
    <3>4. CASE ReconcileInterruptedAttempts
      <4> DEFINE new(base) == [d \in Days |-> Reconciled(d, base[d])]
      <4>1. PICK base \in Loaded, early \in SUBSET Days :
              \/ /\ faults' = IF base = recs THEN faults ELSE faults + 1
                 /\ UNCHANGED <<recs, announce, ghosts>>
              \/ /\ Saved(base, new(base), early)
                 /\ announce' = {Notice(d, episode'[d]) :
                                   d \in {e \in Days : Entered(base, new(base), e)}}
              \/ Unsaved(base) /\ UNCHANGED announce
        BY <3>4 DEF ReconcileInterruptedAttempts
      <4>2. base \in States
        BY LoadedType
      <4>3. new(base) \in States
        BY <4>2, ReconciledType
      <4> HIDE DEF new
      <4>4. recs' \in States /\ faults' \in Nat /\ Histories'
        <5>1. CASE /\ faults' = IF base = recs THEN faults ELSE faults + 1
                   /\ UNCHANGED <<recs, announce, ghosts>>
          BY <2>0, <5>1 DEF TypeOK, Histories
        <5>2. CASE Saved(base, new(base), early)
          BY <4>3, <5>2, SavedType
        <5>3. CASE Unsaved(base)
          BY <5>3, UnsavedType
        <5> QED  BY <4>1, <5>1, <5>2, <5>3
      <4>5. announce' \subseteq Notices
        <5>1. \A e \in Days : Notice(e, episode'[e]) \in Notices
          BY <4>4 DEF Histories, Notice, Notices
        <5> QED  BY <4>1, <5>1 DEF TypeOK
      <4> QED  BY <3>4, <4>4, <4>5
               DEF ReconcileInterruptedAttempts, TypeOK, Phases, States, Histories
    <3>5. CASE AnnounceTransition
      <4>1. Histories'
        BY <3>5, NotifiedType DEF AnnounceTransition, TypeOK
      <4> QED  BY <3>5, <4>1 DEF AnnounceTransition, TypeOK, Histories
    <3>6. CASE StartupDrain
      <4>1. ToDrain({}) \subseteq Days
        BY ToDrainType
      <4> QED  BY <3>6, <4>1 DEF StartupDrain, TypeOK, Actors, Phases
    <3> QED  BY <2>7, <3>1, <3>2, <3>3, <3>4, <3>5, <3>6 DEF Startup
  <2>8. CASE Stop
    <3>1. missed' \subseteq Days
      BY <2>8 DEF Stop, TypeOK
    <3> QED  BY <2>8, <3>1 DEF Stop, TypeOK, Phases, Stages, Actors
  <2>9. CASE UNCHANGED vars
    BY <2>9 DEF vars, TypeOK
  <2> QED  BY <2>1, <2>2, <2>3, <2>4, <2>5, <2>6, <2>7, <2>8, <2>9 DEF Next
<1> QED  BY <1>1, <1>2, PTL DEF Spec

----------------------------------------------------------------------------
(* ActiveHasAttempt *)

\* Unless it is a fault, a transaction reads what is there and writes what it
\* should.
LEMMA NoFault ==
  ASSUME faults \in Nat, faults' = 0, NEW base, NEW new, NEW early,
         Saved(base, new, early) \/ Unsaved(base)
  PROVE  faults = 0 /\ base = recs /\ recs' = Pruned(new) /\ Overtaken(recs', early)
  BY DEF Unsaved, Saved

\* A step that writes no record and leaves a recorded attempt where it is.
LEMMA QuietStep ==
  ASSUME ActiveHasAttempt, UNCHANGED <<recs, faults>>,
         phase' \in {"announcing", "up"} => phase \in {"announcing", "up"},
         stage = "waiting" => stage' = "waiting" /\ current' = current
  PROVE  ActiveHasAttempt'
  BY DEF ActiveHasAttempt

\* submit never touches a recorded attempt.
LEMMA SubmitQuiet ==
  ASSUME NEW cmd, Submit(cmd)
  PROVE  stage = "waiting" => stage' = "waiting" /\ current' = current
  BY DEF Submit, partition

\* As long as no read and no write of catchup-state.json has failed, only the
\* running attempt makes a day ineligible once startup has reconciled.
THEOREM NoWedge == Spec => []ActiveHasAttempt
<1> USE DEF files, partition, ghosts, counters
<1>1. Init => ActiveHasAttempt
  BY DEF Init, ActiveHasAttempt
<1>2. TypeOK /\ ActiveHasAttempt /\ [Next]_vars => ActiveHasAttempt'
  <2> SUFFICES ASSUME TypeOK, ActiveHasAttempt, [Next]_vars, faults' = 0
               PROVE  ActiveHasAttempt'
    BY DEF ActiveHasAttempt
  <2>0. recs \in States
    BY DEF TypeOK, States
  <2>f. faults \in Nat
    BY DEF TypeOK
  <2>1. CASE World
    BY <2>1, QuietStep DEF World, NewSegment, MarkUpdated
  <2>2. CASE Finish
    BY <2>2, QuietStep DEF Finish
  <2>3. CASE Exit
    BY <2>3, QuietStep DEF Exit
  <2>4. CASE Tick
    <3>1. \A d \in Days, k \in Kinds : IsActive(recs'[d][k]) => IsActive(recs[d][k])
      <4> SUFFICES ASSUME NEW d \in Days, NEW k \in Kinds, IsActive(recs'[d][k])
                   PROVE  IsActive(recs[d][k])
        OBVIOUS
      <4>1. recs[d][k] \in Record \cup {None}
        BY <2>0 DEF States
      <4>2. recs'[d][k] = IF recs[d][k] # None /\ recs[d][k].retry > 0
                          THEN [recs[d][k] EXCEPT !.retry = @ - 1] ELSE recs[d][k]
        BY <2>4 DEF Tick
      <4>3. \A r \in Record : \A n : [r EXCEPT !.retry = n].active = r.active
        BY DEF Record
      <4> QED  BY <4>1, <4>2, <4>3 DEF IsActive
    <3> QED  BY <2>4, <3>1 DEF Tick, ActiveHasAttempt
  <2>5. CASE Drains
    <3>1. UNCHANGED <<recs, phase, faults>>
      BY <2>5 DEF Drains, HandleDailyTasks, HandleDrain, DrainSubmit, RequestFromScratch
    <3>2. stage = "waiting" => stage' = "waiting" /\ current' = current
      BY <2>5, SubmitQuiet
      DEF Drains, HandleDailyTasks, HandleDrain, DrainSubmit, RequestFromScratch
    <3> QED  BY <3>1, <3>2, QuietStep
  <2>6. CASE Thread
    <3>1. CASE Spawn
      BY <3>1, QuietStep DEF Spawn
    <3>2. CASE ReadAttempt
      BY <3>2, QuietStep DEF ReadAttempt
    <3>3. CASE RecordAttempt
      <4> DEFINE d == current.day
                 k == current.kind
                 r == IF recs[d][k] = None THEN NewRecord ELSE recs[d][k]
                 new == [recs EXCEPT ![d][k] = Started(r, k)]
      <4>1. /\ d \in Days /\ k \in Kinds /\ seen \in [mark : Nat, print : Nat]
            /\ current = [day |-> d, kind |-> k]
        BY <3>3 DEF RecordAttempt, TypeOK, Commands
      <4>2. faults = 0 /\ recs' = Pruned(new)
        <5> DEFINE begun(base) ==
                     [base EXCEPT ![d][k] =
                        Started(IF base[d][k] = None THEN NewRecord ELSE base[d][k], k)]
        <5>1. \E base \in Loaded : Saved(base, begun(base), {}) \/ Unsaved(base)
          BY <3>3 DEF RecordAttempt
        <5>2. new = begun(recs)
          OBVIOUS
        <5> HIDE DEF begun, new
        <5> QED  BY <2>f, <5>1, <5>2, NoFault
      <4>3. Started(r, k) \in Record
        BY <2>0, <4>1, FoundType, StartedType
      <4> HIDE DEF d, k, r
      <4>4. new \in States /\ \A e \in Days, j \in Kinds : e # d \/ j # k => new[e][j] = recs[e][j]
        BY <2>0, <4>1, <4>3, ReplacedType
      <4> HIDE DEF new
      <4>5. phase' \in {"announcing", "up"} => \A e \in Days, j \in Kinds : ~IsActive(recs[e][j])
        BY <3>3, <4>2 DEF RecordAttempt, ActiveHasAttempt
      <4>6. \A e \in Days, j \in Kinds : IsActive(recs'[e][j]) => IsActive(new[e][j])
        BY <4>2, <4>4, PrunedType
      <4>7. stage' = "waiting" /\ current' = current
        BY <3>3 DEF RecordAttempt
      <4> QED  BY <4>1, <4>2, <4>4, <4>5, <4>6, <4>7 DEF ActiveHasAttempt
    <3>4. CASE RecordOutcome
      <4> DEFINE d == current.day
                 k == current.kind
                 found(base) == IF base[d][k] = None THEN NewRecord ELSE base[d][k]
                 ended(base) ==
                   IF CompletedSince(d, found(base).active)
                   THEN [base EXCEPT ![d] = Empty[d]]
                   ELSE IF k = "catchup" THEN [base EXCEPT ![d][k] = Missed(found(base))]
                   ELSE [base EXCEPT ![d][k] = [found(base) EXCEPT !.active = None]]
                 r == found(recs)
                 new == ended(recs)
      <4>1. d \in Days /\ k \in Kinds /\ current = [day |-> d, kind |-> k]
        BY <3>4 DEF RecordOutcome, TypeOK, Commands
      <4>2. faults = 0 /\ recs' = Pruned(new)
        <5>1. \E base \in Loaded : Saved(base, ended(base), {}) \/ Unsaved(base)
          BY <3>4 DEF RecordOutcome
        <5> HIDE DEF ended
        <5> QED  BY <2>f, <5>1, NoFault
      <4>3. r \in Record
        BY <2>0, <4>1, FoundType
      <4>4. new \in States /\ \A e \in Days, j \in Kinds :
              IsActive(new[e][j]) => IsActive(recs[e][j]) /\ (e # d \/ j # k)
        <5> DEFINE x == IF k = "catchup" THEN Missed(r) ELSE [r EXCEPT !.active = None]
        <5>1. CASE new = [recs EXCEPT ![d] = Empty[d]]
          BY <2>0, <4>1, <5>1, EmptyType, ZenonT(60) DEF States, NoneActive
        <5>2. CASE new = [recs EXCEPT ![d][k] = x]
          <6>1. x \in Record /\ ~IsActive(x)
            <7> HIDE DEF r
            <7> QED  BY <4>3, MissedType, ClearedType DEF IsActive
          <6> HIDE DEF d, k, x, new
          <6> DEFINE with == [recs EXCEPT ![d][k] = x]
          <6>2. with \in States /\ with[d][k] = x
            BY <2>0, <4>1, <6>1, ReplacedType
          <6>3. \A e \in Days, j \in Kinds : e # d \/ j # k => with[e][j] = recs[e][j]
            BY <2>0, <4>1, <6>1, ReplacedType
          <6>4. new = with
            BY <5>2
          <6> HIDE DEF with
          <6> QED  BY <6>1, <6>2, <6>3, <6>4
        <5>3. new = [recs EXCEPT ![d] = Empty[d]] \/ new = [recs EXCEPT ![d][k] = x]
          OBVIOUS
        <5> QED  BY <5>1, <5>2, <5>3
      <4> HIDE DEF d, k, found, ended, r, new
      <4>5. \A e \in Days, j \in Kinds : IsActive(recs'[e][j]) => IsActive(new[e][j])
        BY <4>2, <4>4, PrunedType
      <4>6. phase' \in {"announcing", "up"} => \A e \in Days, j \in Kinds : ~IsActive(recs'[e][j])
        <5> SUFFICES ASSUME phase' \in {"announcing", "up"}, NEW e \in Days, NEW j \in Kinds,
                            IsActive(recs'[e][j])
                     PROVE  FALSE
          OBVIOUS
        <5>1. IsActive(recs[e][j]) /\ (e # d \/ j # k)
          BY <4>4, <4>5
        <5>2. current = [day |-> e, kind |-> j]
          BY <3>4, <4>2, <5>1 DEF RecordOutcome, ActiveHasAttempt
        <5> QED  BY <4>1, <5>1, <5>2
      <4> QED  BY <4>2, <4>6 DEF ActiveHasAttempt
    <3>5. CASE Notify
      BY <3>5, QuietStep DEF Notify
    <3>6. CASE ProcessNext
      BY <3>6, QuietStep DEF ProcessNext
    <3> QED  BY <2>6, <3>1, <3>2, <3>3, <3>4, <3>5, <3>6 DEF Thread
  <2>7. CASE Startup
    <3>1. CASE Boot
      BY <3>1 DEF Boot, ActiveHasAttempt
    <3>2. CASE SetReady
      BY <3>2 DEF SetReady, ActiveHasAttempt
    <3>3. CASE FlushHeld
      BY <3>3, QuietStep DEF FlushHeld
    <3>4. CASE ReconcileInterruptedAttempts
      <4> DEFINE after(base) == [d \in Days |-> Reconciled(d, base[d])]
                 new == after(recs)
      <4>1. new \in States /\ NoneActive(new)
        BY <2>0, ReconciledType
      <4>2. recs' = Pruned(new) \/ (new = recs /\ recs' = recs)
        <5>1. PICK base \in Loaded, early \in SUBSET Days :
                \/ /\ after(base) = base /\ UNCHANGED recs
                   /\ faults' = IF base = recs THEN faults ELSE faults + 1
                \/ Saved(base, after(base), early)
                \/ Unsaved(base)
          BY <3>4 DEF ReconcileInterruptedAttempts
        <5> HIDE DEF after
        <5>2. CASE after(base) = base /\ UNCHANGED recs
                   /\ faults' = IF base = recs THEN faults ELSE faults + 1
          BY <2>f, <5>2
        <5> QED  BY <2>f, <5>1, <5>2, NoFault
      <4> HIDE DEF new
      <4>3. NoneActive(recs')
        BY <4>1, <4>2, PrunedType DEF NoneActive
      <4> QED  BY <4>2, <4>3 DEF ActiveHasAttempt, NoneActive
    <3>5. CASE AnnounceTransition
      BY <3>5, QuietStep DEF AnnounceTransition
    <3>6. CASE StartupDrain
      BY <3>6, QuietStep DEF StartupDrain
    <3> QED  BY <2>7, <3>1, <3>2, <3>3, <3>4, <3>5, <3>6 DEF Startup
  <2>8. CASE Stop
    BY <2>8 DEF Stop, ActiveHasAttempt
  <2>9. CASE UNCHANGED vars
    BY <2>9, QuietStep DEF vars
  <2> QED  BY <2>1, <2>2, <2>3, <2>4, <2>5, <2>6, <2>7, <2>8, <2>9 DEF Next
<1>3. Spec => []TypeOK
  BY TypeCorrect
<1> QED  BY <1>1, <1>2, <1>3, PTL DEF Spec

----------------------------------------------------------------------------
(* OneNoticePerEpisode *)

\* Startup announces before it is up, and what the thread has to tell is not what
\* main has.
Apart ==
  /\ announce # {} => phase = "announcing"
  /\ stage = "notifying" => seen \notin announce

\* A notice still to be given is of an episode that has begun, and nobody was told of
\* that episode if it is the newest.
Untold ==
  \A n \in Pending : /\ n.episode <= episode[n.day]
                     /\ n = Latest(n.day) => notes[n.day] = 0

NoticeInv == Apart /\ Untold /\ OneNoticePerEpisode

\* A submission moves only an idle partition.
LEMMA SubmitStage ==
  ASSUME NEW cmd, Submit(cmd)
  PROVE  \/ stage' = stage /\ current' = current /\ seen' = seen
         \/ stage = "idle" /\ stage' = "starting" /\ phase # "starting"
  BY DEF Submit, partition

LEMMA PendingType == ASSUME TypeOK PROVE Pending \subseteq Notices
  BY DEF Pending, TypeOK

----------------------------------------------------------------------------
(* What transactions do to the stuck episodes *)

\* _prune keeps what is stuck.
LEMMA PrunedStuck ==
  ASSUME NEW rs \in States, NEW d \in Days
  PROVE  IsStuck(Pruned(rs), d) <=> IsStuck(rs, d)
<1>1. "catchup" \in Kinds
  BY DEF Kinds
<1>2. Pruned(rs)[d]["catchup"] = IF d \in OldDays /\ rs[d]["catchup"] # None
                                   /\ rs[d]["catchup"].active = None
                                   /\ rs[d]["catchup"].misses = 0 /\ ~rs[d]["catchup"].stuck
                                 THEN None ELSE rs[d]["catchup"]
  BY <1>1 DEF Pruned
<1> QED  BY <1>2 DEF IsStuck

\* An empty file has no stuck day.
LEMMA EmptyStuck == \A d \in Days : ~IsStuck(Empty, d)
  BY DEF Empty, IsStuck, Kinds

\* A record that has missed one attempt is not stuck, unless it had missed others.
LEMMA MissedOnce ==
  ASSUME NEW r \in Record, r.misses = 0, ~r.stuck
  PROVE  ~Missed(r).stuck
<1>1. ~(r.misses + 1 >= Threshold)
  BY ParametersAssumption
<1> DEFINE n == r.misses + 1
           s == IF n >= Threshold THEN TRUE ELSE r.stuck
<1>2. Missed(r) = [r EXCEPT !.misses = n, !.retry = Delay(n), !.active = None, !.stuck = s]
  BY DEF Missed
<1>3. ~s
  BY <1>1
<1> HIDE DEF n, s
<1> QED  BY <1>2, <1>3 DEF Record

LEMMA StartedStuck ==
  ASSUME NEW r \in Record, NEW k, Started(r, k).stuck
  PROVE  r.stuck
<1> DEFINE print == IF k = "catchup" THEN seen.print ELSE None
           kept == IF k = "catchup" /\ r.print # print
                   THEN [r EXCEPT !.misses = 0, !.stuck = FALSE, !.retry = 0] ELSE r
<1>1. kept \in Record /\ (kept.stuck => r.stuck)
  BY DEF Record
<1>2. Started(r, k) = [kept EXCEPT !.attempts = kept.attempts + 1, !.print = print,
                                   !.active = seen.mark]
  BY DEF Started
<1> HIDE DEF kept, print
<1>3. Started(r, k).stuck = kept.stuck
  BY <1>1, <1>2 DEF Record
<1> QED  BY <1>1, <1>3

\* The days that a write makes stuck.
Begun == {d \in Days : IsStuck(recs', d) /\ ~IsStuck(recs, d)}

\* A new episode's number is none that a notice still to be given has.
LEMMA NumbersRise ==
  ASSUME TypeOK, Untold, Episodes(recs'), NEW d \in Days
  PROVE  /\ episode[d] <= episode'[d] /\ episode'[d] \in Nat
         /\ d \notin Begun => episode'[d] = episode[d] /\ notes'[d] = notes[d]
         /\ d \in Begun => notes'[d] = 0 /\ Notice(d, episode'[d]) \notin Pending
<1>1. episode[d] \in Nat
  BY DEF TypeOK
<1>2. /\ episode'[d] = IF d \in Begun /\ Latest(d) \in Pending THEN episode[d] + 1
                       ELSE episode[d]
      /\ notes'[d] = IF d \in Begun THEN 0 ELSE notes[d]
  BY DEF Episodes, Begun
<1>3. Notice(d, episode[d] + 1) \notin Pending
  <2>1. Notice(d, episode[d] + 1).day = d /\ Notice(d, episode[d] + 1).episode = episode[d] + 1
    BY DEF Notice
  <2> QED  BY <1>1, <2>1 DEF Untold
<1> QED  BY <1>1, <1>2, <1>3 DEF Latest

\* A write keeps the books, if it leaves the notices there are and adds one for each
\* day that it makes stuck.
LEMMA SavedUntold ==
  ASSUME TypeOK, NoticeInv, NEW base, NEW new \in States, NEW early, Saved(base, new, early),
         Pending' = Pending \cup {Notice(d, episode'[d]) : d \in Begun}
  PROVE  Untold' /\ OneNoticePerEpisode'
<1>1. Episodes(recs')
  BY DEF Saved
<1>2. \A d \in Days : /\ episode[d] \in Nat /\ episode'[d] \in Nat /\ episode[d] <= episode'[d]
                      /\ d \notin Begun => episode'[d] = episode[d] /\ notes'[d] = notes[d]
                      /\ d \in Begun => notes'[d] = 0 /\ Notice(d, episode'[d]) \notin Pending
  BY <1>1, NumbersRise DEF NoticeInv, TypeOK
<1>3. \A d \in Days : Latest(d)' = Notice(d, episode'[d])
  BY DEF Latest, Notice
<1>4. Pending \subseteq Notices /\ Begun \subseteq Days
  BY PendingType DEF Begun
<1>5. Untold'
  <2> SUFFICES ASSUME NEW n \in Pending'
               PROVE  n.episode <= episode'[n.day] /\ (n = Latest(n.day)' => notes'[n.day] = 0)
    BY DEF Untold, Latest
  <2>1. CASE n \in Pending
    <3>1. n.day \in Days /\ n.episode \in Nat /\ n.episode <= episode[n.day]
      BY <1>4, <2>1 DEF NoticeInv, Untold, Notices
    <3>2. n = Latest(n.day)' => n.day \notin Begun
      BY <1>2, <1>3, <2>1, <3>1
    <3>3. n.day \notin Begun => Latest(n.day)' = Latest(n.day)
      BY <1>2, <1>3, <3>1 DEF Latest
    <3> QED  BY <1>2, <2>1, <3>1, <3>2, <3>3 DEF NoticeInv, Untold
  <2>2. ASSUME NEW d \in Begun, n = Notice(d, episode'[d])
        PROVE  n.episode <= episode'[n.day] /\ notes'[n.day] = 0
    <3>1. n.day = d /\ n.episode = episode'[d] /\ d \in Days
      BY <1>4, <2>2 DEF Notice
    <3> QED  BY <1>2, <2>2, <3>1
  <2> QED  BY <2>1, <2>2
<1>6. OneNoticePerEpisode'
  <2> SUFFICES ASSUME NEW d \in Days
               PROVE  /\ notes'[d] <= 1
                      /\ IsStuck(recs', d) =>
                           notes'[d] = 1 \/ Latest(d)' \in Pending' \/ d \in missed'
    BY DEF OneNoticePerEpisode, Latest
  <2>1. notes[d] <= 1
    BY DEF NoticeInv, OneNoticePerEpisode
  <2>2. CASE d \in Begun
    BY <1>2, <1>3, <2>2
  <2>3. CASE d \notin Begun
    <3>1. IsStuck(recs', d) => IsStuck(recs, d)
      BY <2>3 DEF Begun
    <3>2. IsStuck(recs, d) => notes[d] = 1 \/ Latest(d) \in Pending \/ d \in missed
      BY DEF NoticeInv, OneNoticePerEpisode
    <3>3. IsStuck(recs', d) /\ d \in missed => d \in missed'
      BY <1>1, <2>3 DEF Episodes, Begun
    <3>4. Latest(d)' = Latest(d) /\ notes'[d] = notes[d]
      BY <1>2, <1>3, <2>3 DEF Latest
    <3> QED  BY <2>1, <3>1, <3>2, <3>3, <3>4
  <2> QED  BY <2>2, <2>3
<1> QED  BY <1>5, <1>6

\* A step that makes no day stuck or otherwise, and leaves the notices.
LEMMA UntoldQuiet ==
  ASSUME Untold, OneNoticePerEpisode, UNCHANGED <<episode, notes, missed>>, Pending' = Pending,
         \A d \in Days : IsStuck(recs', d) => IsStuck(recs, d)
  PROVE  Untold' /\ OneNoticePerEpisode'
<1>1. \A d : Latest(d)' = Latest(d)
  BY DEF Latest, Notice
<1>2. Untold'
  BY <1>1 DEF Untold
<1>3. OneNoticePerEpisode'
  BY <1>1 DEF OneNoticePerEpisode
<1> QED  BY <1>2, <1>3

LEMMA NoneIsNoRecord == None \notin Record
  BY NoneAssumption DEF Record

\* A record put in a state makes no other day stuck.
LEMMA ReplacedStuck ==
  ASSUME NEW rs \in States, NEW d \in Days, NEW k \in Kinds, NEW r \in Record,
         NEW e \in Days, IsStuck([rs EXCEPT ![d][k] = r], e)
  PROVE  IsStuck(rs, e) \/ (e = d /\ k = "catchup" /\ r.stuck)
<1>1. "catchup" \in Kinds
  BY DEF Kinds
<1> DEFINE new == [rs EXCEPT ![d][k] = r]
<1>2. /\ new[d][k] = r
      /\ \A f \in Days, j \in Kinds : f # d \/ j # k => new[f][j] = rs[f][j]
  BY ReplacedType
<1> HIDE DEF new
<1>3. CASE e = d /\ k = "catchup"
  BY <1>2, <1>3 DEF IsStuck, new
<1>4. CASE e # d \/ k # "catchup"
  <2>1. new[e]["catchup"] = rs[e]["catchup"]
    BY <1>1, <1>2, <1>4
  <2> QED  BY <2>1 DEF IsStuck, new
<1> QED  BY <1>3, <1>4

\* What was read is stuck only where the file says so.
LEMMA LoadedStuck ==
  ASSUME NEW base \in Loaded, NEW d \in Days, IsStuck(base, d)
  PROVE  IsStuck(recs, d)
  BY EmptyStuck DEF Loaded

LEMMA NewRecordFacts ==
  NewRecord.misses = 0 /\ NewRecord.attempts = 0 /\ ~NewRecord.stuck /\ NewRecord.active = None
  BY DEF NewRecord

\* An attempt begins no episode.
LEMMA AttemptNotice ==
  ASSUME TypeOK, NoticeInv, RecordAttempt
  PROVE  Untold' /\ OneNoticePerEpisode'
<1> DEFINE d == current.day
           k == current.kind
           found(base) == IF base[d][k] = None THEN NewRecord ELSE base[d][k]
           new(base) == [base EXCEPT ![d][k] = Started(found(base), k)]
<1>1. d \in Days /\ k \in Kinds /\ seen \in [mark : Nat, print : Nat]
  BY DEF RecordAttempt, TypeOK, Commands
<1>2. PICK base \in Loaded : Saved(base, new(base), {}) \/ Unsaved(base)
  BY DEF RecordAttempt
<1>3. base \in States
  BY LoadedType
<1>4. found(base) \in Record
  BY <1>1, <1>3, FoundType
<1>5. Started(found(base), k) \in Record
  BY <1>1, <1>4, StartedType
<1>6. new(base) \in States
  BY <1>1, <1>3, <1>5, ReplacedType
<1>7. \A e \in Days : IsStuck(new(base), e) => IsStuck(recs, e)
  <2> SUFFICES ASSUME NEW e \in Days, IsStuck(new(base), e) PROVE IsStuck(base, e)
    BY LoadedStuck
  <2>1. IsStuck(base, e) \/ (e = d /\ k = "catchup" /\ Started(found(base), k).stuck)
    BY <1>1, <1>3, <1>5, ReplacedStuck
  <2>2. Started(found(base), k).stuck => found(base).stuck
    BY <1>4, StartedStuck
  <2> QED  BY <2>1, <2>2, NewRecordFacts DEF IsStuck
<1>8. Pending' = Pending
  BY DEF RecordAttempt, Pending
<1> HIDE DEF d, k, found, new
<1>9. CASE Saved(base, new(base), {})
  <2>1. Begun = {}
    <3>1. \A e \in Days : IsStuck(recs', e) => IsStuck(new(base), e)
      BY <1>6, <1>9, PrunedStuck DEF Saved
    <3> QED  BY <1>7, <3>1 DEF Begun
  <2> QED  BY <1>6, <1>8, <1>9, <2>1, SavedUntold
<1>10. CASE Unsaved(base)
  BY <1>8, <1>10, UntoldQuiet DEF Unsaved, NoticeInv, ghosts
<1> QED  BY <1>2, <1>9, <1>10

\* An outcome that makes the day stuck leaves its thread to tell of it.
LEMMA OutcomeNotice ==
  ASSUME TypeOK, NoticeInv, RecordOutcome
  PROVE  NoticeInv'
<1> DEFINE d == current.day
           k == current.kind
           found(base) == IF base[d][k] = None THEN NewRecord ELSE base[d][k]
           new(base) == IF CompletedSince(d, found(base).active)
                        THEN [base EXCEPT ![d] = Empty[d]]
                        ELSE IF k = "catchup"
                        THEN [base EXCEPT ![d][k] = Missed(found(base))]
                        ELSE [base EXCEPT ![d][k] = [found(base) EXCEPT !.active = None]]
<1>1. d \in Days /\ k \in Kinds
  BY DEF RecordOutcome, TypeOK, Commands
<1>2. PICK base \in Loaded :
        \/ /\ Saved(base, new(base), {})
           /\ IF Entered(base, new(base), d)
              THEN stage' = "notifying" /\ seen' = Notice(d, episode'[d])
              ELSE stage' = "leaving"
        \/ Unsaved(base) /\ stage' = "leaving"
  BY DEF RecordOutcome
<1>3. base \in States
  BY LoadedType
<1>4. found(base) \in Record
  BY <1>1, <1>3, FoundType
<1>5. [found(base) EXCEPT !.active = None] \in Record /\ Missed(found(base)) \in Record
  <2> HIDE DEF found
  <2> QED  BY <1>4, MissedType, ClearedType
<1>d. /\ d = current.day
      /\ \/ new(base) = [base EXCEPT ![d] = Empty[d]]
         \/ new(base) = [base EXCEPT ![d][k] = Missed(found(base))]
         \/ new(base) = [base EXCEPT ![d][k] = [found(base) EXCEPT !.active = None]]
  OBVIOUS
<1>e. base[d][k] = None => found(base) = NewRecord
  OBVIOUS
<1> HIDE DEF d, k, found, new
<1>6. new(base) \in States
  <2>1. [base EXCEPT ![d] = Empty[d]] \in States
    BY <1>1, <1>3, EmptyType DEF States
  <2>2. [base EXCEPT ![d][k] = Missed(found(base))] \in States
    BY <1>1, <1>3, <1>5, ReplacedType
  <2>3. [base EXCEPT ![d][k] = [found(base) EXCEPT !.active = None]] \in States
    BY <1>1, <1>3, <1>5, ReplacedType
  <2> QED  BY <1>d, <2>1, <2>2, <2>3
<1>f. \A e \in Days : IsStuck(new(base), e) =>
        \/ e # d /\ IsStuck(base, e)
        \/ e = d /\ (IsStuck(base, e) \/ Missed(found(base)).stuck
                     \/ [found(base) EXCEPT !.active = None].stuck)
  <2> SUFFICES ASSUME NEW e \in Days, IsStuck(new(base), e)
               PROVE  \/ IsStuck(base, e)
                      \/ e = d /\ (Missed(found(base)).stuck
                                   \/ [found(base) EXCEPT !.active = None].stuck)
    OBVIOUS
  <2>1. CASE new(base) = [base EXCEPT ![d] = Empty[d]]
    <3>1. CASE e = d
      <4>1. base \in [Days -> [Kinds -> Record \cup {None}]]
        BY <1>3 DEF States
      <4>2. new(base)[e]["catchup"] = Empty[e]["catchup"]
        BY <1>1, <2>1, <3>1, <4>1
      <4> QED  BY <4>2, EmptyStuck DEF IsStuck
    <3>2. CASE e # d
      BY <2>1, <3>2 DEF IsStuck
    <3> QED  BY <3>1, <3>2
  <2>2. ASSUME NEW x \in Record, new(base) = [base EXCEPT ![d][k] = x]
        PROVE  IsStuck(base, e) \/ (e = d /\ x.stuck)
    <3>1. IsStuck([base EXCEPT ![d][k] = x], e)
      BY <2>2
    <3>2. e \in Days
      OBVIOUS
    <3> QED  BY ONLY <1>1, <1>3, <2>2, <3>1, <3>2, ReplacedStuck, Zenon
  <2> QED  BY <1>5, <1>d, <2>1, <2>2
<1>7. \A e \in Days \ {d} : IsStuck(new(base), e) => IsStuck(base, e)
  BY <1>f
<1>8. base # recs => ~IsStuck(new(base), d)
  <2> SUFFICES ASSUME base # recs PROVE ~IsStuck(new(base), d)
    OBVIOUS
  <2>1. base = Empty
    BY DEF Loaded
  <2>2. ~IsStuck(base, d) /\ found(base) = NewRecord
    BY <1>1, <1>e, <2>1, EmptyStuck DEF Empty
  <2>3. ~Missed(NewRecord).stuck
    BY NewRecordFacts, NewRecordType, MissedOnce
  <2>4. ~[NewRecord EXCEPT !.active = None].stuck
    BY DEF NewRecord
  <2> QED  BY <1>1, <1>f, <2>2, <2>3, <2>4
<1>9. stage = "waiting" /\ UNCHANGED <<announce, phase>> /\ Pending = announce
  BY DEF RecordOutcome, Pending
<1>10. CASE /\ Saved(base, new(base), {})
            /\ IF Entered(base, new(base), d)
               THEN stage' = "notifying" /\ seen' = Notice(d, episode'[d])
               ELSE stage' = "leaving"
  <2>1. \A e \in Days : IsStuck(recs', e) <=> IsStuck(new(base), e)
    BY <1>6, <1>10, PrunedStuck DEF Saved
  <2>2. Begun = IF Entered(base, new(base), d) THEN {d} ELSE {}
    <3>1. ASSUME NEW e \in Begun PROVE e = d /\ Entered(base, new(base), d)
      <4>1. e \in Days /\ IsStuck(new(base), e) /\ ~IsStuck(base, e)
        BY <2>1, LoadedStuck DEF Begun
      <4> QED  BY <1>7, <4>1 DEF Entered
    <3>2. Entered(base, new(base), d) => d \in Begun
      BY <1>1, <1>8, <2>1 DEF Begun, Entered
    <3> QED  BY <3>1, <3>2
  <2>3. Pending' = Pending \cup {Notice(e, episode'[e]) : e \in Begun}
    BY <1>9, <1>10, <2>2 DEF Pending
  <2>4. Episodes(recs')
    BY <1>10 DEF Saved
  <2>5. stage' = "notifying" => seen' \notin announce'
    BY <1>1, <1>9, <1>10, <2>2, <2>4, NumbersRise DEF NoticeInv
  <2>6. Apart'
    BY <1>9, <2>5 DEF NoticeInv, Apart
  <2> QED  BY <1>6, <1>10, <2>3, <2>6, SavedUntold DEF NoticeInv
<1>11. CASE Unsaved(base) /\ stage' = "leaving"
  <2>1. Pending' = Pending /\ Apart'
    BY <1>9, <1>11 DEF Pending, NoticeInv, Apart
  <2> QED  BY <1>11, <2>1, UntoldQuiet DEF Unsaved, NoticeInv, ghosts
<1> QED  BY <1>2, <1>10, <1>11

\* The days that the reconciliation makes stuck are announced.
LEMMA ReconcileNotice ==
  ASSUME TypeOK, NoticeInv, ReconcileInterruptedAttempts
  PROVE  NoticeInv'
<1> DEFINE new(base) == [d \in Days |-> Reconciled(d, base[d])]
<1>1. phase = "flushing" /\ phase' = "announcing" /\ UNCHANGED <<stage, seen>>
  BY DEF ReconcileInterruptedAttempts, partition
<1>2. announce = {}
  BY <1>1 DEF NoticeInv, Apart
<1>3. PICK base \in Loaded, early \in SUBSET Days :
        \/ /\ new(base) = base
           /\ UNCHANGED <<recs, announce, ghosts>>
        \/ /\ new(base) # base
           /\ Saved(base, new(base), early)
           /\ announce' = {Notice(d, episode'[d]) : d \in {e \in Days : Entered(base, new(base), e)}}
        \/ Unsaved(base) /\ UNCHANGED announce
  BY DEF ReconcileInterruptedAttempts
<1>4. base \in States
  BY LoadedType
<1>5. new(base) \in States
  BY <1>4, ReconciledType
<1>6. base # recs => new(base) = base
  <2> SUFFICES ASSUME base = Empty PROVE new(base) = base
    BY DEF Loaded
  <2>1. \A d \in Days : Reconciled(d, base[d]) = base[d]
    BY EmptyType DEF Reconciled, NoneActive
  <2> QED  BY <2>1 DEF Empty
<1> HIDE DEF new
<1>7. CASE UNCHANGED <<recs, announce, ghosts>>
  <2>1. Pending' = Pending /\ Apart'
    BY <1>1, <1>2, <1>7 DEF Pending, Apart
  <2> QED  BY <1>7, <2>1, UntoldQuiet DEF NoticeInv, ghosts
<1>8. CASE /\ new(base) # base
           /\ Saved(base, new(base), early)
           /\ announce' = {Notice(d, episode'[d]) : d \in {e \in Days : Entered(base, new(base), e)}}
  <2>1. base = recs
    BY <1>6, <1>8
  <2>2. \A d \in Days : IsStuck(recs', d) <=> IsStuck(new(base), d)
    BY <1>5, <1>8, PrunedStuck DEF Saved
  <2>3. {e \in Days : Entered(base, new(base), e)} = Begun
    BY <2>1, <2>2 DEF Entered, Begun
  <2>4. announce' = {Notice(d, episode'[d]) : d \in Begun}
    BY <1>8, <2>3
  <2>5. Pending' = Pending \cup {Notice(d, episode'[d]) : d \in Begun}
    BY <1>1, <1>2, <2>4 DEF Pending
  <2>6. Episodes(recs')
    BY <1>8 DEF Saved
  <2>7. \A d \in Begun : Notice(d, episode'[d]) \notin Pending
    BY <2>6, NumbersRise DEF NoticeInv, Begun
  <2>8. Apart'
    BY <1>1, <2>4, <2>7 DEF Apart, Pending
  <2> QED  BY <1>5, <1>8, <2>5, <2>8, SavedUntold DEF NoticeInv
<1>9. CASE Unsaved(base) /\ UNCHANGED announce
  BY <1>7, <1>9 DEF Unsaved
<1> QED  BY <1>3, <1>7, <1>8, <1>9

\* The thread, or main, that tells of a day does it once.
LEMMA ToldOnce ==
  ASSUME TypeOK, NoticeInv, NEW n \in Pending, Notified(n),
         recs' = recs, Pending' = Pending \ {n}
  PROVE  Untold' /\ OneNoticePerEpisode'
<1>1. n \in Notices /\ n.day \in Days
  BY PendingType DEF Notices
<1>2. UNCHANGED <<episode, missed>>
  BY DEF Notified
<1>3. \A d : Latest(d)' = Latest(d) /\ Latest(d).day = d
  BY <1>2 DEF Latest, Notice
<1>4. \A d \in Days : notes'[d] = IF n = Latest(d) THEN 1 ELSE notes[d]
  <2> SUFFICES ASSUME NEW d \in Days
               PROVE  notes'[d] = IF n = Latest(d) THEN 1 ELSE notes[d]
    OBVIOUS
  <2>1. CASE n = Latest(n.day)
    <3>1. notes[n.day] = 0
      BY <2>1 DEF NoticeInv, Untold
    <3>2. notes' = [notes EXCEPT ![n.day] = 1]
      BY <2>1, <3>1 DEF Notified
    <3>3. n = Latest(d) <=> d = n.day
      BY <1>3, <2>1
    <3> QED  BY <1>1, <3>2, <3>3 DEF TypeOK
  <2>2. CASE n # Latest(n.day)
    <3>1. notes' = notes
      BY <2>2 DEF Notified
    <3> QED  BY <1>3, <2>2, <3>1
  <2> QED  BY <2>1, <2>2
<1>5. Untold'
  <2> SUFFICES ASSUME NEW m \in Pending, m # n
               PROVE  m.episode <= episode[m.day] /\ (m = Latest(m.day) => notes'[m.day] = 0)
    BY <1>2, <1>3 DEF Untold
  <2>1. m.day \in Days
    BY PendingType DEF Notices
  <2> QED  BY <1>4, <2>1 DEF NoticeInv, Untold
<1>6. OneNoticePerEpisode'
  BY <1>2, <1>3, <1>4 DEF NoticeInv, OneNoticePerEpisode
<1> QED  BY <1>5, <1>6

\* What a supervisor's end leaves untold counts as missed.
LEMMA StopNotice ==
  ASSUME TypeOK, NoticeInv, Stop
  PROVE  NoticeInv'
<1>1. /\ announce' = {} /\ stage' = "idle" /\ UNCHANGED <<recs, episode, notes>>
      /\ missed' = missed \cup {d \in Days : Latest(d) \in Pending}
  BY DEF Stop
<1>2. Pending' = {}
  BY <1>1 DEF Pending
<1>3. Apart' /\ Untold'
  BY <1>1, <1>2 DEF Apart, Untold
<1>4. OneNoticePerEpisode'
  BY <1>1 DEF NoticeInv, OneNoticePerEpisode
<1> QED  BY <1>3, <1>4 DEF NoticeInv

\* Time changes no day's being stuck.
LEMMA TickStuck ==
  ASSUME TypeOK, Tick
  PROVE  /\ recs' \in States
         /\ \A d \in Days, k \in Kinds :
              /\ recs[d][k] = None => recs'[d][k] = None
              /\ recs[d][k] # None =>
                   /\ recs'[d][k] # None /\ recs'[d][k].stuck = recs[d][k].stuck
                   /\ recs'[d][k].misses = recs[d][k].misses
                   /\ recs'[d][k].attempts = recs[d][k].attempts
                   /\ recs'[d][k].active = recs[d][k].active
                   /\ recs'[d][k].retry <= recs[d][k].retry
<1> DEFINE older(r) == IF r # None /\ r.retry > 0 THEN [r EXCEPT !.retry = @ - 1] ELSE r
<1>1. recs \in States
  BY DEF TypeOK, States
<1>2. recs' = [d \in Days |-> [k \in Kinds |-> older(recs[d][k])]]
  BY DEF Tick
<1>3. ASSUME NEW r \in Record
      PROVE  /\ older(r) \in Record
             /\ older(r).stuck = r.stuck /\ older(r).misses = r.misses
             /\ older(r).attempts = r.attempts /\ older(r).active = r.active
             /\ older(r).retry <= r.retry
  <2>1. CASE r # None /\ r.retry > 0
    <3>1. r.retry - 1 \in Nat /\ r.retry - 1 <= r.retry
      BY <2>1 DEF Record
    <3>2. \A n \in Nat : /\ [r EXCEPT !.retry = n] \in Record
                          /\ [r EXCEPT !.retry = n].stuck = r.stuck
                          /\ [r EXCEPT !.retry = n].misses = r.misses
                          /\ [r EXCEPT !.retry = n].attempts = r.attempts
                          /\ [r EXCEPT !.retry = n].active = r.active
                          /\ [r EXCEPT !.retry = n].retry = n
      BY DEF Record
    <3> QED  BY <2>1, <3>1, <3>2
  <2>2. CASE ~(r # None /\ r.retry > 0)
    BY <2>2 DEF Record
  <2> QED  BY <2>1, <2>2
<1>4. older(None) = None
  OBVIOUS
<1> HIDE DEF older
<1>5. \A d \in Days, k \in Kinds : recs[d][k] \in Record \cup {None}
  BY <1>1 DEF States
<1>6. \A d \in Days, k \in Kinds : recs'[d][k] = older(recs[d][k])
  BY <1>2
<1>7. recs' \in States
  BY <1>2, <1>3, <1>4, <1>5 DEF States
<1>8. \A r \in Record : r # None
  BY NoneIsNoRecord
<1> QED  BY <1>3, <1>4, <1>5, <1>6, <1>7, <1>8

LEMMA NoticeKept ==
  ASSUME TypeOK, NoticeInv, [Next]_vars
  PROVE  NoticeInv'
<1> USE DEF files, partition, ghosts, counters
<1>q. ASSUME UNCHANGED <<recs, announce, episode, notes, missed>>,
             announce # {} => phase' = "announcing",
             stage' = "notifying" \/ stage = "notifying" => UNCHANGED <<stage, seen>>
      PROVE  NoticeInv'
  <2>1. Pending' = Pending /\ Apart'
    BY <1>q DEF Pending, NoticeInv, Apart
  <2> QED  BY <1>q, <2>1, UntoldQuiet DEF NoticeInv
<1>a. announce # {} => phase = "announcing"
  BY DEF NoticeInv, Apart
<1>1. CASE World \/ Finish \/ Exit
  BY <1>q, <1>a, <1>1 DEF World, NewSegment, MarkUpdated, Finish, Exit
<1>2. CASE Tick
  <2>1. \A d \in Days : IsStuck(recs', d) => IsStuck(recs, d)
    BY <1>2, TickStuck DEF IsStuck, Kinds
  <2>2. UNCHANGED <<phase, stage, seen, announce, episode, notes, missed>>
    BY <1>2 DEF Tick
  <2>3. Pending' = Pending /\ Apart'
    BY <2>2 DEF Pending, NoticeInv, Apart
  <2> QED  BY <2>1, <2>2, <2>3, UntoldQuiet DEF NoticeInv
<1>3. CASE Drains
  <2>1. UNCHANGED <<recs, phase, announce, episode, notes, missed>>
    BY <1>3 DEF Drains, HandleDailyTasks, HandleDrain, DrainSubmit, RequestFromScratch
  <2>2. stage' = "notifying" \/ stage = "notifying" => UNCHANGED <<stage, seen>>
    BY <1>3, SubmitStage DEF Drains, HandleDailyTasks, HandleDrain, DrainSubmit, RequestFromScratch
  <2> QED  BY <1>q, <1>a, <2>1, <2>2
<1>4. CASE Thread
  <2>1. CASE Spawn \/ ReadAttempt \/ ProcessNext
    BY <1>q, <1>a, <2>1 DEF Spawn, ReadAttempt, ProcessNext
  <2>2. CASE RecordAttempt
    <3>1. Apart'
      BY <2>2 DEF RecordAttempt, NoticeInv, Apart
    <3> QED  BY <2>2, <3>1, AttemptNotice DEF NoticeInv
  <2>3. CASE RecordOutcome
    BY <2>3, OutcomeNotice
  <2>4. CASE Notify
    <3>1. /\ Notified(seen) /\ stage = "notifying" /\ stage' = "leaving"
          /\ UNCHANGED <<recs, phase, announce>>
      BY <2>4 DEF Notify
    <3>2. seen \in Pending /\ Pending' = Pending \ {seen}
      BY <3>1 DEF Pending, NoticeInv, Apart
    <3>3. Apart'
      BY <3>1 DEF NoticeInv, Apart
    <3> QED  BY <3>1, <3>2, <3>3, ToldOnce DEF NoticeInv
  <2> QED  BY <1>4, <2>1, <2>2, <2>3, <2>4 DEF Thread
<1>5. CASE Startup
  <2>1. CASE Boot
    <3>1. announce = {} /\ UNCHANGED <<recs, announce, stage, seen, episode, notes, missed>>
      BY <1>a, <2>1 DEF Boot
    <3> QED  BY <1>q, <3>1
  <2>2. CASE SetReady
    BY <1>q, <1>a, <2>2 DEF SetReady
  <2>3. CASE FlushHeld
    BY <1>q, <1>a, <2>3 DEF FlushHeld
  <2>4. CASE StartupDrain
    BY <1>q, <2>4 DEF StartupDrain
  <2>5. CASE ReconcileInterruptedAttempts
    BY <2>5, ReconcileNotice
  <2>6. CASE AnnounceTransition
    <3>1. PICK n \in announce : announce' = announce \ {n} /\ Notified(n)
      BY <2>6 DEF AnnounceTransition
    <3>2. UNCHANGED <<recs, phase, stage, seen>>
      BY <2>6 DEF AnnounceTransition
    <3>3. n \in Pending /\ Pending' = Pending \ {n}
      BY <3>1, <3>2 DEF Pending, NoticeInv, Apart
    <3>4. Apart'
      BY <3>1, <3>2 DEF NoticeInv, Apart
    <3> QED  BY <3>1, <3>2, <3>3, <3>4, ToldOnce DEF NoticeInv
  <2> QED  BY <1>5, <2>1, <2>2, <2>3, <2>4, <2>5, <2>6 DEF Startup
<1>6. CASE Stop
  BY <1>6, StopNotice
<1>7. CASE UNCHANGED vars
  BY <1>q, <1>a, <1>7 DEF vars
<1> QED  BY <1>1, <1>2, <1>3, <1>4, <1>5, <1>6, <1>7 DEF Next

\* A stuck episode is notified once, or its notice went down with a supervisor, over
\* any number of crashes, lost reads and writes, and attempts that are recorded before
\* startup has swept the file (catchup_state.py: record_outcome,
\* reconcile_interrupted_attempts; supervisor.py: _emit_catchup_backoff).
THEOREM NoticedOnce == Spec => []OneNoticePerEpisode
<1>1. Init => NoticeInv
  <2>1. Init => \A d \in Days : ~IsStuck(recs, d)
    BY EmptyStuck DEF Init
  <2>2. Init => Pending = {}
    BY DEF Init, Pending
  <2> QED  BY <2>1, <2>2 DEF Init, NoticeInv, Apart, Untold, OneNoticePerEpisode
<1>2. TypeOK /\ NoticeInv /\ [Next]_vars => NoticeInv'
  BY NoticeKept
<1>3. NoticeInv => OneNoticePerEpisode
  BY DEF NoticeInv
<1> QED  BY <1>1, <1>2, <1>3, TypeCorrect, PTL DEF Spec

----------------------------------------------------------------------------
(* MissesAreAttempts *)

\* An active record has an attempt to miss, and so has the attempt that runs; what
\* startup took from either is given back.
Counted(r, n) ==
  r.misses <= r.attempts + n /\ (r.active # None => r.misses < r.attempts + n)
AllCounted(rs, o) ==
  \A d \in Days : rs[d]["catchup"] # None => Counted(rs[d]["catchup"], o[d])
ToMiss(r, n) == IF r = None THEN n > 0 ELSE r.misses < r.attempts + n
MissesInv ==
  faults = 0 =>
    /\ AllCounted(recs, overtaken)
    /\ stage = "waiting" /\ current.kind = "catchup" =>
         ToMiss(recs[current.day]["catchup"], overtaken[current.day])

LEMMA MissedCounted ==
  ASSUME NEW n \in Nat, NEW r \in Record, r.misses < r.attempts + n
  PROVE  /\ Counted(Missed(r), n)
         /\ Missed(r).misses = r.misses + 1 /\ Missed(r).attempts = r.attempts
<1> DEFINE m == r.misses + 1
           s == IF m >= Threshold THEN TRUE ELSE r.stuck
<1>1. Missed(r) = [r EXCEPT !.misses = m, !.retry = Delay(m), !.active = None, !.stuck = s]
  BY DEF Missed
<1>2. m \in Nat /\ m <= r.attempts + n
  BY DEF Record
<1>m. m = r.misses + 1
  OBVIOUS
<1> HIDE DEF m, s
<1>3. Missed(r).misses = m /\ Missed(r).attempts = r.attempts /\ Missed(r).active = None
  BY <1>1 DEF Record
<1> QED  BY <1>m, <1>2, <1>3 DEF Counted

\* The attempt that begins is one more than the misses.
LEMMA StartedCounted ==
  ASSUME NEW n \in Nat, NEW r \in Record, Counted(r, n), NEW k,
         seen \in [mark : Nat, print : Nat]
  PROVE  /\ Counted(Started(r, k), n) /\ IsActive(Started(r, k))
         /\ ToMiss(Started(r, k), n)
<1> DEFINE print == IF k = "catchup" THEN seen.print ELSE None
           kept == IF k = "catchup" /\ r.print # print
                   THEN [r EXCEPT !.misses = 0, !.stuck = FALSE, !.retry = 0] ELSE r
<1>1. /\ kept \in Record /\ kept.misses <= kept.attempts + n
      /\ kept.misses \in Nat /\ kept.attempts \in Nat
  <2>1. r.misses \in Nat /\ r.attempts \in Nat /\ r.misses <= r.attempts + n
    BY DEF Record, Counted
  <2>2. CASE kept = r
    BY <2>1, <2>2
  <2>3. CASE kept = [r EXCEPT !.misses = 0, !.stuck = FALSE, !.retry = 0]
    <3>1. kept \in Record /\ kept.misses = 0 /\ kept.attempts = r.attempts
      BY <2>3 DEF Record
    <3> QED  BY <2>1, <3>1
  <2> QED  BY <2>2, <2>3
<1>2. Started(r, k) = [kept EXCEPT !.attempts = kept.attempts + 1, !.print = print,
                                   !.active = seen.mark]
  BY DEF Started
<1> HIDE DEF kept, print
<1>3. /\ Started(r, k).misses = kept.misses
      /\ Started(r, k).attempts = kept.attempts + 1
      /\ Started(r, k).active = seen.mark
  BY <1>1, <1>2 DEF Record
<1>4. seen.mark # None /\ Started(r, k) \in Record
  BY StartedType, NoneAssumption
<1> QED  BY <1>1, <1>3, <1>4, NoneIsNoRecord DEF Counted, IsActive, ToMiss

\* _prune forgets no attempt in progress and no miss.
LEMMA PrunedCounted ==
  ASSUME NEW rs \in States, NEW n
  PROVE  /\ AllCounted(rs, n) => AllCounted(Pruned(rs), n)
         /\ \A d \in Days, k \in Kinds : IsActive(rs[d][k]) => Pruned(rs)[d][k] = rs[d][k]
         /\ \A d \in Days, k \in Kinds :
              rs[d][k] # None /\ rs[d][k].misses # 0 => Pruned(rs)[d][k] = rs[d][k]
         /\ \A d \in Days, k \in Kinds : Pruned(rs)[d][k] \in {rs[d][k], None}
<1>1. "catchup" \in Kinds
  BY DEF Kinds
<1>2. \A d \in Days, k \in Kinds : Pruned(rs)[d][k] \in {rs[d][k], None}
  BY DEF Pruned
<1>3. AllCounted(rs, n) => AllCounted(Pruned(rs), n)
  BY <1>1, <1>2 DEF AllCounted
<1>4. ASSUME NEW d \in Days, NEW k \in Kinds, IsActive(rs[d][k])
      PROVE  Pruned(rs)[d][k] = rs[d][k]
  <2>1. rs[d][k].active # None
    BY <1>4 DEF IsActive
  <2> QED  BY <2>1 DEF Pruned
<1>5. ASSUME NEW d \in Days, NEW k \in Kinds, rs[d][k].misses # 0
      PROVE  Pruned(rs)[d][k] = rs[d][k]
  BY <1>5 DEF Pruned
<1> QED  BY <1>2, <1>3, <1>4, <1>5

\* A counted record put in a state of counted ones.
LEMMA ReplacedCounted ==
  ASSUME NEW o, NEW rs \in States, AllCounted(rs, o), NEW d \in Days, NEW k \in Kinds,
         NEW r \in Record, k = "catchup" => Counted(r, o[d])
  PROVE  AllCounted([rs EXCEPT ![d][k] = r], o)
<1>1. "catchup" \in Kinds
  BY DEF Kinds
<1> DEFINE new == [rs EXCEPT ![d][k] = r]
<1>2. /\ new[d][k] = r
      /\ \A f \in Days, j \in Kinds : f # d \/ j # k => new[f][j] = rs[f][j]
  <2>1. rs \in [Days -> [Kinds -> Record \cup {None}]]
    BY DEF States
  <2> QED  BY <2>1
<1> HIDE DEF new
<1>3. AllCounted(new, o)
  BY <1>1, <1>2 DEF AllCounted
<1> QED  BY <1>3 DEF new

LEMMA FoundCounted ==
  ASSUME NEW n \in Nat, NEW rs \in States, NEW d \in Days, NEW k \in Kinds,
         rs[d][k] # None => Counted(rs[d][k], n)
  PROVE  Counted(IF rs[d][k] = None THEN NewRecord ELSE rs[d][k], n)
  BY DEF Counted, NewRecord

\* A write that overtakes nothing takes nothing back from the days that have a record.
LEMMA NothingOvertaken ==
  ASSUME TypeOK, Overtaken(recs', {})
  PROVE  \A d \in Days : recs'[d]["catchup"] # None => overtaken'[d] = overtaken[d]
  BY DEF Overtaken, TypeOK

LEMMA AttemptCounted ==
  ASSUME TypeOK, MissesInv, RecordAttempt, faults' = 0
  PROVE  MissesInv'
<1> DEFINE d == current.day
           k == current.kind
           r == IF recs[d][k] = None THEN NewRecord ELSE recs[d][k]
           x == Started(r, k)
           new == [recs EXCEPT ![d][k] = x]
           n == overtaken[d]
<1>1. /\ d \in Days /\ k \in Kinds /\ seen \in [mark : Nat, print : Nat]
      /\ stage' = "waiting" /\ current' = current /\ n \in Nat
  BY DEF RecordAttempt, TypeOK, Commands
<1>2. faults = 0 /\ recs' = Pruned(new) /\ Overtaken(recs', {})
  <2> DEFINE begun(base) ==
               [base EXCEPT ![d][k] =
                  Started(IF base[d][k] = None THEN NewRecord ELSE base[d][k], k)]
  <2>1. \E base \in Loaded : Saved(base, begun(base), {}) \/ Unsaved(base)
    BY DEF RecordAttempt
  <2>2. new = begun(recs) /\ faults \in Nat
    BY DEF TypeOK
  <2> HIDE DEF begun, new
  <2> QED  BY <2>1, <2>2, NoFault
<1>3. recs \in States /\ AllCounted(recs, overtaken)
  BY <1>2 DEF TypeOK, States, MissesInv
<1>d. d = current.day /\ k = current.kind /\ n = overtaken[d]
  OBVIOUS
<1> HIDE DEF n
<1>4. r \in Record /\ (k = "catchup" => Counted(r, n))
  <2>1. k = "catchup" /\ recs[d][k] # None => Counted(recs[d][k], n)
    BY <1>1, <1>3, <1>d DEF AllCounted
  <2> QED  BY <1>1, <1>3, <2>1, FoundType, FoundCounted
<1>5. x \in Record /\ (k = "catchup" => Counted(x, n) /\ IsActive(x) /\ ToMiss(x, n))
  <2> HIDE DEF r
  <2> QED  BY <1>1, <1>4, StartedType, StartedCounted
<1> HIDE DEF d, k, r, x
<1>6. new \in States /\ new[d][k] = x /\ AllCounted(new, overtaken)
  BY <1>1, <1>3, <1>5, <1>d, ReplacedType, ReplacedCounted
<1> HIDE DEF new
<1>7. AllCounted(recs', overtaken')
  <2>1. AllCounted(recs', overtaken)
    BY <1>2, <1>6, PrunedCounted
  <2> QED  BY <1>2, <2>1, NothingOvertaken DEF AllCounted
<1>8. k = "catchup" => recs'[d]["catchup"] = x /\ overtaken'[d] = n
  <2>1. k = "catchup" => recs'[d]["catchup"] = x /\ x # None
    BY <1>1, <1>2, <1>5, <1>6, PrunedCounted, NoneIsNoRecord
  <2> QED  BY <1>1, <1>2, <1>d, <2>1, NothingOvertaken
<1> QED  BY <1>1, <1>d, <1>5, <1>7, <1>8 DEF MissesInv

LEMMA OutcomeCounted ==
  ASSUME TypeOK, MissesInv, RecordOutcome, faults' = 0
  PROVE  MissesInv'
<1> DEFINE d == current.day
           k == current.kind
           found(base) == IF base[d][k] = None THEN NewRecord ELSE base[d][k]
           ended(base) ==
             IF CompletedSince(d, found(base).active)
             THEN [base EXCEPT ![d] = Empty[d]]
             ELSE IF k = "catchup" THEN [base EXCEPT ![d][k] = Missed(found(base))]
             ELSE [base EXCEPT ![d][k] = [found(base) EXCEPT !.active = None]]
           r == found(recs)
           new == ended(recs)
           n == overtaken[d]
<1>1. /\ d \in Days /\ k \in Kinds /\ stage = "waiting" /\ stage' # "waiting"
      /\ n \in Nat
  BY DEF RecordOutcome, TypeOK, Commands
<1>2. faults = 0 /\ recs' = Pruned(new) /\ Overtaken(recs', {})
  <2>1. \E base \in Loaded : Saved(base, ended(base), {}) \/ Unsaved(base)
    BY DEF RecordOutcome
  <2>2. faults \in Nat
    BY DEF TypeOK
  <2> HIDE DEF ended
  <2> QED  BY <2>1, <2>2, NoFault
<1>3. /\ recs \in States /\ AllCounted(recs, overtaken)
      /\ k = "catchup" => ToMiss(recs[d][k], n)
  BY <1>1, <1>2 DEF TypeOK, States, MissesInv
<1>n. n = overtaken[d]
  OBVIOUS
<1>m. ASSUME new \in States, AllCounted(new, overtaken) PROVE MissesInv'
  <2> HIDE DEF new, n
  <2>1. AllCounted(recs', overtaken)
    BY <1>2, <1>m, PrunedCounted
  <2>2. AllCounted(recs', overtaken')
    BY <1>2, <2>1, NothingOvertaken DEF AllCounted
  <2> QED  BY <1>1, <2>2 DEF MissesInv
<1> HIDE DEF n
<1>4. r \in Record
  BY <1>1, <1>3, FoundType
<1>5. k = "catchup" => r.misses < r.attempts + n
  BY <1>1, <1>3 DEF ToMiss, NewRecord
<1>6. \/ new = [recs EXCEPT ![d] = Empty[d]]
      \/ k = "catchup" /\ new = [recs EXCEPT ![d][k] = Missed(r)]
      \/ k # "catchup" /\ new = [recs EXCEPT ![d][k] = [r EXCEPT !.active = None]]
  OBVIOUS
<1> HIDE DEF d, k, found, ended, r, new
<1>7. CASE new = [recs EXCEPT ![d] = Empty[d]]
  <2>1. recs \in [Days -> [Kinds -> Record \cup {None}]]
    BY <1>3 DEF States
  <2>2. Empty[d]["catchup"] = None
    BY <1>1 DEF Empty, Kinds
  <2>3. Empty[d] \in [Kinds -> Record \cup {None}]
    BY <1>1, EmptyType DEF States
  <2>4. new \in States
    BY <1>7, <2>1, <2>3 DEF States
  <2>5. \A e \in Days : new[e] = IF e = d THEN Empty[d] ELSE recs[e]
    BY <1>7, <2>1
  <2>6. AllCounted(new, overtaken)
    BY <1>3, <2>2, <2>5 DEF AllCounted
  <2> QED  BY <1>m, <2>4, <2>6
<1>8. ASSUME NEW x \in Record, k = "catchup" => Counted(x, n), new = [recs EXCEPT ![d][k] = x]
      PROVE  MissesInv'
  <2>1. new \in States /\ AllCounted(new, overtaken)
    BY <1>1, <1>3, <1>8, <1>n, ReplacedType, ReplacedCounted
  <2> QED  BY <1>m, <2>1
<1>9. /\ Missed(r) \in Record /\ [r EXCEPT !.active = None] \in Record
      /\ k = "catchup" => Counted(Missed(r), n)
  BY <1>1, <1>4, <1>5, MissedType, ClearedType, MissedCounted
<1> QED  BY <1>6, <1>7, <1>8, <1>9

\* What one reconciliation does to the record of a day.
LEMMA ReconciledCatchup ==
  ASSUME NEW rs \in States, NEW d \in Days
  PROVE  \/ Reconciled(d, rs[d]) = rs[d]
         \/ Reconciled(d, rs[d]) = Empty[d] /\ Complete(d)
         \/ /\ ~IsActive(rs[d]["catchup"])
            /\ Reconciled(d, rs[d])["catchup"] = rs[d]["catchup"]
         \/ /\ IsActive(rs[d]["catchup"])
            /\ Reconciled(d, rs[d])["catchup"] = Missed(rs[d]["catchup"])
  BY DEF Reconciled, Kinds

LEMMA ReconcileCounted ==
  ASSUME TypeOK, MissesInv, ReconcileInterruptedAttempts, faults' = 0
  PROVE  MissesInv'
<1> DEFINE after(base) == [d \in Days |-> Reconciled(d, base[d])]
           new == after(recs)
           early == {d \in Days : /\ stage = "waiting"
                                  /\ current = [day |-> d, kind |-> "catchup"]}
<1>1. UNCHANGED <<current, stage>>
  BY DEF ReconcileInterruptedAttempts, partition
<1>2. /\ faults = 0
      /\ \/ UNCHANGED <<recs, overtaken>>
         \/ recs' = Pruned(new) /\ Overtaken(recs', early)
  <2>1. PICK base \in Loaded :
          \/ /\ UNCHANGED <<recs, overtaken>>
             /\ faults' = IF base = recs THEN faults ELSE faults + 1
          \/ Saved(base, after(base), early)
          \/ Unsaved(base)
    BY DEF ReconcileInterruptedAttempts, ghosts
  <2>2. faults \in Nat
    BY DEF TypeOK
  <2> HIDE DEF after, early
  <2> QED  BY <2>1, <2>2, NoFault
<1>3. /\ recs \in States /\ AllCounted(recs, overtaken)
      /\ stage = "waiting" /\ current.kind = "catchup" =>
           ToMiss(recs[current.day]["catchup"], overtaken[current.day])
      /\ stage = "waiting" => current \in Commands
      /\ \A d \in Days : overtaken[d] \in Nat
  BY <1>2 DEF TypeOK, States, MissesInv
<1>4. new \in States
  BY <1>3, ReconciledType
<1>5. \A d \in Days : d \in early =>
        ToMiss(recs[d]["catchup"], overtaken[d])
  BY <1>3
<1>e. \A d \in Days : stage = "waiting" /\ current.kind = "catchup" /\ current.day = d => d \in early
  BY <1>3 DEF Commands
<1>6. CASE UNCHANGED <<recs, overtaken>>
  BY <1>1, <1>2, <1>3, <1>6 DEF MissesInv
<1>7. CASE recs' = Pruned(new) /\ Overtaken(recs', early)
  <2>1. ASSUME NEW d \in Days
        PROVE  LET q == recs'[d]["catchup"]
               IN  /\ q # None => Counted(q, overtaken'[d])
                   /\ d \in early => ToMiss(q, overtaken'[d])
    <3> DEFINE r == recs[d]["catchup"]
               q == recs'[d]["catchup"]
               n == overtaken[d]
               m == overtaken'[d]
    <3>1. n \in Nat /\ "catchup" \in Kinds /\ r \in Record \cup {None}
      BY <1>3 DEF Kinds, States
    <3>2. m = (IF q = None THEN 0 ELSE n) + (IF d \in early THEN 1 ELSE 0)
      BY <1>7 DEF Overtaken
    <3>3. r # None => Counted(r, n)
      BY <1>3 DEF AllCounted
    <3>4. q = r \/ q = None \/ (r # None /\ r.active # None /\ q = Missed(r))
      <4>1. q \in {Reconciled(d, recs[d])["catchup"], None}
        BY <1>4, <1>7, <3>1, PrunedCounted
      <4>2. Empty[d]["catchup"] = None
        BY <3>1 DEF Empty
      <4> QED  BY <1>3, <4>1, <4>2, ReconciledCatchup DEF IsActive
    <3>5. d \in early => ToMiss(r, n)
      BY <1>5
    <3> HIDE DEF r, q, n, m, early
    <3>6. CASE q = None
      BY <3>1, <3>2, <3>6 DEF ToMiss, q, m
    <3>7. CASE r # None /\ q = r
      <4>1. r.misses \in Nat /\ r.attempts \in Nat
        BY <3>1, <3>7 DEF Record
      <4>2. Counted(r, m)
        BY <3>1, <3>2, <3>3, <3>7, <4>1 DEF Counted
      <4>3. d \in early => ToMiss(r, m)
        BY <3>1, <3>2, <3>5, <3>7, <4>1 DEF ToMiss
      <4> QED  BY <3>7, <4>2, <4>3 DEF q, m
    <3>8. CASE r # None /\ r.active # None /\ q = Missed(r)
      <4>1. r \in Record /\ r.misses \in Nat /\ r.attempts \in Nat /\ r.misses < r.attempts + n
        BY <3>1, <3>3, <3>8 DEF Record, Counted
      <4>2. /\ q.misses = r.misses + 1 /\ q.attempts = r.attempts
            /\ q.active = None /\ q \in Record
        BY <3>1, <3>8, <4>1, MissedCounted, MissedType
      <4>3. q # None
        BY <4>2, NoneIsNoRecord
      <4>4. Counted(q, m)
        BY <3>1, <3>2, <4>1, <4>2, <4>3 DEF Counted
      <4>5. d \in early => ToMiss(q, m)
        BY <3>1, <3>2, <4>1, <4>2, <4>3 DEF ToMiss
      <4> QED  BY <4>4, <4>5 DEF q, m
    <3> QED  BY <3>4, <3>6, <3>7, <3>8
  <2>2. AllCounted(recs', overtaken')
    BY <2>1 DEF AllCounted
  <2>3. stage = "waiting" => current.day \in Days
    BY <1>3 DEF Commands
  <2> QED  BY <1>1, <1>e, <2>1, <2>2, <2>3 DEF MissesInv
<1> QED  BY <1>2, <1>6, <1>7

\* A step that writes no record and lets no attempt be recorded.
LEMMA MissesQuiet ==
  ASSUME MissesInv, UNCHANGED <<recs, overtaken, faults>>,
         stage' = "waiting" => stage = "waiting" /\ current' = current
  PROVE  MissesInv'
  BY DEF MissesInv

LEMMA MissesKept ==
  ASSUME TypeOK, MissesInv, [Next]_vars
  PROVE  MissesInv'
<1> USE DEF files, partition, ghosts, counters
<1> SUFFICES ASSUME faults' = 0 PROVE MissesInv'
  BY DEF MissesInv
<1>1. CASE World \/ Finish \/ Exit
  BY <1>1, MissesQuiet DEF World, NewSegment, MarkUpdated, Finish, Exit
<1>2. CASE Tick
  <2>1. UNCHANGED <<stage, current, overtaken, faults>>
    BY <1>2 DEF Tick
  <2>2. \A o : AllCounted(recs, o) => AllCounted(recs', o)
    BY <1>2, TickStuck DEF AllCounted, Counted, Kinds
  <2>3. \A n : \A d \in Days : ToMiss(recs[d]["catchup"], n) => ToMiss(recs'[d]["catchup"], n)
    BY <1>2, TickStuck DEF ToMiss, Kinds
  <2>4. stage = "waiting" => current.day \in Days
    BY DEF TypeOK, Commands
  <2> QED  BY <2>1, <2>2, <2>3, <2>4 DEF MissesInv
<1>3. CASE Drains
  <2>1. UNCHANGED <<recs, overtaken, faults>>
    BY <1>3 DEF Drains, HandleDailyTasks, HandleDrain, DrainSubmit, RequestFromScratch
  <2>2. stage' = "waiting" => stage = "waiting" /\ current' = current
    BY <1>3, SubmitStage DEF Drains, HandleDailyTasks, HandleDrain, DrainSubmit, RequestFromScratch
  <2> QED  BY <2>1, <2>2, MissesQuiet
<1>4. CASE Thread
  <2>1. CASE Spawn \/ ReadAttempt \/ ProcessNext \/ Notify
    BY <2>1, MissesQuiet DEF Spawn, ReadAttempt, ProcessNext, Notify, Notified
  <2>2. CASE RecordAttempt
    BY <2>2, AttemptCounted
  <2>3. CASE RecordOutcome
    BY <2>3, OutcomeCounted
  <2> QED  BY <1>4, <2>1, <2>2, <2>3 DEF Thread
<1>5. CASE Startup
  <2>1. CASE Boot \/ SetReady \/ FlushHeld \/ AnnounceTransition \/ StartupDrain
    <3>1. UNCHANGED <<recs, overtaken, faults>>
      BY <2>1 DEF Boot, SetReady, FlushHeld, AnnounceTransition, StartupDrain, Notified
    <3>2. stage' = "waiting" => stage = "waiting" /\ current' = current
      <4>1. CASE Boot
        BY <4>1 DEF Boot, TypeOK
      <4> QED  BY <2>1, <4>1 DEF SetReady, FlushHeld, AnnounceTransition, StartupDrain
    <3> QED  BY <3>1, <3>2, MissesQuiet
  <2>2. CASE ReconcileInterruptedAttempts
    BY <2>2, ReconcileCounted
  <2> QED  BY <1>5, <2>1, <2>2 DEF Startup
<1>6. CASE Stop
  BY <1>6, MissesQuiet DEF Stop
<1>7. CASE UNCHANGED vars
  BY <1>7, MissesQuiet DEF vars
<1> QED  BY <1>1, <1>2, <1>3, <1>4, <1>5, <1>6, <1>7 DEF Next

\* Misses are counted among the attempts made and those that startup took for
\* interrupted ones while they ran, unless an access to the file failed
\* (catchup_state.py: record_attempt, record_outcome, reconcile_interrupted_attempts).
THEOREM MissesCounted == Spec => []MissesAreAttempts
<1>1. Init => MissesInv
  BY DEF Init, MissesInv, AllCounted, Empty, Kinds
<1>2. TypeOK /\ MissesInv /\ [Next]_vars => MissesInv'
  BY MissesKept
<1>3. TypeOK /\ MissesInv => MissesAreAttempts
  BY DEF MissesInv, AllCounted, Counted, MissesAreAttempts
<1> QED  BY <1>1, <1>2, <1>3, TypeCorrect, PTL DEF Spec

\* The reconciliations that there have been: one per supervisor that came so far.
Reconciliations == stops + IF phase \in {"announcing", "up"} THEN 1 ELSE 0

\* A startup takes one running attempt of a day for an interrupted one at most, so
\* "stuck after N attempts" is early by no more than the number of startups.
OvertakenOnce == \A d \in Days : overtaken[d] <= Reconciliations

\* What a day's misses may outrun its attempts by is bounded by the number of
\* startups, also over failed accesses to the file (supervisor.py: main;
\* catchup_state.py: reconcile_interrupted_attempts).
THEOREM MissesBounded == Spec => []OvertakenOnce
<1> USE DEF files, partition, ghosts, counters
<1>1. Init => OvertakenOnce
  BY DEF Init, OvertakenOnce, Reconciliations
<1>2. TypeOK /\ OvertakenOnce /\ [Next]_vars => OvertakenOnce'
  <2> SUFFICES ASSUME TypeOK, OvertakenOnce, [Next]_vars PROVE OvertakenOnce'
    OBVIOUS
  <2>1. \A d \in Days : overtaken[d] \in Nat /\ overtaken[d] <= Reconciliations
    BY DEF TypeOK, OvertakenOnce
  <2>2. stops \in Nat /\ Reconciliations \in Nat
    BY DEF TypeOK, Reconciliations
  <2>q. ASSUME overtaken' = overtaken, Reconciliations' \in Nat,
               Reconciliations <= Reconciliations'
        PROVE  OvertakenOnce'
    BY <2>1, <2>2, <2>q DEF OvertakenOnce
  <2>r. ASSUME UNCHANGED <<phase, stops>>,
               \A d \in Days : overtaken'[d] \in {0, overtaken[d]}
        PROVE  OvertakenOnce'
    <3>1. Reconciliations' = Reconciliations
      BY <2>r DEF Reconciliations
    <3> QED  BY <2>1, <2>2, <2>r, <3>1 DEF OvertakenOnce
  <2>3. CASE World \/ Finish \/ Exit \/ Tick \/ Drains \/ Spawn \/ ReadAttempt \/ Notify
             \/ ProcessNext \/ SetReady \/ FlushHeld \/ AnnounceTransition
    <3>1. UNCHANGED <<overtaken, stops>> /\ Reconciliations' = Reconciliations
      BY <2>3 DEF World, NewSegment, MarkUpdated, Finish, Exit, Tick, Drains, HandleDailyTasks,
                  HandleDrain, DrainSubmit, RequestFromScratch, Spawn, ReadAttempt, Notify,
                  ProcessNext, SetReady, FlushHeld, AnnounceTransition, Notified,
                  Reconciliations
    <3> QED  BY <2>2, <2>q, <3>1
  <2>4. CASE RecordAttempt \/ RecordOutcome
    <3>1. UNCHANGED <<phase, stops>> /\ (overtaken' = overtaken \/ Overtaken(recs', {}))
      BY <2>4 DEF RecordAttempt, RecordOutcome, Saved, Unsaved
    <3>2. \A d \in Days : overtaken'[d] \in {0, overtaken[d]}
      BY <2>1, <3>1 DEF Overtaken
    <3> QED  BY <2>r, <3>1, <3>2
  <2>5. CASE ReconcileInterruptedAttempts
    <3>1. /\ phase = "flushing" /\ phase' = "announcing" /\ stops' = stops
          /\ overtaken' = overtaken \/ \E early : Overtaken(recs', early)
      BY <2>5 DEF ReconcileInterruptedAttempts, Saved, Unsaved
    <3>2. Reconciliations = stops /\ Reconciliations' = stops + 1
      BY <2>2, <3>1 DEF Reconciliations
    <3>3. ASSUME NEW d \in Days PROVE overtaken'[d] <= stops + 1
      <4>1. overtaken[d] \in Nat /\ overtaken[d] <= stops
        BY <2>1, <3>2
      <4>2. overtaken'[d] \in {0, 1, overtaken[d], overtaken[d] + 1}
        BY <3>1, <4>1 DEF Overtaken
      <4> QED  BY <2>2, <4>1, <4>2
    <3> QED  BY <3>2, <3>3 DEF OvertakenOnce
  <2>6. CASE Boot \/ StartupDrain
    <3>1. overtaken' = overtaken /\ Reconciliations' = Reconciliations
      BY <2>6 DEF Boot, StartupDrain, Reconciliations
    <3> QED  BY <2>2, <2>q, <3>1
  <2>7. CASE Stop
    <3>1. stops' = stops + 1 /\ phase' = "down" /\ overtaken' = overtaken
      BY <2>7 DEF Stop
    <3>2. Reconciliations' = stops + 1
      BY <2>2, <3>1 DEF Reconciliations
    <3> QED  BY <2>2, <2>q, <3>1, <3>2 DEF Reconciliations
  <2>8. CASE UNCHANGED vars
    BY <2>2, <2>q, <2>8 DEF vars, Reconciliations
  <2> QED  BY <2>3, <2>4, <2>5, <2>6, <2>7, <2>8 DEF Next, Thread, Startup
<1> QED  BY <1>1, <1>2, TypeCorrect, PTL DEF Spec

----------------------------------------------------------------------------
(* The backoff *)

\* A record is stuck from the Threshold-th miss on, and waits no longer than its misses
\* ask for.
Measured(r) ==
  /\ r.stuck <=> r.misses >= Threshold
  /\ r.retry <= IF r.misses = 0 THEN 0 ELSE Delay(r.misses)
AllMeasured(rs) == \A d \in Days, k \in Kinds : rs[d][k] # None => Measured(rs[d][k])

\* Whatever attempts, outcomes, reconciliations, lost reads and writes and passing time
\* did to it, in whatever order: a day is in backoff exactly when it missed Threshold
\* times on this input, and never waits longer than the delay of its last miss.
BackoffIsMeasured == AllMeasured(recs)

LEMMA MissedMeasured ==
  ASSUME NEW r \in Record, Measured(r)
  PROVE  Measured(Missed(r))
<1> DEFINE n == r.misses + 1
           s == IF n >= Threshold THEN TRUE ELSE r.stuck
<1>1. Missed(r) = [r EXCEPT !.misses = n, !.retry = Delay(n), !.active = None, !.stuck = s]
  BY DEF Missed
<1>2. /\ n \in Nat /\ n # 0 /\ Delay(n) \in Nat
      /\ s <=> n >= Threshold
  BY DelayType, ParametersAssumption DEF Record, Measured
<1>3. s \in BOOLEAN
  BY DEF Record
<1> HIDE DEF n, s
<1>4. Missed(r).misses = n /\ Missed(r).retry = Delay(n) /\ Missed(r).stuck = s
  BY <1>1 DEF Record
<1> QED  BY <1>2, <1>3, <1>4 DEF Measured

LEMMA ClearedMeasured ==
  ASSUME NEW r \in Record, Measured(r)
  PROVE  Measured([r EXCEPT !.active = None])
<1> DEFINE x == [r EXCEPT !.active = None]
<1>1. x.misses = r.misses /\ x.retry = r.retry /\ x.stuck = r.stuck
  BY DEF Record
<1> HIDE DEF x
<1>2. Measured(x)
  BY <1>1 DEF Measured
<1> QED  BY <1>2 DEF x

LEMMA NewMeasured == Measured(NewRecord)
  BY ParametersAssumption DEF Measured, NewRecord

LEMMA StartedMeasured ==
  ASSUME NEW r \in Record, Measured(r), NEW k, seen \in [mark : Nat, print : Nat]
  PROVE  Measured(Started(r, k))
<1> DEFINE print == IF k = "catchup" THEN seen.print ELSE None
           kept == IF k = "catchup" /\ r.print # print
                   THEN [r EXCEPT !.misses = 0, !.stuck = FALSE, !.retry = 0] ELSE r
<1>1. kept \in Record /\ Measured(kept)
  <2>1. CASE kept = r
    BY <2>1
  <2>2. CASE kept = [r EXCEPT !.misses = 0, !.stuck = FALSE, !.retry = 0]
    <3>1. kept \in Record /\ kept.misses = 0 /\ kept.retry = 0 /\ kept.stuck = FALSE
      BY <2>2 DEF Record
    <3> QED  BY <3>1, ParametersAssumption DEF Measured
  <2> QED  BY <2>1, <2>2
<1>2. Started(r, k) = [kept EXCEPT !.attempts = kept.attempts + 1, !.print = print,
                                   !.active = seen.mark]
  BY DEF Started
<1> HIDE DEF kept, print
<1>3. /\ Started(r, k).misses = kept.misses
      /\ Started(r, k).retry = kept.retry
      /\ Started(r, k).stuck = kept.stuck
  BY <1>1, <1>2 DEF Record
<1> QED  BY <1>1, <1>3 DEF Measured

LEMMA EmptyMeasured == AllMeasured(Empty)
  BY DEF AllMeasured, Empty

LEMMA PrunedMeasured ==
  ASSUME NEW rs \in States, AllMeasured(rs)
  PROVE  AllMeasured(Pruned(rs))
<1>1. \A d \in Days, k \in Kinds : Pruned(rs)[d][k] \in {rs[d][k], None}
  BY DEF Pruned
<1> QED  BY <1>1 DEF AllMeasured

LEMMA ReplacedMeasured ==
  ASSUME NEW rs \in States, AllMeasured(rs), NEW d \in Days, NEW k \in Kinds,
         NEW r \in Record, Measured(r)
  PROVE  AllMeasured([rs EXCEPT ![d][k] = r])
<1> DEFINE new == [rs EXCEPT ![d][k] = r]
<1>r. rs \in [Days -> [Kinds -> Record \cup {None}]]
  BY DEF States
<1>1. /\ new[d][k] = r
      /\ \A f \in Days, j \in Kinds : f # d \/ j # k => new[f][j] = rs[f][j]
  BY <1>r
<1> HIDE DEF new
<1>2. AllMeasured(new)
  BY <1>1 DEF AllMeasured
<1> QED  BY <1>2 DEF new

LEMMA LoadedMeasured ==
  ASSUME TypeOK, BackoffIsMeasured, NEW base \in Loaded
  PROVE  base \in States /\ AllMeasured(base)
  BY LoadedType, EmptyMeasured DEF Loaded, BackoffIsMeasured

LEMMA FoundMeasured ==
  ASSUME NEW rs \in States, AllMeasured(rs), NEW d \in Days, NEW k \in Kinds
  PROVE  Measured(IF rs[d][k] = None THEN NewRecord ELSE rs[d][k])
  BY NewMeasured DEF AllMeasured

LEMMA AttemptMeasured ==
  ASSUME TypeOK, BackoffIsMeasured, RecordAttempt
  PROVE  BackoffIsMeasured'
<1> DEFINE d == current.day
           k == current.kind
           found(base) == IF base[d][k] = None THEN NewRecord ELSE base[d][k]
           begun(base) == [base EXCEPT ![d][k] = Started(found(base), k)]
<1>1. d \in Days /\ k \in Kinds /\ seen \in [mark : Nat, print : Nat]
  BY DEF RecordAttempt, TypeOK, Commands
<1>2. PICK base \in Loaded : Saved(base, begun(base), {}) \/ Unsaved(base)
  BY DEF RecordAttempt
<1>3. base \in States /\ AllMeasured(base)
  BY LoadedMeasured
<1>4. found(base) \in Record /\ Measured(found(base))
  BY <1>1, <1>3, FoundType, FoundMeasured
<1>5. Started(found(base), k) \in Record /\ Measured(Started(found(base), k))
  <2> HIDE DEF found, k
  <2> QED  BY <1>1, <1>4, StartedType, StartedMeasured
<1>6. begun(base) \in States /\ AllMeasured(begun(base))
  <2> HIDE DEF found, d, k
  <2> QED  BY <1>1, <1>3, <1>5, ReplacedType, ReplacedMeasured
<1> HIDE DEF begun
<1>7. CASE Saved(base, begun(base), {})
  BY <1>6, <1>7, PrunedMeasured DEF Saved, BackoffIsMeasured
<1>8. CASE Unsaved(base)
  BY <1>8 DEF Unsaved, BackoffIsMeasured
<1> QED  BY <1>2, <1>7, <1>8

\* A day whose records are all forgotten.
LEMMA ForgottenDay ==
  ASSUME NEW rs \in States, NEW d \in Days
  PROVE  /\ [rs EXCEPT ![d] = Empty[d]] \in States
         /\ \A k \in Kinds : [rs EXCEPT ![d] = Empty[d]][d][k] = None
         /\ \A e \in Days : e # d => [rs EXCEPT ![d] = Empty[d]][e] = rs[e]
<1> DEFINE new == [rs EXCEPT ![d] = Empty[d]]
<1>1. rs \in [Days -> [Kinds -> Record \cup {None}]]
  BY DEF States
<1>2. Empty[d] \in [Kinds -> Record \cup {None}] /\ \A k \in Kinds : Empty[d][k] = None
  BY DEF Empty
<1>3. new \in States
  BY <1>1, <1>2 DEF States
<1>4. new[d] = Empty[d] /\ \A e \in Days : e # d => new[e] = rs[e]
  BY <1>1
<1> QED  BY <1>2, <1>3, <1>4

LEMMA OutcomeMeasured ==
  ASSUME TypeOK, BackoffIsMeasured, RecordOutcome
  PROVE  BackoffIsMeasured'
<1> DEFINE d == current.day
           k == current.kind
           found(base) == IF base[d][k] = None THEN NewRecord ELSE base[d][k]
           ended(base) ==
             IF CompletedSince(d, found(base).active)
             THEN [base EXCEPT ![d] = Empty[d]]
             ELSE IF k = "catchup" THEN [base EXCEPT ![d][k] = Missed(found(base))]
             ELSE [base EXCEPT ![d][k] = [found(base) EXCEPT !.active = None]]
<1>1. d \in Days /\ k \in Kinds
  BY DEF RecordOutcome, TypeOK, Commands
<1>2. PICK base \in Loaded : Saved(base, ended(base), {}) \/ Unsaved(base)
  BY DEF RecordOutcome
<1>3. base \in States /\ AllMeasured(base)
  BY LoadedMeasured
<1>4. found(base) \in Record /\ Measured(found(base))
  BY <1>1, <1>3, FoundType, FoundMeasured
<1> DEFINE r == found(base)
           new == ended(base)
<1>5. \/ new = [base EXCEPT ![d] = Empty[d]]
      \/ new = [base EXCEPT ![d][k] = Missed(r)]
      \/ new = [base EXCEPT ![d][k] = [r EXCEPT !.active = None]]
  OBVIOUS
<1>6. Saved(base, new, {}) \/ Unsaved(base)
  BY <1>2
<1>r. r \in Record /\ Measured(r)
  BY <1>4
<1> HIDE DEF d, k, found, ended, r, new
<1>7. \A x \in Record : Measured(x) =>
        [base EXCEPT ![d][k] = x] \in States /\ AllMeasured([base EXCEPT ![d][k] = x])
  BY <1>1, <1>3, ReplacedType, ReplacedMeasured
<1>8. Missed(r) \in Record /\ Measured(Missed(r))
  BY <1>r, MissedType, MissedMeasured
<1>9. [r EXCEPT !.active = None] \in Record /\ Measured([r EXCEPT !.active = None])
  BY <1>r, ClearedType, ClearedMeasured
<1>10. new \in States /\ AllMeasured(new)
  <2>1. CASE new = [base EXCEPT ![d] = Empty[d]]
    <3>1. /\ [base EXCEPT ![d] = Empty[d]] \in States
          /\ \A j \in Kinds : [base EXCEPT ![d] = Empty[d]][d][j] = None
          /\ \A e \in Days : e # d => [base EXCEPT ![d] = Empty[d]][e] = base[e]
      BY <1>1, <1>3, ForgottenDay
    <3> QED  BY <1>3, <2>1, <3>1 DEF AllMeasured
  <2> QED  BY <1>5, <1>7, <1>8, <1>9, <2>1
<1>11. CASE Saved(base, new, {})
  BY <1>10, <1>11, PrunedMeasured DEF Saved, BackoffIsMeasured
<1>12. CASE Unsaved(base)
  BY <1>12 DEF Unsaved, BackoffIsMeasured
<1> QED  BY <1>6, <1>11, <1>12

LEMMA ReconcileMeasured ==
  ASSUME TypeOK, BackoffIsMeasured, ReconcileInterruptedAttempts
  PROVE  BackoffIsMeasured'
<1> DEFINE after(base) == [d \in Days |-> Reconciled(d, base[d])]
<1>1. PICK base \in Loaded, early \in SUBSET Days : UNCHANGED recs \/ Saved(base, after(base), early)
  BY DEF ReconcileInterruptedAttempts, Unsaved
<1>2. base \in States /\ AllMeasured(base)
  BY LoadedMeasured
<1>3. after(base) \in States
  BY <1>2, ReconciledType
<1>4. AllMeasured(after(base))
  <2> SUFFICES ASSUME NEW d \in Days, NEW k \in Kinds, Reconciled(d, base[d])[k] # None
               PROVE  Measured(Reconciled(d, base[d])[k])
    BY DEF AllMeasured
  <2>1. base[d][k] \in Record \cup {None} /\ (base[d][k] # None => Measured(base[d][k]))
    BY <1>2 DEF States, AllMeasured
  <2>2. \/ Reconciled(d, base[d])[k] \in {base[d][k], None}
        \/ /\ base[d][k] # None
           /\ Reconciled(d, base[d])[k] \in {Missed(base[d][k]), [base[d][k] EXCEPT !.active = None]}
    BY DEF Reconciled, Empty, IsActive
  <2> QED  BY <2>1, <2>2, MissedMeasured, ClearedMeasured
<1> HIDE DEF after
<1>5. CASE Saved(base, after(base), early)
  BY <1>3, <1>4, <1>5, PrunedMeasured DEF Saved, BackoffIsMeasured
<1>6. CASE UNCHANGED recs
  BY <1>6 DEF BackoffIsMeasured
<1> QED  BY <1>1, <1>5, <1>6

\* The steps that leave the file alone.
LEMMA FileSteps ==
  ASSUME [Next]_vars
  PROVE  \/ UNCHANGED recs
         \/ Tick \/ RecordAttempt \/ RecordOutcome \/ ReconcileInterruptedAttempts
<1> USE DEF files, partition, ghosts, counters
<1>1. CASE World \/ Finish \/ Exit \/ Stop
  BY <1>1 DEF World, NewSegment, MarkUpdated, Finish, Exit, Stop
<1>2. CASE Drains
  BY <1>2 DEF Drains, HandleDailyTasks, HandleDrain, DrainSubmit, RequestFromScratch
<1>3. CASE Thread
  BY <1>3 DEF Thread, Spawn, ReadAttempt, Notify, ProcessNext
<1>4. CASE Startup
  BY <1>4 DEF Startup, Boot, SetReady, FlushHeld, AnnounceTransition, StartupDrain
<1>5. CASE UNCHANGED vars
  BY <1>5 DEF vars
<1> QED  BY <1>1, <1>2, <1>3, <1>4, <1>5 DEF Next

\* A day is stuck exactly from its Threshold-th miss on, and waits no longer than the
\* delay of its last miss, failed accesses to the file or not.
THEOREM BackoffMeasured == Spec => []BackoffIsMeasured
<1>1. Init => BackoffIsMeasured
  BY EmptyMeasured DEF Init, BackoffIsMeasured
<1>2. TypeOK /\ BackoffIsMeasured /\ [Next]_vars => BackoffIsMeasured'
  <2> SUFFICES ASSUME TypeOK, BackoffIsMeasured, [Next]_vars PROVE BackoffIsMeasured'
    OBVIOUS
  <2>1. CASE UNCHANGED recs
    BY <2>1 DEF BackoffIsMeasured
  <2>2. CASE Tick
    <3>1. ASSUME NEW d \in Days, NEW k \in Kinds, recs'[d][k] # None
          PROVE  Measured(recs'[d][k])
      <4>1. /\ recs[d][k] # None /\ recs'[d][k].stuck = recs[d][k].stuck
            /\ recs'[d][k].misses = recs[d][k].misses
            /\ recs'[d][k].retry <= recs[d][k].retry
        BY <2>2, <3>1, TickStuck
      <4>2. recs[d][k] \in Record /\ recs'[d][k] \in Record /\ Measured(recs[d][k])
        BY <2>2, <3>1, <4>1, TickStuck DEF TypeOK, States, BackoffIsMeasured, AllMeasured
      <4>3. recs[d][k].misses # 0 => Delay(recs[d][k].misses) \in Nat
        BY <4>2, DelayType DEF Record
      <4> QED  BY <4>1, <4>2, <4>3 DEF Measured, Record
    <3> QED  BY <3>1 DEF BackoffIsMeasured, AllMeasured
  <2> QED
    BY <2>1, <2>2, FileSteps, AttemptMeasured, OutcomeMeasured, ReconcileMeasured
<1> QED  BY <1>1, <1>2, TypeCorrect, PTL DEF Spec

\* _backoff_delay is bounded.
LEMMA DelayBound == ASSUME NEW n \in Nat \ {0} PROVE Delay(n) <= MaxDelay
<1>1. Len(Delays) \in Nat \ {0}
  BY DelaysAssumption
<1>2. (IF n < Len(Delays) THEN n ELSE Len(Delays)) \in DOMAIN Delays
  BY <1>1, DelaysAssumption
<1>3. \A i \in DOMAIN Delays : Delays[i] \in Nat
  BY DelaysAssumption
<1>4. ASSUME NEW i \in DOMAIN Delays PROVE Delays[i] <= MaxDelay
  <2>1. Delays[i] = IF 2^(i - 1) < MaxDelay THEN 2^(i - 1) ELSE MaxDelay
    BY DoublingAssumption
  <2> QED  BY <1>3, <2>1, ParametersAssumption
<1> QED  BY <1>2, <1>4 DEF Delay

\* Once startup has reconciled, and unless an access to the file failed, a day that may
\* not be attempted has at most MaxDelay to wait, or is being attempted right now: what
\* PendingDayCompletes needs of the bookkeeping, for every number of days and failures.
DueAgain ==
  faults = 0 /\ phase \in {"announcing", "up"} =>
    \A d \in Days :
      \/ Eligible(d)
      \/ recs[d]["catchup"].retry \in 1 .. MaxDelay
      \/ stage = "waiting" /\ current = [day |-> d, kind |-> "catchup"]

\* No day waits for ever to be looked at again (catchup_state.py: day_eligible_to_drain).
THEOREM EveryDayIsDue == Spec => []DueAgain
<1>1. TypeOK /\ ActiveHasAttempt /\ BackoffIsMeasured => DueAgain
  <2> SUFFICES ASSUME TypeOK, ActiveHasAttempt, BackoffIsMeasured,
                      faults = 0, phase \in {"announcing", "up"},
                      NEW d \in Days, ~Eligible(d),
                      ~(stage = "waiting" /\ current = [day |-> d, kind |-> "catchup"])
               PROVE  recs[d]["catchup"].retry \in 1 .. MaxDelay
    BY DEF DueAgain
  <2> DEFINE r == recs[d]["catchup"]
  <2>1. "catchup" \in Kinds
    BY DEF Kinds
  <2>2. ~IsActive(r) /\ r # None
    BY <2>1 DEF ActiveHasAttempt, Eligible
  <2>3. r \in Record /\ Measured(r)
    BY <2>1, <2>2 DEF TypeOK, BackoffIsMeasured, AllMeasured
  <2>4. r.retry # 0
    BY <2>2 DEF Eligible, IsActive
  <2> HIDE DEF r
  <2>5. r.misses \in Nat /\ r.retry \in Nat /\ r.retry <= IF r.misses = 0 THEN 0 ELSE Delay(r.misses)
    BY <2>3 DEF Record, Measured
  <2>6. r.misses # 0
    BY <2>4, <2>5
  <2>7. Delay(r.misses) \in Nat /\ Delay(r.misses) <= MaxDelay
    BY <2>5, <2>6, DelayType, DelayBound
  <2>8. r.retry \in 1 .. MaxDelay
    BY <2>4, <2>5, <2>6, <2>7, ParametersAssumption
  <2> QED  BY <2>8 DEF r
<1> QED  BY <1>1, TypeCorrect, NoWedge, BackoffMeasured, PTL
----------------------------------------------------------------------------
(* Remembered *)

\* What becomes of a record that counts misses: it stays and counts no fewer, or the
\* input that the misses were about has changed.
Remembers(r, new) ==
  new # None /\ (new.misses >= r.misses \/ new.print # r.print)

\* The misses of a day are forgotten only once the day is complete or its raw input has
\* changed: no crash, reconciliation, --from-scratch run or pruning resets them, unless
\* an access to the file failed.
Remembered ==
  \A d \in Days :
    recs[d]["catchup"] # None /\ recs[d]["catchup"].misses # 0 /\ faults' = faults =>
      Complete(d) \/ Remembers(recs[d]["catchup"], recs'[d]["catchup"])

LEMMA SoundAccess ==
  ASSUME faults \in Nat, faults' = faults, NEW base, NEW new, NEW early,
         Saved(base, new, early) \/ Unsaved(base)
  PROVE  base = recs /\ recs' = Pruned(new)
  BY DEF Unsaved, Saved

\* Pruning forgets no record that counts misses or is active.
LEMMA PrunedRemembers ==
  ASSUME NEW rs \in States, NEW d \in Days, NEW r \in Record, r.misses # 0,
         Remembers(r, rs[d]["catchup"]),
         rs[d]["catchup"].misses = 0 => IsActive(rs[d]["catchup"])
  PROVE  Remembers(r, Pruned(rs)[d]["catchup"])
<1>1. "catchup" \in Kinds
  BY DEF Kinds
<1>2. Pruned(rs)[d]["catchup"] = rs[d]["catchup"]
  BY <1>1, PrunedCounted DEF Remembers
<1> QED  BY <1>2

LEMMA AttemptRemembers ==
  ASSUME TypeOK, RecordAttempt, faults' = faults, NEW d \in Days,
         recs[d]["catchup"] # None, recs[d]["catchup"].misses # 0
  PROVE  Remembers(recs[d]["catchup"], recs'[d]["catchup"])
<1> DEFINE c == current.day
           k == current.kind
           found(base) == IF base[c][k] = None THEN NewRecord ELSE base[c][k]
           begun(base) == [base EXCEPT ![c][k] = Started(found(base), k)]
           old == recs[d]["catchup"]
           x == Started(found(recs), k)
           new == begun(recs)
<1>1. c \in Days /\ k \in Kinds /\ "catchup" \in Kinds /\ seen \in [mark : Nat, print : Nat]
  BY DEF RecordAttempt, TypeOK, Commands, Kinds
<1>2. recs' = Pruned(new)
  <2>1. \E base \in Loaded : Saved(base, begun(base), {}) \/ Unsaved(base)
    BY DEF RecordAttempt
  <2>2. faults \in Nat
    BY DEF TypeOK
  <2> HIDE DEF begun
  <2> QED  BY <2>1, <2>2, SoundAccess
<1>3. recs \in States /\ old \in Record
  BY <1>1 DEF TypeOK, States
<1>4. x \in Record
  BY <1>1, <1>3, FoundType, StartedType
<1>5. /\ new \in States
      /\ new[d]["catchup"] = IF c = d /\ k = "catchup" THEN x ELSE old
  <2>1. \A y \in Record :
          LET put == [recs EXCEPT ![c][k] = y]
          IN  /\ put \in States
              /\ put[d]["catchup"] = IF c = d /\ k = "catchup" THEN y ELSE old
    <3> HIDE DEF c, k
    <3> QED  BY <1>1, <1>3, ReplacedType
  <2>2. new = [recs EXCEPT ![c][k] = x]
    OBVIOUS
  <2> HIDE DEF c, k, old, x, new
  <2> QED  BY <1>4, <2>1, <2>2
<1>6. CASE c = d /\ k = "catchup"
  <2>1. found(recs) = old
    BY <1>6
  <2>2. /\ x.print = seen.print /\ x.active = seen.mark
        /\ x.misses = old.misses \/ old.print # seen.print
    <3> HIDE DEF found, old
    <3>1. x = Started(old, "catchup")
      BY <1>6, <2>1
    <3> DEFINE kept == IF old.print # seen.print
                       THEN [old EXCEPT !.misses = 0, !.stuck = FALSE, !.retry = 0] ELSE old
    <3>2. kept \in Record /\ (old.print = seen.print => kept = old)
      BY <1>3 DEF Record
    <3>3. x = [kept EXCEPT !.attempts = kept.attempts + 1, !.print = seen.print,
                           !.active = seen.mark]
      BY <3>1 DEF Started
    <3> HIDE DEF kept, x
    <3> QED  BY <3>2, <3>3 DEF Record
  <2>3. new \in States /\ new[d]["catchup"] = x
    BY <1>5, <1>6
  <2>4. x # None /\ old.misses \in Nat /\ x.active # None
    BY <1>1, <1>3, <1>4, <2>2, NoneIsNoRecord, NoneAssumption DEF Record
  <2> HIDE DEF c, k, found, begun, old, x, new
  <2>5. Remembers(old, new[d]["catchup"]) /\ IsActive(new[d]["catchup"])
    BY <2>2, <2>3, <2>4 DEF Remembers, IsActive
  <2>6. old.misses # 0
    BY DEF old
  <2>7. Remembers(old, Pruned(new)[d]["catchup"])
    BY <1>3, <2>3, <2>5, <2>6, PrunedRemembers
  <2> QED  BY <1>2, <2>7 DEF old
<1>7. CASE c # d \/ k # "catchup"
  <2>1. new \in States /\ new[d]["catchup"] = old
    BY <1>5, <1>7
  <2>2. old # None /\ old.misses # 0 /\ old.misses \in Nat
    BY <1>3 DEF Record
  <2> HIDE DEF c, k, found, begun, old, x, new
  <2>3. Remembers(old, Pruned(new)[d]["catchup"])
    BY <1>3, <2>1, <2>2, PrunedRemembers DEF Remembers
  <2> QED  BY <1>2, <2>3 DEF old
<1> QED  BY <1>6, <1>7

\* A run that did not complete its day is one more miss.
LEMMA MissedRemembers ==
  ASSUME NEW r \in Record
  PROVE  Missed(r) \in Record /\ Missed(r).misses = r.misses + 1
<1> DEFINE n == r.misses + 1
           s == IF n >= Threshold THEN TRUE ELSE r.stuck
<1>1. Missed(r) = [r EXCEPT !.misses = n, !.retry = Delay(n), !.active = None, !.stuck = s]
  BY DEF Missed
<1> HIDE DEF n, s
<1>2. [r EXCEPT !.misses = n, !.retry = Delay(n), !.active = None, !.stuck = s].misses = n
  BY DEF Record
<1> QED  BY <1>1, <1>2, MissedType DEF n

LEMMA OutcomeRemembers ==
  ASSUME TypeOK, RecordOutcome, faults' = faults, NEW d \in Days,
         recs[d]["catchup"] # None, recs[d]["catchup"].misses # 0, ~Complete(d)
  PROVE  Remembers(recs[d]["catchup"], recs'[d]["catchup"])
<1> DEFINE c == current.day
           k == current.kind
           found(base) == IF base[c][k] = None THEN NewRecord ELSE base[c][k]
           ended(base) ==
             IF CompletedSince(c, found(base).active)
             THEN [base EXCEPT ![c] = Empty[c]]
             ELSE IF k = "catchup" THEN [base EXCEPT ![c][k] = Missed(found(base))]
             ELSE [base EXCEPT ![c][k] = [found(base) EXCEPT !.active = None]]
           old == recs[d]["catchup"]
           r == found(recs)
           new == ended(recs)
<1>1. c \in Days /\ k \in Kinds /\ "catchup" \in Kinds
  BY DEF RecordOutcome, TypeOK, Commands, Kinds
<1>2. recs' = Pruned(new)
  <2>1. \E base \in Loaded : Saved(base, ended(base), {}) \/ Unsaved(base)
    BY DEF RecordOutcome
  <2>2. faults \in Nat
    BY DEF TypeOK
  <2> HIDE DEF ended
  <2> QED  BY <2>1, <2>2, SoundAccess
<1>3. recs \in States /\ old \in Record /\ old # None /\ old.misses \in Nat /\ old.misses # 0
  BY <1>1 DEF TypeOK, States, Record
<1>4. r \in Record
  BY <1>1, <1>3, FoundType
<1>5. \/ c # d /\ new = [recs EXCEPT ![c] = Empty[c]]
      \/ k = "catchup" /\ new = [recs EXCEPT ![c][k] = Missed(r)]
      \/ k # "catchup" /\ new = [recs EXCEPT ![c][k] = [r EXCEPT !.active = None]]
  BY DEF CompletedSince
<1>6. c = d /\ k = "catchup" => r = old
  OBVIOUS
<1>7. \A x \in Record :
        LET put == [recs EXCEPT ![c][k] = x]
        IN  /\ put \in States
            /\ put[d]["catchup"] = IF c = d /\ k = "catchup" THEN x ELSE old
  <2> HIDE DEF c, k
  <2> QED  BY <1>1, <1>3, ReplacedType
<1> HIDE DEF c, k, found, ended, old, r, new
<1>8. new \in States /\ Remembers(old, new[d]["catchup"]) /\ new[d]["catchup"].misses # 0
  <2>1. CASE c # d /\ new = [recs EXCEPT ![c] = Empty[c]]
    <3>1. /\ [recs EXCEPT ![c] = Empty[c]] \in States
          /\ \A e \in Days : e # c => [recs EXCEPT ![c] = Empty[c]][e] = recs[e]
      BY <1>1, <1>3, ForgottenDay
    <3> QED  BY <1>3, <2>1, <3>1 DEF Remembers, old
  <2>2. CASE k = "catchup" /\ new = [recs EXCEPT ![c][k] = Missed(r)]
    <3>1. Missed(r) \in Record /\ Missed(r).misses = r.misses + 1
      BY <1>4, MissedRemembers
    <3>2. new \in States /\ new[d]["catchup"] = IF c = d /\ k = "catchup" THEN Missed(r) ELSE old
      BY <1>7, <2>2, <3>1
    <3>3. Missed(r) # None
      BY <3>1, NoneIsNoRecord
    <3> QED  BY <1>3, <1>6, <3>1, <3>2, <3>3 DEF Remembers
  <2>3. CASE k # "catchup" /\ new = [recs EXCEPT ![c][k] = [r EXCEPT !.active = None]]
    <3>1. new \in States /\ new[d]["catchup"] = old
      BY <1>4, <1>7, <2>3, ClearedType
    <3> QED  BY <1>3, <3>1 DEF Remembers
  <2> QED  BY <1>5, <2>1, <2>2, <2>3
<1>9. Remembers(old, Pruned(new)[d]["catchup"])
  BY <1>3, <1>8, PrunedRemembers
<1> QED  BY <1>2, <1>9 DEF old

LEMMA ReconcileRemembers ==
  ASSUME TypeOK, ReconcileInterruptedAttempts, faults' = faults, NEW d \in Days,
         recs[d]["catchup"] # None, recs[d]["catchup"].misses # 0, ~Complete(d)
  PROVE  Remembers(recs[d]["catchup"], recs'[d]["catchup"])
<1> DEFINE after(base) == [e \in Days |-> Reconciled(e, base[e])]
           old == recs[d]["catchup"]
           new == after(recs)
<1>1. recs' = recs \/ recs' = Pruned(new)
  <2>1. PICK base \in Loaded, early \in SUBSET Days :
          UNCHANGED recs \/ Saved(base, after(base), early) \/ Unsaved(base)
    BY DEF ReconcileInterruptedAttempts
  <2>2. faults \in Nat
    BY DEF TypeOK
  <2> HIDE DEF after
  <2> QED  BY <2>1, <2>2, SoundAccess
<1>2. "catchup" \in Kinds /\ recs \in States
  BY DEF Kinds, TypeOK, States
<1>3. old \in Record /\ old # None /\ old.misses \in Nat /\ old.misses # 0
  BY <1>2 DEF TypeOK, Record
<1>4. new \in States /\ new[d] = Reconciled(d, recs[d])
  BY <1>2, ReconciledType
<1>5. new[d]["catchup"] \in {old, Missed(old)}
  BY <1>2, <1>4, ReconciledCatchup
<1>6. Missed(old) # None /\ Missed(old).misses = old.misses + 1
  BY <1>3, MissedRemembers, NoneIsNoRecord
<1> HIDE DEF old, after, new
<1>7. Remembers(old, new[d]["catchup"]) /\ new[d]["catchup"].misses # 0
  BY <1>3, <1>5, <1>6 DEF Remembers
<1>8. Remembers(old, Pruned(new)[d]["catchup"])
  BY <1>3, <1>4, <1>7, PrunedRemembers
<1>9. Remembers(old, recs[d]["catchup"])
  BY <1>3 DEF Remembers, old
<1> QED  BY <1>1, <1>8, <1>9 DEF old

\* Misses are forgotten by completion and by new input only.
THEOREM MissesRemembered == Spec => [][Remembered]_vars
<1>1. TypeOK /\ [Next]_vars => Remembered
  <2> SUFFICES ASSUME TypeOK, [Next]_vars, NEW d \in Days, faults' = faults,
                      recs[d]["catchup"] # None, recs[d]["catchup"].misses # 0, ~Complete(d)
               PROVE  Remembers(recs[d]["catchup"], recs'[d]["catchup"])
    BY DEF Remembered
  <2>1. "catchup" \in Kinds /\ recs[d]["catchup"] \in Record
    BY DEF Kinds, TypeOK
  <2>2. CASE UNCHANGED recs
    BY <2>1, <2>2 DEF Remembers, Record
  <2>3. CASE Tick
    <3>1. /\ recs'[d]["catchup"] # None
          /\ recs'[d]["catchup"].misses = recs[d]["catchup"].misses
      BY <2>1, <2>3, TickStuck
    <3> QED  BY <2>1, <3>1 DEF Remembers, Record
  <2> QED
    BY <2>2, <2>3, FileSteps, AttemptRemembers, OutcomeRemembers, ReconcileRemembers
<1> QED  BY <1>1, TypeCorrect, PTL DEF Spec
=============================================================================
