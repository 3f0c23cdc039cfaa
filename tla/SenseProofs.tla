----------------------------- MODULE SenseProofs -----------------------------
(***************************************************************************)
(* Proofs about Sense, for any segments, files, handlers and pools.        *)
(***************************************************************************)
EXTENDS Sense, SequenceTheorems, TLAPS

-----------------------------------------------------------------------------
(* The inductive invariant *)

Through(f) == job[f] \in {"reported", "done"}

\* A pool's queue holds its handler's queued files, each once.
Pools ==
    \A h \in Handlers :
        /\ \A i \in DOMAIN pool[h] :
              HandlerOf[pool[h][i]] = h /\ job[pool[h][i]] = "queued"
        /\ \A i, j \in DOMAIN pool[h] : pool[h][i] = pool[h][j] => i = j

\* A file has a job only when its segment's message has come to it, and only
\* if a handler wants it.
Jobs ==
    /\ \A s \in Segs \ announced : \A f \in FilesOf[s] : job[f] = "none"
    /\ \A f \in Files : job[f] # "none" =>
          HandlerOf[f] # None /\ \E s \in Segs : f \in FilesOf[s]
    /\ listener # None =>
          /\ listener.seg \in announced
          /\ listener.todo \subseteq FilesOf[listener.seg]
          /\ \A f \in listener.todo : job[f] = "none"
          /\ listener.step = "register" => listener.todo = FilesOf[listener.seg]

\* Entries belong to a segment of their name and hold its kind of files; the
\* files whose turn in the message is to come are registered.
Entries ==
    /\ \A k \in Keys : pending[k] # None =>
          /\ owner[k] \in Segs /\ KeyOf[owner[k]] = k
          /\ \A f \in pending[k] :
                HandlerOf[f] # None /\ \E s \in Segs : f \in FilesOf[s] /\ KeyOf[s] = k
    /\ listener # None /\ listener.step = "files" =>
          \A f \in listener.todo : HandlerOf[f] # None =>
              /\ pending[KeyOf[listener.seg]] # None
              /\ f \in pending[KeyOf[listener.seg]]

\* The segment is not registered yet.
New(s) ==
    \/ s \notin announced
    \/ listener # None /\ listener.seg = s /\ listener.step = "register"

Told(s) == \E i \in DOMAIN observed : observed[i].owner = s

\* The one event of a segment.
Faithful(s, i) ==
    /\ observed[i].stream = s
    /\ observed[i].errors = failed \cap FilesOf[s]
    /\ \A j \in DOMAIN observed : observed[j].owner = s => j = i

IsNew(s) ==
    /\ New(s) /\ pending[KeyOf[s]] = None /\ errors[KeyOf[s]] = {}
    /\ failed \cap FilesOf[s] = {} /\ ~ Told(s)
    /\ s \in announced => stream[KeyOf[s]] = s

IsWaiting(s) ==
    /\ ~ New(s) /\ pending[KeyOf[s]] # None /\ owner[KeyOf[s]] = s
    /\ stream[KeyOf[s]] = s /\ errors[KeyOf[s]] = failed \cap FilesOf[s]
    /\ ~ Told(s)
    /\ \A f \in Matched(s) : f \in pending[KeyOf[s]] \/ Through(f)

\* Segments whose entry touched their day's marker, or could not.
Tried == marked \cup untouched

IsThrough(s) ==
    /\ ~ New(s) /\ pending[KeyOf[s]] = None
    /\ s \in Tried \/ s \in Batch
    /\ \A f \in Matched(s) : Through(f)
    /\ \A i \in DOMAIN observed : observed[i].owner = s => Faithful(s, i)

\* The life of a segment with a name of its own.
Life(s) == IsNew(s) \/ IsWaiting(s) \/ IsThrough(s)

\* Every event has its entry's owner.
Owned == \A i \in DOMAIN observed : observed[i].owner \in Segs

Lives == Owned /\ \A s \in Segs : Alone(s) => Life(s)

IInv == TypeOK /\ Pools /\ Jobs /\ Entries /\ Lives /\ PendingIsWorkedOn

-----------------------------------------------------------------------------
(* Lemmas about segments and steps *)

LEMMA SegFacts ==
    /\ \A s \in Segs : KeyOf[s] \in Keys /\ FilesOf[s] \subseteq Files
    /\ \A s \in Segs : \A f \in FilesOf[s] : SegOf(f) = s /\ FileKey(f) = KeyOf[s]
<1>1. ASSUME NEW s \in Segs PROVE KeyOf[s] \in Keys /\ FilesOf[s] \subseteq Files
  BY SenseAssumption
<1>2. ASSUME NEW s \in Segs, NEW f \in FilesOf[s] PROVE SegOf(f) = s
  <2>1. SegOf(f) \in Segs /\ f \in FilesOf[SegOf(f)]
    BY <1>2 DEF SegOf
  <2>2. SegOf(f) # s => FilesOf[SegOf(f)] \cap FilesOf[s] = {}
    BY <2>1, SenseAssumption
  <2> QED BY <1>2, <2>1, <2>2
<1> QED BY <1>1, <1>2 DEF FileKey

LEMMA AppendFacts ==
    ASSUME NEW S, NEW s \in Seq(S), NEW x \in S
    PROVE  /\ Append(s, x) \in Seq(S) /\ Len(s) \in Nat
           /\ DOMAIN s = 1 .. Len(s) /\ DOMAIN Append(s, x) = 1 .. Len(s) + 1
           /\ \A i \in 1 .. Len(s) : Append(s, x)[i] = s[i]
           /\ Append(s, x)[Len(s) + 1] = x
OBVIOUS

LEMMA TailFacts ==
    ASSUME NEW S, NEW s \in Seq(S), s # <<>>
    PROVE  /\ Head(s) \in S /\ Head(s) = s[1] /\ 1 \in DOMAIN s
           /\ Tail(s) \in Seq(S) /\ Len(s) \in Nat
           /\ DOMAIN s = 1 .. Len(s) /\ DOMAIN Tail(s) = 1 .. Len(s) - 1
           /\ \A i \in DOMAIN Tail(s) : i + 1 \in DOMAIN s /\ Tail(s)[i] = s[i + 1]
OBVIOUS

\* A worker reports a file and looks at its segment.
Reports(f, bad, j) ==
    /\ job[f] \in {"taken", "retrying", "running", "killed"}
    /\ CheckObserved(f, bad)
    /\ job' = [job EXCEPT ![f] = j]
    /\ failed' = IF bad THEN failed \cup {f} ELSE failed
    /\ UNCHANGED <<announced, vanished, listener, pool, cpu>>
    /\ UNCHANGED stopping

\* A step that only moves jobs on.
Moves ==
    /\ UNCHANGED <<announced, listener, failed>> /\ UNCHANGED table
    /\ vanished \subseteq vanished'
    /\ phase # "up" => phase' # "up"
    /\ \A f \in Files :
          /\ job'[f] = "none" <=> job[f] = "none"
          /\ job[f] \in AtWork => job'[f] \in AtWork \/ phase' # "up"
          /\ Through(f) => Through(f)'

LEMMA ReportsFacts ==
    ASSUME NEW f \in Files, SpawnFails(f) \/ FinishKilled(f) \/ \E bad \in BOOLEAN : Finish(f, bad)
    PROVE  \E bad \in BOOLEAN, j \in {"reported", "done"} : Reports(f, bad, j)
<1>1. CASE SpawnFails(f)
  <2>1. Reports(f, TRUE, "done")
    BY <1>1 DEF SpawnFails, MaySpawn, Reports
  <2> QED BY <2>1
<1>2. CASE FinishKilled(f)
  <2>1. Reports(f, TRUE, "reported")
    BY <1>2 DEF FinishKilled, Reports
  <2> QED BY <2>1
<1>3. ASSUME NEW bad \in BOOLEAN, Finish(f, bad)
      PROVE  Reports(f, bad, "reported")
  BY <1>3 DEF Finish, Reports
<1> QED BY <1>1, <1>2, <1>3

LEMMA TakeFacts ==
    ASSUME TypeOK, Pools, NEW h \in Handlers, Take(h)
    PROVE  /\ pool[h] \in Seq(Files) /\ pool[h] # <<>>
           /\ pool[h][1] \in Files /\ job[pool[h][1]] = "queued" /\ 1 \in DOMAIN pool[h]
           /\ job' = [job EXCEPT ![pool[h][1]] = "taken"]
           /\ pool' = [pool EXCEPT ![h] = Tail(pool[h])]
<1>1. pool[h] \in Seq(Files) /\ pool[h] # <<>>
  BY DEF Take, TypeOK
<1>2. Head(pool[h]) = pool[h][1] /\ 1 \in DOMAIN pool[h] /\ pool[h][1] \in Files
  BY <1>1, TailFacts
<1> QED BY <1>1, <1>2 DEF Take, Pools

LEMMA MovesFacts ==
    ASSUME TypeOK, Pools,
           \/ \E f \in Files : \/ Vanish(f) \/ Abandon(f) \/ Spawn(f) \/ Track(f)
                               \/ Leave(f) \/ Retry(f)
           \/ \E h \in Handlers : Take(h)
           \/ BeginStop \/ Stop \/ UNCHANGED vars
    PROVE  Moves
<1> USE DEF Moves, Through, AtWork
<1>0. job \in [Files -> JobStates]
  BY DEF TypeOK
<1>1. ASSUME NEW f \in Files, Vanish(f) PROVE Moves
  BY <1>1 DEF Vanish, table, stopping
<1>2. ASSUME NEW f \in Files, Abandon(f) PROVE Moves
  BY <1>0, <1>2 DEF Abandon, table, stopping
<1>3. ASSUME NEW f \in Files, Spawn(f) PROVE Moves
  BY <1>0, <1>3 DEF Spawn, MaySpawn, table, stopping
<1>4. ASSUME NEW f \in Files, Track(f) PROVE Moves
  BY <1>0, <1>4 DEF Track, table, stopping
<1>5. ASSUME NEW f \in Files, Leave(f) PROVE Moves
  BY <1>0, <1>5 DEF Leave, table, stopping
<1>6. ASSUME NEW f \in Files, Retry(f) PROVE Moves
  BY <1>0, <1>6 DEF Retry, table, stopping
<1>7. ASSUME NEW h \in Handlers, Take(h) PROVE Moves
  <2>1. /\ pool[h][1] \in Files /\ job[pool[h][1]] = "queued"
        /\ job' = [job EXCEPT ![pool[h][1]] = "taken"]
    BY <1>7, TakeFacts
  <2>2. /\ UNCHANGED <<announced, vanished, listener, failed>> /\ UNCHANGED table
        /\ UNCHANGED stopping
    BY <1>7 DEF Take
  <2> QED BY <1>0, <2>1, <2>2 DEF table, stopping
<1>8. CASE BeginStop \/ StopBus \/ Snapshot \/ StopEndsPools \/ UNCHANGED vars
  BY <1>8 DEF BeginStop, StopBus, Snapshot, StopEndsPools, table, vars
<1>9. CASE CancelJobs
  BY <1>0, <1>9 DEF CancelJobs, table
<1>10. ASSUME NEW f \in Files, Terminate(f) PROVE Moves
  BY <1>0, <1>10 DEF Terminate, table
<1> HIDE DEF Moves, Through, AtWork
<1> QED BY <1>1, <1>2, <1>3, <1>4, <1>5, <1>6, <1>7, <1>8, <1>9, <1>10 DEF Stop

\* Every step is one of six.
LEMMA StepFacts ==
    ASSUME TypeOK, Pools, [Next]_vars
    PROVE  \/ \E s \in Segs : Receive(s)
           \/ PreRegister
           \/ \E f \in Files : HandleFile(f)
           \/ CloseMessage
           \/ \E f \in Files, bad \in BOOLEAN, j \in {"reported", "done"} :
                 Reports(f, bad, j)
           \/ Moves
BY ReportsFacts, MovesFacts DEF Next, Listener, Worker, Ends

-----------------------------------------------------------------------------
(* Type correctness *)

LEMMA TypeInit == Init => TypeOK
BY SenseAssumption DEF Init, TypeOK, JobStates, Phases

TableOK ==
    /\ pending \in [Keys -> (SUBSET Files) \cup {None}]
    /\ owner \in [Keys -> Segs \cup {None}]
    /\ stream \in [Keys -> Segs \cup {None}]
    /\ errors \in [Keys -> SUBSET Files]
    /\ observed \in Seq(Event)
    /\ marked \subseteq Segs /\ untouched \subseteq Segs

LEMMA EmitType ==
    ASSUME TypeOK, Entries, NEW k \in Keys, NEW errs \in SUBSET Files,
           pending[k] # None, EmitObserved(k, errs)
    PROVE  TableOK'
<1>1. owner[k] \in Segs
  BY DEF Entries
<1>2. [key |-> k, owner |-> owner[k], stream |-> stream[k], errors |-> errs] \in Event
  BY <1>1 DEF Event, TypeOK
<1>3. observed' \in Seq(Event)
  <2>1. observed \in Seq(Event)
    BY DEF TypeOK
  <2>2. observed' = observed \/ observed' = Append(observed,
            [key |-> k, owner |-> owner[k], stream |-> stream[k], errors |-> errs])
    BY DEF EmitObserved
  <2> QED BY <1>2, <2>1, <2>2
<1>4. marked' \subseteq Segs /\ untouched' \subseteq Segs
  BY <1>1 DEF EmitObserved, Touch, TypeOK
<1>5. /\ pending' \in [Keys -> (SUBSET Files) \cup {None}]
      /\ owner' \in [Keys -> Segs \cup {None}]
      /\ stream' \in [Keys -> Segs \cup {None}]
      /\ errors' \in [Keys -> SUBSET Files]
  BY DEF EmitObserved, TypeOK
<1> QED BY <1>3, <1>4, <1>5 DEF TableOK

\* A file with a job belongs to a segment, and its entry is that segment's.
LEMMA JobFacts ==
    ASSUME Jobs, NEW f \in Files, job[f] # "none"
    PROVE  \E s \in Segs : /\ f \in FilesOf[s] /\ f \in Matched(s) /\ s \in announced
                           /\ SegOf(f) = s /\ FileKey(f) = KeyOf[s] /\ KeyOf[s] \in Keys
<1>1. PICK s \in Segs : f \in FilesOf[s] /\ HandlerOf[f] # None
  BY DEF Jobs
<1>2. s \in announced
  BY <1>1 DEF Jobs
<1> QED BY <1>1, <1>2, SegFacts DEF Matched

LEMMA CheckType ==
    ASSUME TypeOK, Entries, Jobs, NEW f \in Files, NEW bad \in BOOLEAN,
           job[f] # "none", CheckObserved(f, bad)
    PROVE  TableOK'
<1> DEFINE k == FileKey(f)
           errs == errors[k] \cup (IF bad THEN {f} ELSE {})
<1>1. k \in Keys
  BY JobFacts
<1>2. errs \in SUBSET Files
  BY <1>1 DEF TypeOK
<1>3. CASE UNCHANGED table
  BY <1>3 DEF TableOK, TypeOK, table
<1>4. CASE pending[k] # None /\ EmitObserved(k, errs)
  <2> HIDE DEF k, errs
  <2> QED BY <1>1, <1>2, <1>4, EmitType
<1>5. CASE /\ pending[k] # None
           /\ pending' = [pending EXCEPT ![k] = @ \ {f}]
           /\ errors'  = [errors EXCEPT ![k] = errs]
           /\ UNCHANGED <<owner, stream, observed, marked, untouched>>
  <2> HIDE DEF k, errs
  <2>1. pending[k] \in SUBSET Files
    BY <1>1, <1>5 DEF TypeOK
  <2> QED BY <1>1, <1>2, <1>5, <2>1 DEF TableOK, TypeOK
<1> QED BY <1>3, <1>4, <1>5 DEF CheckObserved

LEMMA TypeStep == TypeOK /\ Pools /\ Jobs /\ Entries /\ [Next]_vars => TypeOK'
<1> SUFFICES ASSUME TypeOK, Pools, Jobs, Entries, [Next]_vars PROVE TypeOK'
  OBVIOUS
<1>0. /\ listener # None => listener \in Message
      /\ job \in [Files -> JobStates] /\ pool \in [Handlers -> Seq(Files)]
  BY DEF TypeOK
<1>1. TableOK /\ (UNCHANGED table => TableOK')
  BY DEF TypeOK, TableOK, table
<1>2. ASSUME TableOK', announced' \subseteq Segs, vanished' \subseteq Files,
             listener' \in Message \cup {None}, job' \in [Files -> JobStates],
             pool' \in [Handlers -> Seq(Files)], cpu' \subseteq Files,
             phase' \in Phases, doomed' \subseteq Files, failed' \subseteq Files
      PROVE  TypeOK'
  BY <1>2 DEF TypeOK, TableOK
<1>3. ASSUME NEW s \in Segs, Receive(s) PROVE TypeOK'
  <2>1. listener' \in Message
    BY <1>3, SegFacts DEF Receive, Message, Steps
  <2>2. stream' \in [Keys -> Segs \cup {None}]
    BY <1>3, SegFacts DEF Receive, TypeOK
  <2> QED BY <1>3, <2>1, <2>2 DEF Receive, TypeOK, stopping
<1>4. CASE PreRegister
  <2>1. listener \in Message /\ listener' = [listener EXCEPT !.step = "files"]
    BY <1>0, <1>4 DEF PreRegister
  <2>2. listener' \in Message /\ listener.seg \in Segs
    BY <2>1 DEF Message, Steps
  <2>3. KeyOf[listener.seg] \in Keys /\ Matched(listener.seg) \subseteq Files
    BY <2>2, SegFacts DEF Matched
  <2>4. /\ pending' \in [Keys -> (SUBSET Files) \cup {None}]
        /\ owner' \in [Keys -> Segs \cup {None}]
    <3> DEFINE k == KeyOf[listener.seg]
               p == (IF pending[k] = None THEN {} ELSE pending[k]) \cup Matched(listener.seg)
    <3>1. p \in SUBSET Files
      BY <2>3 DEF TypeOK
    <3>2. pending' = [pending EXCEPT ![k] = p]
      BY <1>4 DEF PreRegister
    <3>3. owner' = [owner EXCEPT ![k] = IF pending[k] = None THEN listener.seg ELSE @]
      BY <1>4 DEF PreRegister
    <3> HIDE DEF p, k
    <3> QED BY <2>2, <3>1, <3>2, <3>3 DEF TypeOK
  <2> QED BY <1>4, <2>2, <2>4 DEF PreRegister, TypeOK, stopping
<1>5. ASSUME NEW f \in Files, HandleFile(f) PROVE TypeOK'
  <2>1. listener \in Message /\ listener' = [listener EXCEPT !.todo = @ \ {f}]
    BY <1>0, <1>5 DEF HandleFile
  <2>2. listener' \in Message
    BY <2>1 DEF Message
  <2>3. PICK s \in Segs : /\ f \in FilesOf[s] /\ SegOf(f) = s /\ FileKey(f) = KeyOf[s]
                          /\ KeyOf[s] \in Keys
    <3>1. listener.seg \in Segs /\ f \in FilesOf[listener.seg]
      BY <1>5, <2>1 DEF HandleFile, Jobs, Message
    <3> QED BY <3>1, SegFacts
  <2>4. /\ pending' \in [Keys -> (SUBSET Files) \cup {None}]
        /\ owner' \in [Keys -> Segs \cup {None}]
        /\ job' \in [Files -> JobStates] /\ pool' \in [Handlers -> Seq(Files)]
    <3>1. CASE UNCHANGED <<job, pool, pending, owner>>
      BY <3>1 DEF TypeOK
    <3>2. CASE /\ HandlerOf[f] # None
               /\ job' = [job EXCEPT ![f] = "queued"]
               /\ pool' = [pool EXCEPT ![HandlerOf[f]] = Append(@, f)]
               /\ pending' = [pending EXCEPT ![KeyOf[s]] =
                     (IF @ = None THEN {} ELSE @) \cup {f}]
               /\ owner' = [owner EXCEPT ![KeyOf[s]] =
                     IF pending[KeyOf[s]] = None THEN s ELSE @]
      <4>1. HandlerOf[f] \in Handlers
        BY <3>2, SenseAssumption
      <4>2. job' \in [Files -> JobStates] /\ pool' \in [Handlers -> Seq(Files)]
        <5>1. "queued" \in JobStates
          BY DEF JobStates
        <5>2. Append(pool[HandlerOf[f]], f) \in Seq(Files)
          BY <1>0, <4>1
        <5> QED BY <1>0, <3>2, <4>1, <5>1, <5>2
      <4>3. pending' \in [Keys -> (SUBSET Files) \cup {None}]
        BY <2>3, <3>2 DEF TypeOK
      <4>4. owner' \in [Keys -> Segs \cup {None}]
        BY <2>3, <3>2 DEF TypeOK
      <4> QED BY <4>2, <4>3, <4>4
    <3> QED BY <1>5, <2>3, <3>1, <3>2 DEF HandleFile
  <2> QED BY <1>5, <2>2, <2>4 DEF HandleFile, TypeOK, stopping
<1>6. CASE CloseMessage
  <2>1. listener.seg \in Segs
    BY <1>0, <1>6 DEF CloseMessage, Message
  <2>2. TableOK'
    <3>1. CASE UNCHANGED table
      BY <1>1, <3>1
    <3>2. CASE /\ pending[KeyOf[listener.seg]] = {}
               /\ EmitObserved(KeyOf[listener.seg], errors[KeyOf[listener.seg]])
      <4>1. KeyOf[listener.seg] \in Keys /\ pending[KeyOf[listener.seg]] # None
        BY <2>1, <3>2, SegFacts, SenseAssumption
      <4>2. errors[KeyOf[listener.seg]] \in SUBSET Files
        BY <4>1 DEF TypeOK
      <4> QED BY <3>2, <4>1, <4>2, EmitType
    <3> QED BY <1>6, <3>1, <3>2 DEF CloseMessage
  <2> QED BY <1>2, <1>6, <2>2 DEF CloseMessage, TypeOK, stopping
<1>7. ASSUME NEW f \in Files, NEW bad \in BOOLEAN, NEW j \in {"reported", "done"},
             Reports(f, bad, j)
      PROVE  TypeOK'
  <2>1. TableOK'
    BY <1>7, CheckType DEF Reports
  <2>2. job' \in [Files -> JobStates] /\ failed' \subseteq Files
    BY <1>7 DEF Reports, TypeOK, JobStates
  <2> QED BY <1>2, <1>7, <2>1, <2>2 DEF Reports, TypeOK, stopping
<1>8. ASSUME NEW f \in Files,
             Vanish(f) \/ Abandon(f) \/ Spawn(f) \/ Track(f) \/ Leave(f) \/ Retry(f)
      PROVE  TypeOK'
  <2>1. UNCHANGED table
    BY <1>8 DEF Vanish, Abandon, Spawn, Track, Leave, Retry
  <2>2. job' \in [Files -> JobStates]
    BY <1>0, <1>8 DEF Vanish, Abandon, Spawn, Track, Leave, Retry, JobStates
  <2>3. vanished' \subseteq Files /\ cpu' \subseteq Files
    BY <1>8 DEF Vanish, Abandon, Spawn, Track, Leave, Retry, TypeOK
  <2> QED
    BY <1>1, <1>2, <1>8, <2>1, <2>2, <2>3
    DEF Vanish, Abandon, Spawn, Track, Leave, Retry, TypeOK, stopping
<1>9. ASSUME NEW h \in Handlers, Take(h) PROVE TypeOK'
  <2>1. /\ pool[h] \in Seq(Files) /\ pool[h] # <<>> /\ pool[h][1] \in Files
        /\ job' = [job EXCEPT ![pool[h][1]] = "taken"]
        /\ pool' = [pool EXCEPT ![h] = Tail(pool[h])]
    BY <1>9, TakeFacts
  <2>2. job' \in [Files -> JobStates] /\ pool' \in [Handlers -> Seq(Files)]
    BY <1>0, <2>1 DEF JobStates
  <2> QED BY <1>1, <1>2, <1>9, <2>2 DEF Take, TypeOK, stopping
<1>10. CASE BeginStop \/ StopBus \/ StopEndsPools
  BY <1>1, <1>2, <1>10 DEF BeginStop, StopBus, StopEndsPools, TypeOK, Phases
<1>11. CASE CancelJobs
  <2>1. job' \in [Files -> JobStates] /\ pool' \in [Handlers -> Seq(Files)]
    BY <1>0, <1>11 DEF CancelJobs, JobStates
  <2> QED BY <1>1, <1>2, <1>11, <2>1 DEF CancelJobs, TypeOK, Phases
<1>12. CASE Snapshot
  BY <1>1, <1>2, <1>12 DEF Snapshot, TypeOK, Phases
<1>13. ASSUME NEW f \in Files, Terminate(f) PROVE TypeOK'
  <2>1. job' \in [Files -> JobStates]
    BY <1>0, <1>13 DEF Terminate, JobStates
  <2> QED BY <1>1, <1>2, <1>13, <2>1 DEF Terminate, TypeOK
<1>14. CASE UNCHANGED vars
  BY <1>14 DEF vars, TypeOK
<1> QED
  BY <1>3, <1>4, <1>5, <1>6, <1>7, <1>8, <1>9, <1>10, <1>11, <1>12, <1>13, <1>14,
     ReportsFacts DEF Next, Listener, Worker, Ends, Stop

-----------------------------------------------------------------------------
(* Queues, jobs and entries *)

LEMMA PoolsStep == TypeOK /\ Pools /\ Jobs /\ [Next]_vars => Pools'
<1> SUFFICES ASSUME TypeOK, Pools, Jobs, [Next]_vars PROVE Pools'
  OBVIOUS
<1>0. job \in [Files -> JobStates] /\ pool \in [Handlers -> Seq(Files)]
  BY DEF TypeOK
<1>1. ASSUME UNCHANGED pool,
             \A f \in Files : job[f] = "queued" => job'[f] = "queued"
      PROVE  Pools'
  <2>1. \A h \in Handlers : \A i \in DOMAIN pool[h] : pool[h][i] \in Files
    BY <1>0
  <2> QED BY <1>1, <2>1 DEF Pools
<1>2. ASSUME NEW f \in Files, HandleFile(f) PROVE Pools'
  <2>1. CASE UNCHANGED <<job, pool>>
    BY <1>1, <2>1
  <2>2. CASE /\ HandlerOf[f] # None
             /\ job' = [job EXCEPT ![f] = "queued"]
             /\ pool' = [pool EXCEPT ![HandlerOf[f]] = Append(@, f)]
    <3> DEFINE h == HandlerOf[f]
    <3>1. h \in Handlers
      BY <2>2, SenseAssumption
    <3>2. job[f] = "none"
      BY <1>2 DEF HandleFile, Jobs
    <3>3. pool[h] \in Seq(Files) /\ pool'[h] = Append(pool[h], f)
          /\ \A g \in Handlers : g # h => pool'[g] = pool[g]
      BY <1>0, <2>2, <3>1
    <3> HIDE DEF h
    <3>4. /\ DOMAIN pool[h] = 1 .. Len(pool[h]) /\ Len(pool[h]) \in Nat
          /\ DOMAIN pool'[h] = 1 .. Len(pool[h]) + 1
          /\ \A i \in 1 .. Len(pool[h]) : pool'[h][i] = pool[h][i]
          /\ pool'[h][Len(pool[h]) + 1] = f
      BY <3>3, AppendFacts
    <3>5. \A i \in DOMAIN pool'[h] :
             \/ i \in DOMAIN pool[h] /\ pool'[h][i] = pool[h][i]
             \/ i = Len(pool[h]) + 1 /\ pool'[h][i] = f
      BY <3>4
    <3>6. ASSUME NEW g \in Handlers, NEW i \in DOMAIN pool[g]
          PROVE  /\ pool[g][i] \in Files /\ pool[g][i] # f
                 /\ HandlerOf[pool[g][i]] = g /\ job'[pool[g][i]] = "queued"
      <4>1. pool[g][i] \in Files /\ HandlerOf[pool[g][i]] = g /\ job[pool[g][i]] = "queued"
        BY <1>0, <3>6 DEF Pools
      <4> QED BY <1>0, <2>2, <3>2, <4>1
    <3>7. job'[f] = "queued" /\ HandlerOf[f] = h
      BY <1>0, <2>2 DEF h
    <3>8. ASSUME NEW i \in DOMAIN pool'[h]
          PROVE  HandlerOf[pool'[h][i]] = h /\ job'[pool'[h][i]] = "queued"
      BY <3>1, <3>5, <3>6, <3>7
    <3>9. ASSUME NEW i \in DOMAIN pool'[h], NEW j \in DOMAIN pool'[h],
                 pool'[h][i] = pool'[h][j]
          PROVE  i = j
      BY <3>1, <3>5, <3>6, <3>9 DEF Pools
    <3>10. ASSUME NEW g \in Handlers, g # h
           PROVE  /\ \A i \in DOMAIN pool'[g] :
                        HandlerOf[pool'[g][i]] = g /\ job'[pool'[g][i]] = "queued"
                  /\ \A i, j \in DOMAIN pool'[g] : pool'[g][i] = pool'[g][j] => i = j
      <4>1. pool'[g] = pool[g]
        BY <3>3, <3>10
      <4> QED BY <3>6, <4>1 DEF Pools
    <3> QED BY <3>8, <3>9, <3>10 DEF Pools
  <2> QED BY <1>2, <2>1, <2>2 DEF HandleFile
<1>3. ASSUME NEW h \in Handlers, Take(h) PROVE Pools'
  <2>1. /\ pool[h] \in Seq(Files) /\ pool[h] # <<>>
        /\ pool[h][1] \in Files /\ 1 \in DOMAIN pool[h]
        /\ job' = [job EXCEPT ![pool[h][1]] = "taken"]
        /\ pool' = [pool EXCEPT ![h] = Tail(pool[h])]
    BY <1>3, TakeFacts
  <2>2. /\ pool'[h] = Tail(pool[h])
        /\ \A g \in Handlers : g # h => pool'[g] = pool[g]
    BY <1>0, <2>1
  <2>3. \A i \in DOMAIN pool'[h] :
           i \in Nat /\ i + 1 \in DOMAIN pool[h] /\ i + 1 # 1 /\ pool'[h][i] = pool[h][i + 1]
    <3>1. /\ DOMAIN Tail(pool[h]) = 1 .. Len(pool[h]) - 1 /\ Len(pool[h]) \in Nat
          /\ \A i \in DOMAIN Tail(pool[h]) :
                i + 1 \in DOMAIN pool[h] /\ Tail(pool[h])[i] = pool[h][i + 1]
      BY <2>1, TailFacts
    <3> QED BY <2>2, <3>1
  <2>4. ASSUME NEW g \in Handlers, NEW i \in DOMAIN pool[g], pool[g][i] # pool[h][1]
        PROVE  HandlerOf[pool[g][i]] = g /\ job'[pool[g][i]] = "queued"
    <3>1. HandlerOf[pool[g][i]] = g /\ job[pool[g][i]] = "queued" /\ pool[g][i] \in Files
      BY <1>0 DEF Pools
    <3> QED BY <1>0, <2>1, <2>4, <3>1
  <2>5. ASSUME NEW i \in DOMAIN pool'[h]
        PROVE  HandlerOf[pool'[h][i]] = h /\ job'[pool'[h][i]] = "queued"
    <3>1. pool[h][i + 1] # pool[h][1]
      BY <2>1, <2>3 DEF Pools
    <3> QED BY <2>3, <2>4, <3>1
  <2>6. ASSUME NEW i \in DOMAIN pool'[h], NEW j \in DOMAIN pool'[h],
               pool'[h][i] = pool'[h][j]
        PROVE  i = j
    <3>1. i + 1 = j + 1
      BY <2>3, <2>6 DEF Pools
    <3> QED BY <2>3, <3>1
  <2>7. ASSUME NEW g \in Handlers, g # h
        PROVE  /\ \A i \in DOMAIN pool'[g] :
                     HandlerOf[pool'[g][i]] = g /\ job'[pool'[g][i]] = "queued"
               /\ \A i, j \in DOMAIN pool'[g] : pool'[g][i] = pool'[g][j] => i = j
    <3>1. pool'[g] = pool[g]
      BY <2>2, <2>7
    <3>2. HandlerOf[pool[h][1]] = h
      BY <2>1 DEF Pools
    <3>3. \A i \in DOMAIN pool[g] : pool[g][i] # pool[h][1]
      BY <2>7, <3>2 DEF Pools
    <3> QED BY <2>4, <3>1, <3>3 DEF Pools
  <2> QED BY <2>5, <2>6, <2>7 DEF Pools
<1>4. CASE CancelJobs
  <2>1. \A h \in Handlers : pool'[h] = <<>>
    BY <1>4 DEF CancelJobs
  <2> QED BY <2>1 DEF Pools
<1>5. ASSUME NEW s \in Segs, Receive(s) PROVE Pools'
  BY <1>1, <1>5 DEF Receive
<1>6. CASE PreRegister \/ CloseMessage \/ BeginStop \/ StopBus \/ Snapshot \/ StopEndsPools
           \/ UNCHANGED vars
  BY <1>1, <1>6 DEF PreRegister, CloseMessage, BeginStop, StopBus, Snapshot,
     StopEndsPools, vars
<1>7. ASSUME NEW f \in Files, NEW bad \in BOOLEAN, NEW j \in {"reported", "done"},
             Reports(f, bad, j)
      PROVE  Pools'
  BY <1>0, <1>1, <1>7 DEF Reports
<1>8. ASSUME NEW f \in Files, Vanish(f) \/ Abandon(f) \/ Spawn(f) \/ Track(f)
                              \/ Leave(f) \/ Retry(f) \/ Terminate(f)
      PROVE  Pools'
  <2>1. UNCHANGED pool
    BY <1>8 DEF Vanish, Abandon, Spawn, Track, Leave, Retry, Terminate
  <2>2. \A g \in Files : job[g] = "queued" => job'[g] = "queued"
    BY <1>0, <1>8 DEF Vanish, Abandon, Spawn, MaySpawn, Track, Leave, Retry, Terminate
  <2> QED BY <1>1, <2>1, <2>2
<1> QED
  BY <1>2, <1>3, <1>4, <1>5, <1>6, <1>7, <1>8, ReportsFacts
  DEF Next, Listener, Worker, Ends, Stop

LEMMA JobsStep == TypeOK /\ Pools /\ Jobs /\ [Next]_vars => Jobs'
<1> SUFFICES ASSUME TypeOK, Pools, Jobs, [Next]_vars PROVE Jobs'
  OBVIOUS
<1>0. /\ job \in [Files -> JobStates]
      /\ \A s \in Segs : \A f \in FilesOf[s] : f \in Files
  BY SegFacts DEF TypeOK
<1>1. ASSUME NEW s \in Segs, Receive(s) PROVE Jobs'
  <2>1. /\ announced' = announced \cup {s} /\ UNCHANGED job /\ s \notin announced
        /\ listener' = [seg |-> s, step |-> "register", todo |-> FilesOf[s]]
    BY <1>1 DEF Receive
  <2>2. listener'.seg = s /\ listener'.step = "register" /\ listener'.todo = FilesOf[s]
    BY <2>1
  <2> QED BY <2>1, <2>2 DEF Jobs
<1>2. CASE PreRegister
  <2>1. /\ UNCHANGED <<announced, job>> /\ listener \in Message
        /\ listener' = [listener EXCEPT !.step = "files"] /\ listener # None
    BY <1>2 DEF PreRegister, TypeOK
  <2>2. /\ listener'.seg = listener.seg /\ listener'.todo = listener.todo
        /\ listener'.step = "files"
    BY <2>1 DEF Message
  <2> QED BY <2>1, <2>2 DEF Jobs
<1>3. ASSUME NEW f \in Files, HandleFile(f) PROVE Jobs'
  <2>1. /\ UNCHANGED announced /\ listener \in Message /\ listener # None
        /\ listener' = [listener EXCEPT !.todo = @ \ {f}]
        /\ listener.step = "files" /\ f \in listener.todo
    BY <1>3 DEF HandleFile, TypeOK
  <2>2. /\ listener'.seg = listener.seg /\ listener'.todo = listener.todo \ {f}
        /\ listener'.step = "files" /\ listener.seg \in Segs
    BY <2>1 DEF Message
  <2>3. f \in FilesOf[listener.seg] /\ listener.seg \in announced
    BY <2>1 DEF Jobs
  <2>4. UNCHANGED job \/ (HandlerOf[f] # None /\ job' = [job EXCEPT ![f] = "queued"])
    BY <1>3 DEF HandleFile
  <2>5. \A s \in Segs \ announced : f \notin FilesOf[s]
    BY <2>2, <2>3, SegFacts
  <2>6. \A s \in Segs \ announced' : \A g \in FilesOf[s] : job'[g] = "none"
    BY <1>0, <2>1, <2>4, <2>5 DEF Jobs
  <2>7. \A g \in Files : job'[g] # "none" =>
           HandlerOf[g] # None /\ \E s \in Segs : g \in FilesOf[s]
    BY <1>0, <2>2, <2>3, <2>4 DEF Jobs
  <2>8. \A g \in listener'.todo : job'[g] = "none"
    BY <1>0, <2>1, <2>2, <2>4 DEF Jobs
  <2>9. listener'.seg \in announced' /\ listener'.todo \subseteq FilesOf[listener'.seg]
    BY <2>1, <2>2 DEF Jobs
  <2> QED BY <2>2, <2>6, <2>7, <2>8, <2>9 DEF Jobs
<1>4. CASE CloseMessage
  BY <1>4 DEF CloseMessage, Jobs
<1>5. ASSUME UNCHANGED <<announced, listener>>,
             \A f \in Files : job'[f] = "none" <=> job[f] = "none"
      PROVE  Jobs'
  <2>1. listener # None => listener \in Message /\ listener.seg \in Segs
    BY DEF TypeOK, Message
  <2>2. listener # None => \A f \in listener.todo : job'[f] = "none"
    BY <1>0, <1>5, <2>1 DEF Jobs
  <2>3. \A s \in Segs \ announced : \A f \in FilesOf[s] : job'[f] = "none"
    BY <1>0, <1>5 DEF Jobs
  <2> QED BY <1>5, <2>2, <2>3 DEF Jobs
<1>6. ASSUME NEW f \in Files, NEW bad \in BOOLEAN, NEW j \in {"reported", "done"},
             Reports(f, bad, j)
      PROVE  Jobs'
  BY <1>0, <1>5, <1>6 DEF Reports
<1>7. CASE Moves
  BY <1>5, <1>7 DEF Moves
<1> QED BY <1>1, <1>2, <1>3, <1>4, <1>6, <1>7, StepFacts

\* A worker's look at the entry of its file: nothing, one file less, or the end.
LEMMA CheckFacts ==
    ASSUME TypeOK, Jobs, NEW f \in Files, NEW bad \in BOOLEAN,
           job[f] # "none", CheckObserved(f, bad)
    PROVE  \E s \in Segs : LET k == KeyOf[s]
                               errs == errors[k] \cup (IF bad THEN {f} ELSE {}) IN
             /\ f \in FilesOf[s] /\ f \in Matched(s) /\ s \in announced /\ k \in Keys
             /\ \/ pending[k] = None /\ UNCHANGED table
                \/ /\ pending[k] # None /\ pending[k] \subseteq {f}
                   /\ EmitObserved(k, errs)
                \/ /\ pending[k] # None /\ ~ (pending[k] \subseteq {f})
                   /\ pending' = [pending EXCEPT ![k] = @ \ {f}]
                   /\ errors' = [errors EXCEPT ![k] = errs]
                   /\ UNCHANGED <<owner, stream, observed, marked, untouched>>
<1>1. PICK s \in Segs : /\ f \in FilesOf[s] /\ f \in Matched(s) /\ s \in announced
                        /\ FileKey(f) = KeyOf[s] /\ KeyOf[s] \in Keys
  BY JobFacts
<1> QED BY <1>1 DEF CheckObserved

\* The listener at one file: its entry is there already.
LEMMA HandleFacts ==
    ASSUME TypeOK, Jobs, Entries, NEW f \in Files, HandleFile(f)
    PROVE  /\ UNCHANGED table /\ UNCHANGED <<announced, vanished, failed>>
           /\ UNCHANGED stopping
           /\ listener # None /\ listener' # None
           /\ listener.step = "files" /\ listener'.step = "files"
           /\ listener.seg \in Segs /\ listener'.seg = listener.seg
           /\ f \in listener.todo /\ listener'.todo = listener.todo \ {f}
           /\ f \in FilesOf[listener.seg] /\ job[f] = "none"
           /\ \/ /\ UNCHANGED job
                 /\ f \in vanished \/ phase # "up" \/ HandlerOf[f] = None
              \/ HandlerOf[f] # None /\ job' = [job EXCEPT ![f] = "queued"]
<1>1. /\ listener \in Message /\ listener # None /\ listener.step = "files"
      /\ listener' = [listener EXCEPT !.todo = @ \ {f}] /\ f \in listener.todo
      /\ UNCHANGED <<announced, vanished, failed, stream, errors, observed, marked,
                   untouched>>
      /\ UNCHANGED stopping
  BY DEF HandleFile, TypeOK
<1>2. /\ listener'.step = "files" /\ listener.seg \in Segs /\ listener'.seg = listener.seg
      /\ listener'.todo = listener.todo \ {f} /\ listener' \in Message
  BY <1>1 DEF Message
<1>3. listener' # None
  BY <1>2, SenseAssumption DEF Message, Steps
<1>4. f \in FilesOf[listener.seg] /\ job[f] = "none"
  BY <1>1 DEF Jobs
<1>5. SegOf(f) = listener.seg /\ FileKey(f) = KeyOf[listener.seg]
      /\ KeyOf[listener.seg] \in Keys
  BY <1>2, <1>4, SegFacts
<1>6. CASE f \in vanished \/ phase # "up" \/ HandlerOf[f] = None \/ InHand(f)
  <2>1. ~ InHand(f)
    BY <1>4 DEF InHand
  <2>2. UNCHANGED <<job, pool, pending, owner>>
    BY <1>6 DEF HandleFile
  <2> QED BY <1>1, <1>2, <1>3, <1>4, <1>6, <2>1, <2>2 DEF table
<1>7. CASE ~ (f \in vanished \/ phase # "up" \/ HandlerOf[f] = None \/ InHand(f))
  <2>1. /\ job' = [job EXCEPT ![f] = "queued"]
        /\ pending' = [pending EXCEPT ![FileKey(f)] =
              (IF @ = None THEN {} ELSE @) \cup {f}]
        /\ owner' = [owner EXCEPT ![FileKey(f)] =
              IF pending[FileKey(f)] = None THEN SegOf(f) ELSE @]
    BY <1>7 DEF HandleFile
  <2>2. pending[FileKey(f)] # None /\ f \in pending[FileKey(f)]
    BY <1>1, <1>5, <1>7 DEF Entries
  <2>3. pending[FileKey(f)] \cup {f} = pending[FileKey(f)]
    BY <2>2
  <2>4. pending' = pending
    BY <2>1, <2>2, <2>3 DEF TypeOK
  <2>5. owner' = owner
    BY <2>1, <2>2 DEF TypeOK
  <2> QED BY <1>1, <1>2, <1>3, <1>4, <1>7, <2>1, <2>4, <2>5 DEF table
<1> QED BY <1>6, <1>7

\* The listener registers a segment's files.
LEMMA RegisterFacts ==
    ASSUME TypeOK, Jobs, PreRegister
    PROVE  \E s \in Segs : LET k == KeyOf[s] IN
             /\ listener # None /\ listener.step = "register" /\ listener.seg = s
             /\ listener.todo = FilesOf[s] /\ s \in announced /\ k \in Keys
             /\ listener' # None /\ listener'.step = "files" /\ listener'.seg = s
             /\ listener'.todo = FilesOf[s]
             /\ \A l \in Keys : l # k => pending'[l] = pending[l] /\ owner'[l] = owner[l]
             /\ pending[k] = None => pending'[k] = Matched(s) /\ owner'[k] = s
             /\ pending[k] # None =>
                   pending'[k] = pending[k] \cup Matched(s) /\ owner'[k] = owner[k]
             /\ pending'[k] # None
             /\ UNCHANGED <<stream, errors, observed, marked, untouched>>
             /\ UNCHANGED <<announced, vanished, job, failed>> /\ UNCHANGED stopping
<1>1. /\ listener \in Message /\ listener # None /\ listener.step = "register"
      /\ listener' = [listener EXCEPT !.step = "files"]
      /\ UNCHANGED <<stream, errors, observed, marked, untouched, announced, vanished, job, failed>>
      /\ UNCHANGED stopping
  BY DEF PreRegister, TypeOK
<1>2. PICK s \in Segs : s = listener.seg
  BY <1>1 DEF Message
<1>3. /\ listener'.step = "files" /\ listener'.seg = s /\ listener' \in Message
      /\ listener'.todo = listener.todo
  BY <1>1, <1>2 DEF Message, Steps
<1>4. listener' # None
  BY <1>3, SenseAssumption DEF Message, Steps
<1>5. listener.todo = FilesOf[s] /\ s \in announced
  BY <1>1, <1>2 DEF Jobs
<1>6. KeyOf[s] \in Keys /\ Matched(s) \subseteq Files
  BY SegFacts DEF Matched
<1>7. /\ pending' = [pending EXCEPT ![KeyOf[s]] =
            (IF @ = None THEN {} ELSE @) \cup Matched(s)]
      /\ owner' = [owner EXCEPT ![KeyOf[s]] = IF pending[KeyOf[s]] = None THEN s ELSE @]
  BY <1>2 DEF PreRegister
<1>8. \A l \in Keys : l # KeyOf[s] => pending'[l] = pending[l] /\ owner'[l] = owner[l]
  BY <1>7 DEF TypeOK
<1>9. /\ pending[KeyOf[s]] = None => pending'[KeyOf[s]] = Matched(s) /\ owner'[KeyOf[s]] = s
      /\ pending[KeyOf[s]] # None =>
            /\ pending'[KeyOf[s]] = pending[KeyOf[s]] \cup Matched(s)
            /\ owner'[KeyOf[s]] = owner[KeyOf[s]]
  BY <1>6, <1>7 DEF TypeOK
<1>10. pending'[KeyOf[s]] # None
  <2>1. pending'[KeyOf[s]] \in SUBSET Files
    BY <1>6, <1>9 DEF TypeOK
  <2> QED BY <2>1, SenseAssumption
<1> QED BY <1>1, <1>2, <1>3, <1>4, <1>5, <1>6, <1>8, <1>9, <1>10

\* The end of a message.
LEMMA CloseFacts ==
    ASSUME TypeOK, Jobs, CloseMessage
    PROVE  \E s \in Segs : LET k == KeyOf[s] IN
             /\ listener # None /\ listener.step = "files" /\ listener.seg = s
             /\ listener.todo = {} /\ s \in announced /\ k \in Keys
             /\ \/ pending[k] # {} /\ UNCHANGED table
                \/ pending[k] = {} /\ pending[k] # None /\ EmitObserved(k, errors[k])
             /\ listener' = None
             /\ UNCHANGED <<announced, vanished, job, failed>> /\ UNCHANGED stopping
<1>1. /\ listener \in Message /\ listener # None /\ listener.step = "files"
      /\ listener.todo = {} /\ listener' = None
      /\ UNCHANGED <<announced, vanished, job, failed>> /\ UNCHANGED stopping
  BY DEF CloseMessage, TypeOK
<1>2. PICK s \in Segs : s = listener.seg /\ s \in announced
  BY <1>1 DEF Message, Jobs
<1>3. KeyOf[s] \in Keys
  BY SegFacts
<1>4. {} # None
  BY SenseAssumption
<1> QED BY <1>1, <1>2, <1>3, <1>4 DEF CloseMessage

\* What EmitObserved leaves of the entries.
LEMMA EmitFacts ==
    ASSUME TypeOK, NEW k \in Keys, NEW errs, EmitObserved(k, errs)
    PROVE  /\ pending'[k] = None /\ owner'[k] = None /\ errors'[k] = {}
           /\ \A l \in Keys : l # k =>
                 /\ pending'[l] = pending[l] /\ owner'[l] = owner[l]
                 /\ stream'[l] = stream[l] /\ errors'[l] = errors[l]
           /\ Tried \subseteq Tried'
           /\ owner[k] \in Tried' \/ owner[k] \in Batch
<1>1. Touch({owner[k]} \ Batch)
  BY DEF EmitObserved
<1>2. Tried' = Tried \cup ({owner[k]} \ Batch)
  BY <1>1 DEF Touch, Tried
<1> QED BY <1>2 DEF EmitObserved, TypeOK

LEMMA EntriesStep == TypeOK /\ Pools /\ Jobs /\ Entries /\ [Next]_vars => Entries'
<1> SUFFICES ASSUME TypeOK, Pools, Jobs, Entries, [Next]_vars PROVE Entries'
  OBVIOUS
<1> DEFINE Entry(k) ==
      pending[k] # None =>
          /\ owner[k] \in Segs /\ KeyOf[owner[k]] = k
          /\ \A f \in pending[k] :
                HandlerOf[f] # None /\ \E s \in Segs : f \in FilesOf[s] /\ KeyOf[s] = k
<1>0. \A k \in Keys : Entry(k)
  BY DEF Entries
<1>1. ASSUME UNCHANGED <<pending, owner>>,
             \/ UNCHANGED listener
             \/ listener' = None \/ listener'.step # "files"
             \/ /\ listener # None /\ listener.step = "files"
                /\ listener'.seg = listener.seg /\ listener'.todo \subseteq listener.todo
      PROVE  Entries'
  BY <1>1 DEF Entries
<1>2. ASSUME NEW s \in Segs, Receive(s) PROVE Entries'
  <2>1. /\ UNCHANGED <<pending, owner>>
        /\ listener' = [seg |-> s, step |-> "register", todo |-> FilesOf[s]]
    BY <1>2 DEF Receive
  <2> QED BY <1>1, <2>1
<1>3. CASE PreRegister
  <2>1. PICK s \in Segs :
             /\ KeyOf[s] \in Keys
             /\ listener'.step = "files" /\ listener'.seg = s
             /\ listener'.todo = FilesOf[s]
             /\ \A l \in Keys :
                   l # KeyOf[s] => pending'[l] = pending[l] /\ owner'[l] = owner[l]
             /\ pending[KeyOf[s]] = None =>
                   pending'[KeyOf[s]] = Matched(s) /\ owner'[KeyOf[s]] = s
             /\ pending[KeyOf[s]] # None =>
                   /\ pending'[KeyOf[s]] = pending[KeyOf[s]] \cup Matched(s)
                   /\ owner'[KeyOf[s]] = owner[KeyOf[s]]
             /\ pending'[KeyOf[s]] # None
    BY <1>3, RegisterFacts
  <2>2. \A f \in Matched(s) : f \in FilesOf[s] /\ HandlerOf[f] # None
    BY DEF Matched
  <2>3. ASSUME NEW k \in Keys, k # KeyOf[s] PROVE Entry(k)'
    BY <1>0, <2>1, <2>3
  <2>4. Entry(KeyOf[s])'
    BY <1>0, <2>1, <2>2
  <2>5. \A f \in listener'.todo : HandlerOf[f] # None =>
           f \in pending'[KeyOf[s]]
    BY <2>1 DEF Matched
  <2> QED BY <2>1, <2>3, <2>4, <2>5 DEF Entries
<1>4. ASSUME NEW f \in Files, HandleFile(f) PROVE Entries'
  <2>1. /\ UNCHANGED <<pending, owner>> /\ listener # None /\ listener.step = "files"
        /\ listener'.seg = listener.seg /\ listener'.todo \subseteq listener.todo
    BY <1>4, HandleFacts DEF table
  <2> QED BY <1>1, <2>1
<1>5. CASE CloseMessage
  <2>1. PICK s \in Segs :
             /\ KeyOf[s] \in Keys /\ listener' = None
             /\ UNCHANGED table \/ EmitObserved(KeyOf[s], errors[KeyOf[s]])
    BY <1>5, CloseFacts
  <2>2. CASE UNCHANGED table
    BY <1>1, <2>1, <2>2 DEF table
  <2>3. CASE EmitObserved(KeyOf[s], errors[KeyOf[s]])
    <3>1. ASSUME NEW k \in Keys PROVE Entry(k)'
      <4>1. CASE k = KeyOf[s]
        BY <2>1, <2>3, <4>1, EmitFacts
      <4>2. CASE k # KeyOf[s]
        <5>1. pending'[k] = pending[k] /\ owner'[k] = owner[k]
          BY <2>1, <2>3, <4>2, EmitFacts
        <5> QED BY <1>0, <5>1
      <4> QED BY <4>1, <4>2
    <3> QED BY <2>1, <3>1 DEF Entries
  <2> QED BY <2>1, <2>2, <2>3
<1>6. ASSUME NEW f \in Files, NEW bad \in BOOLEAN, NEW j \in {"reported", "done"},
             Reports(f, bad, j)
      PROVE  Entries'
  <2>1. job[f] # "none" /\ CheckObserved(f, bad) /\ UNCHANGED listener
    BY <1>6 DEF Reports
  <2>2. PICK s \in Segs : LET k == KeyOf[s]
                              errs == errors[k] \cup (IF bad THEN {f} ELSE {}) IN
             /\ k \in Keys
             /\ \/ pending[k] = None /\ UNCHANGED table
                \/ /\ pending[k] # None /\ pending[k] \subseteq {f}
                   /\ EmitObserved(k, errs)
                \/ /\ pending[k] # None /\ ~ (pending[k] \subseteq {f})
                   /\ pending' = [pending EXCEPT ![k] = @ \ {f}]
                   /\ UNCHANGED owner
    BY <2>1, CheckFacts, SMTT(60)
  <2>3. CASE UNCHANGED table
    BY <1>1, <2>1, <2>3 DEF table
  <2>4. ASSUME NEW k, k = KeyOf[s], NEW errs, pending[k] \subseteq {f}, EmitObserved(k, errs)
        PROVE  Entries'
    <3>1. ASSUME NEW l \in Keys PROVE Entry(l)'
      <4>1. CASE l = k
        BY <2>2, <2>4, <4>1, EmitFacts
      <4>2. CASE l # k
        <5>1. pending'[l] = pending[l] /\ owner'[l] = owner[l]
          BY <2>2, <2>4, <4>2, EmitFacts
        <5> QED BY <1>0, <5>1
      <4> QED BY <4>1, <4>2
    <3>2. ASSUME listener # None, listener.step = "files",
                 NEW g \in listener.todo, HandlerOf[g] # None
          PROVE  /\ pending'[KeyOf[listener.seg]] # None
                 /\ g \in pending'[KeyOf[listener.seg]]
      <4>1. /\ pending[KeyOf[listener.seg]] # None
            /\ g \in pending[KeyOf[listener.seg]] /\ job[g] = "none"
        BY <3>2 DEF Entries, Jobs
      <4>2. KeyOf[listener.seg] # k /\ KeyOf[listener.seg] \in Keys
        BY <2>1, <2>4, <3>2, <4>1, SegFacts DEF TypeOK, Message
      <4> QED BY <2>2, <2>4, <4>1, <4>2, EmitFacts
    <3> QED BY <2>1, <3>1, <3>2 DEF Entries
  <2>5. CASE /\ pending[KeyOf[s]] # None /\ ~ (pending[KeyOf[s]] \subseteq {f})
             /\ pending' = [pending EXCEPT ![KeyOf[s]] = @ \ {f}]
             /\ UNCHANGED owner
    <3>1. /\ pending'[KeyOf[s]] = pending[KeyOf[s]] \ {f}
          /\ \A l \in Keys : l # KeyOf[s] => pending'[l] = pending[l]
      BY <2>2, <2>5 DEF TypeOK
    <3>2. ASSUME NEW l \in Keys PROVE Entry(l)'
      <4>1. CASE l = KeyOf[s]
        BY <1>0, <2>5, <3>1, <4>1
      <4>2. CASE l # KeyOf[s]
        BY <1>0, <2>5, <3>1, <4>2
      <4> QED BY <4>1, <4>2
    <3>3. pending[KeyOf[s]] \ {f} # None
      <4>1. pending[KeyOf[s]] \ {f} \in SUBSET Files
        BY <2>2, <2>5 DEF TypeOK
      <4> QED BY <4>1, SenseAssumption
    <3>4. ASSUME listener # None, listener.step = "files",
                 NEW g \in listener.todo, HandlerOf[g] # None
          PROVE  /\ pending'[KeyOf[listener.seg]] # None
                 /\ g \in pending'[KeyOf[listener.seg]]
      <4>1. /\ pending[KeyOf[listener.seg]] # None
            /\ g \in pending[KeyOf[listener.seg]] /\ job[g] = "none"
        BY <3>4 DEF Entries, Jobs
      <4>2. g # f /\ KeyOf[listener.seg] \in Keys
        BY <2>1, <3>4, <4>1, SegFacts DEF TypeOK, Message
      <4>3. CASE KeyOf[listener.seg] = KeyOf[s]
        BY <3>1, <3>3, <4>1, <4>2, <4>3
      <4>4. CASE KeyOf[listener.seg] # KeyOf[s]
        BY <3>1, <4>1, <4>2, <4>4
      <4> QED BY <4>3, <4>4
    <3> QED BY <2>1, <3>2, <3>4 DEF Entries
  <2> QED BY <2>2, <2>3, <2>4, <2>5
<1>7. CASE Moves
  BY <1>1, <1>7 DEF Moves, table
<1> QED BY <1>2, <1>3, <1>4, <1>5, <1>6, <1>7, StepFacts

-----------------------------------------------------------------------------
(* Nothing is forgotten *)

\* A file that somebody still sees to, or that will not be seen to.
Accounted(f) ==
    \/ job[f] \in AtWork
    \/ f \in vanished
    \/ phase # "up"
    \/ listener # None /\ f \in listener.todo

LEMMA WorkedStep ==
    TypeOK /\ Pools /\ Jobs /\ Entries /\ PendingIsWorkedOn /\ [Next]_vars
        => PendingIsWorkedOn'
<1> SUFFICES ASSUME TypeOK, Pools, Jobs, Entries, PendingIsWorkedOn, [Next]_vars
             PROVE  PendingIsWorkedOn'
  OBVIOUS
<1>0. /\ \A k \in Keys : pending[k] # None => pending[k] \subseteq Files
      /\ listener # None => listener.seg \in Segs
      /\ job \in [Files -> JobStates]
  BY DEF TypeOK, Message
<1>1. ASSUME NEW k \in Keys, pending[k] # None
      PROVE  /\ \A f \in pending[k] : Accounted(f)
             /\ pending[k] = {} => listener # None /\ KeyOf[listener.seg] = k
  BY <1>1 DEF PendingIsWorkedOn, Accounted
<1>2. ASSUME \A k \in Keys : pending'[k] # None =>
                /\ \A f \in pending'[k] : Accounted(f)'
                /\ pending'[k] = {} => listener' # None /\ KeyOf[listener'.seg] = k
      PROVE  PendingIsWorkedOn'
  BY <1>2 DEF PendingIsWorkedOn, Accounted
<1>3. ASSUME NEW s \in Segs, Receive(s) PROVE PendingIsWorkedOn'
  <2>1. listener = None /\ UNCHANGED <<pending, job, vanished>> /\ UNCHANGED stopping
    BY <1>3 DEF Receive
  <2>2. \A f \in Files : Accounted(f) => Accounted(f)'
    BY <2>1 DEF Accounted, stopping
  <2> QED BY <1>0, <1>1, <1>2, <2>1, <2>2
<1>4. CASE PreRegister
  <2>1. PICK s \in Segs :
             /\ KeyOf[s] \in Keys /\ listener # None /\ listener.seg = s
             /\ listener.todo = FilesOf[s] /\ listener' # None /\ listener'.seg = s
             /\ listener'.todo = FilesOf[s]
             /\ \A l \in Keys : l # KeyOf[s] => pending'[l] = pending[l]
             /\ pending[KeyOf[s]] = None => pending'[KeyOf[s]] = Matched(s)
             /\ pending[KeyOf[s]] # None =>
                   pending'[KeyOf[s]] = pending[KeyOf[s]] \cup Matched(s)
             /\ UNCHANGED <<vanished, job>> /\ UNCHANGED stopping
    BY <1>4, RegisterFacts
  <2>2. /\ \A f \in Files : Accounted(f) => Accounted(f)'
        /\ \A f \in Matched(s) : Accounted(f)'
    BY <2>1 DEF Accounted, stopping, Matched
  <2>3. ASSUME NEW k \in Keys, pending'[k] # None
        PROVE  /\ \A f \in pending'[k] : Accounted(f)'
               /\ pending'[k] = {} => listener' # None /\ KeyOf[listener'.seg] = k
    <3>1. CASE k = KeyOf[s]
      BY <1>0, <1>1, <2>1, <2>2, <3>1
    <3>2. CASE k # KeyOf[s]
      BY <1>0, <1>1, <2>1, <2>2, <2>3, <3>2
    <3> QED BY <3>1, <3>2
  <2> QED BY <1>2, <2>3
<1>5. ASSUME NEW f \in Files, HandleFile(f) PROVE PendingIsWorkedOn'
  <2>1. /\ UNCHANGED <<pending, vanished>> /\ UNCHANGED stopping
        /\ listener # None /\ listener' # None
        /\ listener'.seg = listener.seg /\ listener'.todo = listener.todo \ {f}
        /\ \/ UNCHANGED job /\ (f \in vanished \/ phase # "up" \/ HandlerOf[f] = None)
           \/ HandlerOf[f] # None /\ job' = [job EXCEPT ![f] = "queued"]
    BY <1>5, HandleFacts DEF table
  <2>2. ASSUME NEW g \in Files, Accounted(g), HandlerOf[g] # None PROVE Accounted(g)'
    <3>1. CASE g # f
      BY <1>0, <2>1, <2>2, <3>1 DEF Accounted, stopping
    <3>2. CASE g = f
      BY <1>0, <2>1, <2>2, <3>2 DEF Accounted, stopping, AtWork
    <3> QED BY <3>1, <3>2
  <2>3. \A k \in Keys : pending[k] # None => \A g \in pending[k] : HandlerOf[g] # None
    BY DEF Entries
  <2> QED BY <1>0, <1>1, <1>2, <2>1, <2>2, <2>3
<1>6. CASE CloseMessage
  <2>1. PICK s \in Segs :
             /\ KeyOf[s] \in Keys /\ listener # None /\ listener.seg = s
             /\ listener.todo = {}
             /\ \/ pending[KeyOf[s]] # {} /\ UNCHANGED table
                \/ EmitObserved(KeyOf[s], errors[KeyOf[s]])
             /\ UNCHANGED <<vanished, job>> /\ UNCHANGED stopping
    BY <1>6, CloseFacts
  <2>2. \A f \in Files : Accounted(f) => Accounted(f)'
    BY <2>1 DEF Accounted, stopping
  <2>3. ASSUME NEW k \in Keys, pending'[k] # None
        PROVE  pending'[k] = pending[k] /\ pending[k] # {}
    <3>1. CASE UNCHANGED table /\ pending[KeyOf[s]] # {}
      BY <1>1, <2>1, <2>3, <3>1 DEF table
    <3>2. CASE EmitObserved(KeyOf[s], errors[KeyOf[s]])
      <4>1. k # KeyOf[s] /\ pending'[k] = pending[k]
        BY <2>1, <2>3, <3>2, EmitFacts
      <4> QED BY <1>1, <2>1, <2>3, <4>1
    <3> QED BY <2>1, <3>1, <3>2
  <2> QED BY <1>0, <1>1, <1>2, <2>2, <2>3
<1>7. ASSUME NEW f \in Files, NEW bad \in BOOLEAN, NEW j \in {"reported", "done"},
             Reports(f, bad, j)
      PROVE  PendingIsWorkedOn'
  <2>1. /\ job[f] # "none" /\ CheckObserved(f, bad) /\ UNCHANGED <<vanished, listener>>
        /\ UNCHANGED stopping /\ job' = [job EXCEPT ![f] = j]
    BY <1>7 DEF Reports
  <2>2. PICK s \in Segs : LET k == KeyOf[s]
                              errs == errors[k] \cup (IF bad THEN {f} ELSE {}) IN
             /\ k \in Keys /\ f \in FilesOf[s]
             /\ \/ pending[k] = None /\ UNCHANGED table
                \/ /\ pending[k] # None /\ pending[k] \subseteq {f}
                   /\ EmitObserved(k, errs)
                \/ /\ pending[k] # None /\ ~ (pending[k] \subseteq {f})
                   /\ pending' = [pending EXCEPT ![k] = @ \ {f}]
    BY <2>1, CheckFacts
  <2>3. \A g \in Files : g # f /\ Accounted(g) => Accounted(g)'
    BY <1>0, <2>1 DEF Accounted, stopping
  <2>4. ASSUME NEW l \in Keys, pending[l] # None, l # KeyOf[s] PROVE f \notin pending[l]
    <3>1. ASSUME f \in pending[l] PROVE FALSE
      <4>1. PICK t \in Segs : f \in FilesOf[t] /\ KeyOf[t] = l
        BY <2>4, <3>1 DEF Entries
      <4>2. t = s
        BY <2>2, <4>1, SegFacts
      <4> QED BY <2>4, <4>1, <4>2
    <3> QED BY <3>1
  <2>5. ASSUME NEW l \in Keys, pending'[l] # None
        PROVE  /\ pending[l] # None
               /\ l # KeyOf[s] => pending'[l] = pending[l]
               /\ l = KeyOf[s] => pending'[l] = pending[l] \ {f} /\ pending'[l] # {}
    <3>1. CASE pending[KeyOf[s]] = None /\ UNCHANGED table
      BY <2>5, <3>1 DEF table
    <3>2. ASSUME NEW errs, EmitObserved(KeyOf[s], errs)
          PROVE  l # KeyOf[s] /\ pending'[l] = pending[l]
      BY <2>2, <2>5, <3>2, EmitFacts
    <3>3. CASE /\ pending[KeyOf[s]] # None /\ ~ (pending[KeyOf[s]] \subseteq {f})
               /\ pending' = [pending EXCEPT ![KeyOf[s]] = @ \ {f}]
      BY <2>2, <2>5, <3>3 DEF TypeOK
    <3> QED BY <2>2, <2>5, <3>1, <3>2, <3>3
  <2>6. ASSUME NEW l \in Keys, pending'[l] # None
        PROVE  /\ \A g \in pending'[l] : Accounted(g)'
               /\ pending'[l] = {} => listener' # None /\ KeyOf[listener'.seg] = l
    <3>1. CASE l = KeyOf[s]
      BY <1>0, <1>1, <2>3, <2>5, <2>6, <3>1
    <3>2. CASE l # KeyOf[s]
      BY <1>0, <1>1, <2>1, <2>3, <2>4, <2>5, <2>6, <3>2
    <3> QED BY <3>1, <3>2
  <2> QED BY <1>2, <2>6
<1>8. CASE Moves
  <2>1. UNCHANGED <<pending, listener>> /\ \A f \in Files : Accounted(f) => Accounted(f)'
    BY <1>8 DEF Moves, Accounted, table
  <2> QED BY <1>0, <1>1, <1>2, <2>1
<1> QED BY <1>3, <1>4, <1>5, <1>6, <1>7, <1>8, StepFacts

-----------------------------------------------------------------------------
(* The life of a segment *)

\* A step that does not concern the segment.
LEMMA LifeKept ==
    ASSUME NEW s \in Segs, Life(s),
           /\ pending'[KeyOf[s]] = pending[KeyOf[s]] /\ owner'[KeyOf[s]] = owner[KeyOf[s]]
           /\ stream'[KeyOf[s]] = stream[KeyOf[s]] /\ errors'[KeyOf[s]] = errors[KeyOf[s]],
           New(s)' <=> New(s), s \in announced' <=> s \in announced,
           failed' \cap FilesOf[s] = failed \cap FilesOf[s],
           s \in Tried => s \in Tried',
           \A f \in Matched(s) : Through(f) => Through(f)',
           \A i \in DOMAIN observed' : observed'[i].owner = s =>
              i \in DOMAIN observed /\ observed'[i] = observed[i]
    PROVE  Life(s)'
<1>1. Told(s)' => Told(s)
  BY DEF Told
<1>2. CASE IsNew(s)
  <2>1. IsNew(s)'
    BY <1>1, <1>2 DEF IsNew
  <2> QED BY <2>1 DEF Life
<1>3. CASE IsWaiting(s)
  <2>1. IsWaiting(s)'
    BY <1>1, <1>3 DEF IsWaiting
  <2> QED BY <2>1 DEF Life
<1>4. CASE IsThrough(s)
  <2>1. ASSUME NEW i \in DOMAIN observed', observed'[i].owner = s
        PROVE  Faithful(s, i)'
    <3>1. i \in DOMAIN observed /\ observed'[i] = observed[i]
      BY <2>1
    <3>2. Faithful(s, i)
      BY <1>4, <2>1, <3>1 DEF IsThrough
    <3>3. \A j \in DOMAIN observed' : observed'[j].owner = s => j = i
      BY <3>2 DEF Faithful
    <3> QED BY <3>1, <3>2, <3>3 DEF Faithful
  <2>2. IsThrough(s)'
    BY <1>4, <2>1 DEF IsThrough
  <2> QED BY <2>2 DEF Life
<1> QED BY <1>2, <1>3, <1>4 DEF Life

\* An event is added at the end, or none.
LEMMA ObservedFacts ==
    ASSUME TypeOK, NEW k \in Keys, NEW errs \in SUBSET Files, owner[k] \in Segs,
           EmitObserved(k, errs)
    PROVE  \A i \in DOMAIN observed' :
              \/ i \in DOMAIN observed /\ observed'[i] = observed[i]
              \/ /\ i = Len(observed) + 1 /\ observed'[i].owner = owner[k]
                 /\ observed'[i].stream = stream[k] /\ observed'[i].errors = errs
<1> DEFINE ev == [key |-> k, owner |-> owner[k], stream |-> stream[k], errors |-> errs]
<1>1. ev \in Event /\ observed \in Seq(Event)
  BY DEF Event, TypeOK
<1>2. ev.owner = owner[k] /\ ev.stream = stream[k] /\ ev.errors = errs
  OBVIOUS
<1>3. observed' = observed \/ observed' = Append(observed, ev)
  BY DEF EmitObserved
<1> HIDE DEF ev
<1>4. CASE observed' = observed
  BY <1>4
<1>5. CASE observed' = Append(observed, ev)
  <2>1. /\ DOMAIN observed = 1 .. Len(observed) /\ Len(observed) \in Nat
        /\ DOMAIN observed' = 1 .. Len(observed) + 1
        /\ \A i \in 1 .. Len(observed) : observed'[i] = observed[i]
        /\ observed'[Len(observed) + 1] = ev
    BY <1>1, <1>5, AppendFacts
  <2>2. \A i \in DOMAIN observed' :
           i \in DOMAIN observed \/ i = Len(observed) + 1
    BY <2>1
  <2> QED BY <1>2, <2>1, <2>2
<1> QED BY <1>3, <1>4, <1>5

\* The end of a segment's entry, when all its files are through.
LEMMA LifeEnds ==
    ASSUME TypeOK, NEW s \in Segs, IsWaiting(s), NEW errs \in SUBSET Files,
           EmitObserved(KeyOf[s], errs), ~ New(s)',
           errs = failed' \cap FilesOf[s], \A f \in Matched(s) : Through(f)'
    PROVE  Life(s)'
<1>1. KeyOf[s] \in Keys
  BY SegFacts
<1>2. owner[KeyOf[s]] = s /\ stream[KeyOf[s]] = s /\ ~ Told(s)
  BY DEF IsWaiting
<1>3. \A i \in DOMAIN observed' :
         \/ i \in DOMAIN observed /\ observed'[i] = observed[i]
         \/ /\ i = Len(observed) + 1 /\ observed'[i].owner = s
            /\ observed'[i].stream = s /\ observed'[i].errors = errs
  BY <1>1, <1>2, ObservedFacts
<1>4. \A i \in DOMAIN observed' : observed'[i].owner = s =>
         /\ i = Len(observed) + 1
         /\ observed'[i].stream = s /\ observed'[i].errors = errs
  BY <1>2, <1>3 DEF Told
<1>5. \A i \in DOMAIN observed' : observed'[i].owner = s => Faithful(s, i)'
  BY <1>4 DEF Faithful
<1>6. pending'[KeyOf[s]] = None /\ (s \in Tried' \/ s \in Batch)
  BY <1>1, <1>2, EmitFacts
<1>7. IsThrough(s)'
  BY <1>5, <1>6 DEF IsThrough
<1> QED BY <1>7 DEF Life

\* An event of another name.
LEMMA LifeOfOthers ==
    ASSUME TypeOK, Entries, NEW s \in Segs, Life(s), NEW k \in Keys, k # KeyOf[s],
           NEW errs \in SUBSET Files, pending[k] # None, EmitObserved(k, errs),
           New(s)' <=> New(s), s \in announced' <=> s \in announced,
           failed' \cap FilesOf[s] = failed \cap FilesOf[s],
           \A f \in Matched(s) : Through(f) => Through(f)'
    PROVE  Life(s)'
<1>1. owner[k] \in Segs /\ KeyOf[owner[k]] = k
  BY DEF Entries
<1>2. \A i \in DOMAIN observed' : observed'[i].owner = s =>
         i \in DOMAIN observed /\ observed'[i] = observed[i]
  BY <1>1, ObservedFacts
<1>3. KeyOf[s] \in Keys
  BY SegFacts
<1>4. /\ pending'[KeyOf[s]] = pending[KeyOf[s]] /\ owner'[KeyOf[s]] = owner[KeyOf[s]]
      /\ stream'[KeyOf[s]] = stream[KeyOf[s]] /\ errors'[KeyOf[s]] = errors[KeyOf[s]]
      /\ s \in Tried => s \in Tried'
  BY <1>3, EmitFacts
<1> QED BY <1>2, <1>4, LifeKept

LEMMA OwnedKept ==
    ASSUME TypeOK, Entries, Owned, NEW k \in Keys, NEW errs \in SUBSET Files,
           pending[k] # None, EmitObserved(k, errs)
    PROVE  Owned'
<1>1. owner[k] \in Segs
  BY DEF Entries
<1>2. \A i \in DOMAIN observed' :
         \/ i \in DOMAIN observed /\ observed'[i] = observed[i]
         \/ observed'[i].owner = owner[k]
  BY <1>1, ObservedFacts
<1> QED BY <1>1, <1>2 DEF Owned

LEMMA LivesStep ==
    TypeOK /\ Pools /\ Jobs /\ Entries /\ Lives /\ [Next]_vars => Lives'
<1> SUFFICES ASSUME TypeOK, Pools, Jobs, Entries, Lives, [Next]_vars PROVE Lives'
  OBVIOUS
<1>0. /\ Owned /\ \A s \in Segs : Alone(s) => Life(s)
      /\ \A s \in Segs : KeyOf[s] \in Keys /\ FilesOf[s] \subseteq Files
      /\ \A s \in Segs : Matched(s) \subseteq FilesOf[s]
      /\ job \in [Files -> JobStates] /\ errors \in [Keys -> SUBSET Files]
  BY SegFacts DEF Lives, TypeOK, Matched
<1>1. ASSUME UNCHANGED <<failed, observed, marked, untouched>>,
             \A f \in Files : Through(f) => Through(f)',
             NEW s \in Segs, Alone(s), New(s)' <=> New(s), s \in announced' <=> s \in announced,
             /\ pending'[KeyOf[s]] = pending[KeyOf[s]] /\ owner'[KeyOf[s]] = owner[KeyOf[s]]
             /\ stream'[KeyOf[s]] = stream[KeyOf[s]] /\ errors'[KeyOf[s]] = errors[KeyOf[s]]
      PROVE  Life(s)'
  <2>1. \A f \in Matched(s) : Through(f) => Through(f)'
    BY <1>0, <1>1
  <2>2. Tried' = Tried
    BY <1>1 DEF Tried
  <2> QED BY <1>0, <1>1, <2>1, <2>2, LifeKept
<1>2. UNCHANGED observed => Owned'
  BY <1>0 DEF Owned
<1>3. ASSUME NEW t \in Segs, Receive(t) PROVE Lives'
  <2>1. /\ listener = None /\ t \notin announced /\ announced' = announced \cup {t}
        /\ listener' = [seg |-> t, step |-> "register", todo |-> FilesOf[t]]
        /\ stream' = [stream EXCEPT ![KeyOf[t]] = t]
        /\ UNCHANGED <<pending, owner, errors, job, failed, observed, marked, untouched>>
    BY <1>3 DEF Receive
  <2>2. listener'.seg = t /\ listener'.step = "register"
    BY <2>1
  <2>3. listener' # None
    <3>1. listener' \in [seg : Segs, step : {"register", "files"}, todo : SUBSET Files]
      BY <1>0, <2>1
    <3> QED BY <3>1, SenseAssumption
  <2>4. ASSUME NEW s \in Segs, Alone(s) PROVE Life(s)'
    <3>1. CASE s = t
      <4>1. New(s)
        BY <2>1, <3>1 DEF New
      <4>2. IsNew(s)
        BY <1>0, <2>4, <4>1 DEF Life, IsWaiting, IsThrough
      <4>3. New(s)'
        BY <2>2, <2>3, <3>1 DEF New
      <4>4. stream'[KeyOf[s]] = s
        BY <1>0, <2>1, <3>1 DEF TypeOK
      <4>5. IsNew(s)'
        BY <2>1, <4>2, <4>3, <4>4 DEF IsNew, Told
      <4> QED BY <4>5 DEF Life
    <3>2. CASE s # t
      <4>1. KeyOf[s] # KeyOf[t]
        BY <2>4, <3>2 DEF Alone
      <4>2. stream'[KeyOf[s]] = stream[KeyOf[s]]
        BY <1>0, <2>1, <4>1 DEF TypeOK
      <4>3. (New(s)' <=> New(s)) /\ (s \in announced' <=> s \in announced)
        BY <2>1, <2>2, <3>2 DEF New
      <4> QED BY <1>1, <2>1, <2>4, <4>2, <4>3 DEF Through
    <3> QED BY <3>1, <3>2
  <2> QED BY <1>2, <2>1, <2>4 DEF Lives, Alone
<1>4. CASE PreRegister
  <2>1. PICK t \in Segs :
             /\ listener # None /\ listener.step = "register" /\ listener.seg = t
             /\ t \in announced
             /\ listener' # None /\ listener'.step = "files" /\ listener'.seg = t
             /\ \A l \in Keys : l # KeyOf[t] => pending'[l] = pending[l] /\ owner'[l] = owner[l]
             /\ pending[KeyOf[t]] = None =>
                   pending'[KeyOf[t]] = Matched(t) /\ owner'[KeyOf[t]] = t
             /\ pending'[KeyOf[t]] # None
             /\ UNCHANGED <<stream, errors, observed, marked, untouched, announced, job, failed>>
    BY <1>4, RegisterFacts
  <2>2. ASSUME NEW s \in Segs, Alone(s) PROVE Life(s)'
    <3>1. CASE s = t
      <4>1. New(s) /\ ~ New(s)'
        BY <2>1, <3>1 DEF New
      <4>2. IsNew(s)
        BY <1>0, <2>2, <4>1 DEF Life, IsWaiting, IsThrough
      <4>3. /\ pending'[KeyOf[s]] = Matched(s) /\ owner'[KeyOf[s]] = s
            /\ pending'[KeyOf[s]] # None
        BY <2>1, <3>1, <4>2 DEF IsNew
      <4>4. stream'[KeyOf[s]] = s /\ errors'[KeyOf[s]] = failed' \cap FilesOf[s] /\ ~ Told(s)'
        BY <2>1, <3>1, <4>2 DEF IsNew, Told
      <4>5. IsWaiting(s)'
        BY <4>1, <4>3, <4>4 DEF IsWaiting
      <4> QED BY <4>5 DEF Life
    <3>2. CASE s # t
      <4>1. KeyOf[s] # KeyOf[t]
        BY <2>2, <3>2 DEF Alone
      <4>2. New(s)' <=> New(s)
        BY <2>1, <3>2 DEF New
      <4> QED BY <1>0, <1>1, <2>1, <2>2, <4>1, <4>2 DEF Through
    <3> QED BY <3>1, <3>2
  <2> QED BY <1>2, <2>1, <2>2 DEF Lives, Alone
<1>5. ASSUME NEW f \in Files, HandleFile(f) PROVE Lives'
  <2>1. /\ UNCHANGED table /\ UNCHANGED <<announced, failed>>
        /\ listener # None /\ listener' # None
        /\ listener.step = "files" /\ listener'.step = "files"
        /\ job[f] = "none"
        /\ UNCHANGED job \/ job' = [job EXCEPT ![f] = "queued"]
    BY <1>5, HandleFacts
  <2>2. \A g \in Files : Through(g) => Through(g)'
    BY <1>0, <2>1 DEF Through
  <2>3. \A s \in Segs : New(s)' <=> New(s)
    BY <2>1 DEF New
  <2>4. \A s \in Segs : Alone(s) => Life(s)'
    BY <1>1, <2>1, <2>2, <2>3 DEF table
  <2> QED BY <1>2, <2>1, <2>4 DEF Lives, Alone, table
<1>6. CASE CloseMessage
  <2>1. PICK t \in Segs :
             /\ listener # None /\ listener.step = "files" /\ listener.seg = t
             /\ t \in announced /\ KeyOf[t] \in Keys
             /\ \/ UNCHANGED table
                \/ /\ pending[KeyOf[t]] = {} /\ pending[KeyOf[t]] # None
                   /\ EmitObserved(KeyOf[t], errors[KeyOf[t]])
             /\ listener' = None /\ UNCHANGED <<announced, job, failed>>
    BY <1>6, CloseFacts
  <2>2. /\ \A g \in Files : Through(g) => Through(g)'
        /\ \A s \in Segs : New(s)' <=> New(s)
    BY <2>1 DEF Through, New
  <2>3. CASE UNCHANGED table
    <3>1. \A s \in Segs : Alone(s) => Life(s)'
      BY <1>1, <2>1, <2>2, <2>3 DEF table
    <3> QED BY <1>2, <2>3, <3>1 DEF Lives, Alone, table
  <2>4. CASE /\ pending[KeyOf[t]] = {} /\ pending[KeyOf[t]] # None
             /\ EmitObserved(KeyOf[t], errors[KeyOf[t]])
    <3>1. errors[KeyOf[t]] \in SUBSET Files
      BY <1>0, <2>1
    <3>2. ASSUME NEW s \in Segs, Alone(s) PROVE Life(s)'
      <4>0. Life(s) /\ (New(s)' <=> New(s))
        BY <1>0, <2>2, <3>2
      <4>1. CASE KeyOf[s] = KeyOf[t]
        <5>1. s = t
          BY <3>2, <4>1 DEF Alone
        <5>2. IsWaiting(s)
          BY <2>1, <2>4, <4>0, <5>1 DEF Life, IsNew, IsThrough, New
        <5>3. errors[KeyOf[s]] = failed' \cap FilesOf[s] /\ ~ New(s)'
          BY <2>1, <4>0, <5>2 DEF IsWaiting
        <5>4. \A f \in Matched(s) : Through(f)'
          BY <1>0, <2>2, <2>4, <5>1, <5>2 DEF IsWaiting
        <5> QED BY <2>4, <3>1, <5>1, <5>2, <5>3, <5>4, LifeEnds
      <4>2. CASE KeyOf[s] # KeyOf[t]
        <5>1. \A f \in Matched(s) : Through(f) => Through(f)'
          BY <1>0, <2>2
        <5> QED BY <2>1, <2>4, <3>1, <4>0, <4>2, <5>1, LifeOfOthers
      <4> QED BY <4>1, <4>2
    <3>3. Owned'
      BY <1>0, <2>1, <2>4, <3>1, OwnedKept
    <3> QED BY <3>2, <3>3 DEF Lives, Alone
  <2> QED BY <2>1, <2>3, <2>4
<1>7. ASSUME NEW f \in Files, NEW bad \in BOOLEAN, NEW j \in {"reported", "done"},
             Reports(f, bad, j)
      PROVE  Lives'
  <2>1. /\ job[f] \in {"taken", "retrying", "running", "killed"} /\ CheckObserved(f, bad)
        /\ job' = [job EXCEPT ![f] = j] /\ UNCHANGED <<announced, listener>>
        /\ failed' = IF bad THEN failed \cup {f} ELSE failed
    BY <1>7 DEF Reports
  <2>2. job[f] # "none" /\ ~ Through(f)
    BY <2>1 DEF Through
  <2>3. PICK t \in Segs : LET k == KeyOf[t]
                              errs == errors[k] \cup (IF bad THEN {f} ELSE {}) IN
             /\ f \in FilesOf[t] /\ f \in Matched(t) /\ t \in announced /\ k \in Keys
             /\ \/ pending[k] = None /\ UNCHANGED table
                \/ /\ pending[k] # None /\ pending[k] \subseteq {f}
                   /\ EmitObserved(k, errs)
                \/ /\ pending[k] # None /\ ~ (pending[k] \subseteq {f})
                   /\ pending' = [pending EXCEPT ![k] = @ \ {f}]
                   /\ errors' = [errors EXCEPT ![k] = errs]
                   /\ UNCHANGED <<owner, stream, observed, marked, untouched>>
    BY <2>1, <2>2, CheckFacts
  <2>4. PICK errs \in SUBSET Files :
             errs = errors[KeyOf[t]] \cup (IF bad THEN {f} ELSE {})
    BY <1>0
  <2>5. /\ \A g \in Files : Through(g) => Through(g)'
        /\ Through(f)'
        /\ \A s \in Segs : New(s)' <=> New(s)
    BY <1>0, <2>1 DEF Through, New
  <2>6. ASSUME NEW s \in Segs, s # t
        PROVE  failed' \cap FilesOf[s] = failed \cap FilesOf[s]
    <3>1. f \notin FilesOf[s]
      BY <2>3, <2>6, SegFacts
    <3> QED BY <2>1, <3>1
  <2>7. /\ ~ New(t)
        /\ failed' \cap FilesOf[t]
              = (failed \cap FilesOf[t]) \cup (IF bad THEN {f} ELSE {})
    <3>1. ~ New(t)
      BY <2>2, <2>3 DEF New, Jobs
    <3> QED BY <2>1, <2>3, <3>1
  <2>8. ASSUME NEW s \in Segs, Alone(s) PROVE Life(s)'
    <3>0. /\ Life(s) /\ \A g \in Matched(s) : Through(g) => Through(g)'
          /\ (New(s)' <=> New(s)) /\ UNCHANGED announced
      BY <1>0, <2>1, <2>5, <2>8
    <3>1. CASE KeyOf[s] # KeyOf[t]
      <4>1. /\ s # t /\ failed' \cap FilesOf[s] = failed \cap FilesOf[s]
            /\ KeyOf[s] \in Keys
        BY <1>0, <2>6, <3>1
      <4>2. CASE UNCHANGED table
        <5>1. \A i \in DOMAIN observed' : observed'[i].owner = s =>
                 i \in DOMAIN observed /\ observed'[i] = observed[i]
          BY <4>2 DEF table
        <5>2. /\ pending'[KeyOf[s]] = pending[KeyOf[s]] /\ owner'[KeyOf[s]] = owner[KeyOf[s]]
              /\ stream'[KeyOf[s]] = stream[KeyOf[s]] /\ errors'[KeyOf[s]] = errors[KeyOf[s]]
              /\ Tried' = Tried
          BY <4>2 DEF table, Tried
        <5> QED BY <3>0, <4>1, <5>1, <5>2, LifeKept
      <4>3. CASE pending[KeyOf[t]] # None /\ EmitObserved(KeyOf[t], errs)
        BY <2>3, <3>0, <3>1, <4>1, <4>3, LifeOfOthers
      <4>4. CASE /\ pending' = [pending EXCEPT ![KeyOf[t]] = @ \ {f}]
                 /\ errors' = [errors EXCEPT ![KeyOf[t]] = errs]
                 /\ UNCHANGED <<owner, stream, observed, marked, untouched>>
        <5>1. /\ pending'[KeyOf[s]] = pending[KeyOf[s]]
              /\ errors'[KeyOf[s]] = errors[KeyOf[s]]
          BY <3>1, <4>1, <4>4 DEF TypeOK
        <5>2. \A i \in DOMAIN observed' : observed'[i].owner = s =>
                 i \in DOMAIN observed /\ observed'[i] = observed[i]
          BY <4>4
        <5>3. Tried' = Tried
          BY <4>4 DEF Tried
        <5> QED BY <3>0, <4>1, <4>4, <5>1, <5>2, <5>3, LifeKept
      <4> QED BY <2>3, <2>4, <4>2, <4>3, <4>4
    <3>2. CASE KeyOf[s] = KeyOf[t]
      <4>1. s = t
        BY <2>8, <3>2 DEF Alone
      <4>2. IsWaiting(s)
        BY <2>2, <2>3, <2>7, <3>0, <4>1 DEF Life, IsNew, IsThrough
      <4>3. pending[KeyOf[t]] # None /\ errs = failed' \cap FilesOf[s] /\ ~ New(s)'
        BY <2>4, <2>7, <3>0, <4>1, <4>2 DEF IsWaiting
      <4>4. CASE pending[KeyOf[t]] \subseteq {f} /\ EmitObserved(KeyOf[t], errs)
        <5>1. \A g \in Matched(s) : Through(g)'
          BY <2>5, <3>0, <4>1, <4>2, <4>4 DEF IsWaiting
        <5> QED BY <4>1, <4>2, <4>3, <4>4, <5>1, LifeEnds
      <4>5. CASE /\ ~ (pending[KeyOf[t]] \subseteq {f})
                 /\ pending' = [pending EXCEPT ![KeyOf[t]] = @ \ {f}]
                 /\ errors' = [errors EXCEPT ![KeyOf[t]] = errs]
                 /\ UNCHANGED <<owner, stream, observed, marked, untouched>>
        <5>1. pending'[KeyOf[s]] = pending[KeyOf[s]] \ {f} /\ errors'[KeyOf[s]] = errs
          BY <2>3, <4>1, <4>5 DEF TypeOK
        <5>2. pending'[KeyOf[s]] # None
          <6>1. pending'[KeyOf[s]] \in SUBSET Files
            BY <2>3, <4>1, <4>3, <5>1 DEF TypeOK
          <6> QED BY <6>1, SenseAssumption
        <5>3. \A g \in Matched(s) : g \in pending'[KeyOf[s]] \/ Through(g)'
          BY <2>5, <3>0, <4>2, <5>1 DEF IsWaiting
        <5>4. ~ Told(s)' /\ owner'[KeyOf[s]] = s /\ stream'[KeyOf[s]] = s
          BY <4>2, <4>5 DEF IsWaiting, Told
        <5>5. IsWaiting(s)'
          BY <4>3, <5>1, <5>2, <5>3, <5>4 DEF IsWaiting
        <5> QED BY <5>5 DEF Life
      <4> QED BY <2>3, <2>4, <4>3, <4>4, <4>5
    <3> QED BY <3>1, <3>2
  <2>9. Owned'
    <3>1. CASE pending[KeyOf[t]] # None /\ EmitObserved(KeyOf[t], errs)
      BY <1>0, <2>3, <3>1, OwnedKept
    <3>2. CASE UNCHANGED observed
      BY <1>2, <3>2
    <3> QED BY <2>3, <2>4, <3>1, <3>2 DEF table
  <2> QED BY <2>8, <2>9 DEF Lives, Alone
<1>8. CASE Moves
  <2>1. /\ UNCHANGED table /\ UNCHANGED <<announced, listener, failed>>
        /\ \A f \in Files : Through(f) => Through(f)'
    BY <1>8 DEF Moves
  <2>2. \A s \in Segs : New(s)' <=> New(s)
    BY <2>1 DEF New
  <2>3. \A s \in Segs : Alone(s) => Life(s)'
    BY <1>1, <2>1, <2>2 DEF table
  <2> QED BY <1>2, <2>1, <2>3 DEF Lives, Alone, table
<1> QED BY <1>3, <1>4, <1>5, <1>6, <1>7, <1>8, StepFacts

-----------------------------------------------------------------------------
(* Theorems *)

LEMMA Invariance == Spec => []IInv
<1>1. Init => IInv
  <2>1. ASSUME Init PROVE Pools /\ Jobs /\ Entries
    <3>1. Pools
      <4>1. \A h \in Handlers : pool[h] = <<>>
        BY <2>1 DEF Init
      <4>2. DOMAIN <<>> = {}
        OBVIOUS
      <4> QED BY <4>1, <4>2 DEF Pools
    <3>2. Jobs
      <4>1. listener = None /\ \A f \in Files : job[f] = "none"
        BY <2>1 DEF Init
      <4>2. \A s \in Segs : FilesOf[s] \subseteq Files
        BY SegFacts
      <4> QED BY <4>1, <4>2 DEF Jobs
    <3>3. Entries
      <4>1. listener = None /\ \A k \in Keys : pending[k] = None
        BY <2>1 DEF Init
      <4> QED BY <4>1 DEF Entries
    <3> QED BY <3>1, <3>2, <3>3
  <2>2. Init => PendingIsWorkedOn
    BY DEF Init, PendingIsWorkedOn
  <2>3. ASSUME Init, NEW s \in Segs PROVE Life(s)
    <3>1. KeyOf[s] \in Keys
      BY SegFacts
    <3>2. IsNew(s)
      BY <2>3, <3>1 DEF Init, IsNew, New, Told
    <3> QED BY <3>2 DEF Life
  <2>4. Init => Owned
    BY DEF Init, Owned
  <2> QED BY <2>1, <2>2, <2>3, <2>4, TypeInit DEF IInv, Lives
<1>2. IInv /\ [Next]_vars => IInv'
  BY TypeStep, PoolsStep, JobsStep, EntriesStep, WorkedStep, LivesStep DEF IInv
<1> QED BY <1>1, <1>2, PTL DEF Spec

\* Every reachable state of the sensor is well typed.
THEOREM TypeCorrect == Spec => []TypeOK
<1>1. IInv => TypeOK
  BY DEF IInv
<1> QED BY <1>1, Invariance, PTL

\* No file that its segment waits for is forgotten.
THEOREM NothingForgotten == Spec => []PendingIsWorkedOn
<1>1. IInv => PendingIsWorkedOn
  BY DEF IInv
<1> QED BY <1>1, Invariance, PTL

\* observe.observed comes after the segment's last handler.
THEOREM AfterLastFile == Spec => []ObservedAfterLastFile
<1>1. IInv => ObservedAfterLastFile
  <2> SUFFICES ASSUME IInv, NEW i \in DOMAIN observed, Alone(observed[i].owner),
                      NEW f \in Matched(observed[i].owner)
               PROVE  job[f] \in {"reported", "done"}
    BY DEF ObservedAfterLastFile
  <2>1. PICK s \in Segs : s = observed[i].owner /\ Life(s)
    BY DEF IInv, Lives, Owned
  <2>2. IsThrough(s)
    BY <2>1 DEF Life, IsNew, IsWaiting, Told
  <2> QED BY <2>1, <2>2 DEF IsThrough, Through
<1> QED BY <1>1, Invariance, PTL

\* Each segment with its own name is announced once, with its own stream and
\* errors.
THEOREM FaithfulEvents == Spec => []EventIsFaithful
<1>1. IInv => EventIsFaithful
  <2> SUFFICES ASSUME IInv, NEW i \in DOMAIN observed, Alone(observed[i].owner)
               PROVE  Faithful(observed[i].owner, i)
    BY DEF EventIsFaithful, Faithful
  <2>1. PICK s \in Segs : s = observed[i].owner /\ Life(s)
    BY DEF IInv, Lives, Owned
  <2>2. IsThrough(s)
    BY <2>1 DEF Life, IsNew, IsWaiting, Told
  <2> QED BY <2>1, <2>2 DEF IsThrough
<1> QED BY <1>1, Invariance, PTL

\* The day of a live segment that is through is marked for the daily run.
THEOREM MarkedWhenThrough == Spec => []ThroughIsMarked
<1>1. IInv => ThroughIsMarked
  <2> SUFFICES ASSUME IInv, NEW s \in announced, s \notin Batch, Alone(s),
                      pending[KeyOf[s]] = None,
                      ~ (listener # None /\ listener.seg = s /\ listener.step = "register")
               PROVE  s \in marked \cup untouched
    BY DEF ThroughIsMarked
  <2>1. s \in Segs /\ ~ New(s)
    BY DEF IInv, TypeOK, New
  <2>2. IsThrough(s)
    BY <2>1 DEF IInv, Lives, Life, IsNew, IsWaiting
  <2> QED BY <2>2 DEF IsThrough, Tried
<1> QED BY <1>1, Invariance, PTL

-----------------------------------------------------------------------------
(* What stop leaves *)

\* stop finds every handler: the pools take no job after they were cancelled, the
\* handlers that run are the ones it goes through, and nothing runs in the end.
StopEndsHandlers ==
    /\ phase \in {"cancelled", "terminating", "stopped"} =>
          \A f \in Files : job[f] # "queued"
    /\ phase = "terminating" => \A f \in Files : job[f] = "running" => f \in doomed
    /\ phase = "stopped" => \A f \in Files : job[f] \in {"none", "done", "cancelled"}

LEMMA StopStep ==
    TypeOK /\ Pools /\ Jobs /\ Entries /\ StopEndsHandlers /\ [Next]_vars => StopEndsHandlers'
<1> SUFFICES ASSUME TypeOK, Pools, Jobs, Entries, StopEndsHandlers, [Next]_vars
             PROVE  StopEndsHandlers'
  OBVIOUS
<1>0. job \in [Files -> JobStates] /\ phase \in Phases
  BY DEF TypeOK
<1>1. ASSUME UNCHANGED stopping,
             \A f \in Files :
                \/ job'[f] = job[f]
                \/ /\ job[f] \notin {"none", "done", "cancelled"}
                   /\ job'[f] \in {"taken", "spawned", "retrying", "reported", "done"}
                \/ phase = "up"
      PROVE  StopEndsHandlers'
  BY <1>1 DEF StopEndsHandlers, stopping
<1>2. ASSUME NEW s \in Segs, Receive(s) PROVE StopEndsHandlers'
  BY <1>1, <1>2 DEF Receive
<1>3. CASE PreRegister \/ CloseMessage
  BY <1>1, <1>3 DEF PreRegister, CloseMessage
<1>4. ASSUME NEW f \in Files, HandleFile(f) PROVE StopEndsHandlers'
  <2>1. UNCHANGED stopping /\ (UNCHANGED job \/ phase = "up")
    BY <1>4 DEF HandleFile
  <2> QED BY <1>1, <2>1
<1>5. ASSUME NEW f \in Files, NEW bad \in BOOLEAN, NEW j \in {"reported", "done"},
             Reports(f, bad, j)
      PROVE  StopEndsHandlers'
  <2>1. /\ UNCHANGED stopping /\ job[f] \in {"taken", "retrying", "running", "killed"}
        /\ job' = [job EXCEPT ![f] = j]
    BY <1>5 DEF Reports
  <2> QED BY <1>0, <1>1, <2>1
<1>6. ASSUME NEW f \in Files, Vanish(f) \/ Abandon(f) \/ Spawn(f) \/ Track(f)
                              \/ Leave(f) \/ Retry(f)
      PROVE  StopEndsHandlers'
  <2>1. UNCHANGED stopping
    BY <1>6 DEF Vanish, Abandon, Spawn, Track, Leave, Retry
  <2>2. \/ UNCHANGED job
        \/ /\ job[f] \notin {"none", "done", "cancelled"}
           /\ \E j \in {"taken", "spawned", "retrying", "done"} : job' = [job EXCEPT ![f] = j]
        \/ phase = "up"
    BY <1>6 DEF Vanish, Abandon, Spawn, MaySpawn, Track, Leave, Retry
  <2> QED BY <1>0, <1>1, <2>1, <2>2
<1>7. ASSUME NEW h \in Handlers, Take(h) PROVE StopEndsHandlers'
  <2>1. /\ pool[h][1] \in Files /\ job[pool[h][1]] = "queued"
        /\ job' = [job EXCEPT ![pool[h][1]] = "taken"]
    BY <1>7, TakeFacts
  <2>2. UNCHANGED stopping
    BY <1>7 DEF Take
  <2> QED BY <1>0, <1>1, <2>1, <2>2
<1>8. CASE BeginStop \/ StopBus
  <2>1. phase' \in {"stopping", "deaf"}
    BY <1>8 DEF BeginStop, StopBus
  <2> QED BY <2>1 DEF StopEndsHandlers
<1>9. CASE CancelJobs
  <2>1. phase' = "cancelled" /\ \A f \in Files : job'[f] # "queued"
    BY <1>9 DEF CancelJobs
  <2> QED BY <2>1 DEF StopEndsHandlers
<1>10. CASE Snapshot
  <2>1. /\ phase = "cancelled" /\ phase' = "terminating" /\ UNCHANGED job
        /\ doomed' = {f \in Files : job[f] \in {"running", "reported"}}
    BY <1>10 DEF Snapshot
  <2> QED BY <2>1 DEF StopEndsHandlers
<1>11. ASSUME NEW f \in Files, Terminate(f) PROVE StopEndsHandlers'
  <2>1. /\ phase = "terminating" /\ phase' = "terminating" /\ doomed' = doomed \ {f}
        /\ job' = [job EXCEPT ![f] = IF @ = "running" THEN "killed" ELSE @]
    BY <1>11 DEF Terminate
  <2>2. job'[f] \notin {"running", "queued"} /\ \A g \in Files \ {f} : job'[g] = job[g]
    BY <1>0, <2>1 DEF StopEndsHandlers
  <2> QED BY <2>1, <2>2 DEF StopEndsHandlers
<1>12. CASE StopEndsPools
  <2>1. /\ phase = "terminating" /\ phase' = "stopped" /\ UNCHANGED job
        /\ \A h \in Handlers : Busy(h) = {}
    BY <1>12 DEF StopEndsPools
  <2>2. ASSUME NEW f \in Files PROVE job[f] \in {"none", "done", "cancelled"}
    <3>1. job[f] # "queued" /\ job[f] \in JobStates
      BY <1>0, <2>1 DEF StopEndsHandlers
    <3>2. CASE job[f] # "none"
      <4>1. HandlerOf[f] \in Handlers
        BY <3>2, SenseAssumption DEF Jobs
      <4>2. f \notin Busy(HandlerOf[f])
        BY <2>1, <4>1
      <4> QED BY <3>1, <4>2 DEF Busy, JobStates
    <3> QED BY <3>2
  <2> QED BY <2>1, <2>2 DEF StopEndsHandlers
<1>13. CASE UNCHANGED vars
  BY <1>13 DEF vars, StopEndsHandlers
<1> QED
  BY <1>2, <1>3, <1>4, <1>5, <1>6, <1>7, <1>8, <1>9, <1>10, <1>11, <1>12, <1>13,
     ReportsFacts DEF Next, Listener, Worker, Ends, Stop

\* stop() leaves no handler process and no job behind, whatever the workers were
\* at (sense.py: stop, _run_handler).
THEOREM StoppedIsQuiet == Spec => []StopEndsHandlers
<1>1. Init => StopEndsHandlers
  BY DEF Init, StopEndsHandlers
<1>2. IInv /\ StopEndsHandlers /\ [Next]_vars => StopEndsHandlers'
  BY StopStep DEF IInv
<1> QED BY <1>1, <1>2, Invariance, PTL DEF Spec

-----------------------------------------------------------------------------
(* When a segment's entry is gone *)

\* A segment whose entry is gone has been announced, unless the connection was
\* stopped by then.
EventIsSent ==
    \A s \in Segs : Alone(s) /\ ~ New(s) /\ pending[KeyOf[s]] = None => Told(s) \/ ~ BusUp

Gone(s) == ~ New(s) /\ pending[KeyOf[s]] = None
Settled(s) == /\ Gone(s) => Told(s) \/ ~ BusUp
              /\ s \in marked => Gone(s)

\* Events stay, and the connection does not come back.
LEMMA ToldKept ==
    ASSUME TypeOK, Pools, Jobs, Entries, [Next]_vars
    PROVE  ~ BusUp => ~ BusUp'
BY DEF Next, Listener, Worker, Ends, Stop, Receive, PreRegister, HandleFile, CloseMessage,
       Vanish, Take, Abandon, Spawn, SpawnFails, Track, Finish, FinishKilled, Retry, Leave,
       BeginStop, StopBus, CancelJobs, Snapshot, Terminate, StopEndsPools, vars, stopping,
       BusUp

LEMMA EmitSettles ==
    ASSUME TypeOK, Entries, NEW k \in Keys, NEW errs \in SUBSET Files, pending[k] # None,
           EmitObserved(k, errs), UNCHANGED phase,
           NEW s \in Segs, Alone(s), Life(s), Settled(s), New(s)' <=> New(s)
    PROVE  Settled(s)'
<1>0. owner[k] \in Segs /\ KeyOf[owner[k]] = k /\ KeyOf[s] \in Keys
  BY SegFacts DEF Entries
<1> DEFINE ev == [key |-> k, owner |-> owner[k], stream |-> stream[k], errors |-> errs]
<1>1. ev \in Event /\ observed \in Seq(Event) /\ ev.owner = owner[k]
  BY <1>0 DEF Event, TypeOK
<1>2. /\ observed' = IF BusUp THEN Append(observed, ev) ELSE observed
      /\ marked' \subseteq marked \cup ({owner[k]} \ Batch)
  BY DEF EmitObserved, Touch
<1>3. BusUp' <=> BusUp
  BY DEF BusUp
<1> HIDE DEF ev
<1>4. BusUp => /\ \A i \in DOMAIN observed : i \in DOMAIN observed' /\ observed'[i] = observed[i]
               /\ \E i \in DOMAIN observed' : observed'[i] = ev
  <2> SUFFICES ASSUME BusUp
               PROVE  /\ \A i \in DOMAIN observed : i \in DOMAIN observed' /\ observed'[i] = observed[i]
                      /\ \E i \in DOMAIN observed' : observed'[i] = ev
    OBVIOUS
  <2>1. observed' = Append(observed, ev)
    BY <1>2
  <2>2. /\ DOMAIN observed = 1 .. Len(observed) /\ Len(observed) \in Nat
        /\ DOMAIN observed' = 1 .. Len(observed) + 1
        /\ \A i \in 1 .. Len(observed) : observed'[i] = observed[i]
        /\ observed'[Len(observed) + 1] = ev
    BY <1>1, <2>1, AppendFacts
  <2>3. Len(observed) + 1 \in DOMAIN observed'
    BY <2>2
  <2> QED BY <2>2, <2>3
<1>5. CASE k = KeyOf[s]
  <2>1. owner[k] = s
    BY <1>0, <1>5 DEF Alone
  <2>2. IsWaiting(s)
    BY <1>5 DEF Life, IsNew, IsThrough
  <2>3. Gone(s)'
    <3>1. pending'[k] = None
      BY EmitFacts
    <3> QED BY <1>5, <2>2, <3>1 DEF Gone, IsWaiting
  <2>4. BusUp => Told(s)'
    BY <1>1, <1>4, <2>1 DEF Told
  <2> QED BY <1>3, <2>3, <2>4 DEF Settled
<1>6. CASE k # KeyOf[s]
  <2>1. pending'[KeyOf[s]] = pending[KeyOf[s]]
    BY <1>0, <1>6, EmitFacts
  <2>2. Gone(s)' <=> Gone(s)
    BY <2>1 DEF Gone
  <2>3. BusUp /\ Told(s) => Told(s)'
    BY <1>4 DEF Told
  <2>4. s \in marked' => s \in marked
    BY <1>0, <1>2, <1>6
  <2> QED BY <1>3, <2>2, <2>3, <2>4 DEF Settled
<1> QED BY <1>5, <1>6

LEMMA SettledStep ==
    IInv /\ (\A s \in Segs : Alone(s) => Settled(s)) /\ [Next]_vars
      => (\A s \in Segs : Alone(s) => Settled(s))'
<1> SUFFICES ASSUME IInv, \A s \in Segs : Alone(s) => Settled(s), [Next]_vars,
                    NEW s \in Segs, Alone(s)
             PROVE  Settled(s)'
  BY DEF Alone
<1>0. /\ TypeOK /\ Pools /\ Jobs /\ Entries /\ Life(s) /\ Settled(s) /\ KeyOf[s] \in Keys
      /\ errors \in [Keys -> SUBSET Files] /\ (~ BusUp => ~ BusUp')
  BY SegFacts, ToldKept DEF IInv, TypeOK, Lives
<1>1. ASSUME UNCHANGED <<observed, marked>>, Gone(s)' <=> Gone(s)
      PROVE  Settled(s)'
  BY <1>0, <1>1 DEF Settled, Told
<1>2. ASSUME NEW t \in Segs, Receive(t) PROVE Settled(s)'
  <2>1. /\ UNCHANGED <<observed, marked, pending>> /\ listener = None
        /\ announced' = announced \cup {t} /\ t \notin announced
        /\ listener' = [seg |-> t, step |-> "register", todo |-> FilesOf[t]]
    BY <1>2 DEF Receive
  <2>2. listener' # None /\ listener'.seg = t /\ listener'.step = "register"
    <3>1. FilesOf[t] \in SUBSET Files /\ "register" \in Steps
      BY SegFacts DEF Steps
    <3> QED BY <2>1, <3>1, SenseAssumption DEF Steps
  <2>3. New(s)' <=> New(s)
    BY <2>1, <2>2 DEF New
  <2> QED BY <1>1, <2>1, <2>3 DEF Gone
<1>3. CASE PreRegister
  <2>1. PICK t \in Segs :
             /\ listener # None /\ listener.step = "register" /\ listener.seg = t
             /\ listener'.step = "files" /\ listener'.seg = t
             /\ \A l \in Keys : l # KeyOf[t] => pending'[l] = pending[l]
             /\ pending'[KeyOf[t]] # None
             /\ UNCHANGED <<observed, marked, announced>>
    BY <1>0, <1>3, RegisterFacts
  <2>2. CASE s = t
    <3>1. ~ Gone(s) /\ ~ Gone(s)'
      BY <2>1, <2>2 DEF Gone, New
    <3> QED BY <1>1, <2>1, <3>1
  <2>3. CASE s # t
    <3>1. KeyOf[s] # KeyOf[t]
      BY <2>3 DEF Alone
    <3>2. Gone(s)' <=> Gone(s)
      BY <1>0, <2>1, <2>3, <3>1 DEF Gone, New
    <3> QED BY <1>1, <2>1, <3>2
  <2> QED BY <2>2, <2>3
<1>4. ASSUME NEW f \in Files, HandleFile(f) PROVE Settled(s)'
  <2>1. /\ UNCHANGED table /\ UNCHANGED announced
        /\ listener # None /\ listener' # None
        /\ listener.step = "files" /\ listener'.step = "files"
    BY <1>0, <1>4, HandleFacts
  <2> QED BY <1>1, <2>1 DEF table, Gone, New
<1>5. CASE CloseMessage
  <2>1. PICK t \in Segs :
             /\ listener # None /\ listener.step = "files" /\ listener.seg = t
             /\ KeyOf[t] \in Keys
             /\ \/ UNCHANGED table
                \/ /\ pending[KeyOf[t]] # None
                   /\ EmitObserved(KeyOf[t], errors[KeyOf[t]])
             /\ listener' = None /\ UNCHANGED announced /\ UNCHANGED stopping
    BY <1>0, <1>5, CloseFacts
  <2>2. New(s)' <=> New(s)
    BY <2>1 DEF New
  <2>3. CASE UNCHANGED table
    BY <1>1, <2>2, <2>3 DEF table, Gone
  <2>4. CASE /\ pending[KeyOf[t]] # None
             /\ EmitObserved(KeyOf[t], errors[KeyOf[t]])
    <3>1. errors[KeyOf[t]] \in SUBSET Files /\ UNCHANGED phase
      BY <1>0, <2>1 DEF stopping
    <3> QED BY <1>0, <2>1, <2>2, <2>4, <3>1, EmitSettles
  <2> QED BY <2>1, <2>3, <2>4
<1>6. ASSUME NEW f \in Files, NEW bad \in BOOLEAN, NEW j \in {"reported", "done"},
             Reports(f, bad, j)
      PROVE  Settled(s)'
  <2>1. /\ job[f] # "none" /\ CheckObserved(f, bad) /\ UNCHANGED <<announced, listener, phase>>
    BY <1>6 DEF Reports, stopping
  <2>2. PICK t \in Segs : LET k == KeyOf[t]
                              errs == errors[k] \cup (IF bad THEN {f} ELSE {}) IN
             /\ k \in Keys
             /\ \/ UNCHANGED table
                \/ pending[k] # None /\ EmitObserved(k, errs)
                \/ /\ pending[k] # None /\ pending' = [pending EXCEPT ![k] = @ \ {f}]
                   /\ UNCHANGED <<owner, stream, observed, marked>>
    BY <1>0, <2>1, CheckFacts
  <2>3. PICK errs \in SUBSET Files :
             errs = errors[KeyOf[t]] \cup (IF bad THEN {f} ELSE {})
    BY <1>0, <2>2
  <2>4. New(s)' <=> New(s)
    BY <2>1 DEF New
  <2>5. CASE UNCHANGED table
    BY <1>1, <2>4, <2>5 DEF table, Gone
  <2>6. CASE pending[KeyOf[t]] # None /\ EmitObserved(KeyOf[t], errs)
    BY <1>0, <2>1, <2>2, <2>4, <2>6, EmitSettles
  <2>7. CASE /\ pending[KeyOf[t]] # None
             /\ pending' = [pending EXCEPT ![KeyOf[t]] = @ \ {f}]
             /\ UNCHANGED <<owner, stream, observed, marked>>
    <3>1. pending[KeyOf[t]] \in SUBSET Files /\ pending'[KeyOf[t]] = pending[KeyOf[t]] \ {f}
      BY <1>0, <2>2, <2>7 DEF TypeOK
    <3>2. pending'[KeyOf[t]] # None
      <4>1. pending'[KeyOf[t]] \in SUBSET Files
        BY <3>1
      <4> QED BY <4>1, SenseAssumption
    <3>3. \A l \in Keys : l # KeyOf[t] => pending'[l] = pending[l]
      BY <1>0, <2>7 DEF TypeOK
    <3>4. Gone(s)' <=> Gone(s)
      BY <1>0, <2>4, <2>7, <3>2, <3>3 DEF Gone
    <3> QED BY <1>1, <2>7, <3>4
  <2> QED BY <2>2, <2>3, <2>5, <2>6, <2>7
<1>7. CASE Moves
  BY <1>1, <1>7 DEF Moves, table, Gone, New
<1> QED BY <1>0, <1>2, <1>3, <1>4, <1>5, <1>6, <1>7, StepFacts

LEMMA SettledInvariance == Spec => [](IInv /\ \A s \in Segs : Alone(s) => Settled(s))
<1>1. Init => \A s \in Segs : Alone(s) => Settled(s)
  BY DEF Init, Settled, Gone, New
<1> QED BY <1>1, SettledStep, Invariance, PTL DEF Spec

\* What AnnouncedIsObserved comes down to when the workers have done their part: an
\* entry does not go without its event.
THEOREM EventsSent == Spec => []EventIsSent
<1>1. (\A s \in Segs : Alone(s) => Settled(s)) => EventIsSent
  BY DEF Settled, Gone, EventIsSent
<1> QED BY <1>1, SettledInvariance, PTL

\* The day is not marked, and so not due for its daily run, while a handler of the
\* segment is queued, runs or is still to be asked for.
MarkedAfterLastFile ==
    \A s \in marked : Alone(s) => \A f \in Matched(s) : job[f] \in {"reported", "done"}

\* stream.updated is touched when the segment's last handler has reported
\* (sense.py: _check_segment_observed, _emit_segment_observed).
THEOREM MarkedLast == Spec => []MarkedAfterLastFile
<1>1. IInv /\ (\A s \in Segs : Alone(s) => Settled(s)) => MarkedAfterLastFile
  <2> SUFFICES ASSUME IInv, \A s \in Segs : Alone(s) => Settled(s), NEW s \in marked, Alone(s),
                      NEW f \in Matched(s)
               PROVE  job[f] \in {"reported", "done"}
    BY DEF MarkedAfterLastFile
  <2>1. s \in Segs /\ Life(s)
    BY DEF IInv, TypeOK, Lives
  <2>2. Gone(s)
    BY <2>1 DEF Settled
  <2>3. IsThrough(s)
    BY <2>1, <2>2 DEF Gone, Life, IsNew, IsWaiting
  <2> QED BY <2>3 DEF IsThrough, Through
<1> QED BY <1>1, SettledInvariance, PTL

=============================================================================
