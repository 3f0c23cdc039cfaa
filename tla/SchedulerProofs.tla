-------------------------- MODULE SchedulerProofs --------------------------
(***************************************************************************)
(* Proofs about Scheduler, for every set of entries, every partition of    *)
(* their commands and every bound.                                         *)
(***************************************************************************)
EXTENDS Scheduler, FiniteSetTheorems, SequenceTheorems, TLAPS

-----------------------------------------------------------------------------
(* The inductive invariant *)

\* A task is in the partition of its command and is named for it, or unnamed.
AtHome(t, p) == Partition[t.cmd] = p /\ t.name \in {t.cmd, None}

Homes ==
    \A p \in Part :
        /\ run[p].phase # "idle" => AtHome(run[p].task, p)
        /\ \A i \in DOMAIN queues[p] : AtHome(queues[p][i], p)

\* The file is never ahead of the clock, nor of a run that is to be recorded,
\* and what the writer read is still what the file says.
Records ==
    /\ \A e \in Coarse : seen[e] <= mark[e]
    /\ \A e \in Entry : lastRun[e] <= mark[e]
    /\ \A p \in Part :
         run[p].phase \in {"ended", "recording"} /\ run[p].task.name # None =>
             lastRun[run[p].task.name] <= run[p].period
             /\ run[p].period <= mark[run[p].task.name]
    /\ \A p \in Part :
         copy[p] = IF p = writer /\ p \notin blind THEN lastRun ELSE Blank

\* A run of e in partition p that will be recorded as one of this period.
Counts(e, p) ==
    /\ run[p].phase \in {"starting", "active", "ended", "recording"}
    /\ run[p].task.name = e
    /\ run[p].phase \in {"ended", "recording"} => run[p].period = mark[e]

Asked(e) == \E i \in DOMAIN requests : requests[i] = e
Waits(e, p) == \E i \in DOMAIN queues[p] : queues[p][i].name = e
OnItsWay(e) == Asked(e) \/ \E p \in Part : Counts(e, p) \/ Waits(e, p)

Accounted ==
    main = "loop" =>
        \A e \in Coarse :
            Due(e) /\ seen[e] = mark[e] => OnItsWay(e) \/ e \in missed

IInv == TypeOK /\ Homes /\ Records /\ Accounted

-----------------------------------------------------------------------------
(* Lemmas about the operators *)

\* SetToSeq puts every element of a finite set somewhere in a sequence.
LEMMA SetToSeqFacts ==
    ASSUME NEW S, IsFiniteSet(S)
    PROVE  /\ SetToSeq(S) \in Seq(S)
           /\ Len(SetToSeq(S)) = Cardinality(S) /\ Cardinality(S) \in Nat
           /\ \A e \in S : \E i \in 1 .. Cardinality(S) : SetToSeq(S)[i] = e
<1> DEFINE n == Cardinality(S)
           f == SetToSeq(S)
<1>1. n \in Nat /\ ExistsBijection(1 .. n, S)
  BY FS_CardinalityType
<1>2. \E g \in [1 .. n -> S] : IsInjective(g)
  BY <1>1 DEF ExistsBijection, Bijection, Injection
<1>3. f \in [1 .. n -> S] /\ IsInjective(f)
  BY <1>2 DEF SetToSeq
<1>4. f \in Injection(1 .. n, S)
  BY <1>3 DEF Injection
<1>5. Cardinality(1 .. n) = n
  BY <1>1, FS_Interval
<1>6. f \in Surjection(1 .. n, S)
  BY <1>4, <1>5, FS_Injection
<1>7. f \in Seq(S) /\ Len(f) = n
  BY <1>1, <1>3
<1> QED BY <1>1, <1>6, <1>7 DEF Surjection

\* Submit keeps the requests that are there and adds the new ones.
LEMMA SubmitFacts ==
    ASSUME TypeOK, NEW es \in SUBSET Entry, Submit(es)
    PROVE  /\ requests' \in Seq(Entry) /\ Len(requests') <= MaxRequests
           /\ \A e \in Entry : Asked(e) \/ e \in es => Asked(e)'
<1> DEFINE s == SetToSeq(es)
<1>1. /\ s \in Seq(es) /\ Len(s) = Cardinality(es)
      /\ \A e \in es : \E i \in 1 .. Len(s) : s[i] = e
  BY SetToSeqFacts, FS_Subset, SchedulerAssumption
<1>2. s \in Seq(Entry)
  BY <1>1, SeqMonotonic
<1>3. requests' = requests \o s /\ Len(requests) + Len(s) <= MaxRequests
  BY <1>1 DEF Submit
<1> HIDE DEF s
<1>4. /\ requests' \in Seq(Entry) /\ Len(requests') = Len(requests) + Len(s)
      /\ \A i \in 1 .. Len(requests) + Len(s) :
           requests'[i] = IF i <= Len(requests) THEN requests[i]
                          ELSE s[i - Len(requests)]
  BY <1>2, <1>3, ConcatProperties DEF TypeOK
<1>7. /\ Len(requests) \in Nat /\ Len(s) \in Nat
      /\ DOMAIN requests' = 1 .. Len(requests) + Len(s)
  BY <1>2, <1>4 DEF TypeOK
<1>5. ASSUME NEW e \in Entry, Asked(e) PROVE Asked(e)'
  <2>1. PICK i \in 1 .. Len(requests) : requests[i] = e
    BY <1>5 DEF Asked, TypeOK
  <2>2. i \in DOMAIN requests' /\ requests'[i] = e
    BY <1>4, <1>7, <2>1
  <2> QED BY <2>2 DEF Asked
<1>6. ASSUME NEW e \in es PROVE Asked(e)'
  <2>1. PICK i \in 1 .. Len(s) : s[i] = e
    BY <1>1
  <2>2. /\ Len(requests) + i \in DOMAIN requests'
        /\ requests'[Len(requests) + i] = e
    BY <1>4, <1>7, <2>1
  <2> QED BY <2>2 DEF Asked
<1> QED BY <1>3, <1>4, <1>5, <1>6, <1>2 DEF TypeOK

\* Tail and RemoveAt take away one request, and only that one.
LEMMA RemoveFacts ==
    ASSUME TypeOK, NEW i \in DOMAIN requests, requests' = RemoveAt(requests, i)
    PROVE  /\ requests' \in Seq(Entry) /\ Len(requests') <= MaxRequests
           /\ requests[i] \in Entry
           /\ \A e \in Entry : Asked(e) /\ e # requests[i] => Asked(e)'
<1> DEFINE a == SubSeq(requests, 1, i - 1)
           b == SubSeq(requests, i + 1, Len(requests))
<1>1. requests \in Seq(Entry) /\ i \in 1 .. Len(requests) /\ Len(requests) \in Nat
  BY DEF TypeOK
<1>2. /\ a \in Seq(Entry) /\ Len(a) = i - 1
      /\ \A j \in 1 .. i - 1 : a[j] = requests[j]
  BY <1>1
<1>3. /\ b \in Seq(Entry) /\ Len(b) = Len(requests) - i
      /\ \A j \in 1 .. Len(requests) - i : b[j] = requests[i + j]
  BY <1>1
<1>4. requests' = a \o b
  BY DEF RemoveAt
<1> HIDE DEF a, b
<1>5. /\ requests' \in Seq(Entry) /\ Len(requests') = Len(requests) - 1
      /\ \A j \in 1 .. Len(requests) - 1 :
           requests'[j] = IF j <= i - 1 THEN a[j] ELSE b[j - (i - 1)]
  <2>1. /\ a \o b \in Seq(Entry)
        /\ Len(a \o b) = Len(a) + Len(b)
        /\ \A j \in 1 .. Len(a) + Len(b) :
             (a \o b)[j] = IF j <= Len(a) THEN a[j] ELSE b[j - Len(a)]
    BY <1>2, <1>3, ConcatProperties
  <2>2. Len(a) = i - 1 /\ Len(a) + Len(b) = Len(requests) - 1
    BY <1>1, <1>2, <1>3
  <2> QED  BY ONLY <1>4, <2>1, <2>2
<1>6. ASSUME NEW e \in Entry, Asked(e), e # requests[i] PROVE Asked(e)'
  <2>1. PICK k \in 1 .. Len(requests) : requests[k] = e /\ k # i
    BY <1>6, <1>1 DEF Asked
  <2>2. CASE k < i
    <3>1. k \in 1 .. Len(requests) - 1 /\ k <= i - 1
      BY <2>2, <1>1
    <3>2. requests'[k] = e /\ k \in DOMAIN requests'
      BY <3>1, <1>2, <1>5, <2>1
    <3> QED BY <3>2 DEF Asked
  <2>3. CASE k > i
    <3>1. /\ k - 1 \in 1 .. Len(requests) - 1 /\ ~(k - 1 <= i - 1)
          /\ k - i \in 1 .. Len(requests) - i /\ k - 1 - (i - 1) = k - i
          /\ i + (k - i) = k
      BY <2>3, <1>1
    <3>2. requests'[k - 1] = b[k - i]
      BY <3>1, <1>5
    <3>3. b[k - i] = e
      BY <3>1, <1>3, <2>1
    <3>4. k - 1 \in DOMAIN requests'
      BY <3>1, <1>5
    <3> QED BY <3>2, <3>3, <3>4 DEF Asked
  <2> QED BY <1>1, <2>1, <2>2, <2>3
<1>7. requests[i] \in Entry
  BY <1>1
<1> QED BY <1>1, <1>5, <1>6, <1>7, SchedulerAssumption DEF TypeOK

\* Enqueue starts the task or puts it behind others of its partition; it
\* disturbs no task that is there.
LEMMA EnqueueFacts ==
    ASSUME TypeOK, Homes, NEW t \in Task, t.name \in {t.cmd, None}, Enqueue(t),
           UNCHANGED mark
    PROVE  /\ run' \in [Part -> [phase : Phases, task : Task \cup {None},
                                 period : 0..MaxMark]]
           /\ queues' \in [Part -> Seq(Task)]
           /\ \A p \in Part :
                \/ run'[p] = run[p]
                \/ run[p].phase = "idle" /\ run'[p].phase = "starting"
                   /\ run'[p].task \in Task /\ AtHome(run'[p].task, p)
           /\ \A p \in Part : \A i \in DOMAIN queues'[p] : AtHome(queues'[p][i], p)
           /\ \A p \in Part : \A e \in Entry :
                (Counts(e, p) => Counts(e, p)') /\ (Waits(e, p) => Waits(e, p)')
<1> DEFINE q == Partition[t.cmd]
<1>1. q \in Part /\ t.cmd \in Entry
  BY SchedulerAssumption DEF Task, Part
<1>2. queues[q] \in Seq(Task)
  BY <1>1 DEF TypeOK
<1>3. CASE run[q].phase = "idle"
  <2>1. /\ queues' = queues
        /\ run' = [run EXCEPT ![q] = [phase |-> "starting", task |-> t, period |-> 0]]
    BY <1>3 DEF Enqueue
  <2>2. run'[q] = [phase |-> "starting", task |-> t, period |-> 0]
    BY <1>1, <2>1 DEF TypeOK
  <2>3. run' \in [Part -> [phase : Phases, task : Task \cup {None},
                           period : 0..MaxMark]]
    BY <1>1, <2>1, SchedulerAssumption DEF TypeOK, Phases
  <2>4. \A p \in Part : p # q => run'[p] = run[p]
    BY <1>1, <2>1 DEF TypeOK
  <2>5. ASSUME NEW p \in Part, NEW e \in Entry, Counts(e, p) PROVE Counts(e, p)'
    BY <1>3, <2>4, <2>5 DEF Counts
  <2> QED BY <1>1, <1>3, <2>1, <2>2, <2>3, <2>4, <2>5 DEF TypeOK, Homes, AtHome, Waits
<1>4. CASE run[q].phase # "idle" /\ ~Queued(q, t.cmd)
  <2>1. run' = run /\ queues' = [queues EXCEPT ![q] = Append(@, t)]
    BY <1>4 DEF Enqueue
  <2>2. /\ queues' \in [Part -> Seq(Task)]
        /\ \A p \in Part : p # q => queues'[p] = queues[p]
        /\ queues'[q] = Append(queues[q], t)
    BY <1>1, <1>2, <2>1 DEF TypeOK
  <2>3. /\ DOMAIN queues[q] = 1 .. Len(queues[q]) /\ Len(queues[q]) \in Nat
        /\ DOMAIN queues'[q] = 1 .. Len(queues[q]) + 1
        /\ \A i \in 1 .. Len(queues[q]) : queues'[q][i] = queues[q][i]
        /\ queues'[q][Len(queues[q]) + 1] = t
    BY <1>2, <2>2
  <2>4. ASSUME NEW p \in Part, NEW i \in DOMAIN queues'[p]
        PROVE  AtHome(queues'[p][i], p)
    <3>1. CASE p # q
      BY <3>1, <2>2 DEF Homes
    <3>2. CASE p = q
      <4>1. CASE i = Len(queues[q]) + 1
        BY <4>1, <3>2, <2>3 DEF AtHome
      <4>2. CASE i # Len(queues[q]) + 1
        <5>1. i \in 1 .. Len(queues[q])
          BY <4>2, <3>2, <2>3
        <5> QED BY <5>1, <3>2, <2>3 DEF Homes
      <4> QED BY <4>1, <4>2
    <3> QED BY <3>1, <3>2
  <2>5. ASSUME NEW p \in Part, NEW e \in Entry, Waits(e, p)
        PROVE  Waits(e, p)'
    <3>1. CASE p # q
      BY <3>1, <2>2, <2>5 DEF Waits
    <3>2. CASE p = q
      <4>1. PICK i \in 1 .. Len(queues[q]) : queues[q][i].name = e
        BY <2>3, <2>5, <3>2 DEF Waits
      <4>2. i \in DOMAIN queues'[q] /\ queues'[q][i].name = e
        BY <4>1, <2>3
      <4> QED BY <4>2, <3>2 DEF Waits
    <3> QED BY <3>1, <3>2
  <2> QED BY <2>1, <2>2, <2>4, <2>5 DEF TypeOK, Counts
<1>5. CASE run[q].phase # "idle" /\ Queued(q, t.cmd)
  <2>1. run' = run /\ queues' = queues
    BY <1>1, <1>5 DEF Enqueue, TypeOK
  <2> QED BY <2>1 DEF TypeOK, Homes, Counts, Waits
<1> QED BY <1>3, <1>4, <1>5

\* ProcessNext starts the head of the queue, or leaves the partition idle.
LEMMA ProcessNextFacts ==
    ASSUME TypeOK, Homes, NEW q \in Part, ProcessNext(q)
    PROVE  /\ run' \in [Part -> [phase : Phases, task : Task \cup {None},
                                 period : 0..MaxMark]]
           /\ queues' \in [Part -> Seq(Task)]
           /\ \A p \in Part : p # q => run'[p] = run[p]
           /\ \/ run'[q].phase = "idle"
              \/ run'[q].phase = "starting"
                 /\ run'[q].task \in Task /\ AtHome(run'[q].task, q)
           /\ \A p \in Part : \A i \in DOMAIN queues'[p] : AtHome(queues'[p][i], p)
           /\ \A p \in Part : \A e \in Entry :
                Counts(e, p) \/ Waits(e, p) => Counts(e, p)' \/ Waits(e, p)'
<1>1. /\ UNCHANGED mark
      /\ run[q].phase = "recorded" \/ (run[q].phase = "ended" /\ run[q].task.name = None)
  BY DEF ProcessNext, clock
<1>2. queues[q] \in Seq(Task)
  BY DEF TypeOK
<1>3. \A e \in Entry : ~Counts(e, q)
  BY <1>1, SchedulerAssumption DEF Counts
<1>4. CASE queues[q] # <<>>
  <2>1. /\ run' = [run EXCEPT ![q] = [phase |-> "starting", task |-> Head(queues[q]),
                                      period |-> 0]]
        /\ queues' = [queues EXCEPT ![q] = Tail(@)]
    BY <1>4 DEF ProcessNext
  <2>2. /\ Head(queues[q]) \in Task /\ Tail(queues[q]) \in Seq(Task)
        /\ Head(queues[q]) = queues[q][1] /\ 1 \in DOMAIN queues[q]
        /\ DOMAIN Tail(queues[q]) = 1 .. Len(queues[q]) - 1
        /\ DOMAIN queues[q] = 1 .. Len(queues[q]) /\ Len(queues[q]) \in Nat
        /\ \A i \in 1 .. Len(queues[q]) - 1 : Tail(queues[q])[i] = queues[q][i + 1]
    BY <1>2, <1>4
  <2>3. /\ run' \in [Part -> [phase : Phases, task : Task \cup {None},
                              period : 0..MaxMark]]
        /\ run'[q] = [phase |-> "starting", task |-> Head(queues[q]), period |-> 0]
        /\ \A p \in Part : p # q => run'[p] = run[p]
    BY <2>1, <2>2, SchedulerAssumption DEF TypeOK, Phases
  <2>4. /\ queues' \in [Part -> Seq(Task)] /\ queues'[q] = Tail(queues[q])
        /\ \A p \in Part : p # q => queues'[p] = queues[p]
    BY <2>1, <2>2 DEF TypeOK
  <2>5. \A p \in Part : \A i \in DOMAIN queues'[p] : AtHome(queues'[p][i], p)
    <3>1. \A i \in DOMAIN queues'[q] : AtHome(queues'[q][i], q)
      BY <2>2, <2>4 DEF Homes
    <3> QED BY <3>1, <2>4 DEF Homes
  <2>6. AtHome(Head(queues[q]), q)
    BY <2>2 DEF Homes
  <2>7. ASSUME NEW e \in Entry, Waits(e, q) PROVE Counts(e, q)' \/ Waits(e, q)'
    <3>1. PICK i \in 1 .. Len(queues[q]) : queues[q][i].name = e
      BY <2>2, <2>7 DEF Waits
    <3>2. CASE i = 1
      BY <3>1, <3>2, <2>2, <2>3 DEF Counts
    <3>3. CASE i # 1
      <4>1. i - 1 \in 1 .. Len(queues[q]) - 1 /\ (i - 1) + 1 = i
        BY <3>1, <3>3, <2>2
      <4>2. i - 1 \in DOMAIN queues'[q] /\ queues'[q][i - 1].name = e
        BY <4>1, <3>1, <2>2, <2>4
      <4> QED BY <4>2 DEF Waits
    <3> QED BY <3>2, <3>3
  <2>8. \A p \in Part : \A e \in Entry :
          Counts(e, p) \/ Waits(e, p) => Counts(e, p)' \/ Waits(e, p)'
    <3>1. \A p \in Part \ {q} : \A e \in Entry :
            (Counts(e, p) => Counts(e, p)') /\ (Waits(e, p) => Waits(e, p)')
      BY <1>1, <2>3, <2>4 DEF Counts, Waits
    <3> QED BY <3>1, <1>3, <2>7
  <2> QED BY <2>2, <2>3, <2>4, <2>5, <2>6, <2>8
<1>5. CASE queues[q] = <<>>
  <2>1. run' = [run EXCEPT ![q] = Idle] /\ queues' = queues
    BY <1>5 DEF ProcessNext
  <2>2. /\ run' \in [Part -> [phase : Phases, task : Task \cup {None},
                              period : 0..MaxMark]]
        /\ run'[q] = Idle
        /\ \A p \in Part : p # q => run'[p] = run[p]
    BY <2>1, SchedulerAssumption DEF TypeOK, Phases, Idle
  <2>3. \A p \in Part : \A e \in Entry :
          Counts(e, p) \/ Waits(e, p) => Counts(e, p)' \/ Waits(e, p)'
    BY <1>1, <1>3, <2>1, <2>2 DEF Counts, Waits
  <2> QED BY <2>1, <2>2, <2>3 DEF TypeOK, Homes, Idle
<1> QED BY <1>4, <1>5

\* Phase moves one task and leaves the others alone.
LEMMA PhaseFacts ==
    ASSUME TypeOK, NEW q \in Part, NEW from, NEW to \in Phases, Phase(q, from, to)
    PROVE  /\ run' \in [Part -> [phase : Phases, task : Task \cup {None},
                                 period : 0..MaxMark]]
           /\ run[q].phase = from
           /\ run'[q].phase = to /\ run'[q].task = run[q].task
           /\ run'[q].period = run[q].period
           /\ \A p \in Part : p # q => run'[p] = run[p]
           /\ UNCHANGED <<main, clock, seen, requests, queues, extras>>
BY DEF Phase, TypeOK

\* Exit takes the period of the run from the clock.
LEMMA ExitFacts ==
    ASSUME TypeOK, Homes, NEW q \in Part, Exit(q)
    PROVE  /\ run' \in [Part -> [phase : Phases, task : Task \cup {None},
                                 period : 0..MaxMark]]
           /\ run[q].phase \in {"starting", "active"}
           /\ run'[q].phase = "ended" /\ run'[q].task = run[q].task
           /\ run[q].task.name # None => run[q].task.name \in Entry
                /\ run'[q].period = mark[run[q].task.name]
           /\ \A p \in Part : p # q => run'[p] = run[p]
<1>1. /\ run[q].phase \in {"starting", "active"}
      /\ run' = [run EXCEPT ![q] =
                   [phase |-> "ended", task |-> run[q].task,
                    period |-> IF run[q].task.name = None THEN 0
                               ELSE mark[run[q].task.name]]]
  BY DEF Exit
<1>2. run[q].task \in Task
  BY <1>1 DEF TypeOK
<1>3. run[q].task.name \in Entry \cup {None}
  BY <1>2 DEF Task
<1>4. (IF run[q].task.name = None THEN 0 ELSE mark[run[q].task.name]) \in 0..MaxMark
  BY <1>3, SchedulerAssumption DEF TypeOK
<1>5. run' \in [Part -> [phase : Phases, task : Task \cup {None}, period : 0..MaxMark]]
  BY <1>1, <1>2, <1>4 DEF TypeOK, Phases
<1>6. /\ run'[q].phase = "ended" /\ run'[q].task = run[q].task
      /\ run[q].task.name # None => run'[q].period = mark[run[q].task.name]
      /\ \A p \in Part : p # q => run'[p] = run[p]
  BY <1>1 DEF TypeOK
<1> QED BY <1>1, <1>3, <1>5, <1>6

-----------------------------------------------------------------------------
(* Type correctness *)

LEMMA TypeInit == Init => TypeOK
<1> SUFFICES ASSUME Init PROVE TypeOK
  OBVIOUS
<1>1. /\ mark \in [Entry -> 1..MaxMark] /\ seen \in [Coarse -> 0..MaxMark]
      /\ lastRun \in [Entry -> 0..MaxMark]
      /\ copy \in [Part -> [Entry -> 0..MaxMark]]
  BY SchedulerAssumption DEF Init, Blank
<1>2. /\ run \in [Part -> [phase : Phases, task : Task \cup {None}, period : 0..MaxMark]]
      /\ \A p \in Part : run[p].phase = "idle" /\ writer # p
  BY SchedulerAssumption DEF Init, Idle, Phases
<1>3. requests \in Seq(Entry) /\ Len(requests) <= MaxRequests
  BY SchedulerAssumption DEF Init
<1>4. queues \in [Part -> Seq(Task)]
  BY DEF Init
<1>5. /\ main = "down" /\ minute = FALSE /\ writer = None /\ blind = {} /\ missed = {}
      /\ extras \in 0..MaxExtra /\ faults \in 0..MaxFaults
  BY SchedulerAssumption DEF Init
<1>6. \A p \in Part : writer = p <=> run[p].phase = "recording"
  BY <1>2
<1> QED BY <1>1, <1>2, <1>3, <1>4, <1>5, <1>6 DEF TypeOK

LEMMA TypeStep == TypeOK /\ Homes /\ [Next]_vars => TypeOK'
<1> SUFFICES ASSUME TypeOK, Homes, [Next]_vars PROVE TypeOK'
  OBVIOUS
<1> USE SchedulerAssumption
<1>1. ASSUME NEW e \in Coarse, Boundary(e) PROVE TypeOK'
  <2>1. e \in Entry /\ mark[e] \in 1..MaxMark /\ mark[e] < MaxMark
    BY <1>1 DEF Boundary, Entry, TypeOK
  <2>2. mark' \in [Entry -> 1..MaxMark]
    BY <1>1, <2>1 DEF Boundary, TypeOK
  <2> QED BY <1>1, <2>2 DEF TypeOK, Boundary, file, tasks
<1>2. ASSUME NEW e \in Interval, Lapse(e) PROVE TypeOK'
  <2>1. e \in Entry /\ mark[e] \in 1..MaxMark /\ mark[e] < MaxMark
    BY <1>2 DEF Lapse, Entry, TypeOK
  <2>2. mark' \in [Entry -> 1..MaxMark]
    BY <1>2, <2>1 DEF Lapse, TypeOK
  <2> QED BY <1>2, <2>2 DEF TypeOK, Lapse, file, tasks
<1>3. CASE Tick
  BY <1>3 DEF TypeOK, Tick, file, tasks
<1>4. CASE Start
  <2>1. \A e \in Coarse : mark[e] \in 0..MaxMark
    BY DEF TypeOK, Entry
  <2> QED BY <1>4, <2>1 DEF TypeOK, Start, file, tasks
<1>5. CASE CatchUp
  <2>1. requests' \in Seq(Entry) /\ Len(requests') <= MaxRequests
    BY <1>5, SubmitFacts DEF CatchUp
  <2> QED BY <1>5, <2>1 DEF TypeOK, CatchUp, file, tasks, clock
<1>6. CASE Check
  <2>1. requests' \in Seq(Entry) /\ Len(requests') <= MaxRequests
    <3> DEFINE es == {e \in Coarse : seen[e] # mark[e] /\ Due(e)} \cup
                     {e \in Interval : minute /\ Due(e)}
    <3>1. es \in SUBSET Entry /\ Submit(es)
      BY <1>6 DEF Check, Entry
    <3> QED BY <3>1, SubmitFacts
  <2>2. \A e \in Coarse : mark[e] \in 0..MaxMark
    BY DEF TypeOK, Entry
  <2> QED BY <1>6, <2>1, <2>2 DEF TypeOK, Check, file, tasks
<1>7. CASE Crash
  BY <1>7 DEF TypeOK, Crash, Fault, clock, Idle, Blank, Phases
<1>8. CASE Receive
  <2> DEFINE e == Head(requests)
  <2>1. requests # <<>> /\ 1 \in DOMAIN requests /\ e = requests[1] /\ e \in Entry
    BY <1>8 DEF Receive, TypeOK
  <2>2. requests' \in Seq(Entry) /\ Len(requests') <= MaxRequests
    BY <1>8, <2>1 DEF Receive, TypeOK
  <2>3. UNCHANGED <<main, clock, seen, file, extras, faults>>
    BY <1>8 DEF Receive
  <2>4. CASE run[Partition[e]].phase = "active"
    <3>1. missed' = missed \cup ({e} \cap Coarse) /\ UNCHANGED tasks
      BY <1>8, <2>4 DEF Receive, Miss
    <3> QED BY <2>2, <2>3, <3>1 DEF TypeOK, file, tasks, clock
  <2>5. CASE run[Partition[e]].phase # "active"
    <3> DEFINE t == [cmd |-> e, name |-> e]
    <3>1. /\ Enqueue(t)
          /\ missed' = missed \/ missed' = missed \cup ({e} \cap Coarse)
      BY <1>8, <2>5 DEF Receive, Miss
    <3>2. t \in Task /\ t.name \in {t.cmd, None} /\ UNCHANGED mark
      BY <2>1, <2>3 DEF Task, clock
    <3> HIDE DEF t
    <3>3. /\ run' \in [Part -> [phase : Phases, task : Task \cup {None},
                                period : 0..MaxMark]]
          /\ queues' \in [Part -> Seq(Task)]
          /\ \A p \in Part : run'[p] = run[p]
               \/ (run[p].phase = "idle" /\ run'[p].phase = "starting"
                   /\ run'[p].task \in Task)
      BY <3>1, <3>2, EnqueueFacts
    <3> HIDE DEF e
    <3>4. missed' \subseteq Coarse
      BY <3>1 DEF TypeOK
    <3> QED BY <2>2, <2>3, <3>3, <3>4 DEF TypeOK, file, clock
  <2> QED BY <2>4, <2>5
<1>9. CASE Lose
  <2>1. PICK i \in DOMAIN requests :
          /\ requests' = RemoveAt(requests, i)
          /\ missed' = missed \cup ({requests[i]} \cap Coarse)
    BY <1>9 DEF Lose, Miss
  <2>2. requests' \in Seq(Entry) /\ Len(requests') <= MaxRequests
    BY <2>1, RemoveFacts
  <2>3. missed' \subseteq Coarse
    BY <2>1 DEF TypeOK
  <2>4. faults' \in 0..MaxFaults /\ UNCHANGED <<main, clock, seen, file, tasks, extras>>
    BY <1>9 DEF Lose, Fault, TypeOK
  <2> QED BY <2>2, <2>3, <2>4 DEF TypeOK, clock, file, tasks
<1>10. ASSUME NEW e \in Extra, SubmitExtra(e) PROVE TypeOK'
  <2> DEFINE t == [cmd |-> e, name |-> None]
  <2>1. t \in Task /\ t.name \in {t.cmd, None} /\ Enqueue(t) /\ UNCHANGED mark
    BY <1>10 DEF SubmitExtra, Task, clock
  <2>2. UNCHANGED <<main, clock, seen, file, requests, missed, faults>>
        /\ extras' \in 0..MaxExtra
    BY <1>10 DEF SubmitExtra, TypeOK
  <2> HIDE DEF t
  <2>3. /\ run' \in [Part -> [phase : Phases, task : Task \cup {None},
                              period : 0..MaxMark]]
        /\ queues' \in [Part -> Seq(Task)]
        /\ \A p \in Part : run'[p] = run[p]
             \/ (run[p].phase = "idle" /\ run'[p].phase = "starting"
                 /\ run'[p].task \in Task)
    BY <2>1, EnqueueFacts
  <2> QED BY <2>2, <2>3 DEF TypeOK, clock, file
<1>11. ASSUME NEW p \in Part, Begin(p) PROVE TypeOK'
  <2>1. Phase(p, "starting", "active") /\ "active" \in Phases
    BY <1>11 DEF Begin, Phases
  <2>2. UNCHANGED <<file, missed, faults>>
    BY <1>11 DEF Begin
  <2>3. /\ run' \in [Part -> [phase : Phases, task : Task \cup {None}, period : 0..MaxMark]]
        /\ run[p].phase = "starting" /\ run'[p].phase = "active"
        /\ run'[p].task = run[p].task
        /\ \A q \in Part : q # p => run'[q] = run[q]
        /\ UNCHANGED <<main, clock, seen, requests, queues, extras>>
    BY <2>1, PhaseFacts
  <2> QED BY <2>2, <2>3 DEF TypeOK, clock, file
<1>12. ASSUME NEW p \in Part, Exit(p) PROVE TypeOK'
  BY <1>12, ExitFacts DEF TypeOK, Exit, clock, file
<1>13. ASSUME NEW p \in Part, ReadState(p) PROVE TypeOK'
  <2>1. Phase(p, "ended", "recording") /\ "recording" \in Phases
    BY <1>13 DEF ReadState, Phases
  <2>2. \/ copy' = [copy EXCEPT ![p] = lastRun] /\ UNCHANGED <<blind, faults>>
        \/ blind' = blind \cup {p} /\ faults' \in 0..MaxFaults /\ UNCHANGED copy
    BY <1>13 DEF ReadState, Fault, TypeOK
  <2>3. writer = None /\ writer' = p /\ blind = {} /\ UNCHANGED <<lastRun, missed>>
    BY <1>13 DEF ReadState, TypeOK, Part
  <2>4. /\ run' \in [Part -> [phase : Phases, task : Task \cup {None}, period : 0..MaxMark]]
        /\ run[p].phase = "ended" /\ run'[p].phase = "recording"
        /\ run'[p].task = run[p].task
        /\ \A q \in Part : q # p => run'[q] = run[q]
        /\ UNCHANGED <<main, clock, seen, requests, queues, extras>>
    BY <2>1, PhaseFacts
  <2>5. /\ copy' \in [Part -> [Entry -> 0..MaxMark]]
        /\ blind' \subseteq {p} /\ faults' \in 0..MaxFaults
    <3>1. /\ copy \in [Part -> [Entry -> 0..MaxMark]]
          /\ lastRun \in [Entry -> 0..MaxMark] /\ faults \in 0..MaxFaults
      BY DEF TypeOK
    <3>2. copy' \in [Part -> [Entry -> 0..MaxMark]]
      BY <2>2, <3>1
    <3> QED BY <2>2, <2>3, <3>1, <3>2
  <2>6. \A q \in Part : q # p => run[q].phase # "recording"
    BY <2>3, SchedulerAssumption DEF TypeOK
  <2> QED BY <2>3, <2>4, <2>5, <2>6 DEF TypeOK, clock
<1>14. ASSUME NEW p \in Part, WriteState(p) \/ WriteFails(p) PROVE TypeOK'
  <2>1. /\ Phase(p, "recording", "recorded") /\ "recorded" \in Phases
        /\ Release(p) /\ faults' \in 0..MaxFaults
    BY <1>14 DEF WriteState, WriteFails, Phases, Fault, TypeOK
  <2>2. missed' \subseteq Coarse
    BY <1>14 DEF WriteState, WriteFails, Miss, TypeOK
  <2>3. lastRun' \in [Entry -> 0..MaxMark]
    <3>1. run[p].period \in 0..MaxMark /\ copy[p] \in [Entry -> 0..MaxMark]
      BY DEF TypeOK
    <3> QED BY <1>14, <3>1 DEF WriteState, WriteFails, TypeOK
  <2>4. writer = p /\ writer' = None /\ blind' = {}
    <3>1. run[p].phase = "recording"
      BY <2>1, PhaseFacts
    <3> QED BY <2>1, <3>1 DEF Release, TypeOK
  <2>5. copy' \in [Part -> [Entry -> 0..MaxMark]]
    BY <2>1 DEF Release, Blank, TypeOK
  <2>6. /\ run' \in [Part -> [phase : Phases, task : Task \cup {None}, period : 0..MaxMark]]
        /\ run[p].phase = "recording" /\ run'[p].phase = "recorded"
        /\ run'[p].task = run[p].task
        /\ \A q \in Part : q # p => run'[q] = run[q]
        /\ UNCHANGED <<main, clock, seen, requests, queues, extras>>
    BY <2>1, PhaseFacts
  <2>7. \A q \in Part : run'[q].phase # "recording"
    BY <2>4, <2>6 DEF TypeOK
  <2>8. None \notin Part /\ faults' \in 0..MaxFaults
    BY <2>1
  <2> QED BY <2>2, <2>3, <2>4, <2>5, <2>6, <2>7, <2>8 DEF TypeOK, clock
<1>15. ASSUME NEW p \in Part, ProcessNext(p) PROVE TypeOK'
  BY <1>15, ProcessNextFacts DEF TypeOK, ProcessNext, clock, file
<1>16. CASE UNCHANGED vars
  BY <1>16 DEF TypeOK, vars, clock, file, tasks
<1> QED
  BY <1>1, <1>2, <1>3, <1>4, <1>5, <1>6, <1>7, <1>8, <1>9, <1>10, <1>11, <1>12,
     <1>13, <1>14, <1>15, <1>16 DEF Next, Run

-----------------------------------------------------------------------------
(* The steps of the inductive invariant *)

\* What a received request or an unnamed submission does to the tasks.
LEMMA ReceiveFacts ==
    ASSUME TypeOK, Homes, Receive
    PROVE  \/ UNCHANGED tasks /\ missed' = missed \cup ({Head(requests)} \cap Coarse)
           \/ /\ run[Partition[Head(requests)]].phase # "active"
              /\ Enqueue([cmd |-> Head(requests), name |-> Head(requests)])
              /\ missed' = IF [cmd |-> Head(requests), name |-> None] \in
                                {queues[Partition[Head(requests)]][i] :
                                   i \in DOMAIN queues[Partition[Head(requests)]]}
                           THEN missed \cup ({Head(requests)} \cap Coarse) ELSE missed
BY DEF Receive, Miss

LEMMA HeadFacts ==
    ASSUME TypeOK, Receive
    PROVE  /\ Head(requests) \in Entry
           /\ [cmd |-> Head(requests), name |-> Head(requests)] \in Task
           /\ \A e \in Entry : Asked(e) /\ e # Head(requests) => Asked(e)'
           /\ UNCHANGED <<main, clock, seen, file, extras, faults>>
<1>1. requests # <<>> /\ requests \in Seq(Entry) /\ requests' = Tail(requests)
  BY DEF Receive, TypeOK
<1>2. /\ Head(requests) \in Entry /\ Head(requests) = requests[1]
      /\ DOMAIN requests = 1 .. Len(requests) /\ Len(requests) \in Nat
      /\ DOMAIN requests' = 1 .. Len(requests) - 1
      /\ \A i \in 1 .. Len(requests) - 1 : requests'[i] = requests[i + 1]
  BY <1>1
<1>3. ASSUME NEW e \in Entry, Asked(e), e # Head(requests) PROVE Asked(e)'
  <2>1. PICK i \in 1 .. Len(requests) : requests[i] = e /\ i # 1
    BY <1>2, <1>3 DEF Asked
  <2>2. i - 1 \in DOMAIN requests' /\ (i - 1) + 1 = i
    BY <1>2, <2>1
  <2>3. requests'[i - 1] = e
    BY <1>2, <2>1, <2>2
  <2> QED BY <2>2, <2>3 DEF Asked
<1> QED BY <1>2, <1>3 DEF Receive, Task

LEMMA HomesStep == TypeOK /\ Homes /\ [Next]_vars => Homes'
<1> SUFFICES ASSUME TypeOK, Homes, [Next]_vars PROVE Homes'
  OBVIOUS
<1>1. CASE UNCHANGED tasks
  BY <1>1 DEF Homes, tasks
<1>2. ASSUME NEW t \in Task, t.name \in {t.cmd, None}, Enqueue(t), UNCHANGED mark
      PROVE  Homes'
  <2>1. \A p \in Part : \/ run'[p] = run[p]
                        \/ run'[p].phase = "starting" /\ AtHome(run'[p].task, p)
    BY <1>2, EnqueueFacts
  <2>2. \A p \in Part : \A i \in DOMAIN queues'[p] : AtHome(queues'[p][i], p)
    BY <1>2, EnqueueFacts
  <2> QED BY <2>1, <2>2 DEF Homes, AtHome
<1>3. CASE Receive
  BY <1>1, <1>2, <1>3, ReceiveFacts, HeadFacts DEF clock
<1>4. ASSUME NEW e \in Extra, SubmitExtra(e) PROVE Homes'
  <2>1. /\ [cmd |-> e, name |-> None] \in Task
        /\ Enqueue([cmd |-> e, name |-> None]) /\ UNCHANGED mark
    BY <1>4, SchedulerAssumption DEF SubmitExtra, Task, clock
  <2> QED BY <2>1, <1>2
<1>5. CASE Crash
  BY <1>5 DEF Crash, Homes, Idle
<1>6. ASSUME NEW p \in Part, NEW from \in Phases \ {"idle"}, NEW to \in Phases,
             Phase(p, from, to)
      PROVE  Homes'
  <2>1. run[p].phase = from /\ run'[p].task = run[p].task /\ UNCHANGED queues
    BY <1>6, PhaseFacts
  <2>2. \A q \in Part : q # p => run'[q] = run[q]
    BY <1>6, PhaseFacts
  <2> QED BY <1>6, <2>1, <2>2 DEF Homes, AtHome
<1>7. ASSUME NEW p \in Part, Exit(p) PROVE Homes'
  BY <1>7, ExitFacts DEF Homes, AtHome, Exit
<1>8. ASSUME NEW p \in Part, ProcessNext(p) PROVE Homes'
  <2>1. /\ \A q \in Part : q # p => run'[q] = run[q]
        /\ run'[p].phase # "idle" => AtHome(run'[p].task, p)
        /\ \A q \in Part : \A i \in DOMAIN queues'[q] : AtHome(queues'[q][i], q)
    BY <1>8, ProcessNextFacts
  <2> QED BY <2>1 DEF Homes, AtHome
<1>9. ASSUME NEW p \in Part, Run(p) PROVE Homes'
  BY <1>9, <1>6, <1>7, <1>8
  DEF Run, Begin, ReadState, WriteState, WriteFails, Phases
<1> QED
  BY <1>1, <1>3, <1>4, <1>5, <1>9
  DEF Next, Boundary, Lapse, Tick, Start, CatchUp, Check, Lose, vars

\* What a step does to the runs that are over and to the file.
LEMMA RecordsStep == TypeOK /\ Homes /\ Records /\ [Next]_vars => Records'
<1> SUFFICES ASSUME TypeOK, Homes, Records, [Next]_vars PROVE Records'
  OBVIOUS
<1> DEFINE Over(p) == run[p].phase \in {"ended", "recording"} /\ run[p].task.name # None
           Kept(p) == ~Over(p)' \/ (Over(p) /\ run'[p].task = run[p].task
                                            /\ run'[p].period = run[p].period)
           Clock == /\ mark' \in [Entry -> 1..MaxMark]
                    /\ \A e \in Entry : mark[e] <= mark'[e]
           Seen == \A e \in Coarse : seen'[e] = seen[e] \/ seen'[e] <= mark'[e]
<1>1. \A p \in Part : Over(p) => run[p].task.name \in Entry
  BY DEF TypeOK, Task
<1>2. ASSUME Clock, Seen, UNCHANGED file, \A p \in Part : Kept(p) PROVE Records'
  <2>1. \A e \in Coarse : seen'[e] <= mark'[e]
    BY <1>2 DEF Records, TypeOK, Entry
  <2>2. \A e \in Entry : lastRun'[e] <= mark'[e]
    BY <1>2 DEF Records, TypeOK, file
  <2>3. ASSUME NEW p \in Part, Over(p)'
        PROVE  /\ lastRun'[run'[p].task.name] <= run'[p].period
               /\ run'[p].period <= mark'[run'[p].task.name]
    <3>1. Over(p) /\ run'[p].task = run[p].task /\ run'[p].period = run[p].period
      BY <1>2, <2>3
    <3>2. /\ lastRun[run[p].task.name] <= run[p].period
          /\ run[p].period <= mark[run[p].task.name]
      BY <3>1 DEF Records
    <3>3. run[p].period \in Nat /\ lastRun' = lastRun
      BY <1>2 DEF TypeOK, file
    <3> QED BY <1>1, <1>2, <3>1, <3>2, <3>3 DEF TypeOK
  <2>4. \A p \in Part :
          copy'[p] = IF p = writer' /\ p \notin blind' THEN lastRun' ELSE Blank
    BY <1>2 DEF Records, file
  <2> QED BY <2>1, <2>2, <2>3, <2>4 DEF Records
<1>3. UNCHANGED mark => Clock
  BY DEF TypeOK
<1>4. UNCHANGED tasks => \A p \in Part : Kept(p)
  BY DEF tasks
<1>5. ASSUME NEW e \in Entry, Boundary(e) \/ Lapse(e) PROVE Records'
  <2>1. mark' = [mark EXCEPT ![e] = @ + 1] /\ UNCHANGED <<seen, file, tasks>>
        /\ mark[e] < MaxMark
    BY <1>5 DEF Boundary, Lapse
  <2>2. Clock
    BY <2>1, SchedulerAssumption DEF TypeOK
  <2> QED BY <1>2, <1>4, <2>1, <2>2
<1>6. CASE Tick
  BY <1>2, <1>3, <1>4, <1>6 DEF Tick
<1>7. CASE Start \/ CatchUp \/ Check
  <2>1. Seen /\ UNCHANGED <<mark, file, tasks>>
    BY <1>7 DEF Start, CatchUp, Check, clock, TypeOK, Entry
  <2> QED BY <1>2, <1>3, <1>4, <2>1
<1>8. CASE Crash
  BY <1>8, SchedulerAssumption DEF Crash, Records, Idle, clock
<1>9. CASE Lose
  BY <1>2, <1>3, <1>4, <1>9 DEF Lose, clock
<1>10. ASSUME NEW t \in Task, t.name \in {t.cmd, None}, Enqueue(t),
              UNCHANGED <<mark, seen, file>>
       PROVE  Records'
  <2>1. \A p \in Part : run'[p] = run[p] \/ run'[p].phase = "starting"
    BY <1>10, EnqueueFacts
  <2>2. \A p \in Part : Kept(p)
    BY <2>1
  <2> QED BY <1>2, <1>3, <1>10, <2>2
<1>11. CASE Receive
  BY <1>2, <1>3, <1>4, <1>10, <1>11, ReceiveFacts, HeadFacts DEF clock
<1>12. ASSUME NEW e \in Extra, SubmitExtra(e) PROVE Records'
  <2>1. /\ [cmd |-> e, name |-> None] \in Task
        /\ Enqueue([cmd |-> e, name |-> None]) /\ UNCHANGED <<mark, seen, file>>
    BY <1>12, SchedulerAssumption DEF SubmitExtra, Task, clock
  <2> QED BY <2>1, <1>10
<1>13. ASSUME NEW p \in Part, Begin(p) PROVE Records'
  <2>1. Phase(p, "starting", "active") /\ "active" \in Phases /\ UNCHANGED file
    BY <1>13 DEF Begin, Phases
  <2>2. /\ run'[p].phase = "active" /\ UNCHANGED <<mark, seen>>
        /\ \A q \in Part : q # p => run'[q] = run[q]
    BY <2>1, PhaseFacts DEF clock
  <2>3. \A q \in Part : Kept(q)
    BY <2>2
  <2> QED BY <1>2, <1>3, <2>1, <2>2, <2>3
<1>14. ASSUME NEW p \in Part, Exit(p) PROVE Records'
  <2>1. /\ run'[p].task = run[p].task
        /\ run[p].task.name # None => run[p].task.name \in Entry
             /\ run'[p].period = mark[run[p].task.name]
        /\ \A q \in Part : q # p => run'[q] = run[q]
    BY <1>14, ExitFacts
  <2>2. UNCHANGED <<mark, seen, lastRun, writer, copy, blind>>
    BY <1>14 DEF Exit, clock, file
  <2>3. ASSUME NEW q \in Part, Over(q)'
        PROVE  /\ lastRun'[run'[q].task.name] <= run'[q].period
               /\ run'[q].period <= mark'[run'[q].task.name]
    <3>1. CASE q # p
      BY <2>1, <2>2, <2>3, <3>1 DEF Records
    <3>2. CASE q = p
      <4>1. /\ run[p].task.name \in Entry /\ run'[p].task.name = run[p].task.name
            /\ run'[p].period = mark[run[p].task.name]
        BY <2>1, <2>3, <3>2
      <4>2. /\ lastRun[run[p].task.name] <= mark[run[p].task.name]
            /\ mark[run[p].task.name] \in Nat
        BY <4>1 DEF Records, TypeOK
      <4> QED BY <2>2, <3>2, <4>1, <4>2
    <3> QED BY <3>1, <3>2
  <2> QED BY <2>2, <2>3 DEF Records
<1>15. ASSUME NEW p \in Part, ReadState(p) PROVE Records'
  <2>1. Phase(p, "ended", "recording") /\ "recording" \in Phases
    BY <1>15 DEF ReadState, Phases
  <2>2. /\ run[p].phase = "ended" /\ run'[p].task = run[p].task
        /\ run'[p].period = run[p].period /\ UNCHANGED <<mark, seen>>
        /\ \A q \in Part : q # p => run'[q] = run[q]
    BY <2>1, PhaseFacts DEF clock
  <2>3. /\ writer = None /\ writer' = p /\ blind = {} /\ UNCHANGED lastRun
        /\ \/ copy' = [copy EXCEPT ![p] = lastRun] /\ UNCHANGED blind
           \/ blind' = blind \cup {p} /\ UNCHANGED copy
    BY <1>15, SchedulerAssumption DEF ReadState, TypeOK
  <2>4. \A q \in Part : copy[q] = Blank
    BY <2>3, SchedulerAssumption DEF Records
  <2>5. \A q \in Part :
          copy'[q] = IF q = writer' /\ q \notin blind' THEN lastRun' ELSE Blank
    BY <2>3, <2>4 DEF TypeOK
  <2>6. \A q \in Part : Over(q)' => Over(q) /\ run'[q].task = run[q].task
                                    /\ run'[q].period = run[q].period
    BY <2>2
  <2> QED BY <2>2, <2>3, <2>5, <2>6 DEF Records
<1>16. ASSUME NEW p \in Part, WriteState(p) \/ WriteFails(p) PROVE Records'
  <2>1. Phase(p, "recording", "recorded") /\ "recorded" \in Phases /\ Release(p)
    BY <1>16 DEF WriteState, WriteFails, Phases
  <2>2. /\ run[p].phase = "recording" /\ run'[p].phase = "recorded"
        /\ UNCHANGED <<mark, seen>>
        /\ \A q \in Part : q # p => run'[q] = run[q]
    BY <2>1, PhaseFacts DEF clock
  <2>3. writer = p /\ writer' = None
    BY <2>1, <2>2 DEF Release, TypeOK
  <2>4. \A q \in Part : copy'[q] = Blank
    BY <2>1, <2>3 DEF Release, Records, TypeOK
  <2>5. copy[p] = lastRun \/ copy[p] = Blank
    BY DEF Records
  <2> DEFINE n == run[p].task.name
  <2>6. n # None => n \in Entry /\ lastRun[n] <= run[p].period
                    /\ run[p].period <= mark[n]
    BY <1>1, <2>2 DEF Records
  <2>7. \A e \in Entry : \/ lastRun'[e] = lastRun[e]
                         \/ lastRun'[e] = 0
                         \/ e = n /\ lastRun'[e] = run[p].period
    BY <1>16, <2>5 DEF WriteState, WriteFails, TypeOK, Blank
  <2>8. \A e \in Entry : lastRun'[e] <= mark'[e]
    <3> TAKE e \in Entry
    <3>1. lastRun[e] <= mark[e] /\ mark[e] \in Nat /\ mark' = mark
      BY <2>2 DEF Records, TypeOK
    <3>2. e = n => n # None
      BY SchedulerAssumption
    <3> QED BY <2>6, <2>7, <3>1, <3>2
  <2>9. ASSUME NEW q \in Part, Over(q)'
        PROVE  /\ lastRun'[run'[q].task.name] <= run'[q].period
               /\ run'[q].period <= mark'[run'[q].task.name]
    <3>1. q # p /\ run'[q] = run[q] /\ Over(q)
      BY <2>2, <2>9
    <3>2. run[q].task.name \in Entry /\ run[q].task.name # n
      BY <1>1, <2>2, <3>1 DEF Homes, AtHome
    <3>3. /\ lastRun[run[q].task.name] <= run[q].period
          /\ run[q].period <= mark[run[q].task.name] /\ run[q].period \in Nat
      BY <3>1 DEF Records, TypeOK
    <3> QED BY <2>2, <2>7, <3>1, <3>2, <3>3
  <2> QED BY <2>2, <2>3, <2>4, <2>8, <2>9, SchedulerAssumption DEF Records
<1>17. ASSUME NEW p \in Part, ProcessNext(p) PROVE Records'
  <2>1. /\ run'[p].phase \in {"idle", "starting"}
        /\ \A q \in Part : q # p => run'[q] = run[q]
    BY <1>17, ProcessNextFacts
  <2>2. UNCHANGED <<mark, seen, file>>
    BY <1>17 DEF ProcessNext, clock
  <2>3. \A q \in Part : Kept(q)
    BY <2>1
  <2> QED BY <1>2, <1>3, <2>2, <2>3
<1>18. CASE UNCHANGED vars
  BY <1>2, <1>3, <1>4, <1>18 DEF vars, clock
<1> QED
  BY <1>5, <1>6, <1>7, <1>8, <1>9, <1>11, <1>12, <1>13, <1>14, <1>15, <1>16,
     <1>17, <1>18 DEF Next, Run, Entry

\* Where Enqueue puts the task.
LEMMA EnqueuePlaces ==
    ASSUME TypeOK, NEW t \in Task, Enqueue(t), NEW q \in Part, q = Partition[t.cmd]
    PROVE  \/ run'[q].phase = "starting" /\ run'[q].task = t
           \/ \E i \in DOMAIN queues'[q] : queues'[q][i] = t
           \/ Queued(q, t.cmd) /\ UNCHANGED queues
<1>1. CASE run[q].phase = "idle"
  BY <1>1 DEF Enqueue, TypeOK
<1>2. CASE run[q].phase # "idle" /\ Queued(q, t.cmd)
  BY <1>2 DEF Enqueue, TypeOK
<1>3. CASE run[q].phase # "idle" /\ ~Queued(q, t.cmd)
  <2>1. queues'[q] = Append(queues[q], t) /\ queues[q] \in Seq(Task)
    BY <1>3 DEF Enqueue, TypeOK
  <2>2. /\ Len(queues[q]) + 1 \in DOMAIN queues'[q]
        /\ queues'[q][Len(queues[q]) + 1] = t
    BY <2>1
  <2> QED BY <2>2
<1> QED BY <1>1, <1>2, <1>3

\* An entry that was on its way still is, unless its run was recorded in time,
\* dropped, or a new period began.
LEMMA AccountedStep == IInv /\ [Next]_vars => Accounted'
<1> SUFFICES ASSUME IInv, [Next]_vars, main' = "loop", NEW e \in Coarse, Due(e)',
                    seen'[e] = mark'[e]
             PROVE  OnItsWay(e)' \/ e \in missed'
  BY DEF Accounted
<1> USE DEF IInv
<1> DEFINE Goal == OnItsWay(e)' \/ e \in missed'
           Before == Due(e) /\ seen[e] = mark[e] /\ main = "loop"
           Placed(p) == Counts(e, p) \/ Waits(e, p)
<1>1. e \in Entry
  BY DEF Entry
<1>2. ASSUME Before,
             Asked(e) => Goal,
             \A p \in Part : Placed(p) => Goal,
             e \in missed => Goal
      PROVE  Goal
  <2>1. OnItsWay(e) \/ e \in missed
    BY <1>2 DEF Accounted
  <2> QED BY <1>2, <2>1 DEF OnItsWay
<1>3. Asked(e)' => Goal
  BY DEF OnItsWay
<1>4. ASSUME NEW p \in Part PROVE Placed(p)' => Goal
  BY DEF OnItsWay
<1>5. UNCHANGED <<main, mark, seen, lastRun>> => Before
  BY DEF Due
<1>6. UNCHANGED <<run, queues>> /\ mark'[e] = mark[e] =>
          \A p \in Part : Placed(p) => Goal
  <2>1. UNCHANGED <<run, queues>> /\ mark'[e] = mark[e] =>
            \A p \in Part : Placed(p) => Placed(p)'
    BY DEF Counts, Waits
  <2> QED BY <1>4, <2>1
<1>7. UNCHANGED requests => (Asked(e) => Goal)
  BY <1>3 DEF Asked
<1>8. missed \subseteq missed' => (e \in missed => Goal)
  OBVIOUS
<1> SUFFICES Goal
  OBVIOUS
<1> HIDE DEF Goal, Placed
<1>9. ASSUME NEW x \in Coarse, Boundary(x) PROVE Goal
  <2>1. /\ UNCHANGED <<main, seen, lastRun, requests, run, queues>>
        /\ mark' = [mark EXCEPT ![x] = @ + 1] /\ missed' = missed \ {x}
    BY <1>9 DEF Boundary, file, tasks
  <2>2. x # e
    <3>1. seen[e] <= mark[e] /\ seen[e] \in Nat /\ mark[e] \in Nat
      BY <1>1 DEF Records, TypeOK
    <3> QED BY <1>1, <2>1, <3>1 DEF TypeOK
  <2>3. mark'[e] = mark[e]
    BY <1>1, <2>1, <2>2 DEF TypeOK
  <2>4. Before /\ (e \in missed => Goal)
    BY <2>1, <2>2, <2>3 DEF Due, Goal
  <2> QED BY <1>2, <1>6, <1>7, <2>1, <2>3, <2>4
<1>10. ASSUME NEW x \in Interval, Lapse(x) PROVE Goal
  <2>1. /\ UNCHANGED <<main, seen, lastRun, requests, run, queues, missed>>
        /\ mark' = [mark EXCEPT ![x] = @ + 1]
    BY <1>10 DEF Lapse, file, tasks
  <2>2. mark'[e] = mark[e]
    BY <1>1, <2>1, SchedulerAssumption DEF TypeOK
  <2>3. Before /\ (e \in missed => Goal)
    BY <2>1, <2>2 DEF Due, Goal
  <2> QED BY <1>2, <1>6, <1>7, <2>1, <2>2, <2>3
<1>11. CASE UNCHANGED <<main, mark, seen, lastRun, requests, run, queues, missed>>
  BY <1>2, <1>5, <1>6, <1>7, <1>8, <1>11
<1>12. CASE Tick \/ UNCHANGED vars
  BY <1>11, <1>12 DEF Tick, vars, clock, file, tasks
<1>13. CASE CatchUp
  <2>1. /\ Submit({x \in Entry : Due(x)}) /\ UNCHANGED <<mark, lastRun>>
    BY <1>13 DEF CatchUp, clock, file
  <2>2. e \in {x \in Entry : Due(x)}
    BY <1>1, <2>1 DEF Due
  <2>3. Asked(e)'
    BY <1>1, <2>1, <2>2, SubmitFacts
  <2> QED BY <1>3, <2>3
<1>14. CASE Check
  <2> DEFINE es == {x \in Coarse : seen[x] # mark[x] /\ Due(x)} \cup
                   {x \in Interval : minute /\ Due(x)}
  <2>1. /\ Submit(es) /\ es \in SUBSET Entry
        /\ UNCHANGED <<main, mark, lastRun, run, queues, missed>>
    BY <1>14 DEF Check, file, tasks, Entry
  <2>2. Due(e)
    BY <2>1 DEF Due
  <2>3. CASE seen[e] # mark[e]
    <3>1. e \in es
      BY <2>2, <2>3
    <3> QED BY <1>1, <1>3, <2>1, <3>1, SubmitFacts
  <2>4. CASE seen[e] = mark[e]
    <3>1. Before /\ (Asked(e) => Goal)
      BY <1>1, <1>3, <2>1, <2>2, <2>4, SubmitFacts
    <3> QED BY <1>2, <1>6, <1>8, <2>1, <3>1
  <2> QED BY <2>3, <2>4
<1>15. CASE Lose
  <2>1. PICK i \in DOMAIN requests :
          /\ requests' = RemoveAt(requests, i)
          /\ missed' = missed \cup ({requests[i]} \cap Coarse)
    BY <1>15 DEF Lose, Miss
  <2>2. Asked(e) => Goal
    BY <1>1, <1>3, <2>1, RemoveFacts DEF Goal
  <2> QED BY <1>2, <1>5, <1>6, <1>8, <1>15, <2>1, <2>2 DEF Lose, clock, file, tasks
<1>16. ASSUME NEW t \in Task, t.name \in {t.cmd, None}, Enqueue(t), UNCHANGED mark
       PROVE  \A p \in Part : Placed(p) => Goal
  <2>1. \A p \in Part : Placed(p) => Placed(p)'
    BY <1>1, <1>16, EnqueueFacts DEF Placed
  <2> QED BY <1>4, <2>1
<1>17. ASSUME NEW x \in Extra, SubmitExtra(x) PROVE Goal
  <2>1. /\ [cmd |-> x, name |-> None] \in Task /\ Enqueue([cmd |-> x, name |-> None])
        /\ UNCHANGED <<main, mark, seen, lastRun, requests, missed>>
    BY <1>17, SchedulerAssumption DEF SubmitExtra, Task, clock, file
  <2>2. \A p \in Part : Placed(p) => Goal
    BY <1>16, <2>1
  <2> QED BY <1>2, <1>5, <1>7, <1>8, <2>1, <2>2
<1>18. CASE Receive
  <2>. PICK h \in Entry, q \in Part : h = Head(requests) /\ q = Partition[h]
    BY <1>18, HeadFacts, SchedulerAssumption DEF Part
  <2> DEFINE t == [cmd |-> h, name |-> h]
  <2>1. /\ t \in Task
        /\ Asked(e) /\ e # h => Asked(e)'
        /\ UNCHANGED <<main, mark, seen, lastRun>>
    BY <1>1, <1>18, HeadFacts, SchedulerAssumption DEF clock, file, Part
  <2>2. Before
    BY <1>5, <2>1
  <2>3. CASE UNCHANGED tasks /\ missed' = missed \cup ({h} \cap Coarse)
    <3>1. Asked(e) => Goal
      BY <1>3, <2>1, <2>3 DEF Goal
    <3>2. (e \in missed => Goal) /\ mark'[e] = mark[e]
      BY <2>1, <2>3 DEF Goal
    <3> QED BY <1>2, <1>6, <2>2, <2>3, <3>1, <3>2 DEF tasks
  <2>4. CASE /\ Enqueue(t)
             /\ missed' = IF [cmd |-> h, name |-> None] \in
                               {queues[q][i] : i \in DOMAIN queues[q]}
                          THEN missed \cup ({h} \cap Coarse) ELSE missed
    <3>1. \A p \in Part : Placed(p) => Goal
      BY <1>16, <2>1, <2>4
    <3>2. e \in missed => Goal
      BY <2>4 DEF Goal
    <3>3. ASSUME Asked(e) PROVE Goal
      <4>1. CASE e # h
        BY <1>3, <2>1, <3>3, <4>1
      <4>2. CASE e = h
        <5>1. \/ run'[q].phase = "starting" /\ run'[q].task = t
              \/ \E i \in DOMAIN queues'[q] : queues'[q][i] = t
              \/ Queued(q, h) /\ UNCHANGED queues
          BY <2>1, <2>4, EnqueuePlaces
        <5>2. CASE run'[q].phase = "starting" /\ run'[q].task = t
          <6>1. Counts(e, q)'
            BY <4>2, <5>2 DEF Counts
          <6> QED BY <1>4, <2>1, <6>1 DEF Placed
        <5>3. CASE \E i \in DOMAIN queues'[q] : queues'[q][i] = t
          <6>1. Waits(e, q)'
            BY <4>2, <5>3 DEF Waits
          <6> QED BY <1>4, <2>1, <6>1 DEF Placed
        <5>4. CASE Queued(q, h) /\ UNCHANGED queues
          <6>1. PICK i \in DOMAIN queues[q] : queues[q][i].cmd = h
            BY <5>4 DEF Queued
          <6>2. /\ queues[q][i] \in Task
                /\ queues[q][i].name \in {h, None}
            <7>1. queues[q] \in Seq(Task)
              BY DEF TypeOK
            <7>2. AtHome(queues[q][i], q)
              BY DEF Homes
            <7> QED BY <6>1, <7>1, <7>2 DEF AtHome
          <6>3. CASE queues[q][i].name = h
            <7>1. Waits(e, q)'
              BY <4>2, <5>4, <6>1, <6>3 DEF Waits
            <7> QED BY <1>4, <2>1, <7>1 DEF Placed
          <6>4. CASE queues[q][i].name = None
            <7>1. queues[q][i] = [cmd |-> h, name |-> None]
              BY <6>1, <6>2, <6>4 DEF Task
            <7>2. missed' = missed \cup ({h} \cap Coarse)
              BY <2>4, <7>1
            <7> QED BY <4>2, <7>2 DEF Goal
          <6> QED BY <6>2, <6>3, <6>4
        <5> QED BY <5>1, <5>2, <5>3, <5>4
      <4> QED BY <4>1, <4>2
    <3> QED BY <1>2, <2>2, <3>1, <3>2, <3>3
  <2> QED BY <1>18, <2>3, <2>4, ReceiveFacts
<1>19. ASSUME NEW p \in Part, Begin(p) \/ ReadState(p) PROVE Goal
  <2>1. PICK from \in {"starting", "ended"}, to \in {"active", "recording"} :
          Phase(p, from, to) /\ (from = "ended" <=> to = "recording")
    BY <1>19 DEF Begin, ReadState
  <2>2. /\ run[p].phase = from /\ run'[p].phase = to
        /\ run'[p].task = run[p].task /\ run'[p].period = run[p].period
        /\ \A q \in Part : q # p => run'[q] = run[q]
        /\ UNCHANGED <<main, mark, seen, requests, queues>>
    BY <2>1, PhaseFacts DEF Phases, clock
  <2>3. UNCHANGED <<lastRun, missed>>
    BY <1>19 DEF Begin, ReadState, file
  <2>4. \A q \in Part : Placed(q) => Placed(q)'
    BY <2>1, <2>2 DEF Placed, Counts, Waits
  <2> QED BY <1>2, <1>4, <1>5, <1>7, <1>8, <2>2, <2>3, <2>4
<1>20. ASSUME NEW p \in Part, Exit(p) PROVE Goal
  <2>1. /\ run[p].phase \in {"starting", "active"}
        /\ run'[p].phase = "ended" /\ run'[p].task = run[p].task
        /\ run[p].task.name # None => run'[p].period = mark[run[p].task.name]
        /\ \A q \in Part : q # p => run'[q] = run[q]
    BY <1>20, ExitFacts
  <2>2. UNCHANGED <<main, mark, seen, lastRun, requests, queues, missed>>
    BY <1>20 DEF Exit, clock, file
  <2>3. \A q \in Part : Placed(q) => Placed(q)'
    <3>1. e # None
      BY <1>1, SchedulerAssumption
    <3> QED BY <2>1, <2>2, <3>1 DEF Placed, Counts, Waits
  <2> QED BY <1>2, <1>4, <1>5, <1>7, <1>8, <2>2, <2>3
<1>21. ASSUME NEW p \in Part, WriteState(p) \/ WriteFails(p) PROVE Goal
  <2> DEFINE n == run[p].task.name
  <2>1. Phase(p, "recording", "recorded") /\ "recorded" \in Phases
    BY <1>21 DEF WriteState, WriteFails, Phases
  <2>2. /\ run[p].phase = "recording"
        /\ \A q \in Part : q # p => run'[q] = run[q]
        /\ UNCHANGED <<main, mark, seen, requests, queues>>
    BY <2>1, PhaseFacts DEF clock
  <2>3. writer = p /\ missed \subseteq missed'
    BY <1>21, <2>2 DEF WriteState, WriteFails, Miss, TypeOK
  <2>4. ASSUME NEW q \in Part, Placed(q), ~Counts(e, p) PROVE Goal
    <3>1. Placed(q)'
      BY <2>2, <2>4 DEF Placed, Counts, Waits
    <3> QED BY <1>4, <3>1
  <2>5. ASSUME Due(e), ~Counts(e, p) PROVE Goal
    BY <1>2, <1>7, <1>8, <2>2, <2>3, <2>4, <2>5
  <2>6. CASE WriteFails(p)
    <3>1. UNCHANGED lastRun /\ missed' = missed \cup ({n} \cap Coarse)
      BY <2>6 DEF WriteFails, Miss
    <3>2. CASE e = n
      BY <3>1, <3>2 DEF Goal
    <3>3. CASE e # n
      BY <2>2, <2>5, <3>1, <3>3 DEF Due, Counts
    <3> QED BY <3>2, <3>3
  <2>7. CASE WriteState(p)
    <3>1. /\ lastRun' = [copy[p] EXCEPT ![n] = run[p].period]
          /\ missed' = IF p \in blind THEN missed \cup (Coarse \ {n}) ELSE missed
      BY <2>7 DEF WriteState
    <3>2. CASE e = n
      <4>1. lastRun'[e] = run[p].period
        BY <1>1, <3>1, <3>2 DEF TypeOK
      <4>2. lastRun[e] <= run[p].period /\ lastRun[e] \in Nat /\ run[p].period \in Nat
        <5>1. n # None
          BY <1>1, <3>2, SchedulerAssumption
        <5>2. lastRun[n] <= run[p].period
          BY <2>2, <5>1 DEF Records
        <5> QED BY <1>1, <3>2, <5>2 DEF TypeOK
      <4>3. mark[e] \in Nat /\ run[p].period < mark[e]
        BY <1>1, <2>2, <4>1 DEF Due, TypeOK
      <4>4. Due(e) /\ ~Counts(e, p)
        BY <2>2, <4>2, <4>3 DEF Due, Counts
      <4> QED BY <2>5, <4>4
    <3>3. CASE e # n /\ p \in blind
      BY <3>1, <3>3 DEF Goal
    <3>4. CASE e # n /\ p \notin blind
      <4>1. copy[p] = lastRun
        BY <2>3, <3>4 DEF Records
      <4>2. lastRun'[e] = lastRun[e]
        BY <1>1, <3>1, <3>4, <4>1 DEF TypeOK
      <4>3. Due(e) /\ ~Counts(e, p)
        BY <2>2, <3>4, <4>2 DEF Due, Counts
      <4> QED BY <2>5, <4>3
    <3> QED BY <3>2, <3>3, <3>4
  <2> QED BY <1>21, <2>6, <2>7
<1>22. ASSUME NEW p \in Part, ProcessNext(p) PROVE Goal
  <2>1. \A q \in Part : Placed(q) => Placed(q)'
    BY <1>1, <1>22, ProcessNextFacts DEF Placed
  <2>2. UNCHANGED <<main, mark, seen, lastRun, requests, missed>>
    BY <1>22 DEF ProcessNext, clock, file
  <2> QED BY <1>2, <1>4, <1>5, <1>7, <1>8, <2>1, <2>2
<1>23. ~Start /\ ~Crash
  BY DEF Start, Crash
<1> QED
  BY <1>9, <1>10, <1>12, <1>13, <1>14, <1>15, <1>17, <1>18, <1>19, <1>20, <1>21,
     <1>22, <1>23 DEF Next, Run

-----------------------------------------------------------------------------
(* The theorems *)

LEMMA Invariance == Spec => []IInv
<1>1. Init => IInv
  <2>1. Init => Homes /\ Records /\ Accounted
    BY SchedulerAssumption DEF Init, Homes, Records, Accounted, Idle, Entry
  <2> QED BY <2>1, TypeInit DEF IInv
<1>2. IInv /\ [Next]_vars => IInv'
  BY TypeStep, HomesStep, RecordsStep, AccountedStep DEF IInv
<1> QED BY <1>1, <1>2, PTL DEF Spec

\* Every reachable state is well typed, and the lock on scheduler.json is held
\* by the one partition that is recording.
THEOREM TypeCorrect == Spec => []TypeOK
<1>1. IInv => TypeOK
  BY DEF IInv
<1> QED BY <1>1, Invariance, PTL

\* A coarse entry that is due after check has looked at it is on its way to a
\* run that will be recorded, or its run was dropped (check, _handle_task_request,
\* TaskQueue.submit, _record_scheduler_completion).
THEOREM Accountable == Spec => []OverdueIsAccountedFor
<1>1. IInv => OverdueIsAccountedFor
  <2>1. \A e \in Coarse : OnItsWay(e) => InHand(e)
    BY DEF OnItsWay, Asked, Counts, Waits, InHand
  <2> QED BY <2>1 DEF IInv, Accounted, OverdueIsAccountedFor
<1> QED BY <1>1, Invariance, PTL

LEMMA OnlyWritesRecord ==
    ASSUME [Next]_vars, \A p \in Part : ~WriteState(p)
    PROVE  lastRun' = lastRun
<1>1. ASSUME NEW p \in Part, Run(p) PROVE lastRun' = lastRun
  BY <1>1 DEF Run, Begin, Exit, ReadState, WriteFails, ProcessNext, file
<1> QED
  BY <1>1 DEF Next, Boundary, Lapse, Tick, Start, CatchUp, Check, Crash,
       Receive, Lose, SubmitExtra, file, vars

\* No write-back takes back the record of another, unless its writer could not
\* read the file (_record_scheduler_completion under _SCHEDULER_JSON_LOCK).
THEOREM RecordsKept == Spec => RecordsAreKept
<1>1. IInv /\ [Next]_vars =>
        [\A e \in Entry : lastRun'[e] < lastRun[e] => writer \in blind]_vars
  <2> SUFFICES ASSUME IInv, Next, NEW e \in Entry, lastRun'[e] < lastRun[e]
               PROVE  writer \in blind
    OBVIOUS
  <2>1. lastRun[e] \in Nat
    BY DEF IInv, TypeOK
  <2>7. PICK p \in Part : WriteState(p)
    BY <2>1, OnlyWritesRecord
  <2> DEFINE n == run[p].task.name
  <2>3. /\ run[p].phase = "recording"
        /\ lastRun' = [copy[p] EXCEPT ![n] = run[p].period]
    BY <2>7 DEF WriteState, Phase
  <2>4. writer = p
    BY <2>3 DEF IInv, TypeOK
  <2>5. e = n => lastRun[e] <= run[p].period /\ run[p].period \in Nat
    <3>1. e = n => n # None
      BY SchedulerAssumption
    <3>2. n # None => lastRun[n] <= run[p].period
      BY <2>3 DEF IInv, Records
    <3> QED BY <3>1, <3>2 DEF IInv, TypeOK
  <2>6. copy[p] # lastRun
    BY <2>1, <2>3, <2>5 DEF IInv, TypeOK
  <2> QED BY <2>4, <2>6 DEF IInv, Records
<1> QED BY <1>1, Invariance, PTL DEF Spec, RecordsAreKept

-----------------------------------------------------------------------------
(* More than the runs check *)

\* An entry is recorded as run only by a task of its own that has ended, as of
\* the period in which it ended, whatever the writer read
\* (_record_scheduler_completion, mark_run).
RecordedByItsRun ==
    [][\A e \in Entry : lastRun'[e] > lastRun[e] =>
          \E p \in Part : /\ writer = p /\ run[p].task.name = e
                          /\ run[p].period = lastRun'[e]]_vars

\* A partition's queue holds a command at most once, however often it is
\* requested while it waits.
OneTaskPerCommand ==
    \A p \in Part : \A i, j \in DOMAIN queues[p] :
        queues[p][i].cmd = queues[p][j].cmd => i = j

\* A coarse entry that is due after check has looked at it has a request, a
\* place in a queue or a run that will record this very period, or its run was
\* dropped: more than OverdueIsAccountedFor, for which a run that is already
\* recorded would do (check, catch_up, Exit's ended_at).
THEOREM OverdueWillRun == Spec => []Accounted
<1>1. IInv => Accounted
  BY DEF IInv
<1> QED BY <1>1, Invariance, PTL

\* No write-back marks an entry as run that has not run.
THEOREM RecordedByRun == Spec => RecordedByItsRun
<1>1. IInv /\ [Next]_vars =>
        [\A e \in Entry : lastRun'[e] > lastRun[e] =>
            \E p \in Part : /\ writer = p /\ run[p].task.name = e
                            /\ run[p].period = lastRun'[e]]_vars
  <2> SUFFICES ASSUME IInv, Next, NEW e \in Entry, lastRun'[e] > lastRun[e]
               PROVE  \E p \in Part : /\ writer = p /\ run[p].task.name = e
                                      /\ run[p].period = lastRun'[e]
    OBVIOUS
  <2>1. lastRun[e] \in Nat
    BY DEF IInv, TypeOK
  <2>2. PICK p \in Part : WriteState(p)
    BY <2>1, OnlyWritesRecord
  <2>3. /\ run[p].phase = "recording" /\ p \in Part
        /\ lastRun' = [copy[p] EXCEPT ![run[p].task.name] = run[p].period]
    BY <2>2 DEF WriteState, Phase
  <2>4. writer = p
    BY <2>3 DEF IInv, TypeOK
  <2>5. copy[p] = lastRun \/ copy[p] = Blank
    BY DEF IInv, Records
  <2>6. copy[p] \in [Entry -> Nat] /\ copy[p][e] <= lastRun[e]
    BY <2>1, <2>5 DEF IInv, TypeOK, Blank
  <2>7. CASE e = run[p].task.name
    <3>1. lastRun'[e] = run[p].period
      BY <2>3, <2>6, <2>7
    <3> QED BY <2>4, <2>7, <3>1
  <2>8. CASE e # run[p].task.name
    <3>1. lastRun'[e] = copy[p][e]
      BY <2>3, <2>6, <2>8
    <3> QED BY <2>1, <2>6, <3>1
  <2> QED BY <2>7, <2>8
<1> QED BY <1>1, Invariance, PTL DEF Spec, RecordedByItsRun

\* The queue of a partition is no longer than there are commands in it: each
\* waits there once (TaskQueue.submit's coalescing, _process_next).
THEOREM NoDuplicates == Spec => []OneTaskPerCommand
<1>1. Init => OneTaskPerCommand
  BY DEF Init, OneTaskPerCommand
<1>2. IInv /\ OneTaskPerCommand /\ [Next]_vars => OneTaskPerCommand'
  <2> SUFFICES ASSUME IInv, OneTaskPerCommand, [Next]_vars PROVE OneTaskPerCommand'
    OBVIOUS
  <2>0. TypeOK /\ Homes
    BY DEF IInv
  <2>1. ASSUME \A p \in Part : \/ queues'[p] = queues[p] \/ queues'[p] = <<>>
                               \/ queues[p] # <<>> /\ queues'[p] = Tail(queues[p])
        PROVE  OneTaskPerCommand'
    <3> SUFFICES ASSUME NEW p \in Part, NEW i \in DOMAIN queues'[p],
                        NEW j \in DOMAIN queues'[p],
                        queues'[p][i].cmd = queues'[p][j].cmd
                 PROVE  i = j
      BY DEF OneTaskPerCommand
    <3>1. CASE queues'[p] = queues[p]
      BY <3>1 DEF OneTaskPerCommand
    <3>2. DOMAIN <<>> = {}
      OBVIOUS
    <3>3. CASE queues'[p] = <<>>
      BY <3>2, <3>3
    <3>4. CASE queues[p] # <<>> /\ queues'[p] = Tail(queues[p])
      <4>1. /\ DOMAIN queues'[p] = 1 .. Len(queues[p]) - 1 /\ Len(queues[p]) \in Nat
            /\ DOMAIN queues[p] = 1 .. Len(queues[p])
            /\ \A h \in 1 .. Len(queues[p]) - 1 : queues'[p][h] = queues[p][h + 1]
        <5>1. queues[p] \in Seq(Task)
          BY <2>0 DEF TypeOK
        <5> QED BY <3>4, <5>1
      <4>2. i + 1 \in DOMAIN queues[p] /\ j + 1 \in DOMAIN queues[p] /\ i \in Nat /\ j \in Nat
        BY <4>1
      <4>3. i + 1 = j + 1
        BY <4>1, <4>2 DEF OneTaskPerCommand
      <4> QED BY <4>2, <4>3
    <3> QED BY <2>1, <3>1, <3>3, <3>4
  <2>2. ASSUME NEW t \in Task, Enqueue(t) PROVE OneTaskPerCommand'
    <3> DEFINE q == Partition[t.cmd]
    <3>1. q \in Part
      BY DEF Part, Task
    <3>2. CASE UNCHANGED queues
      BY <2>1, <3>2
    <3>3. CASE /\ ~ Queued(q, t.cmd)
               /\ queues' = [queues EXCEPT ![q] = Append(@, t)]
      <4> SUFFICES ASSUME NEW p \in Part, NEW i \in DOMAIN queues'[p],
                          NEW j \in DOMAIN queues'[p],
                          queues'[p][i].cmd = queues'[p][j].cmd
                   PROVE  i = j
        BY DEF OneTaskPerCommand
      <4>1. CASE p # q
        BY <2>0, <3>3, <4>1 DEF OneTaskPerCommand, TypeOK
      <4>2. CASE p = q
        <5>1. queues[q] \in Seq(Task) /\ queues'[q] = Append(queues[q], t)
          BY <2>0, <3>1, <3>3 DEF TypeOK
        <5>2. /\ DOMAIN queues[q] = 1 .. Len(queues[q]) /\ Len(queues[q]) \in Nat
              /\ DOMAIN queues'[q] = 1 .. Len(queues[q]) + 1
              /\ \A h \in 1 .. Len(queues[q]) : queues'[q][h] = queues[q][h]
              /\ queues'[q][Len(queues[q]) + 1] = t
          BY <5>1
        <5>3. \A h \in 1 .. Len(queues[q]) : queues'[q][h].cmd # t.cmd
          BY <3>3, <5>2 DEF Queued
        <5>4. \A h \in DOMAIN queues'[q] :
                 h \in 1 .. Len(queues[q]) \/ h = Len(queues[q]) + 1
          BY <5>2
        <5>5. CASE i \in 1 .. Len(queues[q]) /\ j \in 1 .. Len(queues[q])
          BY <3>1, <4>2, <5>2, <5>5 DEF OneTaskPerCommand
        <5> QED BY <4>2, <5>2, <5>3, <5>4, <5>5
      <4> QED BY <4>1, <4>2
    <3> QED BY <2>2, <3>2, <3>3 DEF Enqueue
  <2>3. CASE Receive
    <3>1. CASE UNCHANGED tasks
      BY <2>1, <3>1 DEF tasks
    <3> QED BY <2>0, <2>2, <2>3, <3>1, ReceiveFacts, HeadFacts
  <2>4. ASSUME NEW e \in Extra, SubmitExtra(e) PROVE OneTaskPerCommand'
    <3>1. [cmd |-> e, name |-> None] \in Task
      BY SchedulerAssumption DEF Task
    <3> QED BY <2>2, <2>4, <3>1 DEF SubmitExtra
  <2>5. ASSUME NEW p \in Part, Run(p) PROVE OneTaskPerCommand'
    <3>1. CASE UNCHANGED queues
      BY <2>1, <3>1
    <3>2. CASE ProcessNext(p)
      BY <2>0, <2>1, <3>2 DEF ProcessNext, TypeOK
    <3> QED BY <2>5, <3>1, <3>2
        DEF Run, Begin, Exit, ReadState, WriteState, WriteFails, Phase
  <2>6. CASE Crash
    BY <2>1, <2>6 DEF Crash
  <2>7. CASE UNCHANGED queues
    BY <2>1, <2>7
  <2> QED BY <2>3, <2>4, <2>5, <2>6, <2>7
      DEF Next, Boundary, Lapse, Tick, Start, CatchUp, Check, Lose, tasks, vars
<1> QED BY <1>1, <1>2, Invariance, PTL DEF Spec

=============================================================================
