-------------------------- MODULE TaskQueueProofs --------------------------
(***************************************************************************)
(* Proofs about TaskQueue, for every set of commands and every bound: type *)
(* correctness; that a partition runs one task at a time; that work is     *)
(* queued behind the living; that only a thread that dies before its try   *)
(* block leaves a caller unanswered; and, as long as no two submissions    *)
(* have drawn one ref, that no ref is lost and that deadlines hit their    *)
(* tasks.  In a behaviour without equal refs and without such a death the  *)
(* queue implements SerialExecutor.                                        *)
(***************************************************************************)
EXTENDS TaskQueue, TLAPS

\* Joining a ref to an entry gives an entry.
LEMMA AppendRefType ==
  ASSUME NEW x \in Entry, NEW r \in Refs
  PROVE  [x EXCEPT !.refs = Append(@, r)] \in Entry
<1>1. x.refs \in Seq(Refs) /\ x.cmd \in Cmds
  BY DEF Entry
<1>2. Append(x.refs, r) \in Seq(Refs) /\ Append(x.refs, r) # <<>>
  BY <1>1
<1>3. x = [cmd |-> x.cmd, refs |-> x.refs]
  BY DEF Entry
<1>4. [x EXCEPT !.refs = Append(x.refs, r)] = [cmd |-> x.cmd, refs |-> Append(x.refs, r)]
  BY <1>3
<1> QED BY <1>1, <1>2, <1>4 DEF Entry

\* The parts of the first entry of a list.
LEMMA HeadType ==
  ASSUME NEW s \in Seq(Entry), s # <<>>
  PROVE  /\ Head(s) \in Entry /\ Tail(s) \in Seq(Entry)
         /\ Head(s).cmd \in Cmds /\ Head(Head(s).refs) \in Refs
<1>1. Head(s) \in Entry /\ Tail(s) \in Seq(Entry)
  OBVIOUS
<1> QED BY <1>1 DEF Entry

\* Starting a thread with an entry keeps the types of what it writes.
LEMMA StartType ==
  ASSUME TypeOK, NEW p \in Partitions, NEW e \in Entry,
         NEW pcs \in [Threads -> PcValues],
         \A t \in Threads : pcs[t] # "unborn" => pc[t] # "unborn",
         Start(p, e, pcs)
  PROVE  /\ running' \in [Partitions -> [busy : BOOLEAN, ref : Refs \cup {None},
                                         thread : Threads \cup {None}]]
         /\ pc' \in [Threads -> PcValues]
         /\ task' \in [Threads -> Entry \cup {NoEntry}]
         /\ \A t \in Threads : pc'[t] # "unborn" => task'[t] \in Entry
<1>1. PICK t \in Threads :
        /\ pc' = [pcs EXCEPT ![t] = "starting"]
        /\ task' = [task EXCEPT ![t] = e]
        /\ running' = [running EXCEPT ![p] =
                         [busy |-> TRUE, ref |-> Head(e.refs), thread |-> None]]
  BY DEF Start
<1>2. Head(e.refs) \in Refs
  BY DEF Entry
<1> QED BY <1>1, <1>2 DEF TypeOK, PcValues

\* What Submit needs and gives: the tables it may change keep their types.
LEMMA SubmitType ==
  ASSUME TypeOK, NEW c \in Cmds, NEW r \in Refs, Submit(c, r)
  PROVE  /\ pending' \in Seq(Entry)
         /\ running' \in [Partitions -> [busy : BOOLEAN, ref : Refs \cup {None},
                                         thread : Threads \cup {None}]]
         /\ queues' \in [Partitions -> Seq(Entry)]
         /\ pc' \in [Threads -> PcValues]
         /\ task' \in [Threads -> Entry \cup {NoEntry}]
         /\ \A t \in Threads : pc'[t] # "unborn" => task'[t] \in Entry
         /\ accepted' \subseteq Refs
<1> DEFINE p == CmdName[c]
           e == [cmd |-> c, refs |-> <<r>>]
<1>1. p \in Partitions
  BY CmdNameAssumption
<1>2. e \in Entry
  BY DEF Entry
<1>3. accepted' \subseteq Refs
  BY DEF Submit, TypeOK
<1>4. CASE ~ready
  <2>1. pending' = Append(pending, e) /\ UNCHANGED <<running, queues, pc, task>>
    BY <1>4 DEF Submit
  <2> QED BY <2>1, <1>2, <1>3 DEF TypeOK
<1>5. CASE ready /\ running[p].busy /\ ~Stale(p)
  <2>1. UNCHANGED <<pending, running, pc, task>> /\ (Coalesce(p, c, r) \/ Enqueue(p, c, r))
    BY <1>5 DEF Submit
  <2>2. CASE Enqueue(p, c, r)
    <3>1. queues' = [queues EXCEPT ![p] = Append(@, e)]
      BY <2>2 DEF Enqueue
    <3>2. Append(queues[p], e) \in Seq(Entry)
      BY <1>1, <1>2 DEF TypeOK
    <3> QED BY <3>1, <3>2, <2>1, <1>3, <1>1 DEF TypeOK
  <2>3. CASE Coalesce(p, c, r)
    <3>1. PICK i \in DOMAIN queues[p] :
            queues' = IF r \in RefsIn(queues[p][i]) THEN queues
                      ELSE [queues EXCEPT ![p][i].refs = Append(@, r)]
      BY <2>3 DEF Coalesce
    <3>2. queues[p] \in Seq(Entry) /\ queues[p][i] \in Entry
      BY <1>1 DEF TypeOK
    <3> DEFINE q == [queues[p] EXCEPT ![i].refs = Append(@, r)]
    <3>3. [queues[p][i] EXCEPT !.refs = Append(@, r)] \in Entry
      BY <3>2, AppendRefType
    <3>4. q \in Seq(Entry)
      BY <3>2, <3>3
    <3>5. queues' \in [Partitions -> Seq(Entry)]
      BY <3>1, <3>4, <1>1 DEF TypeOK
    <3> QED BY <3>5, <2>1, <1>3 DEF TypeOK
  <2> QED BY <2>1, <2>2, <2>3
<1>6. CASE ready /\ (~running[p].busy \/ Stale(p))
  <2>1. UNCHANGED <<pending, queues>> /\ Start(p, e, pc)
    BY <1>6 DEF Submit
  <2>2. pc \in [Threads -> PcValues]
    BY DEF TypeOK
  <2>3. /\ running' \in [Partitions -> [busy : BOOLEAN, ref : Refs \cup {None},
                                        thread : Threads \cup {None}]]
        /\ pc' \in [Threads -> PcValues]
        /\ task' \in [Threads -> Entry \cup {NoEntry}]
        /\ \A t \in Threads : pc'[t] # "unborn" => task'[t] \in Entry
    BY <2>1, <2>2, <1>1, <1>2, StartType
  <2> QED BY <2>1, <2>3, <1>3 DEF TypeOK
<1> QED BY <1>4, <1>5, <1>6

\* The tables a thread's owner reads are typed: its partition and its ref.
LEMMA OwnerType ==
  ASSUME TypeOK, NEW t \in Threads, pc[t] # "unborn"
  PROVE  Name(t) \in Partitions /\ Primary(t) \in Refs /\ task[t] \in Entry
<1>1. task[t] \in Entry
  BY DEF TypeOK
<1> QED BY <1>1, CmdNameAssumption DEF Name, Primary, Entry

\* TypeOK is an invariant: whatever the interleaving, every table of the queue
\* holds what its comment in __init__ says.
THEOREM TypeCorrect == Spec => []TypeOK
<1>1. Init => TypeOK
  BY NoneAssumption, BoundsAssumption
  DEF Init, TypeOK, Idle, NoEntry, PcValues, ProcValues
<1>2. ASSUME TypeOK, [Next]_vars PROVE TypeOK'
  <2> USE <1>2
  <2>1. ASSUME NEW c \in Cmds, NEW r \in Refs, SubmitDirect(c, r) PROVE TypeOK'
    <3>1. Submit(c, r)
      BY <2>1 DEF SubmitDirect
    <3>2. /\ pending' \in Seq(Entry) /\ queues' \in [Partitions -> Seq(Entry)]
          /\ running' \in [Partitions -> [busy : BOOLEAN, ref : Refs \cup {None},
                                         thread : Threads \cup {None}]]
          /\ pc' \in [Threads -> PcValues] /\ task' \in [Threads -> Entry \cup {NoEntry}]
          /\ \A t \in Threads : pc'[t] # "unborn" => task'[t] \in Entry
          /\ accepted' \subseteq Refs
      BY <3>1, SubmitType
    <3>3. issued' \in Seq(Refs)
      BY <2>1 DEF SubmitDirect, Draw, TypeOK
    <3> QED BY <2>1, <3>2, <3>3 DEF SubmitDirect, TypeOK
  <2>2. ASSUME NEW c \in Cmds, NEW r \in Refs, HandleTaskRequest(c, r) PROVE TypeOK'
    <3>1. <<[cmd |-> c, refs |-> <<r>>]>> \in Seq(Entry)
      BY DEF Entry
    <3>2. request' \in Seq(Entry) /\ declined' \subseteq Refs
      BY <2>2, <3>1 DEF HandleTaskRequest, TypeOK
    <3>3. issued' \in Seq(Refs)
      BY <2>2 DEF HandleTaskRequest, Draw, TypeOK
    <3> QED BY <2>2, <3>2, <3>3 DEF HandleTaskRequest, TypeOK, threads
  <2>3. CASE SubmitRequest
    <3>1. Head(request).cmd \in Cmds /\ Head(Head(request).refs) \in Refs
      BY <2>3, HeadType DEF SubmitRequest, TypeOK
    <3> QED BY <2>3, <3>1, SubmitType DEF SubmitRequest, TypeOK
  <2>4. CASE SetReady
    BY <2>4 DEF SetReady, TypeOK, threads, ghosts
  <2>5. CASE DrainOne
    <3>1. /\ Head(draining).cmd \in Cmds /\ Head(Head(draining).refs) \in Refs
          /\ Tail(draining) \in Seq(Entry)
      BY <2>5, HeadType DEF DrainOne, TypeOK
    <3> QED BY <2>5, <3>1, SubmitType DEF DrainOne, TypeOK
  <2>6. ASSUME NEW t \in Threads, Register(t) PROVE TypeOK'
    <3>1. Name(t) \in Partitions
      BY <2>6, OwnerType DEF Register
    <3> QED BY <2>6, <3>1, ZenonT(60) DEF Register, TypeOK, PcValues, ghosts
  <2>7. ASSUME NEW t \in Threads, Spawn(t) PROVE TypeOK'
    BY <2>7 DEF Spawn, TypeOK, PcValues, ProcValues, tables, ghosts
  <2>8. ASSUME NEW t \in Threads, Activate(t) PROVE TypeOK'
    BY <2>8, OwnerType DEF Activate, TypeOK, PcValues, tables, ghosts
  <2>9. ASSUME NEW t \in Threads, Report(t) PROVE TypeOK'
    BY <2>9 DEF Report, TypeOK, PcValues, tables
  <2>10. ASSUME NEW t \in Threads, Retire(t) PROVE TypeOK'
    BY <2>10, OwnerType DEF Retire, TypeOK, PcValues, tables, ghosts
  <2>11. ASSUME NEW t \in Threads, ProcessNext(t) PROVE TypeOK'
    <3> DEFINE p == Name(t)
               left == [pc EXCEPT ![t] = "done"]
    <3>1. p \in Partitions
      BY <2>11, OwnerType DEF ProcessNext
    <3>2. left \in [Threads -> PcValues]
      BY DEF TypeOK, PcValues
    <3>3. \A u \in Threads : left[u] # "unborn" => pc[u] # "unborn"
      BY <2>11 DEF TypeOK, ProcessNext
    <3>4. CASE queues[p] # <<>>
      <4>1. Head(queues[p]) \in Entry /\ Tail(queues[p]) \in Seq(Entry)
        BY <3>1, <3>4 DEF TypeOK
      <4>2. Start(p, Head(queues[p]), left) /\ queues' = [queues EXCEPT ![p] = Tail(@)]
        BY <2>11, <3>4 DEF ProcessNext
      <4>3. queues' \in [Partitions -> Seq(Entry)]
        BY <4>1, <4>2, <3>1 DEF TypeOK
      <4>4. /\ running' \in [Partitions -> [busy : BOOLEAN, ref : Refs \cup {None},
                                            thread : Threads \cup {None}]]
            /\ pc' \in [Threads -> PcValues]
            /\ task' \in [Threads -> Entry \cup {NoEntry}]
            /\ \A u \in Threads : pc'[u] # "unborn" => task'[u] \in Entry
        BY <4>1, <4>2, <3>1, <3>2, <3>3, StartType
      <4> QED BY <2>11, <4>3, <4>4 DEF ProcessNext, TypeOK, ghosts
    <3>5. CASE queues[p] = <<>>
      <4>1. /\ pc' = left /\ running' = [running EXCEPT ![p] = Idle]
            /\ UNCHANGED <<queues, task>>
        BY <2>11, <3>5 DEF ProcessNext
      <4>2. running' \in [Partitions -> [busy : BOOLEAN, ref : Refs \cup {None},
                                        thread : Threads \cup {None}]]
        BY <4>1, <3>1 DEF TypeOK, Idle
      <4> QED BY <2>11, <4>1, <4>2, <3>2, <3>3 DEF ProcessNext, TypeOK, ghosts
    <3> QED BY <3>4, <3>5
  <2>12. ASSUME NEW t \in Threads, StartFails(t) \/ DiesBeforeTry(t) PROVE TypeOK'
    <3>1. PICK at \in {"starting", "open"} : Die(t, at)
      BY <2>12 DEF StartFails, DiesBeforeTry
    <3>2. pc' \in [Threads -> PcValues] /\ faults' \in Nat
      BY <3>1 DEF Die, TypeOK, PcValues
    <3>3. \A u \in Threads : pc'[u] # "unborn" => task'[u] \in Entry
      BY <3>1 DEF Die, TypeOK
    <3> QED BY <3>1, <3>2, <3>3 DEF Die, TypeOK, tables, ghosts
  <2>13. CASE EnforceDeadlines
    BY <2>13 DEF EnforceDeadlines, Signal, TypeOK, ProcValues, tables, ghosts
  <2>14. ASSUME NEW t \in Threads, Exit(t) \/ Outlive(t) PROVE TypeOK'
    BY <2>14 DEF Exit, Outlive, TypeOK, ProcValues, tables, ghosts
  <2>15. CASE BeginShutdown
    <3>1. targets' \subseteq Threads /\ proc' \in [Threads -> ProcValues]
      BY <2>15 DEF BeginShutdown, ActiveThreads, Signal, TypeOK, ProcValues
    <3> QED BY <2>15, <3>1 DEF BeginShutdown, TypeOK, tables, ghosts
  <2>16. CASE EndShutdown
    BY <2>16 DEF EndShutdown, TypeOK, tables, threads, ghosts
  <2>17. CASE UNCHANGED vars
    BY <2>17 DEF TypeOK, vars, tables, threads, ghosts
  <2> QED
    BY <2>1, <2>2, <2>3, <2>4, <2>5, <2>6, <2>7, <2>8, <2>9, <2>10, <2>11, <2>12,
       <2>13, <2>14, <2>15, <2>16, <2>17
    DEF Next, ThreadStep, Terminated
<1> QED BY <1>1, <1>2, PTL DEF Spec

----------------------------------------------------------------------------
\* Submitting queues a command only in its own partition.
LEMMA SubmitAtHome ==
  ASSUME TypeOK, QueuesAtHome, NEW c \in Cmds, NEW r \in Refs, Submit(c, r)
  PROVE  QueuesAtHome'
<1> DEFINE p == CmdName[c]
<1>1. p \in Partitions /\ queues[p] \in Seq(Entry)
  BY CmdNameAssumption DEF TypeOK
<1>2. CASE UNCHANGED queues
  BY <1>2 DEF QueuesAtHome
<1>3. CASE Enqueue(p, c, r)
  <2>1. queues' = [queues EXCEPT ![p] = Append(@, [cmd |-> c, refs |-> <<r>>])]
    BY <1>3 DEF Enqueue
  <2>2. \A i \in DOMAIN queues'[p] : CmdName[queues'[p][i].cmd] = p
    BY <2>1, <1>1 DEF QueuesAtHome, TypeOK
  <2> QED BY <2>1, <2>2 DEF QueuesAtHome, TypeOK
<1>4. CASE Coalesce(p, c, r)
  <2>1. PICK i \in DOMAIN queues[p] :
          queues' = IF r \in RefsIn(queues[p][i]) THEN queues
                    ELSE [queues EXCEPT ![p][i].refs = Append(@, r)]
    BY <1>4 DEF Coalesce
  <2>2. CASE queues' = [queues EXCEPT ![p][i].refs = Append(@, r)]
    <3>1. queues'[p] = [queues[p] EXCEPT ![i].refs = Append(@, r)]
      BY <2>2, <1>1 DEF TypeOK
    <3>2. DOMAIN queues'[p] = DOMAIN queues[p]
      BY <3>1
    <3>3. \A j \in DOMAIN queues[p] : queues'[p][j].cmd = queues[p][j].cmd
      <4>1. \A j \in DOMAIN queues[p] : j # i => queues'[p][j] = queues[p][j]
        BY <3>1
      <4>2. queues'[p][i] = [queues[p][i] EXCEPT !.refs = Append(@, r)]
        BY <3>1
      <4>3. queues[p][i] \in Entry
        BY <1>1
      <4> QED BY <4>1, <4>2, <4>3 DEF Entry
    <3>4. \A q \in Partitions \ {p} : queues'[q] = queues[q]
      BY <2>2 DEF TypeOK
    <3> QED BY <3>2, <3>3, <3>4 DEF QueuesAtHome
  <2> QED BY <2>1, <2>2, <1>2
<1> QED BY <1>2, <1>3, <1>4 DEF Submit

LEMMA AtHome == Spec => []QueuesAtHome
<1>1. Init => QueuesAtHome
  BY DEF Init, QueuesAtHome
<1>2. ASSUME TypeOK, QueuesAtHome, [Next]_vars PROVE QueuesAtHome'
  <2> USE <1>2
  <2>1. ASSUME NEW c \in Cmds, NEW r \in Refs, Submit(c, r) PROVE QueuesAtHome'
    BY <2>1, SubmitAtHome
  <2>2. CASE SubmitRequest
    BY <2>2, <2>1, HeadType DEF SubmitRequest, TypeOK
  <2>3. CASE DrainOne
    BY <2>3, <2>1, HeadType DEF DrainOne, TypeOK
  <2>4. ASSUME NEW t \in Threads, ProcessNext(t) PROVE QueuesAtHome'
    <3>1. Name(t) \in Partitions
      BY <2>4, OwnerType DEF ProcessNext
    <3>2. CASE queues[Name(t)] # <<>>
      <4>1. queues' = [queues EXCEPT ![Name(t)] = Tail(@)]
        BY <2>4, <3>2 DEF ProcessNext
      <4>2. queues[Name(t)] \in Seq(Entry)
        BY <3>1 DEF TypeOK
      <4>3. \A i \in DOMAIN Tail(queues[Name(t)]) :
              /\ i + 1 \in DOMAIN queues[Name(t)]
              /\ Tail(queues[Name(t)])[i] = queues[Name(t)][i + 1]
        BY <4>2, <3>2
      <4> QED BY <4>1, <4>3, <3>1 DEF QueuesAtHome, TypeOK
    <3>3. CASE queues[Name(t)] = <<>>
      BY <2>4, <3>3 DEF ProcessNext, QueuesAtHome
    <3> QED BY <3>2, <3>3
  <2>5. CASE UNCHANGED queues
    BY <2>5 DEF QueuesAtHome
  <2> QED
    BY <2>1, <2>2, <2>3, <2>4, <2>5
    DEF Next, ThreadStep, SubmitDirect, HandleTaskRequest, SetReady, Register, Spawn,
        Activate, Report, Retire, StartFails, DiesBeforeTry, Die, EnforceDeadlines,
        Exit, Outlive, BeginShutdown, EndShutdown, Terminated, vars, tables
<1> QED BY <1>1, <1>2, TypeCorrect, PTL DEF Spec

\* Starting a thread in a partition where no other is in flight keeps Ownership.
LEMMA StartOwnership ==
  ASSUME TypeOK, Ownership, NEW p \in Partitions, NEW e \in Entry,
         CmdName[e.cmd] = p, NEW left \in SUBSET Threads,
         \A u \in Threads : InFlight(u) /\ Name(u) = p => u \in left,
         \A u \in left : ~HasProcess(u),
         Start(p, e, [u \in Threads |-> IF u \in left THEN "done" ELSE pc[u]]),
         UNCHANGED proc
  PROVE  Ownership'
<1> DEFINE pcs == [u \in Threads |-> IF u \in left THEN "done" ELSE pc[u]]
<1>1. PICK t \in Threads :
        /\ \A u \in Threads : pcs[u] = "unborn" <=> u >= t
        /\ pc' = [pcs EXCEPT ![t] = "starting"]
        /\ task' = [task EXCEPT ![t] = e]
        /\ running' = [running EXCEPT ![p] =
                         [busy |-> TRUE, ref |-> Head(e.refs), thread |-> None]]
  BY DEF Start
<1>2. pc[t] = "unborn" /\ t \notin left
  <2>1. t >= t
    BY BoundsAssumption DEF Threads
  <2> QED BY <1>1, <2>1
<1>3. ~HasProcess(t)
  BY <1>2 DEF Ownership
<1>4. Name(t)' = p /\ InFlight(t)'
  BY <1>1, <1>2 DEF Name, InFlight, TypeOK
<1>5. \A u \in Threads \ {t} : Name(u)' = Name(u)
  BY <1>1 DEF Name, TypeOK
<1>6. \A u \in Threads \ {t} : InFlight(u)' => InFlight(u) /\ u \notin left /\ pc'[u] = pc[u]
  BY <1>1 DEF InFlight
<1>7. \A u \in Threads \ {t} : InFlight(u)' => Name(u) # p
  BY <1>6
<1>8. running'[p] = [busy |-> TRUE, ref |-> Head(e.refs), thread |-> None]
  BY <1>1 DEF TypeOK
<1>9. \A q \in Partitions \ {p} : running'[q] = running[q]
  BY <1>1 DEF TypeOK
<1>10. \A u \in Threads : InFlight(u)' =>
         running'[Name(u)'].busy /\ running'[Name(u)'].thread \in {None, u}
  <2>1. ASSUME NEW u \in Threads \ {t}, InFlight(u)'
        PROVE  running'[Name(u)'].busy /\ running'[Name(u)'].thread \in {None, u}
    <3>1. Name(u) \in Partitions \ {p}
      BY <2>1, <1>6, <1>7, OwnerType DEF InFlight
    <3> QED BY <2>1, <3>1, <1>5, <1>6, <1>9 DEF Ownership
  <2> QED BY <2>1, <1>4, <1>8
<1>11. \A u, v \in Threads :
         InFlight(u)' /\ InFlight(v)' /\ Name(u)' = Name(v)' => u = v
  BY <1>4, <1>5, <1>6, <1>7 DEF Ownership
<1>12. \A u \in Threads : HasProcess(u)' => pc'[u] \in {"spawned", "waiting"}
  <2>1. ASSUME NEW u \in Threads, HasProcess(u)' PROVE pc'[u] \in {"spawned", "waiting"}
    <3>1. HasProcess(u)
      BY <2>1 DEF HasProcess
    <3>2. u # t /\ u \notin left /\ pc[u] \in {"spawned", "waiting"}
      BY <3>1, <1>3 DEF Ownership
    <3> QED BY <3>2, <1>1
  <2> QED BY <2>1
<1> QED BY <1>10, <1>11, <1>12 DEF Ownership

\* So does submit: a partition whose owner is in flight is neither idle nor stale.
LEMMA SubmitOwnership ==
  ASSUME TypeOK, Ownership, NEW c \in Cmds, NEW r \in Refs, Submit(c, r),
         UNCHANGED proc
  PROVE  Ownership'
<1> DEFINE p == CmdName[c]
           e == [cmd |-> c, refs |-> <<r>>]
<1>1. CASE UNCHANGED <<running, pc, task>>
  BY <1>1 DEF Ownership, InFlight, Name, HasProcess
<1>2. CASE (~running[p].busy \/ Stale(p)) /\ Start(p, e, pc)
  <2>1. p \in Partitions /\ e \in Entry /\ CmdName[e.cmd] = p
    BY CmdNameAssumption DEF Entry
  <2>2. \A u \in Threads : InFlight(u) => Name(u) # p
    <3>1. ASSUME NEW u \in Threads, InFlight(u), Name(u) = p PROVE FALSE
      <4>1. running[p].busy /\ running[p].thread \in {None, u}
        BY <3>1 DEF Ownership
      <4>2. Alive(u)
        BY <3>1 DEF InFlight, Alive
      <4> QED BY <4>1, <4>2, <1>2 DEF Stale
    <3> QED BY <3>1
  <2>3. pc = [u \in Threads |-> IF u \in {} THEN "done" ELSE pc[u]]
    BY DEF TypeOK
  <2> DEFINE left == {}
  <2>4. left \in SUBSET Threads /\ \A u \in left : ~HasProcess(u)
    OBVIOUS
  <2>5. Start(p, e, [u \in Threads |-> IF u \in left THEN "done" ELSE pc[u]])
    BY <1>2, <2>3
  <2> HIDE DEF left, p, e
  <2> QED BY <2>1, <2>2, <2>4, <2>5, StartOwnership
<1> QED BY <1>1, <1>2 DEF Submit

\* The steps that leave the owners of the partitions where they are.
LEMMA QuietOwnership ==
  ASSUME TypeOK, Ownership, UNCHANGED <<running, task>>,
         pc' \in [Threads -> PcValues], proc' \in [Threads -> ProcValues],
         \A t \in Threads : InFlight(t)' => InFlight(t),
         \A t \in Threads : HasProcess(t)' => pc'[t] \in {"spawned", "waiting"}
  PROVE  Ownership'
BY DEF Ownership, Name

LEMMA OwnershipKept == Spec => []Ownership
<1>1. Init => Ownership
  BY DEF Init, Ownership, InFlight, HasProcess
<1>2. ASSUME TypeOK, TypeOK', QueuesAtHome, Ownership, [Next]_vars PROVE Ownership'
  <2> USE <1>2
  <2>1. ASSUME NEW c \in Cmds, NEW r \in Refs, SubmitDirect(c, r) PROVE Ownership'
    BY <2>1, SubmitOwnership DEF SubmitDirect
  <2>2. ASSUME NEW c \in Cmds, NEW r \in Refs, HandleTaskRequest(c, r) PROVE Ownership'
    BY <2>2 DEF HandleTaskRequest, Ownership, threads, Name, InFlight, HasProcess
  <2>3. CASE SubmitRequest
    <3>1. Head(request).cmd \in Cmds /\ Head(Head(request).refs) \in Refs
      BY <2>3, HeadType DEF SubmitRequest, TypeOK
    <3> QED BY <2>3, <3>1, SubmitOwnership DEF SubmitRequest
  <2>4. CASE SetReady
    BY <2>4 DEF SetReady, Ownership, threads, Name, InFlight, HasProcess
  <2>5. CASE DrainOne
    <3>1. Head(draining).cmd \in Cmds /\ Head(Head(draining).refs) \in Refs
      BY <2>5, HeadType DEF DrainOne, TypeOK
    <3> QED BY <2>5, <3>1, SubmitOwnership DEF DrainOne
  <2>6. ASSUME NEW t \in Threads, Register(t) PROVE Ownership'
    <3>1. Name(t) \in Partitions
      BY <2>6, OwnerType DEF Register
    <3>2. UNCHANGED <<task, proc>> /\ pc' = [pc EXCEPT ![t] = "open"] /\ pc[t] = "starting"
      BY <2>6 DEF Register
    <3>3. \A u \in Threads : InFlight(u)' <=> InFlight(u)
      BY <3>2 DEF InFlight, TypeOK
    <3>4. \A u \in Threads : Name(u)' = Name(u)
      BY <3>2 DEF Name
    <3>5. \A u \in Threads : HasProcess(u)' => pc'[u] \in {"spawned", "waiting"}
      BY <3>2 DEF HasProcess, Ownership, TypeOK
    <3>6. ASSUME NEW u \in Threads, InFlight(u)'
          PROVE  running'[Name(u)].busy /\ running'[Name(u)].thread \in {None, u}
      <4>1. running[Name(u)].busy /\ running[Name(u)].thread \in {None, u}
        BY <3>3, <3>6 DEF Ownership
      <4>2. CASE Name(u) = Name(t)
        <5>1. u = t
          BY <4>2, <3>2, <3>3, <3>6 DEF Ownership, InFlight
        <5>2. running' = running \/ running' = [running EXCEPT ![Name(t)].thread = t]
          BY <2>6 DEF Register
        <5> QED BY <5>1, <5>2, <4>1, <3>1 DEF TypeOK
      <4>3. CASE Name(u) # Name(t)
        <5>1. running'[Name(u)] = running[Name(u)]
          BY <2>6, <4>3, <3>3, <3>6, OwnerType DEF Register, TypeOK, InFlight
        <5> QED BY <5>1, <4>1
      <4> QED BY <4>2, <4>3
    <3> QED BY <3>3, <3>4, <3>5, <3>6 DEF Ownership
  <2>7. ASSUME NEW t \in Threads, Spawn(t) \/ Activate(t) \/ Report(t) \/ Retire(t)
        PROVE  Ownership'
    <3>1. UNCHANGED <<running, task>>
      BY <2>7 DEF Spawn, Activate, Report, Retire, tables
    <3>2. \A u \in Threads : InFlight(u)' => InFlight(u)
      BY <2>7 DEF Spawn, Activate, Report, Retire, InFlight, TypeOK
    <3>3. \A u \in Threads : HasProcess(u)' => pc'[u] \in {"spawned", "waiting"}
      <4>1. CASE Spawn(t)
        <5>1. ~HasProcess(t)
          BY <4>1 DEF Spawn, Ownership
        <5>2. \A u \in Threads \ {t} : pc'[u] = pc[u] /\ proc'[u] = proc[u]
          BY <4>1 DEF Spawn, TypeOK
        <5>3. HasProcess(t)' => pc'[t] = "spawned"
          BY <4>1, <5>1 DEF Spawn, HasProcess, TypeOK
        <5> QED BY <5>2, <5>3 DEF HasProcess, Ownership
      <4>2. CASE Activate(t)
        BY <4>2 DEF Activate, HasProcess, Ownership, TypeOK
      <4>3. CASE Report(t)
        <5>1. ~HasProcess(t) /\ UNCHANGED proc /\ pc' = [pc EXCEPT ![t] = "reported"]
          BY <4>3 DEF Report, HasProcess, Ownership
        <5> QED BY <5>1 DEF HasProcess, Ownership, TypeOK
      <4>4. CASE Retire(t)
        BY <4>4 DEF Retire, HasProcess, Ownership, TypeOK
      <4> QED BY <2>7, <4>1, <4>2, <4>3, <4>4
    <3> QED BY <3>1, <3>2, <3>3, QuietOwnership DEF TypeOK
  <2>8. ASSUME NEW t \in Threads, ProcessNext(t) PROVE Ownership'
    <3> DEFINE p == Name(t)
               left == {t}
    <3>1. /\ pc[t] = "retired" /\ p \in Partitions /\ UNCHANGED proc
          /\ InFlight(t) /\ ~HasProcess(t)
      BY <2>8, OwnerType DEF ProcessNext, InFlight, Ownership
    <3>2. \A u \in Threads : InFlight(u) /\ Name(u) = p => u \in left
      BY <3>1 DEF Ownership
    <3>3. CASE queues[p] # <<>>
      <4>1. Start(p, Head(queues[p]), [pc EXCEPT ![t] = "done"])
        BY <2>8, <3>3 DEF ProcessNext
      <4>2. [pc EXCEPT ![t] = "done"]
              = [u \in Threads |-> IF u \in left THEN "done" ELSE pc[u]]
        BY DEF TypeOK
      <4>3. Head(queues[p]) \in Entry
        BY <3>1, <3>3, HeadType DEF TypeOK
      <4>4. CmdName[Head(queues[p]).cmd] = p
        BY <3>1, <3>3 DEF QueuesAtHome, TypeOK
      <4>5. left \in SUBSET Threads /\ \A u \in left : ~HasProcess(u)
        BY <3>1
      <4>6. Start(p, Head(queues[p]), [u \in Threads |-> IF u \in left THEN "done" ELSE pc[u]])
        BY <4>1, <4>2
      <4> HIDE DEF p, left
      <4> QED BY <3>1, <3>2, <4>3, <4>4, <4>5, <4>6, StartOwnership
    <3>4. CASE queues[p] = <<>>
      <4>1. /\ pc' = [pc EXCEPT ![t] = "done"] /\ UNCHANGED <<task, proc>>
            /\ running' = [running EXCEPT ![p] = Idle]
        BY <2>8, <3>4 DEF ProcessNext
      <4>2. \A u \in Threads : InFlight(u)' => InFlight(u) /\ Name(u) # p /\ u # t
        BY <4>1, <3>1, <3>2 DEF InFlight, TypeOK
      <4>3. \A u \in Threads : Name(u)' = Name(u)
        BY <4>1 DEF Name
      <4>4. \A u \in Threads : HasProcess(u)' => pc'[u] \in {"spawned", "waiting"}
        BY <4>1, <3>1 DEF HasProcess, Ownership, TypeOK
      <4>5. \A u \in Threads : InFlight(u)' => running'[Name(u)] = running[Name(u)]
        BY <4>1, <4>2, OwnerType DEF TypeOK, InFlight
      <4> QED BY <4>2, <4>3, <4>4, <4>5 DEF Ownership
    <3> QED BY <3>3, <3>4
  <2>9. ASSUME NEW t \in Threads, StartFails(t) \/ DiesBeforeTry(t) PROVE Ownership'
    <3>1. PICK at \in {"starting", "open"} : Die(t, at)
      BY <2>9 DEF StartFails, DiesBeforeTry
    <3>2. UNCHANGED <<running, task, proc>> /\ pc' = [pc EXCEPT ![t] = "dead"] /\ pc[t] = at
      BY <3>1 DEF Die, tables
    <3>3. \A u \in Threads : InFlight(u)' => InFlight(u)
      BY <3>2 DEF InFlight, TypeOK
    <3>4. \A u \in Threads : HasProcess(u)' => pc'[u] \in {"spawned", "waiting"}
      BY <3>2 DEF HasProcess, Ownership, TypeOK
    <3> QED BY <3>2, <3>3, <3>4, QuietOwnership DEF TypeOK
  <2>10. CASE EnforceDeadlines \/ BeginShutdown
    <3>1. UNCHANGED <<running, task, pc>>
      BY <2>10 DEF EnforceDeadlines, BeginShutdown, tables
    <3>2. \A u \in Threads : HasProcess(u)' => HasProcess(u)
      BY <2>10 DEF EnforceDeadlines, BeginShutdown, Signal, HasProcess
    <3> QED BY <3>1, <3>2 DEF Ownership, InFlight, Name
  <2>11. ASSUME NEW t \in Threads, Exit(t) \/ Outlive(t) PROVE Ownership'
    <3>1. UNCHANGED <<running, task, pc>>
      BY <2>11 DEF Exit, Outlive, tables
    <3>2. \A u \in Threads : HasProcess(u)' => HasProcess(u)
      BY <2>11 DEF Exit, Outlive, HasProcess, TypeOK
    <3> QED BY <3>1, <3>2 DEF Ownership, InFlight, Name
  <2>12. CASE EndShutdown \/ UNCHANGED vars
    BY <2>12 DEF EndShutdown, Ownership, vars, tables, threads, Name, InFlight, HasProcess
  <2> QED
    BY <2>1, <2>2, <2>3, <2>4, <2>5, <2>6, <2>7, <2>8, <2>9, <2>10, <2>11, <2>12
    DEF Next, ThreadStep, Terminated
<1> QED BY <1>1, <1>2, TypeCorrect, AtHome, PTL DEF Spec

\* No two live task processes ever share a partition: the promise of the class
\* docstring, kept through stale clearing, the request check and shutdown.
THEOREM Serialized == Spec => []OneTaskPerCommand
<1>1. Ownership => OneTaskPerCommand
  BY DEF Ownership, OneTaskPerCommand, InFlight
<1> QED BY <1>1, OwnershipKept, PTL

----------------------------------------------------------------------------
(* Whom the table names *)

\* A registered thread was started, and belongs to the partition that names it.
Registered ==
  \A p \in Partitions, u \in Threads :
    running[p].thread = u => pc[u] # "unborn" /\ Name(u) = p

\* A start names nobody yet, and gives no thread that was started another task.
LEMMA StartRegistered ==
  ASSUME TypeOK, Registered, NEW p \in Partitions, NEW e,
         NEW pcs \in [Threads -> PcValues],
         \A u \in Threads : pcs[u] = "unborn" <=> pc[u] = "unborn",
         Start(p, e, pcs)
  PROVE  Registered'
<1>1. PICK t \in Threads :
        /\ \A u \in Threads : pcs[u] = "unborn" <=> u >= t
        /\ pc' = [pcs EXCEPT ![t] = "starting"]
        /\ task' = [task EXCEPT ![t] = e]
        /\ running' = [running EXCEPT ![p] =
                         [busy |-> TRUE, ref |-> Head(e.refs), thread |-> None]]
  BY DEF Start
<1>2. pc[t] = "unborn"
  <2>1. t >= t
    BY BoundsAssumption DEF Threads
  <2> QED  BY <1>1, <2>1
<1>3. None \notin Threads
  BY NoneAssumption, BoundsAssumption DEF Threads
<1>4. ASSUME NEW q \in Partitions, NEW u \in Threads, running'[q].thread = u
      PROVE  pc'[u] # "unborn" /\ Name(u)' = q
  <2>1. q # p /\ running'[q] = running[q]
    BY <1>1, <1>3, <1>4 DEF TypeOK
  <2>2. pc[u] # "unborn" /\ Name(u) = q
    BY <1>4, <2>1 DEF Registered
  <2>3. pc'[u] = pcs[u] /\ task'[u] = task[u]
    BY <1>1, <1>2, <2>2 DEF TypeOK
  <2> QED  BY <2>2, <2>3 DEF Name
<1> QED  BY <1>4 DEF Registered

\* The steps that keep the table and the tasks, and unmake no thread.
LEMMA QuietRegistered ==
  ASSUME Registered, UNCHANGED <<running, task>>,
         \A u \in Threads : pc[u] # "unborn" => pc'[u] # "unborn"
  PROVE  Registered'
BY DEF Registered, Name

LEMMA SubmitRegistered ==
  ASSUME TypeOK, Registered, NEW c \in Cmds, NEW r, Submit(c, r)
  PROVE  Registered'
<1>1. CASE UNCHANGED <<running, pc, task>>
  BY <1>1, QuietRegistered
<1>2. CASE Start(CmdName[c], [cmd |-> c, refs |-> <<r>>], pc)
  BY <1>2, CmdNameAssumption, StartRegistered DEF TypeOK
<1> QED  BY <1>1, <1>2 DEF Submit

LEMMA RegisteredStep ==
  ASSUME TypeOK, Registered, [Next]_vars
  PROVE  Registered'
<1>1. ASSUME NEW c \in Cmds, NEW r, Submit(c, r) PROVE Registered'
  BY <1>1, SubmitRegistered
<1>2. CASE SubmitRequest \/ DrainOne
  <2>1. PICK c \in Cmds, r \in Refs : Submit(c, r)
    BY <1>2, HeadType DEF SubmitRequest, DrainOne, TypeOK
  <2> QED  BY <2>1, <1>1
<1>3. ASSUME NEW t \in Threads, Register(t) PROVE Registered'
  <2>1. /\ pc[t] = "starting" /\ pc' = [pc EXCEPT ![t] = "open"] /\ task' = task
        /\ running' = running \/ running' = [running EXCEPT ![Name(t)].thread = t]
    BY <1>3 DEF Register
  <2>2. \A u \in Threads : /\ Name(u)' = Name(u)
                           /\ pc[u] # "unborn" => pc'[u] # "unborn"
    BY <2>1 DEF Name, TypeOK
  <2>3. CASE running' = running
    BY <2>1, <2>2, <2>3, QuietRegistered
  <2>4. CASE running' = [running EXCEPT ![Name(t)].thread = t]
    <3>1. ASSUME NEW q \in Partitions, NEW u \in Threads, running'[q].thread = u
          PROVE  pc'[u] # "unborn" /\ Name(u) = q
      <4>1. CASE q = Name(t)
        <5>1. u = t
          BY <2>4, <3>1, <4>1 DEF TypeOK
        <5> QED  BY <2>1, <2>2, <4>1, <5>1
      <4>2. CASE q # Name(t)
        <5>1. running'[q] = running[q]
          BY <2>4, <4>2 DEF TypeOK
        <5> QED  BY <2>2, <3>1, <5>1 DEF Registered
      <4> QED  BY <4>1, <4>2
    <3> QED  BY <2>2, <3>1 DEF Registered
  <2> QED  BY <2>1, <2>3, <2>4
<1>4. ASSUME NEW t \in Threads, ProcessNext(t) PROVE Registered'
  <2> DEFINE p == Name(t)
             left == [pc EXCEPT ![t] = "done"]
  <2>1. p \in Partitions /\ pc[t] = "retired"
    BY <1>4, OwnerType DEF ProcessNext
  <2>2. /\ left \in [Threads -> PcValues]
        /\ \A u \in Threads : left[u] = "unborn" <=> pc[u] = "unborn"
    BY <2>1 DEF TypeOK, PcValues
  <2>3. CASE Start(p, Head(queues[p]), left)
    <3> HIDE DEF left, p
    <3> QED  BY <2>1, <2>2, <2>3, StartRegistered
  <2>4. CASE pc' = left /\ running' = [running EXCEPT ![p] = Idle] /\ task' = task
    <3>1. None \notin Threads
      BY NoneAssumption, BoundsAssumption DEF Threads
    <3>2. ASSUME NEW q \in Partitions, NEW u \in Threads, running'[q].thread = u
          PROVE  running[q].thread = u
      BY <2>4, <3>1, <3>2 DEF TypeOK, Idle
    <3>3. \A u \in Threads : Name(u)' = Name(u)
      BY <2>4 DEF Name
    <3> QED  BY <2>2, <2>4, <3>2, <3>3 DEF Registered
  <2> QED  BY <1>4, <2>3, <2>4 DEF ProcessNext
<1>5. CASE UNCHANGED <<running, task, pc>>
  BY <1>5, QuietRegistered
<1>6. ASSUME NEW t \in Threads,
             Spawn(t) \/ Activate(t) \/ Report(t) \/ Retire(t) \/ StartFails(t)
               \/ DiesBeforeTry(t)
      PROVE  Registered'
  <2>1. /\ UNCHANGED <<running, task>>
        /\ \A u \in Threads : pc[u] # "unborn" => pc'[u] # "unborn"
    BY <1>6 DEF Spawn, Activate, Report, Retire, StartFails, DiesBeforeTry, Die, tables,
                TypeOK
  <2> QED  BY <2>1, QuietRegistered
<1> QED
  BY <1>1, <1>2, <1>3, <1>4, <1>5, <1>6
  DEF Next, ThreadStep, SubmitDirect, HandleTaskRequest, SetReady, EnforceDeadlines,
      Exit, Outlive, BeginShutdown, EndShutdown, Terminated, vars, tables, threads

LEMMA RegisteredKept == Spec => []Registered
<1>1. Init => Registered
  BY NoneAssumption, BoundsAssumption DEF Init, Registered, Idle, Threads
<1>2. TypeOK /\ Registered /\ [Next]_vars => Registered'
  BY RegisteredStep
<1> QED  BY <1>1, <1>2, TypeCorrect, PTL DEF Spec

----------------------------------------------------------------------------
(* Where a ref is *)

\* No ref is in two entries of a list.
Apart(s) == \A i, j \in DOMAIN s : RefsIn(s[i]) \cap RefsIn(s[j]) # {} => i = j

\* Each entry of a list has one ref.
Single(s) == \A i \in DOMAIN s : \E r \in Refs : s[i].refs = <<r>>

LEMMA RefsAreRefs ==
  /\ \A e \in Entry : RefsIn(e) \subseteq Refs
  /\ \A s \in Seq(Entry) : RefsOf(s) \subseteq Refs
<1>1. \A e \in Entry : RefsIn(e) \subseteq Refs
  BY DEF Entry, RefsIn
<1> QED  BY <1>1 DEF RefsOf

LEMMA NoRefs ==
  RefsOf(<<>>) = {} /\ RefsIn(NoEntry) = {} /\ Apart(<<>>) /\ Single(<<>>)
BY DEF RefsOf, RefsIn, NoEntry, Apart, Single

LEMMA OneRef ==
  ASSUME NEW e \in Entry, NEW r \in Refs, e.refs = <<r>>
  PROVE  RefsIn(e) = {r} /\ Head(e.refs) = r
BY DEF RefsIn

LEMMA AppendRefs ==
  ASSUME NEW s \in Seq(Entry), NEW e \in Entry
  PROVE  /\ RefsOf(Append(s, e)) = RefsOf(s) \cup RefsIn(e)
         /\ Apart(s) /\ RefsOf(s) \cap RefsIn(e) = {} => Apart(Append(s, e))
         /\ Single(s) /\ (\E r \in Refs : e.refs = <<r>>) => Single(Append(s, e))
<1> DEFINE a == Append(s, e)
<1>1. /\ DOMAIN s = 1 .. Len(s) /\ DOMAIN a = 1 .. (Len(s) + 1) /\ Len(s) \in Nat
      /\ \A i \in DOMAIN s : a[i] = s[i]
      /\ a[Len(s) + 1] = e
  OBVIOUS
<1> HIDE DEF a
<1>2. \A x : x \in RefsOf(a) <=> x \in RefsOf(s) \cup RefsIn(e)
  <2>1. ASSUME NEW x \in RefsOf(a) PROVE x \in RefsOf(s) \cup RefsIn(e)
    <3>1. PICK i \in DOMAIN a : x \in RefsIn(a[i])
      BY <2>1 DEF RefsOf
    <3>2. i \in DOMAIN s \/ i = Len(s) + 1
      BY <1>1
    <3> QED  BY <1>1, <3>1, <3>2 DEF RefsOf
  <2>2. ASSUME NEW x \in RefsOf(s) PROVE x \in RefsOf(a)
    <3>1. PICK i \in DOMAIN s : x \in RefsIn(s[i])
      BY <2>2 DEF RefsOf
    <3>2. i \in DOMAIN a /\ a[i] = s[i]
      BY <1>1
    <3> QED  BY <3>1, <3>2 DEF RefsOf
  <2>3. ASSUME NEW x \in RefsIn(e) PROVE x \in RefsOf(a)
    <3>1. Len(s) + 1 \in DOMAIN a
      BY <1>1
    <3> QED  BY <1>1, <2>3, <3>1 DEF RefsOf
  <2> QED  BY <2>1, <2>2, <2>3
<1>3. ASSUME Apart(s), RefsOf(s) \cap RefsIn(e) = {} PROVE Apart(a)
  <2>1. ASSUME NEW i \in DOMAIN s, NEW x \in RefsIn(s[i]) PROVE x \notin RefsIn(e)
    BY <1>3, <2>1 DEF RefsOf
  <2>2. ASSUME NEW i \in DOMAIN a, NEW j \in DOMAIN a, NEW x,
               x \in RefsIn(a[i]), x \in RefsIn(a[j])
        PROVE  i = j
    <3>1. /\ i \in DOMAIN s \/ i = Len(s) + 1
          /\ j \in DOMAIN s \/ j = Len(s) + 1
      BY <1>1
    <3> QED  BY <1>1, <1>3, <2>1, <2>2, <3>1 DEF Apart
  <2> QED  BY <2>2 DEF Apart
<1>4. ASSUME Single(s), \E r \in Refs : e.refs = <<r>> PROVE Single(a)
  <2>1. ASSUME NEW i \in DOMAIN a PROVE \E r \in Refs : a[i].refs = <<r>>
    <3>1. i \in DOMAIN s \/ i = Len(s) + 1
      BY <1>1
    <3> QED  BY <1>1, <1>4, <3>1 DEF Single
  <2> QED  BY <2>1 DEF Single
<1> QED  BY <1>2, <1>3, <1>4 DEF a

LEMMA TailRefs ==
  ASSUME NEW s \in Seq(Entry), s # <<>>
  PROVE  /\ RefsOf(s) = RefsIn(Head(s)) \cup RefsOf(Tail(s))
         /\ Apart(s) => Apart(Tail(s)) /\ RefsIn(Head(s)) \cap RefsOf(Tail(s)) = {}
         /\ Single(s) => Single(Tail(s)) /\ \E r \in Refs : Head(s).refs = <<r>>
<1> DEFINE w == Tail(s)
<1>1. /\ DOMAIN s = 1 .. Len(s) /\ Len(s) \in Nat /\ Len(s) > 0
      /\ DOMAIN w = 1 .. (Len(s) - 1)
      /\ \A i \in DOMAIN w : i + 1 \in DOMAIN s /\ w[i] = s[i + 1]
      /\ 1 \in DOMAIN s /\ Head(s) = s[1]
  OBVIOUS
<1> HIDE DEF w
<1>2. \A i \in DOMAIN s : i = 1 \/ (i - 1 \in DOMAIN w /\ w[i - 1] = s[i])
  BY <1>1
<1>3. \A x : x \in RefsOf(s) <=> x \in RefsIn(Head(s)) \cup RefsOf(w)
  <2>1. ASSUME NEW x \in RefsOf(s) PROVE x \in RefsIn(Head(s)) \cup RefsOf(w)
    <3>1. PICK i \in DOMAIN s : x \in RefsIn(s[i])
      BY <2>1 DEF RefsOf
    <3> QED  BY <1>1, <1>2, <3>1 DEF RefsOf
  <2>2. ASSUME NEW x \in RefsOf(w) PROVE x \in RefsOf(s)
    <3>1. PICK i \in DOMAIN w : x \in RefsIn(w[i])
      BY <2>2 DEF RefsOf
    <3>2. i + 1 \in DOMAIN s /\ x \in RefsIn(s[i + 1])
      BY <1>1, <3>1
    <3> QED  BY <3>2 DEF RefsOf
  <2>3. ASSUME NEW x \in RefsIn(Head(s)) PROVE x \in RefsOf(s)
    BY <1>1, <2>3 DEF RefsOf
  <2> QED  BY <2>1, <2>2, <2>3
<1>4. ASSUME Apart(s) PROVE Apart(w) /\ RefsIn(Head(s)) \cap RefsOf(w) = {}
  <2>1. ASSUME NEW i \in DOMAIN w, NEW j \in DOMAIN w, NEW x,
               x \in RefsIn(w[i]), x \in RefsIn(w[j])
        PROVE  i = j
    <3>1. /\ i + 1 \in DOMAIN s /\ x \in RefsIn(s[i + 1])
          /\ j + 1 \in DOMAIN s /\ x \in RefsIn(s[j + 1])
      BY <1>1, <2>1
    <3>2. i + 1 = j + 1
      BY <1>4, <3>1 DEF Apart
    <3> QED  BY <1>1, <3>2
  <2>2. ASSUME NEW x, x \in RefsIn(Head(s)), x \in RefsOf(w) PROVE FALSE
    <3>1. PICK i \in DOMAIN w : x \in RefsIn(w[i])
      BY <2>2 DEF RefsOf
    <3>2. i + 1 \in DOMAIN s /\ x \in RefsIn(s[i + 1]) /\ x \in RefsIn(s[1])
      BY <1>1, <2>2, <3>1
    <3>3. i + 1 = 1
      BY <1>1, <1>4, <3>2 DEF Apart
    <3> QED  BY <1>1, <3>3
  <2> QED  BY <2>1, <2>2 DEF Apart
<1>5. Single(s) => Single(w) /\ \E r \in Refs : Head(s).refs = <<r>>
  BY <1>1 DEF Single
<1> QED  BY <1>3, <1>4, <1>5 DEF w

LEMMA AppendIn ==
  ASSUME NEW x, NEW y, NEW r \in Refs, x.refs \in Seq(Refs), y.refs = Append(x.refs, r)
  PROVE  RefsIn(y) = RefsIn(x) \cup {r}
<1> DEFINE f == x.refs
           g == y.refs
<1>1. /\ DOMAIN f = 1 .. Len(f) /\ Len(f) \in Nat
      /\ DOMAIN g = 1 .. (Len(f) + 1)
      /\ \A k \in DOMAIN f : g[k] = f[k]
      /\ g[Len(f) + 1] = r
  OBVIOUS
<1> HIDE DEF f, g
<1>2. {g[k] : k \in DOMAIN g} = {f[k] : k \in DOMAIN f} \cup {r}
  <2>1. ASSUME NEW k \in DOMAIN g PROVE g[k] \in {f[j] : j \in DOMAIN f} \cup {r}
    <3>1. k \in DOMAIN f \/ k = Len(f) + 1
      BY <1>1
    <3> QED  BY <1>1, <3>1
  <2>2. ASSUME NEW k \in DOMAIN f PROVE f[k] \in {g[j] : j \in DOMAIN g}
    <3>1. k \in DOMAIN g /\ g[k] = f[k]
      BY <1>1
    <3> QED  BY <3>1
  <2>3. r \in {g[j] : j \in DOMAIN g}
    <3>1. Len(f) + 1 \in DOMAIN g
      BY <1>1
    <3> QED  BY <1>1, <3>1
  <2> QED  BY <2>1, <2>2, <2>3
<1> QED  BY <1>2 DEF RefsIn, f, g

\* Joining a new ref to one entry of a list.
LEMMA JoinRefs ==
  ASSUME NEW s \in Seq(Entry), NEW i \in DOMAIN s, NEW r \in Refs, r \notin RefsOf(s)
  PROVE  LET q == [s EXCEPT ![i].refs = Append(@, r)]
         IN  RefsOf(q) = RefsOf(s) \cup {r} /\ (Apart(s) => Apart(q))
<1> DEFINE q == [s EXCEPT ![i].refs = Append(@, r)]
<1>1. DOMAIN q = DOMAIN s /\ \A j \in DOMAIN s : j # i => q[j] = s[j]
  OBVIOUS
<1>2. s[i] \in Entry /\ q[i] = [s[i] EXCEPT !.refs = Append(@, r)]
  OBVIOUS
<1>3. s[i].refs \in Seq(Refs) /\ q[i].refs = Append(s[i].refs, r)
  BY <1>2 DEF Entry
<1> HIDE DEF q
<1>4. RefsIn(q[i]) = RefsIn(s[i]) \cup {r}
  BY <1>3, AppendIn
<1>5. \A j \in DOMAIN s : r \notin RefsIn(s[j])
  BY DEF RefsOf
<1>6. \A x : x \in RefsOf(q) <=> x \in RefsOf(s) \cup {r}
  BY <1>1, <1>4 DEF RefsOf
<1>7. ASSUME Apart(s), NEW j \in DOMAIN q, NEW k \in DOMAIN q, NEW x,
             x \in RefsIn(q[j]), x \in RefsIn(q[k])
      PROVE  j = k
  <2>1. j \in DOMAIN s /\ k \in DOMAIN s
    BY <1>1
  <2>2. /\ x \in RefsIn(s[j]) \/ (j = i /\ x = r)
        /\ x \in RefsIn(s[k]) \/ (k = i /\ x = r)
    BY <1>1, <1>4, <1>7, <2>1
  <2> QED  BY <1>5, <1>7, <2>1, <2>2 DEF Apart
<1> QED  BY <1>6, <1>7 DEF q, Apart

----------------------------------------------------------------------------
(* One place per ref *)

InQueue(r) == \E p \in Partitions : r \in RefsOf(queues[p])
InTask(r) == \E t \in Threads : r \in RefsIn(task[t])
Placed(r) == r \in RefsOf(pending) \/ InQueue(r) \/ InTask(r)

\* A ref is in one place among the buffer, the queues and the tasks of threads.
Alone ==
  /\ Apart(pending) /\ Single(pending)
  /\ \A p \in Partitions : Apart(queues[p])
  /\ \A r \in Refs : /\ r \in RefsOf(pending) => ~InQueue(r) /\ ~InTask(r)
                     /\ InQueue(r) => ~InTask(r)
  /\ \A r \in Refs, p, q \in Partitions :
       r \in RefsOf(queues[p]) /\ r \in RefsOf(queues[q]) => p = q
  /\ \A r \in Refs, t, u \in Threads :
       r \in RefsIn(task[t]) /\ r \in RefsIn(task[u]) => t = u
  /\ \A t \in Threads : pc[t] = "unborn" => RefsIn(task[t]) = {}

\* The threads that have answered for their task.
Over == {"reported", "retired", "done"}

\* The task of thread t, if it has reported, holds r.
Told(t, r) == pc[t] \in Over /\ r \in RefsIn(task[t])

\* What a start does to the tasks.
LEMMA StartTasks ==
  ASSUME TypeOK, Alone, NEW p \in Partitions, NEW e \in Entry,
         NEW pcs \in [Threads -> PcValues],
         \A u \in Threads : pcs[u] = "unborn" <=> pc[u] = "unborn",
         \A x \in RefsIn(e) : ~InTask(x),
         Start(p, e, pcs)
  PROVE  \E t \in Threads :
           /\ pc[t] = "unborn" /\ pc' = [pcs EXCEPT ![t] = "starting"]
           /\ task' = [task EXCEPT ![t] = e]
           /\ RefsIn(task'[t]) = RefsIn(e) /\ RefsIn(task[t]) = {}
           /\ \A u \in Threads \ {t} : task'[u] = task[u] /\ pc'[u] = pcs[u]
<1>1. PICK t \in Threads :
        /\ \A u \in Threads : pcs[u] = "unborn" <=> u >= t
        /\ pc' = [pcs EXCEPT ![t] = "starting"]
        /\ task' = [task EXCEPT ![t] = e]
  BY DEF Start
<1>2. pc[t] = "unborn"
  <2>1. t >= t
    BY BoundsAssumption DEF Threads
  <2> QED  BY <1>1, <2>1
<1>3. task'[t] = e /\ \A u \in Threads \ {t} : task'[u] = task[u] /\ pc'[u] = pcs[u]
  BY <1>1 DEF TypeOK
<1> QED  BY <1>1, <1>2, <1>3 DEF Alone

LEMMA StartAlone ==
  ASSUME TypeOK, Alone, NEW p \in Partitions, NEW e \in Entry,
         NEW pcs \in [Threads -> PcValues],
         \A u \in Threads : pcs[u] = "unborn" <=> pc[u] = "unborn",
         \A x \in RefsIn(e) : ~InTask(x),
         Start(p, e, pcs)
  PROVE  /\ \A x \in Refs : InTask(x)' <=> InTask(x) \/ x \in RefsIn(e)
         /\ \A x \in Refs, t, u \in Threads :
              x \in RefsIn(task'[t]) /\ x \in RefsIn(task'[u]) => t = u
         /\ \A t \in Threads : pc'[t] = "unborn" => RefsIn(task'[t]) = {}
         /\ \A x \in Refs, t \in Threads :
              Told(t, x)' <=> pcs[t] \in Over /\ x \in RefsIn(task[t])
<1>1. PICK t \in Threads :
           /\ pc[t] = "unborn" /\ pc' = [pcs EXCEPT ![t] = "starting"]
           /\ task' = [task EXCEPT ![t] = e]
           /\ RefsIn(task'[t]) = RefsIn(e) /\ RefsIn(task[t]) = {}
           /\ \A u \in Threads \ {t} : task'[u] = task[u] /\ pc'[u] = pcs[u]
  BY StartTasks
<1>2. pc'[t] = "starting"
  BY <1>1
<1>3. \A x \in Refs : InTask(x)' <=> InTask(x) \/ x \in RefsIn(e)
  BY <1>1 DEF InTask
<1>4. ASSUME NEW x \in Refs, NEW u \in Threads, NEW v \in Threads,
             x \in RefsIn(task'[u]), x \in RefsIn(task'[v])
      PROVE  u = v
  <2>1. CASE x \in RefsIn(e)
    BY <1>1, <1>4, <2>1 DEF InTask
  <2>2. CASE x \notin RefsIn(e)
    BY <1>1, <1>4, <2>2 DEF Alone
  <2> QED  BY <2>1, <2>2
<1>5. \A u \in Threads : pc'[u] = "unborn" => RefsIn(task'[u]) = {}
  BY <1>1, <1>2 DEF Alone
<1>6. \A x \in Refs, u \in Threads :
        Told(u, x)' <=> pcs[u] \in Over /\ x \in RefsIn(task[u])
  BY <1>1, <1>2 DEF Told, Over
<1> QED  BY <1>3, <1>4, <1>5, <1>6

\* What a submission of a ref that is nowhere does to the places.
LEMMA SubmitAlone ==
  ASSUME TypeOK, Alone, NEW c \in Cmds, NEW r \in Refs, ~Placed(r), Submit(c, r)
  PROVE  /\ Alone'
         /\ \A x \in Refs : Placed(x)' <=> Placed(x) \/ x = r
         /\ \A x \in Refs, t \in Threads : Told(t, x)' <=> Told(t, x)
         /\ ready => pending' = pending
<1> DEFINE p == CmdName[c]
           e == [cmd |-> c, refs |-> <<r>>]
<1>1. p \in Partitions /\ e \in Entry /\ e.refs = <<r>> /\ RefsIn(e) = {r}
  <2>1. e \in Entry /\ e.refs = <<r>>
    BY DEF Entry
  <2> QED  BY <2>1, OneRef, CmdNameAssumption
<1>2. CASE ~ready
  <2>1. pending' = Append(pending, e) /\ UNCHANGED <<queues, pc, task>>
    BY <1>2 DEF Submit
  <2>2. RefsOf(pending)' = RefsOf(pending) \cup {r} /\ Apart(pending') /\ Single(pending')
    <3>1. pending \in Seq(Entry) /\ RefsOf(pending) \cap RefsIn(e) = {}
      BY <1>1 DEF TypeOK, Placed
    <3> QED  BY <1>1, <2>1, <3>1, AppendRefs DEF Alone
  <2>3. \A x \in Refs : (InQueue(x)' <=> InQueue(x)) /\ (InTask(x)' <=> InTask(x))
    BY <2>1 DEF InQueue, InTask
  <2>4. \A x \in Refs : Placed(x)' <=> Placed(x) \/ x = r
    BY <2>2, <2>3 DEF Placed
  <2>5. \A x \in Refs, t \in Threads : Told(t, x)' <=> Told(t, x)
    BY <2>1 DEF Told
  <2>6. Alone'
    BY <2>1, <2>2, <2>3 DEF Alone, Placed
  <2> QED  BY <1>2, <2>4, <2>5, <2>6
<1>3. CASE ready /\ (Coalesce(p, c, r) \/ Enqueue(p, c, r))
             /\ UNCHANGED <<pending, running, pc, task>>
  <2>1. queues[p] \in Seq(Entry) /\ r \notin RefsOf(queues[p])
    BY <1>1 DEF TypeOK, Placed, InQueue
  <2>2. PICK q : /\ queues' = [queues EXCEPT ![p] = q]
                 /\ RefsOf(q) = RefsOf(queues[p]) \cup {r} /\ Apart(q)
    <3>1. CASE Enqueue(p, c, r)
      <4>1. queues' = [queues EXCEPT ![p] = Append(queues[p], e)]
        BY <3>1 DEF Enqueue
      <4>2. RefsOf(queues[p]) \cap RefsIn(e) = {}
        BY <1>1, <2>1
      <4> HIDE DEF p, e
      <4> QED  BY <1>1, <2>1, <4>1, <4>2, AppendRefs DEF Alone
    <3>2. CASE Coalesce(p, c, r)
      <4>1. PICK i \in DOMAIN queues[p] :
              queues' = IF r \in RefsIn(queues[p][i]) THEN queues
                        ELSE [queues EXCEPT ![p][i].refs = Append(@, r)]
        BY <3>2 DEF Coalesce
      <4>2. r \notin RefsIn(queues[p][i])
        BY <2>1 DEF RefsOf
      <4> DEFINE q == [queues[p] EXCEPT ![i].refs = Append(@, r)]
      <4>3. queues' = [queues EXCEPT ![p] = q]
        BY <4>1, <4>2
      <4>4. RefsOf(q) = RefsOf(queues[p]) \cup {r} /\ (Apart(queues[p]) => Apart(q))
        <5> HIDE DEF p
        <5> QED  BY <2>1, JoinRefs
      <4> HIDE DEF q, p
      <4> QED  BY <1>1, <4>3, <4>4 DEF Alone
    <3> QED  BY <1>3, <3>1, <3>2
  <2>3. /\ RefsOf(queues'[p]) = RefsOf(queues[p]) \cup {r} /\ Apart(queues'[p])
        /\ \A o \in Partitions : o # p => queues'[o] = queues[o]
    BY <1>1, <2>2 DEF TypeOK
  <2> HIDE DEF p
  <2>4. \A x \in Refs : (InQueue(x)' <=> InQueue(x) \/ x = r) /\ (InTask(x)' <=> InTask(x))
    BY <1>1, <1>3, <2>3 DEF InQueue, InTask
  <2>5. \A x \in Refs : Placed(x)' <=> Placed(x) \/ x = r
    BY <1>3, <2>4 DEF Placed
  <2>6. \A x \in Refs, t \in Threads : Told(t, x)' <=> Told(t, x)
    BY <1>3 DEF Told
  <2>7. \A o \in Partitions : Apart(queues'[o])
    BY <2>3 DEF Alone
  <2>8. ASSUME NEW x \in Refs, NEW o \in Partitions, NEW s \in Partitions,
               x \in RefsOf(queues'[o]), x \in RefsOf(queues'[s])
        PROVE  o = s
    <3>1. CASE x = r
      BY <2>3, <2>8, <3>1 DEF Placed, InQueue
    <3>2. CASE x # r
      BY <2>3, <2>8, <3>2 DEF Alone
    <3> QED  BY <3>1, <3>2
  <2>9. Alone'
    BY <1>3, <2>4, <2>7, <2>8 DEF Alone, Placed
  <2> QED  BY <1>3, <2>5, <2>6, <2>9
<1>4. CASE ready /\ Start(p, e, pc) /\ UNCHANGED <<pending, queues>>
  <2>1. \A x \in RefsIn(e) : ~InTask(x)
    BY <1>1 DEF Placed
  <2>2. /\ \A x \in Refs : InTask(x)' <=> InTask(x) \/ x \in RefsIn(e)
        /\ \A x \in Refs, t, u \in Threads :
              x \in RefsIn(task'[t]) /\ x \in RefsIn(task'[u]) => t = u
        /\ \A t \in Threads : pc'[t] = "unborn" => RefsIn(task'[t]) = {}
        /\ \A x \in Refs, t \in Threads :
              Told(t, x)' <=> pc[t] \in Over /\ x \in RefsIn(task[t])
    <3>1. pc \in [Threads -> PcValues]
      BY DEF TypeOK
    <3> HIDE DEF p, e
    <3> QED  BY <1>1, <1>4, <2>1, <3>1, StartAlone
  <2>3. \A x \in Refs : InQueue(x)' <=> InQueue(x)
    BY <1>4 DEF InQueue
  <2>4. \A x \in Refs : Placed(x)' <=> Placed(x) \/ x = r
    BY <1>1, <1>4, <2>2, <2>3 DEF Placed
  <2>5. \A x \in Refs, t \in Threads : Told(t, x)' <=> Told(t, x)
    BY <2>2 DEF Told
  <2>6. Alone'
    BY <1>1, <1>4, <2>2, <2>3 DEF Alone, Placed
  <2> QED  BY <1>4, <2>4, <2>5, <2>6
<1> QED  BY <1>2, <1>3, <1>4 DEF Submit

----------------------------------------------------------------------------
(* NoRefLost *)

\* The lists that feed submit hold refs that are nowhere else.
Feeds ==
  /\ Apart(draining) /\ Single(draining)
  /\ \/ request = <<>>
     \/ \E c \in Cmds, r \in Refs : request = <<[cmd |-> c, refs |-> <<r>>]>>
  /\ \A r \in Refs : /\ r \in RefsOf(draining) => ~Placed(r) /\ r \notin RefsOf(request)
                     /\ r \in RefsOf(request) => ~Placed(r)
  /\ ready => pending = <<>>
  /\ ~ready => draining = <<>>

\* What submit took is placed or in the drain; what was declined is not; no ref
\* was heard of before it was drawn; a ref is answered once, by the thread that
\* has reported its task.
Books ==
  /\ \A r \in Refs : r \in accepted <=> Placed(r) \/ r \in RefsOf(draining)
  /\ \A r \in declined : r \notin accepted /\ r \notin RefsOf(request)
  /\ \A r \in Refs : r \in accepted \cup declined \cup RefsOf(request) => r <= Len(issued)
  /\ \A r \in Refs : answered[r] = IF \E t \in Threads : Told(t, r) THEN 1 ELSE 0

Kept == Alone /\ Feeds /\ Books

\* The steps that move no ref and answer nobody.
LEMMA QuietKept ==
  ASSUME Kept, UNCHANGED <<ready, pending, draining, request, queues, task, ghosts>>,
         \A t \in Threads : /\ pc'[t] = "unborn" => pc[t] = "unborn"
                            /\ pc'[t] \in Over <=> pc[t] \in Over
  PROVE  Kept'
<1>1. \A r \in Refs : /\ InQueue(r)' <=> InQueue(r)
                      /\ InTask(r)' <=> InTask(r)
                      /\ Placed(r)' <=> Placed(r)
  BY DEF InQueue, InTask, Placed
<1>2. \A r \in Refs, t \in Threads : Told(t, r)' <=> Told(t, r)
  BY DEF Told
<1>3. Alone'
  BY <1>1 DEF Alone, Kept
<1>4. Feeds'
  BY <1>1 DEF Feeds, Kept
<1>5. Books'
  BY <1>1, <1>2 DEF Books, Kept, ghosts
<1> QED  BY <1>3, <1>4, <1>5 DEF Kept

\* No two submissions have drawn the same ref.
DistinctRefs == \A i, j \in DOMAIN issued : issued[i] = issued[j] => i = j

\* Refs that were distinct after a step were so before it.
LEMMA DistinctBefore ==
  ASSUME TypeOK, [Next]_vars, DistinctRefs'
  PROVE  DistinctRefs
<1>1. ASSUME NEW r \in Refs, issued' = Append(issued, r) PROVE DistinctRefs
  <2>1. /\ DOMAIN issued \subseteq DOMAIN issued'
        /\ \A i \in DOMAIN issued : issued'[i] = issued[i]
    BY <1>1 DEF TypeOK
  <2> QED  BY <2>1 DEF DistinctRefs
<1>2. CASE issued' = issued
  BY <1>2 DEF DistinctRefs
<1> QED
  BY <1>1, <1>2
  DEF Next, SubmitDirect, HandleTaskRequest, Draw, SubmitRequest, SetReady, DrainOne,
      ThreadStep, Register, Spawn, Activate, Report, Retire, ProcessNext, StartFails,
      DiesBeforeTry, Die, EnforceDeadlines, Exit, Outlive, BeginShutdown, EndShutdown,
      Terminated, vars, ghosts

\* A ref drawn now was never heard of.
LEMMA DrawnFresh ==
  ASSUME TypeOK, Kept, DistinctRefs', NEW r \in Refs, Draw(r)
  PROVE  /\ ~Placed(r) /\ r \notin RefsOf(draining) /\ r \notin RefsOf(request)
         /\ r \notin accepted /\ r \notin declined
         /\ r <= Len(issued') /\ Len(issued) <= Len(issued')
<1>0. issued' = Append(issued, r) /\ issued \in Seq(Refs)
  BY DEF Draw, TypeOK
<1>1. r = Len(issued) + 1 /\ issued' = Append(issued, r) /\ issued \in Seq(Refs)
  <2>1. ASSUME issued # <<>>, r = issued[Len(issued)] PROVE FALSE
    <3>1. /\ Len(issued) \in DOMAIN issued' /\ Len(issued) + 1 \in DOMAIN issued'
          /\ issued'[Len(issued)] = r /\ issued'[Len(issued) + 1] = r
          /\ Len(issued) # Len(issued) + 1
      BY <1>0, <2>1
    <3> QED  BY <3>1 DEF DistinctRefs
  <2> QED  BY <1>0, <2>1 DEF Draw
<1>2. Len(issued') = Len(issued) + 1 /\ Len(issued) \in Nat
  BY <1>1
<1>3. r \notin accepted \cup declined \cup RefsOf(request)
  BY <1>1, <1>2 DEF Kept, Books
<1> QED  BY <1>1, <1>2, <1>3 DEF Kept, Books

LEMMA DirectKept ==
  ASSUME TypeOK, Kept, DistinctRefs', NEW c \in Cmds, NEW r \in Refs, SubmitDirect(c, r)
  PROVE  Kept'
<1>1. /\ Draw(r) /\ Submit(c, r) /\ accepted' = accepted \cup {r}
      /\ UNCHANGED <<ready, draining, request, declined, answered>>
  BY DEF SubmitDirect, Submit
<1>2. /\ ~Placed(r) /\ r \notin RefsOf(draining) /\ r \notin RefsOf(request)
      /\ r \notin accepted /\ r \notin declined
      /\ r <= Len(issued') /\ Len(issued) <= Len(issued')
  BY <1>1, DrawnFresh
<1>3. /\ Alone'
      /\ \A x \in Refs : Placed(x)' <=> Placed(x) \/ x = r
      /\ \A x \in Refs, t \in Threads : Told(t, x)' <=> Told(t, x)
      /\ ready => pending' = pending
  BY <1>1, <1>2, SubmitAlone DEF Kept
<1>4. Feeds'
  BY <1>1, <1>2, <1>3 DEF Kept, Feeds
<1>5. Books'
  <2>1. /\ \A x \in Refs : x \in accepted' <=> Placed(x)' \/ x \in RefsOf(draining')
        /\ \A x \in declined' : x \notin accepted' /\ x \notin RefsOf(request')
    BY <1>1, <1>2, <1>3 DEF Kept, Books
  <2>2. ASSUME NEW x \in Refs, x \in accepted' \cup declined' \cup RefsOf(request')
        PROVE  x <= Len(issued')
    <3>1. issued \in Seq(Refs) /\ issued' \in Seq(Refs)
      BY <1>1 DEF Draw, TypeOK
    <3>2. Len(issued) \in Nat /\ Len(issued') \in Nat /\ x \in Nat
      BY <3>1, BoundsAssumption DEF Refs
    <3>3. x = r \/ x <= Len(issued)
      BY <1>1, <2>2 DEF Kept, Books
    <3> QED  BY <1>2, <3>2, <3>3
  <2>3. \A x \in Refs : answered'[x] = IF \E t \in Threads : Told(t, x)' THEN 1 ELSE 0
    BY <1>1, <1>3 DEF Kept, Books
  <2> QED  BY <2>1, <2>2, <2>3 DEF Books
<1> QED  BY <1>3, <1>4, <1>5 DEF Kept

LEMMA HandleKept ==
  ASSUME TypeOK, Kept, DistinctRefs', NEW c \in Cmds, NEW r \in Refs, HandleTaskRequest(c, r)
  PROVE  Kept'
<1>1. /\ Draw(r) /\ request = <<>>
      /\ UNCHANGED <<ready, pending, draining, queues, task, pc, accepted, answered>>
  BY DEF HandleTaskRequest, CallosumFree, threads
<1>2. /\ ~Placed(r) /\ r \notin RefsOf(draining) /\ r \notin RefsOf(request)
      /\ r \notin accepted /\ r \notin declined
      /\ r <= Len(issued') /\ Len(issued) <= Len(issued')
  BY <1>1, DrawnFresh
<1>3. \A x \in Refs : /\ InQueue(x)' <=> InQueue(x)
                      /\ InTask(x)' <=> InTask(x)
                      /\ Placed(x)' <=> Placed(x)
  BY <1>1 DEF InQueue, InTask, Placed
<1>4. \A x \in Refs, t \in Threads : Told(t, x)' <=> Told(t, x)
  BY <1>1 DEF Told
<1>5. Alone'
  BY <1>1, <1>3 DEF Alone, Kept
<1>6. \/ declined' = declined \cup {r} /\ request' = request /\ RefsOf(request') = {}
      \/ /\ request' = <<[cmd |-> c, refs |-> <<r>>]>> /\ declined' = declined
         /\ RefsOf(request') = {r}
  <2>1. CASE declined' = declined \cup {r} /\ request' = request
    BY <1>1, <2>1, NoRefs
  <2>2. CASE request' = <<[cmd |-> c, refs |-> <<r>>]>> /\ declined' = declined
    <3> DEFINE e == [cmd |-> c, refs |-> <<r>>]
    <3>1. RefsIn(e) = {r}
      <4>1. e \in Entry /\ e.refs = <<r>>
        BY DEF Entry
      <4> QED  BY <4>1, OneRef
    <3>2. DOMAIN request' = {1} /\ request'[1] = e
      BY <2>2
    <3> HIDE DEF e
    <3>3. RefsOf(request') = RefsIn(e)
      BY <3>2 DEF RefsOf
    <3> QED  BY <2>2, <3>1, <3>3
  <2> QED  BY <2>1, <2>2 DEF HandleTaskRequest
<1>7. Feeds'
  BY <1>1, <1>2, <1>3, <1>6 DEF Kept, Feeds
<1>8. Books'
  <2>1. /\ \A x \in Refs : x \in accepted' <=> Placed(x)' \/ x \in RefsOf(draining')
        /\ \A x \in declined' : x \notin accepted' /\ x \notin RefsOf(request')
    BY <1>1, <1>2, <1>3, <1>6 DEF Kept, Books
  <2>2. ASSUME NEW x \in Refs, x \in accepted' \cup declined' \cup RefsOf(request')
        PROVE  x <= Len(issued')
    <3>1. issued \in Seq(Refs) /\ issued' \in Seq(Refs)
      BY <1>1 DEF Draw, TypeOK
    <3>2. Len(issued) \in Nat /\ Len(issued') \in Nat /\ x \in Nat
      BY <3>1, BoundsAssumption DEF Refs
    <3>3. x = r \/ x <= Len(issued)
      BY <1>1, <1>6, <2>2 DEF Kept, Books
    <3> QED  BY <1>2, <3>2, <3>3
  <2>3. \A x \in Refs : answered'[x] = IF \E t \in Threads : Told(t, x)' THEN 1 ELSE 0
    BY <1>1, <1>4 DEF Kept, Books
  <2> QED  BY <2>1, <2>2, <2>3 DEF Books
<1> QED  BY <1>5, <1>7, <1>8 DEF Kept

LEMMA RequestKept ==
  ASSUME TypeOK, Kept, SubmitRequest
  PROVE  Kept'
<1>1. PICK c \in Cmds, r \in Refs : request = <<[cmd |-> c, refs |-> <<r>>]>>
  BY DEF SubmitRequest, Kept, Feeds
<1> DEFINE e == [cmd |-> c, refs |-> <<r>>]
<1>2. RefsOf(request) = {r}
  <2>1. e \in Entry /\ e.refs = <<r>>
    BY DEF Entry
  <2>2. RefsIn(e) = {r}
    BY <2>1, OneRef
  <2>3. DOMAIN request = {1} /\ request[1] = e
    BY <1>1
  <2> HIDE DEF e
  <2> QED  BY <2>2, <2>3 DEF RefsOf
<1>3. /\ Submit(c, r) /\ request' = <<>> /\ RefsOf(request') = {}
      /\ accepted' = accepted \cup {r}
      /\ UNCHANGED <<ready, draining, issued, declined, answered>>
  <2>1. Head(request).cmd = c /\ Head(Head(request).refs) = r
    BY <1>1
  <2> QED  BY <2>1, NoRefs DEF SubmitRequest, Submit
<1>4. /\ ~Placed(r) /\ r \notin RefsOf(draining) /\ r \notin declined /\ r <= Len(issued)
  BY <1>2 DEF Kept, Feeds, Books
<1>5. /\ Alone'
      /\ \A x \in Refs : Placed(x)' <=> Placed(x) \/ x = r
      /\ \A x \in Refs, t \in Threads : Told(t, x)' <=> Told(t, x)
      /\ ready => pending' = pending
  BY <1>3, <1>4, SubmitAlone DEF Kept
<1>6. Feeds'
  BY <1>3, <1>4, <1>5 DEF Kept, Feeds
<1>7. Books'
  BY <1>2, <1>3, <1>4, <1>5 DEF Kept, Books
<1> QED  BY <1>5, <1>6, <1>7 DEF Kept

LEMMA DrainKept ==
  ASSUME TypeOK, Kept, DrainOne
  PROVE  Kept'
<1>1. draining \in Seq(Entry) /\ draining # <<>> /\ Apart(draining) /\ Single(draining)
  BY DEF TypeOK, DrainOne, Kept, Feeds
<1>2. PICK r \in Refs : Head(draining).refs = <<r>>
  BY <1>1, TailRefs
<1>3. RefsIn(Head(draining)) = {r} /\ Head(Head(draining).refs) = r
      /\ Head(draining).cmd \in Cmds
  BY <1>1, <1>2, HeadType, OneRef
<1>4. /\ RefsOf(draining) = {r} \cup RefsOf(Tail(draining)) /\ r \notin RefsOf(Tail(draining))
      /\ Apart(Tail(draining)) /\ Single(Tail(draining))
  BY <1>1, <1>3, TailRefs
<1>5. PICK c \in Cmds : Submit(c, r)
  BY <1>3 DEF DrainOne
<1>6. /\ draining' = Tail(draining) /\ accepted' = accepted \cup {r}
      /\ UNCHANGED <<ready, request, issued, declined, answered>>
  BY <1>3 DEF DrainOne, Submit
<1>7. ready /\ ~Placed(r) /\ r \notin RefsOf(request) /\ r \in accepted
  BY <1>1, <1>4 DEF Kept, Feeds, Books
<1>8. /\ Alone'
      /\ \A x \in Refs : Placed(x)' <=> Placed(x) \/ x = r
      /\ \A x \in Refs, t \in Threads : Told(t, x)' <=> Told(t, x)
      /\ ready => pending' = pending
  BY <1>5, <1>7, SubmitAlone DEF Kept
<1>9. Feeds'
  BY <1>4, <1>6, <1>7, <1>8 DEF Kept, Feeds
<1>10. Books'
  BY <1>4, <1>6, <1>7, <1>8 DEF Kept, Books
<1> QED  BY <1>8, <1>9, <1>10 DEF Kept

LEMMA ReadyKept ==
  ASSUME TypeOK, Kept, SetReady
  PROVE  Kept'
<1>1. /\ ~ready /\ ready' /\ draining = <<>> /\ draining' = pending /\ pending' = <<>>
      /\ UNCHANGED <<request, queues, task, pc, ghosts>>
      /\ RefsOf(pending') = {} /\ RefsOf(draining) = {}
  BY NoRefs DEF SetReady, Kept, Feeds, threads
<1>2. \A x \in Refs : (InQueue(x)' <=> InQueue(x)) /\ (InTask(x)' <=> InTask(x))
  BY <1>1 DEF InQueue, InTask
<1>3. \A x \in Refs : Placed(x)' <=> InQueue(x) \/ InTask(x)
  BY <1>1, <1>2 DEF Placed
<1>4. \A x \in Refs, t \in Threads : Told(t, x)' <=> Told(t, x)
  BY <1>1 DEF Told
<1>5. Alone'
  BY <1>1, <1>2, NoRefs DEF Kept, Alone
<1>6. Feeds'
  <2>1. Apart(draining') /\ Single(draining') /\ ready' /\ pending' = <<>>
    BY <1>1 DEF Kept, Alone
  <2>2. \A x \in Refs :
          /\ x \in RefsOf(draining') => ~Placed(x)' /\ x \notin RefsOf(request')
          /\ x \in RefsOf(request') => ~Placed(x)'
    BY <1>1, <1>3 DEF Kept, Alone, Feeds, Placed
  <2> QED  BY <1>1, <2>1, <2>2 DEF Kept, Feeds
<1>7. Books'
  <2>1. \A x \in Refs : x \in accepted' <=> Placed(x)' \/ x \in RefsOf(draining')
    BY <1>1, <1>3 DEF Kept, Books, Placed, ghosts
  <2> QED  BY <1>1, <1>4, <2>1 DEF Kept, Books, ghosts
<1> QED  BY <1>5, <1>6, <1>7 DEF Kept

LEMMA ReportKept ==
  ASSUME TypeOK, Kept, NEW t \in Threads, Report(t)
  PROVE  Kept'
<1>1. /\ pc[t] \notin Over /\ pc[t] # "unborn" /\ pc' = [pc EXCEPT ![t] = "reported"]
      /\ answered' = [r \in Refs |-> answered[r] + (IF r \in RefsIn(task[t]) THEN 1 ELSE 0)]
      /\ UNCHANGED <<ready, pending, draining, request, queues, task, issued, accepted,
                     declined>>
  BY DEF Report, Over, tables
<1>2. /\ pc'[t] = "reported" /\ \A u \in Threads \ {t} : pc'[u] = pc[u]
      /\ pc'[t] \in Over
  BY <1>1 DEF TypeOK, Over
<1>3. \A r \in Refs : /\ InQueue(r)' <=> InQueue(r)
                      /\ InTask(r)' <=> InTask(r)
                      /\ Placed(r)' <=> Placed(r)
  BY <1>1 DEF InQueue, InTask, Placed
<1>4. Alone'
  BY <1>1, <1>2, <1>3 DEF Alone, Kept
<1>5. Feeds'
  BY <1>1, <1>3 DEF Feeds, Kept
<1>6. ASSUME NEW r \in Refs
      PROVE  answered'[r] = IF \E u \in Threads : Told(u, r)' THEN 1 ELSE 0
  <2>1. CASE r \in RefsIn(task[t])
    <3>1. \A u \in Threads : ~Told(u, r)
      BY <1>1, <2>1 DEF Told, Kept, Alone
    <3>2. answered[r] = 0
      BY <3>1 DEF Kept, Books
    <3>3. Told(t, r)'
      BY <1>1, <1>2, <2>1 DEF Told
    <3>4. answered'[r] = 1
      BY <1>1, <2>1, <3>2
    <3> QED  BY <3>3, <3>4
  <2>2. CASE r \notin RefsIn(task[t])
    <3>1. \A u \in Threads : Told(u, r)' <=> Told(u, r)
      BY <1>1, <1>2, <2>2 DEF Told
    <3>2. answered'[r] = answered[r]
      BY <1>1, <2>2 DEF TypeOK
    <3> QED  BY <3>1, <3>2 DEF Kept, Books
  <2> QED  BY <2>1, <2>2
<1>7. Books'
  BY <1>1, <1>3, <1>6 DEF Kept, Books
<1> QED  BY <1>4, <1>5, <1>7 DEF Kept

\* The first entry of a queue goes to a new thread, with all its refs.
LEMMA NextKept ==
  ASSUME TypeOK, Kept, NEW t \in Threads, ProcessNext(t)
  PROVE  Kept'
<1> DEFINE p == Name(t)
           left == [pc EXCEPT ![t] = "done"]
<1>1. /\ pc[t] = "retired" /\ p \in Partitions
      /\ UNCHANGED <<ready, pending, draining, request, ghosts>>
  BY OwnerType DEF ProcessNext
<1>2. /\ left \in [Threads -> PcValues]
      /\ \A u \in Threads : /\ left[u] = "unborn" <=> pc[u] = "unborn"
                            /\ left[u] \in Over <=> pc[u] \in Over
  BY <1>1 DEF TypeOK, PcValues, Over
<1>3. CASE queues[p] = <<>>
  BY <1>1, <1>2, <1>3, QuietKept DEF ProcessNext
<1>4. CASE queues[p] # <<>>
  <2> DEFINE e == Head(queues[p])
             q == Tail(queues[p])
  <2>1. Start(p, e, left) /\ queues' = [queues EXCEPT ![p] = q]
    BY <1>4 DEF ProcessNext
  <2>2. queues[p] \in Seq(Entry) /\ Apart(queues[p]) /\ e \in Entry
    BY <1>1, <1>4, HeadType DEF TypeOK, Kept, Alone
  <2>3. /\ RefsOf(queues[p]) = RefsIn(e) \cup RefsOf(q)
        /\ RefsIn(e) \cap RefsOf(q) = {} /\ Apart(q)
        /\ RefsIn(e) \subseteq Refs
    BY <1>4, <2>2, TailRefs, RefsAreRefs
  <2>4. /\ queues'[p] = q
        /\ \A o \in Partitions : o # p => queues'[o] = queues[o]
    BY <1>1, <2>1 DEF TypeOK
  <2> HIDE DEF e, q, left, p
  <2>5. \A x \in RefsIn(e) : ~InTask(x)
    BY <1>1, <2>3 DEF Kept, Alone, InQueue
  <2>6. /\ \A x \in Refs : InTask(x)' <=> InTask(x) \/ x \in RefsIn(e)
        /\ \A x \in Refs, u, v \in Threads :
              x \in RefsIn(task'[u]) /\ x \in RefsIn(task'[v]) => u = v
        /\ \A u \in Threads : pc'[u] = "unborn" => RefsIn(task'[u]) = {}
        /\ \A x \in Refs, u \in Threads :
              Told(u, x)' <=> left[u] \in Over /\ x \in RefsIn(task[u])
    BY <1>1, <1>2, <2>1, <2>2, <2>5, StartAlone DEF Kept
  <2>7. \A x \in Refs : InQueue(x)' <=> InQueue(x) /\ x \notin RefsIn(e)
    <3>1. ASSUME NEW x \in Refs, InQueue(x)' PROVE InQueue(x) /\ x \notin RefsIn(e)
      <4>1. PICK o \in Partitions : x \in RefsOf(queues'[o])
        BY <3>1 DEF InQueue
      <4>2. x \in RefsOf(queues[o])
        BY <2>3, <2>4, <4>1
      <4>3. o = p => x \in RefsOf(q)
        BY <2>4, <4>1
      <4> QED  BY <1>1, <2>3, <4>2, <4>3 DEF InQueue, Kept, Alone
    <3>2. ASSUME NEW x \in Refs, InQueue(x), x \notin RefsIn(e) PROVE InQueue(x)'
      BY <1>1, <2>3, <2>4, <3>2 DEF InQueue
    <3> QED  BY <3>1, <3>2
  <2>8. \A x \in Refs : Placed(x)' <=> Placed(x)
    <3>1. \A x \in Refs : x \in RefsIn(e) => InQueue(x)
      BY <1>1, <2>3 DEF InQueue
    <3> QED  BY <1>1, <2>6, <2>7, <3>1 DEF Placed
  <2>9. \A x \in Refs, u \in Threads : Told(u, x)' <=> Told(u, x)
    BY <1>2, <2>6 DEF Told
  <2>10. Alone'
    <3>1. \A o \in Partitions : Apart(queues'[o])
      BY <2>3, <2>4 DEF Kept, Alone
    <3>2. \A x \in Refs : /\ x \in RefsOf(pending') => ~InQueue(x)' /\ ~InTask(x)'
                          /\ InQueue(x)' => ~InTask(x)'
      <4>1. \A x \in Refs : x \in RefsIn(e) => InQueue(x)
        BY <1>1, <2>3 DEF InQueue
      <4> QED  BY <1>1, <2>6, <2>7, <4>1 DEF Kept, Alone
    <3>3. \A x \in Refs, o, s \in Partitions :
            x \in RefsOf(queues'[o]) /\ x \in RefsOf(queues'[s]) => o = s
      BY <2>3, <2>4 DEF Kept, Alone
    <3> QED  BY <1>1, <2>6, <3>1, <3>2, <3>3 DEF Kept, Alone
  <2>11. Feeds'
    BY <1>1, <2>8 DEF Kept, Feeds
  <2>12. Books'
    BY <1>1, <2>8, <2>9 DEF Kept, Books, ghosts
  <2> QED  BY <2>10, <2>11, <2>12 DEF Kept
<1> QED  BY <1>3, <1>4

LEMMA KeptStep ==
  ASSUME TypeOK, Kept, DistinctRefs', [Next]_vars
  PROVE  Kept'
<1>1. ASSUME NEW c \in Cmds, NEW r \in Refs, SubmitDirect(c, r) \/ HandleTaskRequest(c, r)
      PROVE  Kept'
  BY <1>1, DirectKept, HandleKept
<1>2. CASE SubmitRequest \/ SetReady \/ DrainOne
  BY <1>2, RequestKept, ReadyKept, DrainKept
<1>3. ASSUME NEW t \in Threads,
             \/ Register(t) \/ Spawn(t) \/ Activate(t) \/ Retire(t)
             \/ StartFails(t) \/ DiesBeforeTry(t)
      PROVE  Kept'
  <2>1. UNCHANGED <<ready, pending, draining, request, queues, task, ghosts>>
    BY <1>3 DEF Register, Spawn, Activate, Retire, StartFails, DiesBeforeTry, Die, tables
  <2>2. \A u \in Threads : /\ pc'[u] = "unborn" => pc[u] = "unborn"
                           /\ pc'[u] \in Over <=> pc[u] \in Over
    BY <1>3 DEF Register, Spawn, Activate, Retire, StartFails, DiesBeforeTry, Die, Over,
                TypeOK
  <2> QED  BY <2>1, <2>2, QuietKept
<1>4. ASSUME NEW t \in Threads, Report(t) \/ ProcessNext(t)
      PROVE  Kept'
  BY <1>4, ReportKept, NextKept
<1>5. CASE \/ EnforceDeadlines \/ BeginShutdown \/ EndShutdown \/ UNCHANGED vars
           \/ \E t \in Threads : Exit(t) \/ Outlive(t)
  <2>1. UNCHANGED <<ready, pending, draining, request, queues, task, pc, ghosts>>
    BY <1>5 DEF EnforceDeadlines, BeginShutdown, EndShutdown, Exit, Outlive, vars, tables,
                threads
  <2> QED  BY <2>1, QuietKept
<1> QED  BY <1>1, <1>2, <1>3, <1>4, <1>5 DEF Next, ThreadStep, Terminated

LEMMA RefsApart == Spec => [](DistinctRefs => Kept)
<1>1. Init => Kept
  <2> SUFFICES ASSUME Init PROVE Kept
    OBVIOUS
  <2>1. /\ RefsOf(pending) = {} /\ RefsOf(draining) = {} /\ RefsOf(request) = {}
        /\ \A p \in Partitions : queues[p] = <<>> /\ RefsOf(queues[p]) = {}
        /\ \A t \in Threads : task[t] = NoEntry /\ RefsIn(task[t]) = {}
        /\ Apart(pending) /\ Single(pending) /\ Apart(draining) /\ Single(draining)
        /\ \A p \in Partitions : Apart(queues[p])
    BY NoRefs DEF Init
  <2>2. \A r \in Refs : ~InQueue(r) /\ ~InTask(r) /\ ~Placed(r)
    BY <2>1 DEF InQueue, InTask, Placed
  <2>3. Alone
    BY <2>1, <2>2 DEF Alone
  <2>4. Feeds
    BY <2>1, <2>2 DEF Feeds, Init
  <2>5. \A r \in Refs, t \in Threads : ~Told(t, r)
    BY <2>1 DEF Told
  <2>6. Books
    BY <2>1, <2>2, <2>5 DEF Books, Init
  <2> QED  BY <2>3, <2>4, <2>6 DEF Kept
<1>2. TypeOK /\ (DistinctRefs => Kept) /\ [Next]_vars => (DistinctRefs => Kept)'
  BY DistinctBefore, KeptStep
<1> QED  BY <1>1, <1>2, TypeCorrect, PTL DEF Spec

\* Between the buffer, the drain, the queues and the threads no accepted ref is lost or
\* answered twice, and a declined one is never answered, for as long as no two
\* submissions drew the same ref.  The condition is on the behaviour: it covers the one
\* in which two submissions fall in one millisecond, up to that second submission.
THEOREM RefsKept == Spec => [](DistinctRefs => NoRefLost)
<1>1. ASSUME TypeOK, Kept PROVE NoRefLost
  <2>1. \A r \in declined : r \in Refs /\ r \notin accepted /\ answered[r] = 0
    <3>1. ASSUME NEW r \in declined PROVE r \in Refs /\ r \notin accepted /\ answered[r] = 0
      <4>1. r \in Refs /\ r \notin accepted
        BY <1>1 DEF TypeOK, Kept, Books
      <4>2. \A t \in Threads : ~Told(t, r)
        BY <1>1, <4>1 DEF Kept, Books, Placed, InTask, Told
      <4> QED  BY <1>1, <4>1, <4>2 DEF Kept, Books
    <3> QED  BY <3>1
  <2>2. ASSUME NEW r \in accepted, Tracked(r) PROVE answered[r] = 0
    <3>1. r \in Refs
      BY <1>1 DEF TypeOK
    <3>2. \A t \in Threads : ~Told(t, r)
      BY <1>1, <2>2, <3>1 DEF Tracked, Told, Over, Kept, Alone, Feeds, Placed, InQueue, InTask
    <3> QED  BY <1>1, <3>1, <3>2 DEF Kept, Books
  <2>3. ASSUME NEW r \in accepted, ~Tracked(r) PROVE answered[r] = 1 \/ Lost(r)
    <3>1. r \in Refs
      BY <1>1 DEF TypeOK
    <3>2. PICK t \in Threads : r \in RefsIn(task[t])
      BY <1>1, <2>3, <3>1 DEF Tracked, Kept, Books, Placed, InQueue, InTask
    <3>3. pc[t] \in Over \/ pc[t] = "dead"
      BY <1>1, <2>3, <3>2 DEF Tracked, Kept, Alone, TypeOK, PcValues, Over
    <3> QED  BY <1>1, <3>1, <3>2, <3>3 DEF Told, Lost, Kept, Books
  <2> QED  BY <2>1, <2>2, <2>3 DEF NoRefLost
<1> QED  BY <1>1, TypeCorrect, RefsApart, PTL

----------------------------------------------------------------------------
(* DeadlinesHitTheirTasks *)

Born(t) == pc[t] # "unborn"

\* A waiting task is in _active under its own ref, an entry of _active and a mark of
\* _cap_terminated belong to a task that was started, and a marked task is over its
\* cap, as is one recorded as timed out.
Marks ==
  /\ \A t \in Threads : pc[t] = "waiting" => active[Primary(t)] = t
  /\ \A r \in Refs, u \in Threads : active[r] = u => Born(u) /\ Primary(u) = r
  /\ \A t \in Threads : Born(t) /\ Primary(t) \in capTerminated => t \in overCap
  /\ \A r \in capTerminated : \E t \in Threads : Born(t) /\ Primary(t) = r
  /\ \A t \in Threads : outcome[t] = "timeout" => t \in overCap

\* A started task is known by its first ref.
LEMMA PrimaryKnows ==
  ASSUME TypeOK, Alone
  PROVE  /\ \A t \in Threads : Born(t) => Primary(t) \in RefsIn(task[t])
         /\ \A t, u \in Threads : Born(t) /\ Born(u) /\ Primary(t) = Primary(u) => t = u
<1>1. ASSUME NEW t \in Threads, Born(t)
      PROVE  Primary(t) \in Refs /\ Primary(t) \in RefsIn(task[t])
  <2>1. task[t].refs \in Seq(Refs) /\ task[t].refs # <<>> /\ Primary(t) \in Refs
    BY <1>1, OwnerType DEF Born, Entry
  <2>2. 1 \in DOMAIN task[t].refs /\ Primary(t) = task[t].refs[1]
    BY <2>1 DEF Primary
  <2> QED  BY <2>1, <2>2 DEF RefsIn
<1> QED  BY <1>1 DEF Alone

\* The steps that start no task and touch none of these tables.
LEMMA QuietMarks ==
  ASSUME Marks, UNCHANGED <<task, active, capTerminated, overCap, outcome>>,
         \A t \in Threads : /\ Born(t)' <=> Born(t)
                            /\ pc'[t] = "waiting" => pc[t] = "waiting"
  PROVE  Marks'
<1>1. \A t \in Threads : Primary(t)' = Primary(t)
  BY DEF Primary
<1> QED  BY <1>1 DEF Marks

\* A task that starts was never known, so nothing of another task falls to it.
LEMMA StartMarks ==
  ASSUME TypeOK, Alone, Marks, NEW p \in Partitions, NEW e \in Entry,
         NEW pcs \in [Threads -> PcValues],
         \A u \in Threads : pcs[u] = "unborn" <=> pc[u] = "unborn",
         \A u \in Threads : pcs[u] = "waiting" => pc[u] = "waiting",
         \A x \in RefsIn(e) : ~InTask(x),
         Start(p, e, pcs), UNCHANGED <<active, capTerminated, overCap, outcome>>
  PROVE  Marks'
<1>1. PICK t \in Threads :
           /\ pc[t] = "unborn" /\ pc' = [pcs EXCEPT ![t] = "starting"]
           /\ task' = [task EXCEPT ![t] = e]
           /\ RefsIn(task'[t]) = RefsIn(e) /\ RefsIn(task[t]) = {}
           /\ \A u \in Threads \ {t} : task'[u] = task[u] /\ pc'[u] = pcs[u]
  BY StartTasks
<1>2. pc'[t] = "starting" /\ task'[t] = e
  BY <1>1 DEF TypeOK
<1>3. Head(e.refs) \in RefsIn(e)
  <2>1. 1 \in DOMAIN e.refs /\ Head(e.refs) = e.refs[1]
    BY DEF Entry
  <2> QED  BY <2>1 DEF RefsIn
<1>4. \A u \in Threads : Born(u) => u # t /\ Primary(u) # Head(e.refs)
  BY <1>1, <1>3, PrimaryKnows DEF Born, InTask
<1>5. \A u \in Threads : u # t => Primary(u)' = Primary(u) /\ (Born(u)' <=> Born(u))
  BY <1>1 DEF Primary, Born
<1>6. Primary(t)' = Head(e.refs)
  BY <1>2 DEF Primary
<1>7. Head(e.refs) \notin capTerminated
  BY <1>4 DEF Marks
<1>8. \A u \in Threads : pc'[u] = "waiting" => u # t /\ pc[u] = "waiting"
  BY <1>1, <1>2
<1>9. \A u \in Threads : Born(u) => Born(u)' /\ Primary(u)' = Primary(u)
  BY <1>4, <1>5
<1>10. \A u \in Threads : pc'[u] = "waiting" => active'[Primary(u)'] = u
  BY <1>5, <1>8 DEF Marks
<1>11. \A r \in Refs, u \in Threads : active'[r] = u => Born(u)' /\ Primary(u)' = r
  BY <1>9 DEF Marks
<1>12. \A u \in Threads : Born(u)' /\ Primary(u)' \in capTerminated' => u \in overCap'
  BY <1>5, <1>6, <1>7 DEF Marks
<1>13. \A r \in capTerminated' : \E u \in Threads : Born(u)' /\ Primary(u)' = r
  BY <1>9 DEF Marks
<1> QED  BY <1>10, <1>11, <1>12, <1>13 DEF Marks

LEMMA SubmitMarks ==
  ASSUME TypeOK, Alone, Marks, NEW c \in Cmds, NEW r \in Refs, ~Placed(r), Submit(c, r),
         UNCHANGED <<active, capTerminated, overCap, outcome>>
  PROVE  Marks'
<1> DEFINE p == CmdName[c]
           e == [cmd |-> c, refs |-> <<r>>]
<1>1. CASE UNCHANGED <<pc, task>>
  BY <1>1, QuietMarks DEF Born
<1>2. CASE Start(p, e, pc)
  <2>1. e \in Entry /\ p \in Partitions /\ e.refs = <<r>> /\ pc \in [Threads -> PcValues]
    BY CmdNameAssumption DEF Entry, TypeOK
  <2> HIDE DEF e, p
  <2>2. \A x \in RefsIn(e) : ~InTask(x)
    BY <2>1, OneRef DEF Placed
  <2> QED  BY <1>2, <2>1, <2>2, StartMarks
<1> QED  BY <1>1, <1>2 DEF Submit

LEMMA MarksStep ==
  ASSUME TypeOK, TypeOK', Kept, Marks, DistinctRefs', [Next]_vars
  PROVE  Marks'
<1> USE DEF Kept
<1>0. None \notin Threads
  BY NoneAssumption, BoundsAssumption DEF Threads
<1>1. ASSUME NEW c \in Cmds, NEW r \in Refs, SubmitDirect(c, r) PROVE Marks'
  BY <1>1, DrawnFresh, SubmitMarks DEF SubmitDirect
<1>2. ASSUME NEW c \in Cmds, NEW r \in Refs, HandleTaskRequest(c, r) PROVE Marks'
  BY <1>2, QuietMarks DEF HandleTaskRequest, threads, Born
<1>3. CASE SubmitRequest
  <2>1. PICK c \in Cmds, r \in Refs : request = <<[cmd |-> c, refs |-> <<r>>]>>
    BY <1>3 DEF SubmitRequest, Feeds
  <2>2. Submit(c, r) /\ UNCHANGED <<active, capTerminated, overCap, outcome>>
    <3>1. Head(request).cmd = c /\ Head(Head(request).refs) = r
      BY <2>1
    <3> QED  BY <1>3, <3>1 DEF SubmitRequest
  <2>3. r \in RefsOf(request)
    <3> DEFINE e == [cmd |-> c, refs |-> <<r>>]
    <3>1. e \in Entry /\ e.refs = <<r>>
      BY DEF Entry
    <3>2. r \in RefsIn(e)
      BY <3>1, OneRef
    <3>3. 1 \in DOMAIN request /\ request[1] = e
      BY <2>1
    <3> HIDE DEF e
    <3> QED  BY <3>2, <3>3 DEF RefsOf
  <2> QED  BY <2>2, <2>3, SubmitMarks DEF Feeds
<1>4. CASE SetReady
  BY <1>4, QuietMarks DEF SetReady, threads, Born
<1>5. CASE DrainOne
  <2>1. draining \in Seq(Entry) /\ draining # <<>> /\ Single(draining)
    BY <1>5 DEF TypeOK, DrainOne, Feeds
  <2>2. PICK r \in Refs : Head(draining).refs = <<r>>
    BY <2>1, TailRefs
  <2>3. /\ Head(Head(draining).refs) = r /\ Head(draining).cmd \in Cmds
        /\ r \in RefsOf(draining)
    BY <2>1, <2>2, HeadType, TailRefs, OneRef
  <2> QED  BY <1>5, <2>3, SubmitMarks DEF DrainOne, Feeds
<1>6. ASSUME NEW t \in Threads,
             \/ Register(t) \/ Spawn(t) \/ Report(t) \/ StartFails(t) \/ DiesBeforeTry(t)
      PROVE  Marks'
  <2>1. UNCHANGED <<task, active, capTerminated, overCap, outcome>>
    BY <1>6 DEF Register, Spawn, Report, StartFails, DiesBeforeTry, Die
  <2>2. \A u \in Threads : /\ Born(u)' <=> Born(u)
                           /\ pc'[u] = "waiting" => pc[u] = "waiting"
    BY <1>6 DEF Register, Spawn, Report, StartFails, DiesBeforeTry, Die, Born, TypeOK
  <2> QED  BY <2>1, <2>2, QuietMarks
<1>7. ASSUME NEW t \in Threads, Activate(t) PROVE Marks'
  <2>1. /\ pc[t] = "spawned" /\ Born(t) /\ pc' = [pc EXCEPT ![t] = "waiting"]
        /\ active' = [active EXCEPT ![Primary(t)] = t]
        /\ UNCHANGED <<task, capTerminated, overCap, outcome>>
        /\ Primary(t) \in Refs
    BY <1>7, OwnerType DEF Activate, Born
  <2>2. \A u \in Threads : Primary(u)' = Primary(u) /\ (Born(u)' <=> Born(u))
    BY <2>1 DEF Primary, Born, TypeOK
  <2>3. \A u \in Threads : Born(u) /\ u # t => Primary(u) # Primary(t)
    BY <2>1, PrimaryKnows
  <2>4. /\ active'[Primary(t)] = t
        /\ \A r \in Refs : r # Primary(t) => active'[r] = active[r]
    BY <2>1 DEF TypeOK
  <2>5. ASSUME NEW u \in Threads, pc'[u] = "waiting" PROVE active'[Primary(u)] = u
    <3>1. CASE u = t
      BY <2>4, <3>1
    <3>2. CASE u # t
      <4>1. pc[u] = "waiting"
        BY <2>1, <2>5, <3>2 DEF TypeOK
      <4>2. Born(u) /\ Primary(u) \in Refs /\ active[Primary(u)] = u
        BY <4>1, OwnerType DEF Born, Marks
      <4> QED  BY <2>3, <2>4, <3>2, <4>2
    <3> QED  BY <3>1, <3>2
  <2>6. \A r \in Refs, u \in Threads : active'[r] = u => Born(u) /\ Primary(u) = r
    BY <2>1, <2>4 DEF Marks
  <2> QED  BY <2>1, <2>2, <2>5, <2>6 DEF Marks
<1>8. ASSUME NEW t \in Threads, Retire(t) PROVE Marks'
  <2>1. /\ pc[t] = "reported" /\ Born(t) /\ pc' = [pc EXCEPT ![t] = "retired"]
        /\ active' = [active EXCEPT ![Primary(t)] = None]
        /\ outcome' = [outcome EXCEPT ![t] =
                         IF Primary(t) \in capTerminated THEN "timeout" ELSE "ended"]
        /\ capTerminated' = capTerminated \ {Primary(t)}
        /\ UNCHANGED <<task, overCap>>
        /\ Primary(t) \in Refs
    BY <1>8, OwnerType DEF Retire, Born
  <2>2. \A u \in Threads : Primary(u)' = Primary(u) /\ (Born(u)' <=> Born(u))
    BY <2>1 DEF Primary, Born, TypeOK
  <2>3. \A u \in Threads : Born(u) /\ u # t => Primary(u) # Primary(t)
    BY <2>1, PrimaryKnows
  <2>4. /\ active'[Primary(t)] = None
        /\ \A r \in Refs : r # Primary(t) => active'[r] = active[r]
    BY <2>1 DEF TypeOK
  <2>5. ASSUME NEW u \in Threads, pc'[u] = "waiting" PROVE active'[Primary(u)] = u
    <3>1. u # t /\ pc[u] = "waiting"
      BY <2>1, <2>5 DEF TypeOK
    <3>2. Born(u) /\ Primary(u) \in Refs /\ active[Primary(u)] = u
      BY <3>1, OwnerType DEF Born, Marks
    <3> QED  BY <2>3, <2>4, <3>1, <3>2
  <2>6. \A r \in Refs, u \in Threads : active'[r] = u => Born(u) /\ Primary(u) = r
    BY <1>0, <2>4 DEF Marks
  <2>7. \A u \in Threads : outcome'[u] = "timeout" => u \in overCap
    BY <2>1 DEF Marks, TypeOK
  <2> QED  BY <2>1, <2>2, <2>5, <2>6, <2>7 DEF Marks
<1>9. ASSUME NEW t \in Threads, ProcessNext(t) PROVE Marks'
  <2> DEFINE p == Name(t)
             left == [pc EXCEPT ![t] = "done"]
             e == Head(queues[p])
  <2>1. /\ pc[t] = "retired" /\ p \in Partitions
        /\ UNCHANGED <<active, capTerminated, overCap, outcome>>
    BY <1>9, OwnerType DEF ProcessNext
  <2>2. /\ left \in [Threads -> PcValues]
        /\ \A u \in Threads : /\ left[u] = "unborn" <=> pc[u] = "unborn"
                              /\ left[u] = "waiting" => pc[u] = "waiting"
    BY <2>1 DEF TypeOK, PcValues
  <2>3. CASE pc' = left /\ UNCHANGED task
    BY <2>1, <2>2, <2>3, QuietMarks DEF Born
  <2>4. CASE queues[p] # <<>> /\ Start(p, e, left)
    <3>1. queues[p] \in Seq(Entry) /\ e \in Entry
      BY <2>1, <2>4, HeadType DEF TypeOK
    <3>2. RefsIn(e) \subseteq Refs /\ RefsIn(e) \subseteq RefsOf(queues[p])
      BY <2>4, <3>1, TailRefs, RefsAreRefs
    <3> HIDE DEF e, left, p
    <3>3. \A x \in RefsIn(e) : ~InTask(x)
      BY <2>1, <3>2 DEF Alone, InQueue
    <3> QED  BY <2>1, <2>2, <2>4, <3>1, <3>3, StartMarks
  <2> QED  BY <1>9, <2>3, <2>4 DEF ProcessNext
<1>10. CASE EnforceDeadlines
  <2>1. /\ capTerminated' = capTerminated \cup {r \in Refs : active[r] \in overCap}
        /\ UNCHANGED <<task, pc, active, overCap, outcome>>
    BY <1>10 DEF EnforceDeadlines
  <2>2. \A u \in Threads : Primary(u)' = Primary(u) /\ (Born(u)' <=> Born(u))
    BY <2>1 DEF Primary, Born
  <2>3. ASSUME NEW t \in Threads, Born(t), Primary(t) \in capTerminated'
        PROVE  t \in overCap
    <3>1. CASE Primary(t) \in capTerminated
      BY <2>3, <3>1 DEF Marks
    <3>2. CASE Primary(t) \in Refs /\ active[Primary(t)] \in overCap
      <4>1. PICK u \in Threads : active[Primary(t)] = u /\ u \in overCap
        BY <3>2 DEF TypeOK
      <4>2. u = t
        BY <2>3, <3>2, <4>1, PrimaryKnows DEF Marks
      <4> QED  BY <4>1, <4>2
    <3> QED  BY <2>1, <2>3, <3>1, <3>2
  <2>4. ASSUME NEW r \in capTerminated' PROVE \E t \in Threads : Born(t) /\ Primary(t) = r
    <3>1. CASE r \in capTerminated
      BY <3>1 DEF Marks
    <3>2. CASE r \in Refs /\ active[r] \in overCap
      BY <3>2 DEF Marks, TypeOK
    <3> QED  BY <2>1, <2>4, <3>1, <3>2
  <2> QED  BY <2>1, <2>2, <2>3, <2>4 DEF Marks
<1>11. ASSUME NEW t \in Threads, Outlive(t) PROVE Marks'
  <2>1. overCap' = overCap \cup {t} /\ UNCHANGED <<task, pc, active, capTerminated, outcome>>
    BY <1>11 DEF Outlive
  <2>2. \A u \in Threads : Primary(u)' = Primary(u) /\ (Born(u)' <=> Born(u))
    BY <2>1 DEF Primary, Born
  <2> QED  BY <2>1, <2>2 DEF Marks
<1>12. CASE \/ BeginShutdown \/ EndShutdown \/ UNCHANGED vars
            \/ \E t \in Threads : Exit(t)
  <2>1. UNCHANGED <<task, pc, active, capTerminated, overCap, outcome>>
    BY <1>12 DEF BeginShutdown, EndShutdown, Exit, vars, threads
  <2> QED  BY <2>1, QuietMarks DEF Born
<1> QED
  BY <1>1, <1>2, <1>3, <1>4, <1>5, <1>6, <1>7, <1>8, <1>9, <1>10, <1>11, <1>12
  DEF Next, ThreadStep, Terminated

\* A task waits under its own ref in _active, and only one that was over its cap is
\* recorded as timed out, whatever ended or started beside it, for as long as no two
\* submissions drew the same ref.
THEOREM DeadlinesHit == Spec => [](DistinctRefs => DeadlinesHitTheirTasks)
<1>1. Init => Marks
  BY NoneAssumption, BoundsAssumption DEF Init, Marks, Born, Threads
<1>2. TypeOK /\ TypeOK' /\ (DistinctRefs => Kept) /\ (DistinctRefs => Marks) /\ [Next]_vars
        => (DistinctRefs => Marks)'
  BY DistinctBefore, MarksStep
<1>3. Marks => DeadlinesHitTheirTasks
  BY DEF Marks, DeadlinesHitTheirTasks
<1> QED  BY <1>1, <1>2, <1>3, TypeCorrect, RefsApart, PTL DEF Spec

----------------------------------------------------------------------------
(* Who still works for an unanswered ref *)

\* The last thread started for partition p, which the table names, or nobody yet: in flight,
\* or dead before its try block.
Holds(t, p) ==
  /\ InFlight(t) \/ pc[t] = "dead"
  /\ Name(t) = p
  /\ running[p].ref = Primary(t) /\ running[p].thread \in {None, t}

Somewhere(r) == Placed(r) \/ r \in RefsOf(draining)

\* The inductive form: nothing accepted disappears; who has reported has answered; only a
\* busy partition has a queue, and a busy partition has a thread that holds it.
Found ==
  /\ \A r \in accepted : Somewhere(r)
  /\ \A r \in Refs, t \in Threads : Told(t, r) => answered[r] > 0
  /\ Single(pending) /\ Single(draining)
  /\ ready => pending = <<>>
  /\ ~ready => draining = <<>>
  /\ \A t \in Threads : pc[t] = "unborn" => RefsIn(task[t]) = {}
  /\ \A p \in Partitions : queues[p] # <<>> => running[p].busy
  /\ \A p \in Partitions : running[p].busy => \E t \in Threads : Holds(t, p)

\* The steps that move no ref, answer nobody and let no thread go.
LEMMA QuietFound ==
  ASSUME Found, UNCHANGED <<ready, pending, draining, queues, task, accepted, answered>>,
         \A p \in Partitions : running'[p].busy = running[p].busy,
         \A t \in Threads : /\ pc'[t] = "unborn" => pc[t] = "unborn"
                            /\ pc'[t] \in Over => pc[t] \in Over,
         \A p \in Partitions : (\E t \in Threads : Holds(t, p))
                               => \E t \in Threads : Holds(t, p)'
  PROVE  Found'
<1>1. \A r \in Refs, t \in Threads : Told(t, r)' => Told(t, r)
  BY DEF Told
<1>2. \A r \in accepted : Somewhere(r) => Somewhere(r)'
  BY DEF Somewhere, Placed, InQueue, InTask
<1> QED  BY <1>1, <1>2 DEF Found

\* Who holds a partition goes on holding it while table and task stand.
LEMMA HoldsOn ==
  ASSUME NEW t, NEW p, Holds(t, p), running'[p] = running[p], task'[t] = task[t],
         InFlight(t)' \/ pc'[t] = "dead"
  PROVE  Holds(t, p)'
BY DEF Holds, Name, Primary

\* A start takes its entry along and forgets no other.
LEMMA StartFound ==
  ASSUME TypeOK, Found, NEW p \in Partitions, NEW e \in Entry, CmdName[e.cmd] = p,
         NEW pcs \in [Threads -> PcValues],
         \A u \in Threads : pcs[u] = "unborn" <=> pc[u] = "unborn",
         \A u \in Threads : (InFlight(u) \/ pc[u] = "dead") /\ Name(u) # p => pcs[u] = pc[u],
         \A u \in Threads : pcs[u] \in Over \ {"done"} => pc[u] \in Over,
         \A u \in Threads : pcs[u] = "done" => pc[u] \in Over,
         Start(p, e, pcs)
  PROVE  /\ \A x \in RefsIn(e) : InTask(x)'
         /\ \A x : InTask(x) => InTask(x)'
         /\ \A x \in Refs, t \in Threads : Told(t, x)' => Told(t, x)
         /\ \A t \in Threads : pc'[t] = "unborn" => RefsIn(task'[t]) = {}
         /\ running'[p].busy /\ \A q \in Partitions \ {p} : running'[q] = running[q]
         /\ \A q \in Partitions : running'[q].busy =>
              \E t \in Threads : Holds(t, q)'
<1>1. PICK t \in Threads :
        /\ \A u \in Threads : pcs[u] = "unborn" <=> u >= t
        /\ pc' = [pcs EXCEPT ![t] = "starting"]
        /\ task' = [task EXCEPT ![t] = e]
        /\ running' = [running EXCEPT ![p] =
                         [busy |-> TRUE, ref |-> Head(e.refs), thread |-> None]]
  BY DEF Start
<1>2. pc[t] = "unborn" /\ RefsIn(task[t]) = {}
  <2>1. t >= t
    BY BoundsAssumption DEF Threads
  <2> QED  BY <1>1, <2>1 DEF Found
<1>3. /\ task'[t] = e /\ pc'[t] = "starting"
      /\ \A u \in Threads \ {t} : task'[u] = task[u] /\ pc'[u] = pcs[u]
      /\ running'[p].busy /\ \A q \in Partitions \ {p} : running'[q] = running[q]
  BY <1>1 DEF TypeOK
<1>4. \A x \in RefsIn(e) : InTask(x)'
  BY <1>3 DEF InTask
<1>5. \A x : InTask(x) => InTask(x)'
  BY <1>2, <1>3 DEF InTask
<1>6. \A x \in Refs, u \in Threads : Told(u, x)' => Told(u, x)
  BY <1>3 DEF Told, Over
<1>7. \A u \in Threads : pc'[u] = "unborn" => RefsIn(task'[u]) = {}
  BY <1>3 DEF Found
<1>8. ASSUME NEW q \in Partitions, running'[q].busy
      PROVE  \E u \in Threads : Holds(u, q)'
  <2>1. CASE q = p
    <3>1. running'[p] = [busy |-> TRUE, ref |-> Head(e.refs), thread |-> None]
      BY <1>1 DEF TypeOK
    <3>2. Holds(t, p)'
      BY <1>3, <3>1 DEF Holds, InFlight, Name, Primary
    <3> QED  BY <2>1, <3>2
  <2>2. CASE q # p
    <3>1. PICK u \in Threads : Holds(u, q)
      BY <1>3, <1>8, <2>2 DEF Found
    <3>2. u # t /\ pcs[u] = pc[u]
      BY <1>2, <2>2, <3>1 DEF InFlight, Holds
    <3>3. pc'[u] = pc[u] /\ task'[u] = task[u] /\ running'[q] = running[q]
      BY <1>3, <2>2, <3>2
    <3>4. InFlight(u)' \/ pc'[u] = "dead"
      BY <3>1, <3>3 DEF InFlight, Holds
    <3> QED  BY <3>1, <3>3, <3>4, HoldsOn
  <2> QED  BY <2>1, <2>2
<1> QED  BY <1>3, <1>4, <1>5, <1>6, <1>7, <1>8

\* Joining a ref, known or new, to one entry of a list.
LEMMA JoinKeeps ==
  ASSUME NEW s \in Seq(Entry), NEW i \in DOMAIN s, NEW r \in Refs
  PROVE  RefsOf([s EXCEPT ![i].refs = Append(@, r)]) = RefsOf(s) \cup {r}
<1> DEFINE q == [s EXCEPT ![i].refs = Append(@, r)]
<1>1. DOMAIN q = DOMAIN s /\ \A j \in DOMAIN s : j # i => q[j] = s[j]
  OBVIOUS
<1>2. s[i] \in Entry /\ q[i] = [s[i] EXCEPT !.refs = Append(@, r)]
  OBVIOUS
<1>3. s[i].refs \in Seq(Refs) /\ q[i].refs = Append(s[i].refs, r)
  BY <1>2 DEF Entry
<1> HIDE DEF q
<1>4. RefsIn(q[i]) = RefsIn(s[i]) \cup {r}
  BY <1>3, AppendIn
<1>5. \A x : x \in RefsOf(q) <=> x \in RefsOf(s) \cup {r}
  BY <1>1, <1>4 DEF RefsOf
<1> QED  BY <1>5 DEF q

\* A submission, of a ref that is new or not, has it somewhere and forgets no other.
LEMMA SubmitFound ==
  ASSUME TypeOK, Found, NEW c \in Cmds, NEW r \in Refs, Submit(c, r),
         UNCHANGED <<ready, answered>>,
         \A x \in accepted : x \in RefsOf(draining) => x \in RefsOf(draining') \/ x = r,
         Single(draining'), ~ready => draining' = <<>>
  PROVE  Found'
<1> DEFINE p == CmdName[c]
           e == [cmd |-> c, refs |-> <<r>>]
<1>1. /\ p \in Partitions /\ e \in Entry /\ e.cmd = c /\ RefsIn(e) = {r}
      /\ accepted' = accepted \cup {r} /\ accepted \subseteq Refs
  <2>1. e \in Entry /\ e.refs = <<r>>
    BY DEF Entry
  <2> QED  BY <2>1, OneRef, CmdNameAssumption DEF Submit, TypeOK
<1>2. CASE ~ready
  <2>1. pending' = Append(pending, e) /\ UNCHANGED <<running, queues, pc, task>>
    BY <1>2 DEF Submit
  <2>2. RefsOf(pending') = RefsOf(pending) \cup {r} /\ Single(pending')
    <3>1. pending \in Seq(Entry) /\ Single(pending) /\ \E x \in Refs : e.refs = <<x>>
      BY DEF TypeOK, Found
    <3> HIDE DEF e
    <3> QED  BY <1>1, <2>1, <3>1, AppendRefs
  <2>3. \A x \in accepted' : Somewhere(x)'
    BY <1>1, <2>1, <2>2 DEF Found, Somewhere, Placed, InQueue, InTask
  <2>4. \A x \in Refs, t \in Threads : Told(t, x)' => Told(t, x)
    BY <2>1 DEF Told
  <2>5. \A t \in Threads, q \in Partitions : Holds(t, q) => Holds(t, q)'
    BY <2>1 DEF Holds, Name, InFlight, Primary
  <2>6. draining' = <<>> /\ Single(draining')
    BY <1>2
  <2> QED  BY <1>2, <2>1, <2>2, <2>3, <2>4, <2>5, <2>6 DEF Found
<1>3. CASE /\ ready /\ running[p].busy
           /\ Coalesce(p, c, r) \/ Enqueue(p, c, r)
           /\ UNCHANGED <<pending, running, pc, task>>
  <2>1. queues[p] \in Seq(Entry)
    BY <1>1 DEF TypeOK
  <2>2. RefsOf(queues'[p]) = RefsOf(queues[p]) \cup {r}
        /\ \A o \in Partitions : o # p => queues'[o] = queues[o]
    <3>1. CASE Enqueue(p, c, r)
      <4>1. queues' = [queues EXCEPT ![p] = Append(queues[p], e)]
        BY <3>1 DEF Enqueue
      <4>2. queues'[p] = Append(queues[p], e) /\ \A o \in Partitions : o # p => queues'[o] = queues[o]
        BY <1>1, <4>1 DEF TypeOK
      <4> HIDE DEF p, e
      <4> QED  BY <1>1, <2>1, <4>2, AppendRefs
    <3>2. CASE Coalesce(p, c, r)
      <4>1. PICK i \in DOMAIN queues[p] :
              queues' = IF r \in RefsIn(queues[p][i]) THEN queues
                        ELSE [queues EXCEPT ![p][i].refs = Append(@, r)]
        BY <3>2 DEF Coalesce
      <4>2. CASE r \in RefsIn(queues[p][i])
        BY <4>1, <4>2 DEF RefsOf
      <4>3. CASE r \notin RefsIn(queues[p][i])
        <5> DEFINE q == [queues[p] EXCEPT ![i].refs = Append(@, r)]
        <5>1. queues' = [queues EXCEPT ![p] = q]
          BY <4>1, <4>3
        <5>2. RefsOf(q) = RefsOf(queues[p]) \cup {r}
          <6> HIDE DEF p
          <6> QED  BY <2>1, JoinKeeps
        <5> HIDE DEF q, p
        <5> QED  BY <1>1, <5>1, <5>2 DEF TypeOK
      <4> QED  BY <4>2, <4>3
    <3> QED  BY <1>3, <3>1, <3>2
  <2> HIDE DEF p
  <2>3. \A x \in accepted' : Somewhere(x)'
    BY <1>1, <1>3, <2>2 DEF Found, Somewhere, Placed, InQueue, InTask
  <2>4. \A x \in Refs, t \in Threads : Told(t, x)' => Told(t, x)
    BY <1>3 DEF Told
  <2>5. \A t \in Threads, q \in Partitions : Holds(t, q) => Holds(t, q)'
    BY <1>3 DEF Holds, Name, InFlight, Primary
  <2> QED  BY <1>3, <2>2, <2>3, <2>4, <2>5 DEF Found
<1>4. CASE ready /\ Start(p, e, pc) /\ UNCHANGED <<pending, queues>>
  <2>1. pc \in [Threads -> PcValues]
    BY DEF TypeOK
  <2>2. /\ \A x \in RefsIn(e) : InTask(x)'
        /\ \A x : InTask(x) => InTask(x)'
        /\ \A x \in Refs, t \in Threads : Told(t, x)' => Told(t, x)
        /\ \A t \in Threads : pc'[t] = "unborn" => RefsIn(task'[t]) = {}
        /\ running'[p].busy /\ \A q \in Partitions \ {p} : running'[q] = running[q]
        /\ \A q \in Partitions : running'[q].busy =>
              \E t \in Threads : Holds(t, q)'
    <3>1. CmdName[e.cmd] = p
      BY <1>1
    <3>2. \A u \in Threads : pc[u] = "done" => pc[u] \in Over
      BY DEF Over
    <3> HIDE DEF p, e
    <3> QED  BY <1>1, <1>4, <2>1, <3>1, <3>2, StartFound
  <2> HIDE DEF p, e
  <2>3. \A x \in accepted' : Somewhere(x)'
    BY <1>1, <1>4, <2>2 DEF Found, Somewhere, Placed, InQueue
  <2> QED  BY <1>4, <2>2, <2>3 DEF Found
<1> QED  BY <1>2, <1>3, <1>4 DEF Submit

LEMMA FoundStep ==
  ASSUME TypeOK, TypeOK', QueuesAtHome, Found, [Next]_vars
  PROVE  Found'
<1>1. ASSUME NEW c \in Cmds, NEW r \in Refs, SubmitDirect(c, r) PROVE Found'
  BY <1>1, SubmitFound DEF SubmitDirect, Found
<1>2. CASE SubmitRequest
  <2>1. request \in Seq(Entry) /\ request # <<>>
    BY <1>2 DEF SubmitRequest, TypeOK
  <2>2. Head(request).cmd \in Cmds /\ Head(Head(request).refs) \in Refs
    BY <2>1, HeadType
  <2> QED  BY <1>2, <2>2, SubmitFound DEF SubmitRequest, Found
<1>3. CASE DrainOne
  <2>1. draining \in Seq(Entry) /\ draining # <<>> /\ draining' = Tail(draining)
    BY <1>3 DEF DrainOne, TypeOK
  <2>2. Head(draining).cmd \in Cmds /\ Head(Head(draining).refs) \in Refs
    BY <2>1, HeadType
  <2>3. /\ Single(Tail(draining)) /\ \E r \in Refs : Head(draining).refs = <<r>>
        /\ RefsOf(draining) = RefsIn(Head(draining)) \cup RefsOf(Tail(draining))
    BY <2>1, TailRefs DEF Found
  <2>4. RefsIn(Head(draining)) = {Head(Head(draining).refs)}
    BY <2>1, <2>3, HeadType, OneRef
  <2>5. ready
    BY <2>1 DEF Found
  <2> QED  BY <1>3, <2>1, <2>2, <2>3, <2>4, <2>5, SubmitFound DEF DrainOne
<1>4. CASE SetReady
  <2>1. /\ ready' = TRUE /\ draining' = pending /\ pending' = <<>> /\ ~ready
        /\ UNCHANGED <<running, queues, pc, task, accepted, answered>>
    BY <1>4 DEF SetReady, threads, ghosts
  <2>2. \A x \in accepted : Somewhere(x)'
    BY <2>1, NoRefs DEF Found, Somewhere, Placed, InQueue, InTask
  <2>3. \A t \in Threads, q \in Partitions : Holds(t, q) => Holds(t, q)'
    BY <2>1 DEF Holds, Name, InFlight, Primary
  <2> QED  BY <2>1, <2>2, <2>3, NoRefs DEF Found, Told
<1>5. ASSUME NEW t \in Threads, Report(t) PROVE Found'
  <2>1. /\ UNCHANGED <<ready, pending, draining, queues, running, task, accepted>>
        /\ pc[t] \in {"failed", "waiting"} /\ pc' = [pc EXCEPT ![t] = "reported"]
        /\ answered' = [r \in Refs |-> answered[r] + (IF r \in RefsIn(task[t]) THEN 1 ELSE 0)]
    BY <1>5 DEF Report, tables
  <2>2. \A u \in Threads \ {t} : pc'[u] = pc[u]
    BY <2>1 DEF TypeOK
  <2>3. ASSUME NEW r \in Refs, NEW u \in Threads, Told(u, r)' PROVE answered'[r] > 0
    <3>1. answered[r] \in Nat
      BY DEF TypeOK
    <3>2. CASE u = t
      <4>1. answered'[r] = answered[r] + 1
        BY <2>1, <2>3, <3>2 DEF Told
      <4> QED  BY <3>1, <4>1
    <3>3. CASE u # t
      <4>1. answered[r] > 0
        BY <2>1, <2>2, <2>3, <3>3 DEF Told, Found
      <4>2. answered'[r] = answered[r] + 1 \/ answered'[r] = answered[r] + 0
        BY <2>1
      <4> QED  BY <3>1, <4>1, <4>2
    <3> QED  BY <3>2, <3>3
  <2>4. /\ \A u \in Threads : InFlight(u) \/ pc[u] = "dead" => InFlight(u)' \/ pc'[u] = "dead"
        /\ \A u \in Threads : pc'[u] = "unborn" => pc[u] = "unborn"
    BY <2>1 DEF InFlight, TypeOK
  <2>5. \A r \in accepted : Somewhere(r)'
    BY <2>1 DEF Found, Somewhere, Placed, InQueue, InTask
  <2>6. \A u \in Threads, p \in Partitions : Holds(u, p) => Holds(u, p)'
    BY <2>1, <2>4 DEF Holds, Name, Primary
  <2> QED  BY <2>1, <2>3, <2>4, <2>5, <2>6 DEF Found
<1>6. ASSUME NEW t \in Threads, ProcessNext(t) PROVE Found'
  <2> DEFINE p == Name(t)
             left == [pc EXCEPT ![t] = "done"]
             e == Head(queues[p])
  <2>1. /\ p \in Partitions /\ pc[t] = "retired"
        /\ UNCHANGED <<ready, pending, draining, accepted, answered>>
    BY <1>6, OwnerType DEF ProcessNext, ghosts
  <2>2. /\ left \in [Threads -> PcValues] /\ left[t] = "done"
        /\ \A u \in Threads \ {t} : left[u] = pc[u]
    BY <2>1 DEF TypeOK, PcValues
  <2>3. CASE /\ queues[p] # <<>> /\ Start(p, e, left)
             /\ queues' = [queues EXCEPT ![p] = Tail(@)]
    <3>1. queues[p] \in Seq(Entry) /\ e \in Entry /\ CmdName[e.cmd] = p
      BY <2>1, <2>3, HeadType DEF TypeOK, QueuesAtHome
    <3>2. RefsOf(queues[p]) = RefsIn(e) \cup RefsOf(Tail(queues[p]))
      <4> HIDE DEF p
      <4> QED  BY <2>3, <3>1, TailRefs
    <3>3. /\ queues'[p] = Tail(queues[p])
          /\ \A q \in Partitions \ {p} : queues'[q] = queues[q]
      BY <2>1, <2>3 DEF TypeOK
    <3>4. /\ \A u \in Threads : left[u] = "unborn" <=> pc[u] = "unborn"
          /\ \A u \in Threads : (InFlight(u) \/ pc[u] = "dead") /\ Name(u) # p
                                  => left[u] = pc[u]
          /\ \A u \in Threads : left[u] \in Over \ {"done"} => pc[u] \in Over
          /\ \A u \in Threads : left[u] = "done" => pc[u] \in Over
      <4> HIDE DEF left
      <4> QED  BY <2>1, <2>2 DEF Over
    <3>5. /\ \A x \in RefsIn(e) : InTask(x)'
          /\ \A x : InTask(x) => InTask(x)'
          /\ \A x \in Refs, u \in Threads : Told(u, x)' => Told(u, x)
          /\ \A u \in Threads : pc'[u] = "unborn" => RefsIn(task'[u]) = {}
          /\ running'[p].busy /\ \A q \in Partitions \ {p} : running'[q] = running[q]
          /\ \A q \in Partitions : running'[q].busy =>
               \E u \in Threads : Holds(u, q)'
      <4> HIDE DEF left, p, e
      <4> QED  BY <2>1, <2>2, <2>3, <3>1, <3>4, StartFound
    <3> HIDE DEF left, p, e
    <3>6. \A x \in accepted : Somewhere(x)'
      BY <2>1, <3>2, <3>3, <3>5 DEF Found, Somewhere, Placed, InQueue
    <3> QED  BY <2>1, <3>3, <3>5, <3>6 DEF Found
  <2>4. CASE /\ queues[p] = <<>> /\ pc' = left /\ running' = [running EXCEPT ![p] = Idle]
             /\ UNCHANGED <<queues, task>>
    <3>1. /\ ~running'[p].busy /\ \A q \in Partitions \ {p} : running'[q] = running[q]
      BY <2>1, <2>4 DEF TypeOK, Idle
    <3>2. /\ pc'[t] = "done" /\ \A u \in Threads \ {t} : pc'[u] = pc[u]
      BY <2>2, <2>4
    <3>3. \A x \in Refs, u \in Threads : Told(u, x)' => Told(u, x)
      BY <2>1, <2>4, <3>2 DEF Told, Over
    <3>4. ASSUME NEW q \in Partitions, running'[q].busy
          PROVE  \E u \in Threads : Holds(u, q)'
      <4>1. q # p /\ running[q].busy
        BY <3>1, <3>4
      <4>2. PICK u \in Threads : Holds(u, q)
        BY <4>1 DEF Found
      <4>3. pc'[u] = pc[u] /\ task'[u] = task[u] /\ running'[q] = running[q]
        BY <2>4, <3>1, <3>2, <4>1, <4>2 DEF Holds
      <4>4. InFlight(u)' \/ pc'[u] = "dead"
        BY <4>2, <4>3 DEF InFlight, Holds
      <4> QED  BY <4>2, <4>3, <4>4, HoldsOn
    <3>5. \A x \in accepted : Somewhere(x)'
      BY <2>1, <2>4 DEF Found, Somewhere, Placed, InQueue, InTask
    <3>6. \A u \in Threads : pc'[u] = "unborn" => RefsIn(task'[u]) = {}
      BY <2>4, <3>2 DEF Found
    <3> HIDE DEF p
    <3>7. \A q \in Partitions : queues'[q] # <<>> => running'[q].busy
      BY <2>4, <3>1 DEF Found
    <3> QED  BY <2>1, <3>3, <3>4, <3>5, <3>6, <3>7 DEF Found
  <2> QED  BY <1>6, <2>3, <2>4 DEF ProcessNext
<1>7. ASSUME NEW t \in Threads,
             \/ Register(t) \/ Spawn(t) \/ Activate(t) \/ Retire(t)
             \/ StartFails(t) \/ DiesBeforeTry(t)
      PROVE  Found'
  <2>1. /\ UNCHANGED <<ready, pending, draining, queues, task, accepted, answered>>
        /\ running' = running \/ running' = [running EXCEPT ![Name(t)].thread = t]
    BY <1>7 DEF Register, Spawn, Activate, Retire, StartFails, DiesBeforeTry, Die, tables,
                ghosts
  <2>2. \A p \in Partitions : running'[p].busy = running[p].busy
    <3>1. Name(t) \in Partitions \/ running' = running
      BY <1>7, OwnerType DEF Register, Spawn, Activate, Retire, StartFails, DiesBeforeTry,
                             Die, tables
    <3>2. CASE running' = running
      BY <3>2
    <3>3. CASE running' = [running EXCEPT ![Name(t)].thread = t] /\ Name(t) \in Partitions
      BY <3>3 DEF TypeOK
    <3> QED  BY <2>1, <3>1, <3>2, <3>3
  <2>3. \A u \in Threads : /\ pc'[u] = "unborn" => pc[u] = "unborn"
                           /\ pc'[u] \in Over => pc[u] \in Over
                           /\ InFlight(u) \/ pc[u] = "dead" => InFlight(u)' \/ pc'[u] = "dead"
    BY <1>7 DEF Register, Spawn, Activate, Retire, StartFails, DiesBeforeTry, Die, Over,
                InFlight, TypeOK
  <2>4. ASSUME NEW p \in Partitions, NEW u \in Threads, Holds(u, p)
        PROVE  \E w \in Threads : Holds(w, p)'
    <3>1. CASE running'[p] = running[p]
      BY <2>1, <2>3, <2>4, <3>1, HoldsOn DEF Holds
    <3>2. CASE running'[p] # running[p]
      <4>1. /\ Register(t) /\ p = Name(t) /\ Name(t) \in Partitions
            /\ running[p].ref = Primary(t)
            /\ running' = [running EXCEPT ![p].thread = t]
        BY <1>7, <2>1, <3>2, OwnerType
        DEF Register, Spawn, Activate, Retire, StartFails, DiesBeforeTry, Die, tables, TypeOK
      <4>2. pc'[t] = "open" /\ running'[p].thread = t /\ running'[p].ref = Primary(t)
        BY <4>1 DEF Register, TypeOK
      <4>3. Holds(t, p)'
        BY <2>1, <4>1, <4>2 DEF Holds, InFlight, Name, Primary
      <4> QED  BY <4>3
    <3> QED  BY <3>1, <3>2
  <2> QED  BY <2>1, <2>2, <2>3, <2>4, QuietFound
<1>8. CASE UNCHANGED <<ready, pending, draining, queues, running, pc, task, accepted, answered>>
  <2>1. \A t \in Threads, p \in Partitions : Holds(t, p) => Holds(t, p)'
    BY <1>8 DEF Holds, InFlight, Name, Primary
  <2> QED  BY <1>8, <2>1, QuietFound
<1> QED
  BY <1>1, <1>2, <1>3, <1>4, <1>5, <1>6, <1>7, <1>8
  DEF Next, ThreadStep, HandleTaskRequest, EnforceDeadlines, Exit, Outlive, BeginShutdown,
      EndShutdown, Terminated, vars, tables, threads, ghosts

LEMMA FoundKept == Spec => []Found
<1>1. ASSUME Init PROVE Found
  <2>1. /\ accepted = {} /\ pending = <<>> /\ draining = <<>>
        /\ \A t \in Threads : pc[t] = "unborn" /\ task[t] = NoEntry
        /\ \A p \in Partitions : queues[p] = <<>> /\ ~running[p].busy
    BY <1>1 DEF Init, Idle
  <2> QED  BY <2>1, NoRefs DEF Found, Told, Over
<1>2. TypeOK /\ TypeOK' /\ QueuesAtHome /\ Found /\ [Next]_vars => Found'
  BY FoundStep
<1> QED  BY <1>1, <1>2, TypeCorrect, AtHome, PTL DEF Spec

\* An accepted ref that has no answer yet is with start-up, with the drain, with the
\* thread that runs its entry, or in the queue of a partition that comes round to it; only
\* a thread that died before its try block can have let it down, and only one that died
\* unregistered the queue behind it: for every interleaving, with equal refs too.
THEOREM NobodyForgotten == Spec => []UnansweredAreAttended
<1>1. TypeOK /\ Found => UnansweredAreAttended
  <2> SUFFICES ASSUME TypeOK, Found, NEW r \in accepted, answered[r] = 0 PROVE Attended(r)
    BY DEF UnansweredAreAttended
  <2>1. r \in Refs /\ \A t \in Threads : ~Told(t, r)
    BY DEF TypeOK, Found
  <2>2. ASSUME NEW t \in Threads, r \in RefsIn(task[t]) PROVE Working(t) \/ pc[t] = "dead"
    <3>1. pc[t] \in PcValues /\ pc[t] \notin Over /\ pc[t] # "unborn"
      BY <2>1, <2>2 DEF TypeOK, Told, Found
    <3> QED  BY <3>1 DEF PcValues, Over, Working
  <2>3. ASSUME NEW p \in Partitions, r \in RefsOf(queues[p]) PROVE Attended(r)
    <3>1. queues[p] # <<>>
      BY <2>3, NoRefs
    <3>2. PICK t \in Threads : Holds(t, p) /\ running[p].busy
      BY <3>1 DEF Found
    <3>3. CASE InFlight(t)
      BY <2>3, <3>2, <3>3 DEF Holds, Attended, ComesRound
    <3>4. CASE pc[t] = "dead" /\ running[p].thread = t
      <4>1. t # None
        BY NoneAssumption, BoundsAssumption DEF Threads
      <4> QED  BY <2>3, <3>2, <3>4, <4>1 DEF Attended, ComesRound, Stale, Alive
    <3>5. CASE pc[t] = "dead" /\ running[p].thread = None
      <4>1. running[p] = [busy |-> TRUE, ref |-> Primary(t), thread |-> None]
        BY <3>2, <3>5 DEF Holds, TypeOK
      <4> QED  BY <2>3, <3>2, <3>5, <4>1 DEF Holds, Attended, ComesRound, DiedUnregistered
    <3> QED  BY <3>2, <3>3, <3>4, <3>5 DEF Holds
  <2>4. ASSUME r \in RefsOf(pending) PROVE ~ready
    BY <2>4, NoRefs DEF Found
  <2> QED
    BY <2>2, <2>3, <2>4 DEF Found, Somewhere, Placed, InQueue, InTask, Attended, Lost
<1> QED  BY <1>1, TypeCorrect, FoundKept, PTL

----------------------------------------------------------------------------
(* SerialExecution: lists of entries as lists of jobs *)

JobOf(e) == [cmd |-> e.cmd, callers |-> RefsIn(e)]
Jobs == [cmd : Cmds, callers : SUBSET Refs]

LEMMA JobType == \A e \in Entry : JobOf(e) \in Jobs
<1> SUFFICES ASSUME NEW e \in Entry PROVE JobOf(e) \in Jobs
  OBVIOUS
<1>1. e.cmd \in Cmds /\ RefsIn(e) \in SUBSET Refs
  BY RefsAreRefs DEF Entry
<1> QED  BY <1>1 DEF JobOf, Jobs

LEMMA EntriesType ==
  ASSUME NEW s \in Seq(Entry)
  PROVE  /\ Entries(s) \in Seq(Jobs) /\ Len(Entries(s)) = Len(s)
         /\ DOMAIN Entries(s) = DOMAIN s
         /\ \A i \in 1 .. Len(s) : Entries(s)[i] = JobOf(s[i])
<1>1. \A i \in 1 .. Len(s) : JobOf(s[i]) \in Jobs
  BY JobType
<1>2. Entries(s) = [i \in 1 .. Len(s) |-> JobOf(s[i])]
  BY DEF Entries, JobOf
<1> QED  BY <1>1, <1>2

\* Two lists of jobs with the same jobs are equal.
LEMMA SameJobs ==
  ASSUME NEW a \in Seq(Jobs), NEW b \in Seq(Jobs), Len(a) = Len(b),
         \A i \in 1 .. Len(a) : a[i] = b[i]
  PROVE  a = b
OBVIOUS

LEMMA EntriesAppend ==
  ASSUME NEW s \in Seq(Entry), NEW e \in Entry
  PROVE  Entries(Append(s, e)) = Append(Entries(s), JobOf(e))
<1> DEFINE a == Entries(Append(s, e))
           b == Append(Entries(s), JobOf(e))
<1>1. /\ Append(s, e) \in Seq(Entry) /\ Len(Append(s, e)) = Len(s) + 1
      /\ Append(s, e)[Len(s) + 1] = e /\ Len(s) \in Nat
      /\ \A i \in 1 .. Len(s) : Append(s, e)[i] = s[i]
  OBVIOUS
<1>2. JobOf(e) \in Jobs
  BY JobType
<1>3. /\ a \in Seq(Jobs) /\ Len(a) = Len(s) + 1
      /\ \A i \in 1 .. (Len(s) + 1) : a[i] = JobOf(Append(s, e)[i])
  <2> DEFINE w == Append(s, e)
  <2>1. w \in Seq(Entry) /\ Len(w) = Len(s) + 1
    BY <1>1
  <2> HIDE DEF w
  <2>2. /\ Entries(w) \in Seq(Jobs) /\ Len(Entries(w)) = Len(w)
        /\ \A i \in 1 .. Len(w) : Entries(w)[i] = JobOf(w[i])
    BY <2>1, EntriesType
  <2> QED  BY <2>1, <2>2 DEF w
<1>4. /\ b \in Seq(Jobs) /\ Len(b) = Len(s) + 1 /\ b[Len(s) + 1] = JobOf(e)
      /\ \A i \in 1 .. Len(s) : b[i] = JobOf(s[i])
  BY <1>2, EntriesType
<1> HIDE DEF a, b
<1>5. \A i \in 1 .. Len(a) : a[i] = b[i]
  <2>1. ASSUME NEW i \in 1 .. (Len(s) + 1) PROVE a[i] = b[i]
    <3>1. i \in 1 .. Len(s) \/ i = Len(s) + 1
      BY <1>1
    <3> QED  BY <1>1, <1>3, <1>4, <2>1, <3>1
  <2> QED  BY <1>3, <2>1
<1>6. a = b
  BY <1>3, <1>4, <1>5, SameJobs
<1> QED  BY <1>6 DEF a, b

LEMMA EntriesTail ==
  ASSUME NEW s \in Seq(Entry), s # <<>>
  PROVE  /\ Entries(s) # <<>> /\ Head(Entries(s)) = JobOf(Head(s))
         /\ Entries(Tail(s)) = Tail(Entries(s))
<1> DEFINE a == Entries(Tail(s))
           b == Tail(Entries(s))
<1>1. /\ Tail(s) \in Seq(Entry) /\ Len(Tail(s)) = Len(s) - 1
      /\ \A i \in 1 .. (Len(s) - 1) : Tail(s)[i] = s[i + 1]
      /\ Len(s) \in Nat /\ Len(s) > 0 /\ Head(s) = s[1]
  OBVIOUS
<1>2. /\ Entries(s) \in Seq(Jobs) /\ Len(Entries(s)) = Len(s)
      /\ \A i \in 1 .. Len(s) : Entries(s)[i] = JobOf(s[i])
  BY EntriesType
<1>3. Entries(s) # <<>> /\ Head(Entries(s)) = JobOf(Head(s))
  BY <1>1, <1>2
<1>4. /\ a \in Seq(Jobs) /\ Len(a) = Len(s) - 1
      /\ \A i \in 1 .. (Len(s) - 1) : a[i] = JobOf(Tail(s)[i])
  <2> DEFINE w == Tail(s)
  <2>1. w \in Seq(Entry) /\ Len(w) = Len(s) - 1
    BY <1>1
  <2> HIDE DEF w
  <2>2. /\ Entries(w) \in Seq(Jobs) /\ Len(Entries(w)) = Len(w)
        /\ \A i \in 1 .. Len(w) : Entries(w)[i] = JobOf(w[i])
    BY <2>1, EntriesType
  <2> QED  BY <2>1, <2>2 DEF w
<1>5. /\ b \in Seq(Jobs) /\ Len(b) = Len(s) - 1
      /\ \A i \in 1 .. (Len(s) - 1) : b[i] = JobOf(s[i + 1])
  BY <1>1, <1>2, <1>3
<1> HIDE DEF a, b
<1>6. a = b
  BY <1>1, <1>4, <1>5, SameJobs
<1> QED  BY <1>3, <1>6 DEF a, b

\* A ref joins an entry of the queue, and a caller an entry of the promised lane.
RefJoins(s, i, r) == [s EXCEPT ![i].refs = Append(@, r)]
CallerJoins(l, i, r) == [l EXCEPT ![i].callers = @ \cup {r}]

LEMMA EntriesJoin ==
  ASSUME NEW s \in Seq(Entry), NEW i \in DOMAIN s, NEW r \in Refs
  PROVE  Entries(RefJoins(s, i, r)) = CallerJoins(Entries(s), i, r)
<1> DEFINE q == [s EXCEPT ![i].refs = Append(@, r)]
           a == Entries(q)
           b == [Entries(s) EXCEPT ![i].callers = @ \cup {r}]
           x == [s[i] EXCEPT !.refs = Append(@, r)]
<1>1. s[i] \in Entry
  OBVIOUS
<1>2. x \in Entry /\ x.cmd = s[i].cmd /\ RefsIn(x) = RefsIn(s[i]) \cup {r}
  <2>1. x \in Entry
    BY <1>1, AppendRefType
  <2>2. s[i].refs \in Seq(Refs) /\ x.refs = Append(s[i].refs, r) /\ x.cmd = s[i].cmd
    BY <1>1 DEF Entry
  <2>3. RefsIn(x) = RefsIn(s[i]) \cup {r}
    BY <2>2, AppendIn
  <2> QED  BY <2>1, <2>2, <2>3
<1>3. /\ q \in Seq(Entry) /\ Len(q) = Len(s) /\ q[i] = x
      /\ \A j \in 1 .. Len(s) : j # i => q[j] = s[j]
  BY <1>1, <1>2
<1>4. /\ Entries(s) \in Seq(Jobs) /\ Len(Entries(s)) = Len(s) /\ i \in 1 .. Len(s)
      /\ \A j \in 1 .. Len(s) : Entries(s)[j] = JobOf(s[j])
  BY EntriesType
<1>5. /\ a \in Seq(Jobs) /\ Len(a) = Len(s)
      /\ \A j \in 1 .. Len(s) : a[j] = JobOf(q[j])
  <2> HIDE DEF q
  <2> QED  BY <1>3, EntriesType
<1>6. /\ b \in Seq(Jobs) /\ Len(b) = Len(s)
      /\ b[i] = [JobOf(s[i]) EXCEPT !.callers = @ \cup {r}]
      /\ \A j \in 1 .. Len(s) : j # i => b[j] = JobOf(s[j])
  <2> DEFINE l == Entries(s)
             y == [l[i] EXCEPT !.callers = @ \cup {r}]
  <2>1. l[i] = JobOf(s[i]) /\ l[i] \in Jobs
    BY <1>4
  <2>2. y \in Jobs
    BY <2>1 DEF Jobs
  <2>3. b = [l EXCEPT ![i] = y]
    OBVIOUS
  <2> HIDE DEF l, y
  <2>4. /\ b \in Seq(Jobs) /\ Len(b) = Len(l) /\ b[i] = y
        /\ \A j \in 1 .. Len(l) : j # i => b[j] = l[j]
    <3>1. l \in Seq(Jobs) /\ i \in 1 .. Len(l)
      BY <1>4 DEF l
    <3> HIDE DEF b
    <3> QED  BY <2>2, <2>3, <3>1
  <2> QED  BY <1>4, <2>1, <2>4 DEF l, y
<1>7. JobOf(x) = [JobOf(s[i]) EXCEPT !.callers = @ \cup {r}]
  <2> DEFINE j == JobOf(s[i])
  <2>1. j \in Jobs /\ j.cmd = s[i].cmd /\ j.callers = RefsIn(s[i])
    BY <1>1, JobType DEF JobOf
  <2> HIDE DEF j
  <2> DEFINE k == j.callers \cup {r}
  <2> HIDE DEF k
  <2>2. [j EXCEPT !.callers = k] = [cmd |-> j.cmd, callers |-> k]
    BY <2>1 DEF Jobs
  <2> QED  BY <1>2, <2>1, <2>2 DEF JobOf, j, k
<1> HIDE DEF a, b, q, x
<1>8. \A j \in 1 .. Len(s) : a[j] = b[j]
  BY <1>3, <1>4, <1>5, <1>6, <1>7
<1>9. a = b
  BY <1>5, <1>6, <1>8, SameJobs
<1> QED  BY <1>9 DEF a, b, q, RefJoins, CallerJoins

----------------------------------------------------------------------------
(* SerialExecution: who runs *)

\* Where no thread dies before its try block, a busy partition has a thread in flight,
\* and the one it names is it.
Owners ==
  /\ \A t \in Threads : pc[t] # "dead"
  /\ \A p \in Partitions : running[p].busy => \E t \in Threads : InFlight(t) /\ Name(t) = p
  /\ \A p \in Partitions, u \in Threads : running[p].thread = u => InFlight(u)

LEMMA StartOwners ==
  ASSUME TypeOK, Registered, Owners, NEW p \in Partitions, NEW e \in Entry,
         CmdName[e.cmd] = p, NEW pcs \in [Threads -> PcValues],
         \A u \in Threads : pcs[u] = "unborn" <=> pc[u] = "unborn",
         \A u \in Threads : pcs[u] # "dead",
         \A u \in Threads : InFlight(u) /\ Name(u) # p => pcs[u] = pc[u],
         Start(p, e, pcs)
  PROVE  Owners'
<1>1. PICK t \in Threads :
        /\ \A u \in Threads : pcs[u] = "unborn" <=> u >= t
        /\ pc' = [pcs EXCEPT ![t] = "starting"]
        /\ task' = [task EXCEPT ![t] = e]
        /\ running' = [running EXCEPT ![p] =
                         [busy |-> TRUE, ref |-> Head(e.refs), thread |-> None]]
  BY DEF Start
<1>2. pc[t] = "unborn"
  <2>1. t >= t
    BY BoundsAssumption DEF Threads
  <2> QED  BY <1>1, <2>1
<1>3. None \notin Threads
  BY NoneAssumption, BoundsAssumption DEF Threads
<1>4. /\ pc'[t] = "starting" /\ task'[t] = e
      /\ \A u \in Threads \ {t} : pc'[u] = pcs[u] /\ task'[u] = task[u]
  BY <1>1 DEF TypeOK
<1>5. /\ running'[p].thread = None
      /\ \A q \in Partitions \ {p} : running'[q] = running[q]
  BY <1>1 DEF TypeOK
<1>6. InFlight(t)' /\ Name(t)' = p
  BY <1>4 DEF InFlight, Name
<1>7. ASSUME NEW u \in Threads, InFlight(u), Name(u) # p
      PROVE  InFlight(u)' /\ Name(u)' = Name(u)
  <2>1. u # t /\ pcs[u] = pc[u]
    BY <1>2, <1>7 DEF InFlight
  <2> QED  BY <1>4, <1>7, <2>1 DEF InFlight, Name
<1>8. \A u \in Threads : pc'[u] # "dead"
  BY <1>4
<1>9. ASSUME NEW q \in Partitions, running'[q].busy
      PROVE  \E u \in Threads : InFlight(u)' /\ Name(u)' = q
  BY <1>5, <1>6, <1>7, <1>9 DEF Owners
<1>10. ASSUME NEW q \in Partitions, NEW u \in Threads, running'[q].thread = u
       PROVE  InFlight(u)'
  BY <1>3, <1>5, <1>7, <1>10 DEF Owners, Registered
<1> QED  BY <1>8, <1>9, <1>10 DEF Owners

\* The steps that keep the table and the tasks, and let no thread go.
LEMMA QuietOwners ==
  ASSUME Owners, UNCHANGED <<running, task>>,
         \A u \in Threads : /\ InFlight(u) => InFlight(u)'
                            /\ pc'[u] = "dead" => pc[u] = "dead"
  PROVE  Owners'
BY DEF Owners, Name

LEMMA SubmitOwners ==
  ASSUME TypeOK, Registered, Owners, NEW c \in Cmds, NEW r \in Refs, Submit(c, r)
  PROVE  Owners'
<1> DEFINE p == CmdName[c]
           e == [cmd |-> c, refs |-> <<r>>]
<1>1. CASE UNCHANGED <<running, pc, task>>
  BY <1>1, QuietOwners DEF InFlight
<1>2. CASE Start(p, e, pc)
  <2>1. /\ e \in Entry /\ p \in Partitions /\ CmdName[e.cmd] = p
        /\ pc \in [Threads -> PcValues]
    BY CmdNameAssumption DEF Entry, TypeOK
  <2> HIDE DEF e, p
  <2> QED  BY <1>2, <2>1, StartOwners DEF Owners
<1> QED  BY <1>1, <1>2 DEF Submit

LEMMA FaultsGrow ==
  ASSUME TypeOK, [Next]_vars, faults' = 0
  PROVE  faults = 0
<1>1. ASSUME NEW t \in Threads, StartFails(t) \/ DiesBeforeTry(t) PROVE FALSE
  BY <1>1 DEF StartFails, DiesBeforeTry, Die, TypeOK
<1>2. CASE faults' = faults
  BY <1>2
<1> QED
  BY <1>1, <1>2
  DEF Next, SubmitDirect, HandleTaskRequest, SubmitRequest, SetReady, DrainOne,
      ThreadStep, Register, Spawn, Activate, Report, Retire, ProcessNext,
      EnforceDeadlines, Exit, Outlive, BeginShutdown, EndShutdown, Terminated, vars

LEMMA OwnersStep ==
  ASSUME TypeOK, QueuesAtHome, Ownership, Registered, Owners, faults' = 0,
         [Next]_vars
  PROVE  Owners' /\ faults = 0
<1>1. ASSUME NEW c \in Cmds, NEW r \in Refs, SubmitDirect(c, r) PROVE Owners' /\ faults = 0
  BY <1>1, SubmitOwners DEF SubmitDirect
<1>2. CASE SubmitRequest \/ DrainOne
  <2>1. PICK c \in Cmds, r \in Refs : Submit(c, r)
    BY <1>2, HeadType DEF SubmitRequest, DrainOne, TypeOK
  <2> QED  BY <1>2, <2>1, SubmitOwners DEF SubmitRequest, DrainOne
<1>3. ASSUME NEW t \in Threads, Register(t) PROVE Owners' /\ faults = 0
  <2>1. /\ pc[t] = "starting" /\ pc' = [pc EXCEPT ![t] = "open"] /\ task' = task
        /\ faults' = faults
        /\ \/ running' = running
           \/ running[Name(t)].busy /\ running' = [running EXCEPT ![Name(t)].thread = t]
        /\ Name(t) \in Partitions
    BY <1>3, OwnerType DEF Register
  <2>2. \A u \in Threads : /\ InFlight(u)' <=> InFlight(u)
                           /\ Name(u)' = Name(u)
                           /\ pc'[u] = "dead" => pc[u] = "dead"
    BY <2>1 DEF InFlight, Name, TypeOK
  <2>3. CASE running' = running
    BY <2>1, <2>2, <2>3, QuietOwners
  <2>4. CASE running[Name(t)].busy /\ running' = [running EXCEPT ![Name(t)].thread = t]
    <3>1. \A q \in Partitions : /\ running'[q].busy = running[q].busy
                                /\ running'[q].thread = running[q].thread \/ running'[q].thread = t
      BY <2>1, <2>4 DEF TypeOK
    <3>2. InFlight(t)
      BY <2>1 DEF InFlight
    <3> QED  BY <2>1, <2>2, <3>1, <3>2 DEF Owners
  <2> QED  BY <2>1, <2>3, <2>4
<1>4. ASSUME NEW t \in Threads, ProcessNext(t) PROVE Owners' /\ faults = 0
  <2> DEFINE p == Name(t)
             left == [pc EXCEPT ![t] = "done"]
             e == Head(queues[p])
  <2>1. p \in Partitions /\ pc[t] = "retired" /\ InFlight(t) /\ faults' = faults
    BY <1>4, OwnerType DEF ProcessNext, InFlight
  <2>2. /\ left \in [Threads -> PcValues] /\ left[t] = "done"
        /\ \A u \in Threads \ {t} : left[u] = pc[u]
    BY <2>1 DEF TypeOK, PcValues
  <2>3. \A u \in Threads : InFlight(u) /\ Name(u) # p => u # t
    BY <2>1
  <2>4. CASE queues[p] # <<>> /\ Start(p, e, left)
    <3>1. e \in Entry /\ CmdName[e.cmd] = p
      BY <2>1, <2>4, HeadType DEF TypeOK, QueuesAtHome
    <3>2. /\ \A u \in Threads : left[u] = "unborn" <=> pc[u] = "unborn"
          /\ \A u \in Threads : left[u] # "dead"
          /\ \A u \in Threads : InFlight(u) /\ Name(u) # p => left[u] = pc[u]
      <4> HIDE DEF left
      <4> QED  BY <2>1, <2>2, <2>3 DEF Owners
    <3> HIDE DEF left, p, e
    <3> QED  BY <2>1, <2>2, <2>4, <3>1, <3>2, StartOwners
  <2>5. CASE pc' = left /\ running' = [running EXCEPT ![p] = Idle] /\ UNCHANGED task
    <3>1. ASSUME NEW u \in Threads, InFlight(u), Name(u) # p
          PROVE  InFlight(u)' /\ Name(u)' = Name(u)
      <4>1. u # t /\ pc'[u] = pc[u]
        BY <2>2, <2>3, <2>5, <3>1
      <4> QED  BY <2>5, <3>1, <4>1 DEF InFlight, Name
    <3>2. /\ ~running'[p].busy /\ running'[p].thread = None
          /\ \A q \in Partitions \ {p} : running'[q] = running[q]
      BY <2>1, <2>5 DEF TypeOK, Idle
    <3>3. None \notin Threads
      BY NoneAssumption, BoundsAssumption DEF Threads
    <3>4. \A u \in Threads : pc'[u] # "dead"
      <4> HIDE DEF left
      <4> QED  BY <2>2, <2>5 DEF Owners
    <3> HIDE DEF p
    <3>5. ASSUME NEW q \in Partitions, running'[q].busy
          PROVE  \E u \in Threads : InFlight(u)' /\ Name(u)' = q
      BY <3>1, <3>2, <3>5 DEF Owners
    <3>6. ASSUME NEW q \in Partitions, NEW u \in Threads, running'[q].thread = u
          PROVE  InFlight(u)'
      BY <3>1, <3>2, <3>3, <3>6 DEF Owners, Registered
    <3> QED  BY <2>1, <3>4, <3>5, <3>6 DEF Owners
  <2> QED  BY <1>4, <2>4, <2>5 DEF ProcessNext
<1>5. ASSUME NEW t \in Threads, Spawn(t) \/ Activate(t) \/ Report(t) \/ Retire(t)
      PROVE  Owners' /\ faults = 0
  <2>1. UNCHANGED <<running, task, faults>>
    BY <1>5 DEF Spawn, Activate, Report, Retire, tables
  <2>2. \A u \in Threads : /\ InFlight(u) => InFlight(u)'
                           /\ pc'[u] = "dead" => pc[u] = "dead"
    BY <1>5 DEF Spawn, Activate, Report, Retire, InFlight, TypeOK
  <2> QED  BY <2>1, <2>2, QuietOwners
<1>6. ASSUME NEW t \in Threads, StartFails(t) \/ DiesBeforeTry(t) PROVE FALSE
  BY <1>6 DEF StartFails, DiesBeforeTry, Die, TypeOK
<1>7. CASE UNCHANGED <<running, task, pc, faults>>
  BY <1>7, QuietOwners DEF InFlight
<1> QED
  BY <1>1, <1>2, <1>3, <1>4, <1>5, <1>6, <1>7
  DEF Next, ThreadStep, HandleTaskRequest, SetReady, EnforceDeadlines,
      Exit, Outlive, BeginShutdown, EndShutdown, Terminated, vars, tables, threads

----------------------------------------------------------------------------
(* SerialExecution: the steps *)

Runs == [cmd : Cmds, callers : SUBSET Refs, ended : BOOLEAN]

LEMMA NobodyIsNoRun == None \notin Runs
BY NobodyAssumption, BoundsAssumption DEF Runs, Refs

\* What the abstract executor runs is the task of the thread in flight.
LEMMA CurrentIs ==
  ASSUME Ownership, Owners, NEW p \in Partitions
  PROVE  /\ ~running[p].busy => Current[p] = None
         /\ \A t \in Threads : InFlight(t) /\ Name(t) = p => Current[p] = RunOf(t)
<1>1. ASSUME NEW t \in Threads, InFlight(t), Name(t) = p PROVE Current[p] = RunOf(t)
  <2>1. running[p].busy
    BY <1>1 DEF Ownership
  <2>2. InFlight(Runner(p)) /\ Name(Runner(p)) = p /\ Runner(p) \in Threads
    BY <1>1 DEF Runner
  <2>3. Runner(p) = t
    BY <1>1, <2>2 DEF Ownership
  <2> QED  BY <2>1, <2>3 DEF Current
<1> QED  BY <1>1 DEF Current

LEMMA CurrentIsNext ==
  ASSUME Ownership', Owners', NEW p \in Partitions
  PROVE  /\ ~running'[p].busy => Current'[p] = None
         /\ \A t \in Threads : InFlight(t)' /\ Name(t)' = p => Current'[p] = RunOf(t)'
<1>1. ASSUME NEW t \in Threads, InFlight(t)', Name(t)' = p PROVE Current'[p] = RunOf(t)'
  <2>1. running'[p].busy
    BY <1>1 DEF Ownership
  <2>2. InFlight(Runner(p))' /\ Name(Runner(p))' = p /\ Runner(p)' \in Threads
    BY <1>1 DEF Runner
  <2>3. Runner(p)' = t
    BY <1>1, <2>2 DEF Ownership
  <2> QED  BY <2>1, <2>3 DEF Current
<1> QED  BY <1>1 DEF Current

\* A partition whose owner goes on runs the same.
LEMMA CurrentKept ==
  ASSUME Ownership, Owners, Ownership', Owners', NEW p \in Partitions,
         running'[p].busy => running[p].busy,
         \A t \in Threads : InFlight(t) /\ Name(t) = p =>
           InFlight(t)' /\ Name(t)' = p /\ RunOf(t)' = RunOf(t)
  PROVE  Current'[p] = Current[p]
<1>1. CASE running[p].busy
  <2>1. PICK t \in Threads : InFlight(t) /\ Name(t) = p
    BY <1>1 DEF Owners
  <2> QED  BY <2>1, CurrentIs, CurrentIsNext
<1>2. CASE ~running[p].busy
  BY <1>2, CurrentIs, CurrentIsNext
<1> QED  BY <1>1, <1>2

\* Functions over the partitions with the same values are equal.
LEMMA MapsAreFunctions ==
  /\ Current = [p \in Partitions |-> Current[p]]
  /\ Waiting = [p \in Partitions |-> Waiting[p]]
  /\ Current' = [p \in Partitions |-> Current'[p]]
  /\ Waiting' = [p \in Partitions |-> Waiting'[p]]
BY DEF Current, Waiting

LEMMA SameCurrent ==
  ASSUME UNCHANGED <<running, task, pc>>
  PROVE  Current' = Current
<1>1. \A t \in Threads : /\ InFlight(t)' <=> InFlight(t)
                         /\ Name(t)' = Name(t)
                         /\ RunOf(t)' = RunOf(t)
  BY DEF InFlight, Name, RunOf
<1>2. \A p \in Partitions : Runner(p)' = Runner(p)
  BY DEF Runner, InFlight, Name
<1> QED  BY <1>2 DEF Current, RunOf

\* The state in which the steps are matched.
Matched ==
  TypeOK /\ QueuesAtHome /\ Ownership /\ Registered /\ Owners /\ Kept

\* A busy partition is running something, and is not stale; an idle one is free.
LEMMA BusyIsRunning ==
  ASSUME Matched, NEW p \in Partitions
  PROVE  /\ running[p].busy => Current[p] # None
         /\ running[p].busy => ~Stale(p)
         /\ ~running[p].busy => Current[p] = None
         /\ \A t \in Threads : InFlight(t) /\ Name(t) = p =>
              running[p].busy /\ Current[p] = RunOf(t) /\ Current[p] \in Runs
<1> USE DEF Matched
<1>1. ASSUME NEW t \in Threads, InFlight(t) PROVE RunOf(t) \in Runs
  <2>1. task[t].cmd \in Cmds /\ RefsIn(task[t]) \in SUBSET Refs
    BY <1>1, OwnerType, RefsAreRefs DEF InFlight, Entry
  <2> QED  BY <2>1 DEF RunOf, Runs
<1>2. \A t \in Threads : InFlight(t) /\ Name(t) = p =>
        running[p].busy /\ Current[p] = RunOf(t) /\ Current[p] \in Runs
  BY <1>1, CurrentIs DEF Ownership
<1>3. running[p].busy => Current[p] # None
  BY <1>2, NobodyIsNoRun DEF Owners
<1>4. ~Stale(p)
  <2>1. running[p].thread \in Threads \cup {None}
    BY DEF TypeOK
  <2>2. \A u \in Threads : running[p].thread = u => Alive(u)
    BY DEF Owners, InFlight, Alive
  <2> QED  BY <2>1, <2>2 DEF Stale
<1> QED  BY <1>2, <1>3, <1>4, CurrentIs

\* A submission to a ready queue is a Take of the executor.
LEMMA TakeStep ==
  ASSUME Matched, Matched', ready,
         NEW c \in Cmds, NEW r \in Refs, ~Placed(r), Submit(c, r)
  PROVE  Executor!Take(c, r)
<1> DEFINE p == CmdName[c]
           e == [cmd |-> c, refs |-> <<r>>]
<1>0. p \in Partitions /\ e \in Entry /\ e.cmd = c /\ RefsIn(e) = {r}
  <2>1. e \in Entry /\ e.refs = <<r>>
    BY DEF Entry
  <2> QED  BY <2>1, OneRef, CmdNameAssumption
<1>1. JobOf(e) = [cmd |-> c, callers |-> {r}]
  BY <1>0 DEF JobOf
<1>2. queues[p] \in Seq(Entry) /\ Waiting[p] = Entries(queues[p])
      /\ DOMAIN Waiting[p] = DOMAIN queues[p]
      /\ \A i \in DOMAIN queues[p] : Waiting[p][i].cmd = queues[p][i].cmd
      /\ r \notin RefsOf(queues[p])
  <2>1. queues[p] \in Seq(Entry) /\ Waiting[p] = Entries(queues[p]) /\ r \notin RefsOf(queues[p])
    BY <1>0 DEF Matched, TypeOK, Waiting, Placed, InQueue
  <2> HIDE DEF p
  <2>2. \A i \in 1 .. Len(queues[p]) : Entries(queues[p])[i] = JobOf(queues[p][i])
    BY <2>1, EntriesType
  <2>3. ASSUME NEW i \in DOMAIN queues[p] PROVE Waiting[p][i].cmd = queues[p][i].cmd
    <3>1. i \in 1 .. Len(queues[p])
      BY <2>1
    <3>2. Waiting[p][i] = JobOf(queues[p][i])
      BY <2>1, <2>2, <3>1
    <3> QED  BY <3>2 DEF JobOf
  <2> QED  BY <2>1, <2>3, EntriesType
<1>3. ASSUME NEW q, queues' = [queues EXCEPT ![p] = q]
      PROVE  Waiting' = [Waiting EXCEPT ![p] = Entries(q)]
  <2>1. queues \in [Partitions -> Seq(Entry)]
    BY DEF Matched, TypeOK
  <2> HIDE DEF p
  <2>2. \A o \in Partitions : queues'[o] = IF o = p THEN q ELSE queues[o]
    BY <1>0, <1>3, <2>1
  <2> QED  BY <1>0, <2>2 DEF Waiting
<1>4. CASE running[p].busy /\ ~Stale(p) /\ UNCHANGED <<pending, running, pc, task>>
           /\ Coalesce(p, c, r)
  <2>1. PICK i \in DOMAIN queues[p] :
          /\ queues[p][i].cmd = c
          /\ queues' = IF r \in RefsIn(queues[p][i]) THEN queues
                       ELSE [queues EXCEPT ![p][i].refs = Append(@, r)]
    BY <1>4 DEF Coalesce
  <2>2. r \notin RefsIn(queues[p][i])
    BY <1>2 DEF RefsOf
  <2> DEFINE q == [queues[p] EXCEPT ![i].refs = Append(@, r)]
  <2>3. queues' = [queues EXCEPT ![p] = q]
    BY <2>1, <2>2
  <2>4. Entries(q) = [Entries(queues[p]) EXCEPT ![i].callers = @ \cup {r}]
    <3> HIDE DEF p
    <3>1. Entries(RefJoins(queues[p], i, r)) = CallerJoins(Entries(queues[p]), i, r)
      BY <1>2, EntriesJoin
    <3> QED  BY <3>1 DEF RefJoins, CallerJoins
  <2>5. Waiting' = [Waiting EXCEPT ![p] = Entries(q)]
    <3> HIDE DEF q, p
    <3> QED  BY <1>3, <2>3
  <2>6. Waiting' = [Waiting EXCEPT ![p][i].callers = @ \cup {r}]
    <3> HIDE DEF q, p
    <3> QED  BY <1>2, <2>4, <2>5
  <2>7. Current' = Current /\ Current[p] # None
    BY <1>0, <1>4, SameCurrent, BusyIsRunning
  <2> QED  BY <1>2, <2>1, <2>6, <2>7 DEF Executor!Take
<1>5. CASE running[p].busy /\ ~Stale(p) /\ UNCHANGED <<pending, running, pc, task>>
           /\ Enqueue(p, c, r)
  <2>1. /\ queues' = [queues EXCEPT ![p] = Append(queues[p], e)]
        /\ \A i \in DOMAIN queues[p] : queues[p][i].cmd # c
    BY <1>5 DEF Enqueue
  <2>2. Entries(Append(queues[p], e)) = Append(Waiting[p], [cmd |-> c, callers |-> {r}])
    <3> HIDE DEF p, e
    <3> QED  BY <1>0, <1>1, <1>2, EntriesAppend
  <2>3. Waiting' = [Waiting EXCEPT ![p] = Append(@, [cmd |-> c, callers |-> {r}])]
    <3> DEFINE a == Append(queues[p], e)
    <3>1. queues' = [queues EXCEPT ![p] = a]
      BY <2>1
    <3>2. Waiting' = [Waiting EXCEPT ![p] = Entries(a)]
      <4> HIDE DEF a, p
      <4> QED  BY <1>3, <3>1
    <3> QED  BY <2>2, <3>2
  <2>4. Current' = Current /\ Current[p] # None
    BY <1>0, <1>5, SameCurrent, BusyIsRunning
  <2> QED  BY <1>2, <2>1, <2>3, <2>4 DEF Executor!Take, Executor!Job
<1>6. CASE (~running[p].busy \/ Stale(p)) /\ Start(p, e, pc) /\ UNCHANGED <<pending, queues>>
  <2>1. ~running[p].busy /\ Current[p] = None
    BY <1>0, <1>6, BusyIsRunning
  <2>2. PICK t \in Threads :
          /\ pc[t] = "unborn" /\ pc' = [pc EXCEPT ![t] = "starting"]
          /\ task' = [task EXCEPT ![t] = e]
          /\ RefsIn(task'[t]) = RefsIn(e) /\ RefsIn(task[t]) = {}
          /\ \A u \in Threads \ {t} : task'[u] = task[u] /\ pc'[u] = pc[u]
    <3>1. \A x \in RefsIn(e) : ~InTask(x)
      BY <1>0 DEF Placed
    <3>2. pc \in [Threads -> PcValues] /\ TypeOK /\ Alone
      BY DEF Matched, TypeOK, Kept
    <3> HIDE DEF p, e
    <3> QED  BY <1>0, <1>6, <3>1, <3>2, StartTasks
  <2>3. pc'[t] = "starting" /\ task'[t] = e
    BY <2>2 DEF Matched, TypeOK
  <2>4. /\ running'[p].busy
        /\ \A q \in Partitions : q # p => running'[q] = running[q]
    BY <1>0, <1>6 DEF Start, Matched, TypeOK
  <2>5. InFlight(t)' /\ Name(t)' = p
    BY <1>0, <2>3 DEF InFlight, Name
  <2>6. RunOf(t)' = [cmd |-> c, callers |-> {r}, ended |-> FALSE]
    <3> HIDE DEF e
    <3>1. /\ task'[t].cmd = c /\ RefsIn(task'[t]) = {r}
          /\ (pc'[t] \in {"reported", "retired"}) = FALSE
      BY <1>0, <2>3
    <3> QED  BY <3>1 DEF RunOf
  <2> HIDE DEF p, e
  <2>7. Current'[p] = [cmd |-> c, callers |-> {r}, ended |-> FALSE]
    BY <1>0, <2>5, <2>6, CurrentIsNext DEF Matched
  <2>8. ASSUME NEW q \in Partitions, q # p PROVE Current'[q] = Current[q]
    <3>1. \A u \in Threads : InFlight(u) => u # t
      BY <2>2 DEF InFlight
    <3>2. \A u \in Threads : InFlight(u) /\ Name(u) = q =>
            InFlight(u)' /\ Name(u)' = q /\ RunOf(u)' = RunOf(u)
      BY <2>2, <3>1 DEF InFlight, Name, RunOf
    <3> QED  BY <2>4, <2>8, <3>2, CurrentKept DEF Matched
  <2>9. Current' = [Current EXCEPT ![p] = [cmd |-> c, callers |-> {r}, ended |-> FALSE]]
    BY <1>0, <2>7, <2>8, MapsAreFunctions
  <2>10. Waiting' = Waiting
    BY <1>6 DEF Waiting
  <2> QED  BY <2>1, <2>9, <2>10 DEF Executor!Take, Executor!Run, Executor!Job, p
<1> QED  BY <1>4, <1>5, <1>6 DEF Submit

\* What is held back is in the buffer before set_ready, in the drain after it.
LEMMA HeldIs ==
  ASSUME TypeOK, Feeds
  PROVE  /\ ready => Held = Entries(draining)
         /\ ~ready => Held = Entries(pending)
<1>1. /\ draining \in Seq(Entry) /\ pending \in Seq(Entry)
      /\ \A s \in Seq(Entry) : s \o <<>> = s /\ <<>> \o s = s
  BY DEF TypeOK
<1> QED  BY <1>1 DEF Feeds, Held

LEMMA HeldIsNext ==
  ASSUME TypeOK', Feeds'
  PROVE  /\ ready' => Held' = Entries(draining')
         /\ ~ready' => Held' = Entries(pending')
<1>1. /\ draining' \in Seq(Entry) /\ pending' \in Seq(Entry)
      /\ \A s \in Seq(Entry) : s \o <<>> = s /\ <<>> \o s = s
  BY DEF TypeOK
<1> QED  BY <1>1 DEF Feeds, Held

\* A submission while the queue is not ready is held back, last.
LEMMA HoldStep ==
  ASSUME Matched, Matched', ~ready, NEW c \in Cmds, NEW r \in Refs, Submit(c, r),
         UNCHANGED <<ready, answered>>
  PROVE  Executor!Hold(c, r)
<1> DEFINE e == [cmd |-> c, refs |-> <<r>>]
<1>1. e \in Entry /\ JobOf(e) = [cmd |-> c, callers |-> {r}]
  <2>1. e \in Entry /\ e.refs = <<r>> /\ e.cmd = c
    BY DEF Entry
  <2>2. RefsIn(e) = {r}
    BY <2>1, OneRef
  <2> HIDE DEF e
  <2> QED  BY <2>1, <2>2 DEF JobOf
<1>2. pending' = Append(pending, e) /\ UNCHANGED <<running, queues, pc, task>>
  BY DEF Submit
<1>3. Held = Entries(pending) /\ Held' = Entries(pending') /\ pending \in Seq(Entry)
  BY HeldIs, HeldIsNext DEF Matched, Kept, TypeOK
<1>4. Held' = Append(Held, [cmd |-> c, callers |-> {r}])
  <2> HIDE DEF e
  <2> QED  BY <1>1, <1>2, <1>3, EntriesAppend
<1>5. Current' = Current /\ Waiting' = Waiting /\ Informed' = Informed
  BY <1>2, SameCurrent DEF Waiting, Informed
<1> QED  BY <1>4, <1>5 DEF Executor!Hold, Executor!Job

\* A submission while the queue is ready is accepted, and disturbs no held job.
LEMMA AcceptStep ==
  ASSUME Matched, Matched', ready,
         NEW c \in Cmds, NEW r \in Refs, ~Placed(r), Submit(c, r),
         UNCHANGED <<ready, draining, answered>>
  PROVE  Executor!Accept(c, r)
<1>1. Executor!Take(c, r)
  BY TakeStep
<1>2. Held' = Held /\ Informed' = Informed
  BY HeldIs, HeldIsNext DEF Matched, Kept, Informed
<1> QED  BY <1>1, <1>2 DEF Executor!Accept

LEMMA ReleaseStep ==
  ASSUME Matched, Matched', DrainOne
  PROVE  Executor!Release
<1>1. draining \in Seq(Entry) /\ draining # <<>> /\ Single(draining) /\ ready /\ ready'
  BY DEF DrainOne, Matched, TypeOK, Kept, Feeds
<1>2. PICK r \in Refs : Head(draining).refs = <<r>>
  BY <1>1, TailRefs
<1>3. /\ Head(Head(draining).refs) = r /\ Head(draining).cmd \in Cmds
      /\ RefsIn(Head(draining)) = {r} /\ r \in RefsOf(draining)
  BY <1>1, <1>2, HeadType, TailRefs, OneRef
<1>4. ~Placed(r)
  BY <1>3 DEF Matched, Kept, Feeds
<1>5. Submit(Head(draining).cmd, r) /\ draining' = Tail(draining) /\ answered' = answered
  BY <1>3 DEF DrainOne
<1>6. Executor!Take(Head(draining).cmd, r)
  BY <1>1, <1>3, <1>4, <1>5, TakeStep
<1>7. /\ Held # <<>> /\ Head(Held) = JobOf(Head(draining)) /\ Held' = Tail(Held)
  BY <1>1, <1>5, HeldIs, HeldIsNext, EntriesTail DEF Matched, Kept
<1>8. Head(Held).cmd = Head(draining).cmd /\ r \in Head(Held).callers
  BY <1>3, <1>7 DEF JobOf
<1>9. Informed' = Informed
  BY <1>5 DEF Informed
<1> QED  BY <1>1, <1>6, <1>7, <1>8, <1>9 DEF Executor!Release

LEMMA OpenStep ==
  ASSUME Matched, Matched', SetReady
  PROVE  Executor!Open
<1>1. /\ ~ready /\ ready' = TRUE /\ draining' = pending
      /\ UNCHANGED <<running, queues, task, pc, answered>>
  BY DEF SetReady, threads, ghosts
<1>2. Held' = Held
  BY <1>1, HeldIs, HeldIsNext DEF Matched, Kept
<1>3. Current' = Current /\ Waiting' = Waiting /\ Informed' = Informed
  BY <1>1, SameCurrent DEF Waiting, Informed
<1> QED  BY <1>1, <1>2, <1>3 DEF Executor!Open

LEMMA EndStep ==
  ASSUME Matched, Matched', NEW t \in Threads, Report(t)
  PROVE  Executor!End(Name(t))
<1> DEFINE p == Name(t)
<1>1. /\ pc[t] \in {"failed", "waiting"} /\ pc' = [pc EXCEPT ![t] = "reported"]
      /\ answered' = [r \in Refs |-> answered[r] + (IF r \in RefsIn(task[t]) THEN 1 ELSE 0)]
      /\ UNCHANGED <<ready, pending, draining, running, queues, task>>
  BY DEF Report, tables
<1>2. pc'[t] = "reported" /\ \A u \in Threads \ {t} : pc'[u] = pc[u]
  BY <1>1 DEF Matched, TypeOK
<1>3. InFlight(t) /\ InFlight(t)' /\ Name(t)' = p /\ p \in Partitions
  BY <1>1, <1>2, OwnerType DEF InFlight, Name, Matched
<1>4. Current[p] = RunOf(t) /\ Current[p] \in Runs /\ Current[p] # None
  BY <1>3, BusyIsRunning
<1>5. Current'[p] = RunOf(t)'
  BY <1>3, CurrentIsNext DEF Matched
<1>6. ~Current[p].ended /\ Current[p].callers = RefsIn(task[t])
  <2>1. (pc[t] \in {"reported", "retired"}) = FALSE
    BY <1>1
  <2>2. RunOf(t) = [cmd |-> task[t].cmd, callers |-> RefsIn(task[t]), ended |-> FALSE]
    BY <2>1 DEF RunOf
  <2> QED  BY <1>4, <2>2
<1>7. RunOf(t)' = [RunOf(t) EXCEPT !.ended = TRUE]
  <2> DEFINE a == RunOf(t)
  <2>0. a \in Runs
    BY <1>4
  <2>1. a.cmd = task[t].cmd /\ a.callers = RefsIn(task[t])
    BY DEF RunOf
  <2> DEFINE yes == TRUE
  <2> HIDE DEF a, yes
  <2>2. [a EXCEPT !.ended = yes] = [cmd |-> a.cmd, callers |-> a.callers, ended |-> yes]
    BY <2>0 DEF Runs
  <2>3. RunOf(t)' = [cmd |-> task[t].cmd, callers |-> RefsIn(task[t]), ended |-> TRUE]
    <3>1. (pc'[t] \in {"reported", "retired"}) = TRUE
      BY <1>2
    <3> QED  BY <1>1, <3>1 DEF RunOf
  <2> QED  BY <2>1, <2>2, <2>3 DEF a, yes
<1>8. ASSUME NEW q \in Partitions, q # p PROVE Current'[q] = Current[q]
  <2>1. \A u \in Threads : InFlight(u) /\ Name(u) = q =>
          InFlight(u)' /\ Name(u)' = q /\ RunOf(u)' = RunOf(u)
    BY <1>1, <1>2, <1>8 DEF InFlight, Name, RunOf
  <2> QED  BY <1>1, <1>8, <2>1, CurrentKept DEF Matched
<1> HIDE DEF p
<1>9. Current' = [Current EXCEPT ![p].ended = TRUE]
  BY <1>3, <1>4, <1>5, <1>7, <1>8, MapsAreFunctions
<1>10. Informed' = Informed \cup Current[p].callers
  <2>1. answered \in [Refs -> Nat] /\ RefsIn(task[t]) \subseteq Refs
    BY <1>3, OwnerType, RefsAreRefs DEF Matched, TypeOK, InFlight
  <2>2. \A r \in Refs : answered'[r] > 0 <=> answered[r] > 0 \/ r \in RefsIn(task[t])
    BY <1>1, <2>1
  <2> QED  BY <1>6, <2>1, <2>2 DEF Informed
<1>11. Held' = Held /\ Waiting' = Waiting
  BY <1>1 DEF Held, Waiting
<1> QED  BY <1>1, <1>3, <1>4, <1>6, <1>9, <1>10, <1>11 DEF Executor!End, p

LEMMA AdvanceStep ==
  ASSUME Matched, Matched', NEW t \in Threads, ProcessNext(t)
  PROVE  Executor!Advance(Name(t))
<1> DEFINE p == Name(t)
           left == [pc EXCEPT ![t] = "done"]
           e == Head(queues[p])
<1>1. /\ pc[t] = "retired" /\ UNCHANGED <<ready, pending, draining, answered>>
      /\ p \in Partitions /\ InFlight(t)
  BY OwnerType DEF ProcessNext, Matched, InFlight, ghosts
<1>2. Current[p] = RunOf(t) /\ Current[p] # None
  BY <1>1, BusyIsRunning
<1>3. Current[p].ended
  <2>1. (pc[t] \in {"reported", "retired"}) = TRUE
    BY <1>1
  <2>2. RunOf(t) = [cmd |-> task[t].cmd, callers |-> RefsIn(task[t]), ended |-> TRUE]
    BY <2>1 DEF RunOf
  <2> QED  BY <1>2, <2>2
<1>4. Held' = Held /\ Informed' = Informed
  BY <1>1 DEF Held, Informed
<1>5. /\ left[t] = "done" /\ \A u \in Threads \ {t} : left[u] = pc[u]
      /\ left \in [Threads -> PcValues]
  BY DEF Matched, TypeOK, PcValues
<1>6. \A u \in Threads : InFlight(u) /\ Name(u) # p => u # t
  OBVIOUS
<1>7. CASE queues[p] = <<>>
  <2>1. /\ pc' = left /\ running' = [running EXCEPT ![p] = Idle] /\ UNCHANGED <<queues, task>>
    BY <1>7 DEF ProcessNext
  <2>2. /\ ~running'[p].busy
        /\ \A q \in Partitions : q # p => running'[q] = running[q]
    BY <1>1, <2>1 DEF Matched, TypeOK, Idle
  <2> HIDE DEF p, left
  <2>3. ASSUME NEW q \in Partitions, q # p PROVE Current'[q] = Current[q]
    <3>1. \A u \in Threads : InFlight(u) /\ Name(u) = q =>
            InFlight(u)' /\ Name(u)' = q /\ RunOf(u)' = RunOf(u)
      BY <1>5, <1>6, <2>1, <2>3 DEF InFlight, Name, RunOf
    <3> QED  BY <2>2, <2>3, <3>1, CurrentKept DEF Matched
  <2>4. Current'[p] = None
    BY <1>1, <2>2, CurrentIsNext DEF Matched
  <2>5. Current' = [Current EXCEPT ![p] = None]
    BY <1>1, <2>3, <2>4, MapsAreFunctions
  <2>6. Waiting' = Waiting
    BY <2>1 DEF Waiting
  <2>7. Waiting[p] = <<>>
    <3>1. Waiting[p] = Entries(queues[p]) /\ queues[p] \in Seq(Entry) /\ Len(queues[p]) = 0
      BY <1>1, <1>7 DEF Waiting, Matched, TypeOK
    <3>2. Entries(queues[p]) \in Seq(Jobs) /\ Len(Entries(queues[p])) = 0
      BY <3>1, EntriesType
    <3> QED  BY <3>1, <3>2
  <2> QED  BY <1>1, <1>2, <1>3, <1>4, <2>5, <2>6, <2>7 DEF Executor!Advance, p
<1>8. CASE queues[p] # <<>>
  <2>1. Start(p, e, left) /\ queues' = [queues EXCEPT ![p] = Tail(queues[p])]
    BY <1>8 DEF ProcessNext
  <2>2. queues[p] \in Seq(Entry) /\ e \in Entry /\ CmdName[e.cmd] = p
    BY <1>1, <1>8, HeadType DEF Matched, TypeOK, QueuesAtHome
  <2>3. \A x \in RefsIn(e) : ~InTask(x)
    <3>1. RefsIn(e) \subseteq Refs /\ RefsIn(e) \subseteq RefsOf(queues[p])
      BY <1>8, <2>2, TailRefs, RefsAreRefs
    <3> HIDE DEF p, e
    <3> QED  BY <1>1, <3>1 DEF Matched, Kept, Alone, InQueue
  <2> HIDE DEF p, left, e
  <2>4. PICK u \in Threads :
          /\ pc[u] = "unborn" /\ pc' = [left EXCEPT ![u] = "starting"]
          /\ task' = [task EXCEPT ![u] = e]
          /\ RefsIn(task'[u]) = RefsIn(e) /\ RefsIn(task[u]) = {}
          /\ \A v \in Threads \ {u} : task'[v] = task[v] /\ pc'[v] = left[v]
    <3>1. \A v \in Threads : left[v] = "unborn" <=> pc[v] = "unborn"
      BY <1>1, <1>5
    <3>2. TypeOK /\ Alone
      BY DEF Matched, Kept
    <3>3. p \in Partitions /\ left \in [Threads -> PcValues]
      BY <1>1, <1>5
    <3>4. e \in Entry /\ Start(p, e, left)
      BY <2>1, <2>2
    <3> QED  BY <2>3, <3>1, <3>2, <3>3, <3>4, StartTasks
  <2>5. pc'[u] = "starting" /\ task'[u] = e
    BY <1>5, <2>4 DEF Matched, TypeOK
  <2>6. \A q \in Partitions : q # p => running'[q] = running[q]
    BY <1>1, <2>1 DEF Start, Matched, TypeOK
  <2>7. InFlight(u)' /\ Name(u)' = p
    BY <2>2, <2>5 DEF InFlight, Name
  <2>8. RunOf(u)' = [cmd |-> e.cmd, callers |-> RefsIn(e), ended |-> FALSE]
    <3>1. (pc'[u] \in {"reported", "retired"}) = FALSE
      BY <2>5
    <3> QED  BY <2>5, <3>1 DEF RunOf
  <2>9. Current'[p] = [cmd |-> e.cmd, callers |-> RefsIn(e), ended |-> FALSE]
    BY <1>1, <2>7, <2>8, CurrentIsNext DEF Matched
  <2>10. ASSUME NEW q \in Partitions, q # p PROVE Current'[q] = Current[q]
    <3>1. \A v \in Threads : InFlight(v) => v # u
      BY <2>4 DEF InFlight
    <3>2. \A v \in Threads : InFlight(v) /\ Name(v) = q =>
            InFlight(v)' /\ Name(v)' = q /\ RunOf(v)' = RunOf(v)
      BY <1>5, <1>6, <2>4, <2>10, <3>1 DEF InFlight, Name, RunOf
    <3> QED  BY <2>6, <2>10, <3>2, CurrentKept DEF Matched
  <2>11. Current' = [Current EXCEPT ![p] =
                       [cmd |-> e.cmd, callers |-> RefsIn(e), ended |-> FALSE]]
    BY <1>1, <2>9, <2>10, MapsAreFunctions
  <2>12. /\ Waiting[p] = Entries(queues[p]) /\ Waiting[p] # <<>>
         /\ Head(Waiting[p]) = JobOf(e) /\ Entries(Tail(queues[p])) = Tail(Waiting[p])
    <3>1. Waiting[p] = Entries(queues[p])
      BY <1>1 DEF Waiting
    <3> QED  BY <1>8, <2>2, <3>1, EntriesTail DEF e
  <2>13. Waiting' = [Waiting EXCEPT ![p] = Tail(@)]
    <3>1. \A q \in Partitions : Waiting'[q] = IF q = p THEN Tail(Waiting[p]) ELSE Waiting[q]
      <4>1. queues \in [Partitions -> Seq(Entry)]
        BY DEF Matched, TypeOK
      <4>2. /\ queues'[p] = Tail(queues[p])
            /\ \A q \in Partitions : q # p => queues'[q] = queues[q]
        BY <1>1, <2>1, <4>1
      <4>3. \A q \in Partitions : Waiting'[q] = Entries(queues'[q])
                                  /\ Waiting[q] = Entries(queues[q])
        BY DEF Waiting
      <4> QED  BY <1>1, <2>12, <4>2, <4>3
    <3> QED  BY <1>1, <3>1, MapsAreFunctions
  <2>14. Executor!Run(Head(Waiting[p]))
           = [cmd |-> e.cmd, callers |-> RefsIn(e), ended |-> FALSE]
    <3>1. JobOf(e).cmd = e.cmd /\ JobOf(e).callers = RefsIn(e)
      BY DEF JobOf
    <3> QED  BY <2>12, <3>1 DEF Executor!Run
  <2> QED  BY <1>1, <1>2, <1>3, <1>4, <2>11, <2>12, <2>13, <2>14 DEF Executor!Advance, p
<1> QED  BY <1>7, <1>8

\* The steps the executor does not see.
LEMMA StutterStep ==
  ASSUME Matched, Matched', UNCHANGED <<ready, pending, draining, queues, task, answered>>,
         \A p \in Partitions : running'[p].busy = running[p].busy,
         \A t \in Threads : /\ InFlight(t) => InFlight(t)'
                            /\ pc'[t] \in {"reported", "retired"}
                                 <=> pc[t] \in {"reported", "retired"}
  PROVE  UNCHANGED Executor!vars
<1>1. \A t \in Threads : Name(t)' = Name(t) /\ RunOf(t)' = RunOf(t)
  <2>1. \A t \in Threads : (pc'[t] \in {"reported", "retired"})
                             = (pc[t] \in {"reported", "retired"})
    OBVIOUS
  <2> QED  BY <2>1 DEF Name, RunOf
<1>2. \A q \in Partitions : Current'[q] = Current[q]
  BY <1>1, CurrentKept DEF Matched
<1>3. Current' = Current
  BY <1>2, MapsAreFunctions
<1>4. Held' = Held /\ Waiting' = Waiting /\ Informed' = Informed
  BY DEF Held, Waiting, Informed
<1> QED  BY <1>3, <1>4 DEF Executor!vars

LEMMA MatchedStep ==
  ASSUME Matched, Matched', DistinctRefs', [Next]_vars
  PROVE  [Executor!Next]_(Executor!vars)
<1>1. ASSUME NEW c \in Cmds, NEW r \in Refs, ~Placed(r), Submit(c, r),
             UNCHANGED <<ready, draining, answered>>
      PROVE  Executor!Next
  <2>1. CASE ready
    BY <1>1, <2>1, AcceptStep DEF Executor!Next
  <2>2. CASE ~ready
    BY <1>1, <2>2, HoldStep DEF Executor!Next
  <2> QED  BY <2>1, <2>2
<1>2. ASSUME NEW c \in Cmds, NEW r \in Refs, SubmitDirect(c, r) PROVE Executor!Next
  BY <1>1, <1>2, DrawnFresh DEF SubmitDirect, Matched
<1>3. ASSUME NEW c \in Cmds, NEW r \in Refs, HandleTaskRequest(c, r)
      PROVE  UNCHANGED Executor!vars
  BY <1>3, StutterStep DEF HandleTaskRequest, threads, InFlight
<1>4. CASE SubmitRequest
  <2>1. PICK c \in Cmds, r \in Refs : request = <<[cmd |-> c, refs |-> <<r>>]>>
    BY <1>4 DEF SubmitRequest, Matched, Kept, Feeds
  <2>2. Submit(c, r) /\ UNCHANGED <<ready, draining, answered>>
    <3>1. Head(request).cmd = c /\ Head(Head(request).refs) = r
      BY <2>1
    <3> QED  BY <1>4, <3>1 DEF SubmitRequest
  <2>3. r \in RefsOf(request)
    <3> DEFINE e == [cmd |-> c, refs |-> <<r>>]
    <3>1. e \in Entry /\ e.refs = <<r>>
      BY DEF Entry
    <3>2. r \in RefsIn(e)
      BY <3>1, OneRef
    <3>3. 1 \in DOMAIN request /\ request[1] = e
      BY <2>1
    <3> HIDE DEF e
    <3> QED  BY <3>2, <3>3 DEF RefsOf
  <2> QED  BY <1>1, <2>2, <2>3 DEF Matched, Kept, Feeds
<1>5. CASE SetReady
  BY <1>5, OpenStep DEF Executor!Next
<1>6. CASE DrainOne
  BY <1>6, ReleaseStep DEF Executor!Next
<1>7. ASSUME NEW t \in Threads, Report(t) \/ ProcessNext(t) PROVE Executor!Next
  <2>1. Name(t) \in Partitions
    BY <1>7, OwnerType DEF Report, ProcessNext, Matched
  <2> QED  BY <1>7, <2>1, EndStep, AdvanceStep DEF Executor!Next
<1>8. ASSUME NEW t \in Threads, Register(t) \/ Spawn(t) \/ Activate(t) \/ Retire(t)
      PROVE  UNCHANGED Executor!vars
  <2>1. UNCHANGED <<ready, pending, draining, queues, task, answered>>
    BY <1>8 DEF Register, Spawn, Activate, Retire, tables, ghosts
  <2>2. \A p \in Partitions : running'[p].busy = running[p].busy
    <3>1. CASE running' = running
      BY <3>1
    <3>2. CASE running' = [running EXCEPT ![Name(t)].thread = t]
      BY <3>2 DEF Matched, TypeOK
    <3> QED  BY <1>8, <3>1, <3>2 DEF Register, Spawn, Activate, Retire, tables
  <2>3. \A u \in Threads : /\ InFlight(u) => InFlight(u)'
                           /\ pc'[u] \in {"reported", "retired"}
                                <=> pc[u] \in {"reported", "retired"}
    BY <1>8 DEF Register, Spawn, Activate, Retire, InFlight, Matched, TypeOK
  <2> QED  BY <2>1, <2>2, <2>3, StutterStep
<1>9. ASSUME NEW t \in Threads, StartFails(t) \/ DiesBeforeTry(t) PROVE FALSE
  BY <1>9 DEF StartFails, DiesBeforeTry, Die, Matched, TypeOK, Owners
<1>10. CASE \/ EnforceDeadlines \/ BeginShutdown \/ EndShutdown \/ UNCHANGED vars
            \/ \E t \in Threads : Exit(t) \/ Outlive(t)
  <2>1. UNCHANGED <<ready, pending, draining, queues, task, answered, running, pc>>
    BY <1>10 DEF EnforceDeadlines, BeginShutdown, EndShutdown, Exit, Outlive, vars, tables,
                 threads, ghosts
  <2> QED  BY <2>1, StutterStep DEF InFlight
<1> QED
  BY <1>2, <1>3, <1>4, <1>5, <1>6, <1>7, <1>8, <1>9, <1>10
  DEF Next, ThreadStep, Terminated

LEMMA InitMatched ==
  ASSUME Init
  PROVE  Executor!Init /\ Owners
<1>1. Entries(<<>>) = <<>>
  <2>1. <<>> \in Seq(Entry) /\ Len(<<>>) = 0
    OBVIOUS
  <2>2. Entries(<<>>) \in Seq(Jobs) /\ Len(Entries(<<>>)) = 0
    BY <2>1, EntriesType
  <2> QED  BY <2>2
<1>2. Held = <<>>
  <2>1. draining \o pending = <<>>
    BY DEF Init
  <2> QED  BY <1>1, <2>1 DEF Held
<1>3. Current = [n \in Partitions |-> None]
  BY DEF Init, Current, Idle
<1>4. Waiting = [n \in Partitions |-> <<>>]
  BY <1>1 DEF Init, Waiting
<1>5. Informed = {}
  BY DEF Init, Informed
<1>6. ready \in BOOLEAN
  BY BoundsAssumption DEF Init
<1>7. Owners
  BY NoneAssumption, BoundsAssumption DEF Init, Owners, Idle, Threads
<1> QED  BY <1>2, <1>3, <1>4, <1>5, <1>6, <1>7 DEF Executor!Init

\* The threaded queue is a serial executor per partition: the jobs of one name run one
\* at a time and in the order they were accepted, and all their callers are told, in
\* every behaviour in which no two submissions draw the same ref and no thread dies
\* before its try block.
THEOREM QueueIsSerialExecutor ==
  Spec /\ [](DistinctRefs /\ faults = 0) => SerialExecution
<1>1. Init => Executor!Init /\ Owners
  BY InitMatched
<1>2. TypeOK /\ QueuesAtHome /\ Ownership /\ Registered /\ (faults = 0 => Owners) /\ [Next]_vars
        => (faults = 0 => Owners)'
  <2> SUFFICES ASSUME TypeOK, QueuesAtHome, Ownership, Registered, faults = 0 => Owners,
                      [Next]_vars, faults' = 0
               PROVE  Owners'
    OBVIOUS
  <2>1. Owners
    BY FaultsGrow
  <2> QED  BY <2>1, OwnersStep
<1>3. Matched /\ Matched' /\ DistinctRefs' /\ [Next]_vars => [Executor!Next]_(Executor!vars)
  BY MatchedStep
<1>4. Spec => [](faults = 0 => Owners)
  BY <1>1, <1>2, TypeCorrect, AtHome, OwnershipKept, RegisteredKept, PTL DEF Spec
<1>5. Spec /\ [](DistinctRefs /\ faults = 0) => []Matched
  BY <1>4, TypeCorrect, AtHome, OwnershipKept, RegisteredKept, RefsApart, PTL DEF Matched
<1> QED  BY <1>1, <1>3, <1>5, PTL DEF Spec, SerialExecution, Executor!Spec
=============================================================================
