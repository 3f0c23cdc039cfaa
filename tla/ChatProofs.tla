----------------------------- MODULE ChatProofs -----------------------------
(***************************************************************************)
(* Proofs about Chat, for every set of messages, every limit and every     *)
(* number of restarts, midnights and recoveries.                           *)
(***************************************************************************)
EXTENDS Chat, FiniteSetTheorems, SequenceTheorems, TLAPS

-----------------------------------------------------------------------------
(* The inductive invariant *)

\* A trigger's turns are numbered without gaps, so a new number is new.
OfTrigger(g) == {u \in turns : u.trig = g}
Numbered ==
    /\ IsFiniteSet(turns)
    /\ \A u \in turns : u.nth <= Cardinality(OfTrigger(u.trig))

\* The turns in hand are reserved ones that have no answer, and a turn whose
\* use is to be started is reserved.
Has(a) == \E j \in jobs : \E i \in DOMAIN j.acts : j.acts[i] = a
InTurn ==
    /\ \A u \in Turn : InHand(u) => u \in turns /\ u \notin answered
    /\ \A a \in Act : Has(a) /\ a.kind = "chat" => a.turn \in turns

\* How far a talent is: waiting in the log for room, about to be spawned,
\* spawned, ended.
Pending(t) == Has(TalentRun(t))
Seen(t)    == TalentRun(t) \in runs \cup armed \cup fired \/ Has(ArmJob(t))
Engaged(t) == t \in active \cup spawned \/ Pending(t) \/ Seen(t) \/ Ended(t)

\* A talent goes through these in order, after its turn was answered, and one
\* thread spawns it, once.
Once ==
    \A j, l \in jobs : \A i \in DOMAIN j.acts : \A k \in DOMAIN l.acts :
        j.acts[i] = l.acts[k] /\ j.acts[i].kind = "talent" => j = l /\ i = k
Talents ==
    /\ \A t \in Turn : Engaged(t) \/ Waits(t) => t \in answered
    /\ \A t \in Turn : Waits(t) => ~Engaged(t)
    /\ \A t \in Turn : Pending(t) => t \in active /\ ~Seen(t) /\ ~Ended(t)
    /\ \A t \in Turn : Ended(t) => t \notin active \cup spawned
    /\ \A i, k \in DOMAIN deferred : deferred[i] = deferred[k] => i = k

TurnPart   == Numbered /\ InTurn /\ TurnIsKept /\ WatchedUnlessUnwritten
TalentPart == Once /\ Talents /\ EndsOnce /\ IsFiniteSet(spawned) /\ TalentLimit
IInv == TypeOK /\ TurnPart /\ TalentPart


-----------------------------------------------------------------------------
(* Names, types and numbers *)

LEMMA NameFacts ==
    /\ \A m \in Message : OwnerTrigger(m) \in Trigger
    /\ \A t \in Turn : EndTrigger(t) \in Trigger
    /\ \A t \in Turn : TalentRun(t) \in Run /\ TalentRun(t) \in Act /\ ArmJob(t) \in Act
    /\ \A t \in Turn : \A n \in {0, 1} : ChatRun(t, n) \in Run /\ ChatRun(t, n) \in Act
    /\ \A t, u : TalentRun(t) = TalentRun(u) => t = u
<1>1. \A m \in Message : OwnerTrigger(m) \in Trigger
  BY ChatAssumption DEF OwnerTrigger, Trigger
<1>2. \A t \in Turn : EndTrigger(t) \in Trigger
  BY ChatAssumption DEF EndTrigger, Turn, Trigger
<1>3. \A t \in Turn : TalentRun(t) \in Run /\ TalentRun(t) \in Act /\ ArmJob(t) \in Act
  BY DEF TalentRun, ArmJob, Run, Act
<1>4. \A t \in Turn : \A n \in {0, 1} : ChatRun(t, n) \in Run /\ ChatRun(t, n) \in Act
  BY DEF ChatRun, Run, Act
<1>5. \A t, u : TalentRun(t) = TalentRun(u) => t = u
  BY DEF TalentRun
<1> QED BY <1>1, <1>2, <1>3, <1>4, <1>5

LEMMA CurrentFacts ==
    ASSUME TypeOK
    PROVE  /\ current # None => /\ current \in [turn : Turn, try : {0, 1}]
                                /\ current.turn \in Turn /\ current.try \in {0, 1}
           /\ \A u \in Turn : \A n \in {0, 1} : [turn |-> u, try |-> n] # None
<1>1. \A u \in Turn : \A n \in {0, 1} : [turn |-> u, try |-> n] # None
  <2>1. \A c \in [turn : Turn, try : {0, 1}] : c # None
    BY ChatAssumption DEF Turn, Trigger
  <2> QED BY <2>1
<1> QED BY <1>1 DEF TypeOK

\* The number of a new turn is free.
LEMMA NewTurnFacts ==
    ASSUME TypeOK, Numbered, NEW g \in Trigger
    PROVE  /\ NewTurn(g).nth \in Nat \ {0} /\ NewTurn(g).trig = g
           /\ NewTurn(g) \notin turns
           /\ NewTurn(g).nth <= MaxTurns => NewTurn(g) \in Turn
<1> DEFINE S == OfTrigger(g)
<1>1. IsFiniteSet(S) /\ Cardinality(S) \in Nat
  <2>1. IsFiniteSet(turns) /\ S \subseteq turns
    BY DEF Numbered, OfTrigger
  <2> QED BY <2>1, FS_Subset, FS_CardinalityType
<1>2. NewTurn(g) = [trig |-> g, nth |-> 1 + Cardinality(S)]
  BY DEF NewTurn, OfTrigger
<1>3. NewTurn(g).nth = 1 + Cardinality(S) /\ NewTurn(g).trig = g
  BY <1>2
<1>4. NewTurn(g) \notin turns
  <2>1. SUFFICES ASSUME NewTurn(g) \in turns PROVE FALSE
    OBVIOUS
  <2>2. NewTurn(g).nth <= Cardinality(S)
    BY <2>1, <1>3 DEF Numbered
  <2> HIDE DEF S
  <2> QED BY <2>2, <1>3, <1>1
<1>5. NewTurn(g).nth <= MaxTurns => NewTurn(g) \in Turn
  <2> HIDE DEF S
  <2>1. 1 + Cardinality(S) \in Nat \ {0}
    BY <1>1
  <2> QED BY <1>2, <1>3, <2>1, ChatAssumption DEF Turn
<1> HIDE DEF S
<1> QED BY <1>1, <1>3, <1>4, <1>5

LEMMA NumberedNext ==
    ASSUME TypeOK, Numbered, NEW g \in Trigger, turns' = turns \cup {NewTurn(g)}
    PROVE  Numbered'
<1> DEFINE u == NewTurn(g)
           S(h) == {v \in turns : v.trig = h}
           T(h) == {v \in turns \cup {u} : v.trig = h}
<1>1. u.trig = g /\ u \notin turns /\ u.nth = 1 + Cardinality(S(g))
  BY NewTurnFacts DEF NewTurn
<1>2. \A h : IsFiniteSet(S(h)) /\ Cardinality(S(h)) \in Nat
  <2>1. IsFiniteSet(turns)
    BY DEF Numbered
  <2> QED BY <2>1, FS_Subset, FS_CardinalityType
<1>3. T(g) = S(g) \cup {u} /\ \A h : h # g => T(h) = S(h)
  BY <1>1
<1>4. Cardinality(T(g)) = Cardinality(S(g)) + 1
  <2>1. u \notin S(g)
    BY <1>1
  <2>2. IsFiniteSet(S(g)) /\ T(g) = S(g) \cup {u}
    BY <1>2, <1>3
  <2> HIDE DEF S, T, u
  <2> QED BY <2>1, <2>2, FS_AddElement
<1>5. IsFiniteSet(turns \cup {u})
  BY FS_AddElement DEF Numbered
<1>6. ASSUME NEW v \in turns \cup {u}
      PROVE  v.nth <= Cardinality(T(v.trig))
  <2>1. CASE v = u
    <3>1. v.trig = g /\ v.nth = 1 + Cardinality(S(g)) /\ Cardinality(S(g)) \in Nat
      BY <2>1, <1>1, <1>2
    <3> HIDE DEF S, T, u
    <3> QED BY <3>1, <1>4
  <2>2. CASE v \in turns /\ v.trig = g
    <3>1. v \in Turn
      BY <2>2 DEF TypeOK
    <3>2. v.nth \in Nat
      BY <3>1, ChatAssumption DEF Turn
    <3>3. v.nth <= Cardinality(S(g))
      BY <2>2 DEF Numbered, OfTrigger
    <3> HIDE DEF S, T, u
    <3> QED BY <3>2, <3>3, <1>2, <1>4, <2>2
  <2>3. CASE v \in turns /\ v.trig # g
    <3>1. v.nth <= Cardinality(S(v.trig))
      BY <2>3 DEF Numbered, OfTrigger
    <3>2. T(v.trig) = S(v.trig)
      BY <1>3, <2>3
    <3> QED BY <3>1, <3>2
  <2> QED BY <1>6, <2>1, <2>2, <2>3
<1> QED BY <1>5, <1>6 DEF Numbered, OfTrigger


-----------------------------------------------------------------------------
(* What threads still have to do *)

\* Actions of a locked section: it spawns the talents of N, each once, arms
\* watchdogs of A and starts uses for turns of T.
Orders(acts, N, A, T) ==
    /\ acts \in Seq(Act)
    /\ \A i \in DOMAIN acts :
          \/ acts[i].kind = "chat" /\ acts[i].turn \in T
          \/ \E t \in N : acts[i] = TalentRun(t)
          \/ \E t \in A : acts[i] = ArmJob(t)
    /\ \A i, k \in DOMAIN acts :
          acts[i] = acts[k] /\ acts[i].kind = "talent" => i = k

LEMMA NoOrders == \A N, A, T : Orders(<<>>, N, A, T)
<1>1. <<>> \in Seq(Act) /\ DOMAIN <<>> = {}
  OBVIOUS
<1> QED BY <1>1 DEF Orders

LEMMA Joined ==
    ASSUME NEW S, NEW s \in Seq(S), NEW t \in Seq(S)
    PROVE  /\ s \o t \in Seq(S)
           /\ \A i \in DOMAIN (s \o t) :
                 \/ i \in DOMAIN s /\ (s \o t)[i] = s[i]
                 \/ i \in Nat /\ i > Len(s) /\ i - Len(s) \in DOMAIN t
                    /\ (s \o t)[i] = t[i - Len(s)]
<1>1. s \o t \in Seq(S) /\ Len(s \o t) = Len(s) + Len(t)
  BY ConcatProperties
<1>2. ASSUME NEW i \in DOMAIN (s \o t)
      PROVE  \/ i \in DOMAIN s /\ (s \o t)[i] = s[i]
             \/ i \in Nat /\ i > Len(s) /\ i - Len(s) \in DOMAIN t
                /\ (s \o t)[i] = t[i - Len(s)]
  <2>1. i \in 1..(Len(s) + Len(t)) /\ Len(s) \in Nat /\ Len(t) \in Nat
    BY <1>1
  <2>2. DOMAIN s = 1..Len(s) /\ DOMAIN t = 1..Len(t)
    OBVIOUS
  <2>3. CASE i <= Len(s)
    BY <2>1, <2>2, <2>3, ConcatProperties
  <2>4. CASE i > Len(s)
    BY <2>1, <2>2, <2>4, ConcatProperties
  <2> QED BY <2>1, <2>3, <2>4
<1> QED BY <1>1, <1>2

LEMMA TailFacts ==
    ASSUME NEW S, NEW s \in Seq(S) \ {<<>>}
    PROVE  /\ Head(s) \in S /\ Head(s) = s[1] /\ 1 \in DOMAIN s
           /\ Tail(s) \in Seq(S)
           /\ \A i \in DOMAIN Tail(s) : i + 1 \in DOMAIN s /\ Tail(s)[i] = s[i + 1] /\ i >= 1
<1>1. s \in Seq(S) /\ s # <<>> /\ Len(s) \in Nat \ {0}
  BY EmptySeq
<1>2. Tail(s) \in Seq(S) /\ Len(Tail(s)) = Len(s) - 1 /\ Head(s) = s[1]
  BY <1>1
<1>3. DOMAIN s = 1..Len(s) /\ DOMAIN Tail(s) = 1..(Len(s) - 1)
  BY <1>1, <1>2
<1>4. \A i \in 1..(Len(s) - 1) : Tail(s)[i] = s[i + 1]
  BY <1>1
<1>5. s[1] \in S
  BY <1>1, <1>3
<1> QED BY <1>1, <1>2, <1>3, <1>4, <1>5

LEMMA OrdersJoined ==
    ASSUME NEW N, NEW A, NEW T, NEW s, NEW t,
           \/ Orders(s, N, A, T) /\ Orders(t, {}, A, T)
           \/ Orders(s, {}, A, T) /\ Orders(t, N, A, T)
    PROVE  Orders(s \o t, N, A, T)
<1> DEFINE u == s \o t
<1>1. s \in Seq(Act) /\ t \in Seq(Act)
  BY DEF Orders
<1>2. /\ u \in Seq(Act)
      /\ \A i \in DOMAIN u :
                 \/ i \in DOMAIN s /\ u[i] = s[i]
                 \/ i \in Nat /\ i > Len(s) /\ i - Len(s) \in DOMAIN t
                    /\ u[i] = t[i - Len(s)]
  BY <1>1, Joined
<1>3. \A i \in DOMAIN s : \A k \in DOMAIN t : ~(s[i] = t[k] /\ s[i].kind = "talent")
  BY DEF Orders, ArmJob
<1>4. \A i \in DOMAIN u :
          \/ u[i].kind = "chat" /\ u[i].turn \in T
          \/ \E x \in N : u[i] = TalentRun(x)
          \/ \E x \in A : u[i] = ArmJob(x)
  <2> DEFINE Fine(a) == \/ a.kind = "chat" /\ a.turn \in T
                        \/ \E x \in N : a = TalentRun(x)
                        \/ \E x \in A : a = ArmJob(x)
  <2>1. (\A i \in DOMAIN s : Fine(s[i])) /\ \A i \in DOMAIN t : Fine(t[i])
    BY DEF Orders
  <2> HIDE DEF u, Fine
  <2>2. \A i \in DOMAIN u : Fine(u[i])
    BY <1>2, <2>1
  <2> QED BY <2>2 DEF Fine
<1>5. ASSUME NEW i \in DOMAIN u, NEW k \in DOMAIN u, u[i] = u[k], u[i].kind = "talent"
      PROVE  i = k
  <2> HIDE DEF u
  <2>1. CASE i \in DOMAIN s /\ u[i] = s[i] /\ k \in DOMAIN s /\ u[k] = s[k]
    BY <1>5, <2>1 DEF Orders
  <2>2. CASE i \in Nat /\ i - Len(s) \in DOMAIN t /\ u[i] = t[i - Len(s)]
             /\ k \in Nat /\ k - Len(s) \in DOMAIN t /\ u[k] = t[k - Len(s)]
    <3>1. i - Len(s) = k - Len(s)
      BY <1>5, <2>2 DEF Orders
    <3> QED BY <3>1, <2>2, <1>1
  <2> QED BY <1>2, <1>3, <1>5, <2>1, <2>2
<1> HIDE DEF u
<1>6. Orders(u, N, A, T)
  BY <1>2, <1>4, <1>5 DEF Orders
<1> QED BY <1>6 DEF u


\* The state of the threads after a step: what they had to do, without one
\* thread's first action, with the orders of a locked section.
JobsNext(N, A, T) ==
    /\ (jobs \subseteq Job)'
    /\ Once'
    /\ \A a \in Act : Has(a)' =>
          \/ Has(a)
          \/ a.kind = "chat" /\ a.turn \in T
          \/ \E t \in N : a = TalentRun(t)
          \/ \E t \in A : a = ArmJob(t)

LEMMA JobsUnchanged ==
    ASSUME TypeOK, Once, UNCHANGED jobs, NEW N, NEW A, NEW T
    PROVE  JobsNext(N, A, T)
BY DEF TypeOK, Once, JobsNext, Has

LEMMA JobsGrow ==
    ASSUME TypeOK, Once, NEW N, NEW A, NEW T, NEW th \in {"bus", "other"}, NEW acts,
           \A t \in N : ~Pending(t), Orders(acts, N, A, T),
           jobs' = jobs \cup Goes(th, acts)
    PROVE  JobsNext(N, A, T)
<1>1. CASE acts = <<>>
  <2>1. jobs' = jobs
    BY <1>1 DEF Goes
  <2> QED BY <2>1, JobsUnchanged
<1>2. CASE acts # <<>>
  <2> DEFINE n == [thread |-> th, acts |-> acts]
  <2>1. jobs' = jobs \cup {n} /\ n.acts = acts /\ n \in Job
    BY <1>2 DEF Goes, Orders, Job
  <2> HIDE DEF n
  <2>2. (jobs \subseteq Job)'
    BY <2>1 DEF TypeOK
  <2>3. ASSUME NEW i \in DOMAIN acts
        PROVE  \/ acts[i].kind = "chat" /\ acts[i].turn \in T
               \/ \E t \in N : acts[i] = TalentRun(t)
               \/ \E t \in A : acts[i] = ArmJob(t)
    BY DEF Orders
  <2>4. ASSUME NEW a \in Act, Has(a)'
        PROVE  \/ Has(a)
               \/ a.kind = "chat" /\ a.turn \in T
               \/ \E t \in N : a = TalentRun(t)
               \/ \E t \in A : a = ArmJob(t)
    <3>1. PICK j \in jobs' : \E i \in DOMAIN j.acts : j.acts[i] = a
      BY <2>4 DEF Has
    <3> QED BY <3>1, <2>1, <2>3 DEF Has
  <2>5. ASSUME NEW j \in jobs', NEW l \in jobs', NEW i \in DOMAIN j.acts,
               NEW k \in DOMAIN l.acts, j.acts[i] = l.acts[k],
               j.acts[i].kind = "talent"
        PROVE  j = l /\ i = k
    <3>1. CASE j \in jobs /\ l \in jobs
      BY <2>5, <3>1 DEF Once
    <3>2. CASE j = n /\ l = n
      BY <2>1, <2>5, <3>2 DEF Orders
    <3>3. \A m \in jobs : \A x \in DOMAIN m.acts : \A y \in DOMAIN acts :
            ~(m.acts[x] = acts[y] /\ acts[y].kind = "talent")
      <4>1. SUFFICES ASSUME NEW m \in jobs, NEW x \in DOMAIN m.acts, NEW y \in DOMAIN acts,
                            m.acts[x] = acts[y], acts[y].kind = "talent"
                     PROVE  FALSE
        OBVIOUS
      <4>2. PICK t \in N : acts[y] = TalentRun(t)
        BY <2>3, <4>1 DEF ArmJob
      <4> QED BY <4>1, <4>2 DEF Pending, Has
    <3> QED BY <3>1, <3>2, <3>3, <2>1, <2>5
  <2>6. Once'
    BY <2>5 DEF Once
  <2> QED BY <2>2, <2>4, <2>6 DEF JobsNext
<1> QED BY <1>1, <1>2

\* A thread takes its first action, and what this one makes it do comes first.
LEMMA JobsRest ==
    ASSUME TypeOK, Once, NEW N, NEW A, NEW T, NEW j \in jobs, NEW acts,
           \A t \in N : ~Pending(t), Orders(acts, N, A, T),
           jobs' = Rest(j, acts)
    PROVE  /\ JobsNext(N, A, T)
           /\ \A t \in Turn \ N : Head(j.acts) = TalentRun(t) => ~Pending(t)'
<1> DEFINE c == acts \o Tail(j.acts)
           staying == jobs \ {j}
<1>1. j \in Job /\ j.acts \in Seq(Act) \ {<<>>} /\ j.thread \in {"bus", "other"}
  BY DEF TypeOK, Job
<1>2. /\ Head(j.acts) = j.acts[1] /\ 1 \in DOMAIN j.acts
      /\ Tail(j.acts) \in Seq(Act)
      /\ \A i \in DOMAIN Tail(j.acts) :
            i + 1 \in DOMAIN j.acts /\ Tail(j.acts)[i] = j.acts[i + 1] /\ i >= 1
  BY <1>1, TailFacts
<1>3. /\ c \in Seq(Act)
      /\ \A i \in DOMAIN c :
            \/ i \in DOMAIN acts /\ c[i] = acts[i]
            \/ i \in Nat /\ i > Len(acts) /\ i - Len(acts) \in DOMAIN Tail(j.acts)
               /\ c[i] = Tail(j.acts)[i - Len(acts)]
  BY <1>2, Joined DEF Orders
<1>4. jobs' = staying \cup Goes(j.thread, c)
  BY DEF Rest
<1> HIDE DEF c
<1>5. Len(acts) \in Nat
  BY DEF Orders
<1>6. \A i \in DOMAIN c :
            \/ i \in DOMAIN acts /\ c[i] = acts[i]
            \/ i \in Nat /\ i - Len(acts) + 1 \in DOMAIN j.acts /\ i - Len(acts) >= 1
               /\ c[i] = j.acts[i - Len(acts) + 1]
  BY <1>2, <1>3
<1>7. ASSUME NEW i \in DOMAIN acts
      PROVE  \/ acts[i].kind = "chat" /\ acts[i].turn \in T
             \/ \E t \in N : acts[i] = TalentRun(t)
             \/ \E t \in A : acts[i] = ArmJob(t)
  BY DEF Orders
<1>8. \A m \in jobs : \A x \in DOMAIN m.acts : \A y \in DOMAIN acts :
            ~(m.acts[x] = acts[y] /\ acts[y].kind = "talent")
  <2>1. SUFFICES ASSUME NEW m \in jobs, NEW x \in DOMAIN m.acts, NEW y \in DOMAIN acts,
                        m.acts[x] = acts[y], acts[y].kind = "talent"
                 PROVE  FALSE
    OBVIOUS
  <2>2. PICK t \in N : acts[y] = TalentRun(t)
    BY <1>7, <2>1 DEF ArmJob
  <2> QED BY <2>1, <2>2 DEF Pending, Has
<1> DEFINE n == [thread |-> j.thread, acts |-> c]
<1>9. n.acts = c /\ (c # <<>> => n \in Job)
  BY <1>1, <1>3 DEF Job
<1>10. jobs' \subseteq staying \cup {n} /\ (c = <<>> => jobs' \subseteq staying)
  BY <1>4 DEF Goes
<1> HIDE DEF n, staying
<1>11. (jobs \subseteq Job)'
  BY <1>9, <1>10 DEF TypeOK, staying
<1>12. ASSUME NEW a \in Act, NEW l \in jobs', NEW i \in DOMAIN l.acts, l.acts[i] = a
       PROVE  \/ \E y \in DOMAIN acts : acts[y] = a
              \/ \E m \in jobs : \E x \in DOMAIN m.acts :
                    m.acts[x] = a /\ (m = j => x # 1)
  <2>1. CASE l \in staying
    BY <1>12, <2>1 DEF staying
  <2>2. CASE l = n
    <3>1. i \in DOMAIN c /\ c[i] = a
      BY <1>9, <1>12, <2>2
    <3>2. CASE i \in DOMAIN acts /\ c[i] = acts[i]
      BY <3>1, <3>2
    <3>3. CASE i \in Nat /\ i - Len(acts) + 1 \in DOMAIN j.acts /\ i - Len(acts) >= 1
               /\ c[i] = j.acts[i - Len(acts) + 1]
      <4>1. i - Len(acts) + 1 # 1
        BY <3>3, <1>5
      <4> QED BY <4>1, <3>1, <3>3
    <3> QED BY <3>1, <3>2, <3>3, <1>6
  <2> QED BY <1>10, <2>1, <2>2
<1>13. ASSUME NEW a \in Act, Has(a)'
       PROVE  \/ Has(a)
              \/ a.kind = "chat" /\ a.turn \in T
              \/ \E t \in N : a = TalentRun(t)
              \/ \E t \in A : a = ArmJob(t)
  <2>1. PICK l \in jobs' : \E i \in DOMAIN l.acts : l.acts[i] = a
    BY <1>13 DEF Has
  <2> QED BY <2>1, <1>7, <1>12 DEF Has
<1>14. ASSUME NEW l \in jobs', NEW m \in jobs', NEW i \in DOMAIN l.acts,
              NEW k \in DOMAIN m.acts, l.acts[i] = m.acts[k],
              l.acts[i].kind = "talent"
       PROVE  l = m /\ i = k
  <2>1. CASE l \in staying /\ m \in staying
    BY <1>14, <2>1 DEF Once, staying
  <2>2. ASSUME NEW y \in staying, NEW p \in DOMAIN y.acts, NEW q \in DOMAIN c,
               y.acts[p] = c[q], c[q].kind = "talent"
        PROVE  FALSE
    <3>1. y \in jobs /\ y # j
      BY DEF staying
    <3>2. CASE q \in DOMAIN acts /\ c[q] = acts[q]
      BY <3>1, <3>2, <2>2, <1>8
    <3>3. CASE q - Len(acts) + 1 \in DOMAIN j.acts /\ c[q] = j.acts[q - Len(acts) + 1]
      BY <3>1, <3>3, <2>2 DEF Once
    <3> QED BY <3>2, <3>3, <1>6
  <2>3. CASE l = n /\ m = n
    <3>1. i \in DOMAIN c /\ k \in DOMAIN c /\ c[i] = c[k] /\ c[i].kind = "talent"
      BY <1>9, <1>14, <2>3
    <3>2. CASE i \in DOMAIN acts /\ c[i] = acts[i] /\ k \in DOMAIN acts /\ c[k] = acts[k]
      BY <3>1, <3>2, <2>3 DEF Orders
    <3>3. CASE /\ i \in Nat /\ i - Len(acts) + 1 \in DOMAIN j.acts
               /\ c[i] = j.acts[i - Len(acts) + 1]
               /\ k \in Nat /\ k - Len(acts) + 1 \in DOMAIN j.acts
               /\ c[k] = j.acts[k - Len(acts) + 1]
      <4>0. \A p, q \in DOMAIN j.acts :
                j.acts[p] = j.acts[q] /\ j.acts[p].kind = "talent" => p = q
        BY DEF Once
      <4>1. i - Len(acts) + 1 = k - Len(acts) + 1
        BY <3>1, <3>3, <4>0
      <4> QED BY <4>1, <3>3, <1>5, <2>3
    <3> QED BY <3>1, <3>2, <3>3, <1>6, <1>8
  <2> QED BY <1>9, <1>10, <1>14, <2>1, <2>2, <2>3
<1>15. Once'
  BY <1>14 DEF Once
<1>16. ASSUME NEW t \in Turn \ N, Head(j.acts) = TalentRun(t), Pending(t)'
       PROVE  FALSE
  <2>1. TalentRun(t) \in Act /\ TalentRun(t).kind = "talent"
    BY NameFacts DEF TalentRun
  <2>2. PICK l \in jobs' : \E i \in DOMAIN l.acts : l.acts[i] = TalentRun(t)
    BY <1>16 DEF Pending, Has
  <2>3. CASE \E y \in DOMAIN acts : acts[y] = TalentRun(t)
    BY <2>3, <1>2, <1>16, <1>8, <2>1
  <2>4. CASE \E m \in jobs : \E x \in DOMAIN m.acts :
                    m.acts[x] = TalentRun(t) /\ (m = j => x # 1)
    BY <2>4, <1>2, <1>16, <2>1 DEF Once
  <2> QED BY <2>1, <2>2, <2>3, <2>4, <1>12
<1> QED BY <1>11, <1>13, <1>15, <1>16 DEF JobsNext


-----------------------------------------------------------------------------
(* The turn in progress and those that wait *)

InLine ==
    \A i \in DOMAIN queue :
        /\ current # None /\ current.turn # queue[i]
        /\ \A k \in DOMAIN queue : queue[i] = queue[k] => i = k

\* The turn in progress is watched by a new timer, or is the old one.
Watching ==
    current' # None => \/ ChatRun(current'.turn, current'.try) \in armed'
                       \/ current' = current

SomeTurn == {None} \cup [turn : Turn, try : {0, 1}]

LEMMA Activated ==
    ASSUME TypeOK, NEW u \in Turn, NEW timers \in SUBSET Run, Activate(u, timers)
    PROVE  /\ current' \in SomeTurn /\ current' # None /\ current'.turn = u
           /\ armed' \subseteq Run /\ Watching
           /\ armed' = timers \cup {ChatRun(u, 0)}
<1>1. current' = [turn |-> u, try |-> 0] /\ armed' = timers \cup {ChatRun(u, 0)}
  BY DEF Activate
<1>2. current' # None
  BY <1>1, CurrentFacts
<1> QED BY <1>1, <1>2, NameFacts DEF SomeTurn, Watching

LEMMA OrderOfUse ==
    ASSUME NEW u \in Turn, NEW n \in {0, 1}, NEW T, u \in T
    PROVE  Orders(<<ChatRun(u, n)>>, {}, {}, T)
<1>1. ChatRun(u, n) \in Act /\ ChatRun(u, n).kind = "chat" /\ ChatRun(u, n).turn = u
  BY NameFacts DEF ChatRun
<1> DEFINE s == <<ChatRun(u, n)>>
<1>2. s \in Seq(Act) /\ DOMAIN s = {1} /\ s[1] = ChatRun(u, n)
  BY <1>1
<1> HIDE DEF s
<1>3. Orders(s, {}, {}, T)
  BY <1>1, <1>2 DEF Orders
<1> QED BY <1>3 DEF s

LEMMA OfferFacts ==
    ASSUME TypeOK, Numbered, InTurn, TurnIsKept, NEW g \in Trigger,
           NEW timers \in SUBSET Run, Offer(g, timers)
    PROVE  /\ NewTurn(g) \in Turn \ turns /\ turns' = turns \cup {NewTurn(g)}
           /\ NewTurn(g).trig = g
           /\ current' \in SomeTurn /\ queue' \in Seq(turns')
           /\ \A v \in Turn : InHand(v)' <=> InHand(v) \/ v = NewTurn(g)
           /\ InLine' /\ Watching
           /\ timers \subseteq armed'
           /\ armed' \subseteq timers \cup {ChatRun(NewTurn(g), 0)} /\ armed' \subseteq Run
           /\ Orders(OfferSpawns(g), {}, {}, turns')
<1> DEFINE u == NewTurn(g)
<1>1. u \in Turn \ turns /\ turns' = turns \cup {u} /\ u.trig = g
  <2>1. u.nth <= MaxTurns /\ turns' = turns \cup {u}
    BY DEF Offer
  <2> HIDE DEF u
  <2>2. u \notin turns /\ u.trig = g
    BY NewTurnFacts DEF u
  <2>3. u \in Turn
    BY <2>1, NewTurnFacts DEF u
  <2> QED BY <2>1, <2>2, <2>3
<1>2. ChatRun(u, 0) \in Run
  BY <1>1, NameFacts
<1>3. CASE current = None
  <2>1. Activate(u, timers) /\ queue' = queue
    BY <1>3 DEF Offer
  <2> HIDE DEF u
  <2>2. DOMAIN queue = {}
    BY <1>3 DEF TurnIsKept
  <2>3. /\ current' \in SomeTurn /\ current' # None /\ current'.turn = u
        /\ armed' \subseteq Run /\ Watching /\ armed' = timers \cup {ChatRun(u, 0)}
    BY <2>1, <1>1, Activated
  <2>4. queue' \in Seq(turns')
    <3>1. queue \in Seq(turns) /\ turns \subseteq turns'
      BY <1>1 DEF TypeOK
    <3> QED BY <3>1, <2>1, <2>2, EmptySeq
  <2>5. \A v \in Turn : InHand(v)' <=> InHand(v) \/ v = u
    BY <1>3, <2>1, <2>2, <2>3 DEF InHand
  <2>6. InLine'
    BY <2>1, <2>2 DEF InLine
  <2>7. OfferSpawns(g) = <<ChatRun(u, 0)>>
    BY <1>3 DEF OfferSpawns, u
  <2>8. Orders(OfferSpawns(g), {}, {}, turns')
    BY <2>7, <1>1, OrderOfUse
  <2> QED BY <1>1, <2>3, <2>4, <2>5, <2>6, <2>8 DEF u
<1>4. CASE current # None
  <2>1. queue' = Append(queue, u) /\ armed' = timers /\ current' = current
    BY <1>4 DEF Offer
  <2> HIDE DEF u
  <2>2. queue \in Seq(turns') /\ queue \in Seq(turns)
    <3>1. queue \in Seq(turns) /\ turns \subseteq turns'
      BY <1>1 DEF TypeOK
    <3>2. Len(queue) \in Nat /\ queue \in [1..Len(queue) -> turns]
      BY <3>1
    <3>3. queue \in [1..Len(queue) -> turns']
      BY <3>1, <3>2
    <3> QED BY <3>1, <3>2, <3>3, SeqDef
  <2>3. /\ queue' \in Seq(turns') /\ Len(queue') = Len(queue) + 1 /\ Len(queue) \in Nat
        /\ \A i \in 1..Len(queue) : queue'[i] = queue[i]
        /\ queue'[Len(queue) + 1] = u
    BY <2>1, <2>2, <1>1
  <2>4. DOMAIN queue = 1..Len(queue) /\ DOMAIN queue' = 1..(Len(queue) + 1)
    BY <2>2, <2>3
  <2>5. \A i \in DOMAIN queue : queue[i] \in turns /\ queue[i] # u
    BY <2>2, <1>1
  <2>6. ASSUME NEW v \in Turn PROVE InHand(v)' <=> InHand(v) \/ v = u
    <3>1. (\E i \in DOMAIN queue' : queue'[i] = v)
             <=> (\E i \in DOMAIN queue : queue[i] = v) \/ v = u
      <4>1. DOMAIN queue' = DOMAIN queue \cup {Len(queue) + 1}
        BY <2>3, <2>4
      <4>2. \A i \in DOMAIN queue : queue'[i] = queue[i]
        BY <2>3, <2>4
      <4>3. queue'[Len(queue) + 1] = u
        BY <2>3
      <4> QED BY <4>1, <4>2, <4>3
    <3> QED BY <3>1, <2>1 DEF InHand
  <2>7. current.turn # u
    <3>1. InHand(current.turn) /\ current.turn \in Turn
      BY <1>4, CurrentFacts DEF InHand
    <3> QED BY <3>1, <1>1 DEF InTurn
  <2>8. InLine'
    <3>1. InLine
      BY DEF InLine, TurnIsKept
    <3>2. ASSUME NEW i \in DOMAIN queue'
          PROVE  /\ current # None /\ current.turn # queue'[i]
                 /\ \A k \in DOMAIN queue' : queue'[i] = queue'[k] => i = k
      <4>1. CASE i \in DOMAIN queue
        BY <4>1, <3>1, <1>4, <2>3, <2>4, <2>5, <2>7 DEF InLine
      <4>2. CASE i = Len(queue) + 1
        <5>1. queue'[i] = u /\ current.turn # u
          <6>1. queue'[i] = queue'[Len(queue) + 1]
            BY <4>2
          <6>2. queue'[Len(queue) + 1] = u
            BY <2>3
          <6> QED BY <6>1, <6>2, <2>7
        <5>2. \A k \in DOMAIN queue' : k \in DOMAIN queue \/ k = Len(queue) + 1
          BY <2>3, <2>4
        <5>3. \A k \in DOMAIN queue : queue'[k] # u
          BY <2>3, <2>4, <2>5
        <5> QED BY <5>1, <5>2, <5>3, <4>2, <1>4
      <4> QED BY <2>3, <2>4, <4>1, <4>2
    <3> QED BY <3>2, <2>1 DEF InLine
  <2>9. OfferSpawns(g) = <<>>
    BY <1>4 DEF OfferSpawns
  <2>10. Orders(OfferSpawns(g), {}, {}, turns')
    BY <2>9, NoOrders
  <2>11. current' \in SomeTurn /\ Watching
    BY <2>1 DEF TypeOK, SomeTurn, Watching
  <2> QED BY <1>1, <2>1, <2>3, <2>6, <2>8, <2>10, <2>11 DEF u
<1> QED BY <1>3, <1>4

LEMMA ClearFacts ==
    ASSUME TypeOK, InTurn, TurnIsKept, current # None,
           NEW timers \in SUBSET Run, ClearCurrent(timers)
    PROVE  /\ current' \in SomeTurn /\ queue' \in Seq(turns)
           /\ \A v \in Turn : InHand(v)' <=> InHand(v) /\ v # current.turn
           /\ InLine'
           /\ current' # None => ChatRun(current'.turn, current'.try) \in armed'
           /\ armed' \subseteq Run
           /\ \A r \in armed' : r \in timers \/ r.kind = "chat"
           /\ Orders(ClearSpawns, {}, {}, turns)
<1>0. queue \in Seq(turns) /\ turns \subseteq Turn
  BY DEF TypeOK
<1>1. CASE queue = <<>>
  <2>1. current' = None /\ armed' = timers /\ queue' = queue /\ DOMAIN queue = {}
    BY <1>1 DEF ClearCurrent
  <2>2. Orders(ClearSpawns, {}, {}, turns)
    BY <1>1, NoOrders DEF ClearSpawns
  <2>3. \A v \in Turn : InHand(v)' <=> InHand(v) /\ v # current.turn
    BY <2>1 DEF InHand
  <2> QED BY <1>0, <2>1, <2>2, <2>3 DEF SomeTurn, InLine
<1>2. CASE queue # <<>>
  <2> DEFINE u == Head(queue)
  <2>1. Activate(u, timers) /\ queue' = Tail(queue)
    BY <1>2 DEF ClearCurrent
  <2>2. /\ u \in turns /\ u = queue[1] /\ 1 \in DOMAIN queue
        /\ queue' \in Seq(turns)
        /\ \A i \in DOMAIN queue' :
              i + 1 \in DOMAIN queue /\ queue'[i] = queue[i + 1] /\ i >= 1
    BY <1>0, <1>2, <2>1, TailFacts
  <2>3. \A i \in DOMAIN queue : i = 1 \/ (i - 1 \in DOMAIN queue' /\ queue'[i - 1] = queue[i])
    BY <1>0, <1>2, <2>1
  <2>4. Orders(ClearSpawns, {}, {}, turns)
    BY <1>0, <1>2, <2>2, OrderOfUse DEF ClearSpawns
  <2> HIDE DEF u
  <2>5. /\ current' \in SomeTurn /\ current' # None /\ current'.turn = u
        /\ armed' \subseteq Run /\ Watching /\ armed' = timers \cup {ChatRun(u, 0)}
    BY <1>0, <2>1, <2>2, Activated
  <2>6. InLine
    BY DEF InLine, TurnIsKept
  <2>7. current' = [turn |-> u, try |-> 0]
    BY <2>1 DEF Activate
  <2>8. \A i \in DOMAIN queue' : queue'[i] # u /\ queue'[i] # current.turn
    <3>1. \A i \in DOMAIN queue' : i + 1 # 1
      BY <2>2
    <3> QED BY <3>1, <2>2, <2>6 DEF InLine
  <2>9. ASSUME NEW v \in Turn PROVE InHand(v)' <=> InHand(v) /\ v # current.turn
    <3>1. u # current.turn
      BY <2>2, <2>6 DEF InLine
    <3>2. ASSUME InHand(v)' PROVE InHand(v) /\ v # current.turn
      <4>1. CASE v = u
        BY <4>1, <3>1, <2>2 DEF InHand
      <4>2. CASE \E i \in DOMAIN queue' : queue'[i] = v
        BY <4>2, <2>2, <2>8 DEF InHand
      <4> QED BY <3>2, <4>1, <4>2, <2>5 DEF InHand
    <3>3. ASSUME InHand(v), v # current.turn PROVE InHand(v)'
      <4>1. PICK i \in DOMAIN queue : queue[i] = v
        BY <3>3 DEF InHand
      <4>2. CASE i = 1
        BY <4>1, <4>2, <2>2, <2>5 DEF InHand
      <4>3. CASE i - 1 \in DOMAIN queue' /\ queue'[i - 1] = queue[i]
        BY <4>1, <4>3 DEF InHand
      <4> QED BY <4>2, <4>3, <2>3
    <3> QED BY <3>2, <3>3
  <2>10. InLine'
    <3>1. ASSUME NEW i \in DOMAIN queue', NEW k \in DOMAIN queue', queue'[i] = queue'[k]
          PROVE  i = k
      <4>1. i + 1 = k + 1 /\ i \in Nat /\ k \in Nat
        BY <3>1, <2>2, <2>6 DEF InLine
      <4> QED BY <4>1
    <3> QED BY <3>1, <2>5, <2>8 DEF InLine
  <2>11. ChatRun(current'.turn, current'.try) \in armed'
    BY <2>5, <2>7
  <2>12. \A r \in armed' : r \in timers \/ r.kind = "chat"
    BY <2>5 DEF ChatRun
  <2> QED BY <2>2, <2>4, <2>5, <2>9, <2>10, <2>11, <2>12
<1> QED BY <1>1, <1>2


-----------------------------------------------------------------------------
(* What a step does to the turns *)

LEMMA KeptStep ==
    ASSUME TypeOK, TurnIsKept, turns \subseteq turns', InLine',
           \A m \in Message : post'[m] = "done" =>
               post[m] = "done" \/ \E u \in turns' : u.trig = OwnerTrigger(m),
           \A e \in endings' :
               e \in endings \/ \E u \in turns' : u.trig = EndTrigger(e.talent),
           turns' = {u \in turns' : InHand(u)'} \cup answered' \cup failed' \cup lost'
    PROVE  TurnIsKept'
<1>1. \A m \in Message : post'[m] = "done" => \E u \in turns' : u.trig = OwnerTrigger(m)
  BY DEF TurnIsKept
<1>2. \A e \in endings' : \E u \in turns' : u.trig = EndTrigger(e.talent)
  BY DEF TurnIsKept
<1>3. turns' = ({u \in turns : InHand(u)} \cup answered \cup failed \cup lost)'
  OBVIOUS
<1> QED BY <1>1, <1>2, <1>3 DEF TurnIsKept, InLine

\* The line stays as it is.
LEMMA TurnsStay ==
    ASSUME TypeOK, TurnPart, UNCHANGED <<current, queue, turns, answered, lost, endings>>,
           failed \subseteq failed', failed' \subseteq turns,
           unwritten \subseteq unwritten',
           \A m \in Message : post'[m] = "done" => post[m] = "done",
           NEW N, NEW A, JobsNext(N, A, turns),
           current # None /\ current.turn \notin unwritten' =>
               (CurrentIsWatched => CurrentIsWatched')
    PROVE  TurnPart'
<1>1. \A u : InHand(u)' <=> InHand(u)
  BY DEF InHand
<1>2. Numbered'
  BY DEF TurnPart, Numbered, OfTrigger
<1>3. InTurn'
  <2>1. \A a \in Act : Has(a)' /\ a.kind = "chat" => Has(a) \/ a.turn \in turns
    BY DEF JobsNext, TalentRun, ArmJob
  <2> QED BY <1>1, <2>1 DEF TurnPart, InTurn
<1>4. TurnIsKept'
  <2>1. InLine'
    BY DEF TurnPart, TurnIsKept, InLine
  <2>2. turns' = {u \in turns' : InHand(u)'} \cup answered' \cup failed' \cup lost'
    BY <1>1 DEF TurnPart, TurnIsKept
  <2> QED BY <2>1, <2>2, KeptStep DEF TurnPart
<1>5. WatchedUnlessUnwritten'
  BY DEF TurnPart, WatchedUnlessUnwritten
<1> QED BY <1>2, <1>3, <1>4, <1>5 DEF TurnPart

\* The turn in progress ends, in an answer or an error.
LEMMA TurnsClear ==
    ASSUME TypeOK, TurnPart, current # None, NEW timers \in SUBSET Run,
           ClearCurrent(timers), UNCHANGED <<turns, lost, unwritten, post, endings>>,
           \/ answered' = answered \cup {current.turn} /\ failed' = failed
           \/ failed' = failed \cup {current.turn} /\ answered' = answered,
           NEW N, NEW A, JobsNext(N, A, turns)
    PROVE  TurnPart'
<1> DEFINE u == current.turn
<1>1. /\ current' \in SomeTurn /\ queue' \in Seq(turns)
      /\ \A v \in Turn : InHand(v)' <=> InHand(v) /\ v # u
      /\ InLine'
      /\ current' # None => ChatRun(current'.turn, current'.try) \in armed'
  BY ClearFacts DEF TurnPart
<1>2. u \in Turn /\ InHand(u) /\ u \in turns
  BY CurrentFacts DEF InHand, TurnPart, InTurn
<1>3. Numbered'
  BY DEF TurnPart, Numbered, OfTrigger
<1> HIDE DEF u
<1>4. answered' \subseteq answered \cup {u} /\ answered' \cup failed' = answered \cup failed \cup {u}
  BY DEF u
<1>5. InTurn'
  <2>1. \A a \in Act : Has(a)' /\ a.kind = "chat" => Has(a) \/ a.turn \in turns
    BY DEF JobsNext, TalentRun, ArmJob
  <2>2. \A v \in Turn : InHand(v)' => v \in turns' /\ v \notin answered'
    BY <1>1, <1>4 DEF TurnPart, InTurn
  <2> QED BY <2>1, <2>2 DEF TurnPart, InTurn
<1>6. TurnIsKept'
  <2>1. turns' = {v \in turns' : InHand(v)'} \cup answered' \cup failed' \cup lost'
    <3>1. turns = {v \in turns : InHand(v)} \cup answered \cup failed \cup lost
      BY DEF TurnPart, TurnIsKept
    <3>2. {v \in turns : InHand(v)'} = {v \in turns : InHand(v)} \ {u}
      BY <1>1 DEF TypeOK
    <3> QED BY <3>1, <3>2, <1>2, <1>4
  <2> QED BY <2>1, <1>1, KeptStep DEF TurnPart
<1>7. WatchedUnlessUnwritten'
  BY <1>1 DEF WatchedUnlessUnwritten, CurrentIsWatched
<1> QED BY <1>3, <1>5, <1>6, <1>7 DEF TurnPart

\* A trigger gets a turn.
LEMMA TurnsOffer ==
    ASSUME TypeOK, TurnPart, NEW g \in Trigger, NEW timers \in SUBSET Run,
           Offer(g, timers), UNCHANGED <<answered, failed, lost, unwritten>>,
           current # None => \A n \in {0, 1} :
               ChatRun(current.turn, n) \in armed \cup fired =>
                   ChatRun(current.turn, n) \in timers \cup fired',
           \A m \in Message : post'[m] = "done" => post[m] = "done" \/ g = OwnerTrigger(m),
           \A e \in endings' : e \in endings \/ g = EndTrigger(e.talent),
           NEW N, NEW A, JobsNext(N, A, turns')
    PROVE  TurnPart'
<1> DEFINE u == NewTurn(g)
<1>1. /\ u \in Turn \ turns /\ turns' = turns \cup {u} /\ u.trig = g
      /\ current' \in SomeTurn /\ queue' \in Seq(turns')
      /\ \A v \in Turn : InHand(v)' <=> InHand(v) \/ v = u
      /\ InLine' /\ Watching
      /\ timers \subseteq armed'
  <2> HIDE DEF u
  <2> QED BY OfferFacts DEF TurnPart, u
<1>2. Numbered'
  BY <1>1, NumberedNext DEF TurnPart
<1> HIDE DEF u
<1>3. InTurn'
  <2>1. \A a \in Act : Has(a)' /\ a.kind = "chat" => Has(a) \/ a.turn \in turns'
    BY DEF JobsNext, TalentRun, ArmJob
  <2>2. \A v \in Turn : InHand(v)' => v \in turns' /\ v \notin answered'
    <3>1. u \notin answered
      BY <1>1 DEF TypeOK
    <3> QED BY <3>1, <1>1 DEF TurnPart, InTurn
  <2> QED BY <2>1, <2>2, <1>1 DEF TurnPart, InTurn
<1>4. TurnIsKept'
  <2>1. turns' = {v \in turns' : InHand(v)'} \cup answered' \cup failed' \cup lost'
    <3>1. turns = {v \in turns : InHand(v)} \cup answered \cup failed \cup lost
      BY DEF TurnPart, TurnIsKept
    <3>2. {v \in turns' : InHand(v)'} = {v \in turns : InHand(v)} \cup {u}
      <4>1. turns \subseteq Turn /\ u \in Turn /\ \A v \in Turn : InHand(v) => v \in turns
        BY <1>1 DEF TypeOK, TurnPart, InTurn
      <4> QED BY <4>1, <1>1
    <3> QED BY <3>1, <3>2, <1>1
  <2> QED BY <2>1, <1>1, KeptStep DEF TurnPart
<1>5. WatchedUnlessUnwritten'
  <2>1. SUFFICES ASSUME current' # None, current'.turn \notin unwritten
                 PROVE  CurrentIsWatched'
    BY DEF WatchedUnlessUnwritten
  <2>2. CASE ChatRun(current'.turn, current'.try) \in armed'
    BY <2>2 DEF CurrentIsWatched
  <2>3. CASE current' = current
    <3>1. current # None /\ current.try \in {0, 1}
      BY <2>1, <2>3, CurrentFacts
    <3>2. ChatRun(current.turn, current.try) \in armed \cup fired
      BY <3>1, <2>1, <2>3 DEF TurnPart, WatchedUnlessUnwritten, CurrentIsWatched
    <3>3. ChatRun(current.turn, current.try) \in timers \cup fired'
      BY <3>1, <3>2
    <3> QED BY <3>3, <2>3, <1>1 DEF CurrentIsWatched
  <2> QED BY <2>1, <2>2, <2>3, <1>1 DEF Watching
<1> QED BY <1>2, <1>3, <1>4, <1>5 DEF TurnPart


-----------------------------------------------------------------------------
(* What a step does to the talents *)

\* N are the talents that are taken up for spawning, F those first seen spawned
\* and E those that end; a talent that begins to wait is a new one.
LEMMA TalentsStep ==
    ASSUME TypeOK, Talents, answered \subseteq answered', NEW N, NEW F, NEW E,
           \A t \in Turn : t \in N => ~Engaged(t) /\ ~Waits(t)' /\ t \in answered',
           \A t \in Turn : t \in E =>
               Engaged(t) /\ ~Pending(t)' /\ t \notin active' \cup spawned',
           \A t \in Turn : t \in active' \cup spawned' => t \in active \cup spawned \cup N,
           \A t \in Turn : Pending(t)' => (Pending(t) \/ t \in N) /\ t \in active',
           \A t \in Turn : t \in F => Engaged(t) /\ ~Pending(t)',
           \A t \in Turn : Seen(t)' => Seen(t) \/ t \in F,
           \A t \in Turn : Ended(t)' => Ended(t) \/ t \in E,
           \A t \in Turn : Waits(t)' =>
               Waits(t) \/ (t \in answered' /\ ~Engaged(t) /\ t \notin N),
           \A i, k \in DOMAIN deferred' : deferred'[i] = deferred'[k] => i = k
    PROVE  Talents'
<1>1. ASSUME NEW t \in Turn, Engaged(t)' PROVE t \in answered' /\ (Engaged(t) \/ t \in N)
  <2>1. Engaged(t) \/ t \in N
    BY <1>1 DEF Engaged
  <2>2. Engaged(t) => t \in answered
    BY DEF Talents
  <2> QED BY <2>1, <2>2
<1>2. ASSUME NEW t \in Turn, Waits(t)' PROVE t \in answered' /\ ~Engaged(t)'
  <2>1. Waits(t) => t \in answered /\ ~Engaged(t)
    BY DEF Talents
  <2>2. t \notin N /\ ~Engaged(t) /\ t \in answered'
    BY <1>2, <2>1
  <2> QED BY <1>1, <2>2
<1>3. ASSUME NEW t \in Turn, Pending(t)' PROVE t \in active' /\ ~Seen(t)' /\ ~Ended(t)'
  <2>1. Pending(t) \/ t \in N
    BY <1>3
  <2>2. ~Seen(t) /\ ~Ended(t)
    BY <2>1 DEF Talents, Engaged
  <2> QED BY <1>3, <2>2
<1>4. ASSUME NEW t \in Turn, Ended(t)' PROVE t \notin active' \cup spawned'
  <2>1. CASE t \in E
    BY <2>1
  <2>2. CASE Ended(t)
    <3>1. t \notin active \cup spawned /\ t \notin N
      BY <2>2 DEF Talents, Engaged
    <3> QED BY <3>1
  <2> QED BY <1>4, <2>1, <2>2
<1> QED BY <1>1, <1>2, <1>3, <1>4 DEF Talents

LEMMA FewerTalents ==
    ASSUME IsFiniteSet(spawned), TalentLimit, spawned' \subseteq spawned
    PROVE  IsFiniteSet(spawned)' /\ TalentLimit'
<1>1. IsFiniteSet(spawned') /\ Cardinality(spawned') <= Cardinality(spawned)
  BY FS_Subset
<1>2. Cardinality(spawned') \in Nat /\ Cardinality(spawned) \in Nat
  BY <1>1, FS_CardinalityType
<1> QED BY <1>1, <1>2, ChatAssumption DEF TalentLimit

\* No talent is taken up and none ends.
LEMMA TalentsQuiet ==
    ASSUME TypeOK, TalentPart, answered \subseteq answered', endings' = endings,
           active' \subseteq active \cup spawned, spawned' \subseteq spawned,
           NEW T, JobsNext({}, {}, T),
           \A t \in Turn : Pending(t)' => t \in active',
           \A t \in Turn : TalentRun(t) \in runs' \cup armed' \cup fired' => Seen(t),
           deferred' = deferred \/ deferred' = <<>>
    PROVE  TalentPart'
<1>1. \A t \in Turn : Pending(t)' => Pending(t)
  BY NameFacts DEF Pending, JobsNext, TalentRun
<1>2. \A t \in Turn : Has(ArmJob(t))' => Has(ArmJob(t))
  BY NameFacts DEF JobsNext, ArmJob
<1>3. \A t \in Turn : Seen(t)' => Seen(t)
  BY <1>2 DEF Seen
<1>4. \A t \in Turn : Ended(t)' <=> Ended(t)
  BY DEF Ended
<1>5. DOMAIN <<>> = {}
  OBVIOUS
<1>6. \A t \in Turn : Waits(t)' => Waits(t)
  BY <1>5 DEF Waits
<1>7. \A i, k \in DOMAIN deferred' : deferred'[i] = deferred'[k] => i = k
  BY <1>5 DEF TalentPart, Talents
<1>8. Talents'
  <2> DEFINE N == {}
  <2>1. \A t \in Turn : t \notin N
    OBVIOUS
  <2>2. Talents /\ \A t \in Turn : t \in active' \cup spawned' => t \in active \cup spawned \cup N
    BY DEF TalentPart
  <2> HIDE DEF N
  <2> QED BY <1>1, <1>3, <1>4, <1>6, <1>7, <2>1, <2>2, TalentsStep
<1>9. Once' /\ EndsOnce'
  BY DEF JobsNext, TalentPart, EndsOnce
<1> QED BY <1>8, <1>9, FewerTalents DEF TalentPart

\* The first n talents that wait are taken up.
LEMMA FirstDeferred ==
    ASSUME TypeOK, Talents, NEW n \in 0..Len(deferred), NEW next \in Seq(Turn),
           Len(next) = n, \A i \in 1..n : next[i] = deferred[i],
           deferred' = SubSeq(deferred, n + 1, Len(deferred)), NEW N,
           N = {next[i] : i \in DOMAIN next}
    PROVE  /\ N \subseteq Turn /\ IsFiniteSet(N) /\ Cardinality(N) <= n
           /\ \A t \in N : Waits(t) /\ ~Waits(t)'
           /\ \A t \in Turn : Waits(t)' => Waits(t)
           /\ deferred' \in Seq(Turn)
           /\ \A i, k \in DOMAIN deferred' : deferred'[i] = deferred'[k] => i = k
           /\ \A T : Orders(TalentSpawns(next), N, {}, T)
<1>1. /\ deferred \in Seq(Turn) /\ Len(deferred) \in Nat /\ n \in Nat
      /\ DOMAIN deferred = 1..Len(deferred) /\ DOMAIN next = 1..n
      /\ \A i \in 1..Len(deferred) : deferred[i] \in Turn
  <2>1. deferred \in Seq(Turn)
    BY DEF TypeOK
  <2>2. Len(deferred) \in Nat /\ DOMAIN deferred = 1..Len(deferred)
    BY <2>1
  <2>3. n \in Nat
    BY <2>2
  <2>4. DOMAIN next = 1..n
    OBVIOUS
  <2> QED BY <2>1, <2>2, <2>3, <2>4
<1>2. \A i, k \in DOMAIN deferred : deferred[i] = deferred[k] => i = k
  BY DEF Talents
<1>3. N \subseteq Turn
  BY <1>1
<1>4. IsFiniteSet(N) /\ Cardinality(N) <= n
  <2> DEFINE f == [i \in 1..n |-> next[i]]
  <2>1. f \in Surjection(1..n, N)
    BY <1>1 DEF Surjection
  <2>2. IsFiniteSet(1..n) /\ Cardinality(1..n) = n
    BY <1>1, FS_Interval
  <2> HIDE DEF f
  <2> QED BY <2>1, <2>2, FS_Surjection
<1>5. /\ deferred' \in Seq(Turn)
      /\ Len(deferred') = Len(deferred) - n
      /\ \A i \in 1..(Len(deferred) - n) : deferred'[i] = deferred[n + i]
  <2>1. /\ SubSeq(deferred, n + 1, Len(deferred)) \in Seq(Turn)
        /\ Len(SubSeq(deferred, n + 1, Len(deferred)))
             = IF n + 1 <= Len(deferred) THEN Len(deferred) - (n + 1) + 1 ELSE 0
        /\ \A i \in 1..(Len(deferred) - (n + 1) + 1) :
              SubSeq(deferred, n + 1, Len(deferred))[i] = deferred[n + 1 + i - 1]
    BY <1>1, SubSeqProperties
  <2>2. Len(deferred) \in Nat /\ n \in Nat /\ n <= Len(deferred)
    BY <1>1
  <2>3. Len(deferred) - (n + 1) + 1 = Len(deferred) - n
    BY <2>2
  <2>4. (IF n + 1 <= Len(deferred) THEN Len(deferred) - (n + 1) + 1 ELSE 0)
           = Len(deferred) - n
    BY <2>2
  <2>5. \A i \in 1..(Len(deferred) - n) : n + 1 + i - 1 = n + i
    BY <2>2
  <2> QED BY <2>1, <2>3, <2>4, <2>5
<1>6. DOMAIN deferred' = 1..(Len(deferred) - n)
  <2>1. DOMAIN deferred' = 1..Len(deferred')
    BY <1>5
  <2> QED BY <1>5, <2>1
<1>7. \A i \in DOMAIN deferred' :
         n + i \in DOMAIN deferred /\ i \in Nat /\ i >= 1 /\ deferred'[i] = deferred[n + i]
  BY <1>1, <1>5, <1>6
<1>8. ASSUME NEW t \in N PROVE Waits(t) /\ ~Waits(t)'
  <2>1. PICK i \in 1..n : t = next[i]
    BY <1>1
  <2>2. i \in DOMAIN deferred /\ deferred[i] = t
    BY <1>1, <2>1
  <2>3. \A k \in DOMAIN deferred' : n + k # i
    BY <1>1, <1>7, <2>1
  <2> QED BY <1>2, <1>7, <2>2, <2>3 DEF Waits
<1>9. \A t \in Turn : Waits(t)' => Waits(t)
  BY <1>7 DEF Waits
<1>10. ASSUME NEW i \in DOMAIN deferred', NEW k \in DOMAIN deferred',
              deferred'[i] = deferred'[k]
       PROVE  i = k
  <2>1. n + i = n + k
    BY <1>2, <1>7, <1>10
  <2> QED BY <2>1, <1>1, <1>7, <1>10
<1>11. ASSUME NEW T PROVE Orders(TalentSpawns(next), N, {}, T)
  <2> DEFINE s == TalentSpawns(next)
  <2>1. s = [i \in 1..n |-> TalentRun(next[i])]
    BY <1>1 DEF TalentSpawns
  <2>2. \A i \in 1..n : next[i] \in N /\ TalentRun(next[i]) \in Act
    BY <1>1, <1>3, NameFacts
  <2>3. s \in Seq(Act) /\ DOMAIN s = 1..n
    BY <1>1, <2>1, <2>2, SeqDef
  <2>4. \A i, k \in 1..n : TalentRun(next[i]) = TalentRun(next[k]) => i = k
    BY <1>1, <1>2, NameFacts
  <2>5. (\A i \in 1..n : s[i] = TalentRun(next[i]))
    BY <2>1
  <2> HIDE DEF s
  <2>6. Orders(s, N, {}, T)
    BY <2>2, <2>3, <2>4, <2>5 DEF Orders
  <2> QED BY <2>6 DEF s
<1> QED BY <1>3, <1>4, <1>5, <1>8, <1>9, <1>10, <1>11


-----------------------------------------------------------------------------
(* Steps that take up no talent and end none *)

LEMMA CheckStep ==
    ASSUME IInv, NEW m \in Message, Check(m) PROVE IInv'
<1>0. TypeOK /\ TurnPart /\ TalentPart /\ Once /\ Talents
  BY DEF IInv, TalentPart
<1>1. UNCHANGED <<memory, jobs, runs, log, history>>
  BY DEF Check
<1>2. TypeOK'
  BY <1>0, <1>1 DEF Check, TypeOK, memory, log, history
<1>3. JobsNext({}, {}, turns)
  BY <1>0, <1>1, JobsUnchanged
<1>4. \A n \in Message : post'[n] = "done" => post[n] = "done"
  BY <1>0 DEF Check, TypeOK
<1>5. TurnPart'
  BY <1>0, <1>1, <1>3, <1>4, TurnsStay
     DEF memory, log, history, CurrentIsWatched, TypeOK
<1>6. \A t \in Turn : Pending(t) => t \in active
  BY <1>0 DEF Talents
<1>7. TalentPart'
  <2>1. /\ UNCHANGED <<active, armed, fired, runs, answered, endings, spawned, deferred>>
        /\ UNCHANGED jobs
    BY <1>1 DEF memory, log
  <2>2. \A t \in Turn : Pending(t)' => t \in active'
    BY <2>1, <1>6 DEF Pending, Has
  <2>3. \A t \in Turn : TalentRun(t) \in runs' \cup armed' \cup fired' => Seen(t)
    BY <2>1 DEF Seen
  <2> QED BY <1>0, <1>3, <2>1, <2>2, <2>3, TalentsQuiet
<1> QED BY <1>2, <1>5, <1>7 DEF IInv

LEMMA RecordStep ==
    ASSUME IInv, NEW m \in Message, Record(m) PROVE IInv'
<1>0. TypeOK /\ TurnPart /\ TalentPart /\ Once /\ Talents
  BY DEF IInv, TalentPart
<1>1. UNCHANGED <<memory, jobs, runs, spawned, deferred, answered, failed, endings, history>>
  BY DEF Record
<1>2. TypeOK'
  BY <1>0, NameFacts DEF Record, TypeOK, memory, history
<1>3. JobsNext({}, {}, turns)
  BY <1>0, <1>1, JobsUnchanged
<1>4. \A n \in Message : post'[n] = "done" => post[n] = "done"
  BY <1>0 DEF Record, TypeOK
<1>5. TurnPart'
  BY <1>0, <1>1, <1>3, <1>4, TurnsStay
     DEF memory, history, CurrentIsWatched, TypeOK
<1>6. \A t \in Turn : Pending(t) => t \in active
  BY <1>0 DEF Talents
<1>7. TalentPart'
  <2>1. /\ UNCHANGED <<active, armed, fired, runs, answered, endings, spawned, deferred>>
        /\ UNCHANGED jobs
    BY <1>1 DEF memory
  <2>2. \A t \in Turn : Pending(t)' => t \in active'
    BY <2>1, <1>6 DEF Pending, Has
  <2>3. \A t \in Turn : TalentRun(t) \in runs' \cup armed' \cup fired' => Seen(t)
    BY <2>1 DEF Seen
  <2> QED BY <1>0, <1>3, <2>1, <2>2, <2>3, TalentsQuiet
<1> QED BY <1>2, <1>5, <1>7 DEF IInv

LEMMA PostStep ==
    ASSUME IInv, NEW m \in Message, Post(m) PROVE IInv'
<1> DEFINE g == OwnerTrigger(m)
<1>0. TypeOK /\ TurnPart /\ TalentPart /\ Once /\ Talents
  BY DEF IInv, TalentPart
<1>1. g \in Trigger /\ Offer(g, armed) /\ armed \in SUBSET Run
  BY <1>0, NameFacts DEF Post, TypeOK
<1>2. /\ UNCHANGED <<active, fired, runs, log, lost, asked, left, unwritten, events,
                     nights, starting>>
      /\ jobs' = jobs \cup Goes("other", OfferSpawns(g))
      /\ post' = [post EXCEPT ![m] = "done"]
  BY DEF Post
<1>2a. UNCHANGED <<answered, failed, endings, spawned, deferred>>
  BY <1>2 DEF log
<1> HIDE DEF g
<1>3. /\ NewTurn(g) \in Turn \ turns /\ turns' = turns \cup {NewTurn(g)}
      /\ current' \in SomeTurn /\ queue' \in Seq(turns')
      /\ armed \subseteq armed' /\ armed' \subseteq Run
      /\ armed' \subseteq armed \cup {ChatRun(NewTurn(g), 0)}
      /\ Orders(OfferSpawns(g), {}, {}, turns')
  BY <1>0, <1>1, OfferFacts DEF TurnPart
<1>4. JobsNext({}, {}, turns')
  BY <1>0, <1>2, <1>3, JobsGrow
<1>5. TypeOK'
  BY <1>0, <1>2, <1>3, <1>4 DEF TypeOK, log, SomeTurn, JobsNext
<1>6. \A n \in Message : post'[n] = "done" => post[n] = "done" \/ g = OwnerTrigger(n)
  BY <1>0, <1>2 DEF TypeOK, g
<1>7. TurnPart'
  BY <1>0, <1>1, <1>2, <1>2a, <1>4, <1>6, TurnsOffer
<1>8. \A t \in Turn : Pending(t)' => t \in active'
  <2>1. \A t \in Turn : Pending(t)' => Pending(t)
    BY <1>4, NameFacts DEF Pending, JobsNext, TalentRun
  <2> QED BY <2>1, <1>0, <1>2 DEF Talents
<1>9. \A t \in Turn : TalentRun(t) \in runs' \cup armed' \cup fired' => Seen(t)
  BY <1>2, <1>3 DEF Seen, TalentRun, ChatRun
<1>10. TalentPart'
  BY <1>0, <1>2, <1>2a, <1>4, <1>8, <1>9, TalentsQuiet
<1> QED BY <1>5, <1>7, <1>10 DEF IInv

LEMMA HeadFacts ==
    ASSUME TypeOK, NEW j \in jobs
    PROVE  /\ Head(j.acts) \in Act /\ Has(Head(j.acts))
           /\ Head(j.acts).turn \in Turn /\ Head(j.acts).try \in {0, 1}
<1>1. j.acts \in Seq(Act) \ {<<>>}
  BY DEF TypeOK, Job
<1>2. Head(j.acts) \in Act /\ Head(j.acts) = j.acts[1] /\ 1 \in DOMAIN j.acts
  BY <1>1, TailFacts
<1> QED BY <1>2 DEF Has, Act, Run

\* A thread's action, in which no talent is taken up or spawned.
LEMMA QuietRest ==
    ASSUME IInv, NEW j \in jobs, NEW acts, NEW T, Orders(acts, {}, {}, T),
           jobs' = Rest(j, acts), active' = active
    PROVE  JobsNext({}, {}, T) /\ \A t \in Turn : Pending(t)' => t \in active'
<1>1. TypeOK /\ Once /\ Talents
  BY DEF IInv, TalentPart
<1>2. JobsNext({}, {}, T)
  BY <1>1, JobsRest
<1>3. \A t \in Turn : Pending(t)' => Pending(t)
  BY <1>2, NameFacts DEF Pending, JobsNext, TalentRun
<1> QED BY <1>1, <1>2, <1>3 DEF Talents

LEMMA SpawnChatStep ==
    ASSUME IInv, NEW j \in jobs, SpawnChat(j) PROVE IInv'
<1> DEFINE a == Head(j.acts)
<1>0. TypeOK /\ TurnPart /\ TalentPart
  BY DEF IInv
<1>1. /\ a.kind = "chat" /\ runs' = runs \cup {a} /\ jobs' = Rest(j, <<>>)
      /\ UNCHANGED <<post, memory, log, history, starting>>
  BY DEF SpawnChat, Doing
<1>2. a \in Run
  BY <1>0, <1>1, HeadFacts DEF Act, Run
<1>3. UNCHANGED <<post, current, queue, active, armed, fired, turns, answered, failed,
                  lost, unwritten, endings, spawned, deferred>>
  BY <1>1 DEF memory, log, history
<1> HIDE DEF a
<1>4. JobsNext({}, {}, turns) /\ \A t \in Turn : Pending(t)' => t \in active'
  BY <1>1, <1>3, NoOrders, QuietRest
<1>5. TypeOK'
  BY <1>0, <1>1, <1>2, <1>4 DEF TypeOK, memory, log, history, JobsNext
<1>6. TurnPart'
  BY <1>0, <1>3, <1>4, TurnsStay DEF CurrentIsWatched, TypeOK
<1>7. \A t \in Turn : TalentRun(t) \in runs' \cup armed' \cup fired' => Seen(t)
  BY <1>1, <1>3 DEF Seen, TalentRun
<1>8. TalentPart'
  BY <1>0, <1>3, <1>4, <1>7, TalentsQuiet
<1> QED BY <1>5, <1>6, <1>8 DEF IInv

LEMMA SpawnChatFailsStep ==
    ASSUME IInv, NEW j \in jobs, SpawnChatFails(j) PROVE IInv'
<1> DEFINE u == Head(j.acts).turn
           timers == armed \ {ChatRun(u, current.try)}
<1>0. TypeOK /\ TurnPart /\ TalentPart
  BY DEF IInv
<1>1. /\ Head(j.acts).kind = "chat" /\ failed' = failed \cup {u}
      /\ UNCHANGED <<post, active, fired, runs, trigger, owned, spawned, rootless,
                     deferred, answered, endings, history, starting>>
  BY DEF SpawnChatFails, Doing
<1>1a. UNCHANGED <<turns, lost, asked, left, unwritten, events, nights>>
  BY <1>1 DEF history
<1>2. u \in turns
  <2>1. Head(j.acts) \in Act /\ Has(Head(j.acts))
    BY <1>0, HeadFacts
  <2> QED BY <2>1, <1>0, <1>1 DEF TurnPart, InTurn
<1>3. timers \in SUBSET Run
  BY <1>0 DEF TypeOK
<1>4. CASE current # None /\ current.turn = u
  <2>1. ClearCurrent(timers) /\ jobs' = Rest(j, ClearSpawns)
    BY <1>4 DEF SpawnChatFails
  <2> HIDE DEF u, timers
  <2>2. /\ current' \in SomeTurn /\ queue' \in Seq(turns) /\ armed' \subseteq Run
        /\ \A r \in armed' : r \in timers \/ r.kind = "chat"
        /\ Orders(ClearSpawns, {}, {}, turns)
    BY <2>1, <1>0, <1>3, <1>4, ClearFacts DEF TurnPart
  <2>3. JobsNext({}, {}, turns) /\ \A t \in Turn : Pending(t)' => t \in active'
    BY <1>1, <2>1, <2>2, QuietRest
  <2>4. TypeOK'
    BY <1>0, <1>1, <1>1a, <1>2, <2>2, <2>3 DEF TypeOK, SomeTurn, JobsNext
  <2>5. TurnPart'
    BY <1>0, <1>1, <1>1a, <1>3, <1>4, <2>1, <2>3, TurnsClear
  <2>6. \A t \in Turn : TalentRun(t) \in runs' \cup armed' \cup fired' => Seen(t)
    BY <1>1, <2>2 DEF Seen, TalentRun, timers
  <2>7. TalentPart'
    BY <1>0, <1>1, <2>3, <2>6, TalentsQuiet
  <2> QED BY <2>4, <2>5, <2>7 DEF IInv
<1>5. CASE ~(current # None /\ current.turn = u)
  <2>1. jobs' = Rest(j, <<>>) /\ UNCHANGED <<current, queue, armed>>
    BY <1>5 DEF SpawnChatFails
  <2> HIDE DEF u, timers
  <2>2. JobsNext({}, {}, turns) /\ \A t \in Turn : Pending(t)' => t \in active'
    BY <1>1, <2>1, NoOrders, QuietRest
  <2>3. TypeOK'
    BY <1>0, <1>1, <1>1a, <1>2, <2>1, <2>2 DEF TypeOK, JobsNext
  <2>4. TurnPart'
    <3>1. failed \subseteq failed' /\ failed' \subseteq turns
      BY <1>0, <1>1, <1>2 DEF TypeOK
    <3> QED BY <1>0, <1>1, <1>1a, <2>1, <2>2, <3>1, TurnsStay DEF CurrentIsWatched
  <2>5. \A t \in Turn : TalentRun(t) \in runs' \cup armed' \cup fired' => Seen(t)
    BY <1>1, <2>1 DEF Seen
  <2>6. TalentPart'
    BY <1>0, <1>1, <2>2, <2>5, TalentsQuiet
  <2> QED BY <2>3, <2>4, <2>6 DEF IInv
<1> QED BY <1>4, <1>5

LEMMA ArmStep ==
    ASSUME IInv, NEW j \in jobs, Arm(j) PROVE IInv'
<1> DEFINE r == TalentRun(Head(j.acts).turn)
<1>0. TypeOK /\ TurnPart /\ TalentPart
  BY DEF IInv
<1>1. /\ Head(j.acts).kind = "arm" /\ armed' = armed \cup {r} /\ jobs' = Rest(j, <<>>)
      /\ UNCHANGED <<post, current, queue, active, fired, runs, log, history, starting>>
  BY DEF Arm, Doing
<1>2. Head(j.acts) \in Act /\ Has(Head(j.acts)) /\ Head(j.acts).turn \in Turn
  BY <1>0, HeadFacts
<1>3. r \in Run
  BY <1>2, NameFacts
<1>4. UNCHANGED <<answered, failed, endings, spawned, deferred, turns, lost, unwritten>>
  BY <1>1 DEF log, history
<1>5. \A t \in Turn : r = TalentRun(t) => Seen(t)
  <2>1. SUFFICES ASSUME NEW t \in Turn, r = TalentRun(t) PROVE Seen(t)
    OBVIOUS
  <2>2. Head(j.acts).turn = t
    BY <2>1, NameFacts
  <2>3. Head(j.acts) = ArmJob(t)
    BY <1>1, <1>2, <2>2 DEF Act, Run, ArmJob
  <2> QED BY <2>3, <1>2 DEF Seen
<1> HIDE DEF r
<1>6. JobsNext({}, {}, turns) /\ \A t \in Turn : Pending(t)' => t \in active'
  BY <1>1, NoOrders, QuietRest
<1>7. TypeOK'
  BY <1>0, <1>1, <1>3, <1>6 DEF TypeOK, log, history, JobsNext
<1>8. TurnPart'
  BY <1>0, <1>1, <1>4, <1>6, TurnsStay DEF CurrentIsWatched, TypeOK
<1>9. \A t \in Turn : TalentRun(t) \in runs' \cup armed' \cup fired' => Seen(t)
  BY <1>1, <1>5 DEF Seen
<1>10. TalentPart'
  BY <1>0, <1>1, <1>4, <1>6, <1>9, TalentsQuiet
<1> QED BY <1>7, <1>8, <1>10 DEF IInv


\* A report of a turn in progress.
LEMMA ReportFacts ==
    ASSUME TypeOK, NEW r \in runs, Reports(r)
    PROVE  /\ UNCHANGED <<post, fired, starting>> /\ runs' \subseteq runs
           /\ r \in Run /\ runs' \subseteq Run
           /\ IsCurrent(r) => /\ current # None /\ r = ChatRun(current.turn, current.try)
                              /\ r.kind = "chat" /\ r.turn = current.turn
                              /\ r.turn \in Turn
<1>1. IsCurrent(r) => /\ current # None /\ r = ChatRun(current.turn, current.try)
                      /\ r.kind = "chat" /\ r.turn = current.turn
  BY DEF IsCurrent, ChatRun
<1> QED BY <1>1, CurrentFacts DEF Reports, TypeOK

\* A locked section outside of a thread's actions.
LEMMA QuietGrow ==
    ASSUME IInv, NEW th \in {"bus", "other"}, NEW acts, NEW T, Orders(acts, {}, {}, T),
           jobs' = jobs \cup Goes(th, acts), active' = active
    PROVE  JobsNext({}, {}, T) /\ \A t \in Turn : Pending(t)' => t \in active'
<1>1. TypeOK /\ Once /\ Talents
  BY DEF IInv, TalentPart
<1>2. JobsNext({}, {}, T)
  BY <1>1, JobsGrow
<1>3. \A t \in Turn : Pending(t)' => Pending(t)
  BY <1>2, NameFacts DEF Pending, JobsNext, TalentRun
<1> QED BY <1>1, <1>2, <1>3 DEF Talents

LEMMA QuietUnchanged ==
    ASSUME IInv, UNCHANGED jobs, active' = active
    PROVE  JobsNext({}, {}, turns) /\ \A t \in Turn : Pending(t)' => t \in active'
<1>1. TypeOK /\ Once /\ Talents
  BY DEF IInv, TalentPart
<1>2. JobsNext({}, {}, turns)
  BY <1>1, JobsUnchanged
<1>3. \A t \in Turn : Pending(t)' => Pending(t)
  BY <1>2, NameFacts DEF Pending, JobsNext, TalentRun
<1> QED BY <1>1, <1>2, <1>3 DEF Talents

LEMMA RetryStep ==
    ASSUME IInv, NEW r \in runs, Retry(r) PROVE IInv'
<1> DEFINE u == r.turn
<1>0. TypeOK /\ TurnPart /\ TalentPart
  BY DEF IInv
<1>1. /\ Reports(r) /\ IsCurrent(r)
      /\ current' = [current EXCEPT !.try = 1]
      /\ armed' = (armed \ {r}) \cup {ChatRun(u, 1)}
      /\ jobs' = jobs \cup Goes("bus", <<ChatRun(u, 1)>>)
      /\ UNCHANGED <<queue, active, log, history>>
  BY DEF Retry
<1>2. UNCHANGED <<answered, failed, endings, spawned, deferred, turns, lost, unwritten>>
  BY <1>1 DEF log, history
<1>3. /\ UNCHANGED <<post, fired, starting>> /\ runs' \subseteq runs /\ runs' \subseteq Run
      /\ current # None /\ u = current.turn /\ u \in Turn /\ r.kind = "chat"
  BY <1>0, <1>1, ReportFacts
<1>4. /\ current' = [turn |-> u, try |-> 1] /\ current' \in SomeTurn /\ current' # None
  BY <1>0, <1>1, <1>3, CurrentFacts DEF SomeTurn
<1>5. u \in turns
  BY <1>0, <1>3 DEF TurnPart, InTurn, InHand
<1>6. ChatRun(u, 1) \in Run /\ Orders(<<ChatRun(u, 1)>>, {}, {}, turns)
  BY <1>3, <1>5, NameFacts, OrderOfUse
<1> HIDE DEF u
<1>7. JobsNext({}, {}, turns) /\ \A t \in Turn : Pending(t)' => t \in active'
  BY <1>1, <1>6, QuietGrow
<1>8. TypeOK'
  BY <1>0, <1>1, <1>3, <1>4, <1>6, <1>7 DEF TypeOK, log, history, SomeTurn, JobsNext
<1>9. TurnPart'
  <2>1. \A v : InHand(v)' <=> InHand(v)
    BY <1>1, <1>3, <1>4 DEF InHand
  <2>2. Numbered'
    BY <1>0, <1>2 DEF TurnPart, Numbered, OfTrigger
  <2>3. InTurn'
    <3>1. \A a \in Act : Has(a)' /\ a.kind = "chat" => Has(a) \/ a.turn \in turns
      BY <1>7 DEF JobsNext, TalentRun, ArmJob
    <3> QED BY <1>0, <1>2, <2>1, <3>1 DEF TurnPart, InTurn
  <2>4. InLine'
    BY <1>0, <1>1, <1>3, <1>4 DEF TurnPart, TurnIsKept, InLine
  <2>5. turns' = {v \in turns' : InHand(v)'} \cup answered' \cup failed' \cup lost'
    BY <1>0, <1>2, <2>1 DEF TurnPart, TurnIsKept
  <2>6. TurnIsKept'
    BY <1>0, <1>2, <1>3, <2>4, <2>5, KeptStep DEF TurnPart
  <2>7. WatchedUnlessUnwritten'
    BY <1>1, <1>4 DEF WatchedUnlessUnwritten, CurrentIsWatched
  <2> QED BY <2>2, <2>3, <2>6, <2>7 DEF TurnPart
<1>10. \A t \in Turn : TalentRun(t) \in runs' \cup armed' \cup fired' => Seen(t)
  BY <1>1, <1>3 DEF Seen, TalentRun, ChatRun
<1>11. TalentPart'
  BY <1>0, <1>1, <1>2, <1>7, <1>10, TalentsQuiet
<1> QED BY <1>8, <1>9, <1>11 DEF IInv

LEMMA FailStep ==
    ASSUME IInv, NEW r \in runs, Fail(r) PROVE IInv'
<1>0. TypeOK /\ TurnPart /\ TalentPart
  BY DEF IInv
<1>1. /\ Reports(r) /\ IsCurrent(r)
      /\ failed' = failed \cup {r.turn}
      /\ jobs' = jobs \cup Goes("bus", ClearSpawns)
      /\ ClearCurrent(armed \ {r}) /\ armed \ {r} \in SUBSET Run
      /\ UNCHANGED <<active, trigger, owned, spawned, rootless, deferred, answered,
                     endings, turns, lost, asked, left, unwritten, events, nights>>
  BY <1>0 DEF Fail, history, TypeOK
<1>2. /\ UNCHANGED <<post, fired, starting>> /\ runs' \subseteq runs /\ runs' \subseteq Run
      /\ current # None /\ r.turn = current.turn /\ r.turn \in Turn
  BY <1>0, <1>1, ReportFacts
<1>3. current.turn \in turns
  BY <1>0, <1>2 DEF TurnPart, InTurn, InHand
<1>4. /\ current' \in SomeTurn /\ queue' \in Seq(turns) /\ armed' \subseteq Run
      /\ \A x \in armed' : x \in armed \ {r} \/ x.kind = "chat"
      /\ Orders(ClearSpawns, {}, {}, turns)
  BY <1>0, <1>1, <1>2, ClearFacts DEF TurnPart
<1>5. JobsNext({}, {}, turns) /\ \A t \in Turn : Pending(t)' => t \in active'
  BY <1>1, <1>4, QuietGrow
<1>6. TypeOK'
  BY <1>0, <1>1, <1>2, <1>3, <1>4, <1>5 DEF TypeOK, SomeTurn, JobsNext
<1>7. TurnPart'
  BY <1>0, <1>1, <1>2, <1>5, TurnsClear
<1>8. \A t \in Turn : TalentRun(t) \in runs' \cup armed' \cup fired' => Seen(t)
  BY <1>2, <1>4 DEF Seen, TalentRun
<1>9. TalentPart'
  BY <1>0, <1>1, <1>5, <1>8, TalentsQuiet
<1> QED BY <1>6, <1>7, <1>9 DEF IInv

LEMMA ReplyStep ==
    ASSUME IInv, NEW r \in runs, Reply(r) PROVE IInv'
<1>0. TypeOK /\ TurnPart /\ TalentPart
  BY DEF IInv
<1>1. /\ Reports(r) /\ IsCurrent(r)
      /\ answered' = answered \cup {r.turn} /\ trigger' = None
      /\ jobs' = jobs \cup Goes("bus", ClearSpawns)
      /\ ClearCurrent(armed \ {r}) /\ armed \ {r} \in SUBSET Run
      /\ UNCHANGED <<active, owned, spawned, rootless, deferred, failed,
                     endings, turns, lost, asked, left, unwritten, events, nights>>
  BY <1>0 DEF Reply, history, TypeOK
<1>2. /\ UNCHANGED <<post, fired, starting>> /\ runs' \subseteq runs /\ runs' \subseteq Run
      /\ current # None /\ r.turn = current.turn /\ r.turn \in Turn
  BY <1>0, <1>1, ReportFacts
<1>3. current.turn \in turns
  BY <1>0, <1>2 DEF TurnPart, InTurn, InHand
<1>4. /\ current' \in SomeTurn /\ queue' \in Seq(turns) /\ armed' \subseteq Run
      /\ \A x \in armed' : x \in armed \ {r} \/ x.kind = "chat"
      /\ Orders(ClearSpawns, {}, {}, turns)
  BY <1>0, <1>1, <1>2, ClearFacts DEF TurnPart
<1>5. JobsNext({}, {}, turns) /\ \A t \in Turn : Pending(t)' => t \in active'
  BY <1>1, <1>4, QuietGrow
<1>6. TypeOK'
  BY <1>0, <1>1, <1>2, <1>3, <1>4, <1>5 DEF TypeOK, SomeTurn, JobsNext
<1>7. TurnPart'
  BY <1>0, <1>1, <1>2, <1>5, TurnsClear
<1>8. \A t \in Turn : TalentRun(t) \in runs' \cup armed' \cup fired' => Seen(t)
  BY <1>2, <1>4 DEF Seen, TalentRun
<1>9. TalentPart'
  BY <1>0, <1>1, <1>5, <1>8, TalentsQuiet
<1> QED BY <1>6, <1>7, <1>9 DEF IInv

LEMMA ReportUnwrittenStep ==
    ASSUME IInv, NEW r \in runs, ReportUnwritten(r) PROVE IInv'
<1>0. TypeOK /\ TurnPart /\ TalentPart
  BY DEF IInv
<1>1. /\ Reports(r) /\ IsCurrent(r) /\ events < MaxEvents /\ events' = events + 1
      /\ armed' = armed \ {r} /\ unwritten' = unwritten \cup {r.turn}
      /\ UNCHANGED <<current, queue, active, jobs, log, turns, lost, asked, left, nights>>
  BY DEF ReportUnwritten
<1>2. /\ UNCHANGED <<post, fired, starting>> /\ runs' \subseteq runs /\ runs' \subseteq Run
      /\ current # None /\ r.turn = current.turn /\ r.turn \in Turn
  BY <1>0, <1>1, ReportFacts
<1>3. r.turn \in turns
  BY <1>0, <1>2 DEF TurnPart, InTurn, InHand
<1>4. UNCHANGED <<answered, failed, endings, spawned, deferred>>
  BY <1>1 DEF log
<1>5. JobsNext({}, {}, turns) /\ \A t \in Turn : Pending(t)' => t \in active'
  BY <1>1, QuietUnchanged
<1>6. TypeOK'
  <2>0. events \in 0..MaxEvents /\ MaxEvents \in Nat
    BY <1>0, ChatAssumption DEF TypeOK
  <2>1. events' \in 0..MaxEvents
    BY <1>1, <2>0
  <2> QED BY <1>0, <1>1, <1>2, <1>3, <2>1 DEF TypeOK, log
<1>7. TurnPart'
  BY <1>0, <1>1, <1>2, <1>4, <1>5, TurnsStay DEF TypeOK
<1>8. \A t \in Turn : TalentRun(t) \in runs' \cup armed' \cup fired' => Seen(t)
  BY <1>1, <1>2 DEF Seen
<1>9. TalentPart'
  BY <1>0, <1>1, <1>4, <1>5, <1>8, TalentsQuiet
<1> QED BY <1>6, <1>7, <1>9 DEF IInv

LEMMA DropStep ==
    ASSUME IInv, NEW r \in runs, Drop(r) PROVE IInv'
<1>0. TypeOK /\ TurnPart /\ TalentPart
  BY DEF IInv
<1>1. Reports(r) /\ UNCHANGED <<current, queue, active, armed, jobs, log, history>>
  BY DEF Drop
<1>2. UNCHANGED <<post, fired, starting>> /\ runs' \subseteq runs /\ runs' \subseteq Run
  BY <1>0, <1>1, ReportFacts
<1>3. UNCHANGED <<answered, failed, endings, spawned, deferred, turns, lost, unwritten>>
  BY <1>1 DEF log, history
<1>4. JobsNext({}, {}, turns) /\ \A t \in Turn : Pending(t)' => t \in active'
  BY <1>1, QuietUnchanged
<1>5. TypeOK'
  BY <1>0, <1>1, <1>2 DEF TypeOK, log, history
<1>6. TurnPart'
  BY <1>0, <1>1, <1>2, <1>3, <1>4, TurnsStay DEF TypeOK, CurrentIsWatched
<1>7. \A t \in Turn : TalentRun(t) \in runs' \cup armed' \cup fired' => Seen(t)
  BY <1>1, <1>2 DEF Seen
<1>8. TalentPart'
  BY <1>0, <1>1, <1>3, <1>4, <1>7, TalentsQuiet
<1> QED BY <1>5, <1>6, <1>8 DEF IInv

LEMMA ExpireStep ==
    ASSUME IInv, NEW r \in armed, Expire(r) PROVE IInv'
<1>0. TypeOK /\ TurnPart /\ TalentPart
  BY DEF IInv
<1>1. /\ armed' = armed \ {r} /\ fired' = fired \cup {r}
      /\ UNCHANGED <<post, current, queue, active, jobs, runs, log, history, starting>>
  BY DEF Expire
<1>3. UNCHANGED <<answered, failed, endings, spawned, deferred, turns, lost, unwritten>>
  BY <1>1 DEF log, history
<1>4. JobsNext({}, {}, turns) /\ \A t \in Turn : Pending(t)' => t \in active'
  BY <1>1, QuietUnchanged
<1>5. TypeOK'
  <2>0. armed \subseteq Run /\ fired \subseteq Run
    BY <1>0 DEF TypeOK
  <2>1. armed' \subseteq Run /\ fired' \subseteq Run
    BY <1>1, <2>0
  <2> QED BY <1>0, <1>1, <2>1 DEF TypeOK, log, history
<1>6. TurnPart'
  BY <1>0, <1>1, <1>3, <1>4, TurnsStay DEF TypeOK, CurrentIsWatched
<1>7. \A t \in Turn : TalentRun(t) \in runs' \cup armed' \cup fired' => Seen(t)
  BY <1>1 DEF Seen
<1>8. TalentPart'
  BY <1>0, <1>1, <1>3, <1>4, <1>7, TalentsQuiet
<1> QED BY <1>5, <1>6, <1>8 DEF IInv

LEMMA StaleTimeoutStep ==
    ASSUME IInv, NEW r \in fired, StaleTimeout(r) PROVE IInv'
<1>0. TypeOK /\ TurnPart /\ TalentPart
  BY DEF IInv
<1>1. /\ ~IsCurrent(r) /\ fired' = fired \ {r}
      /\ UNCHANGED <<post, current, queue, active, armed, jobs, runs, log, history, starting>>
  BY DEF StaleTimeout
<1>3. UNCHANGED <<answered, failed, endings, spawned, deferred, turns, lost, unwritten>>
  BY <1>1 DEF log, history
<1>4. JobsNext({}, {}, turns) /\ \A t \in Turn : Pending(t)' => t \in active'
  BY <1>1, QuietUnchanged
<1>5. TypeOK'
  BY <1>0, <1>1 DEF TypeOK, log, history
<1>6. TurnPart'
  BY <1>0, <1>1, <1>3, <1>4, TurnsStay DEF TypeOK, CurrentIsWatched, IsCurrent
<1>7. \A t \in Turn : TalentRun(t) \in runs' \cup armed' \cup fired' => Seen(t)
  BY <1>1 DEF Seen
<1>8. TalentPart'
  BY <1>0, <1>1, <1>3, <1>4, <1>7, TalentsQuiet
<1> QED BY <1>5, <1>6, <1>8 DEF IInv

LEMMA ChatTimeoutStep ==
    ASSUME IInv, NEW r \in fired, ChatTimeout(r) PROVE IInv'
<1>0. TypeOK /\ TurnPart /\ TalentPart
  BY DEF IInv
<1>1. /\ IsCurrent(r) /\ fired' = fired \ {r}
      /\ failed' = failed \cup {r.turn}
      /\ jobs' = jobs \cup Goes("other", ClearSpawns)
      /\ ClearCurrent(armed) /\ armed \in SUBSET Run
      /\ UNCHANGED <<post, active, runs, trigger, owned, spawned, rootless, deferred,
                     answered, endings, turns, lost, asked, left, unwritten, events, nights,
                     starting>>
  BY <1>0 DEF ChatTimeout, history, TypeOK
<1>2. current # None /\ r.turn = current.turn
  BY <1>1 DEF IsCurrent, ChatRun
<1>3. current.turn \in turns
  BY <1>0, <1>2, CurrentFacts DEF TurnPart, InTurn, InHand
<1>4. /\ current' \in SomeTurn /\ queue' \in Seq(turns) /\ armed' \subseteq Run
      /\ \A x \in armed' : x \in armed \/ x.kind = "chat"
      /\ Orders(ClearSpawns, {}, {}, turns)
  BY <1>0, <1>1, <1>2, ClearFacts DEF TurnPart
<1>5. JobsNext({}, {}, turns) /\ \A t \in Turn : Pending(t)' => t \in active'
  BY <1>1, <1>4, QuietGrow
<1>6. TypeOK'
  BY <1>0, <1>1, <1>2, <1>3, <1>4, <1>5 DEF TypeOK, SomeTurn, JobsNext
<1>7. TurnPart'
  BY <1>0, <1>1, <1>2, <1>5, TurnsClear
<1>8. \A t \in Turn : TalentRun(t) \in runs' \cup armed' \cup fired' => Seen(t)
  BY <1>1, <1>4 DEF Seen, TalentRun
<1>9. TalentPart'
  BY <1>0, <1>1, <1>5, <1>8, TalentsQuiet
<1> QED BY <1>6, <1>7, <1>9 DEF IInv


LEMMA RestartStep == ASSUME IInv, Restart PROVE IInv'
<1>0. TypeOK /\ TurnPart /\ TalentPart
  BY DEF IInv
<1>1. /\ events < MaxEvents /\ events' = events + 1 /\ starting' = TRUE
      /\ post' = [m \in Message |-> IF post[m] \in {"checked", "logged"}
                                    THEN "cut off" ELSE post[m]]
      /\ lost' = turns \ (answered \cup failed)
      /\ current' = None /\ queue' = <<>> /\ jobs' = {}
      /\ active' = {} /\ armed' = {} /\ fired' = {}
      /\ left' = left \cup (active \ (spawned \ rootless))
      /\ UNCHANGED <<runs, log, turns, asked, unwritten, nights>>
  BY DEF Restart
<1>2. UNCHANGED <<trigger, owned, answered, failed, endings, spawned, rootless, deferred>>
  BY <1>1 DEF log
<1>3. /\ answered \subseteq turns /\ failed \subseteq turns /\ lost \subseteq turns
      /\ <<>> \in Seq(turns) /\ DOMAIN <<>> = {}
  <2>1. answered \subseteq turns /\ failed \subseteq turns /\ lost \subseteq turns
    BY <1>0 DEF TypeOK
  <2>2. <<>> \in Seq(turns) /\ DOMAIN <<>> = {}
    OBVIOUS
  <2> QED BY <2>1, <2>2
<1>4. \A a : ~Has(a)'
  BY <1>1 DEF Has
<1>5. JobsNext({}, {}, turns)
  BY <1>1, <1>4 DEF JobsNext, Once
<1>6. TypeOK'
  <2>0. events \in 0..MaxEvents /\ MaxEvents \in Nat
    BY <1>0, ChatAssumption DEF TypeOK
  <2>a. events < MaxEvents /\ events' = events + 1
    BY <1>1
  <2>1. events' \in 0..MaxEvents
    BY <2>a, <2>0
  <2>2. post' \in [Message -> {"new", "checked", "rejected", "logged", "done", "cut off"}]
    BY <1>0, <1>1 DEF TypeOK
  <2>3. lost' \subseteq turns
    BY <1>1
  <2>4. left' \subseteq Turn
    BY <1>0, <1>1 DEF TypeOK
  <2> QED BY <1>0, <1>1, <1>2, <1>3, <2>1, <2>2, <2>3, <2>4 DEF TypeOK
<1>7. \A u : ~InHand(u)'
  BY <1>1, <1>3 DEF InHand
<1>8. TurnPart'
  <2>1. Numbered'
    BY <1>0, <1>1 DEF TurnPart, Numbered, OfTrigger
  <2>2. InTurn'
    BY <1>4, <1>7 DEF InTurn
  <2>3. TurnIsKept'
    <3>1. InLine'
      BY <1>1, <1>3 DEF InLine
    <3>2. \A m \in Message : post'[m] = "done" => post[m] = "done"
      BY <1>1
    <3>3. turns' = {u \in turns' : InHand(u)'} \cup answered' \cup failed' \cup lost'
      BY <1>1, <1>2, <1>3, <1>7
    <3> QED BY <1>0, <1>1, <1>2, <3>1, <3>2, <3>3, KeptStep DEF TurnPart
  <2>4. WatchedUnlessUnwritten'
    BY <1>1 DEF WatchedUnlessUnwritten
  <2> QED BY <2>1, <2>2, <2>3, <2>4 DEF TurnPart
<1>9. TalentPart'
  <2>1. \A t \in Turn : ~Pending(t)'
    BY <1>4 DEF Pending
  <2>2. \A t \in Turn : TalentRun(t) \in runs' \cup armed' \cup fired' => Seen(t)
    BY <1>1 DEF Seen
  <2> QED BY <1>0, <1>1, <1>2, <1>5, <2>1, <2>2, TalentsQuiet
<1> QED BY <1>6, <1>8, <1>9 DEF IInv

LEMMA MidnightStep == ASSUME IInv, Midnight PROVE IInv'
<1>0. TypeOK /\ TurnPart /\ TalentPart
  BY DEF IInv
<1>1. /\ nights < MaxNights /\ nights' = nights + 1
      /\ trigger' = None /\ owned' = FALSE
      /\ spawned' = {} /\ rootless' = {} /\ deferred' = <<>>
      /\ left' = left \cup {t \in asked : Waits(t)} \cup (spawned \ active)
      /\ UNCHANGED <<post, memory, jobs, runs, answered, failed, endings, turns,
                     lost, asked, unwritten, events, starting>>
  BY DEF Midnight
<1>2. UNCHANGED <<current, queue, active, armed, fired>>
  BY <1>1 DEF memory
<1>3. JobsNext({}, {}, turns) /\ \A t \in Turn : Pending(t)' => t \in active'
  BY <1>1, <1>2, QuietUnchanged
<1>4. TypeOK'
  <2>0. nights \in 0..MaxNights /\ MaxNights \in Nat
    BY <1>0, ChatAssumption DEF TypeOK
  <2>1. nights' \in 0..MaxNights
    BY <1>1, <2>0
  <2>2. <<>> \in Seq(Turn)
    OBVIOUS
  <2>3. left' \subseteq Turn
    BY <1>0, <1>1 DEF TypeOK
  <2> QED BY <1>0, <1>1, <1>2, <2>1, <2>2, <2>3 DEF TypeOK
<1>5. TurnPart'
  BY <1>0, <1>1, <1>2, <1>3, TurnsStay DEF TypeOK, CurrentIsWatched
<1>6. \A t \in Turn : TalentRun(t) \in runs' \cup armed' \cup fired' => Seen(t)
  BY <1>1, <1>2 DEF Seen
<1>7. TalentPart'
  BY <1>0, <1>1, <1>2, <1>3, <1>6, TalentsQuiet
<1> QED BY <1>4, <1>5, <1>7 DEF IInv

-----------------------------------------------------------------------------
(* A talent is spawned *)

LEMMA SpawnTalentStep ==
    ASSUME IInv, NEW j \in jobs, SpawnTalent(j) PROVE IInv'
<1> DEFINE a == Head(j.acts)
           h == a.turn
<1>0. TypeOK /\ TurnPart /\ TalentPart /\ Talents /\ Once
  BY DEF IInv, TalentPart
<1>1. /\ a.kind = "talent" /\ runs' = runs \cup {a} /\ jobs' = Rest(j, <<ArmJob(h)>>)
      /\ UNCHANGED <<post, memory, log, history, starting>>
  BY DEF SpawnTalent, Doing
<1>2. UNCHANGED <<post, current, queue, active, armed, fired, turns, answered, failed,
                  lost, unwritten, endings, spawned, deferred, events>>
  BY <1>1 DEF memory, log, history
<1>3. h \in Turn /\ a = TalentRun(h) /\ Pending(h) /\ a \in Run
  <2>1. a \in Act /\ Has(a) /\ h \in Turn
    BY <1>0, HeadFacts
  <2>2. a = TalentRun(h)
    BY <1>1, <2>1 DEF Act, Run, TalentRun
  <2> QED BY <2>1, <2>2, NameFacts DEF Pending
<1>4. Orders(<<ArmJob(h)>>, {}, {h}, turns)
  <2> DEFINE s == <<ArmJob(h)>>
  <2>1. ArmJob(h) \in Act /\ s \in Seq(Act) /\ DOMAIN s = {1} /\ s[1] = ArmJob(h)
    BY <1>3, NameFacts
  <2> HIDE DEF s
  <2>2. Orders(s, {}, {h}, turns)
    BY <2>1 DEF Orders
  <2> QED BY <2>2 DEF s
<1>5. JobsNext({}, {h}, turns) /\ ~Pending(h)'
  <2>1. JobsNext({}, {h}, turns)
        /\ \A t \in Turn \ {} : a = TalentRun(t) => ~Pending(t)'
    BY <1>0, <1>1, <1>4, JobsRest
  <2> QED BY <2>1, <1>3
<1> HIDE DEF a, h
<1>6. TypeOK'
  BY <1>0, <1>1, <1>3, <1>5 DEF TypeOK, memory, log, history, JobsNext
<1>7. TurnPart'
  BY <1>0, <1>2, <1>5, TurnsStay DEF CurrentIsWatched, TypeOK
<1>8. \A t \in Turn : Pending(t)' => Pending(t)
  BY <1>5, NameFacts DEF Pending, JobsNext, TalentRun, ArmJob
<1>9. ASSUME NEW t \in Turn, Seen(t)' PROVE Seen(t) \/ t \in {h}
  <2>1. CASE t = h
    BY <2>1
  <2>2. CASE t # h
    <3>1. Has(ArmJob(t))' => Has(ArmJob(t))
      BY <2>2, <1>5, NameFacts DEF JobsNext, ArmJob
    <3>2. TalentRun(t) # a
      BY <2>2, <1>3, NameFacts
    <3> QED BY <1>1, <1>2, <1>9, <3>1, <3>2 DEF Seen
  <2> QED BY <2>1, <2>2
<1>10. Talents'
  <2>1. \A t : Ended(t)' <=> Ended(t)
    BY <1>2 DEF Ended
  <2>2. \A t : Waits(t)' <=> Waits(t)
    BY <1>2 DEF Waits
  <2>3. \A t \in Turn : Pending(t) => t \in active
    BY <1>0 DEF Talents
  <2>4. \A i, k \in DOMAIN deferred : deferred[i] = deferred[k] => i = k
    BY <1>0 DEF Talents
  <2> DEFINE N == {}
  <2>5. \A t \in Turn : t \notin N
    OBVIOUS
  <2>6. \A t \in Turn : t \in {h} => Engaged(t) /\ ~Pending(t)'
    BY <1>3, <1>5 DEF Engaged
  <2>7. \A t \in Turn : t \in active' \cup spawned' => t \in active \cup spawned \cup N
    BY <1>2
  <2> HIDE DEF N
  <2> QED BY <1>0, <1>2, <1>8, <1>9, <2>1, <2>2, <2>3, <2>4, <2>5, <2>6, <2>7, TalentsStep
<1>11. Once' /\ EndsOnce' /\ IsFiniteSet(spawned)' /\ TalentLimit'
  BY <1>0, <1>2, <1>5 DEF JobsNext, TalentPart, EndsOnce, TalentLimit
<1> QED BY <1>6, <1>7, <1>10, <1>11 DEF IInv, TalentPart


-----------------------------------------------------------------------------
(* A talent ends *)

\* The talent that takes the place of one that ends, if any.
Next1(t) == Promoted(spawned \ {t})
Taken(t) == {Next1(t)[i] : i \in DOMAIN Next1(t)}

\* A set of talents that grows by what there is room for.
LEMMA RoomFacts ==
    ASSUME NEW S, IsFiniteSet(S), NEW N, IsFiniteSet(N), NEW n \in Nat,
           Cardinality(N) <= n, Cardinality(S) + n <= MaxActive
    PROVE  IsFiniteSet(S \cup N) /\ Cardinality(S \cup N) <= MaxActive
<1>1. /\ IsFiniteSet(S \cup N)
      /\ Cardinality(S \cup N) = Cardinality(S) + Cardinality(N) - Cardinality(S \cap N)
  BY FS_Union
<1>2. IsFiniteSet(S \cap N)
  BY FS_Subset
<1>3. Cardinality(S) \in Nat /\ Cardinality(N) \in Nat /\ Cardinality(S \cap N) \in Nat
  BY <1>2, FS_CardinalityType
<1> QED BY <1>1, <1>3, ChatAssumption

LEMMA EndFacts ==
    ASSUME IInv, NEW t \in Turn, NEW how, TalentEnds(t, how)
    PROVE  /\ Taken(t) \subseteq Turn
           /\ \A x \in Taken(t) : Waits(x) /\ ~Waits(x)' /\ ~Engaged(x)
           /\ \A x \in Turn : Waits(x)' => Waits(x)
           /\ deferred' \in Seq(Turn)
           /\ \A i, k \in DOMAIN deferred' : deferred'[i] = deferred'[k] => i = k
           /\ active' = (active \ {t}) \cup Taken(t)
           /\ spawned' = (spawned \ {t}) \cup Taken(t)
           /\ IsFiniteSet(spawned') /\ TalentLimit'
           /\ Orders(EndSpawns(t), Taken(t), {}, turns')
<1> DEFINE next == Next1(t)
           n == Len(next)
           N == Taken(t)
<1>0. TypeOK /\ TurnPart /\ TalentPart /\ Talents
  BY DEF IInv, TalentPart
<1>1. /\ Offer(EndTrigger(t), armed \ {TalentRun(t)})
      /\ Register(next, active \ {t}, spawned \ {t})
      /\ deferred' = SubSeq(deferred, 1 + Len(next), Len(deferred))
  BY DEF TalentEnds, Next1
<1>2. active' = (active \ {t}) \cup N /\ spawned' = (spawned \ {t}) \cup N
  BY <1>1 DEF Register, Taken
<1>3. /\ next \in Seq(Turn) /\ n \in 0..Len(deferred) /\ Len(deferred) \in Nat
      /\ \A i \in 1..n : next[i] = deferred[i]
      /\ n = 0 \/ (n = 1 /\ Room(spawned \ {t}))
  <2>0. deferred \in Seq(Turn)
    BY <1>0 DEF TypeOK
  <2>1. deferred \in Seq(Turn) /\ Len(deferred) \in Nat
    BY <2>0
  <2>2. CASE deferred # <<>> /\ Room(spawned \ {t})
    <3>1. next = <<Head(deferred)>>
      BY <2>2 DEF Next1, Promoted
    <3>2. Head(deferred) \in Turn /\ Head(deferred) = deferred[1] /\ Len(deferred) >= 1
      BY <2>1, <2>2
    <3> QED BY <2>1, <2>2, <3>1, <3>2
  <2>3. CASE ~(deferred # <<>> /\ Room(spawned \ {t}))
    <3>1. next = <<>>
      BY <2>3 DEF Next1, Promoted
    <3> QED BY <2>1, <3>1
  <2> QED BY <2>2, <2>3
<1>4. N = {next[i] : i \in DOMAIN next}
  BY DEF Taken
<1> HIDE DEF next, n, N
<1>5. deferred' = SubSeq(deferred, n + 1, Len(deferred))
  <2>1. 1 + Len(next) = n + 1
    BY <1>3 DEF n
  <2> QED BY <1>1, <2>1
<1>6. /\ N \subseteq Turn /\ IsFiniteSet(N) /\ Cardinality(N) <= n
      /\ \A x \in N : Waits(x) /\ ~Waits(x)'
      /\ \A x \in Turn : Waits(x)' => Waits(x)
      /\ deferred' \in Seq(Turn)
      /\ \A i, k \in DOMAIN deferred' : deferred'[i] = deferred'[k] => i = k
      /\ \A T : Orders(TalentSpawns(next), N, {}, T)
  <2>1. Len(next) = n
    BY DEF n
  <2> QED BY <1>0, <1>3, <1>4, <1>5, <2>1, FirstDeferred
<1>7. \A x \in N : ~Engaged(x)
  BY <1>0, <1>6 DEF Talents
<1>8. Orders(EndSpawns(t), N, {}, turns')
  <2>1. EndTrigger(t) \in Trigger /\ armed \ {TalentRun(t)} \in SUBSET Run
    BY <1>0, NameFacts DEF TypeOK
  <2>2. Orders(OfferSpawns(EndTrigger(t)), {}, {}, turns')
    BY <1>0, <1>1, <2>1, OfferFacts DEF TurnPart
  <2>3. Orders(TalentSpawns(next), N, {}, turns')
    BY <1>6
  <2>4. EndSpawns(t) = OfferSpawns(EndTrigger(t)) \o TalentSpawns(next)
    BY DEF EndSpawns, next, Next1
  <2> QED BY <2>2, <2>3, <2>4, OrdersJoined
<1>9. IsFiniteSet(spawned') /\ TalentLimit'
  <2> DEFINE S == spawned \ {t}
  <2>1. IsFiniteSet(spawned) /\ Cardinality(spawned) <= MaxActive
    BY <1>0 DEF TalentPart, TalentLimit
  <2>2. IsFiniteSet(S) /\ Cardinality(S) <= Cardinality(spawned)
    BY <2>1, FS_Subset
  <2>3. Cardinality(S) \in Nat /\ Cardinality(spawned) \in Nat
    BY <2>1, <2>2, FS_CardinalityType
  <2>4. n = 1 => Cardinality(S) < MaxActive
    BY <1>3 DEF Room
  <2>5. n \in Nat /\ (n = 0 \/ n = 1)
    BY <1>3
  <2> HIDE DEF S
  <2>6. Cardinality(S) + n <= MaxActive
    BY <2>1, <2>2, <2>3, <2>4, <2>5, ChatAssumption
  <2>7. IsFiniteSet(S \cup N) /\ Cardinality(S \cup N) <= MaxActive
    BY <1>6, <2>2, <2>5, <2>6, RoomFacts
  <2> QED BY <1>2, <2>7 DEF S, TalentLimit
<1> QED BY <1>2, <1>6, <1>7, <1>8, <1>9 DEF N

\* The locked section as a whole, whatever led to it.
LEMMA EndStep ==
    ASSUME IInv, NEW t \in Turn, NEW how \in {"reported", "timeout", "unknown"},
           TalentEnds(t, how), t \in active \/ Pending(t),
           JobsNext(Taken(t), {}, turns'), ~Pending(t)',
           runs' \subseteq runs, fired' \subseteq fired,
           \A r \in fired \ fired' : r.kind = "talent"
    PROVE  IInv'
<1> DEFINE g == EndTrigger(t)
           timers == armed \ {TalentRun(t)}
           N == Taken(t)
<1>0. TypeOK /\ TurnPart /\ TalentPart /\ Talents
  BY DEF IInv, TalentPart
<1>1. /\ Offer(g, timers) /\ g \in Trigger /\ timers \in SUBSET Run
      /\ endings' = endings \cup {[talent |-> t, how |-> how]}
      /\ trigger' = g /\ rootless' = rootless \ {t}
      /\ UNCHANGED <<post, owned, answered, failed, lost, asked, left, unwritten, events,
                     nights, starting>>
  BY <1>0, NameFacts DEF TalentEnds, TypeOK
<1>2. /\ N \subseteq Turn
      /\ \A x \in N : Waits(x) /\ ~Waits(x)' /\ ~Engaged(x)
      /\ \A x \in Turn : Waits(x)' => Waits(x)
      /\ deferred' \in Seq(Turn)
      /\ \A i, k \in DOMAIN deferred' : deferred'[i] = deferred'[k] => i = k
      /\ active' = (active \ {t}) \cup N
      /\ spawned' = (spawned \ {t}) \cup N
      /\ IsFiniteSet(spawned') /\ TalentLimit'
  BY EndFacts
<1>3. JobsNext(N, {}, turns')
  OBVIOUS
<1> HIDE DEF g, timers, N
<1>4. /\ NewTurn(g) \in Turn \ turns /\ turns' = turns \cup {NewTurn(g)}
      /\ current' \in SomeTurn /\ queue' \in Seq(turns')
      /\ armed' \subseteq timers \cup {ChatRun(NewTurn(g), 0)} /\ armed' \subseteq Run
  BY <1>0, <1>1, OfferFacts DEF TurnPart
<1>5. TypeOK'
  <2>1. active' \subseteq Turn /\ spawned' \subseteq Turn /\ rootless' \subseteq spawned'
    BY <1>0, <1>1, <1>2 DEF TypeOK
  <2>2. runs' \subseteq Run /\ fired' \subseteq Run
    BY <1>0 DEF TypeOK
  <2>3. endings' \subseteq [talent : Turn, how : {"reported", "timeout", "unknown"}]
    <3>1. endings \subseteq [talent : Turn, how : {"reported", "timeout", "unknown"}]
      BY <1>0 DEF TypeOK
    <3> QED BY <1>1, <3>1
  <2>4. jobs' \subseteq Job
    BY <1>3 DEF JobsNext
  <2> QED BY <1>0, <1>1, <1>2, <1>4, <2>1, <2>2, <2>3, <2>4 DEF TypeOK, SomeTurn
<1>6. TurnPart'
  <2>1. \A u, n : ChatRun(u, n) \in armed \cup fired => ChatRun(u, n) \in timers \cup fired'
    BY DEF ChatRun, TalentRun, timers
  <2>2. \A e \in endings' : e \in endings \/ g = EndTrigger(e.talent)
    BY <1>1 DEF g
  <2> QED BY <1>0, <1>1, <1>3, <2>1, <2>2, TurnsOffer
<1>7. ~Ended(t) /\ Engaged(t)
  BY <1>0 DEF Talents, Engaged
<1>8. EndsOnce'
  <2>1. \A e \in endings : e.talent # t
    BY <1>7 DEF Ended
  <2> QED BY <1>0, <1>1, <2>1 DEF TalentPart, EndsOnce
<1>9. Talents'
  <2>1. t \notin N
    BY <1>2, <1>7
  <2>2. \A x \in Turn : x \in N => x \in answered'
    BY <1>0, <1>1, <1>2 DEF Talents
  <2>3. \A x \in Turn : x \in {t} => Engaged(x) /\ ~Pending(x)' /\ x \notin active' \cup spawned'
    BY <1>2, <1>7, <2>1
  <2>4. ASSUME NEW x \in Turn, Pending(x)'
        PROVE  (Pending(x) \/ x \in N) /\ x \in active'
    <3>1. Pending(x) \/ x \in N
      BY <1>3, <2>4, NameFacts DEF Pending, JobsNext, TalentRun
    <3>2. Pending(x) => x \in active
      BY <1>0 DEF Talents
    <3> QED BY <1>2, <2>4, <3>1, <3>2
  <2>5. ASSUME NEW x \in Turn, Seen(x)' PROVE Seen(x)
    <3>1. Has(ArmJob(x))' => Has(ArmJob(x))
      BY <1>3, NameFacts DEF JobsNext, ArmJob, TalentRun
    <3>2. TalentRun(x) \in armed' => TalentRun(x) \in armed
      BY <1>4 DEF timers, TalentRun, ChatRun
    <3> QED BY <2>5, <3>1, <3>2 DEF Seen
  <2>6. \A x \in Turn : Ended(x)' => Ended(x) \/ x \in {t}
    BY <1>1 DEF Ended
  <2>7. answered \subseteq answered'
    BY <1>1
  <2>8. \A x \in Turn : x \in active' \cup spawned' => x \in active \cup spawned \cup N
    BY <1>2
  <2> DEFINE F == {}
  <2>9. \A x \in Turn : x \notin F
    OBVIOUS
  <2> HIDE DEF F
  <2> QED BY <1>0, <1>2, <2>2, <2>3, <2>4, <2>5, <2>6, <2>7, <2>8, <2>9, TalentsStep
<1>10. Once'
  BY <1>3 DEF JobsNext
<1> QED BY <1>2, <1>5, <1>6, <1>8, <1>9, <1>10 DEF IInv, TalentPart

LEMMA SpawnTalentFailsStep ==
    ASSUME IInv, NEW j \in jobs, SpawnTalentFails(j) PROVE IInv'
<1> DEFINE t == Head(j.acts).turn
<1>0. TypeOK /\ Talents /\ Once
  BY DEF IInv, TalentPart
<1>1. /\ Head(j.acts).kind = "talent" /\ TalentEnds(t, "unknown")
      /\ jobs' = Rest(j, EndSpawns(t)) /\ UNCHANGED <<fired, runs>>
  BY DEF SpawnTalentFails, Doing
<1>2. t \in Turn /\ Head(j.acts) = TalentRun(t) /\ Pending(t)
  <2>1. Head(j.acts) \in Act /\ Has(Head(j.acts)) /\ t \in Turn
    BY <1>0, HeadFacts
  <2>2. Head(j.acts) = TalentRun(t)
    BY <1>1, <2>1 DEF Act, Run, TalentRun
  <2> QED BY <2>1, <2>2 DEF Pending
<1> HIDE DEF t
<1>3. /\ \A x \in Taken(t) : ~Engaged(x)
      /\ Orders(EndSpawns(t), Taken(t), {}, turns')
  BY <1>1, <1>2, EndFacts
<1>4. t \notin Taken(t) /\ \A x \in Taken(t) : ~Pending(x)
  BY <1>2, <1>3 DEF Engaged
<1>5. JobsNext(Taken(t), {}, turns') /\ ~Pending(t)'
  <2>1. /\ JobsNext(Taken(t), {}, turns')
        /\ \A x \in Turn \ Taken(t) : Head(j.acts) = TalentRun(x) => ~Pending(x)'
    BY <1>0, <1>1, <1>3, <1>4, JobsRest
  <2> QED BY <2>1, <1>2, <1>4
<1> QED BY <1>1, <1>2, <1>5, EndStep

\* A talent whose use or watchdog is seen is not about to be spawned.
LEMMA EndSeenStep ==
    ASSUME IInv, NEW t \in Turn, Seen(t), t \in active,
           NEW how \in {"reported", "timeout", "unknown"}, TalentEnds(t, how),
           NEW th \in {"bus", "other"}, jobs' = jobs \cup Goes(th, EndSpawns(t)),
           runs' \subseteq runs, fired' \subseteq fired,
           \A r \in fired \ fired' : r.kind = "talent"
    PROVE  IInv'
<1>0. TypeOK /\ Talents /\ Once
  BY DEF IInv, TalentPart
<1>1. /\ \A x \in Taken(t) : ~Engaged(x)
      /\ Orders(EndSpawns(t), Taken(t), {}, turns')
  BY EndFacts
<1>2. t \notin Taken(t) /\ \A x \in Taken(t) : ~Pending(x)
  BY <1>1 DEF Engaged
<1>3. JobsNext(Taken(t), {}, turns')
  BY <1>0, <1>1, <1>2, JobsGrow
<1>4. ~Pending(t)
  BY <1>0 DEF Talents
<1>5. ~Pending(t)'
  BY <1>2, <1>3, <1>4, NameFacts DEF JobsNext, Pending, TalentRun
<1> QED BY <1>3, <1>5, EndStep

LEMMA TalentReportStep ==
    ASSUME IInv, NEW r \in runs, TalentReport(r) PROVE IInv'
<1>1. /\ r.kind = "talent" /\ r.turn \in active /\ runs' = runs \ {r}
      /\ TalentEnds(r.turn, "reported") /\ fired' = fired
      /\ jobs' = jobs \cup Goes("bus", EndSpawns(r.turn))
  BY DEF TalentReport
<1>2. r \in Run /\ r.turn \in Turn
  BY DEF IInv, TypeOK, Run
<1>3. r = TalentRun(r.turn)
  BY <1>1, <1>2 DEF Run, TalentRun
<1>4. Seen(r.turn)
  BY <1>3 DEF Seen
<1> QED BY <1>1, <1>2, <1>4, EndSeenStep

LEMMA TalentTimeoutStep ==
    ASSUME IInv, NEW r \in fired, TalentTimeout(r) PROVE IInv'
<1>1. /\ r.kind = "talent" /\ r.turn \in active /\ fired' = fired \ {r}
      /\ TalentEnds(r.turn, "timeout") /\ runs' = runs
      /\ jobs' = jobs \cup Goes("other", EndSpawns(r.turn))
  BY DEF TalentTimeout
<1>2. r \in Run /\ r.turn \in Turn
  BY DEF IInv, TypeOK, Run
<1>3. r = TalentRun(r.turn)
  BY <1>1, <1>2 DEF Run, TalentRun
<1>4. Seen(r.turn)
  BY <1>3 DEF Seen
<1> QED BY <1>1, <1>2, <1>4, EndSeenStep


-----------------------------------------------------------------------------
(* A talent is dispatched *)

LEMMA DispatchStep ==
    ASSUME IInv, NEW r \in runs, Dispatch(r) PROVE IInv'
<1> DEFINE t == r.turn
           spawns == IF Room(spawned) THEN <<t>> ELSE <<>>
           N == IF Room(spawned) THEN {t} ELSE {}
<1>0. TypeOK /\ TurnPart /\ TalentPart /\ Talents /\ Once
  BY DEF IInv, TalentPart
<1>1. /\ Reports(r) /\ IsCurrent(r)
      /\ answered' = answered \cup {t} /\ trigger' = None
      /\ ClearCurrent(armed \ {r}) /\ armed \ {r} \in SUBSET Run
      /\ deferred' = IF Room(spawned) THEN deferred ELSE Append(deferred, t)
      /\ rootless' = IF Room(spawned) /\ ~owned THEN rootless \cup {t} ELSE rootless
      /\ jobs' = jobs \cup Goes("bus", ClearSpawns \o TalentSpawns(spawns))
      /\ asked' = asked \cup {t}
      /\ UNCHANGED <<owned, failed, endings, turns, lost, left, unwritten, events, nights>>
  BY <1>0 DEF Dispatch, history, TypeOK
<1>2. /\ UNCHANGED <<post, fired, starting>> /\ runs' \subseteq runs /\ runs' \subseteq Run
      /\ current # None /\ t = current.turn /\ t \in Turn
  BY <1>0, <1>1, ReportFacts
<1>3. t \in turns /\ t \notin answered /\ ~Engaged(t) /\ ~Waits(t)
  BY <1>0, <1>2 DEF TurnPart, InTurn, InHand, Talents
<1>4. active' = active \cup N /\ spawned' = spawned \cup N
  <2>1. Register(spawns, active, spawned)
    BY DEF Dispatch
  <2>2. N = {spawns[i] : i \in DOMAIN spawns}
    OBVIOUS
  <2> HIDE DEF spawns, N
  <2> QED BY <2>1, <2>2 DEF Register
<1>5. Orders(TalentSpawns(spawns), N, {}, turns)
  <2>1. CASE Room(spawned)
    <3> DEFINE s == <<TalentRun(t)>>
    <3>1. TalentRun(t) \in Act /\ TalentRun(t).kind = "talent"
      BY <1>2, NameFacts DEF TalentRun
    <3>2. s \in Seq(Act) /\ DOMAIN s = {1} /\ s[1] = TalentRun(t)
      BY <3>1
    <3>3. TalentSpawns(spawns) = s
      BY <2>1 DEF TalentSpawns
    <3>4. N = {t}
      BY <2>1
    <3> HIDE DEF s, N
    <3>5. Orders(s, N, {}, turns)
      BY <3>1, <3>2, <3>4 DEF Orders
    <3> QED BY <3>3, <3>5
  <2>2. CASE ~Room(spawned)
    <3>1. TalentSpawns(spawns) = <<>>
      BY <2>2 DEF TalentSpawns
    <3> QED BY <3>1, NoOrders
  <2> QED BY <2>1, <2>2
<1>6. /\ deferred' \in Seq(Turn)
      /\ \A i, k \in DOMAIN deferred' : deferred'[i] = deferred'[k] => i = k
      /\ \A x \in Turn : Waits(x)' => Waits(x) \/ (x = t /\ x \notin N)
  <2>0. deferred \in Seq(Turn)
    BY <1>0 DEF TypeOK
  <2>1. /\ Len(deferred) \in Nat /\ DOMAIN deferred = 1..Len(deferred)
        /\ \A i, k \in DOMAIN deferred : deferred[i] = deferred[k] => i = k
        /\ \A i \in DOMAIN deferred : deferred[i] # t
    BY <2>0, <1>0, <1>3 DEF Talents, Waits
  <2>2. CASE Room(spawned)
    BY <2>2, <2>0, <2>1, <1>1 DEF Waits
  <2>3. CASE ~Room(spawned)
    <3>1. deferred' = Append(deferred, t) /\ t \notin N
      BY <2>3, <1>1
    <3> HIDE DEF N
    <3>2. /\ deferred' \in Seq(Turn)
          /\ \A i \in 1..Len(deferred) : deferred'[i] = deferred[i]
          /\ deferred'[Len(deferred) + 1] = t
          /\ Len(deferred') = Len(deferred) + 1
      BY <3>1, <2>0, <1>2
    <3>3. DOMAIN deferred' = DOMAIN deferred \cup {Len(deferred) + 1}
      BY <3>2, <2>1
    <3>4. \A i \in DOMAIN deferred : deferred'[i] = deferred[i] /\ deferred'[i] # t
      BY <3>2, <2>1
    <3>5. \A i \in DOMAIN deferred' : i \in DOMAIN deferred \/ i = Len(deferred) + 1
      BY <3>3
    <3>6. \A i, k \in DOMAIN deferred' : deferred'[i] = deferred'[k] => i = k
      BY <3>2, <3>4, <3>5, <2>1
    <3>7. \A x \in Turn : Waits(x)' => Waits(x) \/ x = t
      BY <3>2, <3>4, <3>5 DEF Waits
    <3> QED BY <3>1, <3>2, <3>6, <3>7
  <2> QED BY <2>2, <2>3
<1>7. IsFiniteSet(spawned') /\ TalentLimit'
  <2>1. IsFiniteSet(spawned) /\ TalentLimit
    BY <1>0 DEF TalentPart
  <2>2. CASE Room(spawned)
    <3>1. Cardinality(spawned) \in Nat /\ Cardinality(spawned) < MaxActive
      BY <2>1, <2>2, FS_CardinalityType DEF Room
    <3>2. spawned' = spawned \cup {t}
      BY <1>4, <2>2
    <3>3. /\ IsFiniteSet(spawned \cup {t})
          /\ Cardinality(spawned \cup {t}) =
                IF t \in spawned THEN Cardinality(spawned) ELSE Cardinality(spawned) + 1
      BY <2>1, FS_AddElement
    <3> QED BY <3>1, <3>2, <3>3, ChatAssumption DEF TalentLimit
  <2>3. CASE ~Room(spawned)
    <3>1. spawned' = spawned
      BY <1>4, <2>3
    <3> QED BY <3>1, <2>1 DEF TalentLimit
  <2> QED BY <2>2, <2>3
<1>8. N \subseteq {t} /\ (Room(spawned) => t \in N)
  OBVIOUS
<1> HIDE DEF t, spawns, N
<1>9. /\ current' \in SomeTurn /\ queue' \in Seq(turns) /\ armed' \subseteq Run
      /\ \A x \in armed' : x \in armed \ {r} \/ x.kind = "chat"
      /\ Orders(ClearSpawns, {}, {}, turns)
  BY <1>0, <1>1, <1>2, ClearFacts DEF TurnPart
<1>10. JobsNext(N, {}, turns)
  <2>1. Orders(ClearSpawns \o TalentSpawns(spawns), N, {}, turns)
    BY <1>5, <1>9, OrdersJoined
  <2>2. \A x \in N : ~Pending(x)
    BY <1>3, <1>8 DEF Engaged
  <2> QED BY <1>0, <1>1, <2>1, <2>2, JobsGrow
<1>11. TypeOK'
  <2>1. active' \subseteq Turn /\ spawned' \subseteq Turn
    BY <1>0, <1>2, <1>4, <1>8 DEF TypeOK
  <2>2. rootless' \subseteq spawned'
    BY <1>0, <1>1, <1>4, <1>8 DEF TypeOK
  <2>3. answered' \subseteq turns' /\ asked' \subseteq turns'
    BY <1>0, <1>1, <1>3 DEF TypeOK
  <2>4. jobs' \subseteq Job
    BY <1>10 DEF JobsNext
  <2> QED BY <1>0, <1>1, <1>2, <1>6, <1>9, <2>1, <2>2, <2>3, <2>4 DEF TypeOK, SomeTurn
<1>12. TurnPart'
  BY <1>0, <1>1, <1>2, <1>10, TurnsClear
<1>13. Talents'
  <2> DEFINE E == {}
  <2>1. \A x \in Turn : x \in N => ~Engaged(x) /\ ~Waits(x)' /\ x \in answered'
    BY <1>1, <1>3, <1>6, <1>8
  <2>2. ASSUME NEW x \in Turn, Pending(x)'
        PROVE  (Pending(x) \/ x \in N) /\ x \in active'
    <3>1. Pending(x) \/ x \in N
      BY <1>10, <2>2, NameFacts DEF Pending, JobsNext, TalentRun
    <3>2. Pending(x) => x \in active
      BY <1>0 DEF Talents
    <3> QED BY <1>4, <3>1, <3>2
  <2>3. ASSUME NEW x \in Turn, Seen(x)' PROVE Seen(x)
    <3>1. Has(ArmJob(x))' => Has(ArmJob(x))
      BY <1>10, NameFacts DEF JobsNext, ArmJob, TalentRun
    <3>2. TalentRun(x) \in armed' => TalentRun(x) \in armed
      BY <1>9 DEF TalentRun
    <3> QED BY <2>3, <1>2, <3>1, <3>2 DEF Seen
  <2>4. \A x \in Turn : (Ended(x)' => Ended(x)) /\ x \notin E
    BY <1>1 DEF Ended
  <2>5. \A x \in Turn : Waits(x)' =>
            Waits(x) \/ (x \in answered' /\ ~Engaged(x) /\ x \notin N)
    BY <1>1, <1>3, <1>6
  <2>6. answered \subseteq answered'
    BY <1>1
  <2>7. \A x \in Turn : x \in active' \cup spawned' => x \in active \cup spawned \cup N
    BY <1>4
  <2> HIDE DEF E
  <2> QED BY <1>0, <1>6, <2>1, <2>2, <2>3, <2>4, <2>5, <2>6, <2>7, TalentsStep
<1>14. Once' /\ EndsOnce'
  BY <1>0, <1>1, <1>10 DEF JobsNext, TalentPart, EndsOnce
<1> QED BY <1>7, <1>11, <1>12, <1>13, <1>14 DEF IInv, TalentPart


-----------------------------------------------------------------------------
(* Recovery *)

LEMMA RecoverStep == ASSUME IInv, Recover PROVE IInv'
<1> DEFINE room == IF Cardinality(spawned) < MaxActive
                   THEN MaxActive - Cardinality(spawned) ELSE 0
           n == IF Len(deferred) < room THEN Len(deferred) ELSE room
           next == SubSeq(deferred, 1, n)
           N == {next[i] : i \in DOMAIN next}
           back == spawned \ rootless
           timers == armed \cup {TalentRun(t) : t \in back \ active}
           wake == current = None /\ trigger # None
           chat == IF wake THEN OfferSpawns(trigger) ELSE <<>>
<1>0. TypeOK /\ TurnPart /\ TalentPart /\ Talents /\ Once
  BY DEF IInv, TalentPart
<1>1. /\ starting \/ events < MaxEvents
      /\ starting' = FALSE
      /\ events' = IF starting THEN events ELSE events + 1
      /\ Register(next, active \cup back, spawned)
      /\ deferred' = SubSeq(deferred, n + 1, Len(deferred))
      /\ IF wake THEN Offer(trigger, timers)
         ELSE armed' = timers /\ UNCHANGED <<current, queue, turns>>
      /\ jobs' = jobs \cup Goes("other", TalentSpawns(next) \o chat)
      /\ UNCHANGED <<post, fired, runs, trigger, owned, rootless, answered,
                     failed, endings, lost, asked, left, unwritten, nights>>
  BY DEF Recover
<1>2. active' = active \cup back \cup N /\ spawned' = spawned \cup N
  BY <1>1 DEF Register
<1>3. /\ deferred \in Seq(Turn) /\ Len(deferred) \in Nat
      /\ room \in Nat /\ n \in 0..Len(deferred) /\ n <= room
      /\ IsFiniteSet(spawned) /\ Cardinality(spawned) + room <= MaxActive
  <2>1. deferred \in Seq(Turn)
    BY <1>0 DEF TypeOK
  <2>2. IsFiniteSet(spawned) /\ Cardinality(spawned) <= MaxActive
    BY <1>0 DEF TalentPart, TalentLimit
  <2>3. Cardinality(spawned) \in Nat
    BY <2>2, FS_CardinalityType
  <2>4. Len(deferred) \in Nat
    BY <2>1
  <2> HIDE DEF next, N, back, timers, wake, chat
  <2> QED BY <2>1, <2>2, <2>3, <2>4, ChatAssumption
<1>4. next \in Seq(Turn) /\ Len(next) = n /\ \A i \in 1..n : next[i] = deferred[i]
  <2>0. n \in Int /\ \A i \in 1..n : deferred[i] \in Turn
    <3>1. n \in Nat /\ n <= Len(deferred)
      BY <1>3
    <3> HIDE DEF n
    <3> QED BY <1>3, <3>1
  <2> HIDE DEF n
  <2>1. /\ SubSeq(deferred, 1, n) \in Seq(Turn)
        /\ Len(SubSeq(deferred, 1, n)) = IF 1 <= n THEN n - 1 + 1 ELSE 0
        /\ \A i \in 1..(n - 1 + 1) : SubSeq(deferred, 1, n)[i] = deferred[1 + i - 1]
    BY <2>0, SubSeqProperties
  <2>2. n \in Nat /\ n - 1 + 1 = n /\ \A i \in 1..n : 1 + i - 1 = i
    BY <1>3
  <2> QED BY <2>1, <2>2
<1>5. N = {next[i] : i \in DOMAIN next}
  OBVIOUS
<1>6. back \subseteq spawned /\ back \subseteq Turn /\ timers \in SUBSET Run
      /\ \A r \in timers : r \in armed \/ \E t \in back \ active : r = TalentRun(t)
  <2>1. spawned \subseteq Turn /\ armed \subseteq Run
    BY <1>0 DEF TypeOK
  <2> HIDE DEF n, next, N, wake, chat
  <2> QED BY <2>1, NameFacts
<1>7. armed \subseteq timers
  OBVIOUS
<1> HIDE DEF room, n, next, N, back, timers, wake, chat
<1>8. /\ N \subseteq Turn /\ IsFiniteSet(N) /\ Cardinality(N) <= n
      /\ \A t \in N : Waits(t) /\ ~Waits(t)'
      /\ \A t \in Turn : Waits(t)' => Waits(t)
      /\ deferred' \in Seq(Turn)
      /\ \A i, k \in DOMAIN deferred' : deferred'[i] = deferred'[k] => i = k
      /\ \A T : Orders(TalentSpawns(next), N, {}, T)
  BY <1>0, <1>1, <1>3, <1>4, <1>5, FirstDeferred
<1>9. \A t \in N : ~Engaged(t) /\ ~Pending(t)
  BY <1>0, <1>8 DEF Talents, Engaged
<1>10. IsFiniteSet(spawned') /\ TalentLimit'
  <2>1. n \in Nat /\ Cardinality(spawned) \in Nat
    BY <1>3, FS_CardinalityType
  <2>2. Cardinality(spawned) + n <= MaxActive
    BY <1>3, <2>1, ChatAssumption
  <2> QED BY <1>2, <1>3, <1>8, <2>1, <2>2, RoomFacts DEF TalentLimit
<1>11. events' \in 0..MaxEvents
  <2>1. events \in 0..MaxEvents /\ MaxEvents \in Nat
    BY <1>0, ChatAssumption DEF TypeOK
  <2>2. events' = events \/ (events < MaxEvents /\ events' = events + 1)
    BY <1>1
  <2> QED BY <2>1, <2>2
<1>12. /\ current' \in SomeTurn /\ queue' \in Seq(turns') /\ turns \subseteq turns'
       /\ turns' \subseteq Turn /\ armed' \subseteq Run
       /\ \A r \in armed' : r \in timers \/ r.kind = "chat"
       /\ Orders(chat, {}, {}, turns')
       /\ JobsNext(N, {}, turns') => TurnPart'
  <2>1. CASE wake
    <3>1. trigger \in Trigger /\ Offer(trigger, timers) /\ chat = OfferSpawns(trigger)
      BY <1>0, <1>1, <2>1 DEF TypeOK, wake, chat
    <3>2. /\ NewTurn(trigger) \in Turn \ turns /\ turns' = turns \cup {NewTurn(trigger)}
          /\ current' \in SomeTurn /\ queue' \in Seq(turns')
          /\ armed' \subseteq timers \cup {ChatRun(NewTurn(trigger), 0)} /\ armed' \subseteq Run
          /\ Orders(OfferSpawns(trigger), {}, {}, turns')
      BY <1>0, <1>6, <3>1, OfferFacts DEF TurnPart
    <3>3. \A r \in armed' : r \in timers \/ r.kind = "chat"
      BY <3>2 DEF ChatRun
    <3>4. ASSUME JobsNext(N, {}, turns') PROVE TurnPart'
      BY <1>0, <1>1, <1>6, <1>7, <3>1, <3>4, TurnsOffer
    <3>5. turns' \subseteq Turn
      BY <1>0, <3>2 DEF TypeOK
    <3> QED BY <3>1, <3>2, <3>3, <3>4, <3>5
  <2>2. CASE ~wake
    <3>1. armed' = timers /\ UNCHANGED <<current, queue, turns>> /\ chat = <<>>
      BY <1>1, <2>2 DEF chat
    <3>2. current \in SomeTurn /\ queue \in Seq(turns) /\ turns \subseteq Turn
      BY <1>0 DEF TypeOK, SomeTurn
    <3>3. ASSUME JobsNext(N, {}, turns') PROVE TurnPart'
      <4>1. JobsNext(N, {}, turns)
        BY <3>1, <3>3
      <4>2. failed' \subseteq turns
        BY <1>0, <1>1 DEF TypeOK
      <4>3. CurrentIsWatched => CurrentIsWatched'
        BY <1>1, <1>7, <3>1 DEF CurrentIsWatched
      <4> QED BY <1>0, <1>1, <3>1, <4>1, <4>2, <4>3, TurnsStay
    <3> QED BY <1>6, <3>1, <3>2, <3>3, NoOrders
  <2> QED BY <2>1, <2>2
<1>13. JobsNext(N, {}, turns')
  <2>1. Orders(TalentSpawns(next) \o chat, N, {}, turns')
    <3>1. Orders(TalentSpawns(next), N, {}, turns')
      BY <1>8
    <3>2. Orders(chat, {}, {}, turns')
      BY <1>12
    <3> QED BY <3>1, <3>2, OrdersJoined
  <2> QED BY <1>0, <1>1, <1>9, <2>1, JobsGrow
<1>14. TypeOK'
  <2>1. /\ active \subseteq Turn /\ spawned \subseteq Turn /\ rootless \subseteq spawned
        /\ answered \subseteq turns /\ failed \subseteq turns
        /\ lost \subseteq turns /\ unwritten \subseteq turns /\ asked \subseteq turns
    BY <1>0 DEF TypeOK
  <2>2. active' \subseteq Turn /\ spawned' \subseteq Turn /\ rootless' \subseteq spawned'
    BY <1>1, <1>2, <1>6, <1>8, <2>1
  <2>3. /\ answered' \subseteq turns' /\ failed' \subseteq turns'
        /\ lost' \subseteq turns' /\ unwritten' \subseteq turns' /\ asked' \subseteq turns'
    BY <1>1, <1>12, <2>1
  <2>4. jobs' \subseteq Job
    BY <1>13 DEF JobsNext
  <2> QED BY <1>0, <1>1, <1>8, <1>11, <1>12, <2>2, <2>3, <2>4 DEF TypeOK, SomeTurn
<1>15. Talents'
  <2> DEFINE F == back \ active
             E == {}
  <2>1. \A t \in Turn : t \in N => ~Engaged(t) /\ ~Waits(t)' /\ t \in answered'
    BY <1>0, <1>1, <1>8, <1>9 DEF Talents
  <2>2. ASSUME NEW t \in Turn, Pending(t)'
        PROVE  (Pending(t) \/ t \in N) /\ t \in active'
    <3>1. Pending(t) \/ t \in N
      BY <1>13, <2>2, NameFacts DEF Pending, JobsNext, TalentRun
    <3>2. Pending(t) => t \in active
      BY <1>0 DEF Talents
    <3> QED BY <1>2, <3>1, <3>2
  <2>3. ASSUME NEW t \in Turn, t \in F PROVE Engaged(t) /\ ~Pending(t)'
    <3>1. t \in spawned /\ t \notin active
      BY <2>3, <1>6
    <3>2. Engaged(t) /\ ~Pending(t)
      BY <1>0, <3>1 DEF Talents, Engaged
    <3> QED BY <3>2, <2>2, <1>9
  <2>4. ASSUME NEW t \in Turn, Seen(t)' PROVE Seen(t) \/ t \in F
    <3>1. Has(ArmJob(t))' => Has(ArmJob(t))
      BY <1>13, NameFacts DEF JobsNext, ArmJob, TalentRun
    <3>2. TalentRun(t) \in armed' => TalentRun(t) \in armed \/ t \in F
      <4>1. TalentRun(t).kind # "chat"
        BY DEF TalentRun
      <4> QED BY <4>1, <1>6, <1>12, NameFacts
    <3> QED BY <2>4, <1>1, <3>1, <3>2 DEF Seen
  <2>5. \A t \in Turn : (Ended(t)' => Ended(t)) /\ t \notin E
    BY <1>1 DEF Ended
  <2>6. answered \subseteq answered'
    BY <1>1
  <2>7. \A t \in Turn : t \in active' \cup spawned' => t \in active \cup spawned \cup N
    BY <1>2, <1>6
  <2> HIDE DEF E, F
  <2> QED BY <1>0, <1>8, <2>1, <2>2, <2>3, <2>4, <2>5, <2>6, <2>7, TalentsStep
<1>16. Once' /\ EndsOnce'
  BY <1>0, <1>1, <1>13 DEF JobsNext, TalentPart, EndsOnce
<1> QED BY <1>10, <1>12, <1>13, <1>14, <1>15, <1>16 DEF IInv, TalentPart

-----------------------------------------------------------------------------
(* Theorems *)

LEMMA InitInv == Init => IInv
<1> SUFFICES ASSUME Init PROVE IInv
  OBVIOUS
<1>1. /\ post = [m \in Message |-> "new"] /\ current = None /\ queue = <<>>
      /\ active = {} /\ armed = {} /\ fired = {} /\ jobs = {} /\ runs = {}
      /\ trigger = None /\ owned = FALSE /\ spawned = {} /\ rootless = {} /\ deferred = <<>>
      /\ answered = {} /\ failed = {} /\ endings = {}
      /\ turns = {} /\ lost = {} /\ asked = {} /\ left = {} /\ unwritten = {}
      /\ starting = FALSE /\ events = 0 /\ nights = 0
  BY DEF Init
<1>2. <<>> \in Seq(turns) /\ <<>> \in Seq(Turn) /\ DOMAIN <<>> = {}
  OBVIOUS
<1>3. IsFiniteSet({}) /\ Cardinality({}) = 0
  BY FS_EmptySet
<1>4. TypeOK
  <2>1. events \in 0..MaxEvents /\ nights \in 0..MaxNights
    BY <1>1, ChatAssumption
  <2> QED BY <1>1, <1>2, <2>1 DEF TypeOK
<1>5. (\A u : ~InHand(u)) /\ \A a : ~Has(a)
  BY <1>1, <1>2 DEF InHand, Has
<1>6. TurnPart
  <2>1. Numbered
    BY <1>1, <1>3 DEF Numbered
  <2>2. InTurn
    BY <1>5 DEF InTurn
  <2>3. TurnIsKept
    BY <1>1, <1>2 DEF TurnIsKept
  <2>4. WatchedUnlessUnwritten
    BY <1>1 DEF WatchedUnlessUnwritten
  <2> QED BY <2>1, <2>2, <2>3, <2>4 DEF TurnPart
<1>7. TalentPart
  <2>1. \A t : ~Engaged(t) /\ ~Waits(t)
    BY <1>1, <1>2, <1>5 DEF Engaged, Waits, Pending, Seen, Ended
  <2>2. Talents
    BY <1>1, <1>2, <1>5, <2>1 DEF Talents, Pending, Engaged
  <2>3. Once /\ EndsOnce
    BY <1>1 DEF Once, EndsOnce
  <2>4. IsFiniteSet(spawned) /\ TalentLimit
    BY <1>1, <1>3, ChatAssumption DEF TalentLimit
  <2> QED BY <2>2, <2>3, <2>4 DEF TalentPart
<1> QED BY <1>4, <1>6, <1>7 DEF IInv

LEMMA StutterInv == ASSUME IInv, UNCHANGED vars PROVE IInv'
<1>1. /\ UNCHANGED <<post, current, queue, active, armed, fired, jobs, runs, trigger,
                     owned, spawned, rootless, deferred>>
      /\ UNCHANGED <<answered, failed, endings, turns, lost, asked, left, unwritten, events,
                     nights, starting>>
  BY DEF vars, memory, log, history
<1>2. TypeOK' /\ TurnPart'
  <2>1. TypeOK'
    BY <1>1 DEF IInv, TypeOK
  <2>2. JobsNext({}, {}, turns)
    BY <1>1, JobsUnchanged DEF IInv, TalentPart
  <2>3. TypeOK /\ TurnPart /\ failed \subseteq turns
    BY DEF IInv, TypeOK
  <2>4. TurnPart'
    BY <1>1, <2>2, <2>3, TurnsStay DEF CurrentIsWatched
  <2> QED BY <2>1, <2>4
<1>3. TalentPart'
  <2>1. JobsNext({}, {}, turns) /\ \A t \in Turn : Pending(t)' => t \in active'
    BY <1>1, QuietUnchanged
  <2>2. \A t \in Turn : TalentRun(t) \in runs' \cup armed' \cup fired' => Seen(t)
    BY <1>1 DEF Seen
  <2> QED BY <1>1, <2>1, <2>2, TalentsQuiet DEF IInv
<1> QED BY <1>2, <1>3 DEF IInv

LEMMA Invariance == Spec => []IInv
<1>1. IInv /\ [Next]_vars => IInv'
  <2> SUFFICES ASSUME IInv, [Next]_vars PROVE IInv'
    OBVIOUS
  <2>1. ASSUME NEW m \in Message, Check(m) \/ Record(m) \/ Post(m) PROVE IInv'
    BY <2>1, CheckStep, RecordStep, PostStep
  <2>2. ASSUME NEW j \in jobs, JobStep(j) PROVE IInv'
    BY <2>2, SpawnChatStep, SpawnChatFailsStep, SpawnTalentStep, SpawnTalentFailsStep,
       ArmStep DEF JobStep
  <2>3. ASSUME NEW r \in runs, Report(r) PROVE IInv'
    BY <2>3, RetryStep, FailStep, ReplyStep, DispatchStep, ReportUnwrittenStep,
       TalentReportStep, DropStep DEF Report
  <2>4. ASSUME NEW r \in armed, Expire(r) PROVE IInv'
    BY <2>4, ExpireStep
  <2>5. ASSUME NEW r \in fired, Watchdog(r) PROVE IInv'
    BY <2>5, ChatTimeoutStep, TalentTimeoutStep, StaleTimeoutStep DEF Watchdog
  <2> QED BY <2>1, <2>2, <2>3, <2>4, <2>5, RecoverStep, RestartStep, MidnightStep,
             StutterInv DEF Next
<1> QED BY <1>1, InitInv, PTL DEF Spec

\* Every variable of the chat runtime keeps its type (chat.py:78-90).
THEOREM TypeCorrect == Spec => []TypeOK
<1>1. IInv => TypeOK
  BY DEF IInv
<1> QED BY <1>1, Invariance, PTL

\* No trigger is forgotten: a turn waits once, is in progress, is answered or
\* failed in the log, or died with the process (chat.py:1167-1179, 1356-1390).
THEOREM Kept == Spec => []TurnIsKept
<1>1. IInv => TurnIsKept
  BY DEF IInv, TurnPart
<1> QED BY <1>1, Invariance, PTL

\* A watchdog runs for the turn in progress, unless the write of its answer
\* failed: with ChatWedged, that failure is the only way to lose it
\* (chat.py:554-558, 1376-1429).
THEOREM Watched == Spec => []WatchedUnlessUnwritten
<1>1. IInv => WatchedUnlessUnwritten
  BY DEF IInv, TurnPart
<1> QED BY <1>1, Invariance, PTL

\* Dispatch, promotion and recovery keep to the limit together
\* (chat.py:651, 1045-1164, 1216-1240).
THEOREM Limited == Spec => []TalentLimit
<1>1. IInv => TalentLimit
  BY DEF IInv, TalentPart
<1> QED BY <1>1, Invariance, PTL

\* A talent's timeout, its report and its failed spawn log one end between
\* them (chat.py:1264-1328, 1506-1562).
THEOREM OneEnd == Spec => []EndsOnce
<1>1. IInv => EndsOnce
  BY DEF IInv, TalentPart
<1> QED BY <1>1, Invariance, PTL

\* An answer is logged for the turn whose use gave it, however late, retried
\* or superseded the report (chat.py:554-558, 735-749).
THEOREM OwnAnswer == Spec => AnswerIsOwn
<1> DEFINE A == \A u \in answered' \ answered :
                   \E r \in runs \ runs' : r.kind = "chat" /\ r.turn = u
<1>1. ASSUME Next PROVE A
  <2>1. ASSUME NEW r \in runs, Reply(r) \/ Dispatch(r) PROVE A
    <3>1. /\ answered' = answered \cup {r.turn}
          /\ runs' = runs \ {r} /\ IsCurrent(r)
      BY <2>1 DEF Reply, Dispatch, Reports
    <3>2. r.kind = "chat"
      BY <3>1 DEF IsCurrent, ChatRun
    <3> QED BY <3>1, <3>2
  <2>2. ASSUME UNCHANGED answered PROVE A
    BY <2>2
  <2>3. CASE \E m \in Message : Check(m) \/ Record(m) \/ Post(m)
    BY <2>2, <2>3 DEF Check, Record, Post, log
  <2>4. CASE \E j \in jobs : JobStep(j)
    <3>1. \A j : SpawnChat(j) \/ SpawnTalent(j) \/ Arm(j) => UNCHANGED answered
      BY DEF SpawnChat, SpawnTalent, Arm, log
    <3>2. \A j : SpawnChatFails(j) \/ SpawnTalentFails(j) => UNCHANGED answered
      BY DEF SpawnChatFails, SpawnTalentFails, TalentEnds
    <3> QED BY <2>2, <2>4, <3>1, <3>2 DEF JobStep
  <2>5. CASE \E r \in runs : Report(r)
    <3>1. \A r : Retry(r) \/ ReportUnwritten(r) \/ Drop(r) => UNCHANGED answered
      BY DEF Retry, ReportUnwritten, Drop, log
    <3>2. \A r : Fail(r) \/ TalentReport(r) => UNCHANGED answered
      BY DEF Fail, TalentReport, TalentEnds
    <3> QED BY <2>1, <2>2, <2>5, <3>1, <3>2 DEF Report
  <2>6. CASE \E r \in armed : Expire(r)
    BY <2>2, <2>6 DEF Expire, log
  <2>7. CASE \E r \in fired : Watchdog(r)
    BY <2>2, <2>7 DEF Watchdog, ChatTimeout, TalentTimeout, StaleTimeout, TalentEnds, log
  <2>8. CASE Recover \/ Restart \/ Midnight
    BY <2>2, <2>8 DEF Recover, Restart, Midnight, log
  <2> QED BY <1>1, <2>3, <2>4, <2>5, <2>6, <2>7, <2>8 DEF Next
<1>2. [Next]_vars => [A]_vars
  BY <1>1
<1> QED BY <1>2, PTL DEF Spec, AnswerIsOwn

-----------------------------------------------------------------------------
(* The watchdogs of the talents and the slots *)

\* A talent that the runtime counts as running is to be spawned, to be armed, or
\* watched: no report that fails to come keeps its slot.
Attended(t) == TalentRun(t) \in armed \cup fired \/ Pending(t) \/ Has(ArmJob(t))
TalentsAreWatched == \A t \in active : Attended(t)

\* What the log shows running, the runtime watches over once it has recovered, but
\* for the talents of a day that has no owner's message.
RunningAreActive == ~starting => spawned \ rootless \subseteq active

\* A talent waits for a slot only while every slot is taken.
NoIdleSlot == deferred # <<>> => Cardinality(spawned) = MaxActive

Slots == RunningAreActive /\ NoIdleSlot

Among(a, acts) == \E i \in DOMAIN acts : acts[i] = a

\* What is among either sequence is among their concatenation.
LEMMA BothJoined ==
    ASSUME NEW S, NEW s \in Seq(S), NEW t \in Seq(S)
    PROVE  \A a : Among(a, s) \/ Among(a, t) => Among(a, s \o t)
<1>1. s \o t \in Seq(S) /\ Len(s \o t) = Len(s) + Len(t)
  BY ConcatProperties
<1>2. /\ DOMAIN (s \o t) = 1..(Len(s) + Len(t)) /\ DOMAIN s = 1..Len(s)
      /\ DOMAIN t = 1..Len(t) /\ Len(s) \in Nat /\ Len(t) \in Nat
  BY <1>1
<1>3. ASSUME NEW i \in DOMAIN s PROVE i \in DOMAIN (s \o t) /\ (s \o t)[i] = s[i]
  <2>1. i \in 1..(Len(s) + Len(t)) /\ i <= Len(s)
    BY <1>2
  <2> QED BY <1>2, <2>1, ConcatProperties
<1>4. ASSUME NEW i \in DOMAIN t
      PROVE  Len(s) + i \in DOMAIN (s \o t) /\ (s \o t)[Len(s) + i] = t[i]
  <2>1. /\ Len(s) + i \in 1..(Len(s) + Len(t)) /\ Len(s) + i > Len(s)
        /\ Len(s) + i - Len(s) = i
    BY <1>2
  <2> QED BY <1>2, <2>1, ConcatProperties
<1>5. ASSUME NEW a, Among(a, s) PROVE Among(a, s \o t)
  BY <1>3, <1>5 DEF Among
<1>6. ASSUME NEW a, Among(a, t) PROVE Among(a, s \o t)
  <2>1. PICK i \in DOMAIN t : t[i] = a
    BY <1>6 DEF Among
  <2>2. Len(s) + i \in DOMAIN (s \o t) /\ (s \o t)[Len(s) + i] = a
    BY <1>4, <2>1
  <2> QED BY <2>2 DEF Among
<1> QED BY <1>5, <1>6

\* Threads keep what they have to do, and get what a locked section decides on.
LEMMA GoesKeeps ==
    ASSUME NEW th, NEW acts, jobs' = jobs \cup Goes(th, acts)
    PROVE  \A a : Has(a) \/ Among(a, acts) => Has(a)'
<1>1. \A a : Has(a) => Has(a)'
  BY DEF Has
<1>2. ASSUME NEW a, Among(a, acts) PROVE Has(a)'
  <2>1. acts # <<>>
    <3>1. DOMAIN <<>> = {}
      OBVIOUS
    <3> QED BY <1>2, <3>1 DEF Among
  <2>2. [thread |-> th, acts |-> acts] \in jobs'
    BY <2>1 DEF Goes
  <2> QED BY <1>2, <2>2 DEF Has, Among
<1> QED BY <1>1, <1>2

\* A sequence of one.
LEMMA OneAmong ==
    ASSUME NEW S, NEW a \in S
    PROVE  <<a>> \in Seq(S) /\ Among(a, <<a>>)
<1>1. 1 \in DOMAIN <<a>> /\ <<a>>[1] = a
  OBVIOUS
<1> QED BY <1>1 DEF Among

LEMMA RestKeeps ==
    ASSUME TypeOK, NEW j \in jobs, NEW acts \in Seq(Act), jobs' = Rest(j, acts)
    PROVE  \A a : (Has(a) /\ a # Head(j.acts)) \/ Among(a, acts) => Has(a)'
<1> DEFINE rest == Tail(j.acts)
           c == acts \o rest
           n == [thread |-> j.thread, acts |-> c]
<1>1. j.acts \in Seq(Act) \ {<<>>}
  BY DEF TypeOK, Job
<1>2. /\ rest \in Seq(Act) /\ Head(j.acts) = j.acts[1]
      /\ \A i \in DOMAIN j.acts : i = 1 \/ (i - 1 \in DOMAIN rest /\ rest[i - 1] = j.acts[i])
  <2>1. j.acts \in Seq(Act) /\ j.acts # <<>> /\ Len(j.acts) \in Nat \ {0}
    BY <1>1, EmptySeq
  <2>2. /\ Tail(j.acts) \in Seq(Act) /\ Len(Tail(j.acts)) = Len(j.acts) - 1
        /\ Head(j.acts) = j.acts[1]
        /\ \A i \in 1..(Len(j.acts) - 1) : Tail(j.acts)[i] = j.acts[i + 1]
    BY <2>1
  <2>3. DOMAIN j.acts = 1..Len(j.acts) /\ DOMAIN Tail(j.acts) = 1..(Len(j.acts) - 1)
    BY <2>1, <2>2
  <2>4. \A i \in DOMAIN j.acts : i # 1 => i - 1 \in 1..(Len(j.acts) - 1) /\ (i - 1) + 1 = i
    BY <2>1, <2>3
  <2> QED BY <2>2, <2>3, <2>4
<1>3. jobs' = (jobs \ {j}) \cup Goes(j.thread, c)
  BY DEF Rest
<1> HIDE DEF rest
<1>4. \A a : Among(a, acts) \/ Among(a, rest) => Among(a, c)
  BY <1>2, BothJoined
<1> HIDE DEF c
<1>5. ASSUME NEW a, Among(a, c) PROVE Has(a)'
  <2>1. c # <<>>
    <3>1. DOMAIN <<>> = {}
      OBVIOUS
    <3> QED BY <1>5, <3>1 DEF Among
  <2>2. n \in jobs'
    BY <1>3, <2>1 DEF Goes
  <2> QED BY <1>5, <2>2 DEF Has, Among
<1>6. ASSUME NEW a, Has(a), a # Head(j.acts) PROVE Has(a)'
  <2>1. PICK l \in jobs : \E i \in DOMAIN l.acts : l.acts[i] = a
    BY <1>6 DEF Has
  <2>2. CASE l # j
    BY <1>3, <2>1, <2>2 DEF Has
  <2>3. CASE l = j
    <3>1. PICK i \in DOMAIN j.acts : j.acts[i] = a
      BY <2>1, <2>3
    <3>2. i - 1 \in DOMAIN rest /\ rest[i - 1] = a
      BY <1>2, <1>6, <3>1
    <3>3. Among(a, rest)
      BY <3>2 DEF Among
    <3> QED BY <1>4, <1>5, <3>3
  <2> QED BY <2>2, <2>3
<1> QED BY <1>4, <1>5, <1>6

\* A turn takes its place in line or is cleared: no other watchdog is cancelled.
LEMMA TimersKept ==
    ASSUME NEW timers
    PROVE  /\ ClearCurrent(timers) => timers \subseteq armed'
           /\ \A g : Offer(g, timers) => timers \subseteq armed'
BY DEF ClearCurrent, Offer, Activate

\* A step that takes up no talent: it leaves the watchdogs of the others alone.
LEMMA WatchedStep ==
    ASSUME TalentsAreWatched, active' \subseteq active,
           \A t \in active : TalentRun(t) \in armed => TalentRun(t) \in armed' \cup fired',
           \A t \in active : TalentRun(t) \in fired => TalentRun(t) \in fired',
           \A t \in active : Pending(t) => Attended(t)',
           \A t \in active : Has(ArmJob(t)) => Attended(t)'
    PROVE  TalentsAreWatched'
BY DEF TalentsAreWatched, Attended

\* A chat turn's step: its watchdog is another one.
LEMMA ChatWatched ==
    ASSUME TalentsAreWatched, active' = active,
           \A r \in armed \ armed' : r.kind = "chat",
           \A r \in fired \ fired' : r.kind = "chat",
           \A a : Has(a) /\ a.kind # "chat" => Has(a)'
    PROVE  TalentsAreWatched'
<1>1. \A t : TalentRun(t).kind = "talent" /\ ArmJob(t).kind = "arm"
  BY DEF TalentRun, ArmJob
<1> QED BY <1>1, WatchedStep DEF Attended, Pending

\* What follows the end of a talent: another takes its slot, if one waits.
LEMMA TakenFacts ==
    ASSUME IInv, NoIdleSlot, NEW t \in Turn, NEW how, TalentEnds(t, how)
    PROVE  /\ NoIdleSlot'
           /\ EndSpawns(t) \in Seq(Act)
           /\ \A x \in Taken(t) : Among(TalentRun(x), EndSpawns(t))
<1> DEFINE next == Next1(t)
           offer == OfferSpawns(EndTrigger(t))
<1>0. /\ deferred \in Seq(Turn) /\ IsFiniteSet(spawned) /\ TypeOK /\ TurnPart
      /\ Cardinality(spawned) \in Nat /\ Cardinality(spawned) <= MaxActive
      /\ MaxActive \in Nat \ {0}
  BY FS_CardinalityType, ChatAssumption DEF IInv, TypeOK, TalentPart, TalentLimit
<1>1. /\ Offer(EndTrigger(t), armed \ {TalentRun(t)})
      /\ spawned' = (spawned \ {t}) \cup Taken(t)
      /\ deferred' = SubSeq(deferred, 1 + Len(next), Len(deferred))
      /\ \A x \in Taken(t) : ~Engaged(x)
  BY EndFacts DEF TalentEnds, Next1
<1>2. \/ next = <<>>
      \/ deferred # <<>> /\ Room(spawned \ {t}) /\ next = <<Head(deferred)>>
  BY DEF Next1, Promoted
<1>3. NoIdleSlot'
  <2>1. CASE deferred = <<>>
    <3>1. next = <<>>
      BY <1>2, <2>1
    <3> HIDE DEF next
    <3>2. deferred' = SubSeq(<<>>, 1, 0)
      BY <1>1, <2>1, <3>1
    <3> QED BY <3>2 DEF NoIdleSlot
  <2>2. CASE deferred # <<>> /\ t \notin spawned
    <3>1. spawned \ {t} = spawned
      BY <2>2
    <3>2. ~Room(spawned \ {t})
      <4>1. ~(Cardinality(spawned) < MaxActive)
        BY <1>0, <2>2 DEF NoIdleSlot
      <4> QED BY <3>1, <4>1 DEF Room
    <3>3. next = <<>>
      BY <1>2, <3>2
    <3>4. Taken(t) = {}
      BY <3>3 DEF Taken
    <3>5. spawned' = spawned
      BY <1>1, <3>1, <3>4
    <3> QED BY <2>2, <3>5 DEF NoIdleSlot
  <2>3. CASE deferred # <<>> /\ t \in spawned
    <3>1. IsFiniteSet(spawned \ {t}) /\ Cardinality(spawned \ {t}) = Cardinality(spawned) - 1
      BY <1>0, <2>3, FS_RemoveElement
    <3>2. next = <<Head(deferred)>>
      BY <1>0, <2>3, <3>1 DEF NoIdleSlot, Room, Next1, Promoted
    <3>3. Taken(t) = {Head(deferred)}
      BY <3>2 DEF Taken
    <3>4. Head(deferred) \notin spawned
      BY <1>1, <3>3 DEF Engaged
    <3> DEFINE P == spawned \ {t}
               d == Head(deferred)
    <3>5. d \notin P /\ IsFiniteSet(P) /\ Cardinality(P) = Cardinality(spawned) - 1
      BY <3>1, <3>4
    <3>6. spawned' = P \cup {d}
      BY <1>1, <3>3
    <3> HIDE DEF P, d
    <3>7. Cardinality(P \cup {d}) = Cardinality(P) + 1
      BY <3>5, FS_AddElement
    <3>8. Cardinality(spawned') = Cardinality(spawned) /\ Cardinality(spawned) = MaxActive
      BY <1>0, <2>3, <3>5, <3>6, <3>7 DEF NoIdleSlot
    <3> QED BY <3>8 DEF NoIdleSlot
  <2> QED BY <2>1, <2>2, <2>3
<1>4. offer \in Seq(Act) /\ EndSpawns(t) = offer \o TalentSpawns(next)
  <2>1. EndTrigger(t) \in Trigger /\ armed \ {TalentRun(t)} \in SUBSET Run
    BY <1>0, NameFacts DEF TypeOK
  <2> QED BY <1>0, <1>1, <2>1, OfferFacts DEF TurnPart, Orders, EndSpawns, Next1
<1>5. /\ TalentSpawns(next) \in Seq(Act)
      /\ \A x \in Taken(t) : Among(TalentRun(x), TalentSpawns(next))
  <2>1. CASE next = <<>>
    <3>1. TalentSpawns(next) = <<>> /\ Taken(t) = {}
      BY <2>1 DEF TalentSpawns, Taken
    <3> QED BY <3>1
  <2>2. CASE deferred # <<>> /\ next = <<Head(deferred)>>
    <3>1. Head(deferred) \in Turn
      BY <1>0, <2>2
    <3>2. TalentSpawns(next) = <<TalentRun(Head(deferred))>> /\ Taken(t) = {Head(deferred)}
      BY <2>2 DEF TalentSpawns, Taken
    <3>3. TalentRun(Head(deferred)) \in Act
      BY <3>1, NameFacts
    <3> QED BY <3>2, <3>3, OneAmong
  <2> QED BY <1>2, <2>1, <2>2
<1> HIDE DEF offer, next
<1>6. /\ EndSpawns(t) \in Seq(Act)
      /\ \A a : Among(a, TalentSpawns(next)) => Among(a, EndSpawns(t))
  <2> DEFINE new == TalentSpawns(next)
  <2>1. offer \in Seq(Act) /\ new \in Seq(Act) /\ EndSpawns(t) = offer \o new
    BY <1>4, <1>5
  <2> HIDE DEF new
  <2>2. offer \o new \in Seq(Act)
    BY <2>1, ConcatProperties
  <2>3. \A a : Among(a, new) => Among(a, offer \o new)
    BY <2>1, BothJoined
  <2> QED BY <2>1, <2>2, <2>3 DEF new
<1> QED BY <1>3, <1>5, <1>6

LEMMA EndKeeps ==
    ASSUME IInv, TalentsAreWatched, Slots, NEW t \in Turn, NEW how, TalentEnds(t, how),
           \A a : Has(a) /\ a # TalentRun(t) => Has(a)',
           \A a : Among(a, EndSpawns(t)) => Has(a)',
           \A r \in fired \ fired' : r = TalentRun(t)
    PROVE  TalentsAreWatched' /\ Slots'
<1>1. /\ active' = (active \ {t}) \cup Taken(t) /\ spawned' = (spawned \ {t}) \cup Taken(t)
      /\ rootless' = rootless \ {t} /\ starting' = starting
      /\ armed \ {TalentRun(t)} \subseteq armed'
  BY EndFacts, TimersKept DEF TalentEnds
<1>2. /\ NoIdleSlot'
      /\ \A x \in Taken(t) : Among(TalentRun(x), EndSpawns(t))
  BY TakenFacts DEF Slots
<1>6. \A x \in Taken(t) : Pending(x)'
  <2>1. \A x \in Taken(t) : Has(TalentRun(x))'
    BY <1>2
  <2> QED BY <2>1 DEF Pending, TalentRun
<1>3. ASSUME NEW x \in active, x # t PROVE Attended(x)'
  <2>1. TalentRun(x) # TalentRun(t) /\ ArmJob(x) # TalentRun(t)
    BY <1>3 DEF TalentRun, ArmJob
  <2>2. Attended(x)
    BY <1>3 DEF TalentsAreWatched
  <2> QED BY <1>1, <2>1, <2>2 DEF Attended, Pending
<1>4. TalentsAreWatched'
  BY <1>1, <1>6, <1>3 DEF TalentsAreWatched, Attended
<1>5. RunningAreActive'
  BY <1>1 DEF Slots, RunningAreActive
<1> QED BY <1>2, <1>4, <1>5 DEF Slots

LEMMA SlotsQuiet ==
    ASSUME Slots, UNCHANGED <<active, spawned, rootless, deferred, starting>>
    PROVE  Slots'
BY DEF Slots, RunningAreActive, NoIdleSlot

\* A thread's next action.
LEMMA JobKeeps ==
    ASSUME IInv, TalentsAreWatched, Slots, NEW j \in jobs, JobStep(j)
    PROVE  TalentsAreWatched' /\ Slots'
<1> DEFINE h == Head(j.acts)
<1> USE DEF memory, log, history
<1>0. TypeOK /\ TurnPart /\ <<>> \in Seq(Act)
  BY DEF IInv
<1>1. h \in Act /\ h.turn \in Turn
  BY <1>0, HeadFacts
<1>2. (h.kind = "talent" => h = TalentRun(h.turn)) /\ (h.kind = "arm" => h = ArmJob(h.turn))
  BY <1>1 DEF Act, Run, TalentRun, ArmJob
<1> HIDE DEF h
<1>3. CASE SpawnChat(j)
  <2>1. h.kind = "chat" /\ jobs' = Rest(j, <<>>)
        /\ UNCHANGED <<active, armed, fired, spawned, rootless, deferred, starting>>
    BY <1>3 DEF SpawnChat, Doing, h
  <2>2. \A a : Has(a) /\ a.kind # "chat" => Has(a)'
    BY <1>0, <2>1, RestKeeps DEF h
  <2> QED BY <2>1, <2>2, ChatWatched, SlotsQuiet
<1>4. CASE SpawnChatFails(j)
  <2>1. /\ h.kind = "chat"
        /\ UNCHANGED <<active, fired, spawned, rootless, deferred, starting>>
        /\ \/ /\ current # None /\ ClearCurrent(armed \ {ChatRun(h.turn, current.try)})
              /\ jobs' = Rest(j, ClearSpawns)
           \/ jobs' = Rest(j, <<>>) /\ armed' = armed
    BY <1>4 DEF SpawnChatFails, Doing, h
  <2>2. \A n : ChatRun(h.turn, n).kind = "chat"
    BY DEF ChatRun
  <2>3. \A r \in armed \ armed' : r.kind = "chat"
    BY <2>1, <2>2, TimersKept
  <2>4. \A a : Has(a) /\ a.kind # "chat" => Has(a)'
    <3>1. CASE /\ current # None /\ ClearCurrent(armed \ {ChatRun(h.turn, current.try)})
               /\ jobs' = Rest(j, ClearSpawns)
      <4>1. armed \ {ChatRun(h.turn, current.try)} \in SUBSET Run
        BY <1>0 DEF TypeOK
      <4>2. ClearSpawns \in Seq(Act)
        BY <1>0, <3>1, <4>1, ClearFacts DEF TurnPart, Orders
      <4> QED BY <1>0, <2>1, <3>1, <4>2, RestKeeps DEF h
    <3>2. CASE jobs' = Rest(j, <<>>)
      BY <1>0, <2>1, <3>2, RestKeeps DEF h
    <3> QED BY <2>1, <3>1, <3>2
  <2> QED BY <2>1, <2>3, <2>4, ChatWatched, SlotsQuiet
<1>5. CASE SpawnTalent(j)
  <2>1. h.kind = "talent" /\ jobs' = Rest(j, <<ArmJob(h.turn)>>)
        /\ UNCHANGED <<active, armed, fired, spawned, rootless, deferred, starting>>
    BY <1>5 DEF SpawnTalent, Doing, h
  <2>2. ArmJob(h.turn) \in Act
    BY <1>1, NameFacts
  <2> DEFINE b == ArmJob(h.turn)
  <2>3. <<b>> \in Seq(Act) /\ Among(b, <<b>>) /\ jobs' = Rest(j, <<b>>)
    BY <2>1, <2>2, OneAmong
  <2> HIDE DEF b
  <2>4. \A a : (Has(a) /\ a # h) \/ a = b => Has(a)'
    BY <1>0, <2>3, RestKeeps DEF h
  <2>5. \A t : Pending(t) => Attended(t)'
    <3>1. \A t : TalentRun(t) = h => b = ArmJob(t)
      BY DEF TalentRun, b
    <3> QED BY <2>4, <3>1 DEF Pending, Attended, TalentRun, ArmJob
  <2>6. \A t : Has(ArmJob(t)) => Attended(t)'
    <3>1. \A t : ArmJob(t) # h
      BY <2>1 DEF ArmJob
    <3> QED BY <2>4, <3>1 DEF Attended
  <2> QED BY <2>1, <2>5, <2>6, WatchedStep, SlotsQuiet
<1>6. CASE SpawnTalentFails(j)
  <2>1. /\ TalentEnds(h.turn, "unknown") /\ jobs' = Rest(j, EndSpawns(h.turn))
        /\ h = TalentRun(h.turn) /\ fired' = fired
    BY <1>2, <1>6 DEF SpawnTalentFails, Doing, h
  <2>2. EndSpawns(h.turn) \in Seq(Act)
    BY <1>1, <2>1, TakenFacts DEF Slots
  <2>3. \A a : (Has(a) /\ a # h) \/ Among(a, EndSpawns(h.turn)) => Has(a)'
    <3> DEFINE acts == EndSpawns(h.turn)
    <3>1. acts \in Seq(Act) /\ jobs' = Rest(j, acts)
      BY <2>1, <2>2
    <3> HIDE DEF acts
    <3>2. \A a : (Has(a) /\ a # h) \/ Among(a, acts) => Has(a)'
      BY <1>0, <3>1, RestKeeps DEF h
    <3> QED BY <3>2 DEF acts
  <2> QED BY <1>1, <2>1, <2>3, EndKeeps
<1>7. CASE Arm(j)
  <2>1. /\ h.kind = "arm" /\ jobs' = Rest(j, <<>>) /\ armed' = armed \cup {TalentRun(h.turn)}
        /\ UNCHANGED <<active, fired, spawned, rootless, deferred, starting>>
    BY <1>7 DEF Arm, Doing, h
  <2>2. \A a : Has(a) /\ a # h => Has(a)'
    BY <1>0, <2>1, RestKeeps DEF h
  <2>3. \A t : Has(ArmJob(t)) => Attended(t)'
    <3>1. \A t : ArmJob(t) = h => h.turn = t
      BY DEF ArmJob
    <3> QED BY <2>1, <2>2, <3>1 DEF Attended
  <2>4. \A t : Pending(t) => Attended(t)'
    <3>1. \A t : TalentRun(t) # h
      BY <2>1 DEF TalentRun
    <3> QED BY <2>2, <3>1 DEF Pending, Attended
  <2> QED BY <2>1, <2>3, <2>4, WatchedStep, SlotsQuiet
<1> QED BY <1>3, <1>4, <1>5, <1>6, <1>7 DEF JobStep

\* A talent is dispatched: it gets a slot that nobody waits for, or waits for one.
LEMMA DispatchKeeps ==
    ASSUME IInv, TalentsAreWatched, Slots, NEW r \in runs, Dispatch(r)
    PROVE  TalentsAreWatched' /\ Slots'
<1> DEFINE t == r.turn
           spawns == IF Room(spawned) THEN <<t>> ELSE <<>>
           N == IF Room(spawned) THEN {t} ELSE {}
<1>0. /\ TypeOK /\ TurnPart
      /\ IsFiniteSet(spawned) /\ Cardinality(spawned) \in Nat
      /\ Cardinality(spawned) <= MaxActive /\ MaxActive \in Nat
  BY FS_CardinalityType, ChatAssumption DEF IInv, TalentPart, TalentLimit
<1>1. /\ Reports(r) /\ IsCurrent(r)
      /\ ClearCurrent(armed \ {r}) /\ armed \ {r} \in SUBSET Run
      /\ deferred' = IF Room(spawned) THEN deferred ELSE Append(deferred, t)
      /\ rootless' = IF Room(spawned) /\ ~owned THEN rootless \cup {t} ELSE rootless
      /\ jobs' = jobs \cup Goes("bus", ClearSpawns \o TalentSpawns(spawns))
      /\ fired' = fired /\ starting' = starting
  BY <1>0 DEF Dispatch, Reports, TypeOK
<1>2. r.kind = "chat" /\ t \in Turn /\ current # None
  BY <1>0, <1>1, ReportFacts
<1>3. active' = active \cup N /\ spawned' = spawned \cup N
  <2>1. Register(spawns, active, spawned)
    BY DEF Dispatch
  <2>2. N = {spawns[i] : i \in DOMAIN spawns}
    OBVIOUS
  <2> HIDE DEF spawns, N
  <2> QED BY <2>1, <2>2 DEF Register
<1>4. /\ TalentSpawns(spawns) \in Seq(Act)
      /\ \A x \in N : Among(TalentRun(x), TalentSpawns(spawns))
  <2>1. CASE Room(spawned)
    <3>1. TalentSpawns(spawns) = <<TalentRun(t)>> /\ N = {t}
      BY <2>1 DEF TalentSpawns
    <3>2. TalentRun(t) \in Act
      BY <1>2, NameFacts
    <3> HIDE DEF t, spawns, N
    <3> QED BY <3>1, <3>2, OneAmong
  <2>2. CASE ~Room(spawned)
    <3>1. TalentSpawns(spawns) = <<>> /\ N = {}
      BY <2>2 DEF TalentSpawns
    <3> HIDE DEF spawns, N
    <3>2. <<>> \in Seq(Act)
      OBVIOUS
    <3> QED BY <3>1, <3>2
  <2> QED BY <2>1, <2>2
<1>5. ClearSpawns \in Seq(Act)
  BY <1>0, <1>1, <1>2, ClearFacts DEF TurnPart, Orders
<1>6. NoIdleSlot'
  <2>1. CASE Room(spawned)
    <3>1. deferred' = <<>>
      BY <1>0, <1>1, <2>1 DEF Room, Slots, NoIdleSlot
    <3> QED BY <3>1 DEF NoIdleSlot
  <2>2. CASE ~Room(spawned)
    <3>1. spawned' = spawned /\ Cardinality(spawned) = MaxActive
      BY <1>0, <1>3, <2>2 DEF Room
    <3> QED BY <3>1 DEF NoIdleSlot
  <2> QED BY <2>1, <2>2
<1>7. RunningAreActive'
  BY <1>1, <1>3 DEF Slots, RunningAreActive
<1> HIDE DEF t, spawns, N
<1>8. \A a : Has(a) \/ Among(a, TalentSpawns(spawns)) => Has(a)'
  <2> DEFINE clear == ClearSpawns
             new == TalentSpawns(spawns)
             c == clear \o new
  <2>1. clear \in Seq(Act) /\ new \in Seq(Act) /\ jobs' = jobs \cup Goes("bus", c)
    BY <1>1, <1>4, <1>5
  <2> HIDE DEF clear, new
  <2>2. \A a : Among(a, new) => Among(a, c)
    BY <2>1, BothJoined
  <2> HIDE DEF c
  <2>3. \A a : Has(a) \/ Among(a, c) => Has(a)'
    BY <2>1, GoesKeeps
  <2> QED BY <2>2, <2>3 DEF new
<1>9. TalentsAreWatched'
  <2>1. \A x : TalentRun(x).kind = "talent"
    BY DEF TalentRun
  <2>2. armed \ {r} \subseteq armed'
    BY <1>1, TimersKept
  <2>3. \A x \in active : Attended(x)'
    BY <1>1, <1>2, <1>8, <2>1, <2>2 DEF TalentsAreWatched, Attended, Pending
  <2>4. \A x \in N : Attended(x)'
    <3>1. \A x \in N : Has(TalentRun(x))'
      BY <1>4, <1>8
    <3> QED BY <3>1 DEF Attended, Pending, TalentRun
  <2> QED BY <1>3, <2>3, <2>4 DEF TalentsAreWatched
<1> QED BY <1>6, <1>7, <1>9 DEF Slots

LEMMA ReportKeeps ==
    ASSUME IInv, TalentsAreWatched, Slots, NEW r \in runs, Report(r)
    PROVE  TalentsAreWatched' /\ Slots'
<1> USE DEF memory, log, history, Reports
<1>0. TypeOK /\ r \in Run
  BY DEF IInv, TypeOK
<1>1. IsCurrent(r) => r.kind = "chat"
  BY DEF IsCurrent, ChatRun
<1>2. CASE Retry(r)
  <2>1. /\ UNCHANGED <<active, fired, spawned, rootless, deferred, starting>>
        /\ r.kind = "chat" /\ armed \ {r} \subseteq armed'
        /\ jobs' = jobs \cup Goes("bus", <<ChatRun(r.turn, 1)>>)
    BY <1>1, <1>2 DEF Retry
  <2>2. \A a : Has(a) => Has(a)'
    BY <2>1, GoesKeeps
  <2> QED BY <2>1, <2>2, ChatWatched, SlotsQuiet
<1>3. CASE Fail(r) \/ Reply(r)
  <2>1. /\ UNCHANGED <<active, fired, spawned, rootless, deferred, starting>>
        /\ r.kind = "chat" /\ ClearCurrent(armed \ {r})
        /\ jobs' = jobs \cup Goes("bus", ClearSpawns)
    BY <1>1, <1>3 DEF Fail, Reply
  <2>2. \A a : Has(a) => Has(a)'
    BY <2>1, GoesKeeps
  <2>3. armed \ {r} \subseteq armed'
    BY <2>1, TimersKept
  <2> QED BY <2>1, <2>2, <2>3, ChatWatched, SlotsQuiet
<1>4. CASE ReportUnwritten(r)
  <2>1. /\ UNCHANGED <<active, fired, jobs, spawned, rootless, deferred, starting>>
        /\ r.kind = "chat" /\ armed' = armed \ {r}
    BY <1>1, <1>4 DEF ReportUnwritten
  <2> QED BY <2>1, ChatWatched, SlotsQuiet DEF Has
<1>5. CASE TalentReport(r)
  <2>1. /\ r.kind = "talent" /\ TalentEnds(r.turn, "reported") /\ fired' = fired
        /\ jobs' = jobs \cup Goes("bus", EndSpawns(r.turn))
    BY <1>5 DEF TalentReport
  <2>2. r.turn \in Turn
    BY <1>0 DEF Run
  <2>3. \A a : Has(a) \/ Among(a, EndSpawns(r.turn)) => Has(a)'
    <3> DEFINE acts == EndSpawns(r.turn)
    <3> HIDE DEF acts
    <3>1. \A a : Has(a) \/ Among(a, acts) => Has(a)'
      BY <2>1, GoesKeeps DEF acts
    <3> QED BY <3>1 DEF acts
  <2> QED BY <2>1, <2>2, <2>3, EndKeeps
<1>6. CASE Drop(r)
  <2>1. UNCHANGED <<active, armed, fired, jobs, spawned, rootless, deferred, starting>>
    BY <1>6 DEF Drop
  <2> QED BY <2>1, ChatWatched, SlotsQuiet DEF Has
<1>7. CASE Dispatch(r)
  BY <1>7, DispatchKeeps
<1> QED BY <1>2, <1>3, <1>4, <1>5, <1>6, <1>7 DEF Report

LEMMA WatchdogKeeps ==
    ASSUME IInv, TalentsAreWatched, Slots, NEW r \in fired, Watchdog(r)
    PROVE  TalentsAreWatched' /\ Slots'
<1> USE DEF log, history
<1>0. TypeOK /\ r \in Run
  BY DEF IInv, TypeOK
<1>1. CASE ChatTimeout(r)
  <2>1. /\ UNCHANGED <<active, spawned, rootless, deferred, starting>>
        /\ r.kind = "chat" /\ fired' = fired \ {r} /\ ClearCurrent(armed)
        /\ jobs' = jobs \cup Goes("other", ClearSpawns)
    BY <1>1 DEF ChatTimeout, IsCurrent, ChatRun
  <2>2. \A a : Has(a) => Has(a)'
    BY <2>1, GoesKeeps
  <2>3. armed \subseteq armed'
    BY <2>1, TimersKept
  <2> QED BY <2>1, <2>2, <2>3, ChatWatched, SlotsQuiet
<1>2. CASE TalentTimeout(r)
  <2>1. /\ r.kind = "talent" /\ TalentEnds(r.turn, "timeout") /\ fired' = fired \ {r}
        /\ jobs' = jobs \cup Goes("other", EndSpawns(r.turn))
    BY <1>2 DEF TalentTimeout
  <2>2. r.turn \in Turn /\ r = TalentRun(r.turn)
    BY <1>0, <2>1 DEF Run, TalentRun
  <2>3. \A a : Has(a) \/ Among(a, EndSpawns(r.turn)) => Has(a)'
    <3> DEFINE acts == EndSpawns(r.turn)
    <3> HIDE DEF acts
    <3>1. \A a : Has(a) \/ Among(a, acts) => Has(a)'
      BY <2>1, GoesKeeps DEF acts
    <3> QED BY <3>1 DEF acts
  <2> QED BY <2>1, <2>2, <2>3, EndKeeps
<1>3. CASE StaleTimeout(r)
  <2>1. /\ UNCHANGED <<active, armed, jobs, spawned, rootless, deferred, starting>>
        /\ r.kind = "talent" => r.turn \notin active
        /\ fired' = fired \ {r}
    BY <1>3 DEF StaleTimeout
  <2>2. \A t \in active : TalentRun(t) # r
    BY <2>1 DEF TalentRun
  <2>3. TalentsAreWatched'
    BY <2>1, <2>2 DEF TalentsAreWatched, Attended, Pending, Has
  <2> QED BY <2>1, <2>3, SlotsQuiet
<1> QED BY <1>1, <1>2, <1>3 DEF Watchdog

\* Recovery never finds a slot that a waiting talent could have had.
LEMMA RecoverFacts ==
    ASSUME IInv, NoIdleSlot, Recover
    PROVE  /\ deferred' = deferred /\ spawned' = spawned
           /\ active' = active \cup (spawned \ rootless)
<1> DEFINE room == IF Cardinality(spawned) < MaxActive
                   THEN MaxActive - Cardinality(spawned) ELSE 0
           n == IF Len(deferred) < room THEN Len(deferred) ELSE room
           next == SubSeq(deferred, 1, n)
           back == spawned \ rootless
<1>0. /\ deferred \in Seq(Turn) /\ Len(deferred) \in Nat
      /\ MaxActive \in Nat /\ IsFiniteSet(spawned) /\ Cardinality(spawned) \in Nat
  <2>1. deferred \in Seq(Turn) /\ IsFiniteSet(spawned) /\ MaxActive \in Nat
    BY ChatAssumption DEF IInv, TypeOK, TalentPart
  <2> QED BY <2>1, FS_CardinalityType
<1>1. /\ Register(next, active \cup back, spawned)
      /\ deferred' = SubSeq(deferred, n + 1, Len(deferred))
  BY DEF Recover
<1>2. n = 0
  <2>1. CASE deferred = <<>>
    BY <1>0, <2>1
  <2>2. CASE deferred # <<>>
    BY <1>0, <2>2 DEF NoIdleSlot
  <2> QED BY <2>1, <2>2
<1> HIDE DEF room, n
<1>3. next = <<>>
  BY <1>2
<1>4. deferred' = deferred
  <2>1. deferred' = SubSeq(deferred, 1, Len(deferred))
    BY <1>1, <1>2
  <2> QED BY <1>0, <2>1
<1>5. active' = active \cup back /\ spawned' = spawned
  <2>1. {next[i] : i \in DOMAIN next} = {}
    <3>1. DOMAIN <<>> = {}
      OBVIOUS
    <3> QED BY <1>3, <3>1
  <2> QED BY <1>1, <2>1 DEF Register
<1> QED BY <1>4, <1>5

\* Recovery takes back every talent but the rootless ones.
LEMMA RecoverKeeps ==
    ASSUME IInv, TalentsAreWatched, Slots, Recover
    PROVE  TalentsAreWatched' /\ Slots'
<1> DEFINE room == IF Cardinality(spawned) < MaxActive
                   THEN MaxActive - Cardinality(spawned) ELSE 0
           n == IF Len(deferred) < room THEN Len(deferred) ELSE room
           back == spawned \ rootless
           timers == armed \cup {TalentRun(t) : t \in back \ active}
           wake == current = None /\ trigger # None
           spawns == TalentSpawns(SubSeq(deferred, 1, n))
                       \o (IF wake THEN OfferSpawns(trigger) ELSE <<>>)
<1>1. /\ starting' = FALSE /\ UNCHANGED <<fired, rootless>>
      /\ Offer(trigger, timers) \/ armed' = timers
      /\ jobs' = jobs \cup Goes("other", spawns)
  BY DEF Recover
<1>2. deferred' = deferred /\ active' = active \cup back /\ spawned' = spawned
  BY RecoverFacts DEF Slots
<1> HIDE DEF spawns, timers
<1>3. timers \subseteq armed'
  BY <1>1, TimersKept
<1>4. \A a : Has(a) => Has(a)'
  BY <1>1, GoesKeeps
<1>5. TalentsAreWatched'
  <2>1. \A t \in active : Attended(t)'
    BY <1>1, <1>3, <1>4 DEF TalentsAreWatched, Attended, Pending, timers
  <2>2. \A t \in back \ active : Attended(t)'
    BY <1>3 DEF Attended, timers
  <2> QED BY <1>2, <2>1, <2>2 DEF TalentsAreWatched
<1>6. Slots'
  BY <1>1, <1>2 DEF Slots, RunningAreActive, NoIdleSlot
<1> QED BY <1>5, <1>6

LEMMA SlotsInvariance == Spec => [](TalentsAreWatched /\ Slots)
<1>1. Init => TalentsAreWatched /\ Slots
  BY DEF Init, TalentsAreWatched, Slots, RunningAreActive, NoIdleSlot
<1>2. IInv /\ TalentsAreWatched /\ Slots /\ [Next]_vars => (TalentsAreWatched /\ Slots)'
  <2> SUFFICES ASSUME IInv, TalentsAreWatched, Slots, [Next]_vars
               PROVE  TalentsAreWatched' /\ Slots'
    OBVIOUS
  <2> USE DEF memory, log, history
  <2>1. ASSUME NEW m \in Message, Check(m) \/ Record(m)
        PROVE  TalentsAreWatched' /\ Slots'
    <3>1. UNCHANGED <<active, armed, fired, jobs, spawned, rootless, deferred, starting>>
      BY <2>1 DEF Check, Record
    <3> QED BY <3>1, ChatWatched, SlotsQuiet DEF Has
  <2>2. ASSUME NEW m \in Message, Post(m) PROVE TalentsAreWatched' /\ Slots'
    <3>1. /\ UNCHANGED <<active, fired, spawned, rootless, deferred, starting>>
          /\ Offer(OwnerTrigger(m), armed)
          /\ jobs' = jobs \cup Goes("other", OfferSpawns(OwnerTrigger(m)))
      BY <2>2 DEF Post
    <3>2. armed \subseteq armed' /\ \A a : Has(a) => Has(a)'
      BY <3>1, TimersKept, GoesKeeps
    <3> QED BY <3>1, <3>2, ChatWatched, SlotsQuiet
  <2>3. ASSUME NEW j \in jobs, JobStep(j) PROVE TalentsAreWatched' /\ Slots'
    BY <2>3, JobKeeps
  <2>4. ASSUME NEW r \in runs, Report(r) PROVE TalentsAreWatched' /\ Slots'
    BY <2>4, ReportKeeps
  <2>5. ASSUME NEW r \in armed, Expire(r) PROVE TalentsAreWatched' /\ Slots'
    <3>1. /\ armed' = armed \ {r} /\ fired' = fired \cup {r}
          /\ UNCHANGED <<active, jobs, spawned, rootless, deferred, starting>>
      BY <2>5 DEF Expire
    <3>2. TalentsAreWatched'
      BY <3>1 DEF TalentsAreWatched, Attended, Pending, Has
    <3> QED BY <3>1, <3>2, SlotsQuiet
  <2>6. ASSUME NEW r \in fired, Watchdog(r) PROVE TalentsAreWatched' /\ Slots'
    BY <2>6, WatchdogKeeps
  <2>7. CASE Restart
    BY <2>7 DEF Restart, TalentsAreWatched, Slots, RunningAreActive, NoIdleSlot
  <2>8. CASE Midnight
    <3>1. TalentsAreWatched'
      BY <2>8 DEF Midnight, TalentsAreWatched, Attended, Pending, Has
    <3> QED BY <2>8, <3>1 DEF Midnight, Slots, RunningAreActive, NoIdleSlot
  <2>9. CASE UNCHANGED vars
    <3>1. UNCHANGED <<active, armed, fired, jobs, spawned, rootless, deferred, starting>>
      BY <2>9 DEF vars
    <3> QED BY <3>1, ChatWatched, SlotsQuiet DEF Has
  <2> QED BY <2>1, <2>2, <2>3, <2>4, <2>5, <2>6, <2>7, <2>8, <2>9, RecoverKeeps DEF Next
<1> QED BY <1>1, <1>2, Invariance, PTL DEF Spec

\* A talent that never reports gives its slot back: somebody is to arm its watchdog,
\* or did (chat.py:1216-1240, 1506-1562).
THEOREM TalentsWatched == Spec => []TalentsAreWatched
BY SlotsInvariance, PTL

\* After a restart the recovery takes back every talent of the log that has an
\* owner's message before it (chat.py:1045-1164).
THEOREM RunningTaken == Spec => []RunningAreActive
BY SlotsInvariance, PTL DEF Slots

\* Whoever gives a slot back hands it on: no talent is left waiting beside a free
\* slot (chat.py:651, 1216-1240).
THEOREM SlotsUsed == Spec => []NoIdleSlot
BY SlotsInvariance, PTL DEF Slots

-----------------------------------------------------------------------------
(* Where a talent is that a turn asked for *)

\* It ended or was left; or it waits for a slot; or the runtime has it, or will have it
\* when it has recovered.
Fate(t) ==
    \/ Ended(t) \/ t \in left \/ Waits(t) \/ t \in active
    \/ starting /\ t \in spawned \ rootless
AskedHasFate == \A t \in asked : Fate(t)

\* The steps that let no talent go without its end.
LEMMA FateQuiet ==
    ASSUME AskedHasFate, asked' = asked, left' = left, starting' = starting,
           \A t : Ended(t) => Ended(t)',
           \A t : Waits(t) => Waits(t)' \/ t \in active',
           \A t \in active : t \in active' \/ Ended(t)',
           \A t \in spawned \ rootless : t \in spawned' \ rootless' \/ Ended(t)'
    PROVE  AskedHasFate'
BY DEF AskedHasFate, Fate

LEMMA FateStands ==
    ASSUME AskedHasFate,
           UNCHANGED <<asked, left, starting, endings, deferred, active, spawned, rootless>>
    PROVE  AskedHasFate'
BY DEF AskedHasFate, Fate, Ended, Waits

\* The end of a talent takes the oldest from the line, or nobody.
LEMMA EndWaits ==
    ASSUME IInv, NEW t \in Turn, NEW how, TalentEnds(t, how), NEW x, Waits(x)
    PROVE  Waits(x)' \/ x \in Taken(t)
<1> DEFINE next == Next1(t)
<1>1. deferred \in Seq(Turn) /\ Len(deferred) \in Nat /\ DOMAIN deferred = 1..Len(deferred)
  <2>1. deferred \in Seq(Turn)
    BY DEF IInv, TypeOK
  <2> QED BY <2>1
<1>2. /\ deferred' = SubSeq(deferred, 1 + Len(next), Len(deferred))
      /\ next = <<>> \/ (deferred # <<>> /\ next = <<Head(deferred)>>)
  BY DEF TalentEnds, Next1, Promoted
<1>3. PICK i \in 1..Len(deferred) : deferred[i] = x
  BY <1>1 DEF Waits
<1>4. CASE next = <<>>
  <2>1. deferred' = SubSeq(deferred, 1, Len(deferred))
    BY <1>2, <1>4
  <2>2. deferred' = deferred
    BY <1>1, <2>1
  <2> QED BY <1>1, <1>3, <2>2 DEF Waits
<1>5. CASE next = <<Head(deferred)>>
  <2>1. CASE i = 1
    <3>1. next[1] = x /\ 1 \in DOMAIN next
      BY <1>1, <1>3, <1>5, <2>1
    <3> QED BY <3>1 DEF Taken
  <2>2. CASE i # 1
    <3>1. deferred' = SubSeq(deferred, 2, Len(deferred))
      BY <1>2, <1>5
    <3>2. Len(deferred') = Len(deferred) - 1 /\ i - 1 \in 1..(Len(deferred) - 1)
      BY <1>1, <1>3, <2>2, <3>1
    <3>3. i - 1 \in DOMAIN deferred' /\ deferred'[i - 1] = x
      BY <1>1, <1>3, <2>2, <3>1, <3>2
    <3> QED BY <3>3 DEF Waits
  <2> QED BY <2>1, <2>2
<1> QED BY <1>2, <1>4, <1>5

LEMMA EndFate ==
    ASSUME IInv, AskedHasFate, NEW t \in Turn, NEW how, TalentEnds(t, how)
    PROVE  AskedHasFate'
<1>1. /\ active' = (active \ {t}) \cup Taken(t) /\ spawned' = (spawned \ {t}) \cup Taken(t)
      /\ \A x \in Taken(t) : ~Engaged(x)
  BY EndFacts
<1>2. /\ endings' = endings \cup {[talent |-> t, how |-> how]} /\ rootless' = rootless \ {t}
      /\ UNCHANGED <<asked, left, starting>>
  BY DEF TalentEnds
<1>3. Ended(t)' /\ \A x : Ended(x) => Ended(x)'
  <2>1. endings \subseteq endings' /\ [talent |-> t, how |-> how] \in endings'
    BY <1>2
  <2>2. [talent |-> t, how |-> how].talent = t
    OBVIOUS
  <2>3. Ended(t)'
    BY <2>1, <2>2 DEF Ended
  <2>4. \A x : Ended(x) => Ended(x)'
    BY <2>1 DEF Ended
  <2> QED BY <2>3, <2>4
<1>4. \A x : Waits(x) => Waits(x)' \/ x \in active'
  BY <1>1, EndWaits
<1>5. \A x \in active : x \in active' \/ Ended(x)'
  BY <1>1, <1>3
<1>6. \A x \in spawned \ rootless : x \in spawned' \ rootless' \/ Ended(x)'
  BY <1>1, <1>2, <1>3
<1> QED BY <1>2, <1>3, <1>4, <1>5, <1>6, FateQuiet

\* A turn asks for a talent: it has a slot, or a place in line.
LEMMA DispatchFate ==
    ASSUME IInv, AskedHasFate, NEW r \in runs, Dispatch(r)
    PROVE  AskedHasFate'
<1> DEFINE t == r.turn
<1>1. /\ asked' = asked \cup {t} /\ UNCHANGED <<endings, left>>
      /\ deferred' = IF Room(spawned) THEN deferred ELSE Append(deferred, t)
      /\ rootless' = IF Room(spawned) /\ ~owned THEN rootless \cup {t} ELSE rootless
      /\ Register(IF Room(spawned) THEN <<t>> ELSE <<>>, active, spawned)
      /\ starting' = starting /\ IsCurrent(r) /\ Reports(r)
  BY DEF Dispatch, Reports
<1>2. deferred \in Seq(Turn) /\ t \in Turn
  BY <1>1, ReportFacts DEF IInv, TypeOK
<1> HIDE DEF t
<1>3. \A x : Ended(x) => Ended(x)'
  BY <1>1 DEF Ended
<1>4. CASE Room(spawned)
  <2>1. active' = active \cup {t} /\ spawned' = spawned \cup {t}
    <3>1. Register(<<t>>, active, spawned)
      BY <1>1, <1>4
    <3>2. {<<t>>[i] : i \in DOMAIN <<t>>} = {t}
      OBVIOUS
    <3> QED BY <3>1, <3>2 DEF Register
  <2> QED BY <1>1, <1>3, <1>4, <2>1 DEF AskedHasFate, Fate, Waits
<1>5. CASE ~Room(spawned)
  <2>1. active' = active /\ spawned' = spawned
    <3>1. Register(<<>>, active, spawned)
      BY <1>1, <1>5
    <3>2. \A ts : DOMAIN ts = {} => {ts[i] : i \in DOMAIN ts} = {}
      OBVIOUS
    <3>3. DOMAIN <<>> = {}
      OBVIOUS
    <3> QED BY <3>1, <3>2, <3>3 DEF Register
  <2>2. /\ DOMAIN deferred' = 1..(Len(deferred) + 1) /\ Len(deferred) \in Nat
        /\ DOMAIN deferred = 1..Len(deferred)
        /\ deferred'[Len(deferred) + 1] = t
        /\ \A i \in 1..Len(deferred) : deferred'[i] = deferred[i]
    BY <1>1, <1>2, <1>5
  <2>3. Waits(t)' /\ \A x : Waits(x) => Waits(x)'
    BY <2>2 DEF Waits
  <2> QED BY <1>1, <1>3, <1>5, <2>1, <2>3 DEF AskedHasFate, Fate
<1> QED BY <1>4, <1>5

\* Recovery finds no free slot that somebody waits for, and takes back what the log shows.
LEMMA RecoverFate ==
    ASSUME IInv, NoIdleSlot, AskedHasFate, Recover
    PROVE  AskedHasFate'
<1>1. /\ UNCHANGED <<asked, left, endings, rootless>>
      /\ deferred' = deferred /\ active' = active \cup (spawned \ rootless)
  BY RecoverFacts DEF Recover
<1> QED BY <1>1 DEF AskedHasFate, Fate, Ended, Waits

LEMMA FateInvariance == Spec => []AskedHasFate
<1>1. Init => AskedHasFate
  BY DEF Init, AskedHasFate
<1>2. IInv /\ NoIdleSlot /\ AskedHasFate /\ [Next]_vars => AskedHasFate'
  <2> SUFFICES ASSUME IInv, NoIdleSlot, AskedHasFate, [Next]_vars PROVE AskedHasFate'
    OBVIOUS
  <2> USE DEF memory, log, history
  <2>0. TypeOK
    BY DEF IInv
  <2>1. ASSUME NEW m \in Message, Check(m) \/ Record(m) \/ Post(m) PROVE AskedHasFate'
    <3>1. UNCHANGED <<asked, left, starting, endings, deferred, active, spawned, rootless>>
      BY <2>1 DEF Check, Record, Post
    <3> QED BY <3>1, FateStands
  <2>2. ASSUME NEW j \in jobs, JobStep(j) PROVE AskedHasFate'
    <3>1. CASE SpawnTalentFails(j)
      <4>1. Head(j.acts).turn \in Turn /\ TalentEnds(Head(j.acts).turn, "unknown")
        BY <2>0, <3>1, HeadFacts DEF SpawnTalentFails
      <4> QED BY <4>1, EndFate
    <3>2. CASE SpawnChat(j) \/ SpawnChatFails(j) \/ SpawnTalent(j) \/ Arm(j)
      <4>1. UNCHANGED <<asked, left, starting, endings, deferred, active, spawned, rootless>>
        BY <3>2 DEF SpawnChat, SpawnChatFails, SpawnTalent, Arm
      <4> QED BY <4>1, FateStands
    <3> QED BY <2>2, <3>1, <3>2 DEF JobStep
  <2>3. ASSUME NEW r \in runs, Report(r) PROVE AskedHasFate'
    <3>1. CASE Dispatch(r)
      BY <3>1, DispatchFate
    <3>2. CASE TalentReport(r)
      <4>1. r.kind = "talent" /\ r \in Run /\ TalentEnds(r.turn, "reported")
        BY <2>0, <3>2 DEF TalentReport, TypeOK
      <4>2. r.turn \in Turn
        BY <4>1 DEF Run
      <4> QED BY <4>1, <4>2, EndFate
    <3>3. CASE Retry(r) \/ Fail(r) \/ Reply(r) \/ ReportUnwritten(r) \/ Drop(r)
      <4>1. UNCHANGED <<asked, left, starting, endings, deferred, active, spawned, rootless>>
        BY <3>3 DEF Retry, Fail, Reply, ReportUnwritten, Drop, Reports
      <4> QED BY <4>1, FateStands
    <3> QED BY <2>3, <3>1, <3>2, <3>3 DEF Report
  <2>4. ASSUME NEW r \in armed, Expire(r) PROVE AskedHasFate'
    <3>1. UNCHANGED <<asked, left, starting, endings, deferred, active, spawned, rootless>>
      BY <2>4 DEF Expire
    <3> QED BY <3>1, FateStands
  <2>5. ASSUME NEW r \in fired, Watchdog(r) PROVE AskedHasFate'
    <3>1. CASE TalentTimeout(r)
      <4>1. r.kind = "talent" /\ r \in Run /\ TalentEnds(r.turn, "timeout")
        BY <2>0, <3>1 DEF TalentTimeout, TypeOK
      <4>2. r.turn \in Turn
        BY <4>1 DEF Run
      <4> QED BY <4>1, <4>2, EndFate
    <3>2. CASE ChatTimeout(r) \/ StaleTimeout(r)
      <4>1. UNCHANGED <<asked, left, starting, endings, deferred, active, spawned, rootless>>
        BY <3>2 DEF ChatTimeout, StaleTimeout
      <4> QED BY <4>1, FateStands
    <3> QED BY <2>5, <3>1, <3>2 DEF Watchdog
  <2>6. CASE Restart
    <3>1. /\ left' = left \cup (active \ (spawned \ rootless)) /\ starting' = TRUE
          /\ UNCHANGED <<asked, endings, deferred, spawned, rootless>>
      BY <2>6 DEF Restart
    <3> QED BY <3>1 DEF AskedHasFate, Fate, Ended, Waits
  <2>7. CASE Midnight
    <3>1. /\ left' = left \cup {t \in asked : Waits(t)} \cup (spawned \ active)
          /\ UNCHANGED <<asked, endings, active>>
      BY <2>7 DEF Midnight
    <3> QED BY <3>1 DEF AskedHasFate, Fate, Ended
  <2>8. CASE UNCHANGED vars
    <3>1. UNCHANGED <<asked, left, starting, endings, deferred, active, spawned, rootless>>
      BY <2>8 DEF vars
    <3> QED BY <3>1, FateStands
  <2> QED BY <2>1, <2>2, <2>3, <2>4, <2>5, <2>6, <2>7, <2>8, RecoverFate DEF Next
<1> QED BY <1>1, <1>2, Invariance, SlotsInvariance, PTL DEF Spec, Slots

\* No talent that a turn asked for is forgotten: until its end is in the log it waits in
\* line while all slots are taken, or the runtime has it with a watchdog, or the recovery
\* of a start that is under way will take it back; only a midnight or a restart leaves
\* one (chat.py:1042-1138, 1216-1353).
NoTalentForgotten ==
    \A t \in asked :
        \/ Ended(t) \/ t \in left
        \/ Waits(t) /\ Cardinality(spawned) = MaxActive
        \/ t \in active /\ Attended(t)
        \/ starting /\ t \in spawned \ rootless
THEOREM TalentsKept == Spec => []NoTalentForgotten
<1>1. AskedHasFate /\ TalentsAreWatched /\ NoIdleSlot => NoTalentForgotten
  <2>1. DOMAIN <<>> = {}
    OBVIOUS
  <2>2. \A t : Waits(t) => deferred # <<>>
    BY <2>1 DEF Waits
  <2> QED BY <2>2 DEF AskedHasFate, Fate, TalentsAreWatched, NoIdleSlot, NoTalentForgotten
<1> QED BY <1>1, FateInvariance, SlotsInvariance, PTL DEF Slots

=============================================================================
