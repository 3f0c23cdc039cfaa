--------------------------- MODULE CallosumProofs ---------------------------
(***************************************************************************)
(* Proofs about Callosum, for any clients, queue sizes and bounds.         *)
(***************************************************************************)
EXTENDS Callosum, SequenceTheorems, TLAPS

-----------------------------------------------------------------------------
(* The inductive invariant *)

\* Nothing has happened on a connection that is not made, and nobody shares one.
Fresh ==
    /\ \A k \in Conns : k > conns =>
          side[k] = "none" /\ up[k] = <<>> /\ down[k] = <<>> /\ sent[k] = <<>>
    /\ \A c \in Clients : conn[c] # None => conn[c] <= conns
    /\ \A c, d \in Clients : conn[c] = conn[d] /\ conn[c] # None => c = d
    /\ writer # None => \A k \in writer.to : side[k] # "none"
    /\ \A k \in dead : side[k] # "none"

LastHeard(c) == IF heard[c] = <<>> THEN 0 ELSE heard[c][Len(heard[c])]

\* On each connection, what follows the end of a line is newer than the line.
Rising(k) ==
    \A i, j \in DOMAIN down[k] :
        i < j /\ down[k][i].half = "tail" => down[k][i].msg < down[k][j].msg

\* A client has heard nothing as new as what its connection still holds, nor
\* what the writer is about to send on it.
Order ==
    /\ \A c \in Clients : LastHeard(c) <= Len(log)
    /\ \A k \in Conns : Rising(k)
    /\ \A k \in Conns : \A i \in DOMAIN down[k] : down[k][i].msg \in DOMAIN log
    /\ \A c \in Clients : conn[c] # None =>
          \A i \in DOMAIN down[conn[c]] : down[conn[c]][i].msg > LastHeard(c)
    /\ writer # None =>
          /\ writer.place = Len(log) /\ log # <<>>
          /\ \A k \in writer.to : \A i \in DOMAIN down[k] :
                down[k][i].msg < writer.place
          /\ \A c \in Clients : conn[c] # None /\ conn[c] \in writer.to =>
                LastHeard(c) < writer.place

\* A client's messages are numbered, and those that it has sent came before
\* those in its queue.
Queued ==
    \A c \in Clients :
        /\ \A i \in DOMAIN sendq[c] :
              sendq[c][i].from = c /\ sendq[c][i].n <= emitted[c]
        /\ \A i, j \in DOMAIN sendq[c] : i < j => sendq[c][i].n < sendq[c][j].n

Sent ==
    /\ \A k \in Conns : \A m \in Elements(sent[k]) :
          /\ m.n <= emitted[m.from]
          /\ \A i \in DOMAIN sendq[m.from] : m.n < sendq[m.from][i].n
          /\ \A c \in Clients : conn[c] = k => m.from = c
    /\ \A k \in Conns : \A m, n \in Elements(sent[k]) : m.from = n.from
    /\ \A k, l \in Conns : \A m \in Elements(sent[k]) :
          m \in Elements(sent[l]) => k = l

\* The lines that the server has not read are in the order of sending.
Unread ==
    \A k \in Conns : \A i \in DOMAIN up[k] :
        up[k][i].half = "tail" =>
            /\ up[k][i].msg \in Elements(sent[k])
            /\ \A j \in DOMAIN up[k] :
                  i < j /\ up[k][j].half = "tail" => up[k][i].msg.n < up[k][j].msg.n

\* What is broadcast or to be broadcast was sent before what is unread.
Stream == log \o bq

Broadcast ==
    /\ \A i \in DOMAIN Stream : \E k \in Conns : Stream[i] \in Elements(sent[k])
    /\ \A k \in Conns : \A i \in DOMAIN Stream : Stream[i] \in Elements(sent[k]) =>
          /\ \A j \in DOMAIN Stream : i < j /\ Stream[j] \in Elements(sent[k]) =>
                Stream[i].n < Stream[j].n
          /\ \A j \in DOMAIN up[k] :
                up[k][j].half = "tail" => Stream[i].n < up[k][j].msg.n

IInv == TypeOK /\ Fresh /\ Order
OInv == Queued /\ Sent /\ Unread /\ Broadcast

-----------------------------------------------------------------------------
(* Lemmas about sequences and lines *)

LEMMA AppendFacts ==
    ASSUME NEW S, NEW s \in Seq(S), NEW x \in S
    PROVE  /\ Append(s, x) \in Seq(S) /\ Len(s) \in Nat
           /\ DOMAIN s = 1 .. Len(s) /\ DOMAIN Append(s, x) = 1 .. Len(s) + 1
           /\ Len(Append(s, x)) = Len(s) + 1
           /\ \A i \in 1 .. Len(s) : Append(s, x)[i] = s[i]
           /\ Append(s, x)[Len(s) + 1] = x
OBVIOUS

LEMMA TailFacts ==
    ASSUME NEW S, NEW s \in Seq(S), s # <<>>
    PROVE  /\ Head(s) \in S /\ Head(s) = s[1] /\ 1 \in DOMAIN s
           /\ Tail(s) \in Seq(S) /\ Len(s) \in Nat
           /\ DOMAIN s = 1 .. Len(s) /\ DOMAIN Tail(s) = 1 .. Len(s) - 1
           /\ \A i \in 1 .. Len(s) - 1 : Tail(s)[i] = s[i + 1]
           /\ \A i \in DOMAIN Tail(s) : i + 1 \in DOMAIN s /\ Tail(s)[i] = s[i + 1]
OBVIOUS

LEMMA AppendToOne ==
    ASSUME NEW S, NEW x \in S, NEW y \in S
    PROVE  Append(<<x>>, y) = <<x, y>>
<1>1. <<x>> \in Seq(S) /\ Len(<<x>>) = 1 /\ <<x>>[1] = x
  OBVIOUS
<1>2. <<x, y>> \in Seq(S) /\ Len(<<x, y>>) = 2 /\ <<x, y>>[1] = x /\ <<x, y>>[2] = y
  OBVIOUS
<1>3. /\ Append(<<x>>, y) \in Seq(S) /\ Len(Append(<<x>>, y)) = 2
      /\ Append(<<x>>, y)[1] = x /\ Append(<<x>>, y)[2] = y
  <2>1. 1 \in 1 .. 1
    OBVIOUS
  <2> QED BY <1>1, <2>1, AppendFacts
<1>4. \A i \in 1 .. 2 : Append(<<x>>, y)[i] = <<x, y>>[i]
  <2>1. \A i \in 1 .. 2 : i = 1 \/ i = 2
    OBVIOUS
  <2> QED BY <1>2, <1>3, <2>1
<1> QED BY <1>2, <1>3, <1>4, SeqEqual

\* A line is added as two parts, the second of which ends it.
LEMMA LineFacts ==
    ASSUME NEW M, NEW s \in Seq(Parts(M)), NEW m \in M
    PROVE  /\ s \o Line(m) \in Seq(Parts(M)) /\ Len(s) \in Nat
           /\ DOMAIN s = 1 .. Len(s) /\ DOMAIN (s \o Line(m)) = 1 .. Len(s) + 2
           /\ \A i \in 1 .. Len(s) : (s \o Line(m))[i] = s[i]
           /\ (s \o Line(m))[Len(s) + 1] = Part(m, "head")
           /\ (s \o Line(m))[Len(s) + 2] = Part(m, "tail")
<1>1. Part(m, "head") \in Parts(M) /\ Part(m, "tail") \in Parts(M)
  BY DEF Part, Parts, Half
<1> QED BY <1>1 DEF Line

\* The same of what the writer adds.
LEMMA PlaceLineFacts ==
    ASSUME NEW s \in Seq(Parts(Nat)), NEW m \in Nat
    PROVE  /\ s \o Line(m) \in Seq(Parts(Nat)) /\ Len(s) \in Nat
           /\ Len(s \o Line(m)) = Len(s) + 2
           /\ DOMAIN s = 1 .. Len(s) /\ DOMAIN (s \o Line(m)) = 1 .. Len(s) + 2
           /\ \A i \in 1 .. Len(s) : (s \o Line(m))[i] = s[i]
           /\ (s \o Line(m))[Len(s) + 1] = Part(m, "head")
           /\ (s \o Line(m))[Len(s) + 2] = Part(m, "tail")
<1>1. Len(s \o Line(m)) = Len(s) + 2
  BY DEF Line
<1> QED BY <1>1, LineFacts

LEMMA MessageFacts ==
    /\ \A m \in Message : m.from \in Clients /\ m.n \in Nat
    /\ \A c \in Clients : \A i \in 1 .. MaxEmits[c] : [from |-> c, n |-> i] \in Message
<1>1. \A m \in Message : m.from \in Clients /\ m.n \in Nat
  <2> TAKE m \in Message
  <2>1. PICK c \in Clients : m \in [from : {c}, n : 1 .. MaxEmits[c]]
    BY DEF Message
  <2>2. MaxEmits[c] \in Nat
    BY CallosumAssumption
  <2> QED BY <2>1, <2>2
<1>2. ASSUME NEW c \in Clients, NEW i \in 1 .. MaxEmits[c]
      PROVE  [from |-> c, n |-> i] \in Message
  BY DEF Message
<1> QED BY <1>1, <1>2

-----------------------------------------------------------------------------
(* Type correctness *)

LEMMA TypeInit == Init => TypeOK
BY CallosumAssumption DEF Init, TypeOK, Sides

LEMMA TypeStep == TypeOK /\ [Next]_vars => TypeOK'
<1> SUFFICES ASSUME TypeOK, [Next]_vars PROVE TypeOK'
  OBVIOUS
<1> USE CallosumAssumption
<1>1. ASSUME NEW c \in Clients, Emit(c) PROVE TypeOK'
  <2>1. sendq[c] \in Seq(Message) /\ emitted[c] \in Nat /\ emitted[c] < MaxEmits[c]
    BY <1>1 DEF Emit, TypeOK
  <2>2. [from |-> c, n |-> emitted[c] + 1] \in Message
    BY <2>1, MessageFacts
  <2>3. Append(sendq[c], [from |-> c, n |-> emitted[c] + 1]) \in Seq(Message)
    BY <2>1, <2>2
  <2>4. sendq' \in [Clients -> Seq(Message)] /\ emitted' \in [Clients -> Nat]
    <3>1. emitted' = [emitted EXCEPT ![c] = @ + 1] /\ emitted \in [Clients -> Nat]
      BY <1>1 DEF Emit, TypeOK
    <3>2. sendq' = [sendq EXCEPT ![c] =
              IF Len(@) < SendMax
              THEN Append(@, [from |-> c, n |-> emitted[c] + 1]) ELSE @]
      BY <1>1 DEF Emit
    <3>3. sendq \in [Clients -> Seq(Message)]
      BY DEF TypeOK
    <3> QED BY <2>1, <2>3, <3>1, <3>2, <3>3
  <2> QED BY <1>1, <2>4 DEF Emit, TypeOK, server
<1>2. ASSUME NEW c \in Clients, Connect(c) PROVE TypeOK'
  <2>1. conns + 1 \in Conns /\ conns' \in 0..MaxConns
    BY <1>2 DEF Connect, TypeOK, Conns
  <2> QED BY <1>2, <2>1 DEF Connect, TypeOK, Sides
<1>3. ASSUME NEW c \in Clients, sendq[c] # <<>>
      PROVE  Head(sendq[c]) \in Message /\ Tail(sendq[c]) \in Seq(Message)
  BY <1>3 DEF TypeOK
<1>4. ASSUME NEW c \in Clients, Drop(c) PROVE TypeOK'
  BY <1>3, <1>4 DEF Drop, TypeOK, server
<1>5. ASSUME NEW c \in Clients, Send(c) PROVE TypeOK'
  <2>1. PICK k \in Conns : k = conn[c]
    BY <1>5 DEF Send, TypeOK
  <2>2. Head(sendq[c]) \in Message /\ Tail(sendq[c]) \in Seq(Message)
    BY <1>3, <1>5 DEF Send
  <2>3. /\ up[k] \o Line(Head(sendq[c])) \in Seq(Parts(Message))
        /\ Append(sent[k], Head(sendq[c])) \in Seq(Message)
    <3>1. up[k] \in Seq(Parts(Message)) /\ sent[k] \in Seq(Message)
      BY <2>1 DEF TypeOK
    <3>2. up[k] \o Line(Head(sendq[c])) \in Seq(Parts(Message))
      BY <2>2, <3>1, LineFacts
    <3> QED BY <2>2, <3>1, <3>2
  <2> QED BY <1>5, <2>1, <2>2, <2>3 DEF Send, TypeOK, server
<1>6. ASSUME NEW c \in Clients, SendFails(c) PROVE TypeOK'
  <2>1. PICK k \in Conns : k = conn[c]
    BY <1>6 DEF SendFails, TypeOK
  <2>2. Head(sendq[c]) \in Message /\ Tail(sendq[c]) \in Seq(Message)
    BY <1>3, <1>6 DEF SendFails
  <2>3. Append(up[k], Part(Head(sendq[c]), "head")) \in Seq(Parts(Message))
    <3>1. Part(Head(sendq[c]), "head") \in Parts(Message)
      BY <2>2 DEF Part, Parts, Half
    <3> QED BY <2>1, <3>1 DEF TypeOK
  <2>4. up' \in [Conns -> Seq(Parts(Message))] /\ faults' \in 0..MaxFaults
    <3>1. faults' \in 0..MaxFaults
      <4>1. faults' = faults \/ (faults < MaxFaults /\ faults' = faults + 1)
        BY <1>6 DEF SendFails
      <4> QED BY <4>1 DEF TypeOK
    <3>2. \/ up' = up
          \/ up' = [up EXCEPT ![k] = Append(@, Part(Head(sendq[c]), "head"))]
      BY <1>6, <2>1 DEF SendFails
    <3>3. up \in [Conns -> Seq(Parts(Message))]
      BY DEF TypeOK
    <3> QED BY <2>3, <3>1, <3>2, <3>3
  <2> QED BY <1>6, <2>2, <2>4 DEF SendFails, TypeOK, server
<1>7. ASSUME NEW c \in Clients, Receive(c) PROVE TypeOK'
  <2>1. PICK k \in Conns : k = conn[c]
    BY <1>7 DEF Receive, TypeOK
  <2>2. down[k] # <<>> /\ down[k] \in Seq(Parts(Nat))
    BY <1>7, <2>1 DEF Receive, TypeOK
  <2>3. /\ Head(down[k]) \in Parts(Nat) /\ Tail(down[k]) \in Seq(Parts(Nat))
        /\ Head(down[k]).msg \in Nat
    <3>1. Head(down[k]) \in Parts(Nat) /\ Tail(down[k]) \in Seq(Parts(Nat))
      BY <2>2
    <3> QED BY <3>1 DEF Parts
  <2>4. /\ Append(cbuf[c], Head(down[k])) \in Seq(Parts(Nat))
        /\ Append(heard[c], Head(down[k]).msg) \in Seq(Nat)
    BY <2>3 DEF TypeOK
  <2>5. down' \in [Conns -> Seq(Parts(Nat))]
    BY <1>7, <2>1, <2>3 DEF Receive, TypeOK
  <2>6. cbuf' \in [Clients -> Seq(Parts(Nat))] /\ heard' \in [Clients -> Seq(Nat)]
    <3>1. cbuf' = [cbuf EXCEPT ![c] = Append(cbuf[c], Head(down[k]))]
          \/ cbuf' = [cbuf EXCEPT ![c] = <<>>]
      BY <1>7, <2>1 DEF Receive
    <3>2. heard' = [heard EXCEPT ![c] = Append(@, Head(down[k]).msg)] \/ heard' = heard
      BY <1>7, <2>1 DEF Receive
    <3>3. <<>> \in Seq(Parts(Nat))
      OBVIOUS
    <3>4. cbuf' \in [Clients -> Seq(Parts(Nat))]
      BY <2>4, <3>1, <3>3 DEF TypeOK
    <3>5. heard' \in [Clients -> Seq(Nat)]
      BY <2>4, <3>2 DEF TypeOK
    <3> QED BY <3>4, <3>5
  <2> QED BY <1>7, <2>5, <2>6 DEF Receive, TypeOK, server
<1>8. ASSUME NEW c \in Clients, ReceiveEnd(c) PROVE TypeOK'
  BY <1>8 DEF ReceiveEnd, TypeOK, server
<1>9. ASSUME NEW c \in Clients, Leave(c) PROVE TypeOK'
  BY <1>9 DEF Leave, TypeOK, server
<1>10. ASSUME NEW k \in Conns, Accept(k) \/ ReadEnd(k) PROVE TypeOK'
  BY <1>10 DEF Accept, ReadEnd, TypeOK, client, Sides
<1>11. ASSUME NEW k \in Conns, Read(k) PROVE TypeOK'
  <2>1. up[k] # <<>> /\ up[k] \in Seq(Parts(Message))
    BY <1>11 DEF Read, TypeOK
  <2>2. /\ Head(up[k]) \in Parts(Message) /\ Tail(up[k]) \in Seq(Parts(Message))
        /\ Head(up[k]).msg \in Message
    <3>1. Head(up[k]) \in Parts(Message) /\ Tail(up[k]) \in Seq(Parts(Message))
      BY <2>1
    <3> QED BY <3>1 DEF Parts
  <2>3. /\ Append(sbuf[k], Head(up[k])) \in Seq(Parts(Message))
        /\ Append(bq, Head(up[k]).msg) \in Seq(Message)
    BY <2>2 DEF TypeOK
  <2>4. up' \in [Conns -> Seq(Parts(Message))]
    BY <1>11, <2>2 DEF Read, TypeOK
  <2>5. sbuf' \in [Conns -> Seq(Parts(Message))]
    <3>1. sbuf' = [sbuf EXCEPT ![k] = Append(sbuf[k], Head(up[k]))]
          \/ sbuf' = [sbuf EXCEPT ![k] = <<>>]
      BY <1>11 DEF Read
    <3>2. sbuf \in [Conns -> Seq(Parts(Message))] /\ <<>> \in Seq(Parts(Message))
      BY DEF TypeOK
    <3> QED BY <2>3, <3>1, <3>2
  <2>6. bq' \in Seq(Message)
    <3>1. bq' = bq \/ bq' = Append(bq, Head(up[k]).msg)
      BY <1>11 DEF Read
    <3> QED BY <2>3, <3>1 DEF TypeOK
  <2> QED BY <1>11, <2>4, <2>5, <2>6 DEF Read, TypeOK, client
<1>12. CASE Pop
  <2>1. Head(bq) \in Message /\ Tail(bq) \in Seq(Message)
    BY <1>12 DEF Pop, TypeOK
  <2>2. Append(log, Head(bq)) \in Seq(Message) /\ Len(log) + 1 \in Nat
    BY <2>1 DEF TypeOK
  <2>3. writer' \in [place : Nat, to : SUBSET Conns]
    BY <1>12, <2>2 DEF Pop
  <2> QED BY <1>12, <2>1, <2>2, <2>3 DEF Pop, TypeOK, client
<1>13. ASSUME NEW k \in Conns, writer # None, Written(k)
       PROVE  writer' \in [place : Nat, to : SUBSET Conns]
  BY <1>13 DEF Written, TypeOK
<1>14. ASSUME NEW k \in Conns, Write(k) PROVE TypeOK'
  <2>1. writer.place \in Nat
    BY <1>14 DEF Write, TypeOK
  <2>2. down[k] \o Line(writer.place) \in Seq(Parts(Nat))
    BY <2>1, LineFacts DEF TypeOK
  <2>3. writer' \in [place : Nat, to : SUBSET Conns]
    BY <1>13, <1>14 DEF Write
  <2> QED BY <1>14, <2>2, <2>3 DEF Write, TypeOK, client
<1>15. ASSUME NEW k \in Conns, WriteFails(k) PROVE TypeOK'
  <2>1. writer.place \in Nat
    BY <1>15 DEF WriteFails, TypeOK
  <2>2. Append(down[k], Part(writer.place, "head")) \in Seq(Parts(Nat))
    BY <2>1 DEF TypeOK, Part, Parts, Half
  <2>3. writer' \in [place : Nat, to : SUBSET Conns]
    BY <1>13, <1>15 DEF WriteFails
  <2>4. down' \in [Conns -> Seq(Parts(Nat))] /\ faults' \in 0..MaxFaults
    <3>1. faults' \in 0..MaxFaults
      BY <1>15 DEF WriteFails, TypeOK
    <3>2. \/ down' = down
          \/ down' = [down EXCEPT ![k] = Append(@, Part(writer.place, "head"))]
      BY <1>15 DEF WriteFails
    <3>3. down \in [Conns -> Seq(Parts(Nat))]
      BY DEF TypeOK
    <3> QED BY <2>2, <3>1, <3>2, <3>3
  <2> QED BY <1>15, <2>3, <2>4 DEF WriteFails, TypeOK, client, Sides
<1>16. CASE WriterDone \/ ServerStarts
  BY <1>16 DEF WriterDone, ServerStarts, TypeOK, client, Sides
<1>17. CASE ServerStops
  <2>1. side' \in [Conns -> Sides] /\ faults' \in 0..MaxFaults
    BY <1>17 DEF ServerStops, TypeOK, Sides
  <2>2. /\ running' = FALSE /\ bq' = <<>> /\ writer' = None /\ dead' = {}
        /\ UNCHANGED <<emitted, alive, sendq, conn, cbuf, conns, up, down, sbuf,
                       log, heard, sent>>
    BY <1>17 DEF ServerStops, client
  <2>3. bq' \in Seq(Message)
    BY <2>2
  <2> QED BY <2>1, <2>2, <2>3 DEF TypeOK
<1>18. CASE UNCHANGED vars
  BY <1>18 DEF vars, TypeOK
<1> QED
  BY <1>1, <1>2, <1>4, <1>5, <1>6, <1>7, <1>8, <1>9, <1>10, <1>11, <1>12, <1>14,
     <1>15, <1>16, <1>17, <1>18 DEF Next, Loop, Server

-----------------------------------------------------------------------------
(* One order for all *)

LEMMA FreshStep == TypeOK /\ Fresh /\ [Next]_vars => Fresh'
<1> SUFFICES ASSUME TypeOK, Fresh, [Next]_vars PROVE Fresh'
  OBVIOUS
<1> USE CallosumAssumption
<1>1. ASSUME UNCHANGED <<conns, side, writer, dead>>,
             \A c \in Clients : conn'[c] = conn[c] \/ conn'[c] = None,
             \A k \in Conns : k > conns =>
                up'[k] = up[k] /\ down'[k] = down[k] /\ sent'[k] = sent[k]
      PROVE  Fresh'
  BY <1>1 DEF Fresh
<1>2. ASSUME NEW c \in Clients, Emit(c) \/ Drop(c) \/ ReceiveEnd(c) \/ Leave(c)
      PROVE  Fresh'
  BY <1>1, <1>2 DEF Emit, Drop, ReceiveEnd, Leave, server, TypeOK
<1>3. ASSUME NEW c \in Clients, Connect(c) PROVE Fresh'
  <2>1. conns + 1 \in Conns /\ conns \in Nat
    BY <1>3 DEF Connect, TypeOK, Conns
  <2>2. /\ conns' = conns + 1 /\ conn'[c] = conns + 1 /\ side'[conns + 1] = "backlog"
        /\ \A d \in Clients : d # c => conn'[d] = conn[d]
        /\ \A k \in Conns : k # conns + 1 => side'[k] = side[k]
        /\ UNCHANGED <<up, down, sent, writer, dead>>
    BY <1>3, <2>1 DEF Connect, TypeOK
  <2>3. \A d \in Clients : conn[d] # None => conn[d] \in Nat /\ conn[d] <= conns
    BY DEF Fresh, TypeOK, Conns
  <2>4. \A k \in Conns : k \in Nat
    BY DEF Conns
  <2>5. dead \subseteq Conns /\ (writer # None => writer.to \subseteq Conns)
    BY DEF TypeOK
  <2>6. \A k \in Conns : k > conns' =>
           side'[k] = "none" /\ up'[k] = <<>> /\ down'[k] = <<>> /\ sent'[k] = <<>>
    BY <2>1, <2>2, <2>4 DEF Fresh
  <2>7. \A d \in Clients : conn'[d] # None => conn'[d] <= conns'
    BY <2>1, <2>2, <2>3
  <2>8. \A d, e \in Clients : conn'[d] = conn'[e] /\ conn'[d] # None => d = e
    BY <2>1, <2>2, <2>3 DEF Fresh
  <2>9. /\ writer' # None => \A k \in writer'.to : side'[k] # "none"
        /\ \A k \in dead' : side'[k] # "none"
    BY <2>1, <2>2, <2>5 DEF Fresh
  <2> QED BY <2>6, <2>7, <2>8, <2>9 DEF Fresh
<1>4. ASSUME NEW c \in Clients, Send(c) \/ SendFails(c) \/ Receive(c) PROVE Fresh'
  <2>1. PICK k \in Conns : k = conn[c] /\ k <= conns
    BY <1>4 DEF Send, SendFails, Receive, TypeOK, Fresh
  <2>2. k \in Nat /\ conns \in Nat
    BY DEF TypeOK, Conns
  <2>3. \A l \in Conns : l # k =>
          up'[l] = up[l] /\ down'[l] = down[l] /\ sent'[l] = sent[l]
    BY <1>4, <2>1 DEF Send, SendFails, Receive, TypeOK
  <2>4. /\ UNCHANGED <<conns, side, writer, dead>>
        /\ \A d \in Clients : conn'[d] = conn[d] \/ conn'[d] = None
    BY <1>4 DEF Send, SendFails, Receive, server, TypeOK
  <2>5. \A l \in Conns : l > conns => l # k
    BY <2>1, <2>2
  <2> QED BY <1>1, <2>3, <2>4, <2>5
<1>5. ASSUME NEW k \in Conns, side[k] # "none" \/ up[k] # <<>>,
             UNCHANGED <<conns, conn, sent>>,
             \A l \in Conns : l # k =>
                side'[l] = side[l] /\ up'[l] = up[l] /\ down'[l] = down[l],
             side'[k] = side[k] \/ side'[k] # "none",
             writer' # None => writer # None /\ writer'.to \subseteq writer.to,
             dead' \subseteq dead \cup {k}, side[k] # "none" \/ dead' = dead
      PROVE  Fresh'
  <2>1. ~(k > conns)
    BY <1>5 DEF Fresh
  <2> QED BY <1>5, <2>1 DEF Fresh, TypeOK
<1>6. ASSUME NEW k \in Conns, Accept(k) \/ Read(k) \/ ReadEnd(k) PROVE Fresh'
  BY <1>5, <1>6 DEF Accept, Read, ReadEnd, client, TypeOK
<1>7. ASSUME NEW k \in Conns, Write(k) \/ WriteFails(k) PROVE Fresh'
  <2>1. writer # None /\ k \in writer.to /\ side[k] # "none"
    BY <1>7 DEF Write, WriteFails, Fresh
  <2>2. writer' # None => writer'.to \subseteq writer.to
    BY <1>7, <2>1 DEF Write, WriteFails, Written, TypeOK
  <2> QED BY <1>5, <1>7, <2>1, <2>2 DEF Write, WriteFails, client, TypeOK
<1>8. CASE Pop
  BY <1>8 DEF Pop, Fresh, client
<1>9. CASE WriterDone \/ ServerStarts
  BY <1>9 DEF WriterDone, ServerStarts, Fresh, client
<1>10. CASE ServerStops
  BY <1>10 DEF ServerStops, Fresh, client
<1>11. CASE UNCHANGED vars
  BY <1>1, <1>11 DEF vars
<1> QED
  BY <1>2, <1>3, <1>4, <1>6, <1>7, <1>8, <1>9, <1>10, <1>11 DEF Next, Loop, Server

\* A chunk is taken from the front of what the client has not read; its line, if
\* it is heard, is newer than all the client has heard.
LEMMA ReceiveFacts ==
    ASSUME TypeOK, Order, NEW c \in Clients, Receive(c)
    PROVE  \E k \in Conns :
             /\ k = conn[c] /\ down[k] # <<>> /\ down[k] \in Seq(Parts(Nat))
             /\ down' = [down EXCEPT ![k] = Tail(down[k])]
             /\ \/ UNCHANGED heard
                \/ /\ Head(down[k]).half = "tail"
                   /\ heard' = [heard EXCEPT ![c] = Append(@, Head(down[k]).msg)]
             /\ Head(down[k]).msg \in DOMAIN log
             /\ Head(down[k]).msg > LastHeard(c)
             /\ UNCHANGED <<conn, log, writer>>
<1>1. PICK k \in Conns : k = conn[c]
  BY DEF Receive, TypeOK
<1>2. down[k] # <<>> /\ down[k] \in Seq(Parts(Nat))
  BY <1>1 DEF Receive, TypeOK
<1>3. Head(down[k]) = down[k][1] /\ 1 \in DOMAIN down[k] /\ Head(down[k]) \in Parts(Nat)
  BY <1>2, TailFacts
<1>4. Head(down[k]).half # "head" => Head(down[k]).half = "tail"
  BY <1>3 DEF Parts, Half
<1>5. /\ Head(down[k]).msg \in DOMAIN log
      /\ Head(down[k]).msg > LastHeard(c)
  <2>1. conn[c] # None /\ 1 \in DOMAIN down[conn[c]]
    BY <1>1, <1>3, CallosumAssumption DEF Conns
  <2> QED BY <1>1, <1>3, <2>1 DEF Order
<1> QED BY <1>1, <1>2, <1>4, <1>5 DEF Receive, server

LEMMA OrderStep == TypeOK /\ Fresh /\ Order /\ [Next]_vars => Order'
<1> SUFFICES ASSUME TypeOK, Fresh, Order, [Next]_vars PROVE Order'
  OBVIOUS
<1>1. ASSUME UNCHANGED <<heard, down, log>>, writer' = writer \/ writer' = None,
             \A c \in Clients : \/ conn'[c] = None \/ conn'[c] = conn[c]
                                \/ /\ conn'[c] \in Conns /\ down[conn'[c]] = <<>>
                                   /\ writer # None => conn'[c] \notin writer.to
      PROVE  Order'
  <2>1. \A c \in Clients : LastHeard(c)' = LastHeard(c)
    BY <1>1 DEF LastHeard
  <2>2. \A k \in Conns : Rising(k)'
    BY <1>1 DEF Order, Rising
  <2>3. \A c \in Clients : conn'[c] # None =>
          \A i \in DOMAIN down'[conn'[c]] : down'[conn'[c]][i].msg > LastHeard(c)'
    BY <1>1, <2>1 DEF Order
  <2>4. ASSUME writer' # None
        PROVE  \A c \in Clients : conn'[c] # None /\ conn'[c] \in writer'.to =>
                  LastHeard(c)' < writer'.place
    BY <1>1, <2>1, <2>4 DEF Order
  <2>5. /\ \A c \in Clients : LastHeard(c)' <= Len(log')
        /\ \A k \in Conns : \A i \in DOMAIN down'[k] : down'[k][i].msg \in DOMAIN log'
    BY <1>1, <2>1 DEF Order
  <2>6. ASSUME writer' # None
        PROVE  /\ writer'.place = Len(log') /\ log' # <<>>
               /\ \A k \in writer'.to : \A i \in DOMAIN down'[k] :
                     down'[k][i].msg < writer'.place
    BY <1>1, <2>6 DEF Order
  <2> QED BY <2>2, <2>3, <2>4, <2>5, <2>6 DEF Order
<1>2. ASSUME NEW c \in Clients,
             Emit(c) \/ Drop(c) \/ Send(c) \/ SendFails(c) \/ ReceiveEnd(c) \/ Leave(c)
      PROVE  Order'
  BY <1>1, <1>2
  DEF Emit, Drop, Send, SendFails, ReceiveEnd, Leave, server, TypeOK
<1>3. ASSUME NEW c \in Clients, Connect(c) PROVE Order'
  <2>1. conns + 1 \in Conns /\ conns + 1 > conns
    BY <1>3, CallosumAssumption DEF Connect, TypeOK, Conns
  <2>2. down[conns + 1] = <<>> /\ side[conns + 1] = "none"
    BY <2>1 DEF Fresh
  <2>3. writer # None => conns + 1 \notin writer.to
    BY <2>2 DEF Fresh
  <2>4. \A d \in Clients : conn'[d] = conn[d] \/ conn'[d] = conns + 1
    BY <1>3 DEF Connect, TypeOK
  <2> QED BY <1>1, <1>3, <2>1, <2>2, <2>3, <2>4 DEF Connect
<1>4. ASSUME NEW c \in Clients, Receive(c) PROVE Order'
  <2>1. PICK k \in Conns :
             /\ k = conn[c] /\ down[k] # <<>> /\ down[k] \in Seq(Parts(Nat))
             /\ down' = [down EXCEPT ![k] = Tail(down[k])]
             /\ \/ UNCHANGED heard
                \/ /\ Head(down[k]).half = "tail"
                   /\ heard' = [heard EXCEPT ![c] = Append(@, Head(down[k]).msg)]
             /\ Head(down[k]).msg \in DOMAIN log
             /\ Head(down[k]).msg > LastHeard(c)
             /\ UNCHANGED <<conn, log, writer>>
    BY <1>4, ReceiveFacts
  <2>2. /\ Head(down[k]) = down[k][1] /\ 1 \in DOMAIN down[k]
        /\ down'[k] = Tail(down[k])
        /\ DOMAIN down[k] = 1 .. Len(down[k]) /\ Len(down[k]) \in Nat
        /\ DOMAIN down'[k] = 1 .. Len(down[k]) - 1
        /\ \A i \in DOMAIN down'[k] :
             i + 1 \in DOMAIN down[k] /\ down'[k][i] = down[k][i + 1]
        /\ \A l \in Conns : l # k => down'[l] = down[l]
    BY <2>1, TailFacts DEF TypeOK
  <2>3. \A d \in Clients : d # c => LastHeard(d)' = LastHeard(d)
    BY <2>1 DEF LastHeard, TypeOK
  <2>4. \/ LastHeard(c)' = LastHeard(c)
        \/ Head(down[k]).half = "tail" /\ LastHeard(c)' = Head(down[k]).msg
    <3>1. CASE UNCHANGED heard
      BY <3>1 DEF LastHeard
    <3>2. CASE /\ Head(down[k]).half = "tail"
               /\ heard' = [heard EXCEPT ![c] = Append(@, Head(down[k]).msg)]
      <4>1. heard[c] \in Seq(Nat) /\ Head(down[k]).msg \in Nat
        <5>1. Head(down[k]) \in Parts(Nat)
          BY <2>1
        <5> QED BY <5>1 DEF TypeOK, Parts
      <4>2. heard'[c] = Append(heard[c], Head(down[k]).msg)
        BY <3>2 DEF TypeOK
      <4>3. heard'[c] # <<>> /\ heard'[c][Len(heard'[c])] = Head(down[k]).msg
        BY <4>1, <4>2, AppendProperties
      <4> QED BY <3>2, <4>3 DEF LastHeard
    <3> QED BY <2>1, <3>1, <3>2
  <2>5. \A l \in Conns : \A i \in DOMAIN down'[l] :
          \E j \in DOMAIN down[l] : down'[l][i] = down[l][j]
    <3> TAKE l \in Conns
    <3>1. CASE l = k
      BY <2>2, <3>1
    <3>2. CASE l # k
      BY <2>2, <3>2
    <3> QED BY <3>1, <3>2
  <2>6. \A d \in Clients : LastHeard(d)' <= Len(log')
    <3>1. DOMAIN log = 1 .. Len(log) /\ Len(log) \in Nat
      BY DEF TypeOK
    <3> QED BY <2>1, <2>3, <2>4, <3>1 DEF Order
  <2>7. ASSUME NEW l \in Conns PROVE Rising(l)'
    <3>1. CASE l = k
      <4> SUFFICES ASSUME NEW i \in DOMAIN down'[k], NEW j \in DOMAIN down'[k],
                          i < j, down'[k][i].half = "tail"
                   PROVE  down'[k][i].msg < down'[k][j].msg
        BY <3>1 DEF Rising
      <4>1. i + 1 \in DOMAIN down[k] /\ j + 1 \in DOMAIN down[k] /\ i + 1 < j + 1
        BY <2>2
      <4>2. down[k][i + 1].half = "tail"
        BY <2>2
      <4>3. down[k][i + 1].msg < down[k][j + 1].msg
        BY <4>1, <4>2 DEF Order, Rising
      <4> QED BY <2>2, <4>3
    <3>2. CASE l # k
      BY <2>2, <3>2 DEF Order, Rising
    <3> QED BY <3>1, <3>2
  <2>8. \A l \in Conns : \A i \in DOMAIN down'[l] : down'[l][i].msg \in DOMAIN log'
    <3> TAKE l \in Conns
    <3> TAKE i \in DOMAIN down'[l]
    <3>1. PICK j \in DOMAIN down[l] : down'[l][i] = down[l][j]
      BY <2>5
    <3> QED BY <2>1, <3>1 DEF Order
  <2>9. ASSUME NEW d \in Clients, conn'[d] # None, NEW i \in DOMAIN down'[conn'[d]]
        PROVE  down'[conn'[d]][i].msg > LastHeard(d)'
    <3>1. conn'[d] = conn[d] /\ conn[d] \in Conns
      BY <2>1, <2>9 DEF TypeOK
    <3>2. PICK j \in DOMAIN down[conn[d]] : down'[conn[d]][i] = down[conn[d]][j]
      BY <2>5, <2>9, <3>1
    <3>3. down[conn[d]][j].msg > LastHeard(d)
      BY <2>9, <3>1 DEF Order
    <3>4. CASE d # c \/ LastHeard(c)' = LastHeard(c)
      BY <2>3, <3>1, <3>2, <3>3, <3>4
    <3>5. CASE /\ d = c /\ Head(down[k]).half = "tail"
               /\ LastHeard(c)' = Head(down[k]).msg
      <4>1. i + 1 \in DOMAIN down[k] /\ down'[k][i] = down[k][i + 1] /\ 1 < i + 1
        BY <2>1, <2>2, <3>1, <3>5
      <4>2. down[k][1].msg < down[k][i + 1].msg
        BY <2>2, <3>5, <4>1 DEF Order, Rising
      <4>3. down[k][1].msg \in Nat /\ down[k][i + 1].msg \in Nat
        <5>1. DOMAIN log = 1 .. Len(log) /\ Len(log) \in Nat
          BY DEF TypeOK
        <5> QED BY <2>2, <4>1, <5>1 DEF Order
      <4> QED BY <2>1, <2>2, <3>1, <3>5, <4>1, <4>2, <4>3
    <3> QED BY <2>4, <3>4, <3>5
  <2>10. ASSUME writer' # None
         PROVE  /\ writer'.place = Len(log')
                /\ \A l \in writer'.to : \A i \in DOMAIN down'[l] :
                      down'[l][i].msg < writer'.place
                /\ \A d \in Clients : conn'[d] # None /\ conn'[d] \in writer'.to =>
                      LastHeard(d)' < writer'.place
    <3>1. writer' = writer /\ writer # None /\ writer.to \subseteq Conns
      BY <2>1, <2>10 DEF TypeOK
    <3>2. \A l \in writer.to : \A i \in DOMAIN down'[l] : down'[l][i].msg < writer.place
      BY <2>5, <3>1 DEF Order
    <3>3. k \in writer.to => Head(down[k]).msg < writer.place
      BY <2>2, <3>1 DEF Order
    <3>4. ASSUME NEW d \in Clients, conn'[d] # None, conn'[d] \in writer'.to
          PROVE  LastHeard(d)' < writer'.place
      <4>1. conn[d] # None /\ conn[d] \in writer.to /\ writer'.place = writer.place
        BY <2>1, <3>1, <3>4
      <4>2. LastHeard(d) < writer.place
        BY <3>1, <4>1 DEF Order
      <4>3. CASE LastHeard(d)' = LastHeard(d)
        BY <4>1, <4>2, <4>3
      <4>4. CASE d = c /\ LastHeard(c)' = Head(down[k]).msg
        BY <2>1, <3>3, <4>1, <4>4
      <4> QED BY <2>3, <2>4, <4>3, <4>4
    <3>5. writer'.place = Len(log')
      BY <2>1, <3>1 DEF Order
    <3> QED BY <3>1, <3>2, <3>4, <3>5
  <2>11. writer' # None => log' # <<>>
    BY <2>1 DEF Order
  <2> QED BY <2>6, <2>7, <2>8, <2>9, <2>10, <2>11 DEF Order
<1>5. ASSUME NEW k \in Conns, Accept(k) \/ Read(k) \/ ReadEnd(k) PROVE Order'
  BY <1>1, <1>5 DEF Accept, Read, ReadEnd, client
<1>6. CASE Pop
  <2>1. /\ log \in Seq(Message) /\ Head(bq) \in Message
        /\ log' = Append(log, Head(bq))
        /\ writer'.place = Len(log) + 1 /\ writer'.to \subseteq Conns
        /\ UNCHANGED <<down, conn, heard>>
    BY <1>6 DEF Pop, client, TypeOK
  <2>2. /\ DOMAIN log = 1 .. Len(log) /\ Len(log) \in Nat
        /\ DOMAIN log' = 1 .. Len(log) + 1 /\ Len(log') = Len(log) + 1
    BY <2>1, AppendFacts
  <2>3. \A c \in Clients : LastHeard(c)' = LastHeard(c) /\ LastHeard(c) <= Len(log)
    BY <2>1 DEF LastHeard, Order
  <2>4. \A c \in Clients : LastHeard(c) \in Nat
    <3> TAKE c \in Clients
    <3>1. heard[c] \in Seq(Nat)
      BY DEF TypeOK
    <3> QED BY <3>1 DEF LastHeard
  <2>5. \A k \in Conns : \A i \in DOMAIN down[k] : down[k][i].msg \in 1 .. Len(log)
    BY <2>2 DEF Order
  <2>6. \A k \in Conns : Rising(k)'
    BY <2>1 DEF Order, Rising
  <2>7. \A c \in Clients : conn'[c] # None =>
          \A i \in DOMAIN down'[conn'[c]] : down'[conn'[c]][i].msg > LastHeard(c)'
    BY <2>1, <2>3 DEF Order
  <2> QED BY <2>1, <2>2, <2>3, <2>4, <2>5, <2>6, <2>7 DEF Order
<1>7. ASSUME NEW k \in Conns, writer # None, k \in writer.to, Written(k),
             UNCHANGED <<heard, conn, log>>, NEW d, down' = [down EXCEPT ![k] = d],
             d \in Seq(Parts(Nat)),
             \A i \in DOMAIN d :
                \/ i \in DOMAIN down[k] /\ d[i] = down[k][i]
                \/ /\ i > Len(down[k]) /\ d[i].msg = writer.place
                   /\ d[i].half = "tail" => i = Len(d)
      PROVE  Order'
  <2>1. /\ down'[k] = d /\ \A l \in Conns : l # k => down'[l] = down[l]
        /\ down[k] \in Seq(Parts(Nat)) /\ DOMAIN down[k] = 1 .. Len(down[k])
        /\ DOMAIN d = 1 .. Len(d) /\ Len(down[k]) \in Nat /\ Len(d) \in Nat
    BY <1>7 DEF TypeOK
  <2>2. /\ writer'.place = writer.place /\ writer'.to = writer.to \ {k}
        /\ writer.place = Len(log) /\ writer.place \in Nat /\ writer.to \subseteq Conns
    BY <1>7 DEF Written, TypeOK, Order
  <2>3. \A c \in Clients : LastHeard(c)' = LastHeard(c)
    BY <1>7 DEF LastHeard
  <2>4. \A i \in DOMAIN down[k] :
          down[k][i].msg \in DOMAIN log /\ down[k][i].msg < writer.place
    BY <1>7 DEF Order
  <2>5. writer.place \in DOMAIN log /\ log' = log
    <3>1. log \in Seq(Message) /\ log # <<>>
      BY <1>7 DEF Order, TypeOK
    <3> QED BY <1>7, <2>2, <3>1
  <2>6. \A c \in Clients : LastHeard(c)' <= Len(log')
    BY <2>3, <2>5 DEF Order
  <2>7. \A l \in Conns : \A i \in DOMAIN down'[l] :
          \/ i \in DOMAIN down[l] /\ down'[l][i] = down[l][i]
          \/ l = k /\ down'[l][i].msg = writer.place
    <3> TAKE l \in Conns
    <3> TAKE i \in DOMAIN down'[l]
    <3>1. CASE l = k
      BY <1>7, <2>1, <3>1
    <3>2. CASE l # k
      BY <2>1, <3>2
    <3> QED BY <3>1, <3>2
  <2>8. \A l \in Conns : \A i \in DOMAIN down'[l] : down'[l][i].msg \in DOMAIN log'
    BY <2>5, <2>7 DEF Order
  <2>9. ASSUME NEW l \in Conns PROVE Rising(l)'
    <3>1. CASE l = k
      <4> SUFFICES ASSUME NEW i \in DOMAIN d, NEW j \in DOMAIN d, i < j,
                          d[i].half = "tail"
                   PROVE  d[i].msg < d[j].msg
        BY <2>1, <3>1 DEF Rising
      <4>1. i \in Nat /\ j \in Nat /\ i \in 1 .. Len(d) /\ j \in 1 .. Len(d)
        BY <2>1
      <4>2. i \in DOMAIN down[k] /\ d[i] = down[k][i]
        <5>1. ~ (i = Len(d))
          BY <2>1, <4>1
        <5> QED BY <1>7, <5>1
      <4>3. CASE j \in DOMAIN down[k] /\ d[j] = down[k][j]
        BY <4>2, <4>3 DEF Order, Rising
      <4>4. CASE d[j].msg = writer.place
        BY <2>4, <4>2, <4>4
      <4> QED BY <1>7, <4>3, <4>4
    <3>2. CASE l # k
      BY <2>1, <3>2 DEF Order, Rising
    <3> QED BY <3>1, <3>2
  <2>10. ASSUME NEW c \in Clients, conn'[c] # None, NEW i \in DOMAIN down'[conn'[c]]
         PROVE  down'[conn'[c]][i].msg > LastHeard(c)'
    <3>1. conn'[c] = conn[c] /\ conn[c] \in Conns
      BY <1>7, <2>10 DEF TypeOK
    <3>2. CASE i \in DOMAIN down[conn[c]] /\ down'[conn[c]][i] = down[conn[c]][i]
      BY <2>3, <2>10, <3>1, <3>2 DEF Order
    <3>3. CASE conn[c] = k /\ down'[k][i].msg = writer.place
      <4>1. LastHeard(c) < writer.place /\ writer.place \in Nat
        BY <1>7, <2>2, <2>10, <3>1, <3>3 DEF Order
      <4>2. LastHeard(c) \in Nat
        <5>1. heard[c] \in Seq(Nat)
          BY DEF TypeOK
        <5> QED BY <5>1 DEF LastHeard
      <4> QED BY <2>3, <3>1, <3>3, <4>1, <4>2
    <3> QED BY <2>7, <2>10, <3>1, <3>2, <3>3
  <2>11. /\ writer'.place = Len(log') /\ log' # <<>>
         /\ \A l \in writer'.to : \A i \in DOMAIN down'[l] :
               down'[l][i].msg < writer'.place
         /\ \A c \in Clients : conn'[c] # None /\ conn'[c] \in writer'.to =>
               LastHeard(c)' < writer'.place
    BY <1>7, <2>1, <2>2, <2>3, <2>5 DEF Order
  <2> QED BY <2>6, <2>8, <2>9, <2>10, <2>11 DEF Order
<1>8. ASSUME NEW k \in Conns, Write(k) PROVE Order'
  <2> DEFINE d == down[k] \o Line(writer.place)
  <2>1. down[k] \in Seq(Parts(Nat)) /\ writer # None /\ writer.place \in Nat
    BY <1>8 DEF Write, TypeOK
  <2>2. /\ d \in Seq(Parts(Nat)) /\ Len(d) = Len(down[k]) + 2 /\ Len(down[k]) \in Nat
        /\ DOMAIN down[k] = 1 .. Len(down[k]) /\ DOMAIN d = 1 .. Len(down[k]) + 2
        /\ \A i \in 1 .. Len(down[k]) : d[i] = down[k][i]
        /\ d[Len(down[k]) + 1] = Part(writer.place, "head")
        /\ d[Len(down[k]) + 2] = Part(writer.place, "tail")
    BY <2>1, PlaceLineFacts
  <2> HIDE DEF d
  <2>3. ASSUME NEW i \in DOMAIN d
        PROVE  \/ i \in DOMAIN down[k] /\ d[i] = down[k][i]
               \/ /\ i > Len(down[k]) /\ d[i].msg = writer.place
                  /\ d[i].half = "tail" => i = Len(d)
    <3>1. i \in 1 .. Len(down[k]) \/ i = Len(down[k]) + 1 \/ i = Len(down[k]) + 2
      BY <2>2
    <3> QED BY <2>2, <3>1 DEF Part
  <2>4. /\ k \in writer.to /\ Written(k) /\ down' = [down EXCEPT ![k] = d]
        /\ UNCHANGED <<heard, conn, log>>
    BY <1>8 DEF Write, client, d
  <2> QED BY <1>7, <2>1, <2>2, <2>3, <2>4
<1>9. ASSUME NEW k \in Conns, WriteFails(k) PROVE Order'
  <2> DEFINE d == Append(down[k], Part(writer.place, "head"))
  <2>1. down[k] \in Seq(Parts(Nat)) /\ writer # None /\ writer.place \in Nat
    BY <1>9 DEF WriteFails, TypeOK
  <2>2. Part(writer.place, "head") \in Parts(Nat)
    BY <2>1 DEF Part, Parts, Half
  <2>3. /\ d \in Seq(Parts(Nat)) /\ Len(d) = Len(down[k]) + 1 /\ Len(down[k]) \in Nat
        /\ DOMAIN down[k] = 1 .. Len(down[k]) /\ DOMAIN d = 1 .. Len(down[k]) + 1
        /\ \A i \in 1 .. Len(down[k]) : d[i] = down[k][i]
        /\ d[Len(down[k]) + 1] = Part(writer.place, "head")
    BY <2>1, <2>2, AppendFacts
  <2> HIDE DEF d
  <2>4. ASSUME NEW i \in DOMAIN d
        PROVE  \/ i \in DOMAIN down[k] /\ d[i] = down[k][i]
               \/ /\ i > Len(down[k]) /\ d[i].msg = writer.place
                  /\ d[i].half = "tail" => i = Len(d)
    <3>1. i \in 1 .. Len(down[k]) \/ i = Len(down[k]) + 1
      BY <2>3
    <3> QED BY <2>3, <3>1 DEF Part
  <2>5. /\ k \in writer.to /\ Written(k)
        /\ down' = [down EXCEPT ![k] = d] \/ down' = [down EXCEPT ![k] = down[k]]
        /\ UNCHANGED <<heard, conn, log>>
    BY <1>9 DEF WriteFails, client, TypeOK, d
  <2>6. CASE down' = [down EXCEPT ![k] = d]
    <3>1. /\ writer # None /\ k \in writer.to /\ Written(k)
          /\ UNCHANGED <<heard, conn, log>> /\ d \in Seq(Parts(Nat))
      BY <2>1, <2>3, <2>5
    <3> QED BY <1>7, <2>4, <2>6, <3>1
  <2>7. CASE down' = [down EXCEPT ![k] = down[k]]
    BY <1>7, <2>1, <2>3, <2>5, <2>7
  <2> QED BY <2>5, <2>6, <2>7
<1>10. CASE WriterDone \/ ServerStarts \/ ServerStops \/ UNCHANGED vars
  BY <1>1, <1>10 DEF WriterDone, ServerStarts, ServerStops, client, vars
<1> QED
  BY <1>2, <1>3, <1>4, <1>5, <1>6, <1>8, <1>9, <1>10 DEF Next, Loop, Server

-----------------------------------------------------------------------------
(* Nothing twice, and each connection's messages in order *)

LEMMA ElementsFacts ==
    ASSUME NEW S, NEW s \in Seq(S), NEW x \in S
    PROVE  /\ Elements(Append(s, x)) = Elements(s) \cup {x}
           /\ \A i \in DOMAIN s : s[i] \in Elements(s)
           /\ Elements(s) \subseteq S
<1>1. /\ DOMAIN s = 1 .. Len(s) /\ DOMAIN Append(s, x) = 1 .. Len(s) + 1
      /\ Len(s) \in Nat
      /\ \A i \in 1 .. Len(s) : Append(s, x)[i] = s[i]
      /\ Append(s, x)[Len(s) + 1] = x
  BY AppendFacts
<1>2. \A i \in DOMAIN s : s[i] \in S
  OBVIOUS
<1>3. ASSUME NEW y \in Elements(Append(s, x)) PROVE y \in Elements(s) \cup {x}
  <2>1. PICK i \in 1 .. Len(s) + 1 : y = Append(s, x)[i]
    BY <1>1 DEF Elements
  <2>2. i \in 1 .. Len(s) \/ i = Len(s) + 1
    BY <1>1
  <2> QED BY <1>1, <2>1, <2>2 DEF Elements
<1>4. ASSUME NEW y \in Elements(s) PROVE y \in Elements(Append(s, x))
  <2>1. PICK i \in 1 .. Len(s) : y = s[i]
    BY <1>1 DEF Elements
  <2>2. i \in DOMAIN Append(s, x) /\ y = Append(s, x)[i]
    BY <1>1, <2>1
  <2> QED BY <2>2 DEF Elements
<1>5. x \in Elements(Append(s, x))
  <2>1. Len(s) + 1 \in DOMAIN Append(s, x)
    BY <1>1
  <2> QED BY <1>1, <2>1 DEF Elements
<1> QED BY <1>2, <1>3, <1>4, <1>5 DEF Elements

LEMMA QueuedStep == TypeOK /\ Queued /\ [Next]_vars => Queued'
<1> SUFFICES ASSUME TypeOK, Queued, [Next]_vars PROVE Queued'
  OBVIOUS
<1>1. ASSUME NEW c \in Clients, Emit(c) PROVE Queued'
  <2> DEFINE m == [from |-> c, n |-> emitted[c] + 1]
  <2>1. /\ sendq[c] \in Seq(Message) /\ emitted[c] \in Nat /\ m \in Message
        /\ emitted[c] < MaxEmits[c] /\ MaxEmits[c] \in Nat
    <3>1. /\ sendq[c] \in Seq(Message) /\ emitted[c] \in Nat
          /\ emitted[c] < MaxEmits[c] /\ MaxEmits[c] \in Nat
      BY <1>1, CallosumAssumption DEF Emit, TypeOK
    <3>2. emitted[c] + 1 \in 1 .. MaxEmits[c]
      BY <3>1
    <3> QED BY <3>1, <3>2, MessageFacts
  <2>2. /\ emitted'[c] = emitted[c] + 1
        /\ sendq'[c] = sendq[c] \/ sendq'[c] = Append(sendq[c], m)
        /\ \A d \in Clients : d # c => sendq'[d] = sendq[d] /\ emitted'[d] = emitted[d]
    BY <1>1 DEF Emit, TypeOK
  <2>3. /\ DOMAIN sendq[c] = 1 .. Len(sendq[c]) /\ Len(sendq[c]) \in Nat
        /\ DOMAIN Append(sendq[c], m) = 1 .. Len(sendq[c]) + 1
        /\ \A i \in 1 .. Len(sendq[c]) : Append(sendq[c], m)[i] = sendq[c][i]
        /\ Append(sendq[c], m)[Len(sendq[c]) + 1] = m
    BY <2>1, AppendFacts
  <2>4. m.from = c /\ m.n = emitted[c] + 1
    OBVIOUS
  <2>5. \A i \in DOMAIN sendq[c] : sendq[c][i] \in Message /\ sendq[c][i].n \in Nat
    <3> TAKE i \in DOMAIN sendq[c]
    <3>1. sendq[c][i] \in Message
      BY <2>1
    <3> QED BY <3>1, MessageFacts
  <2> HIDE DEF m
  <2>6. ASSUME NEW d \in Clients, d # c
        PROVE  /\ \A i \in DOMAIN sendq'[d] :
                     sendq'[d][i].from = d /\ sendq'[d][i].n <= emitted'[d]
               /\ \A i, j \in DOMAIN sendq'[d] : i < j => sendq'[d][i].n < sendq'[d][j].n
    BY <2>2, <2>6 DEF Queued
  <2>7. CASE sendq'[c] = sendq[c]
    <3>1. /\ \A i \in DOMAIN sendq'[c] :
                sendq'[c][i].from = c /\ sendq'[c][i].n <= emitted'[c]
          /\ \A i, j \in DOMAIN sendq'[c] : i < j => sendq'[c][i].n < sendq'[c][j].n
      BY <2>1, <2>2, <2>5, <2>7 DEF Queued
    <3> QED BY <2>6, <3>1 DEF Queued
  <2>8. CASE sendq'[c] = Append(sendq[c], m)
    <3>1. \A i \in DOMAIN sendq'[c] :
             \/ i \in DOMAIN sendq[c] /\ sendq'[c][i] = sendq[c][i]
             \/ i = Len(sendq[c]) + 1 /\ sendq'[c][i] = m
      BY <2>3, <2>8
    <3>2. \A i \in DOMAIN sendq'[c] :
             sendq'[c][i].from = c /\ sendq'[c][i].n <= emitted'[c]
      <4> TAKE i \in DOMAIN sendq'[c]
      <4>1. CASE i \in DOMAIN sendq[c] /\ sendq'[c][i] = sendq[c][i]
        <5>1. sendq[c][i].from = c /\ sendq[c][i].n <= emitted[c]
          BY <4>1 DEF Queued
        <5> QED BY <2>1, <2>2, <2>5, <4>1, <5>1
      <4>2. CASE sendq'[c][i] = m
        BY <2>1, <2>2, <2>4, <4>2
      <4> QED BY <3>1, <4>1, <4>2
    <3>3. ASSUME NEW i \in DOMAIN sendq'[c], NEW j \in DOMAIN sendq'[c], i < j
          PROVE  sendq'[c][i].n < sendq'[c][j].n
      <4>1. i \in DOMAIN sendq[c] /\ sendq'[c][i] = sendq[c][i]
        BY <2>3, <2>8, <3>1, <3>3
      <4>2. sendq[c][i].n <= emitted[c] /\ sendq[c][i].n \in Nat
        BY <2>5, <4>1 DEF Queued
      <4>3. CASE j \in DOMAIN sendq[c] /\ sendq'[c][j] = sendq[c][j]
        BY <3>3, <4>1, <4>3 DEF Queued
      <4>4. CASE sendq'[c][j] = m
        BY <2>1, <2>4, <4>1, <4>2, <4>4
      <4> QED BY <3>1, <4>3, <4>4
    <3> QED BY <2>6, <3>2, <3>3 DEF Queued
  <2> QED BY <2>2, <2>7, <2>8
<1>2. ASSUME NEW c \in Clients, sendq[c] # <<>>, sendq' = [sendq EXCEPT ![c] = Tail(@)],
             UNCHANGED emitted
      PROVE  Queued'
  <2>1. /\ DOMAIN sendq[c] = 1 .. Len(sendq[c]) /\ Len(sendq[c]) \in Nat
        /\ DOMAIN sendq'[c] = 1 .. Len(sendq[c]) - 1
        /\ \A i \in DOMAIN sendq'[c] :
             i + 1 \in DOMAIN sendq[c] /\ sendq'[c][i] = sendq[c][i + 1]
        /\ \A d \in Clients : d # c => sendq'[d] = sendq[d]
    <3>1. sendq[c] \in Seq(Message) /\ sendq'[c] = Tail(sendq[c])
      BY <1>2 DEF TypeOK
    <3> QED BY <1>2, <3>1, TailFacts DEF TypeOK
  <2>2. \A d \in Clients : d # c =>
          /\ \A i \in DOMAIN sendq'[d] :
                sendq'[d][i].from = d /\ sendq'[d][i].n <= emitted'[d]
          /\ \A i, j \in DOMAIN sendq'[d] : i < j => sendq'[d][i].n < sendq'[d][j].n
    BY <1>2, <2>1 DEF Queued
  <2>3. \A i \in DOMAIN sendq'[c] :
           sendq'[c][i].from = c /\ sendq'[c][i].n <= emitted'[c]
    BY <1>2, <2>1 DEF Queued
  <2>4. ASSUME NEW i \in DOMAIN sendq'[c], NEW j \in DOMAIN sendq'[c], i < j
        PROVE  sendq'[c][i].n < sendq'[c][j].n
    <3>1. i + 1 \in DOMAIN sendq[c] /\ j + 1 \in DOMAIN sendq[c] /\ i + 1 < j + 1
      BY <2>1, <2>4
    <3>2. sendq[c][i + 1].n < sendq[c][j + 1].n
      BY <3>1 DEF Queued
    <3> QED BY <2>1, <3>2
  <2> QED BY <2>2, <2>3, <2>4 DEF Queued
<1>3. ASSUME NEW c \in Clients, Drop(c) \/ Send(c) \/ SendFails(c) PROVE Queued'
  BY <1>2, <1>3 DEF Drop, Send, SendFails
<1>4. ASSUME NEW c \in Clients, Leave(c) PROVE Queued'
  BY <1>4 DEF Leave, Queued, TypeOK
<1>5. ASSUME UNCHANGED <<emitted, sendq>> PROVE Queued'
  BY <1>5 DEF Queued
<1>6. ASSUME NEW c \in Clients, Connect(c) \/ Receive(c) \/ ReceiveEnd(c) PROVE Queued'
  BY <1>5, <1>6 DEF Connect, Receive, ReceiveEnd
<1>7. CASE Server \/ ServerStops \/ UNCHANGED vars
  BY <1>5, <1>7 DEF Server, Accept, Read, ReadEnd, Pop, Write, WriteFails, WriterDone,
     ServerStarts, ServerStops, client, vars
<1> QED BY <1>1, <1>3, <1>4, <1>6, <1>7 DEF Next, Loop

\* What Send does: m goes out on k for the first time, and is newer than what
\* was sent on k before.
Sends(c, k, m) ==
    /\ k = conn[c] /\ m.from = c /\ m.n \in Nat /\ m.n <= emitted[c]
    /\ sendq[c] # <<>> /\ m = sendq[c][1]
    /\ sendq' = [sendq EXCEPT ![c] = Tail(@)]
    /\ up' = [up EXCEPT ![k] = up[k] \o Line(m)]
    /\ Elements(sent'[k]) = Elements(sent[k]) \cup {m}
    /\ \A l \in Conns : l # k => sent'[l] = sent[l]
    /\ \A l \in Conns : m \notin Elements(sent[l])
    /\ \A x \in Elements(sent[k]) : x.from = c /\ x.n < m.n
    /\ \A d \in Clients : conn[d] = k => d = c
    /\ UNCHANGED <<emitted, conn, log, bq>>

LEMMA SendFacts ==
    ASSUME TypeOK, Fresh, Queued, Sent, NEW c \in Clients, Send(c)
    PROVE  \E k \in Conns, m \in Message : Sends(c, k, m)
<1>1. PICK k \in Conns : k = conn[c]
  BY DEF Send, TypeOK
<1>2. PICK m \in Message : m = Head(sendq[c]) /\ m = sendq[c][1] /\ 1 \in DOMAIN sendq[c]
  <2>1. sendq[c] # <<>> /\ sendq[c] \in Seq(Message)
    BY DEF Send, TypeOK
  <2> QED BY <2>1, TailFacts
<1>3. m.from = c /\ m.n \in Nat /\ m.n <= emitted[c]
  BY <1>2, MessageFacts DEF Queued
<1>4. sent[k] \in Seq(Message) /\ sent'[k] = Append(sent[k], m)
      /\ \A l \in Conns : l # k => sent'[l] = sent[l]
  BY <1>1, <1>2 DEF Send, TypeOK
<1>5. Elements(sent'[k]) = Elements(sent[k]) \cup {m}
  BY <1>4, ElementsFacts
<1>6. conn[c] # None /\ \A d \in Clients : conn[d] = k => d = c
  BY <1>1 DEF Send, Fresh
<1>7. ASSUME NEW l \in Conns, NEW x \in Elements(sent[l]), x.from = c
      PROVE  x.n < m.n
  BY <1>2, <1>7 DEF Sent
<1>8. \A l \in Conns : m \notin Elements(sent[l])
  BY <1>3, <1>7
<1>9. \A x \in Elements(sent[k]) : x.from = c /\ x.n < m.n
  BY <1>1, <1>7 DEF Sent
<1> QED
  BY <1>1, <1>2, <1>3, <1>4, <1>5, <1>6, <1>8, <1>9 DEF Send, server, Sends

LEMMA SentStep == TypeOK /\ Fresh /\ Queued /\ Sent /\ [Next]_vars => Sent'
<1> SUFFICES ASSUME TypeOK, Fresh, Queued, Sent, [Next]_vars PROVE Sent'
  OBVIOUS
<1>0. ASSUME NEW k \in Conns, NEW m \in Elements(sent[k])
      PROVE  m \in Message /\ m.from \in Clients /\ m.n \in Nat
  <2>1. PICK i \in DOMAIN sent[k] : m = sent[k][i]
    BY <1>0 DEF Elements
  <2>2. sent[k] \in Seq(Message)
    BY DEF TypeOK
  <2>3. m \in Message
    BY <2>1, <2>2
  <2> QED BY <2>3, MessageFacts
<1>1. ASSUME UNCHANGED sent,
             \A c \in Clients : \/ conn'[c] = conn[c]
                                \/ conn'[c] \notin Conns
                                \/ Elements(sent[conn'[c]]) = {},
             \A c \in Clients : emitted[c] <= emitted'[c] /\ emitted'[c] \in Nat,
             \A c \in Clients : \A i \in DOMAIN sendq'[c] :
                \/ \E j \in DOMAIN sendq[c] : sendq'[c][i] = sendq[c][j]
                \/ sendq'[c][i].n > emitted[c] /\ sendq'[c][i].n \in Nat
      PROVE  Sent'
  <2>1. ASSUME NEW k \in Conns, NEW m \in Elements(sent[k])
        PROVE  /\ m.n <= emitted'[m.from]
               /\ \A i \in DOMAIN sendq'[m.from] : m.n < sendq'[m.from][i].n
               /\ \A c \in Clients : conn'[c] = k => m.from = c
    <3>1. m.from \in Clients /\ m.n \in Nat /\ m.n <= emitted[m.from]
      BY <1>0, <2>1 DEF Sent
    <3>2. emitted[m.from] \in Nat
      BY <3>1 DEF TypeOK
    <3>3. m.n <= emitted'[m.from]
      BY <1>1, <3>1, <3>2
    <3>4. ASSUME NEW i \in DOMAIN sendq'[m.from] PROVE m.n < sendq'[m.from][i].n
      <4>1. CASE \E j \in DOMAIN sendq[m.from] : sendq'[m.from][i] = sendq[m.from][j]
        BY <2>1, <4>1 DEF Sent
      <4>2. CASE sendq'[m.from][i].n > emitted[m.from] /\ sendq'[m.from][i].n \in Nat
        BY <3>1, <3>2, <4>2
      <4> QED BY <1>1, <3>1, <3>4, <4>1, <4>2
    <3>5. ASSUME NEW c \in Clients, conn'[c] = k PROVE m.from = c
      <4>1. conn'[c] = conn[c]
        BY <1>1, <2>1, <3>5
      <4> QED BY <2>1, <3>5, <4>1 DEF Sent
    <3> QED BY <3>3, <3>4, <3>5
  <2> QED BY <1>1, <2>1 DEF Sent
<1>2. \A c \in Clients : emitted[c] \in Nat
  BY DEF TypeOK
<1>3. ASSUME NEW c \in Clients, Emit(c) PROVE Sent'
  <2>1. emitted' = [emitted EXCEPT ![c] = @ + 1] /\ UNCHANGED <<sent, conn>>
    BY <1>3 DEF Emit
  <2>2. \A d \in Clients : emitted[d] <= emitted'[d] /\ emitted'[d] \in Nat
    <3>1. emitted \in [Clients -> Nat]
      BY DEF TypeOK
    <3> TAKE d \in Clients
    <3>2. emitted[d] \in Nat /\ (emitted'[d] = emitted[d] \/ emitted'[d] = emitted[d] + 1)
      BY <2>1, <3>1
    <3> QED BY <3>2
  <2>3. ASSUME NEW d \in Clients, NEW i \in DOMAIN sendq'[d]
        PROVE  \/ \E j \in DOMAIN sendq[d] : sendq'[d][i] = sendq[d][j]
               \/ sendq'[d][i].n > emitted[d] /\ sendq'[d][i].n \in Nat
    <3>1. CASE sendq'[d] = sendq[d]
      BY <2>3, <3>1
    <3>2. CASE /\ d = c
               /\ sendq'[c] = Append(sendq[c], [from |-> c, n |-> emitted[c] + 1])
      <4>1. \/ i \in DOMAIN sendq[c] /\ sendq'[c][i] = sendq[c][i]
            \/ sendq'[c][i] = [from |-> c, n |-> emitted[c] + 1]
        <5>1. sendq[c] \in Seq(Message)
          BY DEF TypeOK
        <5> QED BY <2>3, <3>2, <5>1
      <4>2. CASE sendq'[c][i] = [from |-> c, n |-> emitted[c] + 1]
        <5>1. sendq'[c][i].n = emitted[c] + 1
          BY <4>2
        <5> QED BY <1>2, <3>2, <5>1
      <4> QED BY <3>2, <4>1, <4>2
    <3> QED BY <1>3, <3>1, <3>2 DEF Emit, TypeOK
  <2> QED BY <1>1, <2>1, <2>2, <2>3
<1>4. ASSUME NEW c \in Clients, sendq' = [sendq EXCEPT ![c] = Tail(@)], sendq[c] # <<>>,
             NEW d \in Clients, NEW i \in DOMAIN sendq'[d]
      PROVE  \E j \in DOMAIN sendq[d] : sendq'[d][i] = sendq[d][j]
  <2>1. CASE d # c
    BY <1>4, <2>1 DEF TypeOK
  <2>2. CASE d = c
    <3>1. sendq[c] \in Seq(Message) /\ sendq'[c] = Tail(sendq[c])
      BY <1>4 DEF TypeOK
    <3>2. \A h \in DOMAIN Tail(sendq[c]) :
             h + 1 \in DOMAIN sendq[c] /\ Tail(sendq[c])[h] = sendq[c][h + 1]
      BY <1>4, <3>1, TailFacts
    <3> QED BY <1>4, <2>2, <3>1, <3>2
  <2> QED BY <2>1, <2>2
<1>5. ASSUME NEW c \in Clients, Drop(c) \/ SendFails(c) PROVE Sent'
  <2>1. /\ sendq' = [sendq EXCEPT ![c] = Tail(@)] /\ sendq[c] # <<>>
        /\ UNCHANGED <<emitted, sent>>
    BY <1>5 DEF Drop, SendFails
  <2>2. \A d \in Clients : conn'[d] = conn[d] \/ conn'[d] \notin Conns
    <3>1. None \notin Conns
      BY CallosumAssumption DEF Conns
    <3>2. conn' = conn \/ conn' = [conn EXCEPT ![c] = None]
      BY <1>5 DEF Drop, SendFails
    <3> QED BY <3>1, <3>2 DEF TypeOK
  <2>3. \A d \in Clients : \A i \in DOMAIN sendq'[d] :
           \E j \in DOMAIN sendq[d] : sendq'[d][i] = sendq[d][j]
    BY <1>4, <2>1
  <2>4. \A d \in Clients : emitted[d] <= emitted'[d] /\ emitted'[d] \in Nat
    BY <1>2, <2>1
  <2> QED BY <1>1, <2>1, <2>2, <2>3, <2>4
<1>6. ASSUME NEW c \in Clients, Leave(c) PROVE Sent'
  <2>1. \A d \in Clients : \A i \in DOMAIN sendq'[d] :
           \E j \in DOMAIN sendq[d] : sendq'[d][i] = sendq[d][j]
    BY <1>6 DEF Leave, TypeOK
  <2>2. \A d \in Clients : conn'[d] = conn[d] \/ conn'[d] \notin Conns
    BY <1>6, CallosumAssumption DEF Leave, TypeOK, Conns
  <2>3. UNCHANGED <<emitted, sent>>
    BY <1>6 DEF Leave
  <2> QED BY <1>1, <1>2, <2>1, <2>2, <2>3
<1>7. ASSUME NEW c \in Clients, Connect(c) PROVE Sent'
  <2>1. conns + 1 \in Conns /\ conns + 1 > conns
    BY <1>7, CallosumAssumption DEF Connect, TypeOK, Conns
  <2>2. Elements(sent[conns + 1]) = {}
    BY <2>1 DEF Fresh, Elements
  <2>3. \A d \in Clients : conn'[d] = conn[d] \/ conn'[d] = conns + 1
    BY <1>7 DEF Connect, TypeOK
  <2>4. UNCHANGED <<emitted, sent, sendq>>
    BY <1>7 DEF Connect
  <2> QED BY <1>1, <1>2, <2>2, <2>3, <2>4
<1>8. ASSUME NEW c \in Clients, Send(c) PROVE Sent'
  <2>0. PICK k \in Conns, m \in Message : Sends(c, k, m)
    BY <1>8, SendFacts
  <2>1. /\ m.from = c /\ m.n \in Nat /\ m.n <= emitted[c]
        /\ sendq[c] # <<>> /\ m = sendq[c][1]
        /\ sendq' = [sendq EXCEPT ![c] = Tail(@)]
        /\ Elements(sent'[k]) = Elements(sent[k]) \cup {m}
        /\ \A l \in Conns : l # k => sent'[l] = sent[l]
        /\ \A l \in Conns : m \notin Elements(sent[l])
        /\ \A x \in Elements(sent[k]) : x.from = c /\ x.n < m.n
        /\ \A d \in Clients : conn[d] = k => d = c
        /\ UNCHANGED <<emitted, conn>>
    BY <2>0 DEF Sends
  <2>2. \A l \in Conns : \A x \in Elements(sent'[l]) :
           x \in Elements(sent[l]) \/ (l = k /\ x = m)
    <3> TAKE l \in Conns
    <3>1. CASE l = k
      BY <2>1, <3>1
    <3>2. CASE l # k
      <4>1. sent'[l] = sent[l]
        BY <2>1, <3>2
      <4> QED BY <4>1 DEF Elements
    <3> QED BY <3>1, <3>2
  <2>3. \A i \in DOMAIN sendq'[c] : m.n < sendq'[c][i].n
    <3> TAKE i \in DOMAIN sendq'[c]
    <3>1. sendq[c] \in Seq(Message) /\ sendq'[c] = Tail(sendq[c])
      BY <2>1 DEF TypeOK
    <3>2. /\ i + 1 \in DOMAIN sendq[c] /\ sendq'[c][i] = sendq[c][i + 1]
          /\ 1 \in DOMAIN sendq[c] /\ 1 < i + 1
      <4>1. /\ DOMAIN Tail(sendq[c]) = 1 .. Len(sendq[c]) - 1 /\ Len(sendq[c]) \in Nat
            /\ 1 \in DOMAIN sendq[c]
            /\ \A h \in DOMAIN Tail(sendq[c]) :
                  h + 1 \in DOMAIN sendq[c] /\ Tail(sendq[c])[h] = sendq[c][h + 1]
        BY <2>1, <3>1, TailFacts
      <4>2. i \in 1 .. Len(sendq[c]) - 1
        BY <3>1, <4>1
      <4> QED BY <3>1, <4>1, <4>2
    <3> QED BY <2>1, <3>2 DEF Queued
  <2>4. ASSUME NEW l \in Conns, NEW x \in Elements(sent'[l])
        PROVE  /\ x.n <= emitted'[x.from]
               /\ \A i \in DOMAIN sendq'[x.from] : x.n < sendq'[x.from][i].n
               /\ \A d \in Clients : conn'[d] = l => x.from = d
    <3>1. CASE x \in Elements(sent[l])
      <4>1. x.from \in Clients
        BY <1>0, <3>1
      <4>2. \A i \in DOMAIN sendq'[x.from] : x.n < sendq'[x.from][i].n
        <5> TAKE i \in DOMAIN sendq'[x.from]
        <5>1. PICK j \in DOMAIN sendq[x.from] : sendq'[x.from][i] = sendq[x.from][j]
          BY <1>4, <2>1, <4>1
        <5> QED BY <3>1, <5>1 DEF Sent
      <4> QED BY <2>1, <3>1, <4>2 DEF Sent
    <3>2. CASE l = k /\ x = m
      BY <2>1, <2>3, <3>2
    <3> QED BY <2>2, <2>4, <3>1, <3>2
  <2>5. \A l \in Conns : \A x, y \in Elements(sent'[l]) : x.from = y.from
    BY <2>1, <2>2 DEF Sent
  <2>6. ASSUME NEW l \in Conns, NEW h \in Conns, NEW x \in Elements(sent'[l]),
               x \in Elements(sent'[h])
        PROVE  l = h
    <3>1. x \in Elements(sent[l]) \/ (l = k /\ x = m)
      BY <2>2
    <3>2. x \in Elements(sent[h]) \/ (h = k /\ x = m)
      BY <2>2, <2>6
    <3>3. m \notin Elements(sent[l]) /\ m \notin Elements(sent[h])
      BY <2>1
    <3>4. CASE x \in Elements(sent[l]) /\ x \in Elements(sent[h])
      BY <3>4 DEF Sent
    <3> QED BY <3>1, <3>2, <3>3, <3>4
  <2> QED BY <2>4, <2>5, <2>6 DEF Sent
<1>9. ASSUME UNCHANGED <<emitted, sendq, sent>>,
             \A c \in Clients : conn'[c] = conn[c] \/ conn'[c] \notin Conns
      PROVE  Sent'
  BY <1>1, <1>2, <1>9
<1>10. ASSUME NEW c \in Clients, Receive(c) \/ ReceiveEnd(c) PROVE Sent'
  <2>1. \A d \in Clients : conn'[d] = conn[d] \/ conn'[d] \notin Conns
    <3>1. None \notin Conns
      BY CallosumAssumption DEF Conns
    <3>2. conn' = conn \/ conn' = [conn EXCEPT ![c] = None]
      BY <1>10 DEF Receive, ReceiveEnd
    <3> QED BY <3>1, <3>2 DEF TypeOK
  <2>2. UNCHANGED <<emitted, sendq, sent>>
    BY <1>10 DEF Receive, ReceiveEnd
  <2> QED BY <1>9, <2>1, <2>2
<1>11. CASE Server \/ ServerStops \/ UNCHANGED vars
  BY <1>9, <1>11 DEF Server, Accept, Read, ReadEnd, Pop, Write, WriteFails, WriterDone,
     ServerStarts, ServerStops, client, vars
<1> QED
  BY <1>3, <1>5, <1>6, <1>7, <1>8, <1>10, <1>11 DEF Next, Loop

\* Without Send and Read, the server has the same complete lines to read.
LEMMA UpFacts ==
    ASSUME TypeOK, [Next]_vars, \A c \in Clients : ~ Send(c), \A k \in Conns : ~ Read(k)
    PROVE  /\ UNCHANGED sent
           /\ \A k \in Conns : \A i \in DOMAIN up'[k] :
                 up'[k][i].half = "tail" => i \in DOMAIN up[k] /\ up'[k][i] = up[k][i]
<1>1. ASSUME NEW c \in Clients, SendFails(c), NEW k \in Conns, NEW i \in DOMAIN up'[k],
             up'[k][i].half = "tail"
      PROVE  i \in DOMAIN up[k] /\ up'[k][i] = up[k][i]
  <2>1. CASE up'[k] = up[k]
    BY <1>1, <2>1
  <2>2. CASE up'[k] = Append(up[k], Part(Head(sendq[c]), "head"))
    <3>1. Head(sendq[c]) \in Message
      <4>1. sendq[c] \in Seq(Message) /\ sendq[c] # <<>>
        BY <1>1 DEF SendFails, TypeOK
      <4> QED BY <4>1
    <3>2. up[k] \in Seq(Parts(Message)) /\ Part(Head(sendq[c]), "head") \in Parts(Message)
      BY <3>1 DEF TypeOK, Part, Parts, Half
    <3>3. \/ i \in DOMAIN up[k] /\ up'[k][i] = up[k][i]
          \/ up'[k][i] = Part(Head(sendq[c]), "head")
      BY <1>1, <2>2, <3>2, AppendFacts
    <3>4. up'[k][i] # Part(Head(sendq[c]), "head")
      BY <1>1 DEF Part
    <3> QED BY <3>3, <3>4
  <2> QED BY <1>1, <2>1, <2>2 DEF SendFails, TypeOK
<1>2. ASSUME NEW c \in Clients, SendFails(c) PROVE UNCHANGED sent
  BY <1>2 DEF SendFails
<1>3. ASSUME NEW c \in Clients, Emit(c) \/ Leave(c) \/ Connect(c) \/ Drop(c)
                                  \/ Receive(c) \/ ReceiveEnd(c)
      PROVE  UNCHANGED <<up, sent>>
  BY <1>3 DEF Emit, Leave, Connect, Drop, Receive, ReceiveEnd
<1>4. ASSUME Server \/ ServerStops \/ UNCHANGED vars PROVE UNCHANGED <<up, sent>>
  BY <1>4 DEF Server, Accept, ReadEnd, Pop, Write, WriteFails, WriterDone,
     ServerStarts, ServerStops, client, vars
<1>5. CASE \E c \in Clients : SendFails(c)
  BY <1>1, <1>2, <1>5
<1>6. CASE UNCHANGED <<up, sent>>
  BY <1>6
<1> QED BY <1>3, <1>4, <1>5, <1>6 DEF Next, Loop

LEMMA ReadFacts ==
    ASSUME TypeOK, NEW k \in Conns, Read(k)
    PROVE  /\ up[k] # <<>> /\ up[k] \in Seq(Parts(Message))
           /\ up' = [up EXCEPT ![k] = Tail(up[k])] /\ UNCHANGED <<sent, log>>
           /\ Head(up[k]) = up[k][1] /\ 1 \in DOMAIN up[k]
           /\ \A i \in DOMAIN up'[k] :
                 i \in Nat /\ 1 < i + 1 /\ i + 1 \in DOMAIN up[k]
                           /\ up'[k][i] = up[k][i + 1]
           /\ \A l \in Conns : l # k => up'[l] = up[l]
           /\ \/ UNCHANGED bq
              \/ up[k][1].half = "tail" /\ bq' = Append(bq, up[k][1].msg)
           /\ up[k][1].msg \in Message
<1>1. /\ up[k] # <<>> /\ up[k] \in Seq(Parts(Message))
      /\ up' = [up EXCEPT ![k] = Tail(up[k])] /\ UNCHANGED <<sent, log>>
  BY DEF Read, TypeOK, client
<1>2. /\ Head(up[k]) = up[k][1] /\ 1 \in DOMAIN up[k] /\ Head(up[k]) \in Parts(Message)
      /\ Len(up[k]) \in Nat /\ DOMAIN Tail(up[k]) = 1 .. Len(up[k]) - 1
      /\ \A i \in DOMAIN Tail(up[k]) :
            i + 1 \in DOMAIN up[k] /\ Tail(up[k])[i] = up[k][i + 1]
  BY <1>1, TailFacts
<1>3. up'[k] = Tail(up[k]) /\ \A l \in Conns : l # k => up'[l] = up[l]
  BY <1>1 DEF TypeOK
<1>4. \A i \in DOMAIN up'[k] :
         i \in Nat /\ 1 < i + 1 /\ i + 1 \in DOMAIN up[k] /\ up'[k][i] = up[k][i + 1]
  BY <1>2, <1>3
<1>5. up[k][1].half # "head" => up[k][1].half = "tail"
  BY <1>2 DEF Parts, Half
<1>6. up[k][1].msg \in Message
  BY <1>2 DEF Parts
<1>7. UNCHANGED bq \/ (up[k][1].half = "tail" /\ bq' = Append(bq, up[k][1].msg))
  BY <1>2, <1>5 DEF Read
<1> QED BY <1>1, <1>2, <1>3, <1>4, <1>6, <1>7

LEMMA UnreadStep == TypeOK /\ Fresh /\ Queued /\ Sent /\ Unread /\ [Next]_vars => Unread'
<1> SUFFICES ASSUME TypeOK, Fresh, Queued, Sent, Unread, [Next]_vars PROVE Unread'
  OBVIOUS
<1>1. ASSUME NEW c \in Clients, Send(c) PROVE Unread'
  <2>0. PICK k \in Conns, m \in Message : Sends(c, k, m)
    BY <1>1, SendFacts
  <2>1. /\ up' = [up EXCEPT ![k] = up[k] \o Line(m)]
        /\ Elements(sent'[k]) = Elements(sent[k]) \cup {m}
        /\ \A l \in Conns : l # k => sent'[l] = sent[l]
        /\ \A l \in Conns : m \notin Elements(sent[l])
        /\ \A x \in Elements(sent[k]) : x.from = c /\ x.n < m.n
        /\ UNCHANGED <<log, bq>>
    BY <2>0 DEF Sends
  <2>2. up[k] \in Seq(Parts(Message)) /\ up'[k] = up[k] \o Line(m)
        /\ \A l \in Conns : l # k => up'[l] = up[l]
    BY <2>1 DEF TypeOK
  <2>3. /\ DOMAIN up[k] = 1 .. Len(up[k]) /\ DOMAIN up'[k] = 1 .. Len(up[k]) + 2
        /\ Len(up[k]) \in Nat
        /\ \A i \in 1 .. Len(up[k]) : up'[k][i] = up[k][i]
        /\ up'[k][Len(up[k]) + 1] = Part(m, "head")
        /\ up'[k][Len(up[k]) + 2] = Part(m, "tail")
    BY <2>2, LineFacts
  <2>4. \A i \in DOMAIN up'[k] : up'[k][i].half = "tail" =>
           \/ i \in DOMAIN up[k] /\ up'[k][i] = up[k][i]
           \/ i = Len(up[k]) + 2 /\ up'[k][i].msg = m
    <3> TAKE i \in DOMAIN up'[k]
    <3>1. i \in 1 .. Len(up[k]) \/ i = Len(up[k]) + 1 \/ i = Len(up[k]) + 2
      BY <2>3
    <3> QED BY <2>3, <3>1 DEF Part
  <2>5. ASSUME NEW i \in DOMAIN up'[k], up'[k][i].half = "tail"
        PROVE  /\ up'[k][i].msg \in Elements(sent'[k])
               /\ \A j \in DOMAIN up'[k] : i < j /\ up'[k][j].half = "tail" =>
                     up'[k][i].msg.n < up'[k][j].msg.n
    <3>1. CASE i \in DOMAIN up[k] /\ up'[k][i] = up[k][i]
      <4>1. up'[k][i].msg \in Elements(sent[k])
        BY <2>5, <3>1 DEF Unread
      <4>2. ASSUME NEW j \in DOMAIN up'[k], i < j, up'[k][j].half = "tail"
            PROVE  up'[k][i].msg.n < up'[k][j].msg.n
        <5>1. CASE j \in DOMAIN up[k] /\ up'[k][j] = up[k][j]
          BY <2>5, <3>1, <4>2, <5>1 DEF Unread
        <5>2. CASE up'[k][j].msg = m
          BY <2>1, <4>1, <5>2
        <5> QED BY <2>4, <4>2, <5>1, <5>2
      <4> QED BY <2>1, <4>1, <4>2
    <3>2. CASE i = Len(up[k]) + 2 /\ up'[k][i].msg = m
      <4>1. \A j \in DOMAIN up'[k] : ~ (i < j)
        BY <2>3, <3>2
      <4> QED BY <2>1, <3>2, <4>1
    <3> QED BY <2>4, <2>5, <3>1, <3>2
  <2>6. ASSUME NEW l \in Conns, l # k, NEW i \in DOMAIN up'[l], up'[l][i].half = "tail"
        PROVE  /\ up'[l][i].msg \in Elements(sent'[l])
               /\ \A j \in DOMAIN up'[l] : i < j /\ up'[l][j].half = "tail" =>
                     up'[l][i].msg.n < up'[l][j].msg.n
    <3>1. up'[l] = up[l] /\ sent'[l] = sent[l]
      BY <2>1, <2>2, <2>6
    <3>2. /\ up[l][i].msg \in Elements(sent[l])
          /\ \A j \in DOMAIN up[l] : i < j /\ up[l][j].half = "tail" =>
                     up[l][i].msg.n < up[l][j].msg.n
      BY <2>6, <3>1 DEF Unread
    <3> QED BY <3>1, <3>2
  <2> QED BY <2>5, <2>6 DEF Unread
<1>2. ASSUME NEW k \in Conns, Read(k) PROVE Unread'
  <2>1. /\ UNCHANGED sent
        /\ \A i \in DOMAIN up'[k] :
              i \in Nat /\ i + 1 \in DOMAIN up[k] /\ up'[k][i] = up[k][i + 1]
        /\ \A l \in Conns : l # k => up'[l] = up[l]
    BY <1>2, ReadFacts
  <2>2. ASSUME NEW i \in DOMAIN up'[k], up'[k][i].half = "tail",
               NEW j \in DOMAIN up'[k], i < j, up'[k][j].half = "tail"
        PROVE  up'[k][i].msg.n < up'[k][j].msg.n
    <3>1. /\ i + 1 \in DOMAIN up[k] /\ up'[k][i] = up[k][i + 1]
          /\ j + 1 \in DOMAIN up[k] /\ up'[k][j] = up[k][j + 1] /\ i + 1 < j + 1
      BY <2>1, <2>2
    <3> QED BY <2>2, <3>1 DEF Unread
  <2>3. ASSUME NEW i \in DOMAIN up'[k], up'[k][i].half = "tail"
        PROVE  up'[k][i].msg \in Elements(sent[k])
    BY <2>1, <2>3 DEF Unread
  <2> QED BY <2>1, <2>2, <2>3 DEF Unread
<1>3. CASE (\A c \in Clients : ~ Send(c)) /\ (\A k \in Conns : ~ Read(k))
  BY <1>3, UpFacts DEF Unread
<1> QED BY <1>1, <1>2, <1>3

LEMMA StreamFacts ==
    ASSUME NEW S, NEW a \in Seq(S), NEW b \in Seq(S)
    PROVE  /\ DOMAIN (a \o b) = 1 .. Len(a) + Len(b) /\ Len(a) \in Nat /\ Len(b) \in Nat
           /\ \A i \in 1 .. Len(a) : (a \o b)[i] = a[i]
           /\ \A i \in 1 .. Len(b) : (a \o b)[Len(a) + i] = b[i]
OBVIOUS

\* What is broadcast or to be broadcast: the stream is kept, cut, or, by Read,
\* continued with a complete line.
LEMMA StreamStep ==
    ASSUME TypeOK, [Next]_vars
    PROVE  \/ \A i \in DOMAIN Stream' : i \in DOMAIN Stream /\ Stream'[i] = Stream[i]
           \/ \E k \in Conns :
                 /\ Read(k) /\ up[k][1].half = "tail"
                 /\ \A i \in DOMAIN Stream' :
                       \/ i \in DOMAIN Stream /\ Stream'[i] = Stream[i]
                       \/ /\ Stream'[i] = up[k][1].msg
                          /\ \A j \in DOMAIN Stream' : ~ (i < j)
<1>0. log \in Seq(Message) /\ bq \in Seq(Message)
  BY DEF TypeOK
<1>1. CASE UNCHANGED <<log, bq>>
  BY <1>1 DEF Stream
<1>2. CASE Pop
  <2>1. /\ log' = Append(log, Head(bq)) /\ bq' = Tail(bq) /\ bq # <<>>
    BY <1>2 DEF Pop
  <2>2. /\ DOMAIN Stream = 1 .. Len(log) + Len(bq) /\ Len(log) \in Nat /\ Len(bq) \in Nat
        /\ \A i \in 1 .. Len(log) : Stream[i] = log[i]
        /\ \A i \in 1 .. Len(bq) : Stream[Len(log) + i] = bq[i]
    BY <1>0, StreamFacts DEF Stream
  <2>3. /\ log' \in Seq(Message) /\ bq' \in Seq(Message) /\ Len(log') = Len(log) + 1
        /\ Len(bq') = Len(bq) - 1 /\ Len(bq) >= 1
        /\ \A i \in 1 .. Len(log) : log'[i] = log[i]
        /\ log'[Len(log) + 1] = bq[1]
        /\ \A i \in 1 .. Len(bq) - 1 : bq'[i] = bq[i + 1]
    <3>1. /\ Head(bq) \in Message /\ Head(bq) = bq[1] /\ Tail(bq) \in Seq(Message)
          /\ \A i \in 1 .. Len(bq) - 1 : Tail(bq)[i] = bq[i + 1]
      BY <1>0, <2>1, TailFacts
    <3>2. Len(Tail(bq)) = Len(bq) - 1 /\ Len(bq) >= 1
      BY <1>0, <2>1
    <3> QED BY <1>0, <2>1, <3>1, <3>2, AppendFacts
  <2>4. /\ DOMAIN Stream' = 1 .. Len(log') + Len(bq')
        /\ \A i \in 1 .. Len(log') : Stream'[i] = log'[i]
        /\ \A i \in 1 .. Len(bq') : Stream'[Len(log') + i] = bq'[i]
    <3>1. Stream' = log' \o bq'
      BY DEF Stream
    <3>2. log' \in Seq(Message) /\ bq' \in Seq(Message)
      BY <2>3
    <3>3. /\ DOMAIN (log' \o bq') = 1 .. Len(log') + Len(bq')
          /\ \A i \in 1 .. Len(log') : (log' \o bq')[i] = log'[i]
          /\ \A i \in 1 .. Len(bq') : (log' \o bq')[Len(log') + i] = bq'[i]
      BY <3>2, StreamFacts
    <3> QED BY <3>1, <3>3
  <2>5. ASSUME NEW i \in DOMAIN Stream' PROVE i \in DOMAIN Stream /\ Stream'[i] = Stream[i]
    <3>1. i \in 1 .. Len(log) + Len(bq)
      BY <2>2, <2>3, <2>4
    <3>2. CASE i \in 1 .. Len(log)
      BY <2>2, <2>3, <2>4, <3>1, <3>2
    <3>3. CASE i = Len(log) + 1
      <4>1. Stream'[i] = bq[1]
        BY <2>2, <2>3, <2>4, <3>3
      <4>2. Stream[Len(log) + 1] = bq[1]
        BY <2>2, <2>3
      <4> QED BY <2>2, <3>1, <3>3, <4>1, <4>2
    <3>4. CASE i \in Len(log) + 2 .. Len(log) + Len(bq)
      <4>1. PICK j \in 1 .. Len(bq) - 1 : i = Len(log) + 1 + j
        <5>1. i - Len(log) - 1 \in 1 .. Len(bq) - 1
          BY <2>2, <3>4
        <5>2. i \in Int /\ Len(log) \in Int
          BY <2>2, <3>4
        <5>3. i = Len(log) + 1 + (i - Len(log) - 1)
          BY <5>2
        <5> QED BY <5>1, <5>3
      <4>2. Stream'[i] = bq[j + 1]
        BY <2>2, <2>3, <2>4, <4>1
      <4>3. Stream[Len(log) + (j + 1)] = bq[j + 1] /\ i = Len(log) + (j + 1)
        BY <2>2, <4>1
      <4> QED BY <2>2, <3>1, <4>2, <4>3
    <3> QED BY <2>2, <3>1, <3>2, <3>3, <3>4
  <2> QED BY <2>5
<1>3. CASE ServerStops
  <2>1. log' = log /\ bq' = <<>>
    BY <1>3 DEF ServerStops
  <2>2. Stream' = log
    BY <1>0, <2>1 DEF Stream
  <2> QED BY <1>0, <2>2, StreamFacts DEF Stream
<1>4. ASSUME NEW k \in Conns, Read(k), up[k][1].half = "tail",
             bq' = Append(bq, up[k][1].msg), log' = log, up[k][1].msg \in Message
      PROVE  \A i \in DOMAIN Stream' :
                \/ i \in DOMAIN Stream /\ Stream'[i] = Stream[i]
                \/ /\ Stream'[i] = up[k][1].msg
                   /\ \A j \in DOMAIN Stream' : ~ (i < j)
  <2>1. /\ DOMAIN Stream = 1 .. Len(log) + Len(bq) /\ Len(log) \in Nat /\ Len(bq) \in Nat
        /\ \A i \in 1 .. Len(log) : Stream[i] = log[i]
        /\ \A i \in 1 .. Len(bq) : Stream[Len(log) + i] = bq[i]
    BY <1>0, StreamFacts DEF Stream
  <2>2. /\ bq' \in Seq(Message) /\ Len(bq') = Len(bq) + 1
        /\ \A i \in 1 .. Len(bq) : bq'[i] = bq[i]
        /\ bq'[Len(bq) + 1] = up[k][1].msg
    BY <1>0, <1>4, AppendFacts
  <2>3. /\ DOMAIN Stream' = 1 .. Len(log) + Len(bq')
        /\ \A i \in 1 .. Len(log) : Stream'[i] = log[i]
        /\ \A i \in 1 .. Len(bq') : Stream'[Len(log) + i] = bq'[i]
    BY <1>0, <1>4, <2>2, StreamFacts DEF Stream
  <2> TAKE i \in DOMAIN Stream'
  <2>4. CASE i \in 1 .. Len(log)
    BY <2>1, <2>3, <2>4
  <2>5. CASE i \in Len(log) + 1 .. Len(log) + Len(bq)
    <3>1. PICK j \in 1 .. Len(bq) : i = Len(log) + j
      <4>1. i - Len(log) \in 1 .. Len(bq)
        BY <2>1, <2>5
      <4> QED BY <2>1, <2>5, <4>1
    <3>2. Stream'[i] = bq[j] /\ Stream[i] = bq[j]
      BY <2>1, <2>2, <2>3, <3>1
    <3> QED BY <2>1, <2>5, <3>2
  <2>6. CASE i = Len(log) + (Len(bq) + 1)
    BY <2>1, <2>2, <2>3, <2>6
  <2>7. \/ i \in 1 .. Len(log) \/ i \in Len(log) + 1 .. Len(log) + Len(bq)
        \/ i = Len(log) + (Len(bq) + 1)
    BY <2>1, <2>2, <2>3
  <2> QED BY <2>4, <2>5, <2>6, <2>7
<1>5. ASSUME NEW k \in Conns, Read(k)
      PROVE  \/ UNCHANGED <<log, bq>>
             \/ /\ up[k][1].half = "tail" /\ bq' = Append(bq, up[k][1].msg)
                /\ log' = log /\ up[k][1].msg \in Message
  BY <1>5, ReadFacts
<1>6. ASSUME NEW c \in Clients, Emit(c) \/ Leave(c) \/ Loop(c) PROVE UNCHANGED <<log, bq>>
  BY <1>6 DEF Emit, Leave, Loop, Connect, Drop, Send, SendFails, Receive, ReceiveEnd, server
<1>7. ASSUME Server \/ UNCHANGED vars, ~ Pop, \A k \in Conns : ~ Read(k)
      PROVE  UNCHANGED <<log, bq>>
  BY <1>7 DEF Server, Accept, ReadEnd, Write, WriteFails, WriterDone, ServerStarts, vars
<1> QED BY <1>1, <1>2, <1>3, <1>4, <1>5, <1>6, <1>7 DEF Next

LEMMA BroadcastStep ==
    TypeOK /\ Fresh /\ OInv /\ [Next]_vars => Broadcast'
<1> SUFFICES ASSUME TypeOK, Fresh, OInv, [Next]_vars PROVE Broadcast'
  OBVIOUS
<1>0. Queued /\ Sent /\ Unread /\ Broadcast
  BY DEF OInv
<1>1. ASSUME NEW c \in Clients, Send(c) PROVE Broadcast'
  <2>0. PICK k \in Conns, m \in Message : Sends(c, k, m)
    BY <1>0, <1>1, SendFacts
  <2>1. /\ up' = [up EXCEPT ![k] = up[k] \o Line(m)]
        /\ Elements(sent'[k]) = Elements(sent[k]) \cup {m}
        /\ \A l \in Conns : l # k => sent'[l] = sent[l]
        /\ \A l \in Conns : m \notin Elements(sent[l])
        /\ \A x \in Elements(sent[k]) : x.from = c /\ x.n < m.n
        /\ UNCHANGED <<log, bq>>
    BY <2>0 DEF Sends
  <2>2. Stream' = Stream
    BY <2>1 DEF Stream
  <2>3. \A i \in DOMAIN Stream : \E l \in Conns : Stream[i] \in Elements(sent[l])
    BY <1>0 DEF Broadcast
  <2>4. \A l \in Conns : Elements(sent[l]) \subseteq Elements(sent'[l])
    BY <2>1
  <2>5. \A i \in DOMAIN Stream : \A l \in Conns :
           Stream[i] \in Elements(sent'[l]) => Stream[i] \in Elements(sent[l])
    BY <2>1, <2>3
  <2>6. \A l \in Conns : \A j \in DOMAIN up'[l] : up'[l][j].half = "tail" =>
           \/ j \in DOMAIN up[l] /\ up'[l][j] = up[l][j]
           \/ l = k /\ up'[l][j].msg = m
    <3> TAKE l \in Conns
    <3> TAKE j \in DOMAIN up'[l]
    <3>1. CASE l # k
      BY <2>1, <3>1 DEF TypeOK
    <3>2. CASE l = k
      <4>1. up[k] \in Seq(Parts(Message)) /\ up'[k] = up[k] \o Line(m)
        BY <2>1 DEF TypeOK
      <4>2. /\ DOMAIN up[k] = 1 .. Len(up[k]) /\ DOMAIN up'[k] = 1 .. Len(up[k]) + 2
            /\ Len(up[k]) \in Nat
            /\ \A i \in 1 .. Len(up[k]) : up'[k][i] = up[k][i]
            /\ up'[k][Len(up[k]) + 1] = Part(m, "head")
            /\ up'[k][Len(up[k]) + 2] = Part(m, "tail")
        BY <4>1, LineFacts
      <4>3. j \in 1 .. Len(up[k]) \/ j = Len(up[k]) + 1 \/ j = Len(up[k]) + 2
        BY <3>2, <4>2
      <4> QED BY <3>2, <4>2, <4>3 DEF Part
    <3> QED BY <3>1, <3>2
  <2>7. ASSUME NEW l \in Conns, NEW i \in DOMAIN Stream, Stream[i] \in Elements(sent'[l])
        PROVE  /\ \A j \in DOMAIN Stream : i < j /\ Stream[j] \in Elements(sent'[l]) =>
                     Stream[i].n < Stream[j].n
               /\ \A j \in DOMAIN up'[l] :
                     up'[l][j].half = "tail" => Stream[i].n < up'[l][j].msg.n
    <3>1. Stream[i] \in Elements(sent[l])
      BY <2>5, <2>7
    <3>2. \A j \in DOMAIN Stream : i < j /\ Stream[j] \in Elements(sent'[l]) =>
             Stream[i].n < Stream[j].n
      BY <1>0, <2>5, <3>1 DEF Broadcast
    <3>3. ASSUME NEW j \in DOMAIN up'[l], up'[l][j].half = "tail"
          PROVE  Stream[i].n < up'[l][j].msg.n
      <4>1. CASE j \in DOMAIN up[l] /\ up'[l][j] = up[l][j]
        BY <1>0, <3>1, <3>3, <4>1 DEF Broadcast
      <4>2. CASE l = k /\ up'[l][j].msg = m
        BY <2>1, <3>1, <4>2
      <4> QED BY <2>6, <3>3, <4>1, <4>2
    <3> QED BY <3>2, <3>3
  <2>8. \A i \in DOMAIN Stream' : \E l \in Conns : Stream'[i] \in Elements(sent'[l])
    BY <2>2, <2>3, <2>4
  <2>9. \A l \in Conns : \A i \in DOMAIN Stream' : Stream'[i] \in Elements(sent'[l]) =>
           /\ \A j \in DOMAIN Stream' : i < j /\ Stream'[j] \in Elements(sent'[l]) =>
                 Stream'[i].n < Stream'[j].n
           /\ \A j \in DOMAIN up'[l] :
                 up'[l][j].half = "tail" => Stream'[i].n < up'[l][j].msg.n
    BY <2>2, <2>7
  <2> QED BY <2>8, <2>9 DEF Broadcast
<1>2. ASSUME UNCHANGED sent,
             \A l \in Conns : \A j \in DOMAIN up'[l] : up'[l][j].half = "tail" =>
                \E h \in DOMAIN up[l] : up'[l][j] = up[l][h],
             \A i \in DOMAIN Stream' : i \in DOMAIN Stream /\ Stream'[i] = Stream[i]
      PROVE  Broadcast'
  <2>1. ASSUME NEW l \in Conns, NEW i \in DOMAIN Stream', Stream'[i] \in Elements(sent[l])
        PROVE  /\ \A j \in DOMAIN Stream' : i < j /\ Stream'[j] \in Elements(sent[l]) =>
                     Stream'[i].n < Stream'[j].n
               /\ \A j \in DOMAIN up'[l] :
                     up'[l][j].half = "tail" => Stream'[i].n < up'[l][j].msg.n
    BY <1>0, <1>2, <2>1 DEF Broadcast
  <2>2. \A i \in DOMAIN Stream' : \E l \in Conns : Stream'[i] \in Elements(sent[l])
    BY <1>0, <1>2 DEF Broadcast
  <2> QED BY <1>2, <2>1, <2>2 DEF Broadcast
<1>3. ASSUME NEW k \in Conns, Read(k) PROVE Broadcast'
  <2>1. /\ UNCHANGED sent /\ 1 \in DOMAIN up[k]
        /\ \A i \in DOMAIN up'[k] :
              1 < i + 1 /\ i + 1 \in DOMAIN up[k] /\ up'[k][i] = up[k][i + 1]
        /\ \A l \in Conns : l # k => up'[l] = up[l]
    BY <1>3, ReadFacts
  <2>2. ASSUME NEW l \in Conns, NEW j \in DOMAIN up'[l]
        PROVE  \E h \in DOMAIN up[l] : up'[l][j] = up[l][h] /\ (l = k => 1 < h)
    <3>1. CASE l = k
      BY <2>1, <2>2, <3>1
    <3>2. CASE l # k
      BY <2>1, <2>2, <3>2
    <3> QED BY <3>1, <3>2
  <2>3. CASE \A i \in DOMAIN Stream' : i \in DOMAIN Stream /\ Stream'[i] = Stream[i]
    BY <1>2, <2>1, <2>2, <2>3
  <2>4. ASSUME up[k][1].half = "tail",
               \A i \in DOMAIN Stream' :
                  \/ i \in DOMAIN Stream /\ Stream'[i] = Stream[i]
                  \/ /\ Stream'[i] = up[k][1].msg
                     /\ \A j \in DOMAIN Stream' : ~ (i < j)
        PROVE  Broadcast'
    <3>1. up[k][1].msg \in Elements(sent[k])
      BY <1>0, <2>1, <2>4 DEF Unread
    <3>2. \A i \in DOMAIN Stream' : \E l \in Conns : Stream'[i] \in Elements(sent[l])
      BY <1>0, <2>4, <3>1 DEF Broadcast
    <3>3. ASSUME NEW l \in Conns, NEW i \in DOMAIN Stream', Stream'[i] \in Elements(sent[l]),
                 NEW j \in DOMAIN Stream', i < j, Stream'[j] \in Elements(sent[l])
          PROVE  Stream'[i].n < Stream'[j].n
      <4>1. i \in DOMAIN Stream /\ Stream'[i] = Stream[i]
        BY <2>4, <3>3
      <4>2. CASE j \in DOMAIN Stream /\ Stream'[j] = Stream[j]
        BY <1>0, <3>3, <4>1, <4>2 DEF Broadcast
      <4>3. CASE Stream'[j] = up[k][1].msg
        <5>1. l = k
          BY <1>0, <3>1, <3>3, <4>3 DEF Sent
        <5> QED BY <1>0, <2>1, <2>4, <3>3, <4>1, <4>3, <5>1 DEF Broadcast
      <4> QED BY <2>4, <4>2, <4>3
    <3>4. ASSUME NEW l \in Conns, NEW i \in DOMAIN Stream', Stream'[i] \in Elements(sent[l]),
                 NEW j \in DOMAIN up'[l], up'[l][j].half = "tail"
          PROVE  Stream'[i].n < up'[l][j].msg.n
      <4>1. PICK h \in DOMAIN up[l] : up'[l][j] = up[l][h] /\ (l = k => 1 < h)
        BY <2>2, <3>4
      <4>2. CASE i \in DOMAIN Stream /\ Stream'[i] = Stream[i]
        BY <1>0, <3>4, <4>1, <4>2 DEF Broadcast
      <4>3. CASE Stream'[i] = up[k][1].msg
        <5>1. l = k
          BY <1>0, <3>1, <3>4, <4>3 DEF Sent
        <5> QED BY <1>0, <2>1, <2>4, <3>4, <4>1, <4>3, <5>1 DEF Unread
      <4> QED BY <2>4, <4>2, <4>3
    <3> QED BY <2>1, <3>2, <3>3, <3>4 DEF Broadcast
  <2>5. ASSUME NEW l \in Conns, Read(l), l # k PROVE FALSE
    <3>1. up'[l] = up[l] /\ up[l] # <<>> /\ up[l] \in Seq(Parts(Message))
          /\ up' = [up EXCEPT ![l] = Tail(up[l])]
      BY <2>1, <2>5, ReadFacts
    <3>2. up'[l] = Tail(up[l])
      BY <3>1 DEF TypeOK
    <3>3. Len(up[l]) \in Nat /\ Len(Tail(up[l])) = Len(up[l]) - 1
      BY <3>1
    <3>4. up[l] = Tail(up[l])
      BY <3>1, <3>2
    <3>5. Len(up[l]) = Len(Tail(up[l]))
      BY <3>4
    <3> QED BY <3>3, <3>5
  <2> QED BY <2>3, <2>4, <2>5, StreamStep
<1>4. CASE (\A c \in Clients : ~ Send(c)) /\ (\A k \in Conns : ~ Read(k))
  <2>1. \A i \in DOMAIN Stream' : i \in DOMAIN Stream /\ Stream'[i] = Stream[i]
    BY <1>4, StreamStep
  <2> QED BY <1>2, <1>4, <2>1, UpFacts
<1> QED BY <1>1, <1>3, <1>4

LEMMA Invariance == Spec => []IInv
<1>1. Init => IInv
  <2>1. Init => Fresh /\ Order
    BY CallosumAssumption DEF Init, Fresh, Order, Rising, LastHeard
  <2> QED BY <2>1, TypeInit DEF IInv
<1>2. IInv /\ [Next]_vars => IInv'
  BY TypeStep, FreshStep, OrderStep DEF IInv
<1> QED BY <1>1, <1>2, PTL DEF Spec

\* Every reachable state of the bus is well typed.
THEOREM TypeCorrect == Spec => []TypeOK
<1>1. IInv => TypeOK
  BY DEF IInv
<1> QED BY <1>1, Invariance, PTL

\* The server with its writer thread, its connections and their buffers
\* implements LossyBus: every client hears a part of one sequence of messages,
\* in its order, none twice.
THEOREM OneOrder == Spec => OneOrderForAll
<1>1. Init => Bus!Init
  BY DEF Init, Bus!Init
<1>2. IInv /\ [Next]_vars => [Bus!Next]_<<log, heard>>
  <2> SUFFICES ASSUME IInv, [Next]_vars, ~UNCHANGED <<log, heard>> PROVE Bus!Next
    OBVIOUS
  <2>1. CASE Pop
    <3>1. Head(bq) \in Message
      BY <2>1 DEF Pop, IInv, TypeOK
    <3> QED BY <2>1, <3>1 DEF Pop, Bus!Next, Bus!Publish, client
  <2>2. ASSUME NEW c \in Clients, Receive(c) PROVE Bus!Next
    <3>1. PICK k \in Conns :
            /\ \/ UNCHANGED heard
               \/ heard' = [heard EXCEPT ![c] = Append(@, Head(down[k]).msg)]
            /\ Head(down[k]).msg \in DOMAIN log
            /\ Head(down[k]).msg > LastHeard(c)
            /\ UNCHANGED log
      BY <2>2, ReceiveFacts DEF IInv
    <3> QED BY <3>1 DEF Bus!Next, Bus!Hear, Bus!LastHeard, LastHeard
  <2>3. ASSUME NEW c \in Clients, Loop(c), ~Receive(c) PROVE UNCHANGED <<log, heard>>
    BY <2>3 DEF Loop, Connect, Drop, Send, SendFails, ReceiveEnd, server
  <2>4. ASSUME Server, ~Pop PROVE UNCHANGED <<log, heard>>
    BY <2>4 DEF Server, Accept, Read, ReadEnd, Write, WriteFails, WriterDone,
         ServerStarts, client
  <2>5. ASSUME NEW c \in Clients, Emit(c) \/ Leave(c) PROVE UNCHANGED <<log, heard>>
    BY <2>5 DEF Emit, Leave, server
  <2>6. ServerStops \/ UNCHANGED vars => UNCHANGED <<log, heard>>
    BY DEF ServerStops, client, vars
  <2> QED BY <2>1, <2>2, <2>3, <2>4, <2>5, <2>6 DEF Next
<1> QED BY <1>1, <1>2, Invariance, PTL DEF Spec, OneOrderForAll, Bus!Spec

LEMMA SentInvariance == Spec => [](IInv /\ OInv)
<1>1. Init => IInv /\ OInv
  <2>1. Init => Queued /\ Sent /\ Unread
    BY DEF Init, Queued, Sent, Unread, Elements
  <2>2. Init => Broadcast
    <3>1. Init => Stream = <<>>
      BY DEF Init, Stream
    <3> QED BY <3>1 DEF Broadcast
  <2>3. Init => Fresh /\ Order
    BY CallosumAssumption DEF Init, Fresh, Order, Rising, LastHeard
  <2> QED BY <2>1, <2>2, <2>3, TypeInit DEF IInv, OInv
<1>2. IInv /\ OInv /\ [Next]_vars => (IInv /\ OInv)'
  <2>1. IInv /\ OInv /\ [Next]_vars => IInv'
    BY TypeStep, FreshStep, OrderStep DEF IInv
  <2>2. IInv /\ OInv /\ [Next]_vars => OInv'
    BY QueuedStep, SentStep, UnreadStep, BroadcastStep DEF IInv, OInv
  <2> QED BY <2>1, <2>2
<1> QED BY <1>1, <1>2, PTL DEF Spec

\* The log is the first part of what is broadcast or to be broadcast.
LEMMA LogInStream ==
    TypeOK => \A i \in DOMAIN log : i \in DOMAIN Stream /\ Stream[i] = log[i]
<1> SUFFICES ASSUME TypeOK, NEW i \in DOMAIN log
             PROVE  i \in DOMAIN Stream /\ Stream[i] = log[i]
  OBVIOUS
<1>1. log \in Seq(Message) /\ bq \in Seq(Message)
  BY DEF TypeOK
<1>2. /\ DOMAIN Stream = 1 .. Len(log) + Len(bq) /\ Len(log) \in Nat /\ Len(bq) \in Nat
      /\ \A h \in 1 .. Len(log) : Stream[h] = log[h]
  BY <1>1, StreamFacts DEF Stream
<1>3. DOMAIN log = 1 .. Len(log)
  BY <1>1
<1> QED BY <1>2, <1>3

LEMMA LogWasSent ==
    IInv /\ OInv => \A i \in DOMAIN log : \E k \in Conns : log[i] \in Elements(sent[k])
BY LogInStream DEF IInv, OInv, Broadcast

LEMMA OrderedWhenSent == IInv /\ OInv => SentOnceInOrder
<1> SUFFICES ASSUME TypeOK, Broadcast, IInv, OInv,
                    NEW i \in DOMAIN log, NEW j \in DOMAIN log, i < j
             PROVE  /\ log[i] # log[j]
                    /\ \A k \in Conns : {log[i], log[j]} \subseteq Elements(sent[k]) =>
                          log[i].n < log[j].n
  BY DEF IInv, OInv, SentOnceInOrder
<1>1. /\ i \in DOMAIN Stream /\ Stream[i] = log[i]
      /\ j \in DOMAIN Stream /\ Stream[j] = log[j]
  BY LogInStream
<1>2. \A k \in Conns : {log[i], log[j]} \subseteq Elements(sent[k]) =>
         log[i].n < log[j].n
  BY <1>1 DEF Broadcast
<1>3. PICK k \in Conns : log[i] \in Elements(sent[k])
  BY LogWasSent
<1>4. log[i].n \in Nat
  <2>1. log[i] \in Message
    BY DEF TypeOK
  <2> QED BY <2>1, MessageFacts
<1>5. log[i] # log[j]
  BY <1>2, <1>3, <1>4
<1> QED BY <1>2, <1>5

\* A message is broadcast once, and those that a client sent on one connection
\* are broadcast in its order, whatever is cut, dropped or restarted.
THEOREM InOrder == Spec => []SentOnceInOrder
BY SentInvariance, OrderedWhenSent, PTL

-----------------------------------------------------------------------------
(* What a client hears *)

\* What each client has heard are places of the log, each after the last.
Ascending ==
    \A c \in Clients :
        /\ \A i \in DOMAIN heard[c] : heard[c][i] \in DOMAIN log
        /\ \A i, j \in DOMAIN heard[c] : i < j => heard[c][i] < heard[c][j]

\* What a callback is given is what some client emitted and a connection
\* carried, never the same message twice, and what came by one connection in
\* the order of its sender.
HeardWasSent ==
    \A c \in Clients : \A i \in DOMAIN heard[c] :
        /\ heard[c][i] \in DOMAIN log
        /\ log[heard[c][i]].n <= emitted[log[heard[c][i]].from]
        /\ \E k \in Conns : log[heard[c][i]] \in Elements(sent[k])
        /\ \A j \in DOMAIN heard[c] : i < j =>
              /\ log[heard[c][i]] # log[heard[c][j]]
              /\ \A k \in Conns :
                    {log[heard[c][i]], log[heard[c][j]]} \subseteq Elements(sent[k]) =>
                        log[heard[c][i]].n < log[heard[c][j]].n

Ends(k) == {i \in DOMAIN down[k] : down[k][i].half = "tail"}

\* The places that a client has heard or is still to hear.
OnTheWay(c) ==
    Elements(heard[c])
        \cup {down[conn[c]][i].msg : i \in Ends(conn[c])}
        \cup {p \in DOMAIN log : /\ writer # None
                                 /\ conn[c] \in writer.to /\ p = writer.place}

\* From the first message that it hears, a connected client hears them all,
\* as long as nothing fails.
HearsEverything ==
    faults = 0 => \A c \in Clients :
        /\ \A i \in DOMAIN heard[c] : i + 1 \in DOMAIN heard[c] =>
              heard[c][i + 1] = heard[c][i] + 1
        /\ Linked(c) => \A p \in Elements(heard[c]) : \A q \in DOMAIN log :
              p < q => q \in OnTheWay(c)

\* What a client holds of a line and what its connection holds are whole lines.
Framed(c) ==
    LET d == down[conn[c]] IN
    /\ \A i \in DOMAIN d : d[i].half = "head" =>
          i + 1 \in DOMAIN d /\ d[i + 1] = Part(d[i].msg, "tail")
    /\ \A i \in DOMAIN d : d[i].half = "tail" /\ i > 1 =>
          d[i - 1] = Part(d[i].msg, "head")
    /\ cbuf[c] = IF d # <<>> /\ d[1].half = "tail"
                 THEN <<Part(d[1].msg, "head")>> ELSE <<>>

\* Before anything fails every connection has its client and stays open, a
\* client that is not yet accepted has heard nothing, and one that is has been
\* left out of no broadcast since.
Steady ==
    /\ \A k \in Conns : k <= conns => side[k] \in {"backlog", "open"} /\ Owner(k) # {}
    /\ writer # None => \A k \in writer.to : side[k] = "open"
    /\ dead = {}
    /\ \A c \in Clients : ~ Linked(c) =>
          /\ heard[c] = <<>> /\ cbuf[c] = <<>>
          /\ conn[c] # None => down[conn[c]] = <<>>
    /\ \A c \in Clients : Linked(c) =>
          /\ Framed(c)
          /\ \A p \in OnTheWay(c) : \A q \in DOMAIN log : p < q => q \in OnTheWay(c)

SInv == faults = 0 => Steady

LEMMA HeardStep ==
    ASSUME IInv, [Next]_vars
    PROVE  /\ \A i \in DOMAIN log : i \in DOMAIN log' /\ log'[i] = log[i]
           /\ \A c \in Clients :
                 \/ heard'[c] = heard[c]
                 \/ \E p \in DOMAIN log :
                       p > LastHeard(c) /\ heard'[c] = Append(heard[c], p)
<1>0. TypeOK /\ Order
  BY DEF IInv
<1>1. CASE Pop
  <2>1. log \in Seq(Message) /\ Head(bq) \in Message /\ log' = Append(log, Head(bq))
    BY <1>0, <1>1 DEF Pop, TypeOK
  <2> QED BY <1>1, <2>1, AppendFacts DEF Pop, client
<1>2. ASSUME NEW c \in Clients, Receive(c)
      PROVE  /\ log' = log
             /\ \A d \in Clients :
                   \/ heard'[d] = heard[d]
                   \/ \E p \in DOMAIN log :
                         p > LastHeard(d) /\ heard'[d] = Append(heard[d], p)
  <2>1. PICK k \in Conns :
          /\ \/ UNCHANGED heard
             \/ heard' = [heard EXCEPT ![c] = Append(@, Head(down[k]).msg)]
          /\ Head(down[k]).msg \in DOMAIN log
          /\ Head(down[k]).msg > LastHeard(c)
          /\ UNCHANGED log
    BY <1>0, <1>2, ReceiveFacts
  <2> QED BY <1>0, <2>1 DEF TypeOK
<1>3. ASSUME NEW c \in Clients, Loop(c), ~ Receive(c) PROVE UNCHANGED <<log, heard>>
  BY <1>3 DEF Loop, Connect, Drop, Send, SendFails, ReceiveEnd, server
<1>4. ASSUME Server, ~ Pop PROVE UNCHANGED <<log, heard>>
  BY <1>4 DEF Server, Accept, Read, ReadEnd, Write, WriteFails, WriterDone,
       ServerStarts, client
<1>5. ASSUME NEW c \in Clients, Emit(c) \/ Leave(c) PROVE UNCHANGED <<log, heard>>
  BY <1>5 DEF Emit, Leave, server
<1>6. ServerStops \/ UNCHANGED vars => UNCHANGED <<log, heard>>
  BY DEF ServerStops, client, vars
<1> QED BY <1>1, <1>2, <1>3, <1>4, <1>5, <1>6 DEF Next

LEMMA AscendingStep == IInv /\ Ascending /\ [Next]_vars => Ascending'
<1> SUFFICES ASSUME IInv, Ascending, [Next]_vars, NEW c \in Clients
             PROVE  /\ \A i \in DOMAIN heard'[c] : heard'[c][i] \in DOMAIN log'
                    /\ \A i, j \in DOMAIN heard'[c] : i < j => heard'[c][i] < heard'[c][j]
  BY DEF Ascending
<1>1. /\ \A i \in DOMAIN log : i \in DOMAIN log'
      /\ heard[c] \in Seq(Nat) /\ log \in Seq(Message)
  BY HeardStep DEF IInv, TypeOK
<1>2. /\ \A i \in DOMAIN heard[c] : heard[c][i] \in DOMAIN log
      /\ \A i, j \in DOMAIN heard[c] : i < j => heard[c][i] < heard[c][j]
  BY DEF Ascending
<1>3. CASE heard'[c] = heard[c]
  BY <1>1, <1>2, <1>3
<1>4. ASSUME NEW p \in DOMAIN log, p > LastHeard(c), heard'[c] = Append(heard[c], p)
      PROVE  /\ \A i \in DOMAIN heard'[c] : heard'[c][i] \in DOMAIN log'
             /\ \A i, j \in DOMAIN heard'[c] : i < j => heard'[c][i] < heard'[c][j]
  <2>1. p \in Nat
    BY <1>1
  <2>2. /\ DOMAIN heard[c] = 1 .. Len(heard[c]) /\ Len(heard[c]) \in Nat
        /\ DOMAIN heard'[c] = 1 .. Len(heard[c]) + 1
        /\ \A i \in 1 .. Len(heard[c]) : heard'[c][i] = heard[c][i]
        /\ heard'[c][Len(heard[c]) + 1] = p
    BY <1>1, <1>4, <2>1, AppendFacts
  <2>3. \A i \in 1 .. Len(heard[c]) : heard[c][i] \in Nat /\ heard[c][i] < p
    <3> TAKE i \in 1 .. Len(heard[c])
    <3>1. heard[c] # <<>> /\ LastHeard(c) = heard[c][Len(heard[c])]
      BY <1>1, <2>2 DEF LastHeard
    <3>2. heard[c][i] \in Nat /\ heard[c][Len(heard[c])] \in Nat
      BY <1>1, <2>2
    <3>3. i = Len(heard[c]) \/ heard[c][i] < heard[c][Len(heard[c])]
      BY <1>2, <2>2
    <3> QED BY <1>4, <2>1, <3>1, <3>2, <3>3
  <2>4. \A i \in DOMAIN heard'[c] : i \in 1 .. Len(heard[c]) \/ i = Len(heard[c]) + 1
    BY <2>2
  <2>5. \A i \in DOMAIN heard'[c] : heard'[c][i] \in DOMAIN log'
    BY <1>1, <1>2, <1>4, <2>2, <2>4
  <2>6. ASSUME NEW i \in DOMAIN heard'[c], NEW j \in DOMAIN heard'[c], i < j
        PROVE  heard'[c][i] < heard'[c][j]
    <3>1. i \in 1 .. Len(heard[c])
      BY <2>2, <2>6
    <3>2. CASE j \in 1 .. Len(heard[c])
      BY <1>2, <2>2, <2>6, <3>1, <3>2
    <3>3. CASE j = Len(heard[c]) + 1
      BY <2>2, <2>3, <3>1, <3>3
    <3> QED BY <2>4, <3>2, <3>3
  <2> QED BY <2>5, <2>6
<1> QED BY <1>3, <1>4, HeardStep

LEMMA AscendingInvariance == Spec => []Ascending
<1>1. Init => Ascending
  BY DEF Init, Ascending
<1> QED BY <1>1, AscendingStep, Invariance, PTL DEF Spec

\* Whatever is cut, dropped or restarted, a client's callback is given only
\* messages that were emitted and sent, each once, and those that one client
\* sent on one connection in its order.
THEOREM HeardIsSent == Spec => []HeardWasSent
<1>1. IInv /\ OInv /\ Ascending => HeardWasSent
  <2> SUFFICES ASSUME IInv, OInv, Ascending, NEW c \in Clients, NEW i \in DOMAIN heard[c]
               PROVE  /\ heard[c][i] \in DOMAIN log
                      /\ log[heard[c][i]].n <= emitted[log[heard[c][i]].from]
                      /\ \E k \in Conns : log[heard[c][i]] \in Elements(sent[k])
                      /\ \A j \in DOMAIN heard[c] : i < j =>
                            /\ log[heard[c][i]] # log[heard[c][j]]
                            /\ \A k \in Conns :
                                  {log[heard[c][i]], log[heard[c][j]]}
                                        \subseteq Elements(sent[k]) =>
                                      log[heard[c][i]].n < log[heard[c][j]].n
    BY DEF HeardWasSent
  <2>1. heard[c][i] \in DOMAIN log
    BY DEF Ascending
  <2>2. \E k \in Conns : log[heard[c][i]] \in Elements(sent[k])
    BY <2>1, LogWasSent
  <2>3. log[heard[c][i]].n <= emitted[log[heard[c][i]].from]
    BY <2>2 DEF OInv, Sent
  <2>4. ASSUME NEW j \in DOMAIN heard[c], i < j
        PROVE  heard[c][j] \in DOMAIN log /\ heard[c][i] < heard[c][j]
    BY <2>4 DEF Ascending
  <2>5. SentOnceInOrder
    BY OrderedWhenSent
  <2> QED BY <2>1, <2>2, <2>3, <2>4, <2>5 DEF SentOnceInOrder
<1> QED BY <1>1, SentInvariance, AscendingInvariance, PTL

-----------------------------------------------------------------------------
(* Nothing is skipped while nothing fails *)

LEMMA FaultsStay == TypeOK /\ [Next]_vars /\ faults' = 0 => faults = 0
<1> SUFFICES ASSUME TypeOK, [Next]_vars PROVE faults' = faults \/ faults' = faults + 1
  BY DEF TypeOK
<1>1. ASSUME NEW c \in Clients, Emit(c) \/ Loop(c) \/ Leave(c)
      PROVE  faults' = faults \/ faults' = faults + 1
  BY <1>1 DEF Emit, Loop, Leave, Connect, Drop, Send, SendFails, Receive, ReceiveEnd
<1>2. CASE Server \/ ServerStops \/ UNCHANGED vars
  BY <1>2 DEF Server, ServerStops, Accept, Read, ReadEnd, Write, WriteFails, Pop,
       WriterDone, ServerStarts, vars
<1> QED BY <1>1, <1>2 DEF Next

\* Only these steps touch what the clients hear before anything fails.
LEMMA SteadySteps ==
    ASSUME IInv, Steady, faults = 0, faults' = 0, [Next]_vars
    PROVE  \/ UNCHANGED <<conn, conns, cbuf, down, side, writer, dead, log, heard>>
           \/ \E c \in Clients : Connect(c) \/ Receive(c)
           \/ \E k \in Conns : Accept(k) \/ Write(k)
           \/ Pop \/ WriterDone
<1> DEFINE Goal == \/ UNCHANGED <<conn, conns, cbuf, down, side, writer, dead, log, heard>>
                   \/ \E c \in Clients : Connect(c) \/ Receive(c)
                   \/ \E k \in Conns : Accept(k) \/ Write(k)
                   \/ Pop \/ WriterDone
<1> SUFFICES Goal
  OBVIOUS
<1>1. \A k \in Conns : side[k] # "none" => side[k] # "closed" /\ Owner(k) # {}
  <2> TAKE k \in Conns
  <2>1. k > conns \/ k <= conns
    BY DEF IInv, TypeOK, Conns
  <2> QED BY <2>1 DEF IInv, Fresh, Steady
<1>2. \A c \in Clients : conn[c] # None => conn[c] \in Conns /\ side[conn[c]] # "closed"
  <2> TAKE c \in Clients
  <2> HAVE conn[c] # None
  <2>1. conn[c] \in Conns
    BY DEF IInv, TypeOK
  <2>2. conn[c] <= conns
    BY DEF IInv, Fresh
  <2> QED BY <2>1, <2>2 DEF Steady
<1>3. ASSUME NEW c \in Clients PROVE ~ SendFails(c) /\ ~ ReceiveEnd(c) /\ ~ Leave(c)
  BY <1>2 DEF SendFails, ReceiveEnd, Leave
<1>4. ASSUME NEW c \in Clients, Emit(c) \/ Drop(c) \/ Send(c) PROVE Goal
  BY <1>4 DEF Emit, Drop, Send, server
<1>5. ASSUME NEW k \in Conns PROVE ~ ReadEnd(k) /\ ~ WriteFails(k)
  <2>1. ~ ReadEnd(k)
    BY <1>1 DEF ReadEnd
  <2>2. writer # None /\ k \in writer.to => side[k] = "open" /\ Owner(k) # {}
    BY <1>1 DEF Steady
  <2> QED BY <2>1, <2>2 DEF WriteFails
<1>6. ASSUME NEW k \in Conns, Read(k) PROVE Goal
  BY <1>6 DEF Read, client
<1>7. ServerStarts \/ UNCHANGED vars => Goal
  BY DEF ServerStarts, client, vars
<1>8. ~ ServerStops
  BY DEF ServerStops
<1> QED BY <1>3, <1>4, <1>5, <1>6, <1>7, <1>8 DEF Next, Loop, Server

\* A client for which nothing has changed is as it was.
LEMMA SameWay ==
    ASSUME NEW c \in Clients, TypeOK,
           conn'[c] = conn[c], cbuf'[c] = cbuf[c], heard'[c] = heard[c], log' = log,
           conn[c] # None =>
              /\ down'[conn[c]] = down[conn[c]]
              /\ side'[conn[c]] = side[conn[c]]
              /\ (writer' # None /\ conn[c] \in writer'.to) <=>
                     (writer # None /\ conn[c] \in writer.to)
              /\ writer # None /\ conn[c] \in writer.to => writer'.place = writer.place
    PROVE  /\ Linked(c)' <=> Linked(c)
           /\ Linked(c) => /\ Framed(c)' <=> Framed(c)
                           /\ OnTheWay(c)' = OnTheWay(c)
<1>1. Linked(c)' <=> Linked(c)
  BY DEF Linked
<1>2. ASSUME Linked(c) PROVE Framed(c)' <=> Framed(c)
  BY <1>2 DEF Linked, Framed
<1>3. ASSUME Linked(c) PROVE OnTheWay(c)' = OnTheWay(c)
  BY <1>3 DEF Linked, OnTheWay, Ends, Elements
<1> QED BY <1>1, <1>2, <1>3

LEMMA ConnectSteady ==
    ASSUME IInv, Steady, NEW c \in Clients, Connect(c)
    PROVE  Steady'
<1> USE CallosumAssumption
<1>0. TypeOK /\ Fresh
  BY DEF IInv
<1>1. /\ conn[c] = None /\ conns \in Nat /\ conns' = conns + 1 /\ conns + 1 \in Conns
      /\ conn' = [conn EXCEPT ![c] = conns + 1]
      /\ side' = [side EXCEPT ![conns + 1] = "backlog"]
      /\ UNCHANGED <<cbuf, down, writer, dead, log, heard>>
  BY <1>0 DEF Connect, TypeOK, Conns
<1>2. side[conns + 1] = "none" /\ down[conns + 1] = <<>>
  BY <1>0, <1>1 DEF Fresh
<1>3. \A k \in Conns : k <= conns' => side'[k] \in {"backlog", "open"} /\ Owner(k)' # {}
  <2> TAKE k \in Conns
  <2>1. CASE k = conns + 1
    <3>1. conn'[c] = k /\ side'[k] = "backlog"
      BY <1>0, <1>1, <2>1 DEF TypeOK
    <3> QED BY <3>1 DEF Owner
  <2>2. CASE k <= conns
    <3>1. PICK d \in Clients : conn[d] = k
      BY <2>2 DEF Steady, Owner
    <3>2. d # c
      BY <1>1, <3>1 DEF Conns
    <3>3. conn'[d] = k
      BY <1>0, <1>1, <3>1, <3>2 DEF TypeOK
    <3>4. side'[k] = side[k]
      BY <1>0, <1>1, <2>2 DEF TypeOK, Conns
    <3> QED BY <2>2, <3>3, <3>4 DEF Steady, Owner
  <2> QED BY <1>1, <2>1, <2>2 DEF Conns
<1>4. writer' # None => \A k \in writer'.to : side'[k] = "open"
  <2>1. writer # None => writer.to \subseteq Conns
    BY <1>0 DEF TypeOK
  <2> QED BY <1>0, <1>1, <1>2, <2>1 DEF Steady, TypeOK
<1>5. /\ ~ Linked(c) /\ ~ Linked(c)' /\ heard[c] = <<>> /\ cbuf[c] = <<>>
      /\ conn'[c] = conns + 1
  <2>1. ~ Linked(c) /\ conn'[c] = conns + 1 /\ side'[conns + 1] = "backlog"
    BY <1>0, <1>1 DEF Linked, TypeOK
  <2> QED BY <2>1 DEF Linked, Steady
<1>6. ASSUME NEW d \in Clients, d # c
      PROVE  /\ conn'[d] = conn[d]
             /\ Linked(d)' <=> Linked(d)
             /\ Linked(d) => (Framed(d)' <=> Framed(d)) /\ OnTheWay(d)' = OnTheWay(d)
  <2>1. conn'[d] = conn[d]
    BY <1>0, <1>1, <1>6 DEF TypeOK
  <2>2. ASSUME conn[d] # None PROVE side'[conn[d]] = side[conn[d]]
    <3>1. conn[d] \in Conns /\ conn[d] <= conns
      BY <1>0, <2>2 DEF TypeOK, Fresh
    <3> QED BY <1>0, <1>1, <3>1 DEF TypeOK, Conns
  <2>3. /\ Linked(d)' <=> Linked(d)
        /\ Linked(d) => (Framed(d)' <=> Framed(d)) /\ OnTheWay(d)' = OnTheWay(d)
    BY <1>0, <1>1, <2>1, <2>2, SameWay
  <2> QED BY <2>1, <2>3
<1>7. ASSUME NEW d \in Clients, ~ Linked(d)'
      PROVE  /\ heard'[d] = <<>> /\ cbuf'[d] = <<>>
             /\ conn'[d] # None => down'[conn'[d]] = <<>>
  BY <1>1, <1>2, <1>5, <1>6, <1>7 DEF Steady
<1>8. ASSUME NEW d \in Clients, Linked(d)'
      PROVE  /\ Framed(d)'
             /\ \A p \in OnTheWay(d)' : \A q \in DOMAIN log' : p < q => q \in OnTheWay(d)'
  BY <1>1, <1>5, <1>6, <1>8 DEF Steady
<1> QED BY <1>1, <1>3, <1>4, <1>7, <1>8 DEF Steady

LEMMA AcceptSteady ==
    ASSUME IInv, Steady, NEW k \in Conns, Accept(k)
    PROVE  Steady'
<1>0. TypeOK /\ Fresh
  BY DEF IInv
<1>1. /\ side[k] = "backlog" /\ side' = [side EXCEPT ![k] = "open"]
      /\ UNCHANGED <<conn, conns, cbuf, down, writer, dead, log, heard>>
  BY DEF Accept, client
<1>2. \A l \in Conns : l <= conns' => side'[l] \in {"backlog", "open"} /\ Owner(l)' # {}
  BY <1>0, <1>1 DEF Steady, TypeOK, Owner
<1>3. writer' # None => \A l \in writer'.to : side'[l] = "open"
  <2>1. writer # None => writer.to \subseteq Conns
    BY <1>0 DEF TypeOK
  <2> QED BY <1>0, <1>1, <2>1 DEF Steady, TypeOK
<1>4. ASSUME NEW d \in Clients, conn[d] # k
      PROVE  /\ Linked(d)' <=> Linked(d)
             /\ Linked(d) => (Framed(d)' <=> Framed(d)) /\ OnTheWay(d)' = OnTheWay(d)
  <2>1. conn[d] # None => side'[conn[d]] = side[conn[d]]
    BY <1>0, <1>1, <1>4 DEF TypeOK
  <2> QED BY <1>0, <1>1, <2>1, SameWay
<1>5. ASSUME NEW d \in Clients, conn[d] = k
      PROVE  Linked(d)' /\ Framed(d)' /\ OnTheWay(d)' = {}
  <2>1. k # None
    BY CallosumAssumption DEF Conns
  <2>2. heard[d] = <<>> /\ cbuf[d] = <<>> /\ down[k] = <<>>
    BY <1>1, <1>5, <2>1 DEF Steady, Linked
  <2>3. Linked(d)'
    BY <1>0, <1>1, <1>5, <2>1 DEF Linked, TypeOK
  <2>4. DOMAIN <<>> = {}
    OBVIOUS
  <2>5. Framed(d)'
    BY <1>1, <1>5, <2>2, <2>4 DEF Framed
  <2>6. ~ (writer # None /\ k \in writer.to)
    BY <1>1 DEF Steady
  <2>7. OnTheWay(d)' = {}
    BY <1>1, <1>5, <2>2, <2>4, <2>6 DEF OnTheWay, Ends, Elements
  <2> QED BY <2>3, <2>5, <2>7
<1>6. ASSUME NEW d \in Clients, ~ Linked(d)'
      PROVE  /\ heard'[d] = <<>> /\ cbuf'[d] = <<>>
             /\ conn'[d] # None => down'[conn'[d]] = <<>>
  <2>1. conn[d] # k
    BY <1>5, <1>6
  <2> QED BY <1>1, <1>4, <1>6, <2>1 DEF Steady
<1>7. ASSUME NEW d \in Clients, Linked(d)'
      PROVE  /\ Framed(d)'
             /\ \A p \in OnTheWay(d)' : \A q \in DOMAIN log' : p < q => q \in OnTheWay(d)'
  <2>1. CASE conn[d] = k
    BY <1>5, <2>1
  <2>2. CASE conn[d] # k
    BY <1>1, <1>4, <1>7, <2>2 DEF Steady
  <2> QED BY <2>1, <2>2
<1> QED BY <1>1, <1>2, <1>3, <1>6, <1>7 DEF Steady

LEMMA PopSteady == ASSUME IInv, Steady, Pop PROVE Steady'
<1>0. TypeOK /\ Fresh
  BY DEF IInv
<1>1. /\ writer = None
      /\ writer' = [place |-> Len(log) + 1, to |-> {k \in Conns : side[k] = "open"}]
      /\ writer' # None
      /\ UNCHANGED <<conn, conns, cbuf, down, side, dead, heard>>
  <2>1. /\ writer' = [place |-> Len(log) + 1, to |-> {k \in Conns : side[k] = "open"}]
        /\ Len(log) + 1 \in Nat
    BY <1>0 DEF Pop, TypeOK
  <2>2. writer' \in [place : Nat, to : SUBSET Nat]
    BY <2>1 DEF Conns
  <2> QED BY <2>1, <2>2, NoneAssumption DEF Pop, client
<1>2. /\ Len(log) \in Nat /\ DOMAIN log = 1 .. Len(log)
      /\ DOMAIN log' = 1 .. Len(log) + 1
  <2>1. log \in Seq(Message) /\ Head(bq) \in Message /\ log' = Append(log, Head(bq))
    BY <1>0 DEF Pop, TypeOK
  <2> QED BY <2>1, AppendFacts
<1>3. \A k \in Conns : k <= conns' => side'[k] \in {"backlog", "open"} /\ Owner(k)' # {}
  BY <1>1 DEF Steady, Owner
<1>4. \A k \in writer'.to : side'[k] = "open"
  BY <1>1
<1>5. ASSUME NEW d \in Clients, ~ Linked(d)'
      PROVE  /\ heard'[d] = <<>> /\ cbuf'[d] = <<>>
             /\ conn'[d] # None => down'[conn'[d]] = <<>>
  BY <1>1, <1>5 DEF Steady, Linked
<1>6. ASSUME NEW d \in Clients, Linked(d)'
      PROVE  /\ Framed(d)'
             /\ \A p \in OnTheWay(d)' : \A q \in DOMAIN log' : p < q => q \in OnTheWay(d)'
  <2>1. Linked(d)
    BY <1>1, <1>6 DEF Linked
  <2>2. Framed(d)'
    BY <1>1, <2>1 DEF Steady, Framed
  <2>3. conn[d] \in writer'.to
    BY <1>0, <1>1, <2>1 DEF Linked, TypeOK
  <2>4. OnTheWay(d)' = OnTheWay(d) \cup {Len(log) + 1}
    BY <1>1, <1>2, <2>3 DEF OnTheWay, Ends, Elements
  <2>5. ASSUME NEW p \in OnTheWay(d)', NEW q \in DOMAIN log', p < q
        PROVE  q \in OnTheWay(d)'
    <3>1. CASE q = Len(log) + 1
      BY <2>4, <3>1
    <3>2. CASE q \in DOMAIN log
      <4>1. p # Len(log) + 1
        BY <1>2, <2>5, <3>2
      <4> QED BY <2>1, <2>4, <2>5, <3>2, <4>1 DEF Steady
    <3> QED BY <1>2, <3>1, <3>2
  <2> QED BY <2>2, <2>5
<1> QED BY <1>1, <1>3, <1>4, <1>5, <1>6 DEF Steady

LEMMA WriterDoneSteady == ASSUME IInv, Steady, WriterDone PROVE Steady'
<1>0. TypeOK
  BY DEF IInv
<1>1. /\ writer # None /\ writer.to = {} /\ writer' = None
      /\ UNCHANGED <<conn, conns, cbuf, down, side, dead, log, heard>>
  BY <1>0 DEF WriterDone, Steady, TypeOK, client
<1>2. ASSUME NEW d \in Clients
      PROVE  /\ Linked(d)' <=> Linked(d)
             /\ Linked(d) => (Framed(d)' <=> Framed(d)) /\ OnTheWay(d)' = OnTheWay(d)
  BY <1>0, <1>1, SameWay
<1> QED BY <1>1, <1>2 DEF Steady, Owner

LEMMA StillSteady ==
    ASSUME IInv, Steady,
           UNCHANGED <<conn, conns, cbuf, down, side, writer, dead, log, heard>>
    PROVE  Steady'
<1>1. ASSUME NEW d \in Clients
      PROVE  /\ Linked(d)' <=> Linked(d)
             /\ Linked(d) => (Framed(d)' <=> Framed(d)) /\ OnTheWay(d)' = OnTheWay(d)
  BY SameWay DEF IInv
<1> QED BY <1>1 DEF Steady, Owner

LEMMA WriteSteady ==
    ASSUME IInv, Steady, NEW k \in Conns, Write(k)
    PROVE  Steady'
<1>0. TypeOK /\ Fresh
  BY DEF IInv
<1> DEFINE d == down[k]
           e == down'[k]
           m == writer.place
<1>1. /\ writer # None /\ k \in writer.to /\ side[k] = "open"
      /\ m \in Nat /\ m \in DOMAIN log
      /\ writer' = [writer EXCEPT !.to = @ \ {k}]
      /\ UNCHANGED <<conn, conns, cbuf, side, dead, log, heard>>
  <2>1. m = Len(log) /\ log # <<>> /\ log \in Seq(Message) /\ writer # None
    BY <1>0 DEF Write, IInv, Order, TypeOK
  <2>2. m \in Nat /\ m \in DOMAIN log
    BY <2>1
  <2> QED BY <2>2 DEF Write, Written, client
<1>2. /\ down' = [down EXCEPT ![k] = down[k] \o Line(m)]
      /\ e = d \o Line(m) /\ d \in Seq(Parts(Nat))
  BY <1>0 DEF Write, TypeOK
<1>3. /\ writer' # None /\ writer'.place = m /\ writer'.to = writer.to \ {k}
  <2>1. writer \in [place : Nat, to : SUBSET Conns]
    BY <1>0, <1>1 DEF TypeOK
  <2>2. writer' \in [place : Nat, to : SUBSET Nat]
    BY <1>1, <2>1 DEF Conns
  <2> QED BY <1>1, <2>1, <2>2, NoneAssumption
<1>4. /\ DOMAIN d = 1 .. Len(d) /\ Len(d) \in Nat /\ DOMAIN e = 1 .. Len(d) + 2
      /\ \A i \in 1 .. Len(d) : e[i] = d[i]
      /\ e[Len(d) + 1] = Part(m, "head") /\ e[Len(d) + 2] = Part(m, "tail")
  <2>1. m \in Nat
    BY <1>1
  <2>2. d \in Seq(Parts(Nat)) /\ e = d \o Line(m)
    BY <1>2
  <2> HIDE DEF d, e, m
  <2> QED BY <2>1, <2>2, PlaceLineFacts
<1> HIDE DEF d, e, m
<1>5. \A i \in DOMAIN e : i \in 1 .. Len(d) \/ i = Len(d) + 1 \/ i = Len(d) + 2
  BY <1>4
<1>6. ASSUME NEW c \in Clients, conn[c] # k
      PROVE  /\ Linked(c)' <=> Linked(c)
             /\ Linked(c) => (Framed(c)' <=> Framed(c)) /\ OnTheWay(c)' = OnTheWay(c)
  <2>1. conn[c] # None => down'[conn[c]] = down[conn[c]]
    BY <1>0, <1>2, <1>6 DEF TypeOK
  <2> QED BY <1>0, <1>1, <1>3, <1>6, <2>1, SameWay DEF m
<1>7. ASSUME NEW c \in Clients, conn[c] = k
      PROVE  Linked(c) /\ Linked(c)' /\ Framed(c)' /\ OnTheWay(c)' = OnTheWay(c)
  <2>1. Linked(c) /\ Linked(c)'
    BY <1>1, <1>7, CallosumAssumption DEF Linked, Conns
  <2>2. /\ \A i \in DOMAIN d : d[i].half = "head" =>
              i + 1 \in DOMAIN d /\ d[i + 1] = Part(d[i].msg, "tail")
        /\ \A i \in DOMAIN d : d[i].half = "tail" /\ i > 1 =>
              d[i - 1] = Part(d[i].msg, "head")
        /\ cbuf[c] = IF d # <<>> /\ d[1].half = "tail"
                     THEN <<Part(d[1].msg, "head")>> ELSE <<>>
    BY <1>7, <2>1 DEF Steady, Framed, d
  <2>3. ASSUME NEW i \in DOMAIN e, e[i].half = "head"
        PROVE  i + 1 \in DOMAIN e /\ e[i + 1] = Part(e[i].msg, "tail")
    <3>1. CASE i \in 1 .. Len(d)
      BY <1>4, <2>2, <2>3, <3>1
    <3>2. CASE i = Len(d) + 1
      BY <1>4, <3>2 DEF Part
    <3>3. i # Len(d) + 2
      BY <1>4, <2>3 DEF Part
    <3> QED BY <1>5, <3>1, <3>2, <3>3
  <2>4. ASSUME NEW i \in DOMAIN e, e[i].half = "tail", i > 1
        PROVE  e[i - 1] = Part(e[i].msg, "head")
    <3>1. CASE i \in 1 .. Len(d)
      <4>1. i - 1 \in 1 .. Len(d)
        BY <1>4, <2>4, <3>1
      <4> QED BY <1>4, <2>2, <2>4, <3>1, <4>1
    <3>2. CASE i = Len(d) + 2
      BY <1>4, <3>2 DEF Part
    <3>3. i # Len(d) + 1
      BY <1>4, <2>4 DEF Part
    <3> QED BY <1>5, <3>1, <3>2, <3>3
  <2>5. cbuf'[c] = IF e # <<>> /\ e[1].half = "tail"
                   THEN <<Part(e[1].msg, "head")>> ELSE <<>>
    <3>1. e # <<>>
      BY <1>4
    <3>2. CASE d = <<>>
      <4>1. Len(d) = 0
        BY <3>2
      <4>2. e[1] = Part(m, "head")
        BY <1>4, <4>1
      <4> QED BY <1>1, <2>2, <3>2, <4>2 DEF Part
    <3>3. CASE d # <<>>
      <4>1. 1 \in 1 .. Len(d)
        BY <1>2, <1>4, <3>3
      <4> QED BY <1>1, <1>4, <2>2, <3>1, <3>3, <4>1
    <3> QED BY <3>2, <3>3
  <2>6. Framed(c)'
    BY <1>1, <1>7, <2>3, <2>4, <2>5 DEF Framed, e
  <2>7. {e[i].msg : i \in {j \in DOMAIN e : e[j].half = "tail"}} =
           {d[i].msg : i \in {j \in DOMAIN d : d[j].half = "tail"}} \cup {m}
    <3>1. \A i \in {j \in DOMAIN e : e[j].half = "tail"} :
             e[i].msg = m \/ (i \in DOMAIN d /\ d[i].half = "tail" /\ d[i].msg = e[i].msg)
      BY <1>4, <1>5 DEF Part
    <3>2. \A i \in {j \in DOMAIN d : d[j].half = "tail"} :
             i \in DOMAIN e /\ e[i].half = "tail" /\ d[i].msg = e[i].msg
      BY <1>4
    <3>3. Len(d) + 2 \in DOMAIN e /\ e[Len(d) + 2].half = "tail" /\ e[Len(d) + 2].msg = m
      BY <1>4 DEF Part
    <3> QED BY <3>1, <3>2, <3>3
  <2>8. /\ {p \in DOMAIN log : writer # None /\ k \in writer.to /\ p = writer.place} = {m}
        /\ {p \in DOMAIN log : writer' # None /\ k \in writer'.to /\ p = writer'.place} = {}
    BY <1>1, <1>3 DEF m
  <2>9. OnTheWay(c)' = OnTheWay(c)
    BY <1>1, <1>7, <2>7, <2>8 DEF OnTheWay, Ends, Elements, d, e
  <2> QED BY <2>1, <2>6, <2>9
<1>8. \A l \in Conns : l <= conns' => side'[l] \in {"backlog", "open"} /\ Owner(l)' # {}
  BY <1>1 DEF Steady, Owner
<1>9. \A l \in writer'.to : side'[l] = "open"
  BY <1>1, <1>3 DEF Steady
<1>10. ASSUME NEW c \in Clients, ~ Linked(c)'
       PROVE  /\ heard'[c] = <<>> /\ cbuf'[c] = <<>>
              /\ conn'[c] # None => down'[conn'[c]] = <<>>
  <2>1. conn[c] # k /\ ~ Linked(c)
    BY <1>6, <1>7, <1>10
  <2>2. conn[c] # None => down'[conn[c]] = down[conn[c]]
    BY <1>0, <1>2, <2>1 DEF TypeOK
  <2> QED BY <1>1, <2>1, <2>2 DEF Steady
<1>11. ASSUME NEW c \in Clients, Linked(c)'
       PROVE  /\ Framed(c)'
              /\ \A p \in OnTheWay(c)' : \A q \in DOMAIN log' : p < q => q \in OnTheWay(c)'
  <2>1. Linked(c) /\ Framed(c)' /\ OnTheWay(c)' = OnTheWay(c)
    BY <1>6, <1>7, <1>11 DEF Steady
  <2> QED BY <1>1, <2>1 DEF Steady
<1> QED BY <1>1, <1>8, <1>9, <1>10, <1>11 DEF Steady

LEMMA ReceiveSteady ==
    ASSUME IInv, Steady, NEW c \in Clients, Receive(c)
    PROVE  Steady'
<1>0. TypeOK /\ Fresh /\ Order
  BY DEF IInv
<1>1. PICK k \in Conns :
        /\ k = conn[c] /\ k # None /\ down[k] # <<>> /\ down[k] \in Seq(Parts(Nat))
        /\ down' = [down EXCEPT ![k] = Tail(down[k])]
        /\ UNCHANGED <<conn, conns, side, writer, dead, log>>
  BY <1>0 DEF Receive, TypeOK, server
<1> DEFINE d == down[k]
           e == down'[k]
<1>2. /\ d # <<>> /\ d \in Seq(Parts(Nat)) /\ e = Tail(d)
  BY <1>0, <1>1 DEF TypeOK
<1>3. /\ 1 \in DOMAIN d /\ Head(d) = d[1] /\ d[1] \in Parts(Nat) /\ Len(d) \in Nat
      /\ DOMAIN d = 1 .. Len(d) /\ DOMAIN e = 1 .. Len(d) - 1
      /\ \A i \in DOMAIN e : i + 1 \in DOMAIN d /\ e[i] = d[i + 1]
  BY <1>2, TailFacts
<1>4. /\ cbuf' = [cbuf EXCEPT ![c] = IF d[1].half = "head" THEN Append(cbuf[c], d[1]) ELSE <<>>]
      /\ IF d[1].half # "head" /\ Whole(Append(cbuf[c], d[1]))
         THEN heard' = [heard EXCEPT ![c] = Append(@, d[1].msg)]
         ELSE heard' = heard
  BY <1>1, <1>3 DEF Receive
<1>5. Linked(c) /\ Linked(c)' /\ conn[c] = k
  BY <1>1, <1>2 DEF Steady, Linked
<1>6. /\ \A i \in DOMAIN d : d[i].half = "head" =>
            i + 1 \in DOMAIN d /\ d[i + 1] = Part(d[i].msg, "tail")
      /\ \A i \in DOMAIN d : d[i].half = "tail" /\ i > 1 =>
            d[i - 1] = Part(d[i].msg, "head")
      /\ cbuf[c] = IF d[1].half = "tail" THEN <<Part(d[1].msg, "head")>> ELSE <<>>
  BY <1>2, <1>5 DEF Steady, Framed
<1> HIDE DEF d, e
<1>7. d[1].msg \in Nat /\ d[1] = Part(d[1].msg, d[1].half) /\ d[1].half \in Half
  BY <1>3 DEF Parts, Part
<1>8. heard[c] \in Seq(Nat) /\ cbuf'[c] = IF d[1].half = "head" THEN <<d[1]>> ELSE <<>>
  <2>1. d[1].half = "head" => Append(cbuf[c], d[1]) = <<d[1]>>
    <3> HAVE d[1].half = "head"
    <3>1. cbuf[c] = <<>>
      BY <1>6
    <3> QED BY <3>1
  <2> QED BY <1>0, <1>4, <2>1 DEF TypeOK
<1>9. /\ d[1].half = "head" => heard'[c] = heard[c]
      /\ d[1].half = "tail" => heard'[c] = Append(heard[c], d[1].msg)
  <2>1. ASSUME d[1].half = "tail" PROVE Whole(Append(cbuf[c], d[1]))
    <3>0. cbuf[c] = <<Part(d[1].msg, "head")>>
      BY <1>6, <2>1
    <3>1. Append(cbuf[c], d[1]) = <<Part(d[1].msg, "head"), d[1]>>
      <4>1. d[1] \in Parts(Nat) /\ Part(d[1].msg, "head") \in Parts(Nat)
        BY <1>3, <1>7 DEF Parts, Part, Half
      <4> QED BY <3>0, <4>1, AppendToOne
    <3>2. Append(cbuf[c], d[1]) = Line(d[1].msg)
      BY <1>7, <2>1, <3>1 DEF Line
    <3>3. Append(cbuf[c], d[1])[1].msg = d[1].msg
      BY <3>1 DEF Part
    <3> QED BY <3>2, <3>3 DEF Whole
  <2> QED BY <1>0, <1>4, <2>1 DEF TypeOK
<1>10. Framed(c)'
  <2>1. ASSUME NEW i \in DOMAIN e, e[i].half = "head"
        PROVE  i + 1 \in DOMAIN e /\ e[i + 1] = Part(e[i].msg, "tail")
    <3>1. i + 1 \in DOMAIN d /\ e[i] = d[i + 1] /\ i \in 1 .. Len(d) - 1
      BY <1>3
    <3>2. i + 1 + 1 \in DOMAIN d /\ d[i + 1 + 1] = Part(e[i].msg, "tail")
      BY <1>6, <2>1, <3>1
    <3>3. i + 1 \in DOMAIN e
      BY <1>3, <3>1, <3>2
    <3> QED BY <1>3, <3>2, <3>3
  <2>2. ASSUME NEW i \in DOMAIN e, e[i].half = "tail", i > 1
        PROVE  e[i - 1] = Part(e[i].msg, "head")
    <3>1. i + 1 \in DOMAIN d /\ e[i] = d[i + 1] /\ i - 1 \in DOMAIN e
      BY <1>3, <2>2
    <3>2. d[(i + 1) - 1] = Part(e[i].msg, "head")
      BY <1>3, <1>6, <2>2, <3>1
    <3>3. e[i - 1] = d[(i - 1) + 1] /\ (i - 1) + 1 = (i + 1) - 1
      BY <1>3, <3>1
    <3> QED BY <3>2, <3>3
  <2>3. cbuf'[c] = IF e # <<>> /\ e[1].half = "tail"
                   THEN <<Part(e[1].msg, "head")>> ELSE <<>>
    <3>1. CASE d[1].half = "head"
      <4>1. 2 \in DOMAIN d /\ d[2] = Part(d[1].msg, "tail")
        BY <1>3, <1>6, <3>1
      <4>2. 1 \in DOMAIN e /\ e[1] = Part(d[1].msg, "tail") /\ e # <<>>
        <5>1. 1 \in DOMAIN e
          BY <1>3, <4>1
        <5> QED BY <1>3, <4>1, <5>1
      <4> QED BY <1>7, <1>8, <3>1, <4>2 DEF Part
    <3>2. CASE d[1].half = "tail"
      <4>1. ASSUME e # <<>> PROVE e[1].half # "tail"
        <5>1. e \in Seq(Parts(Nat))
          BY <1>2, TailFacts DEF d
        <5>2. 1 \in DOMAIN e
          BY <4>1, <5>1
        <5>3. e[1] = d[2] /\ 2 \in DOMAIN d
          BY <1>3, <5>2
        <5>4. d[2].half = "tail" => d[1] = Part(d[2].msg, "head")
          BY <1>6, <5>3
        <5> QED BY <3>2, <5>3, <5>4 DEF Part
      <4> QED BY <1>8, <3>2, <4>1
    <3> QED BY <1>7, <3>1, <3>2 DEF Half
  <2> QED BY <1>1, <2>1, <2>2, <2>3 DEF Framed, e
<1>11. OnTheWay(c)' = OnTheWay(c)
  <2> DEFINE old == {d[i].msg : i \in {j \in DOMAIN d : d[j].half = "tail"}}
             new == {e[i].msg : i \in {j \in DOMAIN e : e[j].half = "tail"}}
  <2>1. \A i \in {j \in DOMAIN e : e[j].half = "tail"} :
           i + 1 \in DOMAIN d /\ d[i + 1].half = "tail" /\ d[i + 1].msg = e[i].msg
    BY <1>3
  <2>2. \A i \in {j \in DOMAIN d : d[j].half = "tail"} :
           i = 1 \/ (i - 1 \in DOMAIN e /\ e[i - 1].half = "tail" /\ e[i - 1].msg = d[i].msg)
    <3> TAKE i \in {j \in DOMAIN d : d[j].half = "tail"}
    <3>1. ASSUME i # 1 PROVE i - 1 \in DOMAIN e /\ (i - 1) + 1 = i
      BY <1>3, <3>1
    <3> QED BY <1>3, <3>1
  <2>3. d[1].half = "tail" => old = new \cup {d[1].msg}
    <3> HAVE d[1].half = "tail"
    <3> QED BY <1>3, <2>1, <2>2
  <2>4. d[1].half = "head" => old = new
    BY <2>1, <2>2
  <2>5. /\ d[1].half = "head" => Elements(heard'[c]) = Elements(heard[c])
        /\ d[1].half = "tail" =>
              Elements(heard'[c]) = Elements(heard[c]) \cup {d[1].msg}
    <3>1. Elements(Append(heard[c], d[1].msg)) = Elements(heard[c]) \cup {d[1].msg}
      BY <1>7, <1>8, ElementsFacts
    <3>2. d[1].half = "tail" =>
             Elements(heard'[c]) = Elements(Append(heard[c], d[1].msg))
      BY <1>9
    <3> QED BY <1>9, <3>1, <3>2
  <2> HIDE DEF old, new
  <2>6. Elements(heard'[c]) \cup new = Elements(heard[c]) \cup old
    BY <1>7, <2>3, <2>4, <2>5 DEF Half
  <2>7. /\ OnTheWay(c) = (Elements(heard[c]) \cup old)
              \cup {p \in DOMAIN log : writer # None /\ k \in writer.to /\ p = writer.place}
        /\ OnTheWay(c)' = (Elements(heard'[c]) \cup new)
              \cup {p \in DOMAIN log : writer # None /\ k \in writer.to /\ p = writer.place}
    BY <1>1, <1>5 DEF OnTheWay, Ends, Elements, old, new, d, e
  <2> QED BY <2>6, <2>7
<1>12. ASSUME NEW b \in Clients, b # c
       PROVE  /\ heard'[b] = heard[b] /\ cbuf'[b] = cbuf[b]
              /\ conn[b] # None => down'[conn[b]] = down[conn[b]]
              /\ Linked(b)' <=> Linked(b)
              /\ Linked(b) => (Framed(b)' <=> Framed(b)) /\ OnTheWay(b)' = OnTheWay(b)
  <2>1. heard'[b] = heard[b] /\ cbuf'[b] = cbuf[b]
    BY <1>0, <1>4, <1>12 DEF TypeOK
  <2>2. ASSUME conn[b] # None PROVE down'[conn[b]] = down[conn[b]]
    <3>1. conn[b] # k
      BY <1>0, <1>5, <1>12, <2>2 DEF Fresh
    <3> QED BY <1>0, <1>1, <3>1 DEF TypeOK
  <2>3. /\ Linked(b)' <=> Linked(b)
        /\ Linked(b) => (Framed(b)' <=> Framed(b)) /\ OnTheWay(b)' = OnTheWay(b)
    BY <1>0, <1>1, <2>1, <2>2, SameWay
  <2> QED BY <2>1, <2>2, <2>3
<1>13. /\ \A l \in Conns : l <= conns' => side'[l] \in {"backlog", "open"} /\ Owner(l)' # {}
       /\ writer' # None => \A l \in writer'.to : side'[l] = "open"
       /\ dead' = {}
  BY <1>1 DEF Steady, Owner
<1>14. ASSUME NEW b \in Clients, ~ Linked(b)'
       PROVE  /\ heard'[b] = <<>> /\ cbuf'[b] = <<>>
              /\ conn'[b] # None => down'[conn'[b]] = <<>>
  BY <1>1, <1>5, <1>12, <1>14 DEF Steady
<1>15. ASSUME NEW b \in Clients, Linked(b)'
       PROVE  /\ Framed(b)'
              /\ \A p \in OnTheWay(b)' : \A q \in DOMAIN log' : p < q => q \in OnTheWay(b)'
  BY <1>1, <1>5, <1>10, <1>11, <1>12, <1>15 DEF Steady
<1> QED BY <1>13, <1>14, <1>15 DEF Steady

LEMMA SteadyInvariance == Spec => []SInv
<1>1. Init => SInv
  <2> SUFFICES ASSUME Init PROVE Steady
    BY DEF SInv
  <2>1. \A c \in Clients : heard[c] = <<>> /\ cbuf[c] = <<>> /\ conn[c] = None
    BY DEF Init
  <2>2. conns = 0 /\ writer = None /\ dead = {} /\ \A k \in Conns : ~ (k <= conns)
    BY DEF Init, Conns
  <2> QED BY <2>1, <2>2 DEF Steady, Linked
<1>2. IInv /\ SInv /\ [Next]_vars => SInv'
  <2> SUFFICES ASSUME IInv, Steady, faults = 0, faults' = 0, [Next]_vars PROVE Steady'
    BY FaultsStay DEF SInv, IInv
  <2> QED BY SteadySteps, ConnectSteady, ReceiveSteady, AcceptSteady, WriteSteady,
             PopSteady, WriterDoneSteady, StillSteady
<1> QED BY <1>1, <1>2, Invariance, PTL DEF Spec

\* As long as no send times out and no process ends, a client hears the
\* broadcasts without a gap, and what follows the first that it hears is heard,
\* on its connection or about to be written to it.
THEOREM NothingSkipped == Spec => []HearsEverything
<1>1. IInv /\ Ascending /\ SInv => HearsEverything
  <2> SUFFICES ASSUME IInv, Ascending, Steady, NEW c \in Clients
               PROVE  /\ \A i \in DOMAIN heard[c] : i + 1 \in DOMAIN heard[c] =>
                            heard[c][i + 1] = heard[c][i] + 1
                      /\ Linked(c) => \A p \in Elements(heard[c]) : \A q \in DOMAIN log :
                            p < q => q \in OnTheWay(c)
    BY DEF SInv, HearsEverything
  <2>0. TypeOK /\ Order
    BY DEF IInv
  <2>1. Linked(c) => \A p \in Elements(heard[c]) : \A q \in DOMAIN log :
           p < q => q \in OnTheWay(c)
    BY DEF Steady, OnTheWay
  <2>2. ASSUME NEW i \in DOMAIN heard[c], i + 1 \in DOMAIN heard[c],
               heard[c][i + 1] # heard[c][i] + 1
        PROVE  FALSE
    <3> DEFINE p == heard[c][i]
               r == heard[c][i + 1]
               q == p + 1
    <3>1. /\ DOMAIN heard[c] = 1 .. Len(heard[c]) /\ Len(heard[c]) \in Nat
          /\ heard[c] # <<>> /\ heard[c] \in Seq(Nat)
          /\ DOMAIN log = 1 .. Len(log) /\ Len(log) \in Nat
      BY <2>0, <2>2 DEF TypeOK
    <3>2. p \in DOMAIN log /\ r \in DOMAIN log /\ p < r
      <4>1. i < i + 1
        BY <2>2, <3>1
      <4> QED BY <2>2, <4>1 DEF Ascending
    <3>3. q \in DOMAIN log /\ p < q /\ q < r
      <4>1. p \in 1 .. Len(log) /\ r \in 1 .. Len(log) /\ r # p + 1
        BY <2>2, <3>1, <3>2
      <4> HIDE DEF p, r
      <4> QED BY <3>1, <3>2, <4>1
    <3>4. Linked(c)
      BY <3>1 DEF Steady
    <3>5. q \in OnTheWay(c)
      BY <2>1, <3>3, <3>4 DEF Elements
    <3>6. r <= LastHeard(c) /\ LastHeard(c) \in Nat
      <4>1. LastHeard(c) = heard[c][Len(heard[c])] /\ Len(heard[c]) \in DOMAIN heard[c]
        BY <3>1 DEF LastHeard
      <4>2. i + 1 = Len(heard[c]) \/ i + 1 < Len(heard[c])
        BY <2>2, <3>1
      <4>3. r = LastHeard(c) \/ r < LastHeard(c)
        BY <2>2, <4>1, <4>2 DEF Ascending
      <4> QED BY <3>1, <3>2, <4>1, <4>3
    <3> HIDE DEF p, r, q
    <3>7. q < LastHeard(c)
      BY <3>1, <3>2, <3>3, <3>6
    <3>8. conn[c] # None
      BY <3>4 DEF Linked
    <3>9. CASE q \in Elements(heard[c])
      <4>1. PICK j \in DOMAIN heard[c] : heard[c][j] = q
        BY <3>9 DEF Elements
      <4>2. j <= i \/ j >= i + 1
        BY <2>2, <3>1
      <4>3. ASSUME j <= i PROVE heard[c][j] <= p
        <5>1. j = i \/ j < i
          BY <2>2, <3>1, <4>3
        <5>2. heard[c][j] = p \/ heard[c][j] < p
          BY <2>2, <5>1 DEF Ascending, p
        <5> QED BY <3>1, <3>2, <5>2
      <4>4. ASSUME j >= i + 1 PROVE r <= heard[c][j]
        <5>1. j = i + 1 \/ i + 1 < j
          BY <2>2, <3>1, <4>4
        <5>2. heard[c][j] = r \/ r < heard[c][j]
          BY <2>2, <5>1 DEF Ascending, r
        <5> QED BY <3>1, <3>2, <5>2
      <4> QED BY <3>1, <3>2, <3>3, <4>1, <4>2, <4>3, <4>4
    <3>10. CASE \E j \in DOMAIN down[conn[c]] : q = down[conn[c]][j].msg
      <4>1. q > LastHeard(c)
        BY <2>0, <3>8, <3>10 DEF Order
      <4> QED BY <3>1, <3>3, <3>6, <3>7, <4>1
    <3>11. CASE writer # None /\ conn[c] \in writer.to /\ q = writer.place
      <4>1. LastHeard(c) < q
        BY <2>0, <3>8, <3>11 DEF Order
      <4> QED BY <3>1, <3>3, <3>6, <3>7, <4>1
    <3> QED BY <3>5, <3>9, <3>10, <3>11 DEF OnTheWay, Ends
  <2> QED BY <2>1, <2>2
<1> QED BY <1>1, Invariance, AscendingInvariance, SteadyInvariance, PTL

=============================================================================
