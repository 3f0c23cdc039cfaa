------------------------------ MODULE Callosum ------------------------------
(***************************************************************************)
(* The message bus, src/solstone/think/callosum.py: a broadcast server on  *)
(* a Unix socket with one thread per connection and one writer thread, and *)
(* clients, each with a send queue and one thread that connects, drains    *)
(* the queue and receives.                                                 *)
(*                                                                         *)
(* A message is a line of JSON.  recv and a failing sendall cut lines      *)
(* anywhere; here a line travels in two parts, its head and its tail, the  *)
(* tail with the newline.  A message that the server writes carries its    *)
(* place in log.  A client's loop drains one message and then receives one *)
(* chunk; chunks are of any size, so the model lets both happen in any     *)
(* order.                                                                  *)
(***************************************************************************)
EXTENDS Naturals, Sequences, FiniteSets

CONSTANTS
    Clients,     \* client processes
    SendMax,     \* size of a client's send queue (1000)
    BroadcastMax,\* size of the server's queue (10000)
    MaxEmits,    \* bound: [Clients -> Nat], messages each client emits
    MaxConns,    \* bound: connections made
    MaxFaults,   \* bound: sends that time out, clients and servers that end
    None

ASSUME CallosumAssumption ==
    /\ SendMax \in Nat \ {0} /\ BroadcastMax \in Nat \ {0}
    /\ MaxEmits \in [Clients -> Nat]
    /\ MaxConns \in Nat /\ MaxFaults \in Nat
    /\ None \notin Nat /\ None \notin Clients

\* The writer at rest is told from the writer at work.
ASSUME NoneAssumption == None \notin [place : Nat, to : SUBSET Nat]

Conns == 1..MaxConns
Message == UNION {[from : {c}, n : 1..MaxEmits[c]] : c \in Clients}
Half == {"head", "tail"}

VARIABLES
    emitted,  \* how many messages each client has emitted
    alive,    \* clients whose thread runs
    sendq,    \* send_queue
    conn,     \* the client's socket: a connection, or None
    cbuf,     \* the client's receive buffer: parts of lines
    conns,    \* how many connections have been made
    up,       \* what the server has not read of each connection
    down,     \* what the client has not read of it
    side,     \* each connection: the server's end of it
    sbuf,     \* the server's receive buffer of each connection
    running,  \* the server runs
    bq,       \* broadcast_queue
    writer,   \* the writer's message and the connections it is still for
    dead,     \* dead_clients: connections whose send has failed this time
    log,      \* messages the writer has begun to send, in order
    heard,    \* what each client's callback has been given, as places in log
    sent,     \* history: messages written to each connection, in order
    faults    \* faults so far

vars == <<emitted, alive, sendq, conn, cbuf, conns, up, down, side, sbuf,
          running, bq, writer, dead, log, heard, sent, faults>>
client == <<emitted, alive, sendq, conn, cbuf, conns, heard, sent>>
server == <<side, sbuf, running, bq, writer, dead, log>>

-----------------------------------------------------------------------------
(* Helpers *)

Part(m, half) == [msg |-> m, half |-> half]
Line(m) == <<Part(m, "head"), Part(m, "tail")>>

\* The line is one message, not what is left of one and another.
Whole(line) == \E m \in {line[1].msg} : line = Line(m)

\* Ends of a connection: a new one waits in the backlog; the server thread
\* that accepts it enters it in clients.
Sides == {"none", "backlog", "open", "closed"}
Owner(k) == {c \in Clients : conn[c] = k}
Linked(c) == conn[c] # None /\ side[conn[c]] = "open"

-----------------------------------------------------------------------------
(* Clients: emit, _run_loop, stop *)

\* emit: queued, or dropped when the queue is full.
Emit(c) ==
    /\ alive[c] /\ emitted[c] < MaxEmits[c]
    /\ emitted' = [emitted EXCEPT ![c] = @ + 1]
    /\ sendq' = [sendq EXCEPT ![c] =
          IF Len(@) < SendMax
          THEN Append(@, [from |-> c, n |-> emitted[c] + 1])
          ELSE @]
    /\ UNCHANGED <<alive, conn, cbuf, conns, up, down, heard, sent,
                   faults>>
    /\ UNCHANGED server

Connect(c) ==
    /\ alive[c] /\ conn[c] = None
    /\ running /\ conns < MaxConns
    /\ conns' = conns + 1
    /\ conn' = [conn EXCEPT ![c] = conns + 1]
    /\ side' = [side EXCEPT ![conns + 1] = "backlog"]
    /\ UNCHANGED <<emitted, alive, sendq, cbuf, up, down, heard, sent,
                   faults, sbuf, running, bq, writer, dead, log>>

\* Not connected: the message is dropped.
Drop(c) ==
    /\ alive[c] /\ sendq[c] # <<>> /\ conn[c] = None
    /\ sendq' = [sendq EXCEPT ![c] = Tail(@)]
    /\ UNCHANGED <<emitted, alive, conn, cbuf, conns, up, down, heard, sent, faults>>
    /\ UNCHANGED server

\* Mutant: the newest message goes first.
SendNewest(c) ==
    /\ alive[c] /\ sendq[c] # <<>>
    /\ conn[c] # None /\ side[conn[c]] # "closed"
    /\ LET k == conn[c]
           m == sendq[c][Len(sendq[c])]
       IN  /\ up' = [up EXCEPT ![k] = @ \o Line(m)]
           /\ sent' = [sent EXCEPT ![k] = Append(@, m)]
    /\ sendq' = [sendq EXCEPT ![c] = SubSeq(@, 1, Len(@) - 1)]
    /\ UNCHANGED <<emitted, alive, conn, cbuf, conns, down, heard, faults>>
    /\ UNCHANGED server

Send(c) ==
    /\ alive[c] /\ sendq[c] # <<>>
    /\ conn[c] # None /\ side[conn[c]] # "closed"
    /\ LET k == conn[c] IN
       /\ up' = [up EXCEPT ![k] = @ \o Line(Head(sendq[c]))]
       /\ sent' = [sent EXCEPT ![k] = Append(@, Head(sendq[c]))]
    /\ sendq' = [sendq EXCEPT ![c] = Tail(@)]
    /\ UNCHANGED <<emitted, alive, conn, cbuf, conns, down, heard, faults>>
    /\ UNCHANGED server

\* sendall fails: the server has closed its end, or the time is up with
\* nothing, or only the head, written.  The socket is closed; the receive
\* buffer is kept.
SendFails(c) ==
    /\ alive[c] /\ sendq[c] # <<>> /\ conn[c] # None
    /\ LET k == conn[c] IN
       \/ side[k] = "closed" /\ UNCHANGED <<up, faults>>
       \/ /\ side[k] # "closed" /\ faults < MaxFaults
          /\ faults' = faults + 1
          /\ \/ UNCHANGED up
             \/ up' = [up EXCEPT ![k] =
                          Append(@, Part(Head(sendq[c]), "head"))]
    /\ sendq' = [sendq EXCEPT ![c] = Tail(@)]
    /\ conn' = [conn EXCEPT ![c] = None]
    /\ UNCHANGED <<emitted, alive, cbuf, conns, down, heard, sent>>
    /\ UNCHANGED server

\* A chunk arrives; a complete line goes to the callback if it is a message,
\* and is passed over in silence if it is not.
Receive(c) ==
    /\ alive[c] /\ conn[c] # None
    /\ down[conn[c]] # <<>>
    /\ LET k == conn[c]
           part == Head(down[k])
           line == Append(cbuf[c], part)
       IN  /\ down' = [down EXCEPT ![k] = Tail(@)]
           /\ IF part.half = "head"
              THEN /\ cbuf' = [cbuf EXCEPT ![c] = line]
                   /\ UNCHANGED heard
              ELSE /\ cbuf' = [cbuf EXCEPT ![c] = <<>>]
                   /\ IF Whole(line)
                      THEN heard' = [heard EXCEPT ![c] = Append(@, part.msg)]
                      ELSE UNCHANGED heard
    /\ UNCHANGED <<emitted, alive, sendq, conn, conns, up, sent, faults>>
    /\ UNCHANGED server

\* Mutant: the socket is closed but still taken for a connection.
ReceiveEndKeeps(c) ==
    /\ alive[c] /\ conn[c] # None
    /\ side[conn[c]] = "closed" /\ down[conn[c]] = <<>>
    /\ cbuf' = [cbuf EXCEPT ![c] = <<>>]
    /\ UNCHANGED <<emitted, alive, sendq, conn, conns, up, down, heard, sent, faults>>
    /\ UNCHANGED server

\* The server has closed the connection and nothing is left to read.
ReceiveEnd(c) ==
    /\ alive[c] /\ conn[c] # None
    /\ side[conn[c]] = "closed" /\ down[conn[c]] = <<>>
    /\ conn' = [conn EXCEPT ![c] = None]
    /\ cbuf' = [cbuf EXCEPT ![c] = <<>>]
    /\ UNCHANGED <<emitted, alive, sendq, conns, up, down, heard, sent,
                   faults>>
    /\ UNCHANGED server

\* The process ends, after stop() or without; its queue is lost.
Leave(c) ==
    /\ alive[c] /\ faults < MaxFaults
    /\ faults' = faults + 1
    /\ alive' = [alive EXCEPT ![c] = FALSE]
    /\ conn' = [conn EXCEPT ![c] = None]
    /\ sendq' = [sendq EXCEPT ![c] = <<>>]
    /\ UNCHANGED <<emitted, cbuf, conns, up, down, heard, sent>>
    /\ UNCHANGED server

Loop(c) ==
    \/ Connect(c)
    \/ Drop(c)
    \/ Send(c)
    \/ SendFails(c)
    \/ Receive(c)
    \/ ReceiveEnd(c)

-----------------------------------------------------------------------------
(* The server: start, _handle_client, _writer_loop, stop *)

Accept(k) ==
    /\ running /\ side[k] = "backlog"
    /\ side' = [side EXCEPT ![k] = "open"]
    /\ UNCHANGED <<up, down, sbuf, running, bq, writer, dead, log, faults>>
    /\ UNCHANGED client

\* broadcast: queued for the writer, or dropped when the queue is full.
Read(k) ==
    /\ running /\ side[k] = "open" /\ up[k] # <<>>
    /\ LET part == Head(up[k])
           line == Append(sbuf[k], part)
       IN  IF part.half = "head"
           THEN /\ sbuf' = [sbuf EXCEPT ![k] = line]
                /\ UNCHANGED bq
           ELSE /\ sbuf' = [sbuf EXCEPT ![k] = <<>>]
                /\ bq' = IF Whole(line) /\ Len(bq) < BroadcastMax
                         THEN Append(bq, part.msg)
                         ELSE bq
    /\ up' = [up EXCEPT ![k] = Tail(@)]
    /\ UNCHANGED <<down, side, running, writer, dead, log, faults>>
    /\ UNCHANGED client

\* The client has closed its end.
ReadEnd(k) ==
    /\ running /\ side[k] = "open"
    /\ up[k] = <<>> /\ Owner(k) = {}
    /\ side' = [side EXCEPT ![k] = "closed"]
    /\ UNCHANGED <<up, down, sbuf, running, bq, writer, dead, log, faults>>
    /\ UNCHANGED client

\* Mutant: a message does not go back to its sender.
PopSkipsSender ==
    /\ running /\ writer = None /\ bq # <<>>
    /\ log' = Append(log, Head(bq))
    /\ bq' = Tail(bq)
    /\ writer' = [place |-> Len(log) + 1,
                  to |-> {k \in Conns : /\ side[k] = "open"
                                        /\ conn[Head(bq).from] # k}]
    /\ UNCHANGED <<up, down, side, sbuf, running, dead, faults>>
    /\ UNCHANGED client

\* The writer takes a message and a snapshot of clients.
Pop ==
    /\ running /\ writer = None /\ bq # <<>>
    /\ log' = Append(log, Head(bq))
    /\ bq' = Tail(bq)
    /\ writer' = [place |-> Len(log) + 1,
                  to |-> {k \in Conns : side[k] = "open"}]
    /\ UNCHANGED <<up, down, side, sbuf, running, dead, faults>>
    /\ UNCHANGED client

\* Mutant: the connection stays in the list of those to be written to.
WrittenAgain(k) == writer' = writer

Written(k) == writer' = [writer EXCEPT !.to = @ \ {k}]

Write(k) ==
    /\ running /\ writer # None /\ k \in writer.to
    /\ side[k] = "open" /\ Owner(k) # {}
    /\ down' = [down EXCEPT ![k] = @ \o Line(writer.place)]
    /\ Written(k)
    /\ UNCHANGED <<up, side, sbuf, running, bq, dead, log, faults>>
    /\ UNCHANGED client

\* sendall fails: an end is closed, or the client does not read and the time
\* is up with nothing, or only the head, written.
WriteFails(k) ==
    /\ running /\ writer # None /\ k \in writer.to
    /\ \/ /\ side[k] # "open" \/ Owner(k) = {}
          /\ UNCHANGED <<down, faults>>
       \/ /\ side[k] = "open" /\ Owner(k) # {} /\ faults < MaxFaults
          /\ faults' = faults + 1
          /\ \/ UNCHANGED down
             \/ down' = [down EXCEPT ![k] =
                            Append(@, Part(writer.place, "head"))]
    /\ dead' = dead \cup {k}
    /\ Written(k)
    /\ UNCHANGED <<up, side, sbuf, running, bq, log>>
    /\ UNCHANGED client

\* After the loop the connections that failed are closed.
WriterDone ==
    /\ running /\ writer # None /\ writer.to = {}
    /\ writer' = None /\ dead' = {}
    /\ side' = [k \in Conns |-> IF k \in dead THEN "closed" ELSE side[k]]
    /\ UNCHANGED <<up, down, sbuf, running, bq, log, faults>>
    /\ UNCHANGED client

\* The supervisor, and the server in it, ends: the queue is lost.
ServerStops ==
    /\ running /\ faults < MaxFaults
    /\ faults' = faults + 1
    /\ running' = FALSE
    /\ side' = [k \in Conns |-> IF side[k] = "none" THEN "none" ELSE "closed"]
    /\ bq' = <<>> /\ writer' = None /\ dead' = {}
    /\ UNCHANGED <<up, down, sbuf, log>>
    /\ UNCHANGED client

ServerStarts ==
    /\ ~ running
    /\ running' = TRUE
    /\ UNCHANGED <<up, down, side, sbuf, bq, writer, dead, log, faults>>
    /\ UNCHANGED client

Server ==
    \/ \E k \in Conns : \/ Accept(k)
                        \/ Read(k)
                        \/ ReadEnd(k)
                        \/ Write(k)
                        \/ WriteFails(k)
    \/ Pop
    \/ WriterDone
    \/ ServerStarts

-----------------------------------------------------------------------------
Init ==
    /\ emitted = [c \in Clients |-> 0]
    /\ alive = [c \in Clients |-> TRUE]
    /\ sendq = [c \in Clients |-> <<>>]
    /\ conn = [c \in Clients |-> None]
    /\ cbuf = [c \in Clients |-> <<>>]
    /\ conns = 0
    /\ up = [k \in Conns |-> <<>>]
    /\ down = [k \in Conns |-> <<>>]
    /\ side = [k \in Conns |-> "none"]
    /\ sbuf = [k \in Conns |-> <<>>]
    /\ running = TRUE
    /\ bq = <<>> /\ writer = None /\ dead = {}
    /\ log = <<>>
    /\ heard = [c \in Clients |-> <<>>]
    /\ sent = [k \in Conns |-> <<>>]
    /\ faults = 0

Next ==
    \/ \E c \in Clients : Emit(c) \/ Loop(c) \/ Leave(c)
    \/ Server
    \/ ServerStops

Spec == Init /\ [][Next]_vars

\* Every thread goes on: a client's loop neither stops sending nor receiving,
\* the server's threads and the writer are polled every 2 s and 0.1 s.
Fairness ==
    /\ \A c \in Clients :
          /\ WF_vars(Connect(c) \/ ReceiveEnd(c))
          /\ WF_vars(Drop(c) \/ Send(c) \/ SendFails(c))
          /\ WF_vars(Receive(c))
    /\ \A k \in Conns :
          /\ WF_vars(Accept(k))
          /\ WF_vars(Read(k) \/ ReadEnd(k))
          /\ WF_vars(Write(k) \/ WriteFails(k))
    /\ WF_vars(Pop \/ WriterDone)
    /\ WF_vars(ServerStarts)

FairSpec == Spec /\ Fairness

-----------------------------------------------------------------------------
(* Properties *)

Parts(msgs) == [msg : msgs, half : Half]

\* Type correctness.
TypeOK ==
    /\ emitted \in [Clients -> Nat]
    /\ alive \in [Clients -> BOOLEAN]
    /\ sendq \in [Clients -> Seq(Message)]
    /\ conn \in [Clients -> Conns \cup {None}]
    /\ cbuf \in [Clients -> Seq(Parts(Nat))]
    /\ conns \in 0..MaxConns
    /\ up \in [Conns -> Seq(Parts(Message))]
    /\ down \in [Conns -> Seq(Parts(Nat))]
    /\ side \in [Conns -> Sides]
    /\ sbuf \in [Conns -> Seq(Parts(Message))]
    /\ running \in BOOLEAN
    /\ bq \in Seq(Message)
    /\ writer \in [place : Nat, to : SUBSET Conns] \cup {None}
    /\ dead \subseteq Conns
    /\ log \in Seq(Message)
    /\ heard \in [Clients -> Seq(Nat)]
    /\ sent \in [Conns -> Seq(Message)]
    /\ faults \in 0..MaxFaults

\* What the bus promises its listeners: one order for all, nothing twice,
\* through lost connections, half-written lines and restarts of the server.
Bus == INSTANCE LossyBus WITH Listeners <- Clients
OneOrderForAll == Bus!Spec

Elements(s) == {s[i] : i \in DOMAIN s}

\* No message is broadcast twice, and the messages that a client sent on one
\* connection are broadcast in the order in which they were sent.
SentOnceInOrder ==
    \A i, j \in DOMAIN log : i < j =>
        /\ log[i] # log[j]
        /\ \A k \in Conns :
              {log[i], log[j]} \subseteq Elements(sent[k]) => log[i].n < log[j].n

\* A message that the server has queued is heard by every client that is
\* connected, its sender too, unless something fails.
QueuedIsHeard ==
    \A d \in Clients, m \in Message :
        (m \in Elements(bq) /\ Linked(d) /\ faults = 0) ~>
            \/ faults > 0
            \/ \E i \in Elements(heard[d]) : log[i] = m

\* A client that is not connected is connected again in the end.
ClientReconnects ==
    \A c \in Clients :
        (alive[c] /\ ~ Linked(c)) ~>
            (Linked(c) \/ ~ alive[c] \/ conns = MaxConns)

=============================================================================
