--------------------------- MODULE SerialExecutor ---------------------------
(***************************************************************************)
(* What the supervisor's TaskQueue promises its callers, without threads,  *)
(* processes or locks: commands that share a name run one at a time, in    *)
(* the order they were accepted; a command already waiting is not queued   *)
(* twice, its callers are joined; whoever asked is told when it ends.      *)
(***************************************************************************)
EXTENDS Naturals, Sequences

CONSTANTS Cmds, Names, NameOf, Callers, Nobody

VARIABLES
  open,      \* FALSE while start-up holds everything back
  held,      \* jobs accepted before that, oldest first
  current,   \* per name, the job being run, or Nobody
  waiting,   \* per name, the jobs behind it
  told       \* callers told that their job ended

vars == <<open, held, current, waiting, told>>

Job(c, callers) == [cmd |-> c, callers |-> callers]
Run(job) == [cmd |-> job.cmd, callers |-> job.callers, ended |-> FALSE]

Init ==
  /\ open \in BOOLEAN
  /\ held = <<>>
  /\ current = [n \in Names |-> Nobody]
  /\ waiting = [n \in Names |-> <<>>]
  /\ told = {}

\* Run now, join the waiting job for the same command, or wait last.
Take(c, r) ==
  LET n == NameOf[c]
  IN  \/ /\ current[n] = Nobody
         /\ current' = [current EXCEPT ![n] = Run(Job(c, {r}))]
         /\ UNCHANGED waiting
      \/ /\ current[n] # Nobody
         /\ \E i \in DOMAIN waiting[n] :
              /\ waiting[n][i].cmd = c
              /\ waiting' = [waiting EXCEPT ![n][i].callers = @ \cup {r}]
         /\ UNCHANGED current
      \/ /\ current[n] # Nobody
         /\ \A i \in DOMAIN waiting[n] : waiting[n][i].cmd # c
         /\ waiting' = [waiting EXCEPT ![n] = Append(@, Job(c, {r}))]
         /\ UNCHANGED current

Hold(c, r) ==
  /\ ~open
  /\ held' = Append(held, Job(c, {r}))
  /\ UNCHANGED <<open, current, waiting, told>>

Accept(c, r) == open /\ Take(c, r) /\ UNCHANGED <<open, held, told>>

Open == ~open /\ open' = TRUE /\ UNCHANGED <<held, current, waiting, told>>

Release ==
  /\ open /\ held # <<>>
  /\ \E r \in Head(held).callers : Take(Head(held).cmd, r)
  /\ held' = Tail(held)
  /\ UNCHANGED <<open, told>>

End(n) ==
  /\ current[n] # Nobody
  /\ ~current[n].ended
  /\ current' = [current EXCEPT ![n].ended = TRUE]
  /\ told' = told \cup current[n].callers
  /\ UNCHANGED <<open, held, waiting>>

Advance(n) ==
  /\ current[n] # Nobody
  /\ current[n].ended
  /\ \/ /\ waiting[n] = <<>>
        /\ current' = [current EXCEPT ![n] = Nobody]
        /\ UNCHANGED waiting
     \/ /\ waiting[n] # <<>>
        /\ current' = [current EXCEPT ![n] = Run(Head(waiting[n]))]
        /\ waiting' = [waiting EXCEPT ![n] = Tail(@)]
  /\ UNCHANGED <<open, held, told>>

Next ==
  \/ \E c \in Cmds, r \in Callers : Hold(c, r) \/ Accept(c, r)
  \/ Open \/ Release
  \/ \E n \in Names : End(n) \/ Advance(n)

Spec == Init /\ [][Next]_vars
=============================================================================
