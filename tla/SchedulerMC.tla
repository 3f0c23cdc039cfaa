---------------------------- MODULE SchedulerMC ----------------------------
(* An instance of Scheduler for TLC: a daily and an interval entry, each   *)
(* in a partition of its own.                                              *)
EXTENDS Scheduler

CONSTANTS daily, minutes, heartbeat, cadence

MCCoarse   == {daily}
MCInterval == {minutes}
MCExtra    == {daily}
MCApart    == [e \in {daily, minutes} |->
                 IF e = daily THEN heartbeat ELSE cadence]

=============================================================================
