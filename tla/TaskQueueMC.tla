---------------------------- MODULE TaskQueueMC ----------------------------
(***************************************************************************)
(* Instances of TaskQueue for TLC: two commands of one partition and one   *)
(* of another.                                                             *)
(***************************************************************************)
EXTENDS TaskQueue, TLC

CONSTANTS day1, day2, seg, daily, segment

MCCmds == {day1, day2, seg}
MCPartitions == {daily, segment}
MCCmdName == (day1 :> daily) @@ (day2 :> daily) @@ (seg :> segment)

\* One partition only, for longer queues.
MCDailyCmds == {day1, day2}
MCDaily == {daily}
MCDailyName == [c \in MCDailyCmds |-> daily]
============================================================================
