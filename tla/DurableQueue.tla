---------------------------- MODULE DurableQueue ----------------------------
(***************************************************************************)
(* What a queue promises across crashes, whatever files it is made of: ids *)
(* are given out consecutively from zero; some prefix is acknowledged; a   *)
(* crash may cut the log, but never into that prefix, and the ids go on    *)
(* from the cut.                                                           *)
(***************************************************************************)
EXTENDS Integers

VARIABLES
  length,    \* the ids are 0..length-1
  acked      \* the largest acknowledged id, -1 at first

Init == length = 0 /\ acked = -1

\* Ids go to new entries.
Extend == length' > length /\ acked' = acked

\* Acknowledgements advance within the log.
Acknowledge == acked' > acked /\ acked' < length /\ length' = length

\* A crash loses a suffix that was not acknowledged.
Cut == length' < length /\ acked < length' /\ acked' = acked

Next == Extend \/ Acknowledge \/ Cut

Spec == Init /\ [][Next]_<<length, acked>>
=============================================================================
