----------------------------- MODULE MCOffload ------------------------------
(* A queue of a few files that starts just below or above its limit.         *)
EXTENDS Offload

Start(c, s, up, w) == [cloud |-> c, stored |-> s, uploaded |-> up, old |-> w]

\* Files in the store, files a crash has left in the WAL, and both.
WithoutCloud == {Start(FALSE, 2, {}, 1), Start(FALSE, 0, {}, 3)}
StartsDef == WithoutCloud \cup {Start(TRUE, 2, {}, 1), Start(TRUE, 2, {}, 0)}

Incompressible == [size \in 0..MaxFileSize |-> size]

OpenedAtSlash == <<>>
OpenedAtData == <<"data">>
QueuePathDef == <<"instance", "queue">>
=============================================================================
