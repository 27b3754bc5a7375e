---------------------------- MODULE RecordStream ----------------------------
(***************************************************************************)
(* What the caller of a distributed result set is promised: the records    *)
(* of the partitions in the order of the partitions, each partition's in   *)
(* the order of its stream; and an end of stream without an error only if  *)
(* no record is missing.  After a failure later partitions may still be    *)
(* delivered, but then the stream ends with an error.                      *)
(***************************************************************************)
EXTENDS Naturals

CONSTANT Partitions   \* bound on the number of partitions

VARIABLES
  verdict,   \* "reading", "complete", "error", "refused", "released" or "cancelled"
  at,        \* the partition of the last record delivered, 0 before the first
  count,     \* how many of that partition's records were delivered
  lost       \* a record that should have come before was left out

vars == <<verdict, at, count, lost>>

Init ==
  /\ verdict = "reading"
  /\ at = 0 /\ count = 0
  /\ lost = FALSE

\* No result set could be opened.
Refuse ==
  /\ verdict = "reading" /\ at = 0
  /\ verdict' = "refused"
  /\ UNCHANGED <<at, count, lost>>

\* The next record of the same partition.
DeliverNext ==
  /\ verdict = "reading" /\ at > 0
  /\ count' = count + 1
  /\ UNCHANGED <<verdict, at, lost>>

\* The first record of a later partition.
DeliverFrom(p) ==
  /\ verdict = "reading" /\ p > at
  /\ at' = p /\ count' = 1
  /\ UNCHANGED <<verdict, lost>>

\* The stream leaves a partition before it was complete.
Lose ==
  /\ verdict = "reading"
  /\ lost' = TRUE
  /\ UNCHANGED <<verdict, at, count>>

\* The end of the stream.
Finish ==
  /\ verdict = "reading"
  /\ lost' \in {lost, TRUE}
  /\ \/ verdict' = "error"
     \/ verdict' = "complete" /\ ~lost'
  /\ UNCHANGED <<at, count>>

Release ==
  /\ verdict \in {"reading", "complete", "error"}
  /\ verdict' = "released"
  /\ UNCHANGED <<at, count, lost>>

\* The caller cancels the query: nothing more is promised.
Cancel ==
  /\ verdict \notin {"refused", "cancelled"}
  /\ verdict' = "cancelled"
  /\ at' = 0 /\ count' = 0
  /\ lost' = FALSE

Next ==
  \/ Refuse
  \/ DeliverNext
  \/ \E p \in 1..Partitions : DeliverFrom(p)
  \/ Lose
  \/ Finish
  \/ Release
  \/ Cancel

Spec == Init /\ [][Next]_vars
=============================================================================
