---------------------------- MODULE Transactions ----------------------------
(***************************************************************************)
(* What ADBC promises about autocommit and transactions, whatever the      *)
(* driver: by default a query takes effect at once; with autocommit        *)
(* disabled it takes effect when the caller commits, and not at all when   *)
(* the caller rolls back.                                                  *)
(*                                                                         *)
(* An update writes one row.  The drivers' connections implement this      *)
(* specification.                                                          *)
(***************************************************************************)
CONSTANTS
  Connections,
  Rows

VARIABLES
  manual,    \* the connections with autocommit disabled
  pending,   \* the rows each connection has written and not committed
  durable    \* the rows that have taken effect

Init ==
  /\ manual = {}
  /\ pending = [c \in Connections |-> {}]
  /\ durable = {}

\* A statement that writes rows.
Update(c, rows) ==
  /\ IF c \in manual
       THEN pending' = [pending EXCEPT ![c] = @ \cup rows] /\ UNCHANGED durable
       ELSE durable' = durable \cup rows /\ UNCHANGED pending
  /\ UNCHANGED manual

Commit(c) ==
  /\ c \in manual
  /\ durable' = durable \cup pending[c]
  /\ pending' = [pending EXCEPT ![c] = {}]
  /\ UNCHANGED manual

\* By the caller, or because the connection ends.
Rollback(c) ==
  /\ c \in manual
  /\ pending' = [pending EXCEPT ![c] = {}]
  /\ manual' \in {manual, manual \ {c}}
  /\ UNCHANGED durable

\* Setting the autocommit option.  Pending rows are committed.
EnableAutocommit(c) ==
  /\ manual' = manual \ {c}
  /\ durable' = durable \cup pending[c]
  /\ pending' = [pending EXCEPT ![c] = {}]

DisableAutocommit(c) ==
  /\ manual' = manual \cup {c}
  /\ UNCHANGED <<pending, durable>>

Next ==
  \E c \in Connections :
    \/ \E rows \in SUBSET Rows : Update(c, rows)
    \/ Commit(c) \/ Rollback(c)
    \/ EnableAutocommit(c) \/ DisableAutocommit(c)

Spec == Init /\ [][Next]_<<manual, pending, durable>>
=============================================================================
