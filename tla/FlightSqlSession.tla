-------------------------- MODULE FlightSqlSession --------------------------
(***************************************************************************)
(* Connections and statements of the Flight SQL driver, from               *)
(* src/go/adbc/driver/flightsql/flightsql_adbc.go and                      *)
(* flightsql_statement.go, and the server they talk to: autocommit,        *)
(* transactions and prepared statements.                                   *)
(*                                                                         *)
(* A method of the driver is one step: an object of the driver is used by  *)
(* one thread at a time, and transactions do not interfere on the server.  *)
(* Each RPC of a method may be refused (nothing happened) or its answer    *)
(* may be lost or come after the timeout (it did happen); the driver sees  *)
(* the same error.  The server is external.                                *)
(***************************************************************************)
EXTENDS Naturals

CONSTANTS
  Connections,
  Statements,
  Queries,
  Params,
  Rows,      \* the rows that updates write
  Txns,      \* bound: the transactions the server can begin
  Handles,   \* bound: the prepared statements the server can create
  None,
  Faults,    \* pairs of an RPC ("begin", "commit", "rollback", "prepare",
             \* "close", "execute") and what may happen to it
  Habits     \* what callers do: "prepareTwice", "closeInTransaction",
             \* "keepPrepared" over a change of transaction

ASSUME NoneAssumption == None \notin Connections \cup Txns \cup Handles

VARIABLES
  cn,       \* cnxn: open (cl is not nil), the transaction, supportInfo
  st,       \* statement: cnxn, query, prepared, and the parameters bound to it
  txns,     \* server: the state of each transaction
  staged,   \* server: the rows of each open transaction
  durable,  \* server: the rows that took effect
  handles,  \* server: the prepared statements, with their query and transaction
  mode,     \* the autocommit mode that the caller has set: "auto" or "manual"
  want,     \* the query and the parameters the caller has set on a statement
  ran,      \* the query and the parameters that ran since
  wrote,    \* rows of updates that succeeded with autocommit disabled, since
            \* the caller last ended a transaction
  acked,    \* rows of updates and transactions the caller was told took effect
  undone    \* rows of transactions the caller was told were rolled back

server  == <<txns, staged, durable, handles>>
callers == <<mode, want, ran, wrote, acked, undone>>
sessionVars    == <<cn, st, server, callers>>

NoCall   == [query |-> None, params |-> None]
NoStmt   == [cnxn |-> None, query |-> None, prepared |-> None, params |-> None]
NoHandle == [state |-> "unused", query |-> None, txn |-> None]

SessionInit ==
  /\ cn = [c \in Connections |-> [open |-> FALSE, txn |-> None, transactions |-> FALSE]]
  /\ st = [s \in Statements |-> NoStmt]
  /\ txns = [t \in Txns |-> "unused"]
  /\ staged = [t \in Txns |-> {}]
  /\ durable = {}
  /\ handles = [h \in Handles |-> NoHandle]
  /\ mode = [c \in Connections |-> "auto"]
  /\ want = [s \in Statements |-> NoCall]
  /\ ran = [s \in Statements |-> NoCall]
  /\ wrote = [c \in Connections |-> {}]
  /\ acked = {}
  /\ undone = {}

Fault(rpc, what) == <<rpc, what>> \in Faults

-----------------------------------------------------------------------------
(* The server's transactions.                                              *)

StagedIn(t) == IF t = None THEN {} ELSE staged[t]

\* One transaction ends (or None) and then one begins (or None).
ServerStep(ended, how, begun) ==
  /\ txns' = [t \in Txns |-> CASE t = ended -> "ended"
                               [] t # ended /\ t = begun -> "open"
                               [] OTHER -> txns[t]]
  /\ durable' = IF how = "commit" THEN durable \cup StagedIn(ended) ELSE durable
  /\ staged' = [t \in Txns |-> IF t = ended THEN {} ELSE staged[t]]
  /\ UNCHANGED handles

\* What BeginTransaction may do: the transaction that the driver gets, and
\* the one that the server has begun.
BeginOutcomes ==
  LET unused == {t \in Txns : txns[t] = "unused"} IN
  {[txn |-> t, begun |-> t] : t \in unused}
    \cup {[txn |-> None, begun |-> None] : f \in Faults \cap {<<"begin", "refused">>}}
    \cup {[txn |-> None, begun |-> t] : t \in IF Fault("begin", "lost") THEN unused ELSE {}}

\* Txn.Commit or Txn.Rollback returns an error.
EndFails(t, how) ==
  \/ /\ Fault(how, "refused") \/ txns[t] # "open"
     /\ ServerStep(None, how, None)
  \/ /\ Fault(how, "lost") /\ txns[t] = "open"
     /\ ServerStep(t, how, None)

-----------------------------------------------------------------------------
(* Connections.                                                            *)

\* database.Open; GetSqlInfo tells whether the server has transactions.
Open(c) ==
  /\ ~cn[c].open
  /\ \E supported \in BOOLEAN :
       cn' = [cn EXCEPT ![c] = [open |-> TRUE, txn |-> None, transactions |-> supported]]
  /\ UNCHANGED <<st, server, callers>>

SetTxn(c, t) == cn' = [cn EXCEPT ![c] = [open |-> TRUE, txn |-> t, transactions |-> @.transactions]]

\* The caller's transaction is over: if the call succeeds, what they wrote in it
\* is committed or rolled back, as far as they are told.
Told(c, how, ok) ==
  /\ acked' = IF ok /\ how = "commit" THEN acked \cup wrote[c] ELSE acked
  /\ undone' = IF ok /\ how = "rollback" THEN undone \cup wrote[c] ELSE undone
  /\ wrote' = [wrote EXCEPT ![c] = {}]

\* EndTransaction, with a failure that leaves c.txn as it was.
EndOnly(c, how) ==
  /\ EndFails(cn[c].txn, how)
  /\ UNCHANGED <<cn, st, callers>>

\* EndTransaction and BeginTransaction, whose result is assigned to c.txn
\* also when it is nil.
EndThenBegin(c, how) ==
  /\ txns[cn[c].txn] = "open"
  /\ \E b \in BeginOutcomes :
       /\ ServerStep(cn[c].txn, how, b.begun)
       /\ SetTxn(c, b.txn)
       /\ Told(c, how, b.txn # None)
  /\ UNCHANGED <<st, mode, want, ran>>

\* cnxn.Commit and cnxn.Rollback; without c.txn they are an invalid state.
Commit(c) ==
  /\ cn[c].open /\ cn[c].txn # None
  /\ EndOnly(c, "commit") \/ EndThenBegin(c, "commit")

\* Mutant of Rollback: the transaction is committed.
RollbackCommits(c) ==
  /\ cn[c].open /\ cn[c].txn # None
  /\ txns[cn[c].txn] = "open"
  /\ \E b \in BeginOutcomes :
       /\ ServerStep(cn[c].txn, "commit", b.begun)
       /\ SetTxn(c, b.txn)
       /\ Told(c, "rollback", b.txn # None)
  /\ UNCHANGED <<st, mode, want, ran>>

Rollback(c) ==
  /\ cn[c].open /\ cn[c].txn # None
  /\ EndOnly(c, "rollback") \/ EndThenBegin(c, "rollback")

\* cnxn.SetOption(autocommit).  Without c.txn enabling it is a no-op; with it
\* the transaction is committed.
EnableAutocommit(c) ==
  /\ cn[c].open
  /\ \/ /\ cn[c].txn = None
        /\ mode' = [mode EXCEPT ![c] = "auto"]
        /\ Told(c, "commit", TRUE)
        /\ UNCHANGED <<cn, st, server, want, ran>>
     \/ cn[c].txn # None /\ EndOnly(c, "commit")
     \/ /\ cn[c].txn # None /\ txns[cn[c].txn] = "open"
        /\ ServerStep(cn[c].txn, "commit", None)
        /\ SetTxn(c, None)
        /\ mode' = [mode EXCEPT ![c] = "auto"]
        /\ Told(c, "commit", TRUE)
        /\ UNCHANGED <<st, want, ran>>

\* Mutant of DisableAutocommit: it does not begin a transaction.
DisableWithoutBegin(c) ==
  /\ cn[c].open /\ cn[c].transactions
  /\ mode' = [mode EXCEPT ![c] = "manual"]
  /\ UNCHANGED <<cn, st, server, want, ran, wrote, acked, undone>>

\* Disabling it commits a transaction that exists already, and begins one.
DisableAutocommit(c) ==
  /\ cn[c].open /\ cn[c].transactions
  /\ \/ /\ cn[c].txn = None
        /\ \E b \in BeginOutcomes :
             /\ ServerStep(None, "commit", b.begun)
             /\ SetTxn(c, b.txn)
             /\ mode' = [mode EXCEPT ![c] = IF b.txn = None THEN @ ELSE "manual"]
             /\ Told(c, "commit", b.txn # None)
        /\ UNCHANGED <<st, want, ran>>
     \/ cn[c].txn # None /\ EndOnly(c, "commit")
     \/ cn[c].txn # None /\ EndThenBegin(c, "commit")

\* cnxn.Close, after the statements: the client is closed and nothing is sent.
Close(c) ==
  /\ cn[c].open /\ \A s \in Statements : st[s].cnxn # c
  /\ cn[c].txn = None \/ "closeInTransaction" \in Habits
  /\ cn' = [cn EXCEPT ![c] = [open |-> FALSE, txn |-> None, transactions |-> FALSE]]
  /\ mode' = [mode EXCEPT ![c] = "auto"]
  /\ wrote' = [wrote EXCEPT ![c] = {}]
  /\ UNCHANGED <<st, server, want, ran, acked, undone>>

-----------------------------------------------------------------------------
(* Statements.                                                             *)

\* cnxn.NewStatement.
NewStatement(s, c) ==
  /\ st[s].cnxn = None /\ cn[c].open
  /\ st' = [st EXCEPT ![s] = [cnxn |-> c, query |-> None, prepared |-> None, params |-> None]]
  /\ want' = [want EXCEPT ![s] = NoCall]
  /\ ran' = [ran EXCEPT ![s] = NoCall]
  /\ UNCHANGED <<cn, server, mode, wrote, acked, undone>>

\* What closing a prepared statement may leave of the server's handles.
ServerCloses(h) ==
  handles' = [handles EXCEPT ![h] = [state |-> "closed", query |-> @.query, txn |-> @.txn]]

CloseFails(h) ==
  \/ (Fault("close", "refused") \/ handles[h].state # "open") /\ UNCHANGED handles
  \/ Fault("close", "lost") /\ handles[h].state = "open" /\ ServerCloses(h)

CloseSucceeds(h) == handles[h].state = "open" /\ ServerCloses(h)

\* The query is set: on the server nothing is prepared for it.
TakesQuery(s, q) ==
  /\ st' = [st EXCEPT ![s] = [cnxn |-> @.cnxn, query |-> q, prepared |-> None, params |-> None]]
  /\ want' = [want EXCEPT ![s] = [query |-> q, params |-> None]]
  /\ ran' = [ran EXCEPT ![s] = NoCall]

\* Mutant of SetQuery: the prepared statement is kept.
SetQueryKeepsPrepared(s, q) ==
  /\ st[s].cnxn # None
  /\ st' = [st EXCEPT ![s] = [cnxn |-> @.cnxn, query |-> q, prepared |-> @.prepared, params |-> None]]
  /\ want' = [want EXCEPT ![s] = [query |-> q, params |-> None]]
  /\ ran' = [ran EXCEPT ![s] = NoCall]
  /\ UNCHANGED <<cn, server, mode, wrote, acked, undone>>

\* Mutant of SetQuery: the prepared statement is forgotten, and not closed.
SetQueryForgets(s, q) ==
  /\ st[s].cnxn # None
  /\ TakesQuery(s, q)
  /\ UNCHANGED <<cn, server, mode, wrote, acked, undone>>

\* statement.SetSqlQuery and SetSubstraitPlan: a prepared statement is closed
\* first, and if that fails everything stays.
SetQuery(s, q) ==
  /\ st[s].cnxn # None
  /\ LET h == st[s].prepared IN
       \/ h = None /\ TakesQuery(s, q) /\ UNCHANGED handles
       \/ h # None /\ CloseSucceeds(h) /\ TakesQuery(s, q)
       \/ h # None /\ CloseFails(h) /\ UNCHANGED <<st, want, ran>>
  /\ UNCHANGED <<cn, txns, staged, durable, mode, wrote, acked, undone>>

\* The transaction that a request without a prepared statement is made in.
TxnOf(s) == cn[st[s].cnxn].txn

Alive(t) == t \in {None} \cup {u \in Txns : txns[u] = "open"}

\* statement.Prepare, in the connection's transaction: a statement that is
\* prepared already is replaced.
Prepare(s) ==
  /\ st[s].cnxn # None /\ st[s].query # None
  /\ st[s].prepared = None \/ "prepareTwice" \in Habits
  /\ Alive(TxnOf(s))
  /\ \E h \in Handles :
       /\ handles[h].state = "unused"
       /\ handles' = [handles EXCEPT ![h] =
                        [state |-> "open", query |-> st[s].query, txn |-> TxnOf(s)]]
       /\ \/ st' = [st EXCEPT ![s] = [cnxn |-> @.cnxn, query |-> @.query,
                                      prepared |-> h, params |-> None]]
          \/ Fault("prepare", "lost") /\ UNCHANGED st
  /\ UNCHANGED <<cn, txns, staged, durable, callers>>

\* statement.Bind and BindStream: only for a prepared statement.
Bind(s, p) ==
  /\ st[s].prepared # None
  /\ st' = [st EXCEPT ![s] = [cnxn |-> @.cnxn, query |-> @.query,
                              prepared |-> @.prepared, params |-> p]]
  /\ want' = [want EXCEPT ![s] = [query |-> @.query, params |-> p]]
  /\ ran' = [ran EXCEPT ![s] = NoCall]
  /\ UNCHANGED <<cn, server, mode, wrote, acked, undone>>

\* The server runs query q with parameters p in transaction t.
Runs(s, q, p, t, r) ==
  /\ Alive(t)
  /\ IF t = None THEN durable' = durable \cup {r} /\ UNCHANGED staged
     ELSE staged' = [staged EXCEPT ![t] = @ \cup {r}] /\ UNCHANGED durable
  /\ ran' = [ran EXCEPT ![s] = [query |-> q, params |-> p]]

\* statement.ExecuteUpdate, ExecuteQuery and ExecutePartitions of a query that
\* writes row r: through the prepared statement, whose transaction is the one
\* it was prepared in, or else in the connection's transaction.
Execute(s, r) ==
  /\ st[s].cnxn # None
  /\ LET h == st[s].prepared IN
       \/ /\ h = None /\ st[s].query # None
          /\ Runs(s, st[s].query, None, TxnOf(s), r)
       \/ /\ h # None
          /\ ("keepPrepared" \in Habits) \/ (handles[h].txn = TxnOf(s))
          /\ handles[h].state = "open"
          /\ Runs(s, handles[h].query, st[s].params, handles[h].txn, r)
  /\ LET c == st[s].cnxn IN
       \/ mode[c] = "auto" /\ acked' = acked \cup {r} /\ UNCHANGED wrote
       \/ mode[c] = "manual" /\ wrote' = [wrote EXCEPT ![c] = @ \cup {r}] /\ UNCHANGED acked
       \/ Fault("execute", "lost") /\ UNCHANGED <<wrote, acked>>
  /\ UNCHANGED <<cn, st, txns, handles, mode, want, undone>>

\* statement.Close: the prepared statement is given up even if closing it fails.
CloseStatement(s) ==
  /\ st[s].cnxn # None
  /\ LET h == st[s].prepared IN
       IF h = None THEN UNCHANGED handles ELSE CloseSucceeds(h) \/ CloseFails(h)
  /\ st' = [st EXCEPT ![s] = NoStmt]
  /\ want' = [want EXCEPT ![s] = NoCall]
  /\ ran' = [ran EXCEPT ![s] = NoCall]
  /\ UNCHANGED <<cn, txns, staged, durable, mode, wrote, acked, undone>>

-----------------------------------------------------------------------------
\* A row is written once.
Fresh(r) == r \notin durable \cup undone \cup UNION {staged[t] : t \in Txns}

SessionNext ==
  \/ \E c \in Connections :
       \/ Open(c) \/ Commit(c) \/ Rollback(c)
       \/ EnableAutocommit(c) \/ DisableAutocommit(c) \/ Close(c)
  \/ \E s \in Statements :
       \/ \E c \in Connections : NewStatement(s, c)
       \/ \E q \in Queries : SetQuery(s, q)
       \/ Prepare(s)
       \/ \E p \in Params : Bind(s, p)
       \/ \E r \in Rows : Fresh(r) /\ Execute(s, r)
       \/ CloseStatement(s)

SessionSpec == SessionInit /\ [][SessionNext]_sessionVars

-----------------------------------------------------------------------------
(* Properties.                                                             *)

Calls == [query : Queries \cup {None}, params : Params \cup {None}]

\* The fields of cnxn and statement, and the server's tables; a statement that
\* was closed holds nothing.
SessionTypeOK ==
  /\ cn \in [Connections -> [open : BOOLEAN, txn : Txns \cup {None}, transactions : BOOLEAN]]
  /\ st \in [Statements -> [cnxn : Connections \cup {None}, query : Queries \cup {None},
                            prepared : Handles \cup {None}, params : Params \cup {None}]]
  /\ \A s \in Statements : st[s].cnxn = None => st[s] = NoStmt
  /\ txns \in [Txns -> {"unused", "open", "ended"}]
  /\ staged \in [Txns -> SUBSET Rows]
  /\ durable \subseteq Rows
  /\ handles \in [Handles -> [state : {"unused", "open", "closed"},
                              query : Queries \cup {None}, txn : Txns \cup {None}]]
  /\ mode \in [Connections -> {"auto", "manual"}]
  /\ want \in [Statements -> Calls]
  /\ ran \in [Statements -> Calls]
  /\ wrote \in [Connections -> SUBSET Rows]
  /\ acked \subseteq Rows /\ undone \subseteq Rows

\* What ran for a statement is the query that was last set on it with the
\* parameters that were last bound, although what runs is whatever the server
\* has prepared: setting a query gives the prepared statement up.
RunsLatest == \A s \in Statements : ran[s] # NoCall => ran[s] = want[s]

\* What the caller has written and then committed (with Commit or with the
\* option), or written in autocommit mode, has taken effect when the driver
\* said so, and what they have written and then rolled back has not, whatever
\* happens to requests and answers.  The second half is for callers that do not
\* keep a prepared statement over a change of transaction: one that was
\* prepared in autocommit mode goes on to write at once.
ReportsAreTrue == acked \subseteq durable /\ undone \cap durable = {}

\* Every transaction and every prepared statement that is open on the server
\* belongs to a connection or a statement that can still end it.
NothingIsLeft ==
  /\ \A t \in Txns : txns[t] = "open" => \E c \in Connections : cn[c].txn = t
  /\ \A h \in Handles : handles[h].state = "open" => \E s \in Statements : st[s].prepared = h

Contract ==
  INSTANCE Transactions
    WITH manual <- {c \in Connections : mode[c] = "manual"},
         pending <- [c \in Connections |-> StagedIn(cn[c].txn)],
         durable <- durable

\* The connections implement ADBC's transactions: with autocommit disabled no
\* update takes effect before a commit, and otherwise each does at once.
TransactionContract == Contract!Spec
=============================================================================
