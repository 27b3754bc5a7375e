--------------------------- MODULE FlightSqlProofs ---------------------------
(***************************************************************************)
(* Proofs about the Flight SQL driver's transactions and prepared          *)
(* statements, for any number of connections, statements, transactions and *)
(* rows, and whatever happens to requests and answers.                     *)
(***************************************************************************)
EXTENDS FlightSqlSession, TLAPS

\* A leaf that names no prover is for these, in this order.
USE Zenon, SMT, Z3

-----------------------------------------------------------------------------
(* The invariants.                                                         *)

\* In autocommit mode, and before it is opened, a connection has no transaction.
Modes ==
  \A c \in Connections :
    /\ mode[c] = "auto" => cn[c].txn = None
    /\ ~cn[c].open => cn[c].txn = None

\* A staged row belongs to one transaction, which is open.
Staging ==
  \A t \in Txns :
    /\ txns[t] # "open" => staged[t] = {}
    /\ \A r \in staged[t] :
         r \notin durable /\ r \notin undone /\ \A u \in Txns : r \in staged[u] => u = t

\* A prepared statement was prepared on the server, and as long as the
\* transaction of that time is open it is the connection's.
Prepared ==
  \A s \in Statements : st[s].prepared # None =>
    LET h == handles[st[s].prepared]
    IN /\ h.state # "unused"
       /\ h.txn # None => /\ txns[h.txn] # "unused"
                          /\ txns[h.txn] = "open" => cn[st[s].cnxn].txn = h.txn

\* What the caller has written with autocommit disabled waits in the connection's
\* transaction, as long as that is open, or took effect at once: because the
\* connection has lost its transaction, or because a prepared statement is older.
Writing ==
  \A c \in Connections :
    /\ cn[c].txn = None => wrote[c] \subseteq durable
    /\ cn[c].txn # None =>
         /\ txns[cn[c].txn] # "unused"
         /\ txns[cn[c].txn] = "open" =>
              /\ wrote[c] \subseteq durable \cup staged[cn[c].txn]
              /\ "keepPrepared" \notin Habits => wrote[c] \cap durable = {}

\* ReportsAreTrue, as far as the callers' habits let it hold.
Reports ==
  /\ acked \subseteq durable
  /\ "keepPrepared" \notin Habits => undone \cap durable = {}

SessionInv == SessionTypeOK /\ Modes /\ Staging /\ Prepared /\ Writing /\ Reports

\* What the driver and the server hold of a statement is what the caller has set.
Latest ==
  \A s \in Statements :
    /\ want[s] = [query |-> st[s].query, params |-> st[s].params]
    /\ st[s].prepared = None => st[s].params = None
    /\ st[s].prepared # None =>
         handles[st[s].prepared].state # "unused" /\ handles[st[s].prepared].query = st[s].query

-----------------------------------------------------------------------------
(* Helpers.                                                                *)

\* The step of the server, transaction by transaction.
LEMMA ServerStepIs ==
  ASSUME SessionTypeOK, NEW ended \in Txns \cup {None}, NEW begun \in Txns \cup {None}, NEW how,
         ServerStep(ended, how, begun)
  PROVE  /\ \A t \in Txns :
              /\ txns'[t] = IF t = ended THEN "ended" ELSE IF t = begun THEN "open" ELSE txns[t]
              /\ staged'[t] = IF t = ended THEN {} ELSE staged[t]
         /\ durable' = IF how = "commit" /\ ended # None THEN durable \cup staged[ended] ELSE durable
         /\ handles' = handles
         /\ txns' \in [Txns -> {"unused", "open", "ended"}]
         /\ staged' \in [Txns -> SUBSET Rows] /\ durable' \subseteq Rows
<1> USE NoneAssumption DEF SessionTypeOK, ServerStep, StagedIn
<1>1. \A t \in Txns :
        /\ txns'[t] = IF t = ended THEN "ended" ELSE IF t = begun THEN "open" ELSE txns[t]
        /\ staged'[t] = IF t = ended THEN {} ELSE staged[t]
  OBVIOUS
<1>2. txns' \in [Txns -> {"unused", "open", "ended"}] /\ staged' \in [Txns -> SUBSET Rows]
  OBVIOUS
<1>3. durable' = IF how = "commit" /\ ended # None THEN durable \cup staged[ended] ELSE durable
  OBVIOUS
<1>4. durable' \subseteq Rows
  BY <1>3
<1> QED
  BY <1>1, <1>2, <1>3, <1>4

\* What BeginTransaction may do.
LEMMA BeginIs ==
  ASSUME NEW b \in BeginOutcomes
  PROVE  /\ b.txn \in Txns \cup {None} /\ b.begun \in Txns \cup {None}
         /\ b.begun # None => txns[b.begun] = "unused"
         /\ b.txn # None => b.txn = b.begun
BY SMT DEF BeginOutcomes

\* The caller is told of what they wrote, or not.
MayTell(c, how) ==
  /\ acked' \subseteq acked \cup (IF how = "commit" THEN wrote[c] ELSE {})
  /\ undone' \subseteq undone \cup (IF how = "rollback" THEN wrote[c] ELSE {})
  /\ wrote' = [wrote EXCEPT ![c] = {}]

LEMMA ToldIs ==
  ASSUME NEW c, NEW how, NEW ok, Told(c, how, ok)
  PROVE  MayTell(c, how)
BY DEF Told, MayTell

\* A transaction ends and one begins: the rows of the one that ends take effect
\* or go, and the caller may be told so.
LEMMA TxnStep ==
  ASSUME SessionInv, NEW c \in Connections, NEW how \in {"commit", "rollback"},
         NEW ended \in Txns \cup {None}, NEW begun \in Txns \cup {None},
         ended # None => txns[ended] = "open", begun # None => txns[begun] = "unused",
         ServerStep(ended, how, begun), st' = st,
         \/ ended \in {None, cn[c].txn} /\ UNCHANGED <<cn, wrote, acked, undone>>
         \/ /\ ended = cn[c].txn /\ MayTell(c, how) /\ (ended = None => how = "commit")
            /\ cn'[c].txn \in {None, begun}
            /\ \A d \in Connections \ {c} : cn'[d].txn = cn[d].txn
  PROVE  /\ Staging' /\ Prepared' /\ Writing' /\ Reports'
         /\ acked' \subseteq Rows /\ undone' \subseteq Rows
         /\ wrote' \in [Connections -> SUBSET Rows]
<1> USE NoneAssumption DEF SessionInv
<1>0. ended # begun \/ ended = None
  OBVIOUS
<1>1. StagedIn(ended) = (IF ended = None THEN {} ELSE staged[ended]) /\ StagedIn(ended) \subseteq Rows
  BY DEF StagedIn, SessionTypeOK
<1>2. durable' = IF how = "commit" THEN durable \cup StagedIn(ended) ELSE durable
  BY <1>1, ServerStepIs, SMT
<1> DEFINE told == IF UNCHANGED <<cn, wrote, acked, undone>> THEN {} ELSE wrote[c]
<1>3. /\ acked' \subseteq acked \cup (IF how = "commit" THEN told ELSE {})
      /\ undone' \subseteq undone \cup (IF how = "rollback" THEN told ELSE {})
      /\ \A d \in Connections : wrote'[d] = wrote[d] \/ (d = c /\ wrote'[d] = {})
      /\ wrote' \in [Connections -> SUBSET Rows]
  BY SMT DEF MayTell, SessionTypeOK
<1>4. /\ told \subseteq durable \cup StagedIn(ended)
      /\ "keepPrepared" \notin Habits /\ how = "rollback" => told \cap durable = {}
  <2>1. CASE UNCHANGED <<cn, wrote, acked, undone>>
    BY <2>1
  <2>2. CASE ~UNCHANGED <<cn, wrote, acked, undone>>
    <3>1. ended = cn[c].txn /\ (ended = None => how = "commit") /\ told = wrote[c]
      BY <2>2
    <3> HIDE DEF told
    <3>2. CASE ended = None
      BY <3>1, <3>2 DEF Writing
    <3>3. CASE ended # None
      BY <1>1, <3>1, <3>3 DEF Writing
    <3> QED
      BY <3>2, <3>3
  <2> QED
    BY <2>1, <2>2
<1>5. told \subseteq Rows
  BY DEF SessionTypeOK
<1> HIDE DEF told
<1>6. acked' \subseteq Rows /\ undone' \subseteq Rows
  BY <1>3, <1>5 DEF SessionTypeOK
<1>7. Staging'
  <2>1. \A t \in Txns : txns'[t] # "open" => staged'[t] = {}
    BY <1>0, ServerStepIs DEF Staging
  <2>2. ASSUME NEW t \in Txns, NEW r \in staged'[t]
        PROVE  r \notin durable' /\ r \notin undone' /\ \A u \in Txns : r \in staged'[u] => u = t
    <3>1. t # ended /\ r \in staged[t]
      BY <2>2, ServerStepIs
    <3>2. r \notin durable /\ r \notin undone /\ \A u \in Txns : r \in staged[u] => u = t
      BY <3>1 DEF Staging
    <3>3. r \notin StagedIn(ended)
      BY <1>1, <3>1, <3>2
    <3>4. r \notin durable' /\ r \notin undone'
      BY <1>2, <1>3, <1>4, <3>2, <3>3
    <3> QED
      BY <3>2, <3>4, ServerStepIs, SMT
  <2> QED
    BY <2>1, <2>2 DEF Staging
<1>8. \A d \in Connections :
        cn'[d].txn = cn[d].txn \/ (d = c /\ cn[c].txn = ended /\ cn'[c].txn \in {None, begun})
  OBVIOUS
<1>9. Prepared'
  <2> SUFFICES ASSUME NEW s \in Statements, st[s].prepared # None
               PROVE  LET h == handles[st[s].prepared]
                      IN /\ h.state # "unused"
                         /\ h.txn # None => /\ txns'[h.txn] # "unused"
                                            /\ txns'[h.txn] = "open" => cn'[st[s].cnxn].txn = h.txn
    BY ServerStepIs, SMT DEF Prepared
  <2> DEFINE h == handles[st[s].prepared]
  <2>1. h.txn \in Txns \cup {None} /\ st[s].cnxn \in Connections
    BY SMT DEF SessionTypeOK, NoStmt
  <2>2. /\ h.state # "unused"
        /\ h.txn # None => /\ txns[h.txn] # "unused"
                           /\ txns[h.txn] = "open" => cn[st[s].cnxn].txn = h.txn
    BY DEF Prepared
  <2> HIDE DEF h
  <2>3. ASSUME h.txn # None
        PROVE  /\ txns'[h.txn] # "unused"
               /\ txns'[h.txn] = "open" => cn'[st[s].cnxn].txn = h.txn
    <3>1. txns'[h.txn] = IF h.txn = ended THEN "ended" ELSE txns[h.txn]
      BY <2>1, <2>2, <2>3, ServerStepIs, SMT
    <3> QED
      BY <1>8, <2>1, <2>2, <2>3, <3>1
  <2> QED
    BY <2>2, <2>3 DEF h
<1>10. Writing'
  <2>1. ASSUME NEW d \in Connections
        PROVE  /\ cn'[d].txn = None => wrote'[d] \subseteq durable'
               /\ cn'[d].txn # None =>
                    /\ txns'[cn'[d].txn] # "unused"
                    /\ txns'[cn'[d].txn] = "open" =>
                         /\ wrote'[d] \subseteq durable' \cup staged'[cn'[d].txn]
                         /\ "keepPrepared" \notin Habits => wrote'[d] \cap durable' = {}
    <3>0. durable \subseteq durable'
      BY <1>2
    <3>1. CASE wrote'[d] = {} /\ cn'[d].txn \in {None, begun}
      <4>1. begun # None => txns'[begun] = "open"
        BY <1>0, ServerStepIs
      <4> QED
        BY <3>1, <4>1
    <3>2. CASE cn'[d].txn = cn[d].txn
      <4>1. wrote'[d] \subseteq wrote[d]
        BY <1>3
      <4>2. CASE cn[d].txn = None
        BY <3>0, <3>2, <4>1, <4>2 DEF Writing
      <4>3. CASE cn[d].txn # None
        <5> DEFINE u == cn[d].txn
        <5>1. /\ u \in Txns /\ txns[u] # "unused"
              /\ txns[u] = "open" =>
                   /\ wrote[d] \subseteq durable \cup staged[u]
                   /\ "keepPrepared" \notin Habits => wrote[d] \cap durable = {}
          BY <4>3 DEF Writing, SessionTypeOK
        <5> HIDE DEF u
        <5>2. txns'[u] = IF u = ended THEN "ended" ELSE txns[u]
          BY <5>1, ServerStepIs, SMT
        <5>3. ASSUME txns'[u] = "open"
              PROVE  staged'[u] = staged[u] /\ staged[u] \cap StagedIn(ended) = {} /\ txns[u] = "open"
          <6>1. u # ended /\ txns[u] = "open"
            BY <5>2, <5>3
          <6>2. staged'[u] = staged[u]
            BY <5>1, <6>1, ServerStepIs
          <6>3. \A x \in staged[u] : x \notin StagedIn(ended)
            BY <1>1, <5>1, <6>1 DEF Staging
          <6> QED
            BY <6>1, <6>2, <6>3
        <5>4. /\ txns'[u] # "unused"
              /\ txns'[u] = "open" =>
                   /\ wrote'[d] \subseteq durable' \cup staged'[u]
                   /\ "keepPrepared" \notin Habits => wrote'[d] \cap durable' = {}
          BY <1>2, <3>0, <4>1, <5>1, <5>2, <5>3
        <5> QED
          BY <3>2, <4>3, <5>4 DEF u
      <4> QED
        BY <4>2, <4>3
    <3>3. CASE d = c /\ cn'[d].txn # cn[d].txn
      <4>1. MayTell(c, how) /\ cn'[d].txn \in {None, begun}
        BY <3>3
      <4>2. wrote'[d] = {}
        BY <3>3, <4>1 DEF MayTell, SessionTypeOK
      <4> QED
        BY <3>1, <4>1, <4>2
    <3> QED
      BY <1>8, <3>2, <3>3
  <2> QED
    BY <2>1 DEF Writing
<1>11. Reports'
  <2>1. /\ StagedIn(ended) \cap durable = {} /\ StagedIn(ended) \cap undone = {}
    BY <1>1, SMT DEF Staging
  <2> QED
    BY <1>2, <1>3, <1>4, <2>1 DEF Reports
<1> QED
  BY <1>3, <1>6, <1>7, <1>9, <1>10, <1>11

LEMMA SessionStarts == SessionInit => SessionInv /\ Latest /\ RunsLatest
<1> SUFFICES ASSUME SessionInit PROVE SessionInv /\ Latest /\ RunsLatest
  OBVIOUS
<1>1. SessionTypeOK
  BY DEF SessionInit, SessionTypeOK, Calls, NoCall, NoStmt, NoHandle
<1>2. Modes /\ Staging /\ Prepared /\ Writing /\ Reports
  BY DEF SessionInit, Modes, Staging, Prepared, Writing, Reports, NoStmt
<1>3. Latest /\ RunsLatest
  BY DEF SessionInit, Latest, RunsLatest, NoStmt, NoCall
<1> QED
  BY <1>1, <1>2, <1>3 DEF SessionInv
-----------------------------------------------------------------------------
(* The steps of connections.                                               *)

\* Commit, Rollback and the options, once it is known which transaction ends and
\* which begins.
LEMMA EndSteps ==
  ASSUME SessionInv, NEW c \in Connections, NEW how \in {"commit", "rollback"}, cn[c].open,
         \/ cn[c].txn # None /\ EndOnly(c, how)
         \/ cn[c].txn # None /\ EndThenBegin(c, how)
  PROVE  SessionInv'
<1> USE NoneAssumption DEF SessionInv
<1>0. cn[c].txn \in Txns \cup {None}
  BY DEF SessionTypeOK
<1>1. CASE cn[c].txn # None /\ EndOnly(c, how)
  <2>1. PICK ended \in {None, cn[c].txn} :
           (ended # None => txns[ended] = "open") /\ ServerStep(ended, how, None)
    BY <1>1 DEF EndOnly, EndFails
  <2>2. UNCHANGED <<cn, st, mode, want, ran, wrote, acked, undone>>
    BY <1>1 DEF EndOnly, callers
  <2>4. Staging' /\ Prepared' /\ Writing' /\ Reports'
    BY <1>0, <2>1, <2>2, TxnStep
  <2>5. SessionTypeOK'
    BY <1>0, <2>1, <2>2, ServerStepIs, SMT DEF SessionTypeOK
  <2>6. Modes'
    BY <2>2 DEF Modes
  <2> QED
    BY <2>4, <2>5, <2>6
<1>2. CASE cn[c].txn # None /\ EndThenBegin(c, how)
  <2>1. PICK b \in BeginOutcomes :
          /\ ServerStep(cn[c].txn, how, b.begun) /\ SetTxn(c, b.txn)
          /\ Told(c, how, b.txn # None)
    BY <1>2 DEF EndThenBegin
  <2>2. txns[cn[c].txn] = "open" /\ UNCHANGED <<st, mode, want, ran>>
    BY <1>2 DEF EndThenBegin
  <2>3. MayTell(c, how)
    BY <2>1, ToldIs
  <2>4. /\ \A d \in Connections : cn'[d].txn = IF d = c THEN b.txn ELSE cn[d].txn
        /\ \A d \in Connections : cn'[d].open = cn[d].open
        /\ cn' \in [Connections -> [open : BOOLEAN, txn : Txns \cup {None}, transactions : BOOLEAN]]
    <3>1. cn' = [cn EXCEPT ![c] = [open |-> TRUE, txn |-> b.txn, transactions |-> @.transactions]]
      BY <2>1 DEF SetTxn
    <3>2. b.txn \in Txns \cup {None}
      BY BeginIs
    <3> QED
      BY <3>1, <3>2 DEF SessionTypeOK
  <2>5. /\ handles' = handles /\ txns' \in [Txns -> {"unused", "open", "ended"}]
        /\ staged' \in [Txns -> SUBSET Rows] /\ durable' \subseteq Rows
    BY <2>1, BeginIs, <1>0, ServerStepIs
  <2>6. /\ Staging' /\ Prepared' /\ Writing' /\ Reports'
        /\ acked' \subseteq Rows /\ undone' \subseteq Rows
        /\ wrote' \in [Connections -> SUBSET Rows]
    <3>1. cn'[c].txn \in {None, b.begun} /\ \A d \in Connections \ {c} : cn'[d].txn = cn[d].txn
      BY <2>4, BeginIs
    <3>2. b.begun \in Txns \cup {None} /\ (b.begun # None => txns[b.begun] = "unused")
      BY BeginIs
    <3> QED
      BY <1>0, <1>2, <2>1, <2>2, <2>3, <3>1, <3>2, TxnStep
  <2>7. SessionTypeOK'
    BY <2>2, <2>4, <2>5, <2>6 DEF SessionTypeOK
  <2>8. Modes'
    <3>1. mode[c] # "auto" /\ cn'[c].open
      BY <1>2, <2>4 DEF Modes
    <3> QED
      BY <2>2, <2>4, <3>1 DEF Modes
  <2> QED
    BY <2>6, <2>7, <2>8
<1> QED
  BY <1>1, <1>2

\* Open, Close and the options.
LEMMA ConnectionSteps ==
  ASSUME SessionInv, NEW c \in Connections,
         \/ Open(c) \/ Commit(c) \/ Rollback(c)
         \/ EnableAutocommit(c) \/ DisableAutocommit(c) \/ Close(c)
  PROVE  SessionInv'
<1> USE NoneAssumption DEF SessionInv
<1>0. cn[c].txn \in Txns \cup {None}
  BY DEF SessionTypeOK
<1>1. CASE Open(c)
  <2>1. UNCHANGED <<st, server, mode, want, ran, wrote, acked, undone>>
    BY <1>1 DEF Open, callers
  <2>2. cn[c].txn = None
    BY <1>1 DEF Open, Modes
  <2>3. /\ \A d \in Connections : cn'[d].txn = cn[d].txn /\ (d # c => cn'[d].open = cn[d].open)
        /\ cn' \in [Connections -> [open : BOOLEAN, txn : Txns \cup {None}, transactions : BOOLEAN]]
    <3>1. PICK supported \in BOOLEAN :
            cn' = [cn EXCEPT ![c] = [open |-> TRUE, txn |-> None, transactions |-> supported]]
      BY <1>1 DEF Open
    <3> QED
      BY <2>2, <3>1 DEF SessionTypeOK
  <2>4. SessionTypeOK'
    BY <2>1, <2>3 DEF SessionTypeOK, server
  <2>5. Modes' /\ Staging' /\ Reports'
    BY <2>1, <2>2, <2>3 DEF Modes, Staging, Reports, server
  <2>7. Writing'
    BY <2>1, <2>3 DEF Writing, server
  <2>6. Prepared'
    BY <2>1, <2>3, SMT DEF Prepared, server, SessionTypeOK, NoStmt
  <2> QED
    BY <2>4, <2>5, <2>6, <2>7
<1>2. CASE Close(c)
  <2>1. UNCHANGED <<st, server, want, ran, acked, undone>>
    BY <1>2 DEF Close
  <2>2. /\ \A d \in Connections \ {c} : cn'[d] = cn[d] /\ mode'[d] = mode[d]
        /\ cn'[c].txn = None /\ \A s \in Statements : st[s].cnxn # c
        /\ cn' \in [Connections -> [open : BOOLEAN, txn : Txns \cup {None}, transactions : BOOLEAN]]
        /\ mode' \in [Connections -> {"auto", "manual"}]
        /\ \A d \in Connections : wrote'[d] = IF d = c THEN {} ELSE wrote[d]
        /\ wrote' \in [Connections -> SUBSET Rows]
    BY <1>2 DEF Close, SessionTypeOK
  <2>3. SessionTypeOK'
    BY <2>1, <2>2 DEF SessionTypeOK, server
  <2>4. Modes' /\ Staging' /\ Reports'
    BY <2>1, <2>2 DEF Modes, Staging, Reports, server
  <2>6. Writing'
    BY <2>1, <2>2 DEF Writing, server
  <2>5. Prepared'
    BY <2>1, <2>2, SMT DEF Prepared, server, SessionTypeOK, NoStmt
  <2> QED
    BY <2>3, <2>4, <2>5, <2>6
<1>3. CASE Commit(c)
  BY <1>3, EndSteps DEF Commit
<1>4. CASE Rollback(c)
  BY <1>4, EndSteps DEF Rollback
<1>5. CASE EnableAutocommit(c)
  <2>1. CASE cn[c].txn = None
    <3>1. UNCHANGED <<cn, st, server, want, ran>> /\ Told(c, "commit", TRUE)
      BY <1>5, <2>1 DEF EnableAutocommit
    <3>2. mode' = [mode EXCEPT ![c] = "auto"]
      BY <1>5, <2>1 DEF EnableAutocommit
    <3>3. /\ acked' = acked \cup wrote[c] /\ undone' = undone
          /\ \A d \in Connections : wrote'[d] = IF d = c THEN {} ELSE wrote[d]
          /\ wrote' \in [Connections -> SUBSET Rows] /\ wrote[c] \subseteq Rows
      BY <3>1 DEF Told, SessionTypeOK
    <3>4. wrote[c] \subseteq durable
      BY <2>1 DEF Writing
    <3>5. SessionTypeOK'
      BY <3>1, <3>2, <3>3 DEF SessionTypeOK, server
    <3>6. Modes' /\ Staging' /\ Reports'
      BY <2>1, <3>1, <3>2, <3>3, <3>4, SMT DEF Modes, Staging, Reports, server, SessionTypeOK
    <3>7. Prepared' /\ Writing'
      BY <3>1, <3>3 DEF Prepared, Writing, server
    <3> QED
      BY <3>5, <3>6, <3>7
  <2>2. CASE cn[c].txn # None /\ EndOnly(c, "commit")
    BY <1>5, <2>2, EndSteps DEF EnableAutocommit
  <2>3. CASE /\ cn[c].txn # None /\ txns[cn[c].txn] = "open"
             /\ ServerStep(cn[c].txn, "commit", None) /\ SetTxn(c, None)
             /\ mode' = [mode EXCEPT ![c] = "auto"]
             /\ Told(c, "commit", TRUE)
             /\ UNCHANGED <<st, want, ran>>
    <3>1. /\ \A d \in Connections : cn'[d].txn = IF d = c THEN None ELSE cn[d].txn
          /\ \A d \in Connections \ {c} : cn'[d].open = cn[d].open /\ mode'[d] = mode[d]
          /\ cn' \in [Connections -> [open : BOOLEAN, txn : Txns \cup {None}, transactions : BOOLEAN]]
          /\ mode' \in [Connections -> {"auto", "manual"}]
      BY <2>3 DEF SetTxn, SessionTypeOK
    <3>2. MayTell(c, "commit")
      BY <2>3, ToldIs
    <3>3. /\ Staging' /\ Prepared' /\ Writing' /\ Reports' /\ acked' \subseteq Rows
          /\ undone' \subseteq Rows /\ wrote' \in [Connections -> SUBSET Rows]
      <4>1. cn'[c].txn = None /\ \A d \in Connections \ {c} : cn'[d].txn = cn[d].txn
        BY <3>1
      <4> QED
        BY <1>0, <2>3, <3>2, <4>1, TxnStep
    <3>4. SessionTypeOK'
      BY <1>0, <2>3, <3>1, <3>3, ServerStepIs, SMT DEF SessionTypeOK
    <3>5. Modes'
      BY <3>1 DEF Modes
    <3> QED
      BY <3>3, <3>4, <3>5
  <2> QED
    BY <1>5, <2>1, <2>2, <2>3 DEF EnableAutocommit
<1>6. CASE DisableAutocommit(c)
  <2>1. CASE cn[c].txn = None
    <3>1. PICK b \in BeginOutcomes :
            /\ ServerStep(None, "commit", b.begun) /\ SetTxn(c, b.txn)
            /\ mode' = [mode EXCEPT ![c] = IF b.txn = None THEN @ ELSE "manual"]
            /\ Told(c, "commit", b.txn # None)
      BY <1>6, <2>1 DEF DisableAutocommit
    <3>2. UNCHANGED <<st, want, ran>> /\ cn[c].open
      BY <1>6, <2>1 DEF DisableAutocommit
    <3>3. /\ \A d \in Connections : cn'[d].txn = IF d = c THEN b.txn ELSE cn[d].txn
          /\ \A d \in Connections \ {c} : cn'[d].open = cn[d].open /\ mode'[d] = mode[d]
          /\ cn'[c].open /\ (b.txn # None => mode'[c] = "manual")
          /\ cn' \in [Connections -> [open : BOOLEAN, txn : Txns \cup {None}, transactions : BOOLEAN]]
          /\ mode' \in [Connections -> {"auto", "manual"}]
      <4>1. cn' = [cn EXCEPT ![c] = [open |-> TRUE, txn |-> b.txn, transactions |-> @.transactions]]
        BY <3>1 DEF SetTxn
      <4>2. b.txn \in Txns \cup {None}
        BY BeginIs
      <4> QED
        BY <3>1, <4>1, <4>2 DEF SessionTypeOK
    <3>4. MayTell(c, "commit")
      BY <3>1, ToldIs
    <3>5. /\ Staging' /\ Prepared' /\ Writing' /\ Reports' /\ acked' \subseteq Rows
          /\ undone' \subseteq Rows /\ wrote' \in [Connections -> SUBSET Rows]
      <4>1. cn'[c].txn \in {None, b.begun} /\ \A d \in Connections \ {c} : cn'[d].txn = cn[d].txn
        BY <3>3, BeginIs
      <4>2. b.begun \in Txns \cup {None} /\ (b.begun # None => txns[b.begun] = "unused")
        BY BeginIs
      <4> QED
        BY <2>1, <3>1, <3>2, <3>4, <4>1, <4>2, TxnStep
    <3>6. SessionTypeOK'
      <4>1. /\ handles' = handles /\ txns' \in [Txns -> {"unused", "open", "ended"}]
            /\ staged' \in [Txns -> SUBSET Rows] /\ durable' \subseteq Rows
        BY <3>1, BeginIs, ServerStepIs
      <4> QED
        BY <3>2, <3>3, <3>5, <4>1 DEF SessionTypeOK
    <3>7. Modes'
      BY <3>3 DEF Modes
    <3> QED
      BY <3>5, <3>6, <3>7
  <2>2. CASE cn[c].txn # None
    BY <1>6, <2>2, EndSteps DEF DisableAutocommit
  <2> QED
    BY <2>1, <2>2
<1> QED
  BY <1>1, <1>2, <1>3, <1>4, <1>5, <1>6

-----------------------------------------------------------------------------
(* The steps of statements.                                                *)

\* The server's prepared statements change their state, and nothing else.
Closes == \A h \in Handles :
  /\ handles'[h].query = handles[h].query /\ handles'[h].txn = handles[h].txn
  /\ handles[h].state # "unused" => handles'[h].state # "unused"

LEMMA ClosesIs ==
  ASSUME SessionTypeOK, UNCHANGED handles \/ \E h \in Handles : CloseSucceeds(h) \/ CloseFails(h)
  PROVE  /\ Closes
         /\ handles' \in [Handles -> [state : {"unused", "open", "closed"},
                                      query : Queries \cup {None}, txn : Txns \cup {None}]]
<1>1. CASE UNCHANGED handles
  BY <1>1 DEF Closes, SessionTypeOK
<1>2. ASSUME NEW h \in Handles, ServerCloses(h)
      PROVE  /\ Closes
             /\ handles' \in [Handles -> [state : {"unused", "open", "closed"},
                                          query : Queries \cup {None}, txn : Txns \cup {None}]]
  BY <1>2 DEF ServerCloses, Closes, SessionTypeOK
<1> QED
  BY <1>1, <1>2 DEF CloseSucceeds, CloseFails

\* Steps of a statement that leave the transactions alone, and after which the
\* statement has the prepared statement it had, or none.
LEMMA StatementKeeps ==
  ASSUME SessionInv, UNCHANGED <<cn, txns, staged, durable, mode, wrote, acked, undone>>, Closes, SessionTypeOK',
         \A s \in Statements : st'[s].prepared # None =>
           st'[s].prepared = st[s].prepared /\ st'[s].cnxn = st[s].cnxn
  PROVE  SessionInv'
<1>1. Modes' /\ Staging' /\ Writing' /\ Reports'
  BY DEF SessionInv, Modes, Staging, Writing, Reports
<1>2. Prepared'
  BY SMT DEF SessionInv, Prepared, Closes, SessionTypeOK
<1> QED
  BY <1>1, <1>2 DEF SessionInv

\* Every statement's operation except Prepare and Execute.
LEMMA StatementSteps ==
  ASSUME SessionInv, NEW s \in Statements,
         \/ \E c \in Connections : NewStatement(s, c)
         \/ \E q \in Queries : SetQuery(s, q)
         \/ \E p \in Params : Bind(s, p)
         \/ CloseStatement(s)
  PROVE  SessionInv'
<1> USE NoneAssumption DEF SessionInv
<1>1. ASSUME NEW c \in Connections, NewStatement(s, c)
      PROVE  SessionInv'
  <2>1. Closes /\ UNCHANGED <<cn, txns, staged, durable, handles, mode, wrote, acked, undone>>
    BY <1>1 DEF NewStatement, server, Closes
  <2>2. SessionTypeOK'
    <3>1. /\ st' \in [Statements -> [cnxn : Connections \cup {None}, query : Queries \cup {None},
                                     prepared : Handles \cup {None}, params : Params \cup {None}]]
          /\ \A t \in Statements : st'[t].cnxn = None => st'[t] = NoStmt
      BY <1>1 DEF NewStatement, SessionTypeOK
    <3>2. NoCall \in Calls
      BY DEF NoCall, Calls
    <3>3. want' \in [Statements -> Calls] /\ ran' \in [Statements -> Calls]
      BY <1>1, <3>2 DEF NewStatement, SessionTypeOK
    <3> QED
      BY <2>1, <3>1, <3>3 DEF SessionTypeOK
  <2>3. \A t \in Statements : st'[t] = IF t = s THEN [cnxn |-> c, query |-> None, prepared |-> None,
                                                      params |-> None] ELSE st[t]
    BY <1>1 DEF NewStatement, SessionTypeOK
  <2> QED
    BY <2>1, <2>2, <2>3, StatementKeeps, SMT
<1>2. ASSUME NEW q \in Queries, SetQuery(s, q)
      PROVE  SessionInv'
  <2>1. UNCHANGED <<cn, txns, staged, durable, mode, wrote, acked, undone>> /\ st[s].cnxn # None
    BY <1>2 DEF SetQuery
  <2>2. UNCHANGED handles \/ \E h \in Handles : CloseSucceeds(h) \/ CloseFails(h)
    BY <1>2 DEF SetQuery, SessionTypeOK
  <2>3. TakesQuery(s, q) \/ UNCHANGED <<st, want, ran>>
    BY <1>2 DEF SetQuery
  <2>4. /\ \A t \in Statements : st'[t].prepared # None => st'[t] = st[t]
        /\ \A t \in Statements : st'[t].cnxn = None => st'[t] = NoStmt
        /\ st' \in [Statements -> [cnxn : Connections \cup {None}, query : Queries \cup {None},
                                   prepared : Handles \cup {None}, params : Params \cup {None}]]
        /\ want' \in [Statements -> Calls] /\ ran' \in [Statements -> Calls]
    <3>1. CASE TakesQuery(s, q)
      <4>1. \A t \in Statements :
              st'[t] = IF t = s THEN [cnxn |-> st[s].cnxn, query |-> q, prepared |-> None,
                                      params |-> None] ELSE st[t]
        BY <3>1 DEF TakesQuery, SessionTypeOK
      <4>2. st' \in [Statements -> [cnxn : Connections \cup {None}, query : Queries \cup {None},
                                    prepared : Handles \cup {None}, params : Params \cup {None}]]
        BY <3>1 DEF TakesQuery, SessionTypeOK
      <4>3. want' \in [Statements -> Calls] /\ ran' \in [Statements -> Calls]
        BY <3>1 DEF TakesQuery, SessionTypeOK, Calls, NoCall
      <4> QED
        BY <2>1, <4>1, <4>2, <4>3, SMT DEF SessionTypeOK
    <3>2. CASE UNCHANGED <<st, want, ran>>
      BY <3>2 DEF SessionTypeOK
    <3> QED
      BY <2>3, <3>1, <3>2
  <2>5. SessionTypeOK'
    BY <2>1, <2>2, <2>4, ClosesIs DEF SessionTypeOK
  <2> QED
    BY <2>1, <2>2, <2>4, <2>5, ClosesIs, StatementKeeps
<1>3. ASSUME NEW p \in Params, Bind(s, p)
      PROVE  SessionInv'
  <2>1. Closes /\ UNCHANGED <<cn, txns, staged, durable, handles, mode, wrote, acked, undone>>
    BY <1>3 DEF Bind, server, Closes
  <2>2. /\ \A t \in Statements : st'[t].prepared = st[t].prepared /\ st'[t].cnxn = st[t].cnxn
        /\ \A t \in Statements : st'[t].cnxn = None => st'[t] = NoStmt
        /\ st' \in [Statements -> [cnxn : Connections \cup {None}, query : Queries \cup {None},
                                   prepared : Handles \cup {None}, params : Params \cup {None}]]
    BY <1>3, SMT DEF Bind, SessionTypeOK, NoStmt
  <2>3. want' \in [Statements -> Calls] /\ ran' \in [Statements -> Calls]
    BY <1>3 DEF Bind, SessionTypeOK, Calls, NoCall
  <2>4. SessionTypeOK'
    BY <2>1, <2>2, <2>3 DEF SessionTypeOK
  <2> QED
    BY <2>1, <2>2, <2>4, StatementKeeps
<1>4. CASE CloseStatement(s)
  <2>1. UNCHANGED <<cn, txns, staged, durable, mode, wrote, acked, undone>>
    BY <1>4 DEF CloseStatement
  <2>2. UNCHANGED handles \/ \E h \in Handles : CloseSucceeds(h) \/ CloseFails(h)
    BY <1>4 DEF CloseStatement, SessionTypeOK
  <2>3. /\ \A t \in Statements : st'[t] = IF t = s THEN NoStmt ELSE st[t]
        /\ st' \in [Statements -> [cnxn : Connections \cup {None}, query : Queries \cup {None},
                                   prepared : Handles \cup {None}, params : Params \cup {None}]]
        /\ want' \in [Statements -> Calls] /\ ran' \in [Statements -> Calls]
    BY <1>4 DEF CloseStatement, SessionTypeOK, Calls, NoCall, NoStmt
  <2>4. SessionTypeOK'
    BY <2>1, <2>2, <2>3, ClosesIs DEF SessionTypeOK
  <2>5. NoStmt.prepared = None
    BY DEF NoStmt
  <2> QED
    BY <2>1, <2>2, <2>3, <2>4, <2>5, ClosesIs, StatementKeeps
<1> QED
  BY <1>1, <1>2, <1>3, <1>4

\* Prepare, in the connection's transaction.
LEMMA PrepareStep ==
  ASSUME SessionInv, NEW s \in Statements, Prepare(s)
  PROVE  SessionInv'
<1> USE NoneAssumption DEF SessionInv
<1> DEFINE new == [state |-> "open", query |-> st[s].query, txn |-> TxnOf(s)]
<1>1. PICK h \in Handles :
        /\ handles[h].state = "unused" /\ handles' = [handles EXCEPT ![h] = new]
        /\ \/ st' = [st EXCEPT ![s] = [cnxn |-> @.cnxn, query |-> @.query,
                                       prepared |-> h, params |-> None]]
           \/ UNCHANGED st
  BY DEF Prepare
<1>2. /\ UNCHANGED <<cn, txns, staged, durable, mode, want, ran, wrote, acked, undone>>
      /\ st[s].cnxn \in Connections /\ Alive(TxnOf(s))
  BY DEF Prepare, callers, SessionTypeOK
<1>3. /\ TxnOf(s) = cn[st[s].cnxn].txn /\ TxnOf(s) \in Txns \cup {None}
      /\ TxnOf(s) # None => txns[TxnOf(s)] = "open"
  BY <1>2 DEF TxnOf, Alive, SessionTypeOK
<1>4. ASSUME NEW t \in Statements
      PROVE  /\ st'[t].cnxn = st[t].cnxn
             /\ st'[t].prepared # st[t].prepared => t = s /\ st'[t].prepared = h
             /\ st'[t].cnxn = None => st'[t] = NoStmt
  <2>1. CASE UNCHANGED st
    BY <2>1 DEF SessionTypeOK
  <2>2. CASE st' = [st EXCEPT ![s] = [cnxn |-> @.cnxn, query |-> @.query,
                                      prepared |-> h, params |-> None]]
    <3>1. CASE t = s
      <4>1. st'[s] = [cnxn |-> st[s].cnxn, query |-> st[s].query, prepared |-> h, params |-> None]
        BY <2>2 DEF SessionTypeOK
      <4> QED
        BY <1>2, <3>1, <4>1, SMT
    <3>2. CASE t # s
      <4>1. st'[t] = st[t]
        BY <2>2, <3>2 DEF SessionTypeOK
      <4> QED
        BY <4>1 DEF SessionTypeOK
    <3> QED
      BY <3>1, <3>2
  <2> QED
    BY <1>1, <2>1, <2>2
<1>5. SessionTypeOK'
  <2>1. handles' \in [Handles -> [state : {"unused", "open", "closed"},
                                  query : Queries \cup {None}, txn : Txns \cup {None}]]
    BY <1>1, <1>3 DEF SessionTypeOK
  <2>2. st' \in [Statements -> [cnxn : Connections \cup {None}, query : Queries \cup {None},
                                prepared : Handles \cup {None}, params : Params \cup {None}]]
    <3>1. st[s].cnxn \in Connections \cup {None} /\ st[s].query \in Queries \cup {None}
      BY DEF SessionTypeOK
    <3>2. CASE UNCHANGED st
      BY <3>2 DEF SessionTypeOK
    <3>3. CASE st' = [st EXCEPT ![s] = [cnxn |-> @.cnxn, query |-> @.query,
                                        prepared |-> h, params |-> None]]
      BY <3>1, <3>3 DEF SessionTypeOK
    <3> QED
      BY <1>1, <3>2, <3>3
  <2>3. \A t \in Statements : st'[t].cnxn = None => st'[t] = NoStmt
    BY <1>4
  <2> QED
    BY <1>2, <2>1, <2>2, <2>3 DEF SessionTypeOK
<1>6. Modes' /\ Staging' /\ Writing' /\ Reports'
  BY <1>2 DEF Modes, Staging, Writing, Reports
<1>7. Prepared'
  <2>1. handles'[h] = new /\ \A g \in Handles \ {h} : handles'[g] = handles[g]
    BY <1>1 DEF SessionTypeOK
  <2>2. \A t \in Statements : st[t].prepared # h
    BY <1>1 DEF Prepared
  <2>3. new.state = "open" /\ new.txn = TxnOf(s)
    OBVIOUS
  <2> HIDE DEF new
  <2>4. ASSUME NEW t \in Statements, st'[t].prepared # None
        PROVE  /\ handles'[st'[t].prepared].state # "unused"
               /\ handles'[st'[t].prepared].txn # None =>
                    /\ txns[handles'[st'[t].prepared].txn] # "unused"
                    /\ txns[handles'[st'[t].prepared].txn] = "open"
                         => cn[st[t].cnxn].txn = handles'[st'[t].prepared].txn
    <3>1. CASE st'[t].prepared = h
      <4>1. t = s
        BY <1>4, <2>2, <3>1
      <4>2. handles'[st'[t].prepared].state = "open" /\ handles'[st'[t].prepared].txn = TxnOf(s)
        BY <2>1, <2>3, <3>1
      <4> QED
        BY <1>3, <4>1, <4>2
    <3>2. CASE st'[t].prepared # h
      <4>1. st'[t].prepared = st[t].prepared /\ st[t].prepared \in Handles
        <5>1. st'[t].prepared = st[t].prepared
          BY <1>4, <3>2
        <5> QED
          BY <2>4, <5>1 DEF SessionTypeOK
      <4> QED
        BY <2>1, <2>4, <3>2, <4>1, SMT DEF Prepared
    <3> QED
      BY <3>1, <3>2
  <2>5. \A t \in Statements : st'[t].cnxn = st[t].cnxn
    BY <1>4
  <2> QED
    BY <1>2, <2>4, <2>5 DEF Prepared
<1> QED
  BY <1>5, <1>6, <1>7

\* The row goes where the caller's mode says: a prepared statement of an earlier
\* transaction does not run.
LEMMA ExecuteStep ==
  ASSUME SessionInv, NEW s \in Statements, NEW r \in Rows, Fresh(r), Execute(s, r)
  PROVE  SessionInv'
<1> USE NoneAssumption DEF SessionInv
<1>1. PICK t \in Txns \cup {None}, q \in Queries \cup {None}, p \in Params \cup {None} :
        /\ Runs(s, q, p, t, r)
        /\ mode[st[s].cnxn] = "auto" => t = None
        /\ t # None => t = TxnOf(s)
        /\ "keepPrepared" \notin Habits => t = TxnOf(s)
  <2> DEFINE h == st[s].prepared
  <2>1. /\ st[s].cnxn \in Connections /\ h \in Handles \cup {None}
        /\ st[s].query \in Queries \cup {None} /\ st[s].params \in Params \cup {None}
    BY DEF Execute, SessionTypeOK
  <2>2. CASE h = None
    <3>1. Runs(s, st[s].query, None, TxnOf(s), r) /\ TxnOf(s) \in Txns \cup {None}
      BY <2>1, <2>2 DEF Execute, TxnOf, SessionTypeOK
    <3>2. mode[st[s].cnxn] = "auto" => TxnOf(s) = None
      BY <2>1 DEF TxnOf, Modes
    <3> QED
      BY <2>1, <3>1, <3>2
  <2>3. CASE h # None
    <3>1. Runs(s, handles[h].query, st[s].params, handles[h].txn, r)
      BY <2>3 DEF Execute
    <3>2. handles[h].query \in Queries \cup {None} /\ handles[h].txn \in Txns \cup {None}
      BY <2>1, <2>3 DEF SessionTypeOK
    <3>3. handles[h].txn # None => txns[handles[h].txn] = "open"
      BY <3>1 DEF Runs, Alive
    <3>4. handles[h].txn # None => cn[st[s].cnxn].txn = handles[h].txn
      BY <2>3, <3>3 DEF Prepared
    <3>5. mode[st[s].cnxn] = "auto" => handles[h].txn = None
      BY <2>1, <3>4 DEF Modes
    <3>6. /\ handles[h].txn # None => handles[h].txn = TxnOf(s)
          /\ "keepPrepared" \notin Habits => handles[h].txn = TxnOf(s)
      BY <2>3, <3>4 DEF Execute, TxnOf
    <3> QED
      BY <2>1, <3>1, <3>2, <3>5, <3>6
  <2> QED
    BY <2>1, <2>2, <2>3
<1>2. UNCHANGED <<cn, st, txns, handles, mode, want, undone>>
  BY DEF Execute
<1> DEFINE c == st[s].cnxn
<1>3. /\ c \in Connections
      /\ acked' = acked \/ (acked' = acked \cup {r} /\ mode[c] = "auto")
      /\ wrote' \in [Connections -> SUBSET Rows]
      /\ \A d \in Connections : wrote'[d] = wrote[d] \/ (d = c /\ wrote'[d] = wrote[d] \cup {r})
  <2>1. c \in Connections
    BY DEF Execute, SessionTypeOK
  <2>2. \/ mode[c] = "auto" /\ acked' = acked \cup {r} /\ UNCHANGED wrote
        \/ wrote' = [wrote EXCEPT ![c] = @ \cup {r}] /\ UNCHANGED acked
        \/ UNCHANGED <<wrote, acked>>
    BY DEF Execute
  <2> HIDE DEF c
  <2>3. wrote \in [Connections -> SUBSET Rows]
    BY DEF SessionTypeOK
  <2>4. CASE UNCHANGED wrote
    BY <2>1, <2>2, <2>3, <2>4
  <2>5. CASE wrote' = [wrote EXCEPT ![c] = @ \cup {r}] /\ UNCHANGED acked
    BY <2>1, <2>3, <2>5
  <2> QED
    BY <2>2, <2>4, <2>5
<1> HIDE DEF c
<1>4. r \notin durable /\ r \notin undone /\ \A u \in Txns : r \notin staged[u]
  BY DEF Fresh
<1>5. ran' \in [Statements -> Calls]
  <2>1. [query |-> q, params |-> p] \in Calls
    BY DEF Calls
  <2>2. ran' = [ran EXCEPT ![s] = [query |-> q, params |-> p]]
    BY <1>1 DEF Runs
  <2> QED
    BY <2>1, <2>2 DEF SessionTypeOK
<1>6. Modes' /\ Prepared'
  BY <1>2 DEF Modes, Prepared
<1>7. /\ t = None => durable' = durable \cup {r} /\ staged' = staged
      /\ t # None => /\ t \in Txns /\ txns[t] = "open" /\ durable' = durable
                     /\ staged' = [staged EXCEPT ![t] = @ \cup {r}]
  BY <1>1 DEF Runs, Alive
<1>8. /\ durable \subseteq durable' /\ durable' \subseteq durable \cup {r}
      /\ \A u \in Txns : staged[u] \subseteq staged'[u]
      /\ t = None => r \in durable'
      /\ t # None => t \in Txns /\ r \in staged'[t] /\ durable' = durable
  <2>1. CASE t = None
    BY <1>7, <2>1
  <2>2. CASE t # None
    <3>1. \A u \in Txns : staged'[u] = IF u = t THEN staged[u] \cup {r} ELSE staged[u]
      BY <1>7, <2>2 DEF SessionTypeOK
    <3> QED
      BY <1>7, <2>2, <3>1
  <2> QED
    BY <2>1, <2>2
<1>9. SessionTypeOK'
  <2>1. durable' \subseteq Rows /\ staged' \in [Txns -> SUBSET Rows]
    <3>0. staged \in [Txns -> SUBSET Rows] /\ durable \subseteq Rows
      BY DEF SessionTypeOK
    <3>1. CASE t = None
      BY <1>7, <3>0, <3>1
    <3>2. CASE t # None
      BY <1>7, <3>0, <3>2
    <3> QED
      BY <3>1, <3>2
  <2> QED
    BY <1>2, <1>3, <1>5, <2>1 DEF SessionTypeOK
<1>10. Staging'
  <2>1. CASE t = None
    BY <1>2, <1>4, <1>7, <2>1, SMT DEF Staging
  <2>2. CASE t # None
    <3>1. \A u \in Txns : staged'[u] = IF u = t THEN staged[u] \cup {r} ELSE staged[u]
      BY <1>7, <2>2 DEF SessionTypeOK
    <3>2. t \in Txns /\ txns[t] = "open" /\ durable' = durable
      BY <1>7, <2>2
    <3>3. UNCHANGED <<txns, undone>>
      BY <1>2
    <3>4. ASSUME NEW u \in Txns
          PROVE  /\ txns'[u] # "open" => staged'[u] = {}
                 /\ \A x \in staged'[u] :
                      x \notin durable' /\ x \notin undone' /\ \A v \in Txns : x \in staged'[v] => v = u
      <4>1. txns[u] # "open" => staged'[u] = {}
        BY <3>1, <3>2 DEF Staging
      <4>2. ASSUME NEW x \in staged'[u]
            PROVE  x \notin durable /\ x \notin undone /\ \A v \in Txns : x \in staged'[v] => v = u
        <5>1. CASE x = r
          BY <1>4, <3>1, <4>2, <5>1
        <5>2. CASE x # r
          <6>1. x \in staged[u] /\ \A v \in Txns : x \in staged'[v] => x \in staged[v]
            <7>1. \A v \in Txns : staged'[v] \subseteq staged[v] \cup {r}
              BY <3>1
            <7> QED
              BY <4>2, <5>2, <7>1
          <6> QED
            BY <6>1 DEF Staging
        <5> QED
          BY <5>1, <5>2
      <4> QED
        BY <3>2, <3>3, <4>1, <4>2
    <3> QED
      BY <3>4 DEF Staging
  <2> QED
    BY <2>1, <2>2
<1>11. Reports'
  <2>1. acked' \subseteq durable'
    BY <1>1, <1>3, <1>8 DEF c, Reports
  <2>2. "keepPrepared" \notin Habits => undone' \cap durable' = {}
    BY <1>2, <1>4, <1>8 DEF Reports
  <2> QED
    BY <2>1, <2>2 DEF Reports
<1>12. Writing'
  <2>1. ASSUME NEW d \in Connections
        PROVE  /\ cn[d].txn = None => wrote'[d] \subseteq durable'
               /\ cn[d].txn # None =>
                    /\ txns[cn[d].txn] # "unused"
                    /\ txns[cn[d].txn] = "open" =>
                         /\ wrote'[d] \subseteq durable' \cup staged'[cn[d].txn]
                         /\ "keepPrepared" \notin Habits => wrote'[d] \cap durable' = {}
    <3> DEFINE u == cn[d].txn
    <3>1. /\ u \in Txns \cup {None}
          /\ u = None => wrote[d] \subseteq durable
          /\ u # None => /\ txns[u] # "unused"
                         /\ txns[u] = "open" =>
                              /\ wrote[d] \subseteq durable \cup staged[u]
                              /\ "keepPrepared" \notin Habits => wrote[d] \cap durable = {}
      BY DEF Writing, SessionTypeOK
    <3>2. d = c => u = TxnOf(s)
      BY DEF TxnOf, c
    <3> HIDE DEF u
    <3>3. wrote'[d] \subseteq wrote[d] \cup {r} /\ (d # c => wrote'[d] = wrote[d])
      BY <1>3
    <3>4. ASSUME u = None PROVE wrote'[d] \subseteq durable'
      <4>1. CASE d = c
        BY <1>1, <1>8, <3>1, <3>2, <3>3, <3>4, <4>1
      <4>2. CASE d # c
        BY <1>8, <3>1, <3>3, <3>4, <4>2
      <4> QED
        BY <4>1, <4>2
    <3>5. ASSUME u # None, txns[u] = "open"
          PROVE  /\ wrote'[d] \subseteq durable' \cup staged'[u]
                 /\ "keepPrepared" \notin Habits => wrote'[d] \cap durable' = {}
      <4>1. /\ wrote[d] \subseteq durable \cup staged[u] /\ u \in Txns
            /\ "keepPrepared" \notin Habits => wrote[d] \cap durable = {}
        BY <3>1, <3>5
      <4>2. wrote[d] \subseteq durable' \cup staged'[u]
        BY <1>8, <4>1
      <4>3. r \notin wrote[d] \/ "keepPrepared" \in Habits
        BY <1>4, <4>1
      <4>4. CASE d = c
        <5>1. t = u \/ (t = None /\ "keepPrepared" \in Habits)
          BY <1>1, <3>2, <4>4
        <5> QED
          BY <1>4, <1>8, <3>3, <3>5, <4>1, <4>2, <5>1
      <4>5. CASE d # c
        BY <1>8, <3>3, <4>1, <4>2, <4>3, <4>5
      <4> QED
        BY <4>4, <4>5
    <3> QED
      BY <3>1, <3>4, <3>5 DEF u
  <2> QED
    BY <1>2, <2>1 DEF Writing
<1> QED
  BY <1>6, <1>9, <1>10, <1>11, <1>12

\* The invariant of the session.
THEOREM SessionInvariance == SessionSpec => []SessionInv
<1>1. SessionInit => SessionInv
  BY SessionStarts
<1>2. SessionInv /\ [SessionNext]_sessionVars => SessionInv'
  <2> SUFFICES ASSUME SessionInv, [SessionNext]_sessionVars PROVE SessionInv'
    OBVIOUS
  <2>1. CASE UNCHANGED sessionVars
    <3>1. SessionTypeOK'
      BY <2>1 DEF SessionInv, SessionTypeOK, sessionVars, server, callers
    <3>2. Modes' /\ Staging' /\ Prepared' /\ Writing' /\ Reports'
      BY <2>1 DEF SessionInv, Modes, Staging, Prepared, Writing, Reports, sessionVars, server, callers
    <3> QED
      BY <3>1, <3>2 DEF SessionInv
  <2>2. CASE SessionNext
    BY <2>2, ConnectionSteps, StatementSteps, PrepareStep, ExecuteStep DEF SessionNext
  <2> QED
    BY <2>1, <2>2
<1> QED
  BY <1>1, <1>2, PTL DEF SessionSpec

\* What the caller has written and the Flight SQL driver has reported as committed,
\* or as written in autocommit mode, has taken effect, for any loss of requests and
\* answers and any habit of the callers.
THEOREM CommitsStayTrue == SessionSpec => [](acked \subseteq durable)
<1>1. SessionInv => acked \subseteq durable
  BY DEF SessionInv, Reports
<1> QED
  BY <1>1, SessionInvariance, PTL

\* Moreover what was reported as rolled back has not taken effect, if callers do
\* not keep a prepared statement over a change of transaction.
THEOREM ReportsStayTrue ==
  ASSUME "keepPrepared" \notin Habits
  PROVE  SessionSpec => []ReportsAreTrue
<1>1. SessionInv => ReportsAreTrue
  BY DEF SessionInv, Reports, ReportsAreTrue
<1> QED
  BY <1>1, SessionInvariance, PTL

-----------------------------------------------------------------------------
(* What runs is what was set last.                                         *)

\* What Latest and RunsLatest say of one statement.
LatestOf(s) ==
  /\ want[s] = [query |-> st[s].query, params |-> st[s].params]
  /\ st[s].prepared = None => st[s].params = None
  /\ st[s].prepared # None =>
       handles[st[s].prepared].state # "unused" /\ handles[st[s].prepared].query = st[s].query
  /\ ran[s] # NoCall => ran[s] = want[s]

\* The server's prepared statements keep their queries.
QueriesStay == \A h \in Handles : handles[h].state # "unused" =>
  handles'[h].state # "unused" /\ handles'[h].query = handles[h].query

\* A step of one statement does not concern the others.
LEMMA OthersStay ==
  ASSUME SessionTypeOK, Latest, RunsLatest, NEW s \in Statements, QueriesStay, LatestOf(s)',
         \A t \in Statements \ {s} : st'[t] = st[t] /\ want'[t] = want[t] /\ ran'[t] = ran[t]
  PROVE  Latest' /\ RunsLatest'
<1>1. ASSUME NEW t \in Statements PROVE LatestOf(t)'
  <2>1. CASE t = s
    BY <2>1
  <2>2. CASE t # s
    <3>1. st[t].prepared # None => st[t].prepared \in Handles
      BY DEF SessionTypeOK
    <3>2. st'[t] = st[t] /\ want'[t] = want[t] /\ ran'[t] = ran[t]
      BY <2>2
    <3>3. LatestOf(t)
      BY DEF Latest, RunsLatest, LatestOf
    <3> QED
      BY <3>1, <3>2, <3>3 DEF LatestOf, QueriesStay
  <2> QED
    BY <2>1, <2>2
<1> QED
  BY <1>1 DEF Latest, RunsLatest, LatestOf

\* The steps of connections, and those that fail, leave the statements alone.
LEMMA StatementsStay ==
  ASSUME SessionTypeOK, Latest, RunsLatest, UNCHANGED <<st, want, ran>>, QueriesStay
  PROVE  Latest' /\ RunsLatest'
<1>1. ASSUME NEW t \in Statements, st[t].prepared # None PROVE st[t].prepared \in Handles
  BY <1>1 DEF SessionTypeOK
<1>2. Latest'
  BY <1>1 DEF Latest, QueriesStay
<1> QED
  BY <1>2 DEF RunsLatest

LEMMA ConnectionsRunNothing ==
  ASSUME SessionTypeOK, NEW c \in Connections,
         \/ Open(c) \/ Commit(c) \/ Rollback(c)
         \/ EnableAutocommit(c) \/ DisableAutocommit(c) \/ Close(c)
  PROVE  UNCHANGED <<st, want, ran, handles>>
<1>1. ASSUME NEW how, EndOnly(c, how) PROVE UNCHANGED <<st, want, ran, handles>>
  BY <1>1 DEF EndOnly, EndFails, ServerStep, callers
<1>2. ASSUME NEW how, EndThenBegin(c, how) PROVE UNCHANGED <<st, want, ran, handles>>
  BY <1>2 DEF EndThenBegin, ServerStep
<1>3. CASE Open(c) \/ Close(c)
  BY <1>3 DEF Open, Close, server, callers
<1>4. CASE Commit(c) \/ Rollback(c)
  BY <1>1, <1>2, <1>4 DEF Commit, Rollback
<1>5. CASE EnableAutocommit(c)
  BY <1>1, <1>5 DEF EnableAutocommit, ServerStep, server
<1>6. CASE DisableAutocommit(c)
  BY <1>1, <1>2, <1>6 DEF DisableAutocommit, ServerStep
<1> QED
  BY <1>3, <1>4, <1>5, <1>6

LEMMA StatementsRunLatest ==
  ASSUME "prepareTwice" \notin Habits, SessionTypeOK, Latest, RunsLatest, NEW s \in Statements,
         \/ \E c \in Connections : NewStatement(s, c)
         \/ \E q \in Queries : SetQuery(s, q)
         \/ Prepare(s)
         \/ \E p \in Params : Bind(s, p)
         \/ \E r \in Rows : Execute(s, r)
         \/ CloseStatement(s)
  PROVE  Latest' /\ RunsLatest'
<1> USE NoneAssumption
<1>h. st[s].prepared # None => st[s].prepared \in Handles
  BY DEF SessionTypeOK
<1>l. LatestOf(s)
  BY DEF Latest, RunsLatest, LatestOf
<1>c. UNCHANGED handles \/ (\E h \in Handles : CloseSucceeds(h) \/ CloseFails(h)) => QueriesStay
  BY ClosesIs DEF Closes, QueriesStay
<1>1. ASSUME NEW c \in Connections, NewStatement(s, c)
      PROVE  Latest' /\ RunsLatest'
  <2>1. QueriesStay
    BY <1>1, <1>c DEF NewStatement, server
  <2>2. \A t \in Statements \ {s} : st'[t] = st[t] /\ want'[t] = want[t] /\ ran'[t] = ran[t]
    BY <1>1 DEF NewStatement, SessionTypeOK
  <2>3. LatestOf(s)'
    BY <1>1, SMT DEF NewStatement, SessionTypeOK, LatestOf, NoCall
  <2> QED
    BY <2>1, <2>2, <2>3, OthersStay
<1>2. ASSUME NEW q \in Queries, SetQuery(s, q)
      PROVE  Latest' /\ RunsLatest'
  <2>1. QueriesStay
    BY <1>2, <1>c, <1>h DEF SetQuery
  <2>2. CASE TakesQuery(s, q)
    <3>1. \A t \in Statements \ {s} : st'[t] = st[t] /\ want'[t] = want[t] /\ ran'[t] = ran[t]
      BY <2>2 DEF TakesQuery, SessionTypeOK
    <3>2. LatestOf(s)'
      BY <2>2 DEF TakesQuery, SessionTypeOK, LatestOf
    <3> QED
      BY <2>1, <3>1, <3>2, OthersStay
  <2>3. CASE UNCHANGED <<st, want, ran>>
    BY <2>1, <2>3, StatementsStay
  <2> QED
    BY <1>2, <2>2, <2>3 DEF SetQuery
<1>3. CASE Prepare(s)
  <2>1. PICK h \in Handles :
          /\ handles[h].state = "unused"
          /\ handles' = [handles EXCEPT ![h] =
                           [state |-> "open", query |-> st[s].query, txn |-> TxnOf(s)]]
          /\ \/ st' = [st EXCEPT ![s] = [cnxn |-> @.cnxn, query |-> @.query,
                                         prepared |-> h, params |-> None]]
             \/ UNCHANGED st
    BY <1>3 DEF Prepare
  <2>2. st[s].prepared = None /\ UNCHANGED <<want, ran>>
    BY <1>3 DEF Prepare, callers
  <2>3. QueriesStay
    BY <2>1 DEF QueriesStay, SessionTypeOK
  <2>4. CASE UNCHANGED st
    BY <2>2, <2>3, <2>4, StatementsStay
  <2>5. CASE st' = [st EXCEPT ![s] = [cnxn |-> @.cnxn, query |-> @.query,
                                      prepared |-> h, params |-> None]]
    <3>1. \A t \in Statements \ {s} : st'[t] = st[t] /\ want'[t] = want[t] /\ ran'[t] = ran[t]
      BY <2>2, <2>5 DEF SessionTypeOK
    <3>2. st'[s].query = st[s].query /\ st'[s].prepared = h /\ st'[s].params = None
      BY <2>5 DEF SessionTypeOK
    <3>3. handles'[h].state = "open" /\ handles'[h].query = st[s].query
      BY <2>1 DEF SessionTypeOK
    <3>4. st[s].params = None
      BY <1>l, <2>2 DEF LatestOf
    <3>5. LatestOf(s)'
      BY <1>l, <2>2, <3>2, <3>3, <3>4 DEF LatestOf
    <3> QED
      BY <2>3, <3>1, <3>5, OthersStay
  <2> QED
    BY <2>1, <2>4, <2>5
<1>4. ASSUME NEW p \in Params, Bind(s, p)
      PROVE  Latest' /\ RunsLatest'
  <2>1. QueriesStay /\ UNCHANGED handles
    BY <1>4, <1>c DEF Bind, server
  <2>2. \A t \in Statements \ {s} : st'[t] = st[t] /\ want'[t] = want[t] /\ ran'[t] = ran[t]
    BY <1>4 DEF Bind, SessionTypeOK
  <2>3. /\ st'[s].query = st[s].query /\ st'[s].prepared = st[s].prepared /\ st'[s].params = p
        /\ st[s].prepared # None
        /\ want'[s] = [query |-> want[s].query, params |-> p] /\ ran'[s] = NoCall
    BY <1>4 DEF Bind, SessionTypeOK
  <2>4. want[s].query = st[s].query
    <3>1. want[s] = [query |-> st[s].query, params |-> st[s].params]
      BY <1>l DEF LatestOf
    <3>2. [query |-> st[s].query, params |-> st[s].params].query = st[s].query
      OBVIOUS
    <3> QED
      BY <3>1, <3>2
  <2>5. LatestOf(s)'
    BY <1>l, <2>1, <2>3, <2>4 DEF LatestOf
  <2> QED
    BY <2>1, <2>2, <2>5, OthersStay
<1>5. ASSUME NEW r \in Rows, Execute(s, r)
      PROVE  Latest' /\ RunsLatest'
  <2>1. UNCHANGED <<st, want, handles>> /\ QueriesStay
    BY <1>5, <1>c DEF Execute
  <2>2. ran' = [ran EXCEPT ![s] = want[s]]
    <3>1. CASE st[s].prepared = None
      <4>1. ran' = [ran EXCEPT ![s] = [query |-> st[s].query, params |-> None]]
        BY <1>5, <3>1 DEF Execute, Runs
      <4> QED
        BY <1>l, <3>1, <4>1 DEF LatestOf
    <3>2. CASE st[s].prepared # None
      <4>1. ran' = [ran EXCEPT ![s] = [query |-> handles[st[s].prepared].query,
                                       params |-> st[s].params]]
        BY <1>5, <3>2 DEF Execute, Runs
      <4> QED
        BY <1>l, <3>2, <4>1 DEF LatestOf
    <3> QED
      BY <3>1, <3>2
  <2>3. \A t \in Statements : ran'[t] = IF t = s THEN want[s] ELSE ran[t]
    BY <2>2 DEF SessionTypeOK
  <2>4. LatestOf(s)'
    BY <1>l, <2>1, <2>3 DEF LatestOf
  <2>5. \A t \in Statements \ {s} : st'[t] = st[t] /\ want'[t] = want[t] /\ ran'[t] = ran[t]
    BY <2>1, <2>3
  <2> QED
    BY <2>1, <2>4, <2>5, OthersStay
<1>6. CASE CloseStatement(s)
  <2>1. QueriesStay
    BY <1>6, <1>c, <1>h DEF CloseStatement
  <2>2. \A t \in Statements \ {s} : st'[t] = st[t] /\ want'[t] = want[t] /\ ran'[t] = ran[t]
    BY <1>6 DEF CloseStatement, SessionTypeOK
  <2>3. LatestOf(s)'
    BY <1>6 DEF CloseStatement, SessionTypeOK, LatestOf, NoCall, NoStmt
  <2> QED
    BY <2>1, <2>2, <2>3, OthersStay
<1> QED
  BY <1>1, <1>2, <1>3, <1>4, <1>5, <1>6

\* A statement of the Flight SQL driver runs the query that was set last with the
\* parameters that were bound last, also when the server runs what was prepared;
\* callers do not prepare a statement twice, which would drop the parameters.
THEOREM LatestRuns ==
  ASSUME "prepareTwice" \notin Habits
  PROVE  SessionSpec => []RunsLatest
<1> DEFINE Inv == SessionInv /\ Latest /\ RunsLatest
<1>1. SessionInit => Inv
  BY SessionStarts
<1>2. Inv /\ SessionInv' /\ [SessionNext]_sessionVars => Inv'
  <2> SUFFICES ASSUME Inv, [SessionNext]_sessionVars PROVE Latest' /\ RunsLatest'
    OBVIOUS
  <2>1. SessionTypeOK /\ Latest /\ RunsLatest
    BY DEF SessionInv
  <2> HIDE DEF Inv
  <2>2. UNCHANGED <<st, want, ran, handles>> => Latest' /\ RunsLatest'
    BY <2>1, StatementsStay DEF QueriesStay
  <2>3. CASE UNCHANGED sessionVars
    BY <2>2, <2>3 DEF sessionVars, server, callers
  <2>4. CASE SessionNext
    BY <2>1, <2>2, <2>4, ConnectionsRunNothing, StatementsRunLatest DEF SessionNext
  <2> QED
    BY <2>3, <2>4
<1>3. Inv => RunsLatest
  OBVIOUS
<1> QED
  BY <1>1, <1>2, <1>3, SessionInvariance, PTL DEF SessionSpec

-----------------------------------------------------------------------------
(* What the steps of a connection do to transactions.                      *)

\* The other connections keep theirs.
OthersKeep(c) ==
  \A d \in Connections \ {c} : cn'[d].txn = cn[d].txn /\ mode'[d] = mode[d]

\* Nothing happens to a transaction; without one, autocommit may be set again.
Stays(c) ==
  /\ UNCHANGED <<txns, staged, durable>> /\ cn'[c].txn = cn[c].txn
  /\ mode'[c] = mode[c] \/ (cn[c].txn = None /\ mode'[c] = "auto")

Ends(c, how, begun) ==
  cn[c].txn # None /\ txns[cn[c].txn] = "open" /\ ServerStep(cn[c].txn, how, begun)

\* The transaction ends and the driver does not hear of it.
EndsUnheard(c, how) == Ends(c, how, None) /\ cn'[c].txn = cn[c].txn /\ mode'[c] = mode[c]

\* The transaction ends and the next one is begun.
Replaces(c, how) ==
  \E b \in BeginOutcomes : Ends(c, how, b.begun) /\ cn'[c].txn = b.txn /\ mode'[c] = mode[c]

EndsForGood(c) == Ends(c, "commit", None) /\ cn'[c].txn = None /\ mode'[c] = "auto"

Begins(c) ==
  /\ cn[c].txn = None
  /\ \E b \in BeginOutcomes :
       /\ ServerStep(None, "commit", b.begun) /\ cn'[c].txn = b.txn
       /\ mode'[c] = IF b.txn = None THEN mode[c] ELSE "manual"

\* The connection is closed, and the server is not told.
Forgets(c) == UNCHANGED <<txns, staged, durable>> /\ cn'[c].txn = None /\ mode'[c] = "auto"

Moves(c) ==
  \/ Stays(c) \/ EndsForGood(c) \/ Begins(c)
  \/ \E how \in {"commit", "rollback"} : EndsUnheard(c, how) \/ Replaces(c, how)

\* A server's step without a transaction changes nothing.
LEMMA NoServerStep ==
  ASSUME SessionTypeOK, NEW how, ServerStep(None, how, None)
  PROVE  UNCHANGED <<txns, staged, durable>>
<1>0. \A t \in Txns : t # None
  BY NoneAssumption
<1>1. txns' = txns
  <2>1. txns \in [Txns -> {"unused", "open", "ended"}]
    BY DEF SessionTypeOK
  <2> QED
    BY <1>0, <2>1 DEF ServerStep
<1>2. staged' = staged
  <2>1. staged \in [Txns -> SUBSET Rows]
    BY DEF SessionTypeOK
  <2> QED
    BY <1>0, <2>1 DEF ServerStep
<1>3. durable' = durable
  BY DEF ServerStep, StagedIn
<1> QED
  BY <1>1, <1>2, <1>3

LEMMA EndMoves ==
  ASSUME SessionInv, NEW c \in Connections, NEW how \in {"commit", "rollback"}, cn[c].txn # None,
         EndOnly(c, how) \/ EndThenBegin(c, how)
  PROVE  OthersKeep(c) /\ Moves(c)
<1>1. CASE EndOnly(c, how)
  <2>1. UNCHANGED <<cn, mode>>
    BY <1>1 DEF EndOnly, callers
  <2>2. CASE ServerStep(None, how, None)
    BY <2>1, <2>2, NoServerStep DEF OthersKeep, Moves, Stays, SessionInv
  <2>3. CASE txns[cn[c].txn] = "open" /\ ServerStep(cn[c].txn, how, None)
    BY <2>1, <2>3 DEF OthersKeep, Moves, EndsUnheard, Ends
  <2> QED
    BY <1>1, <2>2, <2>3 DEF EndOnly, EndFails
<1>2. CASE EndThenBegin(c, how)
  <2>1. PICK b \in BeginOutcomes : ServerStep(cn[c].txn, how, b.begun) /\ SetTxn(c, b.txn)
    BY <1>2 DEF EndThenBegin
  <2>2. txns[cn[c].txn] = "open" /\ mode' = mode
    BY <1>2 DEF EndThenBegin
  <2>3. \A d \in Connections : cn'[d].txn = IF d = c THEN b.txn ELSE cn[d].txn
    BY <2>1 DEF SetTxn, SessionInv, SessionTypeOK
  <2>4. Replaces(c, how)
    BY <2>1, <2>2, <2>3 DEF Replaces, Ends
  <2> QED
    BY <2>2, <2>3, <2>4 DEF OthersKeep, Moves
<1> QED
  BY <1>1, <1>2

LEMMA ConnectionMoves ==
  ASSUME SessionInv, NEW c \in Connections,
         \/ Open(c) \/ Commit(c) \/ Rollback(c)
         \/ EnableAutocommit(c) \/ DisableAutocommit(c)
  PROVE  OthersKeep(c) /\ Moves(c)
<1>0. \A t : SetTxn(c, t) => \A d \in Connections : cn'[d].txn = IF d = c THEN t ELSE cn[d].txn
  BY SMT DEF SetTxn, SessionInv, SessionTypeOK
<1>1. CASE Open(c)
  <2>1. UNCHANGED <<txns, staged, durable, mode>> /\ cn[c].txn = None
    BY <1>1 DEF Open, SessionInv, Modes, server, callers
  <2>2. \A d \in Connections : cn'[d].txn = cn[d].txn
    BY <1>1, <2>1, SMT DEF Open, SessionInv, SessionTypeOK
  <2> QED
    BY <2>1, <2>2 DEF OthersKeep, Moves, Stays
<1>2. CASE Commit(c) \/ Rollback(c)
  BY <1>2, EndMoves DEF Commit, Rollback
<1>3. CASE EnableAutocommit(c)
  <2>1. CASE cn[c].txn = None
    <3>1. UNCHANGED <<cn, txns, staged, durable>> /\ mode' = [mode EXCEPT ![c] = "auto"]
      BY <1>3, <2>1 DEF EnableAutocommit, server
    <3>2. mode'[c] = "auto" /\ \A d \in Connections \ {c} : mode'[d] = mode[d]
      BY <3>1 DEF SessionInv, SessionTypeOK
    <3> QED
      BY <2>1, <3>1, <3>2 DEF OthersKeep, Moves, Stays
  <2>2. CASE cn[c].txn # None /\ EndOnly(c, "commit")
    BY <2>2, EndMoves
  <2>3. CASE /\ cn[c].txn # None /\ txns[cn[c].txn] = "open"
             /\ ServerStep(cn[c].txn, "commit", None) /\ SetTxn(c, None)
             /\ mode' = [mode EXCEPT ![c] = "auto"]
    <3>1. mode'[c] = "auto" /\ \A d \in Connections \ {c} : mode'[d] = mode[d]
      BY <2>3 DEF SessionInv, SessionTypeOK
    <3>2. \A d \in Connections : cn'[d].txn = IF d = c THEN None ELSE cn[d].txn
      BY <1>0, <2>3
    <3> QED
      BY <2>3, <3>1, <3>2 DEF OthersKeep, Moves, EndsForGood, Ends
  <2> QED
    BY <1>3, <2>1, <2>2, <2>3 DEF EnableAutocommit
<1>4. CASE DisableAutocommit(c)
  <2>1. CASE cn[c].txn = None
    <3>1. PICK b \in BeginOutcomes :
            /\ ServerStep(None, "commit", b.begun) /\ SetTxn(c, b.txn)
            /\ mode' = [mode EXCEPT ![c] = IF b.txn = None THEN @ ELSE "manual"]
      BY <1>4, <2>1 DEF DisableAutocommit
    <3>2. /\ mode'[c] = IF b.txn = None THEN mode[c] ELSE "manual"
          /\ \A d \in Connections \ {c} : mode'[d] = mode[d]
      BY <3>1 DEF SessionInv, SessionTypeOK
    <3>3. \A d \in Connections : cn'[d].txn = IF d = c THEN b.txn ELSE cn[d].txn
      BY <1>0, <3>1
    <3>4. Begins(c)
      BY <2>1, <3>1, <3>2, <3>3 DEF Begins
    <3> QED
      BY <3>2, <3>3, <3>4 DEF OthersKeep, Moves
  <2>2. CASE cn[c].txn # None
    BY <1>4, <2>2, EndMoves DEF DisableAutocommit
  <2> QED
    BY <2>1, <2>2
<1> QED
  BY <1>1, <1>2, <1>3, <1>4

LEMMA CloseMoves ==
  ASSUME SessionInv, NEW c \in Connections, Close(c)
  PROVE  OthersKeep(c) /\ Forgets(c) /\ (cn[c].txn = None \/ "closeInTransaction" \in Habits)
BY DEF Close, OthersKeep, Forgets, SessionInv, SessionTypeOK, server

-----------------------------------------------------------------------------
(* Nothing is left on the server.                                          *)

\* The faults that let the driver keep track of what it has on the server: it
\* hears of every transaction and prepared statement, and can close the latter.
Traced ==
  ~Fault("begin", "lost") /\ ~Fault("prepare", "lost") /\ ~Fault("close", "refused")

\* Callers who end a transaction before they close its connection, and do not
\* prepare a statement again before they set another query.
Tidy == "closeInTransaction" \notin Habits /\ "prepareTwice" \notin Habits

TxnsOwned == \A t \in Txns : txns[t] = "open" => \E c \in Connections : cn[c].txn = t

HandlesOwned ==
  \A h \in Handles : handles[h].state = "open" => \E s \in Statements : st[s].prepared = h

\* BeginTransaction, when its answer is not lost: the driver knows of the
\* transaction that the server has begun.
LEMMA BegunIsKnown ==
  ASSUME ~Fault("begin", "lost"), NEW b \in BeginOutcomes
  PROVE  b.txn = b.begun
BY SMT DEF BeginOutcomes

\* A step of connection c that ends its transaction, or none, and begins the
\* one that it then has, or none.
LEMMA OwnedStep ==
  ASSUME SessionTypeOK, TxnsOwned, NEW c \in Connections, NEW how \in {"commit", "rollback"},
         NEW ended \in Txns \cup {None}, NEW begun \in Txns \cup {None},
         ServerStep(ended, how, begun), OthersKeep(c),
         cn'[c].txn = cn[c].txn \/ cn[c].txn = ended, begun # None => cn'[c].txn = begun
  PROVE  TxnsOwned'
<1> SUFFICES ASSUME NEW t \in Txns, txns'[t] = "open" PROVE \E d \in Connections : cn'[d].txn = t
  BY DEF TxnsOwned
<1>0. txns'[t] = IF t = ended THEN "ended" ELSE IF t = begun THEN "open" ELSE txns[t]
  BY DEF ServerStep
<1>1. t # ended /\ (t = begun \/ txns[t] = "open")
  BY <1>0
<1>2. CASE t = begun
  BY <1>2, NoneAssumption
<1>3. CASE txns[t] = "open"
  <2>1. PICK d \in Connections : cn[d].txn = t
    BY <1>3 DEF TxnsOwned
  <2>2. cn'[d].txn = t
    BY <1>1, <2>1 DEF OthersKeep
  <2> QED
    BY <2>2
<1> QED
  BY <1>1, <1>2, <1>3

LEMMA TransactionsOwned ==
  ASSUME SessionInv, TxnsOwned, ~Fault("begin", "lost"), "closeInTransaction" \notin Habits,
         NEW c \in Connections,
         \/ Open(c) \/ Commit(c) \/ Rollback(c)
         \/ EnableAutocommit(c) \/ DisableAutocommit(c) \/ Close(c)
  PROVE  TxnsOwned'
<1>0. SessionTypeOK /\ cn[c].txn \in Txns \cup {None}
  BY DEF SessionInv, SessionTypeOK
<1>1. ASSUME UNCHANGED txns, \A d \in Connections : cn'[d].txn = cn[d].txn PROVE TxnsOwned'
  BY <1>1 DEF TxnsOwned
<1>2. CASE Close(c)
  <2>1. UNCHANGED txns /\ \A d \in Connections : cn'[d].txn = cn[d].txn
    BY <1>2, CloseMoves DEF OthersKeep, Forgets
  <2> QED
    BY <1>1, <2>1
<1>3. CASE OthersKeep(c) /\ Stays(c)
  BY <1>1, <1>3 DEF OthersKeep, Stays
<1>4. ASSUME NEW how \in {"commit", "rollback"}, OthersKeep(c), EndsUnheard(c, how) PROVE TxnsOwned'
  BY <1>0, <1>4, OwnedStep DEF EndsUnheard, Ends
<1>5. ASSUME NEW how \in {"commit", "rollback"}, OthersKeep(c), Replaces(c, how) PROVE TxnsOwned'
  <2>1. PICK b \in BeginOutcomes : ServerStep(cn[c].txn, how, b.begun) /\ cn'[c].txn = b.txn
    BY <1>5 DEF Replaces, Ends
  <2>2. b.txn = b.begun /\ b.begun \in Txns \cup {None}
    BY BegunIsKnown, BeginIs
  <2> QED
    BY <1>0, <1>5, <2>1, <2>2, OwnedStep
<1>6. CASE OthersKeep(c) /\ EndsForGood(c)
  BY <1>0, <1>6, OwnedStep DEF EndsForGood, Ends
<1>7. CASE OthersKeep(c) /\ Begins(c)
  <2>1. PICK b \in BeginOutcomes : ServerStep(None, "commit", b.begun) /\ cn'[c].txn = b.txn
    BY <1>7 DEF Begins
  <2>2. b.txn = b.begun /\ b.begun \in Txns \cup {None} /\ cn[c].txn = None
    BY <1>7, BegunIsKnown, BeginIs DEF Begins
  <2> QED
    BY <1>0, <1>7, <2>1, <2>2, OwnedStep
<1> QED
  BY <1>2, <1>3, <1>4, <1>5, <1>6, <1>7, ConnectionMoves DEF Moves

\* A statement gives a prepared statement up only when it is closed.
LEMMA PreparedOwned ==
  ASSUME SessionTypeOK, HandlesOwned, ~Fault("prepare", "lost"), ~Fault("close", "refused"),
         "prepareTwice" \notin Habits, NEW s \in Statements,
         \/ \E c \in Connections : NewStatement(s, c)
         \/ \E q \in Queries : SetQuery(s, q)
         \/ Prepare(s)
         \/ \E p \in Params : Bind(s, p)
         \/ \E r \in Rows : Execute(s, r)
         \/ CloseStatement(s)
  PROVE  HandlesOwned'
<1> USE NoneAssumption
\* The step of s after which s has, or has closed, what it had before.
<1>0. ASSUME \A t \in Statements \ {s} : st'[t] = st[t],
             \A h \in Handles : handles'[h].state = "open" =>
                \/ st'[s].prepared = h
                \/ handles[h].state = "open" /\ (st[s].prepared = h => st'[s].prepared = h)
      PROVE  HandlesOwned'
  <2> SUFFICES ASSUME NEW h \in Handles, handles'[h].state = "open"
               PROVE  \E t \in Statements : st'[t].prepared = h
    BY DEF HandlesOwned
  <2>1. CASE st'[s].prepared = h
    BY <2>1
  <2>2. CASE handles[h].state = "open" /\ (st[s].prepared = h => st'[s].prepared = h)
    <3>1. PICK t \in Statements : st[t].prepared = h
      BY <2>2 DEF HandlesOwned
    <3> QED
      BY <1>0, <2>2, <3>1
  <2> QED
    BY <1>0, <2>1, <2>2
<1>1. ASSUME NEW h \in Handles, CloseSucceeds(h) \/ CloseFails(h)
      PROVE  \A g \in Handles : handles'[g].state = "open" => g # h /\ handles[g].state = "open"
  <2>1. CASE UNCHANGED handles /\ handles[h].state # "open"
    BY <2>1
  <2>2. CASE ServerCloses(h)
    BY <2>2 DEF ServerCloses, SessionTypeOK
  <2> QED
    BY <1>1, <2>1, <2>2 DEF CloseSucceeds, CloseFails
<1>2. st[s].prepared \in Handles \cup {None}
  BY DEF SessionTypeOK
<1>3. CASE \E c \in Connections : NewStatement(s, c)
  <2>1. PICK c \in Connections : NewStatement(s, c)
    BY <1>3
  <2>2. st[s].prepared = None /\ handles' = handles
    BY <2>1, SMT DEF NewStatement, SessionTypeOK, NoStmt, server
  <2>3. \A t \in Statements \ {s} : st'[t] = st[t]
    BY <2>1 DEF NewStatement, SessionTypeOK
  <2> QED
    BY <1>0, <2>2, <2>3
<1>4. ASSUME NEW q \in Queries, SetQuery(s, q) PROVE HandlesOwned'
  <2>1. \A t \in Statements \ {s} : st'[t] = st[t]
    BY <1>4 DEF SetQuery, TakesQuery, SessionTypeOK
  <2>2. CASE st[s].prepared = None /\ UNCHANGED handles
    BY <1>0, <2>1, <2>2
  <2>3. CASE st[s].prepared # None /\ (CloseSucceeds(st[s].prepared) \/ CloseFails(st[s].prepared))
    BY <1>0, <1>1, <1>2, <2>1, <2>3
  <2> QED
    BY <1>4, <2>2, <2>3 DEF SetQuery
<1>5. CASE Prepare(s)
  <2>1. PICK h \in Handles :
          /\ handles' = [handles EXCEPT ![h] = [state |-> "open", query |-> st[s].query, txn |-> TxnOf(s)]]
          /\ st' = [st EXCEPT ![s] = [cnxn |-> @.cnxn, query |-> @.query,
                                      prepared |-> h, params |-> None]]
    BY <1>5 DEF Prepare
  <2>2. st[s].prepared = None
    BY <1>5 DEF Prepare
  <2>3. st'[s].prepared = h /\ \A t \in Statements \ {s} : st'[t] = st[t]
    BY <2>1 DEF SessionTypeOK
  <2>4. \A g \in Handles \ {h} : handles'[g] = handles[g]
    BY <2>1 DEF SessionTypeOK
  <2> QED
    BY <1>0, <2>2, <2>3, <2>4
<1>6. ASSUME NEW p \in Params, Bind(s, p) PROVE HandlesOwned'
  <2>1. st'[s].prepared = st[s].prepared /\ \A t \in Statements \ {s} : st'[t] = st[t]
    BY <1>6 DEF Bind, SessionTypeOK
  <2>2. handles' = handles
    BY <1>6 DEF Bind, server
  <2> QED
    BY <1>0, <2>1, <2>2
<1>7. ASSUME NEW r \in Rows, Execute(s, r) PROVE HandlesOwned'
  <2>1. st' = st /\ handles' = handles
    BY <1>7 DEF Execute
  <2> QED
    BY <2>1 DEF HandlesOwned
<1>8. CASE CloseStatement(s)
  <2>1. \A t \in Statements \ {s} : st'[t] = st[t]
    BY <1>8 DEF CloseStatement, SessionTypeOK
  <2>2. CASE st[s].prepared = None
    BY <1>0, <1>8, <2>1, <2>2 DEF CloseStatement
  <2>3. CASE st[s].prepared # None
    BY <1>0, <1>1, <1>2, <1>8, <2>1, <2>3 DEF CloseStatement
  <2> QED
    BY <2>2, <2>3
<1> QED
  BY <1>3, <1>4, <1>5, <1>6, <1>7, <1>8

\* The Flight SQL driver leaves no transaction and no prepared statement open on
\* the server, as long as answers that name them arrive and closing is not
\* refused, and callers are tidy.  Commit, Rollback, SetOption, SetSqlQuery and
\* Close keep hold of what they fail to end.
THEOREM ServerIsClean ==
  ASSUME Traced, Tidy
  PROVE  SessionSpec => []NothingIsLeft
<1> DEFINE Inv == TxnsOwned /\ HandlesOwned
<1>1. SessionInit => Inv
  BY SMT DEF SessionInit, TxnsOwned, HandlesOwned, NoHandle
<1>2. SessionInv /\ Inv /\ [SessionNext]_sessionVars => Inv'
  <2> SUFFICES ASSUME SessionInv, Inv, [SessionNext]_sessionVars PROVE Inv'
    OBVIOUS
  <2>1. SessionTypeOK /\ TxnsOwned /\ HandlesOwned
    BY DEF SessionInv
  <2>2. CASE UNCHANGED sessionVars
    BY <2>1, <2>2 DEF TxnsOwned, HandlesOwned, sessionVars, server
  <2>3. ASSUME NEW c \in Connections,
               \/ Open(c) \/ Commit(c) \/ Rollback(c)
               \/ EnableAutocommit(c) \/ DisableAutocommit(c) \/ Close(c)
        PROVE  Inv'
    <3>1. TxnsOwned'
      BY <2>1, <2>3, TransactionsOwned DEF Traced, Tidy
    <3>2. UNCHANGED <<st, handles>>
      BY <2>1, <2>3, ConnectionsRunNothing
    <3> QED
      BY <2>1, <3>1, <3>2 DEF HandlesOwned
  <2>4. ASSUME NEW s \in Statements,
               \/ \E c \in Connections : NewStatement(s, c)
               \/ \E q \in Queries : SetQuery(s, q)
               \/ Prepare(s)
               \/ \E p \in Params : Bind(s, p)
               \/ \E r \in Rows : Execute(s, r)
               \/ CloseStatement(s)
        PROVE  Inv'
    <3>1. HandlesOwned'
      BY <2>1, <2>4, PreparedOwned DEF Traced, Tidy
    <3>2. UNCHANGED <<cn, txns>>
      BY <2>4 DEF NewStatement, SetQuery, Prepare, Bind, Execute, CloseStatement, server
    <3> QED
      BY <2>1, <3>1, <3>2 DEF TxnsOwned
  <2> QED
    BY <2>2, <2>3, <2>4 DEF SessionNext
<1>3. Inv => NothingIsLeft
  BY DEF TxnsOwned, HandlesOwned, NothingIsLeft
<1> QED
  BY <1>1, <1>2, <1>3, SessionInvariance, PTL DEF SessionSpec

-----------------------------------------------------------------------------
(* The connections implement ADBC's transactions.                          *)

\* What the contract sees of the connections.
Manual  == {c \in Connections : mode[c] = "manual"}
Pending == [c \in Connections |-> StagedIn(cn[c].txn)]

ContractStep == Contract!Next \/ UNCHANGED <<Manual, Pending, durable>>

\* With autocommit disabled a connection has a transaction, and nobody else has.
TxnsDistinct ==
  \A c \in Connections :
    /\ mode[c] = "manual" => cn[c].txn # None
    /\ cn[c].txn # None => /\ txns[cn[c].txn] # "unused"
                           /\ \A d \in Connections : cn[d].txn = cn[c].txn => d = c

\* BeginTransaction succeeds.
NeverRefused == ~Fault("begin", "refused") /\ ~Fault("begin", "lost")

LEMMA AlwaysBegins ==
  ASSUME NeverRefused, NEW b \in BeginOutcomes
  PROVE  b.txn \in Txns /\ b.begun = b.txn /\ txns[b.txn] = "unused"
BY SMT DEF BeginOutcomes, NeverRefused, Fault

\* The contract's steps, in the terms of the connections.
LEMMA ContractSteps ==
  ASSUME NEW c \in Connections
  PROVE  /\ \A r \in Rows :
              /\ IF c \in Manual
                   THEN Pending' = [Pending EXCEPT ![c] = @ \cup {r}] /\ UNCHANGED durable
                   ELSE durable' = durable \cup {r} /\ UNCHANGED Pending
              /\ UNCHANGED Manual
              => ContractStep
         /\ /\ c \in Manual /\ UNCHANGED Manual
            /\ durable' = durable \cup Pending[c] /\ Pending' = [Pending EXCEPT ![c] = {}]
            => ContractStep
         /\ /\ c \in Manual /\ Manual' \in {Manual, Manual \ {c}}
            /\ UNCHANGED durable /\ Pending' = [Pending EXCEPT ![c] = {}]
            => ContractStep
         /\ /\ Manual' = Manual \ {c}
            /\ durable' = durable \cup Pending[c] /\ Pending' = [Pending EXCEPT ![c] = {}]
            => ContractStep
         /\ Manual' = Manual \cup {c} /\ UNCHANGED <<Pending, durable>> => ContractStep
<1>1. \A r \in Rows : Contract!Update(c, {r}) => Contract!Next
  BY DEF Contract!Next
<1>2. Contract!Commit(c) \/ Contract!Rollback(c) \/ Contract!EnableAutocommit(c)
        \/ Contract!DisableAutocommit(c) => Contract!Next
  BY DEF Contract!Next
<1>3. ASSUME NEW r \in Rows,
             IF c \in Manual
               THEN Pending' = [Pending EXCEPT ![c] = @ \cup {r}] /\ UNCHANGED durable
               ELSE durable' = durable \cup {r} /\ UNCHANGED Pending,
             UNCHANGED Manual
      PROVE  ContractStep
  BY <1>1, <1>3 DEF ContractStep, Manual, Pending, Contract!Update
<1>4. ASSUME c \in Manual, UNCHANGED Manual, durable' = durable \cup Pending[c],
             Pending' = [Pending EXCEPT ![c] = {}]
      PROVE  ContractStep
  BY <1>2, <1>4 DEF ContractStep, Manual, Pending, Contract!Commit
<1>5. ASSUME c \in Manual, Manual' \in {Manual, Manual \ {c}}, UNCHANGED durable,
             Pending' = [Pending EXCEPT ![c] = {}]
      PROVE  ContractStep
  BY <1>2, <1>5 DEF ContractStep, Manual, Pending, Contract!Rollback
<1>6. ASSUME Manual' = Manual \ {c}, durable' = durable \cup Pending[c],
             Pending' = [Pending EXCEPT ![c] = {}]
      PROVE  ContractStep
  BY <1>2, <1>6 DEF ContractStep, Manual, Pending, Contract!EnableAutocommit
<1>7. ASSUME Manual' = Manual \cup {c}, UNCHANGED <<Pending, durable>>
      PROVE  ContractStep
  BY <1>2, <1>7 DEF ContractStep, Manual, Pending, Contract!DisableAutocommit
<1> QED
  BY <1>3, <1>4, <1>5, <1>6, <1>7

\* What becomes of the pending rows when connection c ends its transaction, or
\* none, and begins one, or none: the other connections' stay.
LEMMA PendingIs ==
  ASSUME SessionInv, TxnsDistinct, NEW c \in Connections, NEW how \in {"commit", "rollback"},
         NEW ended \in {None, cn[c].txn}, NEW begun \in Txns \cup {None},
         begun # None => txns[begun] = "unused",
         ServerStep(ended, how, begun), OthersKeep(c),
         cn'[c].txn \in {None, begun} \/ cn'[c].txn = ended, cn'[c].txn \in Txns \cup {None}
  PROVE  /\ Pending' = [Pending EXCEPT ![c] = {}]
         /\ durable' = IF how = "commit" /\ ended # None THEN durable \cup Pending[c] ELSE durable
<1> USE NoneAssumption
<1>0. SessionTypeOK /\ ended \in Txns \cup {None}
  BY SMT DEF SessionInv, SessionTypeOK
<1>1. \A t \in Txns : staged'[t] = IF t = ended THEN {} ELSE staged[t]
  BY DEF ServerStep
<1>2. ASSUME NEW d \in Connections \ {c} PROVE StagedIn(cn[d].txn)' = StagedIn(cn[d].txn)
  <2>1. cn[d].txn \in Txns \cup {None} /\ cn'[d].txn = cn[d].txn
    BY <1>0, <1>2 DEF OthersKeep, SessionTypeOK
  <2>2. cn[d].txn # None => cn[d].txn # ended
    BY <1>2 DEF TxnsDistinct
  <2> QED
    BY <1>1, <2>1, <2>2 DEF StagedIn
<1>3. StagedIn(cn[c].txn)' = {}
  <2>1. begun # None => staged[begun] = {}
    BY DEF SessionInv, Staging
  <2> QED
    BY <1>1, <2>1 DEF StagedIn
<1>4. Pending' = [Pending EXCEPT ![c] = {}]
  BY <1>2, <1>3 DEF Pending
<1>5. Pending[c] = StagedIn(cn[c].txn)
  BY DEF Pending
<1> QED
  BY <1>4, <1>5 DEF ServerStep, StagedIn

\* The steps of a connection, as the contract sees them.
LEMMA ConnectionContract ==
  ASSUME SessionInv, SessionInv', TxnsDistinct, NeverRefused, NEW c \in Connections,
         \/ Open(c) \/ Commit(c) \/ Rollback(c)
         \/ EnableAutocommit(c) \/ DisableAutocommit(c) \/ Close(c)
  PROVE  ContractStep
<1> USE NoneAssumption
<1>0. /\ cn[c].txn \in Txns \cup {None} /\ cn'[c].txn \in Txns \cup {None}
      /\ mode[c] \in {"auto", "manual"} /\ (mode[c] = "manual" <=> cn[c].txn # None)
      /\ Pending[c] = StagedIn(cn[c].txn)
  BY SMT DEF SessionInv, SessionTypeOK, Modes, TxnsDistinct, Pending
<1>1. OthersKeep(c)
  BY ConnectionMoves, CloseMoves
<1>2. /\ mode'[c] = mode[c] => Manual' = Manual
      /\ mode'[c] = "auto" => Manual' = Manual \ {c}
      /\ mode'[c] = "manual" => Manual' = Manual \cup {c}
  BY <1>1 DEF OthersKeep, Manual
<1>3. c \in Manual <=> mode[c] = "manual"
  BY DEF Manual
<1>4. CASE Stays(c)
  <2>1. \A d \in Connections : cn'[d].txn = cn[d].txn
    BY <1>1, <1>4 DEF OthersKeep, Stays
  <2>2. UNCHANGED <<Pending, durable>>
    BY <1>4, <2>1 DEF Pending, Stays, StagedIn
  <2>3. mode'[c] = mode[c]
    BY <1>0, <1>4 DEF Stays
  <2> QED
    BY <1>2, <2>2, <2>3 DEF ContractStep
<1>5. ASSUME NEW how \in {"commit", "rollback"}, EndsUnheard(c, how) \/ Replaces(c, how)
      PROVE  ContractStep
  <2>1. PICK begun \in Txns \cup {None} :
          /\ begun # None => txns[begun] = "unused"
          /\ ServerStep(cn[c].txn, how, begun)
          /\ cn'[c].txn = begun \/ cn'[c].txn = cn[c].txn
    <3>1. CASE EndsUnheard(c, how)
      BY <3>1 DEF EndsUnheard, Ends
    <3>2. CASE Replaces(c, how)
      <4>1. PICK b \in BeginOutcomes : Ends(c, how, b.begun) /\ cn'[c].txn = b.txn
        BY <3>2 DEF Replaces
      <4> QED
        BY <4>1, AlwaysBegins DEF Ends
    <3> QED
      BY <1>5, <3>1, <3>2
  <2>2. mode'[c] = mode[c] /\ cn[c].txn # None
    BY <1>5 DEF EndsUnheard, Replaces, Ends
  <2>3. /\ Pending' = [Pending EXCEPT ![c] = {}]
        /\ durable' = IF how = "commit" THEN durable \cup Pending[c] ELSE durable
    BY <1>0, <1>1, <2>1, <2>2, PendingIs
  <2>4. c \in Manual /\ Manual' = Manual
    BY <1>0, <1>2, <1>3, <2>2
  <2> QED
    BY <2>3, <2>4, ContractSteps
<1>6. CASE EndsForGood(c)
  <2>1. ServerStep(cn[c].txn, "commit", None) /\ cn'[c].txn = None /\ mode'[c] = "auto"
        /\ cn[c].txn # None
    BY <1>6 DEF EndsForGood, Ends
  <2>2. Pending' = [Pending EXCEPT ![c] = {}] /\ durable' = durable \cup Pending[c]
    BY <1>0, <1>1, <2>1, PendingIs
  <2> QED
    BY <1>2, <2>1, <2>2, ContractSteps
<1>7. CASE Begins(c)
  <2>1. PICK b \in BeginOutcomes :
          /\ ServerStep(None, "commit", b.begun) /\ cn'[c].txn = b.txn
          /\ mode'[c] = IF b.txn = None THEN mode[c] ELSE "manual"
    BY <1>7 DEF Begins
  <2>2. b.txn \in Txns /\ b.begun = b.txn /\ txns[b.begun] = "unused" /\ mode'[c] = "manual"
    BY <2>1, AlwaysBegins
  <2>3. Pending' = [Pending EXCEPT ![c] = {}] /\ durable' = durable
    BY <1>0, <1>1, <2>1, <2>2, PendingIs
  <2>4. Pending[c] = {}
    BY <1>0, <1>7 DEF Begins, StagedIn
  <2>5. Pending' = Pending
    BY <2>3, <2>4 DEF Pending
  <2> QED
    BY <1>2, <2>2, <2>3, <2>5, ContractSteps
<1>8. CASE Forgets(c)
  <2>1. Pending' = [Pending EXCEPT ![c] = {}]
    <3>1. ASSUME NEW d \in Connections \ {c} PROVE StagedIn(cn[d].txn)' = StagedIn(cn[d].txn)
      BY <1>1, <1>8, <3>1 DEF OthersKeep, Forgets, StagedIn
    <3>2. StagedIn(cn[c].txn)' = {}
      BY <1>8 DEF Forgets, StagedIn
    <3> QED
      BY <3>1, <3>2 DEF Pending
  <2>2. durable' = durable /\ Manual' = Manual \ {c}
    BY <1>2, <1>8 DEF Forgets
  <2>3. CASE c \in Manual
    BY <2>1, <2>2, <2>3, ContractSteps
  <2>4. CASE c \notin Manual
    <3>1. Pending[c] = {}
      BY <1>0, <1>3, <2>4 DEF StagedIn
    <3>2. Pending' = Pending
      BY <2>1, <3>1 DEF Pending
    <3> QED
      BY <2>2, <2>4, <3>2 DEF ContractStep
  <2> QED
    BY <2>3, <2>4
<1> QED
  BY <1>4, <1>5, <1>6, <1>7, <1>8, ConnectionMoves, CloseMoves DEF Moves

LEMMA DistinctStep ==
  ASSUME SessionInv, TxnsDistinct, NeverRefused, NEW c \in Connections,
         \/ Open(c) \/ Commit(c) \/ Rollback(c)
         \/ EnableAutocommit(c) \/ DisableAutocommit(c) \/ Close(c)
  PROVE  TxnsDistinct'
<1> USE NoneAssumption
<1>0. SessionTypeOK /\ OthersKeep(c) /\ (mode[c] = "manual" <=> cn[c].txn # None)
  BY ConnectionMoves, CloseMoves DEF SessionInv, SessionTypeOK, Modes, TxnsDistinct
\* Transactions keep having begun, and c has what it had, nothing, or one that
\* had not begun.
<1>1. ASSUME \A t \in Txns : txns[t] # "unused" => txns'[t] # "unused",
             mode'[c] = "manual" => cn'[c].txn # None,
             \/ cn'[c].txn \in {None, cn[c].txn}
             \/ cn'[c].txn \in Txns /\ txns[cn'[c].txn] = "unused" /\ txns'[cn'[c].txn] # "unused"
      PROVE  TxnsDistinct'
  <2> SUFFICES ASSUME NEW d \in Connections
               PROVE  /\ mode'[d] = "manual" => cn'[d].txn # None
                      /\ cn'[d].txn # None => /\ txns'[cn'[d].txn] # "unused"
                                              /\ \A e \in Connections : cn'[e].txn = cn'[d].txn => e = d
    BY DEF TxnsDistinct
  <2>1. \A e \in Connections : cn[e].txn # None => cn[e].txn \in Txns /\ txns[cn[e].txn] # "unused"
    BY <1>0, SMT DEF SessionTypeOK, TxnsDistinct
  <2>2. mode'[d] = "manual" => cn'[d].txn # None
    BY <1>0, <1>1 DEF OthersKeep, TxnsDistinct
  <2>3. cn'[d].txn # None => txns'[cn'[d].txn] # "unused"
    BY <1>0, <1>1, <2>1 DEF OthersKeep
  <2>4. ASSUME NEW e \in Connections, cn'[d].txn # None, cn'[e].txn = cn'[d].txn PROVE e = d
    <3>1. CASE e # c /\ d # c
      BY <1>0, <2>4, <3>1 DEF OthersKeep, TxnsDistinct
    <3>2. CASE e # c /\ d = c
      BY <1>0, <1>1, <2>1, <2>4, <3>2, SMT DEF OthersKeep, TxnsDistinct
    <3>3. CASE e = c /\ d # c
      BY <1>0, <1>1, <2>1, <2>4, <3>3, SMT DEF OthersKeep, TxnsDistinct
    <3> QED
      BY <3>1, <3>2, <3>3
  <2> QED
    BY <2>2, <2>3, <2>4
<1>2. ASSUME NEW ended, NEW begun, NEW how \in {"commit", "rollback"}, ServerStep(ended, how, begun)
      PROVE  /\ \A t \in Txns : txns[t] # "unused" => txns'[t] # "unused"
             /\ begun \in Txns => txns'[begun] # "unused"
  <2>1. \A t \in Txns :
          txns'[t] = IF t = ended THEN "ended" ELSE IF t = begun THEN "open" ELSE txns[t]
    BY <1>2 DEF ServerStep
  <2> QED
    BY <2>1
<1>3. CASE Stays(c)
  BY <1>0, <1>1, <1>3 DEF Stays
<1>4. ASSUME NEW how \in {"commit", "rollback"}, EndsUnheard(c, how) PROVE TxnsDistinct'
  <2>1. ServerStep(cn[c].txn, how, None) /\ cn'[c].txn = cn[c].txn /\ mode'[c] = mode[c]
    BY <1>4 DEF EndsUnheard, Ends
  <2> QED
    BY <1>0, <1>1, <1>2, <2>1
<1>5. ASSUME NEW how \in {"commit", "rollback"}, Replaces(c, how) PROVE TxnsDistinct'
  <2>1. PICK b \in BeginOutcomes : ServerStep(cn[c].txn, how, b.begun) /\ cn'[c].txn = b.txn
    BY <1>5 DEF Replaces, Ends
  <2>2. b.txn \in Txns /\ b.begun = b.txn /\ txns[b.txn] = "unused"
    BY AlwaysBegins
  <2>3. txns'[b.txn] # "unused" /\ \A t \in Txns : txns[t] # "unused" => txns'[t] # "unused"
    BY <1>2, <2>1, <2>2
  <2> QED
    BY <1>1, <2>1, <2>2, <2>3
<1>6. CASE EndsForGood(c)
  <2>1. ServerStep(cn[c].txn, "commit", None) /\ cn'[c].txn = None /\ mode'[c] = "auto"
    BY <1>6 DEF EndsForGood, Ends
  <2> QED
    BY <1>1, <1>2, <2>1
<1>7. CASE Begins(c)
  <2>1. PICK b \in BeginOutcomes : ServerStep(None, "commit", b.begun) /\ cn'[c].txn = b.txn
    BY <1>7 DEF Begins
  <2>2. b.txn \in Txns /\ b.begun = b.txn /\ txns[b.txn] = "unused"
    BY AlwaysBegins
  <2>3. txns'[b.txn] # "unused" /\ \A t \in Txns : txns[t] # "unused" => txns'[t] # "unused"
    BY <1>2, <2>1, <2>2
  <2> QED
    BY <1>1, <2>1, <2>2, <2>3
<1>8. CASE Forgets(c)
  BY <1>1, <1>8 DEF Forgets
<1> QED
  BY <1>3, <1>4, <1>5, <1>6, <1>7, <1>8, ConnectionMoves, CloseMoves DEF Moves

\* An update goes where the connection's mode says; a prepared statement runs in
\* the transaction it was prepared in, which is the connection's.
LEMMA ExecuteContract ==
  ASSUME SessionInv, TxnsDistinct, "keepPrepared" \notin Habits,
         NEW s \in Statements, NEW r \in Rows, Execute(s, r)
  PROVE  ContractStep
<1> USE NoneAssumption
<1> DEFINE c == st[s].cnxn
           t == TxnOf(s)
<1>1. c \in Connections /\ t = cn[c].txn /\ t \in Txns \cup {None} /\ UNCHANGED <<cn, mode>>
  BY DEF Execute, SessionInv, SessionTypeOK, TxnOf
<1>2. \E q, p : Runs(s, q, p, t, r)
  BY DEF Execute
<1>3. IF t = None THEN durable' = durable \cup {r} /\ UNCHANGED staged
      ELSE staged' = [staged EXCEPT ![t] = @ \cup {r}] /\ UNCHANGED durable
  BY <1>2 DEF Runs
<1>4. c \in Manual <=> t # None
  BY <1>1, SMT DEF Manual, SessionInv, SessionTypeOK, Modes, TxnsDistinct
<1>5. Manual' = Manual
  BY <1>1 DEF Manual
<1> HIDE DEF c, t
<1>6. CASE t = None
  <2>1. UNCHANGED Pending
    BY <1>1, <1>3, <1>6 DEF Pending, StagedIn
  <2> QED
    BY <1>1, <1>3, <1>4, <1>5, <1>6, <2>1, ContractSteps
<1>7. CASE t # None
  <2>1. \A u \in Txns : staged'[u] = IF u = t THEN staged[u] \cup {r} ELSE staged[u]
    BY <1>1, <1>3, <1>7, SMT DEF SessionInv, SessionTypeOK
  <2>2. ASSUME NEW d \in Connections
        PROVE  StagedIn(cn[d].txn)' = IF d = c THEN StagedIn(cn[d].txn) \cup {r} ELSE StagedIn(cn[d].txn)
    <3>1. cn'[d].txn = cn[d].txn /\ cn[d].txn \in Txns \cup {None}
      BY <1>1 DEF SessionInv, SessionTypeOK
    <3>2. cn[d].txn = t <=> d = c
      BY <1>1, <1>7 DEF TxnsDistinct
    <3> QED
      BY <1>7, <2>1, <3>1, <3>2 DEF StagedIn
  <2>3. Pending' = [Pending EXCEPT ![c] = @ \cup {r}]
    BY <1>1, <2>2 DEF Pending
  <2> QED
    BY <1>1, <1>3, <1>4, <1>5, <1>7, <2>3, ContractSteps
<1> QED
  BY <1>6, <1>7

\* The Flight SQL driver's connections implement ADBC's transactions: with
\* autocommit disabled no update takes effect before a commit, and otherwise each
\* does at once.  BeginTransaction has to succeed (a connection that is left
\* without a transaction runs in autocommit mode), and callers do not run a
\* statement prepared in an earlier transaction.
THEOREM ContractHolds ==
  ASSUME NeverRefused, "keepPrepared" \notin Habits
  PROVE  SessionSpec => TransactionContract
<1>1. SessionInit => Contract!Init /\ TxnsDistinct
  <2> SUFFICES ASSUME SessionInit PROVE Contract!Init /\ TxnsDistinct
    OBVIOUS
  <2>1. \A c \in Connections : cn[c].txn = None /\ mode[c] = "auto" /\ StagedIn(cn[c].txn) = {}
    BY DEF SessionInit, StagedIn
  <2>2. durable = {}
    BY DEF SessionInit
  <2> QED
    BY <2>1, <2>2 DEF Contract!Init, TxnsDistinct
<1>2. SessionInv /\ SessionInv' /\ TxnsDistinct /\ [SessionNext]_sessionVars => TxnsDistinct' /\ ContractStep
  <2> SUFFICES ASSUME SessionInv, SessionInv', TxnsDistinct, [SessionNext]_sessionVars
               PROVE  TxnsDistinct' /\ ContractStep
    OBVIOUS
  <2>1. CASE UNCHANGED <<cn, txns, staged, durable, mode>>
    <3>1. TxnsDistinct'
      BY <2>1 DEF TxnsDistinct
    <3>2. UNCHANGED <<Manual, Pending, durable>>
      BY <2>1 DEF Manual, Pending, StagedIn
    <3> QED
      BY <3>1, <3>2 DEF ContractStep
  <2>2. ASSUME NEW c \in Connections,
               \/ Open(c) \/ Commit(c) \/ Rollback(c)
               \/ EnableAutocommit(c) \/ DisableAutocommit(c) \/ Close(c)
        PROVE  TxnsDistinct' /\ ContractStep
    BY <2>2, DistinctStep, ConnectionContract
  <2>3. ASSUME NEW s \in Statements, NEW r \in Rows, Execute(s, r)
        PROVE  TxnsDistinct' /\ ContractStep
    <3>1. UNCHANGED <<cn, txns, mode>>
      BY <2>3 DEF Execute
    <3>2. TxnsDistinct'
      BY <3>1 DEF TxnsDistinct
    <3> QED
      BY <2>3, <3>2, ExecuteContract
  <2>4. ASSUME NEW s \in Statements,
               \/ \E c \in Connections : NewStatement(s, c)
               \/ \E q \in Queries : SetQuery(s, q)
               \/ Prepare(s)
               \/ \E p \in Params : Bind(s, p)
               \/ CloseStatement(s)
        PROVE  UNCHANGED <<cn, txns, staged, durable, mode>>
    BY <2>4 DEF NewStatement, SetQuery, Prepare, Bind, CloseStatement, server, callers
  <2>5. CASE UNCHANGED sessionVars
    BY <2>1, <2>5 DEF sessionVars, server, callers
  <2> QED
    BY <2>1, <2>2, <2>3, <2>4, <2>5 DEF SessionNext
<1>3. ContractStep => [Contract!Next]_<<Manual, Pending, durable>>
  BY DEF ContractStep
<1> QED
  BY <1>1, <1>2, <1>3, SessionInvariance, PTL DEF SessionSpec, TransactionContract, Contract!Spec, Manual, Pending
=============================================================================
