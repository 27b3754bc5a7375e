------------------------- MODULE RecordReaderProofs -------------------------
(***************************************************************************)
(* Proofs about RecordReader, for any number of endpoints, any number of   *)
(* records, any buffer size and any number of references.                  *)
(***************************************************************************)
EXTENDS RecordReader, TLAPS

\* A leaf that names no prover is for these, in this order.
USE Zenon, SMT, Z3

\* The FlightInfos whose channels newRecordReader wires up correctly: those
\* with a schema, or with a single endpoint.
Handled == \A i \in Infos : i.schema # "none" \/ i.n <= 1

\* How many records goroutine e has sent.  The last record it read may be
\* still in its hands, or dropped by CheckCancelled.
Unsent(e) ==
  \/ gpc[e] \in {"check", "send"}
  \/ gpc[e] \in {"return", "exit", "done"} /\ strm[e] = "open"

Sent(e) == IF Unsent(e) THEN served[e] - 1 ELSE served[e]

Over == cpc \in {"drain", "released"}

-----------------------------------------------------------------------------
(* The inductive invariant.                                                *)

\* Which goroutines exist.
Born ==
  /\ cpc \in {"new", "failed"} => wpc = "unborn" /\ \A e \in Endpoint : gpc[e] = "unborn"
  /\ cpc \notin {"new", "failed"} =>
       /\ wpc = "unborn" <=> info.n = 0
       /\ \A e \in Endpoint : gpc[e] = "unborn" <=> e \notin Eps

\* What a goroutine's position says about its stream.
Streams ==
  \A e \in Endpoint :
    /\ strm[e] # "open" => gpc[e] \in {"return", "exit", "done"}
    /\ gpc[e] \in {"unborn", "doGet"} => served[e] = 0
    /\ gpc[e] \in {"check", "send"} => served[e] > 0
    /\ Unsent(e) /\ gpc[e] \notin {"check", "send"} =>
         served[e] > 0 /\ (parent \/ cancelFn \/ groupErr)

\* The errgroup, the waiting goroutine and reader.err.
Group ==
  /\ groupErr <=> \E e \in Endpoint : gpc[e] = "done" /\ strm[e] = "failed"
  /\ wpc \in {"close", "done"} => err = groupErr /\ \A e \in Eps : gpc[e] = "done"
  /\ err => wpc \in {"close", "done"}
  /\ cancelFn => cpc \in {"failed", "drain", "released"}

\* Who has closed what.
Closing ==
  \A e \in Endpoint :
    closed[e] <=> \/ e \in Eps /\ e < info.n /\ gpc[e] \in {"exit", "done"}
                  \/ e \in Eps /\ e = info.n /\ wpc = "done"

\* A sequence of consecutive numbers that ends with s.
Consecutive(q, s) == \A i \in 1..Len(q) : q[i] = s - Len(q) + i

\* A channel holds the records sent last, in order.
ContentsOf(e) ==
  /\ Len(chan[e]) <= Sent(e)
  /\ Consecutive(chan[e], Sent(e))
  /\ ~Over => got[e] + Len(chan[e]) = Sent(e)

Contents == \A e \in Endpoint : ContentsOf(e)

\* The caller's position.
Position ==
  /\ curChIndex <= info.n + 1 /\ drain <= info.n + 1
  /\ \A e \in Eps : e < curChIndex \/ e < drain => closed[e] /\ chan[e] = <<>>
  /\ \A e \in Endpoint : got[e] > 0 => e <= curChIndex
  /\ cpc \in {"idle", "recv"} => refCount > 0
  /\ cpc = "recv" => rec = NoRec
  /\ cpc = "released" => drain > info.n
  /\ rec # NoRec => rec[1] \in Eps /\ rec[2] > 0 /\ rec[2] = got[rec[1]]

\* Which records are retained.
RetainedOf(e, k) ==
  <<e, k>> \in live <=>
    \/ Sent(e) - Len(chan[e]) < k /\ k <= Sent(e)
    \/ InHand(e, k)
    \/ Current(e, k)

Retained == \A e \in Endpoint, k \in 1..MaxRecords : RetainedOf(e, k)

IInv ==
  /\ TypeOK /\ ~panicked
  /\ Born /\ Streams /\ Group /\ Closing /\ Contents /\ Position /\ Retained

-----------------------------------------------------------------------------
(* How the channels are wired up.                                          *)

\* With a handled FlightInfo slot i of chs holds the channel of endpoint i,
\* and the goroutines that close their channel are all but the last one's.
LEMMA Wiring ==
  ASSUME Handled, TypeOK
  PROVE  /\ info.n \in Nat /\ info.n <= MaxEndpoints
         /\ Eps \subseteq Endpoint
         /\ \A i \in Eps : Chs(i) = i
         /\ \A e \in Eps : Slot(e) \in 1..(info.n - 1) <=> e < info.n
         /\ \A e \in Eps : e <= Skipped => info.n = 1
  BY SMTT(30), ReaderAssumption DEF Handled, TypeOK, InfoType, Eps, Endpoint, Chs, Slot, Skipped

\* Sending the next number keeps a channel consecutive.
LEMMA AppendConsecutive ==
  ASSUME NEW q \in Seq(Nat), NEW s \in Int, NEW t \in Nat, t = s + 1, Consecutive(q, s)
  PROVE  /\ Append(q, t) \in Seq(Nat)
         /\ Len(Append(q, t)) = Len(q) + 1
         /\ Consecutive(Append(q, t), t)
  BY SMT DEF Consecutive

\* So does receiving, which yields the smallest number.
LEMMA TailConsecutive ==
  ASSUME NEW q \in Seq(Nat), NEW s \in Int, q # <<>>, Consecutive(q, s)
  PROVE  /\ Tail(q) \in Seq(Nat)
         /\ Len(q) \in Nat /\ Len(q) # 0
         /\ Len(Tail(q)) = Len(q) - 1
         /\ Head(q) = s - Len(q) + 1 /\ Head(q) \in Nat
         /\ Consecutive(Tail(q), s)
  BY SMT DEF Consecutive

\* What was sent is a number of records, and what is queued ends with it.
LEMMA Queue ==
  ASSUME IInv, NEW e \in Endpoint
  PROVE  /\ chan[e] \in Seq(Nat) /\ Len(chan[e]) \in Nat
         /\ Sent(e) \in Nat /\ served[e] \in Nat /\ got[e] \in Nat
         /\ ContentsOf(e)
  BY ReaderAssumption, SMT DEF IInv, TypeOK, Streams, Sent, Unsent, Contents

\* The initial states satisfy the invariant.
LEMMA InitIInv == Handled /\ Init => IInv
  <1> SUFFICES ASSUME Handled, Init PROVE IInv
    OBVIOUS
  <1>1. TypeOK
    <2>1. chan \in [Endpoint -> Seq(Nat)]
      <3>1. <<>> \in Seq(Nat)
        BY SMT
      <3> QED
        BY <3>1 DEF Init
    <2>2. closed \in [Endpoint -> BOOLEAN]
      BY DEF Init
    <2>3. served \in [Endpoint -> 0..MaxRecords] /\ got \in [Endpoint -> Nat]
      BY ReaderAssumption, SMT DEF Init
    <2>4. gpc \in [Endpoint -> {"unborn", "doGet", "next", "check", "send", "return", "exit", "done"}]
      BY DEF Init
    <2>5. strm \in [Endpoint -> {"open", "eof", "failed"}]
      BY DEF Init
    <2>6. refCount \in 0..MaxRefs /\ live \subseteq Endpoint \X (1..MaxRecords)
         /\ rec \in (Endpoint \X Nat) \cup {NoRec}
      BY ReaderAssumption, SMT DEF Init
    <2>7. groupErr \in BOOLEAN /\ parent \in BOOLEAN /\ cancelFn \in BOOLEAN /\ err \in BOOLEAN /\ panicked \in BOOLEAN
      BY DEF Init
    <2> QED
      BY <2>1, <2>2, <2>3, <2>4, <2>5, <2>6, <2>7, SMT DEF Init, TypeOK
  <1>2. info.n \in Nat
    BY <1>1, Wiring
  <1> QED
    BY <1>1, <1>2, SMT DEF Init, IInv, Born, Streams, Group, Closing, Contents, Position,
      Retained, ContentsOf, Consecutive, RetainedOf, Sent, Unsent, Over, InHand, Current, Endpoint, Eps, NoRec

-----------------------------------------------------------------------------
(* Steps of the goroutine of an endpoint.                                  *)

\* A step that changes neither the channels nor what was sent and delivered
\* keeps the contents of the channels.
LEMMA ContentsKept ==
  ASSUME Contents, chan' = chan, got' = got, ~Over' => ~Over,
         \A d \in Endpoint : Sent(d)' = Sent(d)
  PROVE  Contents'
  BY DEF Contents, ContentsOf

\* A step that moves no record keeps the account of retained records.
LEMMA RetainedKept ==
  ASSUME Retained, chan' = chan, live' = live,
         \A d \in Endpoint : Sent(d)' = Sent(d),
         \A d \in Endpoint, k \in 1..MaxRecords :
           (InHand(d, k)' <=> InHand(d, k)) /\ (Current(d, k)' <=> Current(d, k))
  PROVE  Retained'
  BY DEF Retained, RetainedOf

\* Steps that only move the goroutine, or note how its stream ended.
LEMMA MoveStep ==
  ASSUME Handled, IInv, NEW e \in Eps,
         DoGet(e) \/ StreamFails(e) \/ RdrEof(e) \/ CheckCancelled(e)
  PROVE  IInv'
  <1> DEFINE Frame == UNCHANGED <<context, served, groupErr, buffers, waiter, caller, live, panicked>>
  <1>1. Frame
    BY DEF DoGet, StreamFails, RdrEof, CheckCancelled, Goto
  <1>2. e \in Endpoint /\ info.n \in Nat
    BY Wiring DEF IInv
  <1>3. /\ gpc[e] \in {"doGet", "next", "check"}
        /\ \E l \in {"next", "return"} :
             /\ gpc' = [gpc EXCEPT ![e] = l]
             /\ \/ strm' = strm
                \/ l = "return" /\ \E r \in {"eof", "failed"} : strm' = [strm EXCEPT ![e] = r]
        /\ gpc'[e] = "next" => strm' = strm /\ gpc[e] = "doGet"
        /\ gpc'[e] = "return" /\ strm'[e] = "open" => gpc[e] = "check" /\ Cancelled
        /\ gpc[e] = "check" => strm'[e] = "open"
    BY <1>2 DEF DoGet, StreamFails, RdrEof, CheckCancelled, Goto, IInv, TypeOK, Streams
  <1>4. TypeOK' /\ ~panicked'
    <2>1. gpc' \in [Endpoint -> {"unborn", "doGet", "next", "check", "send",
                                 "return", "exit", "done"}]
      BY <1>3 DEF IInv, TypeOK
    <2>2. strm' \in [Endpoint -> {"open", "eof", "failed"}]
      BY <1>3 DEF IInv, TypeOK
    <2> QED
      BY <1>1, <2>1, <2>2, SMT DEF IInv, TypeOK, context, buffers, waiter, caller
  <1>5. Born'
    BY <1>1, <1>2, <1>3, <1>4 DEF IInv, TypeOK, Born, Eps, context, waiter, caller
  <1>6. Group'
    BY <1>1, <1>2, <1>3, <1>4, ZenonT(30) DEF IInv, TypeOK, Group, Eps, context, waiter, caller
  <1>7. Closing'
    BY SMTT(30), <1>1, <1>2, <1>3, <1>4 DEF IInv, TypeOK, Closing, Eps, context, buffers, waiter
  <1>8. Position'
    BY <1>1 DEF IInv, Position, Eps, context, buffers, caller
  <1>9. Streams'
    <2>1. gpc[e] = "check" /\ gpc'[e] = "return" =>  parent \/ cancelFn \/ groupErr
      BY <1>2, <1>3 DEF Cancelled, IInv, Group
    <2> QED
      BY ZenonT(30), <2>1, <1>1, <1>2, <1>3, <1>4 DEF IInv, TypeOK, Streams, Unsent, context
  <1>10. \A d \in Endpoint : Sent(d)' = Sent(d)
    BY ZenonT(30), <1>1, <1>2, <1>3, <1>4 DEF IInv, TypeOK, Streams, Unsent, Sent
  <1>11. Contents'
    BY <1>1, <1>10, ContentsKept DEF IInv, Over, buffers, caller
  <1>12. Retained'
    BY <1>1, <1>2, <1>3, <1>10, RetainedKept DEF IInv, TypeOK, InHand, Current, buffers, caller
  <1> QED
    BY <1>4, <1>5, <1>6, <1>7, <1>8, <1>9, <1>11, <1>12 DEF IInv

\* The goroutine returns and its deferred close runs.
LEMMA ReturnStep ==
  ASSUME Handled, IInv, NEW e \in Eps, Return(e)
  PROVE  IInv'
  <1> USE DEF Return, Goto, context, waiter, caller
  <1>1. /\ e \in Endpoint /\ info.n \in Nat
        /\ Slot(e) \in 1..(info.n - 1) <=> e < info.n
    BY Wiring DEF IInv
  <1>2. closed' = [closed EXCEPT ![e] = closed[e] \/ e < info.n]
    BY <1>1
  <1>3. TypeOK' /\ ~panicked'
    <2>1. closed' \in [Endpoint -> BOOLEAN]
      BY <1>1, <1>2 DEF IInv, TypeOK
    <2> QED
      BY <1>1, <2>1, SMT DEF IInv, TypeOK
  <1>4. Born' /\ Group'
    BY <1>1, <1>3, SMT DEF IInv, TypeOK, Born, Group, Eps
  <1>5. Closing'
    <2>1. closed'[e] = (closed[e] \/ e < info.n) /\ gpc'[e] = "exit"
      BY <1>1, <1>2, <1>3, SMT DEF IInv, TypeOK
    <2>2. ~closed[e]
      BY <1>1 DEF IInv, Closing, Group, Eps
    <2>3. \A d \in Endpoint \ {e} : closed'[d] = closed[d] /\ gpc'[d] = gpc[d]
      BY <1>1, <1>2, <1>3, SMT DEF IInv, TypeOK
    <2>4. wpc # "done"
      BY <1>1 DEF IInv, Group
    <2> QED
      BY <1>1, <2>1, <2>2, <2>3, <2>4 DEF IInv, Closing, Eps
  <1>6. Position'
    BY <1>1, <1>2, <1>3, SMT DEF IInv, TypeOK, Position, Eps
  <1>7. Streams'
    BY <1>1, <1>3 DEF IInv, TypeOK, Streams, Unsent
  <1>8. \A d \in Endpoint : Sent(d)' = Sent(d)
    BY <1>1, <1>3 DEF IInv, TypeOK, Unsent, Sent
  <1>9. Contents'
    BY <1>8, ContentsKept DEF IInv, Over
  <1>10. Retained'
    BY <1>1, <1>8, RetainedKept DEF IInv, TypeOK, InHand, Current
  <1> QED
    BY <1>3, <1>4, <1>5, <1>6, <1>7, <1>9, <1>10 DEF IInv

\* The goroutine leaves the group, which keeps its error.
LEMMA ExitStep ==
  ASSUME Handled, IInv, NEW e \in Eps, Exit(e)
  PROVE  IInv'
  <1> USE DEF Exit, Goto, context, buffers, waiter, caller
  <1>1. e \in Endpoint /\ info.n \in Nat
    BY Wiring DEF IInv
  <1>2. TypeOK' /\ ~panicked'
    BY <1>1 DEF IInv, TypeOK
  <1>3. Born' /\ Closing'
    BY <1>1, <1>2, SMT DEF IInv, TypeOK, Born, Closing, Eps
  <1>4. Group'
    BY <1>1, <1>2 DEF IInv, TypeOK, Group, Eps
  <1>5. Position'
    BY DEF IInv, Position, Eps
  <1>6. Streams'
    BY <1>1, <1>2 DEF IInv, TypeOK, Streams, Unsent
  <1>7. \A d \in Endpoint : Sent(d)' = Sent(d)
    BY <1>1, <1>2 DEF IInv, TypeOK, Unsent, Sent
  <1>8. Contents'
    BY <1>7, ContentsKept DEF IInv, Over
  <1>9. Retained'
    BY <1>1, <1>7, RetainedKept DEF IInv, TypeOK, InHand, Current
  <1> QED
    BY <1>2, <1>3, <1>4, <1>5, <1>6, <1>8, <1>9 DEF IInv

\* rdr.Next() returns true: one more record is served and not sent.
LEMMA RdrNextStep ==
  ASSUME Handled, IInv, NEW e \in Eps, RdrNext(e)
  PROVE  IInv'
  <1> USE ReaderAssumption DEF RdrNext, Goto, context, buffers, waiter, caller
  <1>1. e \in Endpoint /\ info.n \in Nat
    BY Wiring DEF IInv
  <1>2. TypeOK' /\ ~panicked'
    BY <1>1, SMT DEF IInv, TypeOK
  <1>3. Born' /\ Group' /\ Closing'
    BY SMTT(30), <1>1, <1>2 DEF IInv, TypeOK, Born, Group, Closing, Eps
  <1>4. Position'
    BY DEF IInv, Position, Eps
  <1>5. Streams'
    BY <1>1, <1>2, SMT DEF IInv, TypeOK, Streams, Unsent
  <1>6. \A d \in Endpoint : Sent(d)' = Sent(d)
    BY SMTT(30), <1>1, <1>2 DEF IInv, TypeOK, Streams, Unsent, Sent
  <1>7. Contents'
    BY <1>6, ContentsKept DEF IInv, Over
  <1>8. Retained'
    BY <1>1, <1>6, RetainedKept DEF IInv, TypeOK, InHand, Current
  <1> QED
    BY <1>2, <1>3, <1>4, <1>5, <1>7, <1>8 DEF IInv

\* The record just read is retained: it is in the goroutine's hands.
LEMMA CheckStep ==
  ASSUME Handled, IInv, NEW e \in Eps, Check(e)
  PROVE  IInv'
  <1> USE ReaderAssumption DEF Check, Goto, context, buffers, waiter, caller
  <1>1. e \in Endpoint /\ info.n \in Nat
    BY Wiring DEF IInv
  <1>2. served[e] \in 1..MaxRecords
    BY <1>1, SMT DEF IInv, TypeOK, Streams
  <1>3. TypeOK' /\ ~panicked'
    BY <1>1, <1>2, SMT DEF IInv, TypeOK
  <1>4. Born' /\ Group' /\ Closing'
    BY SMTT(30), <1>1, <1>3 DEF IInv, TypeOK, Born, Group, Closing, Eps
  <1>5. Position'
    BY DEF IInv, Position, Eps
  <1>6. Streams'
    BY <1>1, <1>3 DEF IInv, TypeOK, Streams, Unsent
  <1>7. \A d \in Endpoint : Sent(d)' = Sent(d)
    BY <1>1, <1>3, SMT DEF IInv, TypeOK, Unsent, Sent
  <1>8. Contents'
    BY <1>7, ContentsKept DEF IInv, Over
  <1>9. Retained'
    <2>1. ASSUME NEW d \in Endpoint, NEW k \in 1..MaxRecords
          PROVE  RetainedOf(d, k)'
      BY <1>1, <1>7, SMT DEF IInv, TypeOK, Retained, RetainedOf, InHand, Current
    <2> QED
      BY <2>1 DEF Retained
  <1> QED
    BY <1>3, <1>4, <1>5, <1>6, <1>8, <1>9 DEF IInv

\* The record in hand moves to the end of the channel, which is open: only
\* the goroutine itself, or the waiting one after it, closes the channel.
LEMMA SendStep ==
  ASSUME Handled, IInv, NEW e \in Eps, Send(e)
  PROVE  IInv'
  <1> USE ReaderAssumption DEF Send, Goto, context, buffers, waiter, caller
  <1>1. e \in Endpoint /\ info.n \in Nat
    BY Wiring DEF IInv
  <1>2. ~closed[e]
    BY <1>1 DEF IInv, TypeOK, Closing, Group, Eps
  <1>3. TypeOK' /\ ~panicked'
    BY <1>1, <1>2, SMT DEF IInv, TypeOK
  <1>4. Born' /\ Group' /\ Closing'
    BY SMTT(30), <1>1, <1>2, <1>3 DEF IInv, TypeOK, Born, Group, Closing, Eps
  <1>5. Position'
    BY <1>1, <1>2, <1>3, SMT DEF IInv, TypeOK, Position, Eps
  <1>6. Streams'
    BY <1>1, <1>2, <1>3 DEF IInv, TypeOK, Streams, Unsent
  <1>7. \A d \in Endpoint \ {e} : Sent(d)' = Sent(d) /\ chan'[d] = chan[d]
    BY <1>1, <1>2, <1>3, SMT DEF IInv, TypeOK, Sent, Unsent
  <1>8. /\ served[e] \in Nat /\ served[e] = Sent(e) + 1 /\ Sent(e)' = served[e]
        /\ chan'[e] = Append(chan[e], served[e])
    BY <1>1, <1>2, <1>3, SMT DEF IInv, TypeOK, Streams, Sent, Unsent
  <1> HIDE DEF Send
  <1>9. /\ Len(chan[e]) \in Nat /\ Len(chan'[e]) = Len(chan[e]) + 1
         /\ Sent(e) \in Nat /\ Len(chan[e]) <= Sent(e)
         /\ Consecutive(chan'[e], Sent(e)')
    BY <1>1, <1>8, Queue, AppendConsecutive, SMT DEF ContentsOf
  <1>10. Contents'
    <2>1. ContentsOf(e)'
      BY <1>1, <1>8, <1>9, Queue, SMT DEF ContentsOf, Over, Send
    <2>2. ASSUME NEW d \in Endpoint \ {e} PROVE ContentsOf(d)'
      BY <1>7 DEF IInv, Contents, ContentsOf, Over, Send
    <2> QED
      BY <2>1, <2>2 DEF Contents
  <1>11. Retained'
    <2>1. ASSUME NEW d \in Endpoint, NEW k \in 1..MaxRecords
          PROVE  RetainedOf(d, k)'
      BY SMTT(30), <1>1, <1>2, <1>7, <1>8, <1>9 DEF IInv, TypeOK, Retained, RetainedOf, InHand, Current, Send
    <2> QED
      BY <2>1 DEF Retained
  <1> QED
    BY <1>3, <1>4, <1>5, <1>6, <1>10, <1>11 DEF IInv

-----------------------------------------------------------------------------
(* Steps of the constructor and of the waiting goroutine.                  *)

\* The constructor starts every goroutine before anything was served.
LEMMA NewStep ==
  ASSUME Handled, IInv, NewRecordReader \/ NewRecordReaderFails
  PROVE  IInv'
  <1> USE ReaderAssumption
  <1> DEFINE Frame == UNCHANGED <<info, parent, strm, served, groupErr, buffers, err,
                                  curChIndex, rec, drain, got, live, panicked>>
  <1>1. Frame /\ cpc = "new"
    BY DEF NewRecordReader, NewRecordReaderFails, context, waiter
  <1>2. info.n \in Nat
    BY Wiring DEF IInv
  <1>3. /\ \A e \in Endpoint : gpc[e] = "unborn" /\ gpc'[e] \in {"unborn", "doGet", "next"}
        /\ gpc' \in [Endpoint -> {"unborn", "doGet", "next"}]
        /\ wpc = "unborn" /\ wpc' \in {"unborn", "wait"}
        /\ ~cancelFn /\ cancelFn' \in BOOLEAN
        /\ cpc' \in {"failed", "idle"} /\ refCount' \in {0, 1} \cup {refCount}
        /\ cancelFn' => cpc' = "failed"
        /\ cpc' = "idle" => refCount' = 1
        /\ cpc' = "failed" => wpc' = "unborn" /\ \A e \in Endpoint : gpc'[e] = "unborn"
        /\ cpc' = "idle" => /\ wpc' = "unborn" <=> info.n = 0
                            /\ \A e \in Endpoint : gpc'[e] = "unborn" <=> e \notin Eps
    <2>1. /\ \A e \in Endpoint : gpc[e] = "unborn"
          /\ wpc = "unborn" /\ ~cancelFn
          /\ gpc \in [Endpoint -> {"unborn", "doGet", "next"}]
          /\ cancelFn \in BOOLEAN
      <3>1. /\ \A e \in Endpoint : gpc[e] = "unborn"
            /\ wpc = "unborn" /\ ~cancelFn
        BY <1>1 DEF IInv, Born, Group
      <3> QED
        BY <3>1 DEF IInv, TypeOK
    <2>2. CASE NewRecordReaderFails
      BY <2>1, <2>2, SMT DEF NewRecordReaderFails, waiter
    <2>3. CASE NewRecordReader
      <3>1. /\ \A e \in Endpoint : /\ gpc'[e] \in {"unborn", "doGet", "next"}
                                   /\ gpc'[e] = "unborn" <=> e \notin Eps
            /\ gpc' \in [Endpoint -> {"unborn", "doGet", "next"}]
        BY <2>3 DEF NewRecordReader
      <3>2. /\ cancelFn' = cancelFn /\ cpc' = "idle" /\ refCount' = 1
            /\ wpc' = IF info.n > 0 THEN "wait" ELSE "unborn"
        BY <2>3 DEF NewRecordReader, context
      <3>3. wpc' \in {"unborn", "wait"} /\ (wpc' = "unborn" <=> info.n = 0)
        BY <1>2, <3>2, SMT
      <3> QED
        BY <2>1, <3>1, <3>2, <3>3
    <2> QED
      BY <2>2, <2>3
  <1>4. TypeOK' /\ ~panicked'
    <2>1. gpc' \in [Endpoint -> {"unborn", "doGet", "next", "check", "send",
                                 "return", "exit", "done"}]
      BY <1>3
    <2> QED
      BY <1>1, <1>3, <2>1, SMT DEF IInv, TypeOK, buffers
  <1>5. Born'
    BY <1>1, <1>3 DEF Born, Eps
  <1>6. Streams'
    BY <1>1, <1>3 DEF IInv, Streams, Unsent
  <1>7. Group' /\ Closing'
    BY <1>1, <1>3 DEF IInv, Group, Closing, Eps, buffers
  <1>8. Position'
    BY <1>1, <1>3, SMT DEF IInv, Position, Eps, buffers
  <1>9. \A e \in Endpoint : Sent(e)' = Sent(e)
    BY <1>1, <1>3 DEF Sent, Unsent
  <1>10. Contents'
    BY <1>1, <1>9, ContentsKept DEF IInv, Over, buffers
  <1>11. Retained'
    BY <1>1, <1>3, <1>9, RetainedKept DEF IInv, InHand, Current, buffers
  <1> QED
    BY <1>4, <1>5, <1>6, <1>7, <1>8, <1>10, <1>11 DEF IInv

\* group.Wait() returns: reader.err is the group's error.
LEMMA WaitStep ==
  ASSUME Handled, IInv, Wait
  PROVE  IInv'
  <1> USE DEF Wait, context, buffers, caller
  <1>1. TypeOK' /\ ~panicked'
    BY DEF IInv, TypeOK
  <1>2. Born' /\ Group' /\ Closing'
    BY DEF IInv, Born, Group, Closing, Eps
  <1>3. Streams'
    BY DEF IInv, Streams, Unsent
  <1>4. Position'
    BY DEF IInv, Position, Eps
  <1>5. \A e \in Endpoint : Sent(e)' = Sent(e)
    BY DEF Sent, Unsent
  <1>6. Contents'
    BY <1>5, ContentsKept DEF IInv, Over
  <1>7. Retained'
    BY <1>5, RetainedKept DEF IInv, InHand, Current
  <1> QED
    BY <1>1, <1>2, <1>3, <1>4, <1>6, <1>7 DEF IInv

\* The last channel exists and is still open when it is closed.
LEMMA CloseLastStep ==
  ASSUME Handled, IInv, CloseLast
  PROVE  IInv'
  <1> USE DEF context, buffers, caller
  <1>1. /\ info.n \in Nat /\ info.n > 0 /\ info.n \in Endpoint /\ info.n \in Eps
        /\ Chs(info.n) = info.n /\ info.n # NoChan /\ ~closed[info.n]
    <2>1. info.n \in Nat /\ info.n # 0 /\ info.n <= MaxEndpoints
      BY Wiring DEF IInv, Born, CloseLast
    <2>2. info.n \in Eps /\ info.n \in Endpoint
      BY <2>1, ReaderAssumption, SMT DEF Eps, Endpoint
    <2>3. ~closed[info.n]
      BY <2>1, <2>2, SMT DEF IInv, Closing, CloseLast
    <2> QED
      BY <2>1, <2>2, <2>3, Wiring, SMT DEF IInv, NoChan
  <1>2. closed' = [closed EXCEPT ![info.n] = TRUE] /\ panicked' = panicked
    BY <1>1 DEF CloseLast
  <1>3. TypeOK' /\ ~panicked'
    BY <1>1, <1>2 DEF IInv, TypeOK, CloseLast
  <1>4. Born' /\ Group'
    BY DEF IInv, Born, Group, Eps, CloseLast
  <1>5. Closing'
    BY SMTT(30), <1>1, <1>2, <1>3 DEF IInv, TypeOK, Closing, Eps, CloseLast
  <1>6. Streams'
    BY DEF IInv, Streams, Unsent, CloseLast
  <1>7. Position'
    BY SMTT(30), <1>1, <1>2, <1>3 DEF IInv, TypeOK, Position, Eps, CloseLast
  <1>8. \A e \in Endpoint : Sent(e)' = Sent(e)
    BY DEF Sent, Unsent, CloseLast
  <1>9. Contents'
    BY <1>8, ContentsKept DEF IInv, Over, CloseLast
  <1>10. Retained'
    BY <1>8, RetainedKept DEF IInv, InHand, Current, CloseLast
  <1> QED
    BY <1>3, <1>4, <1>5, <1>6, <1>7, <1>9, <1>10 DEF IInv

-----------------------------------------------------------------------------
(* Steps of the caller.                                                    *)

\* The caller's steps leave the goroutines alone.
LEMMA CallerFrame ==
  ASSUME IInv, UNCHANGED <<info, gpc, strm, served, groupErr, closed, waiter, panicked>>,
         parent => parent',
         (cpc \in {"new", "failed"}) <=> (cpc' \in {"new", "failed"}),
         cancelFn => cancelFn', cancelFn' => cpc' \in {"failed", "drain", "released"}
  PROVE  /\ ~panicked' /\ Born' /\ Group' /\ Closing'
         /\ Streams'
         /\ \A e \in Endpoint : Sent(e)' = Sent(e)
  <1>1. ~panicked' /\ Born' /\ Group' /\ Closing'
    BY DEF IInv, Born, Group, Closing, Eps, waiter
  <1>2. Streams'
    BY DEF IInv, Streams, Unsent
  <1>3. \A e \in Endpoint : Sent(e)' = Sent(e)
    BY DEF Sent, Unsent
  <1> QED
    BY <1>1, <1>2, <1>3

\* Next() releases the previous record.
LEMMA NextCallStep ==
  ASSUME Handled, IInv, NextCall
  PROVE  IInv'
  <1> USE DEF NextCall, context, buffers
  <1>1. TypeOK'
    BY SMTT(30) DEF IInv, TypeOK, waiter
  <1>2. /\ ~panicked' /\ Born' /\ Group' /\ Closing' /\ Streams'
        /\ \A e \in Endpoint : Sent(e)' = Sent(e)
    BY CallerFrame DEF IInv, Group
  <1>3. Position'
    BY DEF IInv, Position, Eps
  <1>4. Contents'
    BY <1>2, ContentsKept DEF IInv, Over
  <1>5. Retained'
    <2>1. ASSUME NEW e \in Endpoint, NEW k \in 1..MaxRecords
          PROVE  RetainedOf(e, k)'
      <3>1. rec' # <<e, k>>
        BY ReaderAssumption, SMT DEF NoRec, Endpoint
      <3>2. Current(e, k) <=> rec = <<e, k>>
        BY DEF Current
      <3>3. InHand(e, k)' <=> InHand(e, k)
        BY DEF InHand
      <3>4. rec = <<e, k>> => /\ ~(Sent(e) - Len(chan[e]) < k /\ k <= Sent(e))
                              /\ ~InHand(e, k)
        <4> SUFFICES ASSUME rec = <<e, k>> PROVE ~(Sent(e) - Len(chan[e]) < k) /\ ~InHand(e, k)
          OBVIOUS
        <4>1. k = got[e] /\ got[e] + Len(chan[e]) = Sent(e)
          BY ReaderAssumption, SMT DEF IInv, Position, Contents, ContentsOf, Over, NoRec, Endpoint
        <4>2. got[e] \in Nat /\ Len(chan[e]) \in Nat /\ served[e] \in Nat
          BY SMTT(30) DEF IInv, TypeOK
        <4>3. InHand(e, k) => Sent(e) = served[e] - 1 /\ served[e] = k
          BY DEF InHand, Sent, Unsent
        <4> QED
          BY <4>1, <4>2, <4>3, SMT
      <3> QED
        BY <1>2, <3>1, <3>2, <3>3, <3>4 DEF IInv, Retained, RetainedOf, Current
    <2> QED
      BY <2>1 DEF Retained
  <1> QED
    BY <1>1, <1>2, <1>3, <1>4, <1>5 DEF IInv

\* A record moves from the channel of the current endpoint to reader.rec.
LEMMA NextRecvStep ==
  ASSUME Handled, IInv, NEW c \in Eps, NextRecv(c)
  PROVE  IInv'
  <1> USE DEF NextRecv, context
  <1>1. c \in Endpoint /\ info.n \in Nat /\ curChIndex \in Eps /\ c = curChIndex /\ chan[c] # <<>>
    BY Wiring, SMT DEF IInv, TypeOK, Receives, Eps
  <1>2. /\ chan'[c] = Tail(chan[c])
        /\ \A d \in Endpoint \ {c} : chan'[d] = chan[d] /\ got'[d] = got[d]
        /\ got'[c] = got[c] + 1
    BY SMTT(30), <1>1 DEF IInv, TypeOK
  <1>3. /\ Sent(c) \in Nat /\ got[c] \in Nat /\ got[c] + Len(chan[c]) = Sent(c)
        /\ Len(chan[c]) \in Nat /\ Len(chan[c]) # 0 /\ chan'[c] \in Seq(Nat)
        /\ Len(chan'[c]) = Len(chan[c]) - 1
        /\ Consecutive(chan'[c], Sent(c))
        /\ Head(chan[c]) = got[c] + 1
    <2>1. /\ chan[c] \in Seq(Nat) /\ Sent(c) \in Nat /\ got[c] \in Nat
          /\ got[c] + Len(chan[c]) = Sent(c)
          /\ Consecutive(chan[c], Sent(c))
      BY <1>1, Queue DEF ContentsOf, Over
    <2> HIDE DEF NextRecv
    <2>2. /\ Len(chan[c]) \in Nat /\ Len(chan[c]) # 0
          /\ Tail(chan[c]) \in Seq(Nat)
          /\ Len(Tail(chan[c])) = Len(chan[c]) - 1
          /\ Consecutive(Tail(chan[c]), Sent(c))
          /\ Head(chan[c]) = Sent(c) - Len(chan[c]) + 1
      BY <1>1, <2>1, TailConsecutive, SMT
    <2>3. Head(chan[c]) = got[c] + 1
      BY <2>1, <2>2, SMT
    <2> QED
      BY <1>2, <2>1, <2>2, <2>3
  <1>4. TypeOK'
    <2>1. rec' \in Endpoint \X Nat
      BY <1>1, <1>3, SMT
    <2>2. got' \in [Endpoint -> Nat] /\ chan' \in [Endpoint -> Seq(Nat)]
      BY SMTT(30), <1>1, <1>3 DEF IInv, TypeOK
    <2> QED
      BY SMTT(30), <2>1, <2>2 DEF IInv, TypeOK, waiter
  <1>5. /\ ~panicked' /\ Born' /\ Group' /\ Closing' /\ Streams'
        /\ \A e \in Endpoint : Sent(e)' = Sent(e)
    <2>1. /\ UNCHANGED <<info, gpc, strm, served, groupErr, closed, waiter, panicked>>
          /\ parent' = parent /\ cancelFn' = cancelFn
          /\ cpc = "recv" /\ cpc' = "idle"
      OBVIOUS
    <2> HIDE DEF NextRecv
    <2>2. ~cancelFn
      BY <2>1 DEF IInv, Group
    <2> QED
      BY <2>1, <2>2, CallerFrame
  <1>6. Position'
    <2>1. \A e \in Eps : e < curChIndex \/ e < drain => e # c
      BY <1>1 DEF IInv, Position
    <2> QED
      BY SMTT(30), <1>1, <1>2, <1>3, <2>1 DEF IInv, Position, Eps, NoRec, TypeOK
  <1>7. Contents'
    <2>1. ContentsOf(c)'
      BY <1>1, <1>2, <1>3, <1>5, SMT DEF ContentsOf
    <2>2. ASSUME NEW d \in Endpoint \ {c} PROVE ContentsOf(d)'
      BY <1>2, <1>5 DEF IInv, Contents, ContentsOf, Over
    <2> QED
      BY <2>1, <2>2 DEF Contents
  <1>8. Retained'
    <2>1. ASSUME NEW d \in Endpoint, NEW k \in 1..MaxRecords
          PROVE  RetainedOf(d, k)'
      <3>1. InHand(d, k)' <=> InHand(d, k)
        BY DEF InHand
      <3>2. ~Current(d, k)
        BY SMT DEF IInv, Position, Current, NoRec, Endpoint
      <3>3. Current(d, k)' <=> d = c /\ k = got[c] + 1
        BY SMTT(30), <1>3 DEF Current
      <3>4. CASE d = c
        <4>1. <<d, k>> \in live <=>
                (Sent(d) - Len(chan[d]) < k /\ k <= Sent(d)) \/ InHand(d, k)
          BY <3>2 DEF IInv, Retained, RetainedOf
        <4>2. live' = live /\ Sent(d)' = Sent(d)
          BY <1>5
        <4> HIDE DEF NextRecv
        <4>3. Sent(d) - Len(chan[d]) < k /\ k <= Sent(d) <=>
                (Sent(d) - Len(chan'[d]) < k /\ k <= Sent(d)) \/ k = got[c] + 1
          <5>1. k \in Int
            BY ReaderAssumption, SMT
          <5>2. Len(chan'[d]) = Len(chan[d]) - 1 /\ Len(chan[d]) \in Nat /\ Len(chan[d]) # 0
                 /\ Sent(d) \in Int /\ got[c] + Len(chan[d]) = Sent(d) /\ got[c] \in Nat
            BY <1>3, <3>4, SMT
          <5>3. Sent(d) - Len(chan[d]) = got[c] /\ Sent(d) - Len(chan'[d]) = got[c] + 1
                /\ got[c] + 1 <= Sent(d)
            BY SMTT(30), <5>2
          <5>4. got[c] < k <=> got[c] + 1 < k \/ k = got[c] + 1
            BY <5>1, <5>2, SMT
          <5> QED
            BY <5>3, <5>4
        <4> QED
          BY <3>1, <3>3, <3>4, <4>1, <4>2, <4>3 DEF RetainedOf
      <3>5. CASE d # c
        BY <1>2, <1>5, <3>1, <3>2, <3>3, <3>5 DEF IInv, Retained, RetainedOf
      <3> QED
        BY <3>4, <3>5
    <2> QED
      BY <2>1 DEF Retained
  <1> QED
    BY <1>4, <1>5, <1>6, <1>7, <1>8 DEF IInv

\* Steps of the caller that move no record: it goes to the next channel,
\* takes or gives back a reference that is not the last one, or returns.
LEMMA QuietStep ==
  ASSUME Handled, IInv,
         \/ NextAdvance \/ NextEnds \/ Retain \/ (Release /\ refCount # 1)
         \/ DrainAdvance \/ DrainEnds \/ CancelParent
  PROVE  IInv'
  <1> USE ReaderAssumption
  <1> DEFINE Frame == UNCHANGED <<info, cancelFn, gpc, strm, served, groupErr, buffers, waiter,
                                  rec, got, live, panicked>>
  <1>1. /\ Frame
        /\ parent' \in BOOLEAN /\ (parent => parent')
        /\ cpc \notin {"new", "failed"}
    BY DEF NextAdvance, NextEnds, Retain, Release, DrainAdvance, DrainEnds, CancelParent,
           context, caller, IInv, TypeOK
  <1>2. /\ cpc' \notin {"new", "failed"}
        /\ cpc' \in {"idle", "recv", "drain", "released"}
        /\ Over' <=> Over
        /\ cancelFn' => cpc' \in {"drain", "released"}
    BY <1>1 DEF NextAdvance, NextEnds, Retain, Release, DrainAdvance, DrainEnds, CancelParent,
           caller, IInv, TypeOK, Over, Group
  <1>3. /\ ~panicked' /\ Born' /\ Group' /\ Closing' /\ Streams'
        /\ \A e \in Endpoint : Sent(e)' = Sent(e)
    <2>1. /\ UNCHANGED <<info, gpc, strm, served, groupErr, closed, waiter, panicked>>
          /\ cancelFn' = cancelFn
      BY <1>1 DEF buffers
    <2>2. /\ (cpc \in {"new", "failed"}) <=> (cpc' \in {"new", "failed"})
          /\ parent => parent'
          /\ cancelFn => cancelFn'
          /\ cancelFn' => cpc' \in {"failed", "drain", "released"}
      BY <1>1, <1>2, <2>1, SMT
    <2> HIDE DEF Frame
    <2> QED
      BY <2>1, <2>2, CallerFrame
  <1>4. refCount' \in 0..MaxRefs /\ (cpc' \in {"idle", "recv"} => refCount' > 0)
    <2>1. refCount \in 0..MaxRefs /\ (cpc \in {"idle", "recv"} => refCount > 0)
      BY DEF IInv, TypeOK, Position
    <2>2. CASE Retain
      BY <2>1, <2>2, SMT DEF Retain
    <2>3. CASE Release /\ refCount # 1
      BY <2>1, <2>3, SMT DEF Release
    <2>4. CASE NextAdvance \/ NextEnds \/ DrainAdvance \/ DrainEnds \/ CancelParent
      BY <2>1, <2>4 DEF NextAdvance, NextEnds, DrainAdvance, DrainEnds, CancelParent, caller
    <2> QED
      BY <2>2, <2>3, <2>4
  <1>5. /\ curChIndex' \in Nat \ {0} /\ drain' \in Nat \ {0}
        /\ curChIndex <= curChIndex'
        /\ curChIndex' <= info.n + 1 /\ drain' <= info.n + 1
        /\ \A e \in Eps : e < curChIndex' \/ e < drain' => closed[e] /\ chan[e] = <<>>
        /\ cpc' = "released" => drain' > info.n
        /\ cpc' = "recv" => rec = NoRec
    <2>1. info.n \in Nat /\ \A i \in Eps : Chs(i) = i
      BY Wiring DEF IInv
    <2>2. CASE NextAdvance
      <3>1. /\ curChIndex' = curChIndex + 1 /\ drain' = drain /\ cpc' = cpc
            /\ curChIndex <= info.n /\ chan[Chs(curChIndex)] = <<>> /\ closed[Chs(curChIndex)]
        BY <2>2 DEF NextAdvance, Exhausted
      <3>2. curChIndex \in Nat \ {0} /\ drain \in Nat \ {0} /\ Position
        BY DEF IInv, TypeOK
      <3>3. curChIndex \in Eps
        BY <2>1, <3>1, <3>2, SMT DEF Eps
      <3>4. chan[curChIndex] = <<>> /\ closed[curChIndex]
        BY <2>1, <3>1, <3>3
      <3>5. \A e \in Eps : e < curChIndex' => e < curChIndex \/ e = curChIndex
        BY <2>1, <3>1, <3>2, SMT DEF Eps
      <3>6. \A e \in Eps : e < curChIndex' \/ e < drain' => closed[e] /\ chan[e] = <<>>
        BY <3>1, <3>2, <3>4, <3>5 DEF Position
      <3> QED
        BY <2>1, <3>1, <3>2, <3>6, SMT DEF Position
    <2>3. CASE DrainAdvance
      <3>1. /\ drain' = drain + 1 /\ curChIndex' = curChIndex /\ cpc' = "drain"
            /\ drain <= info.n /\ chan[Chs(drain)] = <<>> /\ closed[Chs(drain)]
        BY <2>3 DEF DrainAdvance, Exhausted
      <3>2. curChIndex \in Nat \ {0} /\ drain \in Nat \ {0} /\ Position
        BY DEF IInv, TypeOK
      <3>3. drain \in Eps
        BY <2>1, <3>1, <3>2, SMT DEF Eps
      <3>4. chan[drain] = <<>> /\ closed[drain]
        BY <2>1, <3>1, <3>3
      <3>5. \A e \in Eps : e < drain' => e < drain \/ e = drain
        BY <2>1, <3>1, <3>2, SMT DEF Eps
      <3>6. \A e \in Eps : e < curChIndex' \/ e < drain' => closed[e] /\ chan[e] = <<>>
        BY <3>1, <3>2, <3>4, <3>5 DEF Position
      <3> QED
        BY <2>1, <3>1, <3>2, <3>6, SMT DEF Position
    <2>4. CASE NextEnds \/ Retain \/ (Release /\ refCount # 1) \/ DrainEnds \/ CancelParent
      <3>1. /\ curChIndex' = curChIndex /\ drain' = drain
            /\ cpc' = "released" => cpc = "released" \/ drain > info.n
            /\ cpc' = "recv" => cpc = "recv"
        BY <2>4 DEF NextEnds, Retain, Release, DrainEnds, CancelParent, caller
      <3>2. curChIndex \in Nat \ {0} /\ drain \in Nat \ {0} /\ Position
        BY DEF IInv, TypeOK
      <3>3. \A e \in Eps : e < curChIndex' \/ e < drain' => closed[e] /\ chan[e] = <<>>
        BY <3>1, <3>2 DEF Position
      <3> QED
        BY <3>1, <3>2, <3>3, SMT DEF Position
    <2> QED
      BY <2>2, <2>3, <2>4
  <1>6. TypeOK'
    <2>1. /\ info' = info /\ cancelFn' = cancelFn /\ gpc' = gpc /\ strm' = strm /\ served' = served
          /\ groupErr' = groupErr /\ chan' = chan /\ closed' = closed /\ wpc' = wpc /\ err' = err
          /\ rec' = rec /\ got' = got /\ live' = live /\ panicked' = panicked
      BY <1>1 DEF buffers, waiter
    <2>2. /\ cpc' \in {"new", "failed", "idle", "recv", "drain", "released"}
          /\ parent' \in BOOLEAN /\ refCount' \in 0..MaxRefs
          /\ curChIndex' \in Nat \ {0} /\ drain' \in Nat \ {0}
      BY <1>1, <1>2, <1>4, <1>5
    <2> HIDE DEF Frame
    <2>3. TypeOK
      BY DEF IInv
    <2> QED
      BY <2>1, <2>2, <2>3 DEF TypeOK
  <1>7. Position'
    BY <1>1, <1>2, <1>4, <1>5, Wiring, SMT DEF IInv, Position, TypeOK, Eps, Endpoint, buffers
  <1>8. Contents'
    <2>1. Contents /\ chan' = chan /\ got' = got /\ (~Over' => ~Over)
      BY <1>1, <1>2 DEF IInv, buffers
    <2> QED
      BY <1>3, <2>1, ContentsKept
  <1>9. Retained'
    <2>1. Retained /\ chan' = chan /\ live' = live
      BY <1>1 DEF IInv, buffers
    <2>2. \A d \in Endpoint, k \in 1..MaxRecords :
            (InHand(d, k)' <=> InHand(d, k)) /\ (Current(d, k)' <=> Current(d, k))
      BY <1>1, <1>2 DEF InHand, Current, Over
    <2> QED
      BY <1>3, <2>1, <2>2, RetainedKept
  <1> QED
    BY <1>3, <1>6, <1>7, <1>8, <1>9 DEF IInv

\* The last Release() releases reader.rec and starts to drain.
LEMMA LastReleaseStep ==
  ASSUME Handled, IInv, Release, refCount = 1
  PROVE  IInv'
  <1> USE DEF Release, buffers
  <1>1. TypeOK'
    BY SMTT(30), ReaderAssumption DEF IInv, TypeOK, waiter
  <1>2. /\ ~panicked' /\ Born' /\ Group' /\ Closing' /\ Streams'
        /\ \A e \in Endpoint : Sent(e)' = Sent(e)
    <2>1. /\ UNCHANGED <<info, gpc, strm, served, groupErr, closed, waiter, panicked>>
          /\ parent' = parent
          /\ cpc = "idle" /\ cpc' = "drain"
      OBVIOUS
    <2> HIDE DEF Release
    <2>2. ~cancelFn
      BY <2>1 DEF IInv, Group
    <2> QED
      BY <2>1, <2>2, CallerFrame
  <1>3. Position'
    BY DEF IInv, Position, Eps
  <1>4. Contents'
    BY <1>2, ContentsKept DEF IInv, Over
  <1>5. Retained'
    <2>1. ASSUME NEW e \in Endpoint, NEW k \in 1..MaxRecords
          PROVE  RetainedOf(e, k)'
      <3>1. ~Current(e, k)'
        BY DEF Current
      <3>2. Current(e, k) <=> rec = <<e, k>>
        BY DEF Current
      <3>3. InHand(e, k)' <=> InHand(e, k)
        BY DEF InHand
      <3>4. rec = <<e, k>> => /\ ~(Sent(e) - Len(chan[e]) < k /\ k <= Sent(e))
                              /\ ~InHand(e, k)
        <4> SUFFICES ASSUME rec = <<e, k>> PROVE ~(Sent(e) - Len(chan[e]) < k) /\ ~InHand(e, k)
          BY SMTT(30)
        <4>1. k = got[e] /\ got[e] + Len(chan[e]) = Sent(e)
          BY ReaderAssumption, SMT DEF IInv, Position, Contents, ContentsOf, Over, NoRec, Endpoint
        <4>2. got[e] \in Nat /\ Len(chan[e]) \in Nat /\ served[e] \in Nat
          BY SMT DEF IInv, TypeOK
        <4>3. InHand(e, k) => Sent(e) = served[e] - 1 /\ served[e] = k
          BY DEF InHand, Sent, Unsent
        <4> QED
          BY <4>1, <4>2, <4>3, SMT
      <3> QED
        BY <1>2, <3>1, <3>2, <3>3, <3>4 DEF IInv, Retained, RetainedOf
    <2> QED
      BY <2>1 DEF Retained
  <1> QED
    BY <1>1, <1>2, <1>3, <1>4, <1>5 DEF IInv

\* Release() takes a record from a channel and releases it.
LEMMA DrainRecvStep ==
  ASSUME Handled, IInv, NEW c \in Eps, DrainRecv(c)
  PROVE  IInv'
  <1> USE DEF DrainRecv, context, caller
  <1>1. c \in Endpoint /\ info.n \in Nat /\ drain \in Eps /\ c = drain /\ chan[c] # <<>>
    BY Wiring, SMT DEF IInv, TypeOK, Receives, Eps
  <1>2. /\ chan'[c] = Tail(chan[c])
        /\ \A d \in Endpoint \ {c} : chan'[d] = chan[d]
    BY <1>1 DEF IInv, TypeOK
  <1>3. /\ Sent(c) \in Nat /\ Len(chan[c]) <= Sent(c)
        /\ Len(chan[c]) \in Nat /\ Len(chan[c]) # 0 /\ chan'[c] \in Seq(Nat)
        /\ Len(chan'[c]) = Len(chan[c]) - 1
        /\ Consecutive(chan'[c], Sent(c))
        /\ Head(chan[c]) = Sent(c) - Len(chan[c]) + 1
    <2>1. /\ chan[c] \in Seq(Nat) /\ Sent(c) \in Nat /\ Len(chan[c]) <= Sent(c)
          /\ Consecutive(chan[c], Sent(c))
      BY <1>1, Queue DEF ContentsOf
    <2> HIDE DEF DrainRecv
    <2>2. /\ Len(chan[c]) \in Nat /\ Len(chan[c]) # 0
          /\ Tail(chan[c]) \in Seq(Nat)
          /\ Len(Tail(chan[c])) = Len(chan[c]) - 1
          /\ Consecutive(Tail(chan[c]), Sent(c))
          /\ Head(chan[c]) = Sent(c) - Len(chan[c]) + 1
      BY <1>1, <2>1, TailConsecutive, SMT
    <2> QED
      BY <1>2, <2>1, <2>2
  <1>4. TypeOK'
    BY ZenonT(30), <1>1, <1>2, <1>3 DEF IInv, TypeOK, waiter
  <1>5. /\ ~panicked' /\ Born' /\ Group' /\ Closing' /\ Streams'
        /\ \A e \in Endpoint : Sent(e)' = Sent(e)
    BY CallerFrame DEF IInv, Group
  <1>6. Position'
    BY <1>1, <1>2, SMT DEF IInv, Position, Eps
  <1>7. Contents'
    <2>1. ContentsOf(c)'
      BY <1>1, <1>2, <1>3, <1>5, SMT DEF ContentsOf, Over
    <2>2. ASSUME NEW d \in Endpoint \ {c} PROVE ContentsOf(d)'
      BY <1>2, <1>5 DEF IInv, Contents, ContentsOf, Over
    <2> QED
      BY <2>1, <2>2 DEF Contents
  <1>8. Retained'
    <2>1. ASSUME NEW d \in Endpoint, NEW k \in 1..MaxRecords
          PROVE  RetainedOf(d, k)'
      <3>1. ~Current(d, k) /\ ~Current(d, k)' /\ (InHand(d, k)' <=> InHand(d, k))
        BY DEF Current, InHand
      <3>2. InHand(d, k) => k > Sent(d)
        BY SMTT(30) DEF InHand, Sent, Unsent, IInv, TypeOK
      <3>3. CASE d = c
        BY <1>3, <1>5, <3>1, <3>2, <3>3, SMT DEF IInv, Retained, RetainedOf
      <3>4. CASE d # c
        BY <1>2, <1>5, <3>1, <3>4 DEF IInv, Retained, RetainedOf
      <3> QED
        BY <3>3, <3>4
    <2> QED
      BY <2>1 DEF Retained
  <1> QED
    BY <1>4, <1>5, <1>6, <1>7, <1>8 DEF IInv

-----------------------------------------------------------------------------
(* The theorems.                                                           *)

\* Every step keeps the invariant.
LEMMA NextIInv == Handled /\ IInv /\ [Next]_vars => IInv'
  <1> SUFFICES ASSUME Handled, IInv, [Next]_vars PROVE IInv'
    OBVIOUS
  <1>1. CASE NewRecordReaderFails \/ NewRecordReader
    BY <1>1, NewStep
  <1>2. ASSUME NEW e \in Eps, Fetch(e) \/ Goroutine(e) PROVE IInv'
    BY <1>2, MoveStep, RdrNextStep, CheckStep, SendStep, ReturnStep, ExitStep DEF Fetch, Goroutine
  <1>3. CASE Wait \/ CloseLast
    BY <1>3, WaitStep, CloseLastStep
  <1>4. CASE NextCall \/ Retain \/ Release \/ CancelParent
    BY <1>4, NextCallStep, QuietStep, LastReleaseStep
  <1>5. CASE CallerRuns
    BY <1>5, NextRecvStep, DrainRecvStep, QuietStep DEF CallerRuns
  <1>6. CASE UNCHANGED vars
    <2> USE <1>6 DEF vars, context, buffers, waiter, caller
    <2>1. TypeOK' /\ ~panicked'
      BY SMT DEF IInv, TypeOK
    <2>2. Born' /\ Group' /\ Closing'
      BY DEF IInv, Born, Group, Closing, Eps
    <2>3. Streams' /\ Position'
      BY DEF IInv, Streams, Unsent, Position, Eps
    <2>4. \A d \in Endpoint : Sent(d)' = Sent(d)
      BY DEF Sent, Unsent
    <2>5. Contents'
      BY <2>4, ContentsKept DEF IInv, Over
    <2>6. Retained'
      BY <2>4, RetainedKept DEF IInv, InHand, Current
    <2> QED
      BY <2>1, <2>2, <2>3, <2>5, <2>6 DEF IInv
  <1> QED
    BY <1>1, <1>2, <1>3, <1>4, <1>5, <1>6 DEF Next

\* The inductive invariant holds in every reachable state of a reader whose
\* FlightInfo has a schema or a single endpoint.
THEOREM Invariance ==
  ASSUME Handled
  PROVE  Spec => []IInv
  <1>1. Init => IInv
    BY InitIInv
  <1>2. IInv /\ [Next]_vars => IInv'
    BY NextIInv
  <1> QED
    BY <1>1, <1>2, PTL DEF Spec

\* Type correctness of the reader.
THEOREM TypeCorrect ==
  ASSUME Handled
  PROVE  Spec => []TypeOK
  <1>1. IInv => TypeOK
    BY DEF IInv
  <1> QED
    BY <1>1, Invariance, PTL

\* No send on a closed channel and no close of a closed or nil channel.
THEOREM PanicFree ==
  ASSUME Handled
  PROVE  Spec => []NoPanic
  <1>1. IInv => NoPanic
    BY DEF IInv, NoPanic
  <1> QED
    BY <1>1, Invariance, PTL

\* When Next() has returned false every goroutine has returned, and reader.err
\* is the errgroup's error.
LEMMA EndOfStream ==
  ASSUME Handled, IInv, AtEnd
  PROVE  \A e \in Eps : /\ e \in Endpoint /\ gpc[e] = "done" /\ chan[e] = <<>>
                        /\ (err <=> groupErr) /\ ~Over /\ ~cancelFn
  <1> SUFFICES ASSUME NEW e \in Eps
               PROVE  /\ e \in Endpoint /\ gpc[e] = "done" /\ chan[e] = <<>>
                      /\ (err <=> groupErr) /\ ~Over /\ ~cancelFn
    OBVIOUS
  <1>1. e \in Endpoint /\ info.n \in Nat /\ info.n \in Eps
    BY Wiring, SMT DEF IInv, Eps
  <1>2. closed[e] /\ chan[e] = <<>> /\ closed[info.n]
    BY <1>1, SMT DEF IInv, Position, AtEnd, Eps, TypeOK
  <1>3. wpc = "done"
    BY <1>1, <1>2, Wiring, SMT DEF IInv, Closing, Eps
  <1> QED
    BY <1>1, <1>2, <1>3, SMT DEF IInv, Group, AtEnd, Over

\* An end of the stream without an error means that no record is missing,
\* unless the caller cancelled its own context.
THEOREM NoSilentTruncation ==
  ASSUME Handled
  PROVE  Spec => []CompleteOrError
  <1>1. IInv => CompleteOrError
    <2> SUFFICES ASSUME IInv, AtEnd, ~err, ~parent, NEW e \in Eps
                 PROVE  Complete(e)
      BY DEF CompleteOrError
    <2>1. /\ e \in Endpoint /\ gpc[e] = "done" /\ chan[e] = <<>>
          /\ ~groupErr /\ ~Over /\ ~cancelFn
      BY SMTT(30), EndOfStream
    <2>2. strm[e] = "eof"
      BY <2>1 DEF IInv, TypeOK, Streams, Unsent, Group
    <2>3. Sent(e) = served[e]
      BY <2>1, <2>2 DEF Sent, Unsent
    <2>4. got[e] + Len(chan[e]) = Sent(e) /\ got[e] \in Nat /\ Len(chan[e]) = 0
      BY <2>1 DEF IInv, TypeOK, Contents, ContentsOf
    <2> QED
      BY <2>2, <2>3, <2>4, SMT DEF Complete
  <1> QED
    BY <1>1, Invariance, PTL

\* When Next() returns false, Err() tells exactly whether an endpoint failed.
THEOREM ErrorsAreReported ==
  ASSUME Handled
  PROVE  Spec => []FailureReported
  <1>1. IInv => FailureReported
    <2> SUFFICES ASSUME IInv, AtEnd PROVE err <=> \E e \in Eps : strm[e] = "failed"
      BY DEF FailureReported
    <2>1. CASE Eps = {}
      <3>1. cpc = "idle" /\ info.n = 0
        BY <2>1, Wiring, SMT DEF AtEnd, IInv, Eps
      <3>2. wpc = "unborn" /\ ~err
        BY <3>1 DEF IInv, Group, Born
      <3> QED
        BY <2>1, <3>2
    <2>2. CASE Eps # {}
      <3>1. err <=> groupErr
        BY SMTT(30), <2>2, EndOfStream
      <3>2. \A e \in Endpoint : strm[e] = "failed" => e \in Eps
        BY DEF IInv, Streams, Born, AtEnd
      <3> QED
        BY <3>1, <3>2, EndOfStream DEF IInv, Group
    <2> QED
      BY <2>1, <2>2
  <1> QED
    BY <1>1, Invariance, PTL

\* Every retained record has exactly one owner until it is released.
THEOREM RecordsAreOwned ==
  ASSUME Handled
  PROVE  Spec => []Ownership
  <1>1. IInv => Ownership
    <2> SUFFICES ASSUME IInv, NEW e \in Endpoint, NEW k \in 1..MaxRecords
                 PROVE  /\ <<e, k>> \in live <=> Queued(e, k) \/ InHand(e, k) \/ Current(e, k)
                        /\ ~(Queued(e, k) /\ InHand(e, k))
                        /\ ~(Queued(e, k) /\ Current(e, k))
                        /\ ~(InHand(e, k) /\ Current(e, k))
      BY DEF Ownership
    <2>1. /\ k \in Int
          /\ Sent(e) \in Nat /\ got[e] \in Nat /\ Len(chan[e]) \in Nat /\ served[e] \in Nat
          /\ Consecutive(chan[e], Sent(e)) /\ Len(chan[e]) <= Sent(e)
          /\ ~Over => got[e] + Len(chan[e]) = Sent(e)
      BY Queue, ReaderAssumption, SMT DEF ContentsOf
    <2>2. Queued(e, k) <=> Sent(e) - Len(chan[e]) < k /\ k <= Sent(e)
      <3>1. ASSUME NEW i \in 1..Len(chan[e]), chan[e][i] = k
            PROVE  Sent(e) - Len(chan[e]) < k /\ k <= Sent(e)
        BY <2>1, <3>1, SMT DEF Consecutive
      <3>2. ASSUME Sent(e) - Len(chan[e]) < k, k <= Sent(e)
            PROVE  Queued(e, k)
        <4>1. k - (Sent(e) - Len(chan[e])) \in 1..Len(chan[e])
          BY <2>1, <3>2, SMT
        <4>2. chan[e][k - (Sent(e) - Len(chan[e]))] = k
          BY SMTT(30), <2>1, <4>1 DEF Consecutive
        <4> QED
          BY <4>1, <4>2 DEF Queued
      <3> QED
        BY <3>1, <3>2 DEF Queued
    <2>3. InHand(e, k) => k = Sent(e) + 1
      BY SMTT(30), <2>1 DEF InHand, Sent, Unsent
    <2>4. Current(e, k) => k = got[e] /\ ~Over
      BY SMTT(30), ReaderAssumption DEF Current, IInv, Position, NoRec, Endpoint, Over
    <2>5. Current(e, k) => k = Sent(e) - Len(chan[e])
      <3> SUFFICES ASSUME Current(e, k) PROVE k = Sent(e) - Len(chan[e])
        OBVIOUS
      <3>1. k = got[e]
        BY <2>4
      <3>2. got[e] + Len(chan[e]) = Sent(e)
        BY <2>1, <2>4
      <3> QED
        BY <2>1, <3>1, <3>2, SMT
    <2>6. RetainedOf(e, k)
      BY DEF IInv, Retained
    <2>7. ~(Queued(e, k) /\ InHand(e, k))
      BY <2>1, <2>2, <2>3, SMT
    <2>8. ~(Queued(e, k) /\ Current(e, k))
      BY <2>1, <2>2, <2>5, SMT
    <2>9. ~(InHand(e, k) /\ Current(e, k))
      BY <2>1, <2>3, <2>5, SMT
    <2> QED
      BY <2>2, <2>6, <2>7, <2>8, <2>9 DEF RetainedOf
  <1> QED
    BY <1>1, Invariance, PTL

\* When the last Release() returns nothing runs and nothing is retained.
THEOREM ReleaseLeavesNothing ==
  ASSUME Handled
  PROVE  Spec => []ReleaseIsFinal
  <1>1. IInv => ReleaseIsFinal
    <2> SUFFICES ASSUME IInv, cpc = "released" PROVE live = {} /\ Stopped
      BY DEF ReleaseIsFinal
    <2>1. info.n \in Nat /\ Eps \subseteq Endpoint /\ drain > info.n
      BY Wiring DEF IInv, Position
    <2>2. \A e \in Eps : closed[e] /\ chan[e] = <<>>
      BY <2>1, SMT DEF IInv, Position, Eps, TypeOK
    <2>3. wpc \in {"unborn", "done"} /\ \A e \in Eps : gpc[e] = "done"
      <3>1. CASE info.n = 0
        BY <2>1, <3>1, SMT DEF IInv, Born, Eps
      <3>2. CASE info.n # 0
        <4>1. info.n \in Eps
          BY <2>1, <3>2, SMT DEF Eps
        <4>2. closed[info.n] /\ info.n \in Endpoint
          BY <2>1, <2>2, <4>1
        <4>3. wpc = "done"
          BY <2>1, <4>2, SMT DEF IInv, Closing
        <4> QED
          BY <4>3 DEF IInv, Group
      <3> QED
        BY <3>1, <3>2
    <2>4. \A e \in Endpoint : chan[e] = <<>> /\ gpc[e] # "send"
      <3>1. ASSUME NEW e \in Endpoint, e \notin Eps PROVE chan[e] = <<>> /\ gpc[e] # "send"
        <4>1. gpc[e] = "unborn"
          BY <3>1 DEF IInv, Born
        <4>2. Sent(e) = 0
          BY SMTT(30), <4>1 DEF IInv, Streams, Sent, Unsent
        <4> QED
          BY <4>1, <4>2, Queue, SMT DEF ContentsOf
      <3> QED
        BY <2>2, <2>3, <3>1
    <2>5. ASSUME NEW e \in Endpoint, NEW k \in 1..MaxRecords PROVE <<e, k>> \notin live
      <3>1. Len(chan[e]) = 0 /\ Sent(e) \in Nat /\ k \in Int
        BY <2>4, Queue, ReaderAssumption, SMT
      <3> QED
        BY <2>4, <3>1, SMT DEF IInv, Retained, RetainedOf, InHand, Current
    <2> QED
      BY <2>3, <2>5, SMT DEF IInv, TypeOK, Stopped
  <1> QED
    BY <1>1, Invariance, PTL

\* Records of a partition are handed out only after the earlier ones' are.
THEOREM PartitionsInOrder ==
  ASSUME Handled
  PROVE  Spec => []PartitionOrder
  <1>1. IInv => PartitionOrder
    <2> SUFFICES ASSUME IInv, NEW e \in Eps, NEW d \in Eps, d < e, got[e] > 0
                 PROVE  gpc[d] \in {"exit", "done"} /\ chan[d] = <<>>
      BY DEF PartitionOrder
    <2>1. d \in Endpoint /\ e \in Endpoint /\ info.n \in Nat
      BY Wiring DEF IInv
    <2>2. curChIndex \in Int
      BY SMT DEF IInv, TypeOK
    <2>3. d \in Endpoint /\ e \in Endpoint /\ d \in Int /\ e \in Int /\ curChIndex \in Int
      BY <2>1, <2>2, SMT DEF Eps
    <2>4. e <= curChIndex
      BY <2>3 DEF IInv, Position
    <2>5. d < curChIndex
      BY <2>3, <2>4, SMT
    <2>6. closed[d] /\ chan[d] = <<>>
      BY <2>5 DEF IInv, Position
    <2>7. d < info.n /\ info.n \in Nat
      BY <2>3, Wiring, SMT DEF IInv, Eps
    <2>8. gpc[d] \in {"exit", "done"}
      BY <2>3, <2>6, <2>7, SMT DEF IInv, Closing
    <2> QED
      BY <2>6, <2>8
  <1> QED
    BY <1>1, Invariance, PTL

\* Next() hands out the records in order, without gap or repetition.
THEOREM DeliveryInOrder ==
  ASSUME Handled
  PROVE  Spec => InOrder
  <1> DEFINE Step == rec' # rec /\ rec' # NoRec =>
                       /\ rec'[2] = got[rec'[1]] + 1
                       /\ \A d \in Endpoint : d > rec'[1] => got[d] = 0
  <1>1. IInv /\ IInv' /\ [Next]_vars => Step
    <2> SUFFICES ASSUME IInv, IInv', [Next]_vars, rec' # rec, rec' # NoRec
                 PROVE  /\ rec'[2] = got[rec'[1]] + 1
                        /\ \A d \in Endpoint : d > rec'[1] => got[d] = 0
      OBVIOUS
    <2>1. PICK c \in Eps : NextRecv(c)
      BY DEF Next, NewRecordReaderFails, NewRecordReader, Fetch, Goroutine, DoGet, StreamFails,
         RdrNext, RdrEof, Check, CheckCancelled, Send, Return, Exit, Wait, CloseLast, NextCall,
         Retain, Release, CallerRuns, NextAdvance, NextEnds, DrainRecv, DrainAdvance, DrainEnds,
         CancelParent, vars, caller
    <2>2. curChIndex \in Int /\ curChIndex >= 1 /\ curChIndex <= info.n /\ c = Chs(curChIndex)
      BY <2>1, SMT DEF NextRecv, Receives, IInv, TypeOK
    <2>3. curChIndex \in Eps
      BY <2>2, Wiring, SMT DEF Eps, IInv
    <2>4. c \in Endpoint /\ c = curChIndex /\ rec' = <<c, Head(chan[c])>>
      BY SMTT(30), <2>1, <2>2, <2>3, Wiring DEF NextRecv, IInv
    <2>5. Head(chan[c]) = got'[c] /\ got'[c] = got[c] + 1
      <3>1. rec' # NoRec => rec'[2] = got'[rec'[1]]
        BY DEF IInv, Position
      <3>2. got' = [got EXCEPT ![c] = got[c] + 1] /\ c \in DOMAIN got
        BY <2>1, <2>4 DEF NextRecv, IInv, TypeOK
      <3>3. got'[c] = got[c] + 1
        BY <3>2
      <3>4. rec'[1] = c /\ rec'[2] = Head(chan[c])
        BY <2>4
      <3> QED
        BY <3>1, <3>3, <3>4
    <2>6. \A d \in Endpoint : d > c => got[d] = 0
      <3> SUFFICES ASSUME NEW d \in Endpoint, d > c PROVE got[d] = 0
        OBVIOUS
      <3>1. got[d] \in Nat /\ d \in Int
        BY ReaderAssumption, SMT DEF IInv, TypeOK, Endpoint
      <3>2. ~(d <= curChIndex)
        <4>1. d > curChIndex /\ d \in Int /\ curChIndex \in Int
          BY ZenonT(30), <2>4, <2>2, <3>1
        <4> QED
          BY <4>1, SMT
      <3>3. got[d] > 0 => d <= curChIndex
        BY DEF IInv, Position
      <3> QED
        BY <3>1, <3>2, <3>3, SMT
    <2> QED
      BY <2>4, <2>5, <2>6
  <1>2. [IInv /\ IInv' /\ [Next]_vars]_vars => [Step]_vars
    BY <1>1
  <1> QED
    BY <1>1, Invariance, PTL DEF Spec, InOrder

-----------------------------------------------------------------------------
(* The reader implements RecordStream: each step is a step of the abstract *)
(* stream or leaves it alone.                                              *)

\* The abstract stream's position and loss.
AtOf    == IF parent THEN 0 ELSE LastDelivered
CountOf == IF parent \/ LastDelivered = 0 THEN 0 ELSE got[LastDelivered]
LostOf  == ~parent /\ \E i \in Eps : i < curChIndex /\ ~Complete(Chs(i))

Simulated ==
  Stream!Next \/ (Verdict' = Verdict /\ AtOf' = AtOf /\ CountOf' = CountOf /\ LostOf' = LostOf)

\* The caller is reading, or has read to the end.
Usable == cpc \in {"idle", "recv"}

\* What the abstract stream says, where the caller is.
LEMMA Verdicts ==
  curChIndex \in Int /\ info.n \in Int =>
  /\ parent => Verdict = "cancelled"
  /\ ~parent /\ cpc = "new" => Verdict = "reading"
  /\ ~parent /\ cpc = "failed" => Verdict = "refused"
  /\ ~parent /\ Over => Verdict = "released"
  /\ ~parent /\ Usable /\ curChIndex <= info.n => Verdict = "reading"
  /\ ~parent /\ Usable /\ curChIndex > info.n => Verdict = IF err THEN "error" ELSE "complete"
<1> SUFFICES ASSUME curChIndex \in Int, info.n \in Int, ~parent
             PROVE  /\ cpc = "new" => Verdict = "reading"
                    /\ cpc = "failed" => Verdict = "refused"
                    /\ Over => Verdict = "released"
                    /\ Usable /\ curChIndex <= info.n => Verdict = "reading"
                    /\ Usable /\ curChIndex > info.n =>
                         Verdict = IF err THEN "error" ELSE "complete"
  BY DEF Verdict
<1>1. cpc = "new" => Verdict = "reading"
  BY DEF Verdict
<1>2. cpc = "failed" => Verdict = "refused"
  BY DEF Verdict
<1>3. Over => Verdict = "released"
  BY DEF Verdict, Over
<1>4. Usable /\ curChIndex <= info.n => Verdict = "reading"
  BY SMT DEF Verdict, Usable
<1>5. Usable /\ curChIndex > info.n => Verdict = IF err THEN "error" ELSE "complete"
  BY SMT DEF Verdict, Usable
<1> QED
  BY <1>1, <1>2, <1>3, <1>4, <1>5

\* The endpoint that a record was handed out from last.
LastAmong ==
  got \in [Endpoint -> Nat] =>
    \A c \in Endpoint :
      got[c] > 0 /\ (\A d \in Endpoint : got[d] > 0 => d <= c) => LastDelivered = c

LEMMA LastIs == LastAmong
<1> SUFFICES ASSUME got \in [Endpoint -> Nat], NEW c \in Endpoint, got[c] > 0,
                    \A d \in Endpoint : got[d] > 0 => d <= c
             PROVE  LastDelivered = c
  BY DEF LastAmong
<1>1. c \in Delivered /\ \A d \in Delivered : d <= c
  BY DEF Delivered
<1>2. LastDelivered \in Delivered /\ \A d \in Delivered : d <= LastDelivered
  BY <1>1 DEF LastDelivered
<1> QED
  BY <1>1, <1>2, ReaderAssumption, SMT DEF Delivered, Endpoint

\* If records were handed out, one of them was the last.
HasLast == Delivered # {} => \E c \in Delivered : \A d \in Delivered : d <= c

\* It comes before an endpoint that no record was handed out from and that the
\* caller has reached.
LEMMA LastIsBefore ==
  ASSUME IInv, HasLast, NEW c \in Endpoint, got[c] = 0, \A d \in Endpoint : got[d] > 0 => d <= c
  PROVE  LastDelivered \in Int /\ LastDelivered < c
<1>1. CASE Delivered = {}
  BY <1>1, ReaderAssumption, SMT DEF LastDelivered, Endpoint
<1>2. CASE Delivered # {}
  <2>1. \A d \in Delivered : d \in Int /\ d < c
    BY ReaderAssumption, SMT DEF Delivered, Endpoint, IInv, TypeOK
  <2>2. LastDelivered \in Delivered
    BY <1>2 DEF LastDelivered, HasLast
  <2> QED
    BY <2>1, <2>2
<1> QED
  BY <1>1, <1>2

\* Before the reader is made nothing was handed out and nothing has failed.
LEMMA NothingYet ==
  ASSUME Handled, IInv, cpc = "new"
  PROVE  LastDelivered = 0 /\ ~err /\ (info.n > 0 => curChIndex <= info.n)
<1>1. \A e \in Endpoint : gpc[e] = "unborn" /\ ~closed[e] /\ wpc = "unborn"
  BY DEF IInv, Born, Closing
<1>2. \A e \in Endpoint : got[e] = 0
  <2> SUFFICES ASSUME NEW e \in Endpoint PROVE got[e] = 0
    OBVIOUS
  <2>1. Sent(e) = 0
    BY <1>1 DEF IInv, Streams, Sent, Unsent
  <2> QED
    BY <2>1, Queue, SMT DEF ContentsOf, Over
<1>3. info.n > 0 => curChIndex <= info.n
  <2> SUFFICES ASSUME info.n > 0, curChIndex > info.n PROVE FALSE
    BY Wiring, SMT DEF IInv, TypeOK
  <2>1. info.n \in Eps /\ info.n \in Endpoint
    BY Wiring, SMT DEF IInv, Eps
  <2> QED
    BY <1>1, <2>1 DEF IInv, Position
<1> QED
  BY <1>1, <1>2, <1>3, SMT DEF LastDelivered, Delivered, IInv, Group

\* A reader that has read to the end without an error has every record.
LEMMA EndIsWhole ==
  ASSUME Handled
  PROVE  IInv /\ Usable /\ curChIndex > info.n /\ ~err /\ ~parent => \A e \in Eps : Complete(e)
<1> SUFFICES ASSUME IInv, Usable, curChIndex > info.n, ~err, ~parent, NEW e \in Eps
             PROVE  Complete(e)
  OBVIOUS
<1>1. e \in Endpoint /\ info.n \in Nat /\ info.n \in Eps /\ info.n \in Endpoint
  BY Wiring, SMT DEF IInv, Eps
<1>2. chan[e] = <<>> /\ closed[info.n]
  BY <1>1, SMT DEF IInv, Position, Eps, TypeOK
<1>3. wpc = "done"
  BY <1>1, <1>2, SMT DEF IInv, Closing
<1>4. gpc[e] = "done" /\ ~groupErr /\ ~Over /\ ~cancelFn
  BY <1>3 DEF IInv, Group, Usable, Over
<1>5. strm[e] = "eof"
  BY <1>1, <1>4 DEF IInv, TypeOK, Streams, Unsent, Group
<1>6. Sent(e) = served[e]
  BY <1>4, <1>5 DEF Sent, Unsent
<1>7. got[e] + Len(chan[e]) = Sent(e) /\ got[e] \in Nat /\ Len(chan[e]) = 0
  BY <1>1, <1>2, <1>4 DEF IInv, TypeOK, Contents, ContentsOf
<1> QED
  BY <1>5, <1>6, <1>7, SMT DEF Complete

\* Only Next hands out records.
LEMMA GotMoves ==
  ASSUME [Next]_vars
  PROVE  got' = got \/ \E c \in Eps : NextRecv(c)
BY DEF Next, NewRecordReaderFails, NewRecordReader, Fetch, Goroutine, DoGet, StreamFails,
   RdrNext, RdrEof, Check, CheckCancelled, Send, Return, Exit, Wait, CloseLast, NextCall,
   Retain, Release, CallerRuns, NextAdvance, NextEnds, DrainRecv, DrainAdvance, DrainEnds,
   CancelParent, vars, caller

\* The record that Next hands out is of the endpoint at curChIndex.
LEMMA Received ==
  ASSUME Handled, IInv, NEW c \in Eps, NextRecv(c)
  PROVE  /\ c \in Endpoint /\ c = curChIndex
         /\ got[c] \in Nat /\ got'[c] = got[c] + 1
         /\ \A d \in Endpoint \ {c} : got'[d] = got[d]
<1>1. curChIndex \in Eps /\ c = Chs(curChIndex)
  BY Wiring, SMT DEF NextRecv, Receives, IInv, TypeOK, Eps
<1>2. c \in Endpoint /\ c = curChIndex
  BY <1>1, Wiring DEF IInv
<1>3. got \in [Endpoint -> Nat] /\ got' = [got EXCEPT ![c] = @ + 1]
  BY DEF NextRecv, IInv, TypeOK
<1> QED
  BY <1>2, <1>3

LEMMA HasLastStep ==
  ASSUME Handled, IInv, IInv', HasLast, [Next]_vars
  PROVE  HasLast'
<1>1. CASE got' = got
  BY <1>1 DEF HasLast, Delivered
<1>2. ASSUME NEW c \in Eps, NextRecv(c)
      PROVE  HasLast'
  <2>1. c \in Delivered'
    BY <1>2, Received, SMT DEF Delivered
  <2>2. \A d \in Delivered' : d <= c
    BY <1>2, Received DEF Delivered, NextRecv, IInv, Position
  <2> QED
    BY <2>1, <2>2 DEF HasLast
<1> QED
  BY <1>1, <1>2, GotMoves

\* The goroutines of the endpoints before curChIndex have returned.
LEMMA Behind ==
  ASSUME Handled, IInv, NEW e \in Eps, e < curChIndex
  PROVE  e \in Endpoint /\ gpc[e] \in {"exit", "done"}
<1>1. e \in Endpoint /\ closed[e]
  BY Wiring DEF IInv, Position
<1> QED
  BY <1>1 DEF IInv, Closing, Group

\* As long as nothing is handed out, the last record stays the last.
LEMMA SameGot ==
  ASSUME got' = got, parent' = parent
  PROVE  AtOf' = AtOf /\ CountOf' = CountOf
<1>1. Delivered' = Delivered
  BY DEF Delivered
<1>2. LastDelivered' = LastDelivered
  BY <1>1, SMT DEF LastDelivered
<1> QED
  BY <1>2 DEF AtOf, CountOf

\* As long as the caller stays where it is, and what it has passed stays as it
\* is, nothing more is lost.
LEMMA SameLost ==
  ASSUME Handled, IInv, parent' = parent, info' = info, curChIndex' = curChIndex,
         \A e \in Eps : e < curChIndex =>
           strm'[e] = strm[e] /\ served'[e] = served[e] /\ got'[e] = got[e]
  PROVE  LostOf' = LostOf
<1>1. Eps' = Eps /\ \A i : Chs(i)' = Chs(i)
  BY DEF Eps, Chs, Skipped
<1>2. \A i \in Eps : Chs(i) = i
  BY Wiring DEF IInv
<1>3. \A i \in Eps : i < curChIndex => (Complete(i)' <=> Complete(i))
  BY DEF Complete
<1>4. \A i \in Eps : i < curChIndex => (Complete(Chs(i))' <=> Complete(Chs(i)))
  BY <1>1, <1>2, <1>3 DEF Complete
<1> QED
  BY <1>1, <1>4 DEF LostOf

\* The goroutines, and Wait and CloseLast, change nothing the caller sees.
LEMMA GoroutinesHidden ==
  ASSUME Handled, IInv, ~parent,
         (\E e \in Eps : Fetch(e) \/ Goroutine(e)) \/ Wait \/ CloseLast
  PROVE  Verdict' = Verdict /\ AtOf' = AtOf /\ CountOf' = CountOf /\ LostOf' = LostOf
<1>1. UNCHANGED <<info, parent, cpc, curChIndex, got>>
  BY DEF Fetch, Goroutine, DoGet, StreamFails, RdrNext, RdrEof, Check, CheckCancelled,
     Send, Return, Exit, Wait, CloseLast, context, caller
<1>2. ASSUME NEW e \in Eps, e < curChIndex
      PROVE  strm'[e] = strm[e] /\ served'[e] = served[e] /\ got'[e] = got[e]
  <2>1. e \in Endpoint /\ gpc[e] \in {"exit", "done"}
    BY <1>2, Behind
  <2>2. CASE \E d \in Eps : Fetch(d)
    <3>1. PICK d \in Eps : Fetch(d)
      BY <2>2
    <3>2. gpc[d] \in {"doGet", "next"} /\ d # e
      BY <2>1, <3>1 DEF Fetch, DoGet, StreamFails, RdrNext, RdrEof
    <3>3. strm \in [Endpoint -> {"open", "eof", "failed"}] /\ served \in [Endpoint -> 0..MaxRecords]
      BY DEF IInv, TypeOK
    <3> QED
      BY <1>1, <2>1, <3>1, <3>2, <3>3 DEF Fetch, DoGet, StreamFails, RdrNext, RdrEof
  <2>3. CASE (\E d \in Eps : Goroutine(d)) \/ Wait \/ CloseLast
    BY <1>1, <2>3 DEF Goroutine, Check, CheckCancelled, Send, Return, Exit, Wait, CloseLast
  <2> QED
    BY <2>2, <2>3
<1>3. Verdict' = Verdict
  <2>1. CASE err' = err
    BY <1>1, <2>1, SMT DEF Verdict
  <2>2. CASE err' # err
    <3>1. Wait
      BY <2>2 DEF Fetch, Goroutine, DoGet, StreamFails, RdrNext, RdrEof, Check,
         CheckCancelled, Send, Return, Exit, CloseLast, waiter
    <3>2. ~(curChIndex > info.n)
      <4> SUFFICES ASSUME curChIndex > info.n PROVE FALSE
        OBVIOUS
      <4>1. info.n \in Nat /\ info.n # 0
        BY <3>1, Wiring DEF Wait, IInv, Born
      <4>2. info.n \in Eps /\ info.n \in Endpoint
        BY <4>1, Wiring, SMT DEF IInv, Eps
      <4>3. closed[info.n]
        BY <4>1, <4>2 DEF IInv, Position, TypeOK
      <4> QED
        BY <3>1, <4>1, <4>2, <4>3, SMT DEF Wait, IInv, Closing
    <3> QED
      BY <1>1, <3>2, SMT DEF Verdict
  <2> QED
    BY <2>1, <2>2
<1> QED
  BY <1>1, <1>2, <1>3, SameGot, SameLost

\* Next hands out a record: the next of its partition, or the first of a later
\* one.
LEMMA NextDelivers ==
  ASSUME Handled, IInv, IInv', HasLast, ~parent, NEW c \in Eps, NextRecv(c)
  PROVE  Simulated
<1>1. /\ c \in Endpoint /\ c = curChIndex
      /\ got[c] \in Nat /\ got'[c] = got[c] + 1
      /\ \A d \in Endpoint \ {c} : got'[d] = got[d]
  BY Received
<1>2. parent' = parent /\ info' = info /\ curChIndex' = curChIndex /\ cpc = "recv" /\ cpc' = "idle"
  BY DEF NextRecv, context
<1>3. curChIndex \in Int /\ info.n \in Int /\ curChIndex <= info.n
  BY Wiring, SMT DEF NextRecv, Receives, IInv, TypeOK
<1>4. Verdict = "reading" /\ Verdict' = "reading"
  <2>1. Verdict = "reading"
    BY <1>2, <1>3, Verdicts DEF Usable
  <2>2. Verdict' = "reading"
    BY <1>2, <1>3, SMT DEF Verdict
  <2> QED
    BY <2>1, <2>2
<1>5. LastDelivered' = c
  <2>1. LastAmong'
    BY LastIs, PTL
  <2>2. got' \in [Endpoint -> Nat] /\ \A d \in Endpoint : got'[d] > 0 => d <= c
    BY <1>1, <1>2 DEF IInv, TypeOK, Position
  <2>3. got'[c] > 0
    BY <1>1, SMT
  <2> QED
    BY <1>1, <2>1, <2>2, <2>3 DEF LastAmong
<1>6. AtOf' = c /\ CountOf' = got[c] + 1
  BY <1>1, <1>2, <1>5, ReaderAssumption, SMT DEF AtOf, CountOf, Endpoint
<1>7. LostOf' = LostOf
  <2>1. \A e \in Eps : e < curChIndex =>
           strm'[e] = strm[e] /\ served'[e] = served[e] /\ got'[e] = got[e]
    BY <1>1, <1>3, Wiring, SMT DEF NextRecv, IInv, Eps
  <2> QED
    BY <1>2, <2>1, SameLost
<1>8. \A d \in Endpoint : got[d] > 0 => d <= c
  BY <1>1 DEF IInv, Position
<1>9. CASE got[c] > 0
  <2>1. LastDelivered = c
    BY <1>1, <1>8, <1>9, LastIs DEF LastAmong, IInv, TypeOK
  <2>2. AtOf = c /\ CountOf = got[c] /\ c > 0
    BY <1>1, <2>1, ReaderAssumption, SMT DEF AtOf, CountOf, Endpoint
  <2>3. Stream!DeliverNext
    BY <1>4, <1>6, <1>7, <2>2 DEF Stream!DeliverNext, AtOf, CountOf, LostOf
  <2> QED
    BY <2>3 DEF Simulated, Stream!Next
<1>10. CASE got[c] = 0
  <2>1. LastDelivered \in Int /\ LastDelivered < c
    BY <1>1, <1>8, <1>10, LastIsBefore
  <2>2. c > AtOf
    BY <1>1, <2>1, ReaderAssumption DEF AtOf, Endpoint
  <2>3. Stream!DeliverFrom(c)
    BY <1>4, <1>6, <1>7, <1>10, <2>2, SMT DEF Stream!DeliverFrom, AtOf, CountOf, LostOf
  <2> QED
    BY <1>1, <2>3 DEF Simulated, Stream!Next, Endpoint
<1> QED
  BY <1>1, <1>9, <1>10, SMT

\* The current channel is at its end: the stream goes on to the next
\* partition, or ends.
LEMMA AdvanceFinishes ==
  ASSUME Handled, IInv, IInv', ~parent, NextAdvance
  PROVE  Simulated
<1>1. parent' = parent /\ info' = info /\ curChIndex' = curChIndex + 1 /\ cpc = "recv" /\ cpc' = "recv"
  BY DEF NextAdvance, context
<1>2. curChIndex \in Int /\ info.n \in Int /\ curChIndex <= info.n
  BY Wiring, SMT DEF NextAdvance, Exhausted, IInv, TypeOK
<1>3. AtOf' = AtOf /\ CountOf' = CountOf
  BY <1>1, SameGot DEF NextAdvance
<1>4. Verdict = "reading"
  BY <1>1, <1>2, Verdicts DEF Usable
<1>5. LostOf' \in BOOLEAN /\ (LostOf => LostOf')
  <2>1. Eps' = Eps /\ \A i : Chs(i)' = Chs(i) /\ (Complete(i)' <=> Complete(i))
    BY <1>1 DEF Eps, Chs, Skipped, Complete, NextAdvance
  <2>2. \A i \in Eps : i < curChIndex => i < curChIndex'
    BY <1>1, <1>2, SMT DEF Eps
  <2> QED
    BY <1>1, <2>1, <2>2 DEF LostOf
<1>6. CASE curChIndex' <= info.n
  <2>1. Verdict' = "reading"
    BY <1>1, <1>2, <1>6, SMT DEF Verdict
  <2> QED
    BY <1>3, <1>4, <1>5, <2>1 DEF Simulated, Stream!Next, Stream!Lose, AtOf, CountOf, LostOf
<1>7. CASE curChIndex' > info.n
  <2>1. Verdict' = IF err' THEN "error" ELSE "complete"
    BY <1>1, <1>2, <1>7, SMT DEF Verdict
  <2>2. ~err' => ~LostOf'
    <3>1. (IInv /\ Usable /\ curChIndex > info.n /\ ~err /\ ~parent
             => \A e \in Eps : Complete(e))'
      BY EndIsWhole, PTL
    <3>2. (\A i \in Eps : Chs(i) = i)'
      <4>1. \A i \in Eps : Chs(i) = i
        BY Wiring DEF IInv
      <4> QED
        BY <1>1, <4>1 DEF Eps, Chs, Skipped
    <3> QED
      BY <1>1, <1>7, <3>1, <3>2 DEF LostOf, Usable
  <2>3. Stream!Finish
    BY <1>3, <1>4, <1>5, <2>1, <2>2 DEF Stream!Finish, AtOf, CountOf, LostOf
  <2> QED
    BY <2>3 DEF Simulated, Stream!Next
<1> QED
  BY <1>1, <1>2, <1>6, <1>7, SMT

\* A step of the reader is a step of the stream or hidden from its caller.
LEMMA StreamStep ==
  ASSUME Handled, IInv, IInv', HasLast, [Next]_vars
  PROVE  Simulated
<1>0. curChIndex \in Int /\ info.n \in Int /\ parent \in BOOLEAN
  BY Wiring, SMTT(30) DEF IInv, TypeOK
<1>1. CASE parent
  <2>1. parent'
    BY <1>1 DEF Next, NewRecordReaderFails, NewRecordReader, Fetch, Goroutine, DoGet,
       StreamFails, RdrNext, RdrEof, Check, CheckCancelled, Send, Return, Exit, Wait, CloseLast,
       NextCall, Retain, Release, CallerRuns, NextRecv, NextAdvance, NextEnds, DrainRecv,
       DrainAdvance, DrainEnds, CancelParent, vars, context
  <2> QED
    BY <1>1, <2>1 DEF Simulated, Verdict, AtOf, CountOf, LostOf
<1>2. CASE ~parent /\ CancelParent
  <2>1. Verdict' = "cancelled" /\ AtOf' = 0 /\ CountOf' = 0 /\ LostOf' = FALSE
    BY <1>2 DEF CancelParent, Verdict, AtOf, CountOf, LostOf
  <2>2. Verdict \notin {"refused", "cancelled"}
    <3>1. Usable \/ Over
      BY <1>2 DEF CancelParent, IInv, TypeOK, Usable, Over
    <3>2. curChIndex <= info.n \/ curChIndex > info.n
      BY <1>0, SMT
    <3> QED
      BY <1>0, <1>2, <3>1, <3>2, Verdicts
  <2>3. Stream!Cancel
    BY <2>1, <2>2 DEF Stream!Cancel, AtOf, CountOf, LostOf
  <2> QED
    BY <2>3 DEF Simulated, Stream!Next
<1>3. CASE ~parent /\ NewRecordReaderFails
  <2>1. LastDelivered = 0 /\ cpc = "new"
    BY <1>3, NothingYet DEF NewRecordReaderFails
  <2>2. Verdict = "reading" /\ Verdict' = "refused"
    BY <1>3 DEF NewRecordReaderFails, Verdict
  <2>3. AtOf = 0 /\ AtOf' = AtOf /\ CountOf' = CountOf
    BY <1>3, <2>1, SameGot DEF NewRecordReaderFails, AtOf
  <2>4. LostOf' = LostOf
    BY <1>3, SameLost DEF NewRecordReaderFails
  <2>5. Stream!Refuse
    BY <2>2, <2>3, <2>4 DEF Stream!Refuse, AtOf, CountOf, LostOf
  <2> QED
    BY <2>5 DEF Simulated, Stream!Next
<1>4. CASE ~parent /\ NewRecordReader
  <2>1. ~err /\ err' = err /\ (info.n > 0 => curChIndex <= info.n) /\ cpc = "new"
    BY <1>4, NothingYet DEF NewRecordReader
  <2>2. parent' = parent /\ info' = info /\ curChIndex' = curChIndex /\ cpc' = "idle"
    BY <1>4 DEF NewRecordReader, context
  <2>3. AtOf' = AtOf /\ CountOf' = CountOf
    BY <1>4, SameGot DEF NewRecordReader, context
  <2>4. LostOf' = LostOf
    BY <1>4, SameLost DEF NewRecordReader, context
  <2>5. CASE curChIndex <= info.n
    <3>1. Verdict = "reading"
      BY <1>0, <1>4, <2>1, Verdicts
    <3>2. Verdict' = "reading"
      <4>1. ~parent' /\ cpc' = "idle" /\ curChIndex' <= info'.n /\ ~(curChIndex' > info'.n)
        BY <1>0, <1>4, <2>2, <2>5, SMT
      <4> QED
        BY <4>1 DEF Verdict
    <3> QED
      BY <2>3, <2>4, <3>1, <3>2 DEF Simulated
  <2>6. CASE curChIndex > info.n
    <3>0. Verdict = "reading"
      BY <1>0, <1>4, <2>1, Verdicts
    <3>1. Verdict' = "complete"
      <4>1. ~parent' /\ cpc' = "idle" /\ curChIndex' > info'.n /\ ~(curChIndex' <= info'.n)
        BY <1>0, <1>4, <2>2, <2>6, SMT
      <4>2. ~err'
        BY <2>1
      <4> QED
        BY <4>1, <4>2 DEF Verdict
    <3>2. ~LostOf
      <4>1. Eps = {}
        BY <1>0, <2>1, <2>6, SMT DEF Eps
      <4> QED
        BY <4>1 DEF LostOf
    <3>3. Stream!Finish
      BY <2>3, <2>4, <3>0, <3>1, <3>2 DEF Stream!Finish, AtOf, CountOf, LostOf
    <3> QED
      BY <3>3 DEF Simulated, Stream!Next
  <2> QED
    BY <1>0, <2>5, <2>6, SMT
<1>5. CASE ~parent /\ ((\E e \in Eps : Fetch(e) \/ Goroutine(e)) \/ Wait \/ CloseLast)
  BY <1>5, GoroutinesHidden DEF Simulated
<1>6. CASE ~parent /\ \E c \in Eps : NextRecv(c)
  BY <1>6, NextDelivers
<1>7. CASE ~parent /\ NextAdvance
  BY <1>7, AdvanceFinishes
<1>8. CASE ~parent /\ \/ NextCall \/ Retain \/ Release \/ NextEnds \/ (\E c \in Eps : DrainRecv(c))
                      \/ DrainAdvance \/ DrainEnds \/ UNCHANGED vars
  <2>1. /\ parent' = parent /\ info' = info /\ curChIndex' = curChIndex /\ err' = err
        /\ got' = got /\ strm' = strm /\ served' = served
    BY <1>8 DEF NextCall, Retain, Release, NextEnds, DrainRecv, DrainAdvance, DrainEnds,
       vars, context, waiter, caller
  <2>2. AtOf' = AtOf /\ CountOf' = CountOf
    BY <2>1, SameGot
  <2>3. LostOf' = LostOf
    BY <2>1, SameLost
  <2>4. \/ cpc' = cpc \/ (Usable /\ Usable') \/ (Over /\ Over')
        \/ Usable /\ cpc' = "drain"
    BY <1>8 DEF NextCall, Retain, Release, NextEnds, DrainRecv, DrainAdvance, DrainEnds,
       vars, caller, Usable, Over
  <2>5. CASE cpc' = cpc \/ (Usable /\ Usable') \/ (Over /\ Over')
    <3>1. Verdict' = Verdict
      <4>1. CASE cpc' = cpc
        BY <2>1, <4>1, SMT DEF Verdict
      <4>2. CASE Over /\ Over'
        BY <2>1, <4>2 DEF Verdict, Over
      <4>3. CASE Usable /\ Usable' /\ curChIndex <= info.n
        <5>1. ~(curChIndex > info.n)
          BY <1>0, <4>3, SMT
        <5> QED
          BY <2>1, <4>3, <5>1 DEF Verdict, Usable
      <4>4. CASE Usable /\ Usable' /\ curChIndex > info.n
        <5>1. ~(curChIndex <= info.n)
          BY <1>0, <4>4, SMT
        <5> QED
          BY <2>1, <4>4, <5>1 DEF Verdict, Usable
      <4>5. curChIndex <= info.n \/ curChIndex > info.n
        BY <1>0
      <4> QED
        BY <2>5, <4>1, <4>2, <4>3, <4>4, <4>5
    <3> QED
      BY <2>2, <2>3, <3>1 DEF Simulated
  <2>6. CASE Usable /\ cpc' = "drain"
    <3>1. Verdict \in {"reading", "complete", "error"}
      BY <1>0, <1>8, <2>6, Verdicts, SMT
    <3>2. Verdict' = "released"
      BY <1>8, <2>1, <2>6 DEF Verdict
    <3>3. Stream!Release
      BY <2>2, <2>3, <3>1, <3>2 DEF Stream!Release, AtOf, CountOf, LostOf
    <3> QED
      BY <3>3 DEF Simulated, Stream!Next
  <2> QED
    BY <2>4, <2>5, <2>6
<1> QED
  BY <1>0, <1>1, <1>2, <1>3, <1>4, <1>5, <1>6, <1>7, <1>8 DEF Next, CallerRuns

\* Until the caller cancels its own context, the reader is the ordered stream
\* of RecordStream, for any number of endpoints and records and any order in
\* which the goroutines run: records come in order and once, and an end
\* without an error means that none is missing.
THEOREM ReaderIsStream ==
  ASSUME Handled
  PROVE  Spec => ImplementsStream
<1>1. Init => Stream!Init /\ HasLast
  <2> SUFFICES ASSUME Init PROVE Stream!Init /\ HasLast
    OBVIOUS
  <2>1. Delivered = {} /\ LastDelivered = 0
    BY SMT DEF Init, Delivered, LastDelivered
  <2>2. Verdict = "reading" /\ parent = FALSE /\ curChIndex = 1
    BY DEF Init, Verdict
  <2>3. ~LostOf
    BY <2>2, SMT DEF LostOf, Eps
  <2> QED
    BY <2>1, <2>2, <2>3 DEF Stream!Init, HasLast, LostOf
<1>2. IInv /\ IInv' /\ HasLast /\ [Next]_vars => HasLast'
  BY HasLastStep
<1>3. IInv /\ IInv' /\ HasLast /\ [Next]_vars => [Stream!Next]_(Stream!vars)
  BY StreamStep DEF Simulated, Stream!vars, AtOf, CountOf, LostOf
<1> QED
  BY <1>1, <1>2, <1>3, Invariance, PTL DEF Spec, ImplementsStream, Stream!Spec
=============================================================================
