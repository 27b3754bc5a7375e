---------------------------- MODULE RecordReader ----------------------------
(***************************************************************************)
(* The Flight SQL driver's result reader,                                  *)
(* src/go/adbc/driver/flightsql/record_reader.go.                          *)
(*                                                                         *)
(* newRecordReader starts one goroutine per endpoint of a FlightInfo.      *)
(* Each goroutine reads its endpoint's stream and sends the records to a   *)
(* buffered channel of its own.  The caller's Next walks the channels in   *)
(* endpoint order.  A further goroutine waits for the group, publishes the *)
(* group's error in reader.err and only then closes the last channel.      *)
(* Release cancels the context and drains every channel.                   *)
(*                                                                         *)
(* Go slices are 0-based; endpoints and slots of chs are 1-based here.     *)
(* A record is <<e, k>>: the k-th record of endpoint e.  The channel into  *)
(* which goroutine e sends is called channel e, and holds the k's.         *)
(***************************************************************************)
EXTENDS Integers, Sequences

CONSTANTS
  MaxEndpoints,   \* bound on len(info.Endpoint)
  MaxRecords,     \* bound on the records an endpoint serves
  BufferSize,     \* capacity of every channel (adbc.rpc.result_queue_size)
  MaxRefs,        \* bound on refCount
  Infos,          \* the FlightInfos considered: [n, schema]
  Cancellable     \* TRUE: the caller's own context may be cancelled

InfoType == [n : 0..MaxEndpoints, schema : {"none", "valid", "invalid"}]

\* The statement refuses a queue size that is not positive.
ASSUME ReaderAssumption ==
  /\ MaxEndpoints \in Nat
  /\ MaxRecords \in Nat
  /\ BufferSize \in Nat \ {0}
  /\ MaxRefs \in Nat \ {0}
  /\ Infos \subseteq InfoType
  /\ Cancellable \in BOOLEAN

VARIABLES
  info,       \* the FlightInfo: endpoint count, and whether it has a schema
  cpc,        \* where the caller is
  gpc,        \* where each endpoint's goroutine is
  wpc,        \* where the goroutine that waits for the group is
  strm,       \* each endpoint's gRPC stream as the goroutine last saw it
  served,     \* records rdr.Next has produced, per endpoint
  chan,       \* contents of each channel
  closed,     \* is the channel closed?
  groupErr,   \* errgroup: the first error
  parent,     \* the caller's context is cancelled
  cancelFn,   \* Release has called cancelFn
  err,        \* reader.err
  refCount,   \* reader.refCount
  curChIndex, \* reader.curChIndex
  rec,        \* reader.rec, or NoRec
  drain,      \* the slot Release is draining
  got,        \* records Next has handed to the caller, per endpoint
  live,       \* records retained and not yet released
  panicked    \* a Go runtime panic ended the process

context  == <<info, parent, cancelFn>>
buffers  == <<chan, closed>>
waiter   == <<wpc, err>>
caller   == <<cpc, refCount, curChIndex, rec, drain, got>>
vars     == <<context, gpc, strm, served, groupErr, buffers, waiter, caller,
              live, panicked>>

Endpoint == 1..MaxEndpoints
NoRec    == <<0, 0>>
NoChan   == 0

\* The endpoints of this FlightInfo.
Eps == 1..info.n

-----------------------------------------------------------------------------
(* newRecordReader's bookkeeping of channels.                              *)

\* Endpoints consumed before the loop: "endpoints = endpoints[1:]" when the
\* schema had to be fetched from the first endpoint.
Skipped == IF info.schema = "none" THEN 1 ELSE 0

\* The slot of chs (endpointIndex) goroutine e owns; 0: it owns none.
Slot(e) == e - Skipped

\* chs: slot 1 is first set to the channel of endpoint 1, then the loop over
\* the remaining endpoints stores a new channel in slots 1, 2, ...
Chs(i) ==
  IF i + Skipped \in Eps THEN i + Skipped
  ELSE IF i = 1 THEN 1
  ELSE NoChan

\* ctx.Err() # nil: the caller's context, the group's, or cancelFn's.
Cancelled == \/ parent \/ cancelFn \/ groupErr \/ wpc \in {"close", "done"}

Init ==
  /\ info \in Infos
  /\ cpc = "new"
  /\ gpc = [e \in Endpoint |-> "unborn"]
  /\ wpc = "unborn"
  /\ strm = [e \in Endpoint |-> "open"]
  /\ served = [e \in Endpoint |-> 0]
  /\ chan = [e \in Endpoint |-> <<>>]
  /\ closed = [e \in Endpoint |-> FALSE]
  /\ groupErr = FALSE
  /\ parent = FALSE
  /\ cancelFn = FALSE
  /\ err = FALSE
  /\ refCount = 0
  /\ curChIndex = 1
  /\ rec = NoRec
  /\ drain = 1
  /\ got = [e \in Endpoint |-> 0]
  /\ live = {}
  /\ panicked = FALSE

-----------------------------------------------------------------------------
(* The constructor.                                                        *)

\* No schema and no endpoints, an undecodable schema, or (no schema) a doGet
\* of the first endpoint that fails: no reader, no goroutine.
NewRecordReaderFails ==
  /\ cpc = "new"
  /\ info.schema \in {"invalid", "none"}
  /\ cpc' = "failed"
  /\ cancelFn' = (info.n > 0)
  /\ UNCHANGED <<info, parent, gpc, strm, served, groupErr, buffers, waiter,
                 refCount, curChIndex, rec, drain, got, live, panicked>>

\* A schema and no endpoints: an empty reader.  Otherwise one goroutine per
\* endpoint and one that waits for them.  Without a schema the first
\* endpoint's stream is already open and its schema is the reference.
NewRecordReader ==
  /\ cpc = "new"
  /\ info.schema = "valid" \/ (info.schema = "none" /\ info.n > 0)
  /\ cpc' = "idle"
  /\ refCount' = 1
  /\ gpc' = [e \in Endpoint |-> IF e \notin Eps THEN "unborn"
                                ELSE IF e <= Skipped THEN "next" ELSE "doGet"]
  /\ wpc' = IF info.n > 0 THEN "wait" ELSE "unborn"
  /\ UNCHANGED <<context, strm, served, groupErr, buffers, err, curChIndex,
                 rec, drain, got, live, panicked>>

-----------------------------------------------------------------------------
(* The goroutine of endpoint e.                                            *)

Goto(e, label) == gpc' = [gpc EXCEPT ![e] = label]

\* doGet succeeds and the stream's schema equals the reference schema.
DoGet(e) ==
  /\ gpc[e] = "doGet"
  /\ Goto(e, "next")
  /\ UNCHANGED <<context, strm, served, groupErr, buffers, waiter, caller, live, panicked>>

\* doGet fails, the schemas differ, or rdr.Next() returns false with an error
\* (the server's, or that of a cancelled call).
StreamFails(e) ==
  /\ gpc[e] \in {"doGet", "next"}
  /\ strm' = [strm EXCEPT ![e] = "failed"]
  /\ Goto(e, "return")
  /\ UNCHANGED <<context, served, groupErr, buffers, waiter, caller, live, panicked>>

\* rdr.Next() returns true.
RdrNext(e) ==
  /\ gpc[e] = "next" /\ served[e] < MaxRecords
  /\ served' = [served EXCEPT ![e] = @ + 1]
  /\ Goto(e, "check")
  /\ UNCHANGED <<context, strm, groupErr, buffers, waiter, caller, live, panicked>>

\* rdr.Next() returns false at the end of the stream: rdr.Err() is nil.
RdrEof(e) ==
  /\ gpc[e] = "next"
  /\ strm' = [strm EXCEPT ![e] = "eof"]
  /\ Goto(e, "return")
  /\ UNCHANGED <<context, served, groupErr, buffers, waiter, caller, live, panicked>>

\* ctx.Err() == nil: retain the record and go on to send it.
Check(e) ==
  /\ gpc[e] = "check" /\ ~Cancelled
  /\ live' = live \cup {<<e, served[e]>>}
  /\ Goto(e, "send")
  /\ UNCHANGED <<context, strm, served, groupErr, buffers, waiter, caller, panicked>>

\* ctx.Err() # nil: leave the loop.  The record just read is dropped and
\* rdr.Err() is still nil, because rdr.Next() returned true.
CheckCancelled(e) ==
  /\ gpc[e] = "check" /\ Cancelled
  /\ Goto(e, "return")
  /\ UNCHANGED <<context, strm, served, groupErr, buffers, waiter, caller, live, panicked>>

\* Mutant of Send: a full buffer makes room by dropping its oldest record.
SendDropsOldest(e) ==
  /\ gpc[e] = "send" /\ ~closed[e]
  /\ LET full == Len(chan[e]) = BufferSize
     IN /\ chan' = [chan EXCEPT ![e] = Append(IF full THEN Tail(@) ELSE @, served[e])]
        /\ live' = IF full THEN live \ {<<e, Head(chan[e])>>} ELSE live
  /\ Goto(e, "next")
  /\ UNCHANGED <<context, strm, served, groupErr, closed, waiter, caller, panicked>>

\* chs[endpointIndex] <- rec: blocks while the buffer is full (the context is
\* not consulted), panics on a closed channel.
Send(e) ==
  /\ gpc[e] = "send"
  /\ closed[e] \/ Len(chan[e]) < BufferSize
  /\ panicked' = closed[e]
  /\ chan' = IF closed[e] THEN chan ELSE [chan EXCEPT ![e] = Append(@, served[e])]
  /\ Goto(e, "next")
  /\ UNCHANGED <<context, strm, served, groupErr, closed, waiter, caller, live>>

\* The function returns: its deferred close runs, unless the goroutine owns
\* the last slot, or no slot at all.
Return(e) ==
  /\ gpc[e] = "return"
  /\ closed' = [closed EXCEPT ![e] = @ \/ Slot(e) \in 1..(info.n - 1)]
  /\ Goto(e, "exit")
  /\ UNCHANGED <<context, strm, served, groupErr, chan, waiter, caller, live, panicked>>

\* errgroup: the first error is kept and cancels the group's context; the
\* goroutine leaves the wait group.
Exit(e) ==
  /\ gpc[e] = "exit"
  /\ groupErr' = (groupErr \/ strm[e] = "failed")
  /\ Goto(e, "done")
  /\ UNCHANGED <<context, strm, served, buffers, waiter, caller, live, panicked>>

-----------------------------------------------------------------------------
(* The goroutine that waits for the group.                                 *)

\* reader.err = group.Wait()
Wait ==
  /\ wpc = "wait"
  /\ \A e \in Eps : gpc[e] = "done"
  /\ err' = groupErr
  /\ wpc' = "close"
  /\ UNCHANGED <<context, gpc, strm, served, groupErr, buffers, caller, live, panicked>>

\* Mutant of CloseLast: the index of the last slot is off by one.
CloseLastButOne ==
  /\ wpc = "close"
  /\ wpc' = "done"
  /\ LET last == Chs(info.n - 1)
     IN IF last # NoChan /\ ~closed[last]
        THEN closed' = [closed EXCEPT ![last] = TRUE] /\ UNCHANGED panicked
        ELSE panicked' = TRUE /\ UNCHANGED closed
  /\ UNCHANGED <<context, gpc, strm, served, groupErr, chan, err, caller, live>>

\* close(chs[lastChannelIndex]): panics when it is nil or closed.
CloseLast ==
  /\ wpc = "close"
  /\ wpc' = "done"
  /\ LET last == Chs(info.n)
     IN IF last # NoChan /\ ~closed[last]
        THEN closed' = [closed EXCEPT ![last] = TRUE] /\ UNCHANGED panicked
        ELSE panicked' = TRUE /\ UNCHANGED closed
  /\ UNCHANGED <<context, gpc, strm, served, groupErr, chan, err, caller, live>>

-----------------------------------------------------------------------------
(* The caller.  A receive from a nil channel blocks for ever.              *)

\* A receive from slot i yields channel c's next record.
Receives(i, c) == i <= info.n /\ c = Chs(i) /\ c # NoChan /\ chan[c] # <<>>

\* Mutant of Exhausted: an empty channel counts as a finished one.
ExhaustedWhenEmpty(i) == i <= info.n /\ Chs(i) # NoChan /\ chan[Chs(i)] = <<>>

\* A receive from slot i finds the channel closed and empty.
Exhausted(i) ==
  i <= info.n /\ Chs(i) # NoChan /\ chan[Chs(i)] = <<>> /\ closed[Chs(i)]

\* Mutant of NextCall: the previous record is dropped without a release.
NextCallKeeps ==
  /\ cpc = "idle"
  /\ rec' = NoRec
  /\ cpc' = "recv"
  /\ UNCHANGED <<context, gpc, strm, served, groupErr, buffers, waiter,
                 refCount, curChIndex, drain, got, live, panicked>>

\* Next() releases the previous record and starts to receive.
NextCall ==
  /\ cpc = "idle"
  /\ live' = live \ {rec}
  /\ rec' = NoRec
  /\ cpc' = "recv"
  /\ UNCHANGED <<context, gpc, strm, served, groupErr, buffers, waiter,
                 refCount, curChIndex, drain, got, panicked>>

\* A record arrives on the current channel: Next() returns true.
NextRecv(c) ==
  /\ cpc = "recv" /\ Receives(curChIndex, c)
  /\ rec' = <<c, Head(chan[c])>>
  /\ chan' = [chan EXCEPT ![c] = Tail(@)]
  /\ got' = [got EXCEPT ![c] = @ + 1]
  /\ cpc' = "idle"
  /\ UNCHANGED <<context, gpc, strm, served, groupErr, closed, waiter,
                 refCount, curChIndex, drain, live, panicked>>

\* Mutant of NextAdvance: the loop does not increment curChIndex.
NextAdvanceSpins == cpc = "recv" /\ Exhausted(curChIndex) /\ UNCHANGED vars

\* The current channel is closed and empty: on to the next one.
NextAdvance ==
  /\ cpc = "recv" /\ Exhausted(curChIndex)
  /\ curChIndex' = curChIndex + 1
  /\ UNCHANGED <<context, gpc, strm, served, groupErr, buffers, waiter, cpc,
                 refCount, rec, drain, got, live, panicked>>

\* Mutant of NextEnds: the last channel counts as the end.
NextEndsBeforeLast ==
  /\ cpc = "recv" /\ curChIndex >= info.n
  /\ cpc' = "idle" /\ curChIndex' = info.n + 1
  /\ UNCHANGED <<context, gpc, strm, served, groupErr, buffers, waiter,
                 refCount, rec, drain, got, live, panicked>>

\* No channel is left: Next() returns false, and the caller may ask Err().
NextEnds ==
  /\ cpc = "recv" /\ curChIndex > info.n
  /\ cpc' = "idle"
  /\ UNCHANGED <<context, gpc, strm, served, groupErr, buffers, waiter,
                 refCount, curChIndex, rec, drain, got, live, panicked>>

Retain ==
  /\ cpc = "idle" /\ refCount < MaxRefs
  /\ refCount' = refCount + 1
  /\ UNCHANGED <<context, gpc, strm, served, groupErr, buffers, waiter, cpc,
                 curChIndex, rec, drain, got, live, panicked>>

\* Mutants of Release: the count is compared before it is decremented; the
\* context is not cancelled.
ReleaseComparesFirst ==
  /\ cpc = "idle"
  /\ refCount' = refCount - 1
  /\ IF refCount = 0
     THEN live' = live \ {rec} /\ cancelFn' = (info.n > 0) /\ cpc' = "drain"
     ELSE UNCHANGED <<live, cancelFn, cpc>>
  /\ UNCHANGED <<info, parent, gpc, strm, served, groupErr, buffers, waiter,
                 curChIndex, rec, drain, got, panicked>>

ReleaseWithoutCancel ==
  /\ cpc = "idle"
  /\ refCount' = refCount - 1
  /\ IF refCount = 1
     THEN live' = live \ {rec} /\ cpc' = "drain"
     ELSE UNCHANGED <<live, cpc>>
  /\ UNCHANGED <<context, gpc, strm, served, groupErr, buffers, waiter,
                 curChIndex, rec, drain, got, panicked>>

\* Release(): the last reference releases the current record, cancels the
\* context and goes on to drain the channels.  rec keeps its stale value.
Release ==
  /\ cpc = "idle"
  /\ refCount' = refCount - 1
  /\ IF refCount = 1
     THEN live' = live \ {rec} /\ cancelFn' = (info.n > 0) /\ cpc' = "drain"
     ELSE UNCHANGED <<live, cancelFn, cpc>>
  /\ UNCHANGED <<info, parent, gpc, strm, served, groupErr, buffers, waiter,
                 curChIndex, rec, drain, got, panicked>>

\* for rec := range ch { rec.Release() }
DrainRecv(c) ==
  /\ cpc = "drain" /\ Receives(drain, c)
  /\ live' = live \ {<<c, Head(chan[c])>>}
  /\ chan' = [chan EXCEPT ![c] = Tail(@)]
  /\ UNCHANGED <<context, gpc, strm, served, groupErr, closed, waiter, caller, panicked>>

DrainAdvance ==
  /\ cpc = "drain" /\ Exhausted(drain)
  /\ drain' = drain + 1
  /\ UNCHANGED <<context, gpc, strm, served, groupErr, buffers, waiter, cpc,
                 refCount, curChIndex, rec, got, live, panicked>>

\* Mutant of DrainEnds: Release returns without draining the last channel.
DrainEndsEarly ==
  /\ cpc = "drain" /\ drain >= info.n
  /\ cpc' = "released"
  /\ UNCHANGED <<context, gpc, strm, served, groupErr, buffers, waiter,
                 refCount, curChIndex, rec, drain, got, live, panicked>>

DrainEnds ==
  /\ cpc = "drain" /\ drain > info.n
  /\ cpc' = "released"
  /\ UNCHANGED <<context, gpc, strm, served, groupErr, buffers, waiter,
                 refCount, curChIndex, rec, drain, got, live, panicked>>

\* The caller's context is cancelled or times out.
CancelParent ==
  /\ Cancellable
  /\ ~parent
  /\ cpc \notin {"new", "failed"}
  /\ parent' = TRUE
  /\ UNCHANGED <<info, cancelFn, gpc, strm, served, groupErr, buffers, waiter,
                 caller, live, panicked>>

-----------------------------------------------------------------------------
\* A step that needs the server's answer, and one that does not.
Fetch(e)     == DoGet(e) \/ StreamFails(e) \/ RdrNext(e) \/ RdrEof(e)
Goroutine(e) == Check(e) \/ CheckCancelled(e) \/ Send(e) \/ Return(e) \/ Exit(e)

\* What a call of the caller does once it has been made.
CallerRuns ==
  \/ \E c \in Eps : NextRecv(c) \/ DrainRecv(c)
  \/ NextAdvance \/ NextEnds \/ DrainAdvance \/ DrainEnds

\* The reader is gone, or was never made, and every goroutine has returned.
Stopped ==
  /\ cpc \in {"released", "failed"}
  /\ \A e \in Eps : gpc[e] \in {"unborn", "done"}
  /\ wpc \in {"unborn", "done"}

Next ==
  \/ /\ ~panicked
     /\ \/ NewRecordReaderFails \/ NewRecordReader
        \/ \E e \in Eps : Fetch(e) \/ Goroutine(e)
        \/ Wait \/ CloseLast
        \/ NextCall \/ Retain \/ Release \/ CallerRuns
        \/ CancelParent
  \/ Stopped /\ UNCHANGED vars

Spec == Init /\ [][Next]_vars

\* Go runs every goroutine that can run, and a gRPC call whose context is
\* cancelled returns with an error.
SchedulerFairness ==
  /\ \A e \in Endpoint :
       /\ WF_vars(~panicked /\ e \in Eps /\ Goroutine(e))
       /\ WF_vars(~panicked /\ e \in Eps /\ Cancelled /\ StreamFails(e))
  /\ WF_vars(~panicked /\ (Wait \/ CloseLast))
  /\ WF_vars(~panicked /\ CallerRuns)

\* Moreover the server answers: a doGet and a stream read return.
ServerFairness == \A e \in Endpoint : WF_vars(~panicked /\ e \in Eps /\ Fetch(e))

FairSpec == Spec /\ SchedulerFairness

-----------------------------------------------------------------------------
(* Properties.                                                             *)

\* The reader struct, its goroutines and its channels hold what
\* record_reader.go can put there: counters stay within what was served and
\* retained, and every control state is one of the code's.
TypeOK ==
  /\ info \in Infos
  /\ cpc \in {"new", "failed", "idle", "recv", "drain", "released"}
  /\ gpc \in [Endpoint -> {"unborn", "doGet", "next", "check", "send",
                           "return", "exit", "done"}]
  /\ wpc \in {"unborn", "wait", "close", "done"}
  /\ strm \in [Endpoint -> {"open", "eof", "failed"}]
  /\ served \in [Endpoint -> 0..MaxRecords]
  /\ chan \in [Endpoint -> Seq(Nat)]
  /\ closed \in [Endpoint -> BOOLEAN]
  /\ groupErr \in BOOLEAN
  /\ parent \in BOOLEAN
  /\ cancelFn \in BOOLEAN
  /\ err \in BOOLEAN
  /\ refCount \in 0..MaxRefs
  /\ curChIndex \in Nat \ {0}
  /\ rec \in (Endpoint \X Nat) \cup {NoRec}
  /\ drain \in Nat \ {0}
  /\ got \in [Endpoint -> Nat]
  /\ live \subseteq Endpoint \X (1..MaxRecords)
  /\ panicked \in BOOLEAN

\* The caller's last Next() returned false.
AtEnd == cpc = "idle" /\ curChIndex > info.n

\* Everything endpoint e's stream held was handed to the caller.
Complete(e) == strm[e] = "eof" /\ got[e] = served[e]

\* Next hands out an endpoint's records one after the other with no gap and
\* no repetition, and never goes back to an endpoint after a later one,
\* whatever the order in which the goroutines run (chs, curChIndex).
InOrder ==
  [][rec' # rec /\ rec' # NoRec =>
       /\ rec'[2] = got[rec'[1]] + 1
       /\ \A d \in Endpoint : d > rec'[1] => got[d] = 0]_vars

\* When Next returns false and Err() is nil, the caller has every record of
\* every endpoint, provided that the caller's own context was not cancelled:
\* a goroutine that fails or is cut short by another one's failure always
\* shows up in reader.err.
CompleteOrError ==
  AtEnd /\ ~err /\ ~parent => \A e \in Eps : Complete(e)

\* When Next returns false reader.err has its final value: it is set exactly
\* when some endpoint's goroutine failed (the last channel is closed only
\* after group.Wait()).
FailureReported ==
  AtEnd => (err <=> \E e \in Eps : strm[e] = "failed")

\* A record of a partition is handed out only after everything fetched from
\* the partitions before it has been handed out and their goroutines have
\* returned, although all partitions are fetched in parallel.
PartitionOrder ==
  \A e \in Eps, d \in Eps :
    d < e /\ got[e] > 0 =>
      gpc[d] \in {"exit", "done"} /\ (cpc # "drain" => chan[d] = <<>>)

\* The places record <<e, k>> can be in: the channel, the goroutine that is
\* about to send it, and reader.rec.
Queued(e, k)  == \E i \in 1..Len(chan[e]) : chan[e][i] = k
InHand(e, k)  == gpc[e] = "send" /\ served[e] = k
Current(e, k) == rec = <<e, k>> /\ cpc \notin {"drain", "released"}

\* A record that was retained and not yet released is in exactly one place,
\* and a record in one of the places was retained and is not yet released:
\* none is released twice, used after its release, or forgotten.
Ownership ==
  \A e \in Endpoint, k \in 1..MaxRecords :
    /\ <<e, k>> \in live <=> Queued(e, k) \/ InHand(e, k) \/ Current(e, k)
    /\ ~(Queued(e, k) /\ InHand(e, k))
    /\ ~(Queued(e, k) /\ Current(e, k))
    /\ ~(InHand(e, k) /\ Current(e, k))

\* When the last Release() returns, every goroutine has returned and every
\* record has been released.
ReleaseIsFinal ==
  cpc = "released" => live = {} /\ Stopped

\* No send on a closed channel, no close of a closed or nil channel.
NoPanic == ~panicked

\* Release() returns although goroutines may be blocked in a send, or in a
\* gRPC call, when it starts: it needs nothing from the server.
ReleaseReturns == cpc = "drain" ~> cpc = "released"

\* Next() returns, provided that the server answers.
NextReturns == ServerFairness => (cpc = "recv" ~> cpc = "idle")

-----------------------------------------------------------------------------
(* The reader implements RecordStream.                                     *)

Delivered == {e \in Endpoint : got[e] > 0}

\* The partition of the last record handed out.
LastDelivered ==
  IF Delivered = {} THEN 0 ELSE CHOOSE e \in Delivered : \A d \in Delivered : d <= e

Verdict ==
  IF parent THEN "cancelled"
  ELSE CASE cpc = "new" -> "reading"
         [] cpc = "failed" -> "refused"
         [] cpc \in {"drain", "released"} -> "released"
         [] cpc \in {"idle", "recv"} /\ curChIndex <= info.n -> "reading"
         [] cpc \in {"idle", "recv"} /\ curChIndex > info.n ->
              IF err THEN "error" ELSE "complete"

Stream == INSTANCE RecordStream WITH
  Partitions <- MaxEndpoints,
  verdict <- Verdict,
  at <- IF parent THEN 0 ELSE LastDelivered,
  count <- IF parent \/ LastDelivered = 0 THEN 0 ELSE got[LastDelivered],
  lost <- ~parent /\ \E i \in Eps : i < curChIndex /\ ~Complete(Chs(i))

\* Until the caller cancels its own context, the reader behaves like the
\* ordered stream of RecordStream: order, no repetition, and no silent
\* truncation.
ImplementsStream == Stream!Spec
=============================================================================
