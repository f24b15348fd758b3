------------------------------- MODULE Download -------------------------------
(***************************************************************************)
(* A streamed download (internal/cache): download chooses the              *)
(* representation and resolves the requested range, a reader goes through  *)
(* the parts (partsReadCloser, rangedPartsReadCloser), and                 *)
(* leasedReadCloser couples it with the reader lease, which a goroutine    *)
(* renews; if it cannot, it closes the stream under the reader's hands.    *)
(*                                                                         *)
(* The handler, which copies until an end or an error and then closes, and *)
(* the renewal are the processes.  A step is what happens under one lock   *)
(* of the mutex, or one call of storage or of the lifecycle.  A byte of    *)
(* the archive is its position in it, and a read returns at most one.      *)
(***************************************************************************)
EXTENDS Integers, Sequences, SequencesExt, FiniteSetsExt

CONSTANTS
  Sizes,   \* part sizes an archive may have
  Ranges   \* range lists a client may ask for; <<>> is the whole archive

Kind == {"closed", "open", "suffix"}

(* What parseDownloadRanges accepts: <<kind, first, last>>; a suffix has   *)
(* its length in the place of the first position.                          *)
ByteRange ==
  {range \in Kind \X Nat \X Nat : range[1] = "closed" => range[2] <= range[3]}

ASSUME DownloadAssumption ==
  /\ \A sizes \in Sizes : sizes \in Seq(Nat)
  /\ \A list \in Ranges : list \in Seq(ByteRange)

VARIABLES
  archive,    \* the location, and whether its objects are still there
  ranges,     \* what is asked for
  lease,
  handler,    \* the handler's goroutine, with its locals
  renewal,    \* that of leasedReadCloser.renew
  leaseErr,
  reader,     \* the part reader
  open,       \* streams of objects that were opened and not closed
  delivered   \* the bytes the client got

vars == <<archive, ranges, lease, handler, renewal, leaseErr, reader, open,
          delivered>>

None == -1    \* no stream; streams are named by their part
Merged == 0   \* a merged object is read as if it were the only part

Stage == {"start", "resolve", "index", "delayed", "streaming", "select",
          "open", "install", "read", "finish", "returned", "closing",
          "closeStream", "release", "done"}
Outcome == {"none", "complete", "notFound", "unsatisfiable", "failed"}
Error == {"none", "eof", "failed"}

TypeOK ==
  /\ archive.sizes \in Sizes /\ ranges \in Ranges
  /\ {archive.merged, archive.recorded, archive.gone, leaseErr} \subseteq BOOLEAN
  /\ lease \in {"none", "live", "lost", "released"}
  /\ handler.at \in Stage
  /\ handler.outcome \in Outcome
  /\ handler.stream \in {None} \cup Nat
  /\ handler.n \in {0, 1} /\ handler.err \in Error
  /\ renewal.at \in {"none", "running", "closing", "closeStream", "done"}
  /\ renewal.cancelled \in BOOLEAN
  /\ {reader.index, reader.offset, reader.remaining, reader.pos} \subseteq Nat
  /\ {reader.raw, reader.ranged, reader.closed} \subseteq BOOLEAN
  /\ reader.current \in {None} \cup Nat
  /\ open \subseteq Nat
  /\ delivered \in Seq(Nat)

NoReader == [raw |-> FALSE, ranged |-> FALSE, closed |-> FALSE, index |-> 0,
             offset |-> 0, remaining |-> 0, current |-> None, count |-> 0,
             from |-> 0, pos |-> 0]

Init ==
  /\ \E sizes \in Sizes, merged, recorded \in BOOLEAN :
       /\ merged => Len(sizes) >= 2
       /\ archive = [sizes |-> sizes, merged |-> merged,
                     recorded |-> recorded, gone |-> FALSE]
  /\ ranges \in Ranges
  /\ lease = "none"
  /\ handler = [at |-> "start", outcome |-> "none", stream |-> None,
                n |-> 0, byte |-> 0, err |-> "none"]
  /\ renewal = [at |-> "none", cancelled |-> FALSE, stream |-> None]
  /\ leaseErr = FALSE
  /\ reader = NoReader
  /\ open = {} /\ delivered = <<>>

-----------------------------------------------------------------------------
(* Part boundaries. *)

Parts == Len(archive.sizes)
Objects == IF archive.merged THEN 1 ELSE Parts   \* that storage has

Ends[i \in 0 .. Parts] == IF i = 0 THEN 0 ELSE Ends[i - 1] + archive.sizes[i]

Total == Ends[Parts]

(* The part that holds a position, and the offset in it. *)
Part(position) == Min({i \in 0 .. Parts - 1 : Ends[i + 1] > position} \cup {Parts})
Offset(position) ==
  IF Part(position) = Parts THEN 0 ELSE position - Ends[Part(position)]

-----------------------------------------------------------------------------
(* resolveByteRanges: the first range that can be satisfied. *)

Unsatisfiable(range) ==
  IF range[1] = "suffix" THEN range[2] = 0 \/ Total = 0
                         ELSE range[2] >= Total

Resolved(range) ==
  CASE range[1] = "closed" ->
         [offset |-> range[2],
          count |-> Min({range[3], Total - 1}) - range[2] + 1]
    [] range[1] = "open" ->
         [offset |-> range[2], count |-> Total - range[2]]
    [] range[1] = "suffix" ->
         [offset |-> Total - Min({range[2], Total}),
          count |-> Min({range[2], Total})]

Satisfiable == {i \in DOMAIN ranges : ~Unsatisfiable(ranges[i])}
Selected == Resolved(ranges[Min(Satisfiable)])

-----------------------------------------------------------------------------
(* download, until there is a stream. *)

Fails(outcome) ==
  /\ lease' = "released"
  /\ handler' = [handler EXCEPT !.at = "done", !.outcome = outcome]
  /\ UNCHANGED <<renewal, reader, open>>

(* AcquireReader, or no entry leads to a servable location. *)
AcquireReader ==
  /\ handler.at = "start"
  /\ \/ /\ lease' = "live"
        /\ handler' = [handler EXCEPT !.at = "resolve"]
     \/ /\ UNCHANGED lease
        /\ handler' = [handler EXCEPT !.at = "done", !.outcome = "notFound"]
  /\ UNCHANGED <<archive, ranges, renewal, leaseErr, reader, open, delivered>>

(* newLeasedReadCloser of a reader. *)
Streams(r) ==
  /\ handler' = [handler EXCEPT !.at = "streaming"]
  /\ renewal' = [renewal EXCEPT !.at = "running"]
  /\ reader' = r
  /\ UNCHANGED lease

(* The stream of one object.  *)
OpenObject(from, count) ==
  IF archive.gone
    THEN Fails("notFound")
    ELSE /\ Streams([NoReader EXCEPT !.raw = TRUE, !.current = Merged,
                                     !.from = from, !.count = count])
         /\ open' = open \cup {Merged}

PartsReader == Streams(NoReader) /\ UNCHANGED open

RangedPartsReader ==
  /\ Streams([NoReader EXCEPT !.ranged = TRUE,
                !.index = Part(Selected.offset),
                !.offset = Offset(Selected.offset),
                !.remaining = Selected.count])
  /\ UNCHANGED open

(* openMerged, openParts, and up to the index the ranged opens.  The size  *)
(* that is not recorded is that of the only object.                        *)
Unsized == Objects = 1 /\ ~archive.recorded

OpenWhole == IF archive.merged THEN OpenObject(0, Total) ELSE PartsReader

OpenRanges ==
  \/ Unsized /\ archive.gone /\ Fails("notFound")
  \/ /\ ~(Unsized /\ archive.gone)
     /\ \/ /\ archive.recorded \/ Objects <= 1
           /\ Satisfiable = {}
           /\ Fails("unsatisfiable")
        \/ Objects = 1 /\ Satisfiable # {} /\ OpenObject(Selected.offset, Selected.count)
        \/ /\ Objects # 1 /\ ~(Satisfiable = {} /\ (archive.recorded \/ Objects = 0))
           /\ handler' = [handler EXCEPT !.at = "index"]
           /\ UNCHANGED <<lease, renewal, reader, open>>

OpenStream ==
  /\ handler.at = "resolve"
  /\ IF ranges = <<>> THEN OpenWhole ELSE OpenRanges
  /\ UNCHANGED <<archive, ranges, leaseErr, delivered>>

OpenFails ==
  /\ handler.at \in {"resolve", "index", "delayed"}
  /\ Fails("failed")
  /\ UNCHANGED <<archive, ranges, leaseErr, delivered>>

(* cachedPartIndex: found in the cache, or loaded, which takes its time.    *)
GetPartIndex ==
  /\ handler.at = "index"
  /\ \/ /\ handler' = [handler EXCEPT !.at = "delayed"]
        /\ UNCHANGED <<lease, renewal, reader, open>>
     \/ Satisfiable = {} /\ Fails("unsatisfiable")
     \/ Satisfiable # {} /\ RangedPartsReader
  /\ UNCHANGED <<archive, ranges, leaseErr, delivered>>

(* RenewReader.  Fault: the index is enough.                               *)
RenewedAnyway == TRUE
Renewed == lease = "live"

(* InspectIndexedFolderSizes has answered; the lease is renewed.           *)
RenewReaderAfterDelay ==
  /\ handler.at = "delayed"
  /\ \/ archive.gone /\ Fails("notFound")
     \/ Satisfiable = {} /\ Fails("unsatisfiable")
     \/ Satisfiable # {} /\ ~Renewed /\ Fails("notFound")
     \/ Satisfiable # {} /\ Renewed /\ RangedPartsReader
  /\ UNCHANGED <<archive, ranges, leaseErr, delivered>>

-----------------------------------------------------------------------------
(* leasedReadCloser.Read and the Read of the reader under it. *)

Go(stage) == handler' = [handler EXCEPT !.at = stage]

(* What the reader under it returns: n bytes and an error. *)
Returns(n, byte, err) ==
  handler' = [handler EXCEPT !.at = "returned", !.n = n, !.byte = byte,
                             !.err = err]

(* Copying ends, and DownloadCacheEntry closes the stream. *)
CopyEnds(outcome) ==
  handler' = [handler EXCEPT !.at = "closing", !.outcome = outcome]

Read ==
  /\ handler.at = "streaming"
  /\ \/ leaseErr /\ CopyEnds("failed")
     \/ ~leaseErr /\ ~reader.raw /\ Go("select")
     \/ /\ ~leaseErr /\ reader.raw
        /\ handler' = [handler EXCEPT !.at = "read", !.stream = Merged]
     \/ CopyEnds("failed")   \* the client is gone
  /\ UNCHANGED <<archive, ranges, lease, renewal, leaseErr, reader, open,
                 delivered>>

(* What the next part has that is still wanted. *)
Available == archive.sizes[reader.index + 1] - reader.offset
Count == IF reader.ranged THEN Min({Available, reader.remaining}) ELSE Available

Skippable == reader.ranged /\ Available <= 0

(* currentStream, to the first unlock: where the next byte is to be had.   *)
SelectPart ==
  LET exhausted == reader.index >= Parts IN
  /\ handler.at = "select"
  /\ CASE reader.closed -> Returns(0, 0, "failed") /\ UNCHANGED reader
       [] ~reader.closed /\ reader.current # None ->
            /\ handler' = [handler EXCEPT !.at = "read", !.stream = reader.current]
            /\ UNCHANGED reader
       [] ~reader.closed /\ reader.current = None
            /\ (IF reader.ranged THEN reader.remaining = 0 ELSE exhausted) ->
            Returns(0, 0, "eof") /\ UNCHANGED reader
       [] ~reader.closed /\ reader.current = None /\ reader.ranged
            /\ reader.remaining > 0 /\ exhausted ->
            Returns(0, 0, "failed") /\ UNCHANGED reader
       [] OTHER ->
            IF Skippable
              THEN /\ reader' = [reader EXCEPT !.index = @ + 1, !.offset = 0]
                   /\ UNCHANGED handler
              ELSE Go("open") /\ UNCHANGED reader
  /\ UNCHANGED <<archive, ranges, lease, renewal, leaseErr, open, delivered>>

(* The part is opened while the mutex is free.                             *)
OpenPart ==
  /\ handler.at = "open"
  /\ \/ /\ ~archive.gone
        /\ handler' = [handler EXCEPT !.at = "install", !.stream = reader.index]
        /\ open' = open \cup {reader.index}
     \/ Returns(0, 0, "failed") /\ UNCHANGED open
  /\ UNCHANGED <<archive, ranges, lease, renewal, leaseErr, reader, delivered>>

(* Fault: nobody looks whether the reader was closed since.                *)
NeverClosed == FALSE
ClosedMeanwhile == reader.closed

InstallStream ==
  /\ handler.at = "install"
  /\ IF ClosedMeanwhile
       THEN /\ open' = open \ {handler.stream}
            /\ Returns(0, 0, "failed")
            /\ UNCHANGED reader
       ELSE /\ reader' = [reader EXCEPT !.current = handler.stream,
                             !.from = Ends[reader.index] + reader.offset,
                             !.count = Count, !.pos = 0,
                             !.index = @ + 1, !.offset = 0]
            /\ Go("read")
            /\ UNCHANGED open
  /\ UNCHANGED <<archive, ranges, lease, renewal, leaseErr, delivered>>

AtEnd == reader.pos = reader.count

(* stream.Read, of the stream that was current a moment ago: a byte; that  *)
(* of a whole object may come with the end, that of a range does not.      *)
ReadStream ==
  LET Answers(n, byte, err) ==
        handler' = [handler EXCEPT
          !.at = IF err = "eof" /\ ~reader.raw THEN "finish" ELSE "returned",
          !.n = n, !.byte = byte, !.err = err]
      byte == reader.from + reader.pos
      last == reader.pos + 1 = reader.count
  IN
  /\ handler.at = "read"
  /\ \/ Answers(0, 0, "failed") /\ UNCHANGED reader
     \/ /\ handler.stream \in open /\ AtEnd
        /\ Answers(0, 0, "eof") /\ UNCHANGED reader
     \/ /\ handler.stream \in open /\ ~AtEnd
        /\ reader' = [reader EXCEPT !.pos = @ + 1]
        /\ \/ Answers(1, byte, "none")
           \/ last /\ ranges = <<>> /\ Answers(1, byte, "eof")
  /\ UNCHANGED <<archive, ranges, lease, renewal, leaseErr, open, delivered>>

(* The next part follows if this one had nothing more.                     *)
FinishPart ==
  /\ handler.at = "finish"
  /\ IF reader.current # handler.stream
       THEN UNCHANGED <<reader, open>>
       ELSE /\ reader' = [reader EXCEPT !.current = None, !.remaining =
                             IF reader.ranged THEN @ - reader.count ELSE @]
            /\ open' = open \ {handler.stream}
  /\ IF handler.n > 0 THEN Returns(1, handler.byte, "none")
       ELSE \/ Go("select")
            \/ Returns(0, 0, "failed")   \* closing the part failed
  /\ UNCHANGED <<archive, ranges, lease, renewal, leaseErr, delivered>>

(* leasedReadCloser looks at the lease again, and the handler writes.      *)
ReadReturns ==
  LET err == IF leaseErr THEN IF handler.n > 0 THEN "none" ELSE "failed"
                         ELSE handler.err
  IN
  /\ handler.at = "returned"
  /\ delivered' = IF handler.n > 0 THEN Append(delivered, handler.byte)
                                   ELSE delivered
  /\ CASE err = "none"   -> Go("streaming")
       [] err = "eof"    -> CopyEnds("complete")
       [] err = "failed" -> CopyEnds("failed")
  /\ UNCHANGED <<archive, ranges, lease, renewal, leaseErr, reader, open>>

-----------------------------------------------------------------------------
(* leasedReadCloser.Close *)

(* Fault: the renewal is waited for, and nobody told it.                   *)
LeftRunning == renewal
Cancelled == [renewal EXCEPT !.cancelled = TRUE]

CancelRenewal ==
  /\ handler.at = "closing"
  /\ renewal' = Cancelled
  /\ Go("closeStream")
  /\ UNCHANGED <<archive, ranges, lease, leaseErr, reader, open, delivered>>

(* renewDone: from here on the handler is alone with the stream.           *)
CloseStream ==
  /\ handler.at = "closeStream"
  /\ renewal.at = "done"
  /\ open' = IF reader.closed THEN open ELSE open \ {reader.current}
  /\ reader' = [reader EXCEPT !.closed = TRUE, !.current = None]
  /\ Go("release")
  /\ UNCHANGED <<archive, ranges, lease, renewal, leaseErr, delivered>>

ReleaseLease ==
  /\ handler.at = "release"
  /\ lease' = "released"
  /\ Go("done")
  /\ UNCHANGED <<archive, ranges, renewal, leaseErr, reader, open, delivered>>

-----------------------------------------------------------------------------
(* leasedReadCloser.renew.  A renewal that succeeds changes nothing here.  *)

RenewFails ==
  /\ renewal.at = "running" /\ ~renewal.cancelled
  /\ renewal' = [renewal EXCEPT !.at = "closing"]
  /\ leaseErr' = TRUE
  /\ UNCHANGED <<archive, ranges, lease, handler, reader, open, delivered>>

(* The lock of Close, then, outside of it, the Close of what was current.  *)
RenewalTakesStream ==
  /\ renewal.at = "closing"
  /\ renewal' = [renewal EXCEPT !.at = "closeStream", !.stream = reader.current]
  /\ reader' = [reader EXCEPT !.closed = TRUE, !.current = None]
  /\ UNCHANGED <<archive, ranges, lease, handler, leaseErr, open, delivered>>

RenewalClosesStream ==
  /\ renewal.at = "closeStream"
  /\ open' = open \ {renewal.stream}
  /\ renewal' = [renewal EXCEPT !.at = "done"]
  /\ UNCHANGED <<archive, ranges, lease, handler, leaseErr, reader, delivered>>

RenewalStops ==
  /\ renewal.at = "running" /\ renewal.cancelled
  /\ renewal' = [renewal EXCEPT !.at = "done"]
  /\ UNCHANGED <<archive, ranges, lease, handler, leaseErr, reader, open,
                 delivered>>

-----------------------------------------------------------------------------
(* The world. *)

(* Not within one call of storage, but while an index is waited for, or    *)
(* when renewing fails long enough.                                        *)
LeaseExpires ==
  /\ lease = "live"
  /\ handler.at = "delayed" \/ renewal.at # "none"
  /\ lease' = "lost"
  /\ UNCHANGED <<archive, ranges, handler, renewal, leaseErr, reader, open,
                 delivered>>

(* An open stream may be read to its end for all that. *)
ObjectsDeleted ==
  /\ lease = "lost" /\ ~archive.gone
  /\ archive' = [archive EXCEPT !.gone = TRUE]
  /\ UNCHANGED <<ranges, lease, handler, renewal, leaseErr, reader, open,
                 delivered>>

Terminating == handler.at = "done" /\ UNCHANGED vars

Handler ==
  \/ AcquireReader \/ OpenStream \/ OpenFails \/ GetPartIndex
  \/ RenewReaderAfterDelay \/ Read \/ SelectPart \/ OpenPart \/ InstallStream
  \/ ReadStream \/ FinishPart \/ ReadReturns \/ CancelRenewal \/ CloseStream
  \/ ReleaseLease

Closing == RenewalTakesStream \/ RenewalClosesStream \/ RenewalStops

Next == Handler \/ Closing \/ RenewFails \/ LeaseExpires \/ ObjectsDeleted
        \/ Terminating

Spec == Init /\ [][Next]_vars

-----------------------------------------------------------------------------
(* Properties *)

(* The positions a range denotes, as the header that asked for it says.    *)
Denoted(range) ==
  {p \in 0 .. Total - 1 :
     CASE range[1] = "closed" -> range[2] <= p /\ p <= range[3]
       [] range[1] = "open"   -> range[2] <= p
       [] range[1] = "suffix" -> Total - p <= range[2]}

Answerable == {i \in DOMAIN ranges : Denoted(ranges[i]) # {}}

Wanted ==
  IF ranges = <<>> THEN 0 .. Total - 1
  ELSE IF Answerable = {} THEN {} ELSE Denoted(ranges[Min(Answerable)])

(* Whatever the sizes of the parts, empty ones included, the representation*)
(* and the lease's fate: the client gets, in order and without gap, the    *)
(* bytes of the first range that denotes any, or of the whole archive; a   *)
(* copy that ends without an error got them all, and 416 is answered only  *)
(* if no range denotes a byte.                                             *)
DeliversSelection ==
  /\ \A i \in DOMAIN delivered :
       /\ delivered[i] \in Wanted
       /\ {p \in Wanted : p < delivered[i]} = {delivered[j] : j \in 1 .. i - 1}
  /\ handler.outcome = "complete" => Wanted = {delivered[i] : i \in DOMAIN delivered}
  /\ handler.outcome = "unsatisfiable" => ranges # <<>> /\ Answerable = {}

(* Close of a reader may come between any two locks of Read: by the time   *)
(* the lease is given up no stream is open, the renewal has ended and      *)
(* nothing reads a stream after its lease was given up.                    *)
DownloadInv ==
  /\ TypeOK
  /\ lease = "released" => open = {} /\ renewal.at \in {"none", "done"}
  /\ handler.at = "done" => lease \in {"none", "released"}
  /\ reader.current # None => reader.current \in open

(* A download that had to wait for its index starts to stream only if the  *)
(* lease outlived the wait: RenewReader after cachedPartIndex.             *)
FreshLeaseStreams ==
  [][handler.at \in {"resolve", "index", "delayed"} /\ handler'.at = "streaming"
       => lease = "live"]_vars
=============================================================================
