------------------------------ MODULE S3Storage ------------------------------
(***************************************************************************)
(* The S3 adapter (internal/storage/s3.go): one call at a time on the      *)
(* objects under the prefix of a folder, while others put and remove       *)
(* objects there.  Calls list the folder page by page, delete it, compose  *)
(* an object of others, or upload one.  Each step is one request; its      *)
(* answer may be an error, and the error may hide that it was done.        *)
(*                                                                         *)
(* A sane server lists what the bucket has after the continuation token;   *)
(* a broken one lists any keys, with a token of its own after each token.  *)
(* Objects are 1..Keys in listing order, and one more that is outside the  *)
(* folder.  Every object has one byte where sizes are summed.              *)
(***************************************************************************)
EXTENDS Integers, FiniteSets, Sequences, FiniteSetsExt, SequencesExt

CONSTANTS
  Keys,                        \* number of objects under the prefix
  PageSize,                    \* keys in a page of a listing
  NoProgressLimit, MaxPages,   \* s3DeleteNoProgressLimit, s3DeleteMaxPagesPerCall
  MaxBytes,                    \* math.MaxInt64
  MinPart, MaxPart, MaxParts,  \* limits of multipart uploads
  MaxSize, MaxSources,         \* bound: sizes and number of the sources of a composed object
  MaxChanges,                  \* bound: objects put and removed by others
  None

Key == 1..Keys
Outside == Keys + 1
Start == 0     \* before the first key
Token == 0..Keys + 1
Listed == Key \cup {Outside}   \* what a server may answer

ASSUME S3Assumption ==
  /\ Keys \in Nat /\ PageSize \in Nat \ {0} /\ MaxPart \in Nat \ {0}
  /\ {NoProgressLimit, MaxPages, MaxBytes, MinPart, MaxParts, MaxSize, MaxSources,
      MaxChanges} \subseteq Nat

VARIABLES
  server,    \* [sane, next: the token a broken server answers after each token]
  bucket,    \* the objects
  call,      \* the call's local variables
  open,      \* multipart uploads the server keeps
  composed,  \* the parts of the object the last compose call published
  mishap,    \* an abort failed, an identifier was lost, or the process ended
  lasting,   \* objects that were in the bucket all the time since the call began
  ever,      \* objects that were in the bucket at some time since then
  changes

s3Vars == <<server, bucket, call, open, composed, mishap, lasting, ever, changes>>
multipart == <<open, composed, mishap>>
environment == <<server, changes>>

Bucket(new) == /\ bucket' = new
               /\ lasting' = lasting \cap new
               /\ ever' = ever \cup new
SameBucket == UNCHANGED <<bucket, lasting, ever>>
Answer(result) == call' = [call EXCEPT !.pc = result]
Results == {"ok", "error", "cyclic", "missing", "notfound", "unsupported", "crashed"}
Running == call.pc \notin Results

-----------------------------------------------------------------------------
(* cycleDetector: Brent's algorithm.                                        *)

NewDetector == [checkpoint |-> None, power |-> 1, distance |-> 0, initialized |-> FALSE]
Repeats(d, value) == d.initialized /\ value = d.checkpoint
(* Fault: the checkpoint is never moved. *)
ObserveFirst(d, value) == [d EXCEPT !.checkpoint = IF d.initialized THEN @ ELSE value,
                                    !.initialized = TRUE]
Observe(d, value) ==
  IF ~d.initialized THEN [d EXCEPT !.checkpoint = value, !.initialized = TRUE]
  ELSE IF d.distance + 1 = d.power
       THEN [d EXCEPT !.checkpoint = value, !.power = 2 * @, !.distance = 0]
       ELSE [d EXCEPT !.distance = @ + 1]

-----------------------------------------------------------------------------
(* walkObjects with the visitor of inspectIndexedFolder.                    *)

NewWalk(expected) == [op |-> "walk", pc |-> "list", token |-> Start, cycles |-> NewDetector,
                      expected |-> expected, seen |-> {}, bytes |-> 0]

\* The first PageSize of a set of keys.
FirstPage(keys) == {k \in keys : Cardinality({j \in keys : j < k}) < PageSize}

AnyPage == {page \in SUBSET Listed : Cardinality(page) <= PageSize}

\* A page and what follows it: [keys, more, token], where None is no token.
SanePage == LET keys == {k \in bucket \cap Key : k > call.token}
                page == FirstPage(keys)
            IN [keys |-> page, more |-> page # keys,
                token |-> IF page = {} THEN None ELSE Max(page)]
BrokenPages == {[keys |-> page, more |-> server.next[call.token] # Start,
                 token |-> server.next[call.token]] : page \in AnyPage}
ListingPages == IF server.sane THEN {SanePage} ELSE BrokenPages

(* Fault: an object that a listing repeats is counted again. *)
IndexedTwice(keys) == {k \in keys : k <= call.expected}
\* indexedFolderAccumulator.add: an index counts once, other names do not.
Indexed(keys) == {k \in keys : k <= call.expected} \ call.seen
IndexedResult(seen) == IF \A k \in 1..call.expected : k \in seen THEN "ok" ELSE "missing"

ListObjects ==
  /\ call.op = "walk" /\ call.pc = "list"
  /\ \E page \in ListingPages :
       LET seen == call.seen \cup Indexed(page.keys)
           bytes == call.bytes + Cardinality(Indexed(page.keys))
       IN IF Outside \in page.keys \/ bytes > MaxBytes
          THEN Answer("error")
          ELSE IF ~page.more
          THEN call' = [call EXCEPT !.seen = seen, !.bytes = bytes, !.pc = IndexedResult(seen)]
          ELSE IF page.token = None
          THEN Answer("error")
          ELSE IF Repeats(call.cycles, page.token)
          THEN Answer("cyclic")
          ELSE call' = [call EXCEPT !.seen = seen, !.bytes = bytes, !.token = page.token,
                                    !.cycles = Observe(@, page.token)]
  /\ SameBucket /\ UNCHANGED <<multipart, environment>>

-----------------------------------------------------------------------------
(* deleteByPrefix: pages from the start of the listing until it is empty.   *)

NewDelete == [op |-> "delete", pc |-> "list", page |-> {}, previous |-> None, stuck |-> 0,
              cycles |-> NewDetector, number |-> 0]

ListForDeletion ==
  /\ call.op = "delete" /\ call.pc = "list" /\ call.number < MaxPages
  /\ \E page \in (IF server.sane THEN {FirstPage(bucket \cap Key)} ELSE AnyPage),
        more \in BOOLEAN :
       /\ server.sane => more = (page # bucket \cap Key)
       /\ IF Outside \in page \/ (page = {} /\ more)
          THEN Answer("error")
          ELSE IF page = {}
          THEN Answer("ok")
          ELSE IF page = call.previous
          THEN IF call.stuck + 1 = NoProgressLimit
               THEN Answer("error")
               ELSE call' = [call EXCEPT !.pc = "delete", !.page = page, !.stuck = @ + 1]
          ELSE IF Repeats(call.cycles, page)
          THEN Answer("cyclic")
          ELSE call' = [call EXCEPT !.pc = "delete", !.page = page, !.previous = page, !.stuck = 0,
                                    !.cycles = Observe(@, page)]
  /\ SameBucket /\ UNCHANGED <<multipart, environment>>

\* DeleteObjects may remove a part of the page; what it reports then ends the call.
DeletePage ==
  /\ call.op = "delete" /\ call.pc = "delete"
  /\ \E removed \in SUBSET call.page :
       /\ Bucket(bucket \ removed)
       /\ \/ Answer("error")
          \/ /\ server.sane => removed = call.page
             /\ call' = [call EXCEPT !.pc = "list", !.page = {}, !.number = @ + 1]
  /\ UNCHANGED <<multipart, environment>>

ReachWorkLimit ==
  /\ call.op = "delete" /\ call.pc = "list" /\ call.number = MaxPages
  /\ Answer("error")
  /\ SameBucket /\ UNCHANGED <<multipart, environment>>

-----------------------------------------------------------------------------
(* ComposeObjects: sources 1..Len(sizes) become the parts of a new object.  *)

NewCompose(sizes) == [op |-> "compose", pc |-> "head", sizes |-> sizes, heads |-> 0,
                      source |-> 1, number |-> 1, copied |-> <<>>, cause |-> "error"]

Ceiling(n, d) == (n + d - 1) \div d

(* Fault: the bytes that do not divide are left out. *)
SplitEven(source, size) ==
  LET count == Ceiling(size, MaxPart)
  IN [i \in 1..count |-> [source |-> source, start |-> (i - 1) * (size \div count),
                          size |-> size \div count]]
\* A source is split into parts that differ by one byte at most.
Split(source, size) ==
  LET count == Ceiling(size, MaxPart)
      base == size \div count
      extra == size % count
  IN [i \in 1..count |->
        [source |-> source,
         start |-> (i - 1) * base + Min({i - 1, extra}),
         size |-> base + (IF i - 1 < extra THEN 1 ELSE 0)]]

\* planS3ComposeParts: the parts of the sources one after the other.
PartsOf(sizes, s) == Split(s, sizes[s])
Final(sizes, s, i) == s = Len(sizes) /\ i = Len(PartsOf(sizes, s))
Lengths(sizes) == [s \in DOMAIN sizes |-> Len(PartsOf(sizes, s))]
Before(sizes, source) == MapThenSumSet(LAMBDA s : Lengths(sizes)[s], 1..source - 1)
Planned(sizes) == Before(sizes, Len(sizes) + 1)
Plannable(sizes) ==
  /\ sizes # <<>> /\ Len(sizes) <= MaxParts
  /\ \A s \in DOMAIN sizes : sizes[s] > 0
  /\ Planned(sizes) <= MaxParts
  /\ \A s \in DOMAIN sizes : \A i \in DOMAIN PartsOf(sizes, s) :
       Final(sizes, s, i) \/ PartsOf(sizes, s)[i].size >= MinPart

\* HeadObject of every source, in order.  What the server does not implement is told
\* apart from what failed (isS3ComposeUnsupported).
HeadSource ==
  /\ call.op = "compose" /\ call.pc = "head"
  /\ IF call.sizes = <<>> \/ Len(call.sizes) > MaxParts
     THEN Answer("unsupported")
     ELSE \/ /\ call.heads + 1 \notin bucket
             /\ Answer("notfound")
          \/ Answer("error") \/ Answer("unsupported")
          \/ /\ call.heads + 1 \in bucket
             /\ IF call.heads + 1 < Len(call.sizes)
                THEN call' = [call EXCEPT !.heads = @ + 1]
                ELSE Answer(IF Plannable(call.sizes) THEN "create" ELSE "unsupported")
  /\ SameBucket /\ UNCHANGED <<multipart, environment>>

\* An upload whose identifier was lost cannot be aborted.
CreateMultipartUpload ==
  /\ call.pc = "create"
  /\ \/ open' = TRUE /\ Answer("copy") /\ UNCHANGED mishap
     \/ open' = TRUE /\ mishap' = TRUE /\ Answer("error")
     \/ /\ Answer("error") \/ (call.op = "compose" /\ Answer("unsupported"))
        /\ UNCHANGED <<open, mishap>>
  /\ SameBucket /\ UNCHANGED <<composed, environment>>

\* The call fails with the error that made it abort the upload.
Causes == {"error", "unsupported"}
Failing(cause) == call' = [call EXCEPT !.pc = "abort", !.cause = cause]

\* The server refuses to copy more than MaxPart bytes, and what is not there.
NextPart == PartsOf(call.sizes, call.source)[call.number]
UploadPartCopy ==
  /\ call.op = "compose" /\ call.pc = "copy"
  /\ LET last == call.number = Len(PartsOf(call.sizes, call.source))
     IN \/ /\ NextPart.source \in bucket /\ NextPart.size <= MaxPart
           /\ call' = [call EXCEPT
                !.copied = Append(@, NextPart),
                !.source = IF last THEN @ + 1 ELSE @,
                !.number = IF last THEN 1 ELSE @ + 1,
                !.pc = IF Final(call.sizes, call.source, call.number) THEN "complete" ELSE "copy"]
        \/ \E cause \in Causes : Failing(cause)
  /\ SameBucket /\ UNCHANGED <<multipart, environment>>

\* The server refuses an object of too many parts, and small parts before the last.
Legal(parts) == /\ Len(parts) <= MaxParts
                /\ \A i \in 1..Len(parts) - 1 : parts[i].size >= MinPart

CompleteMultipartUpload ==
  /\ call.op = "compose" /\ call.pc = "complete"
  /\ \/ /\ Legal(call.copied) /\ open' = FALSE /\ composed' = call.copied
        /\ Answer("ok") \/ Failing("error")
     \/ (\E cause \in Causes : Failing(cause)) /\ UNCHANGED <<open, composed>>
  /\ SameBucket /\ UNCHANGED <<mishap, environment>>

(* Fault: the abort ends with the context of the request. *)
AbortCancelled ==
  /\ call.pc = "abort"
  /\ Answer(call.cause)
  /\ SameBucket /\ UNCHANGED <<multipart, environment>>

\* failS3Compose and abortFailedMultipartUpload, with a context of their own.
AbortMultipartUpload ==
  /\ call.pc = "abort"
  /\ \/ open' = FALSE /\ UNCHANGED mishap
     \/ open /\ mishap' = TRUE /\ UNCHANGED open
  /\ Answer(call.cause)
  /\ SameBucket /\ UNCHANGED <<composed, environment>>

-----------------------------------------------------------------------------
(* UploadStream: the transfer manager puts a small object at once, and a    *)
(* large one as a multipart upload it names when it fails.                  *)

NewUpload == [op |-> "upload", pc |-> "put", cause |-> "error"]

PutObject ==
  /\ call.op = "upload" /\ call.pc = "put"
  /\ \/ Bucket(bucket \cup {1}) /\ (Answer("ok") \/ Answer("error"))
     \/ SameBucket /\ (Answer("error") \/ Answer("create"))
  /\ UNCHANGED <<multipart, environment>>

TransferParts ==
  /\ call.op = "upload" /\ call.pc = "copy"
  /\ \/ /\ open' = FALSE /\ Bucket(bucket \cup {1})
        /\ Answer("ok") \/ Failing("error")
     \/ Failing("error") /\ SameBucket /\ UNCHANGED open
  /\ UNCHANGED <<composed, mishap, environment>>

-----------------------------------------------------------------------------
(* CreateRangedDownloadStream: bytes offset + 1 .. offset + count of an      *)
(* object.  A broken server ignores the range.                              *)

Bytes == Key   \* of the object
NewRange(offset, count) ==
  [op |-> "range", pc |-> "get", offset |-> offset, count |-> count, body |-> {}]
Requested == call.offset + 1..call.offset + call.count

(* Fault: the answer is not compared with the range. *)
GetRangeUnchecked ==
  /\ call.op = "range" /\ call.pc = "get"
  /\ LET body == IF server.sane THEN Requested \cap Bytes ELSE Bytes
     IN call' = [call EXCEPT !.pc = "stream", !.body = body] \/ Answer("error")
  /\ SameBucket /\ UNCHANGED <<multipart, environment>>

GetRange ==
  /\ call.op = "range" /\ call.pc = "get"
  /\ LET body == IF server.sane THEN Requested \cap Bytes ELSE Bytes
     IN \/ /\ Cardinality(body) = call.count /\ (call.offset > 0 => server.sane)
           /\ call' = [call EXCEPT !.pc = "stream", !.body = body]
        \/ Answer("error")
  /\ SameBucket /\ UNCHANGED <<multipart, environment>>

\* A connection that ends early ends an exact stream with an error.
ReadRange ==
  /\ call.op = "range" /\ call.pc = "stream"
  /\ Answer("ok") \/ Answer("error")
  /\ SameBucket /\ UNCHANGED <<multipart, environment>>

-----------------------------------------------------------------------------
SomeCall == {NewWalk(n) : n \in 1..Keys} \cup {NewDelete, NewUpload}
            \cup {NewRange(offset, count) : offset \in 0..Keys, count \in Bytes}
            \cup {NewCompose(sizes) : sizes \in UNION {[1..n -> 0..MaxSize] : n \in 0..MaxSources}}
BrokenServers == {[sane |-> FALSE, next |-> f] : f \in [Token -> Token \cup {None}]}
SaneServer == [sane |-> TRUE, next |-> [t \in Token |-> Start]]

\* Only listings are read from a broken server, and only walks follow its tokens.
S3Init ==
  /\ call \in SomeCall
  /\ server \in {SaneServer}
       \cup (IF call.op = "walk" /\ call.expected = 1 THEN BrokenServers
             ELSE IF call.op \in {"delete", "range"}
                  THEN {[SaneServer EXCEPT !.sane = FALSE]} ELSE {})
  /\ bucket \in IF server.sane /\ call.op \in {"walk", "delete"}
                THEN {b \cup {Outside} : b \in SUBSET Key} ELSE {Listed}
  /\ lasting = bucket /\ ever = bucket
  /\ open = FALSE /\ composed = <<>> /\ mishap = FALSE /\ changes = 0

\* Other calls put and remove objects of the folder.
Change ==
  /\ Running /\ server.sane /\ changes < MaxChanges /\ changes' = changes + 1
  /\ \E k \in Key : Bucket(bucket \ {k}) \/ (call.op # "compose" /\ Bucket(bucket \cup {k}))
  /\ UNCHANGED <<call, multipart, server>>

\* A listing fails, or the context of the call ends.
Fails ==
  /\ call.pc = "list"
  /\ Answer("error")
  /\ SameBucket /\ UNCHANGED <<multipart, environment>>

ProcessEnds ==
  /\ Running
  /\ Answer("crashed") /\ mishap' = TRUE
  /\ SameBucket /\ UNCHANGED <<open, composed, environment>>

S3Step == \/ ListObjects \/ ListForDeletion \/ DeletePage \/ ReachWorkLimit \/ HeadSource
          \/ CreateMultipartUpload \/ UploadPartCopy \/ CompleteMultipartUpload
          \/ AbortMultipartUpload \/ PutObject \/ TransferParts \/ GetRange \/ ReadRange
S3Next == S3Step \/ Change \/ Fails \/ ProcessEnds

-----------------------------------------------------------------------------
Done(op, result) == call.op = op /\ call.pc = result

\* A listing of a sane server shows what was there all the time, and nothing
\* that never was; it is never called cyclic, and no object is counted twice.
WalksTrue ==
  /\ Done("walk", "ok") /\ server.sane => call.seen \subseteq ever
  /\ Done("walk", "missing") /\ server.sane => ~(1..call.expected \subseteq lasting)
  /\ call.op = "walk" => call.bytes = Cardinality(call.seen)
  /\ Done("walk", "cyclic") => ~server.sane

\* A folder is only called deleted when each of its objects was removed.
DeletesAll == /\ Done("delete", "ok") /\ server.sane => lasting \cap Key = {}
              /\ Outside \in bucket

\* A composed object is its sources, whole and in order, and the server is asked for
\* nothing that it must refuse.
Follows(p, q, sizes) ==
  IF p.start + p.size < sizes[p.source]
  THEN q.source = p.source /\ q.start = p.start + p.size
  ELSE /\ p.start + p.size = sizes[p.source]
       /\ q.source = p.source + 1 /\ q.start = 0
Begins(part) == part.source = 1 /\ part.start = 0
EndsAll(part, sizes) == part.source = Len(sizes) /\ part.start + part.size = sizes[part.source]
Chained(parts, sizes) == \A i \in 1..Len(parts) - 1 : Follows(parts[i], parts[i + 1], sizes)
Refused == /\ call.op = "compose"
           /\ \/ call.pc = "copy" /\ NextPart.size > MaxPart
              \/ call.pc = "complete" /\ ~Legal(call.copied)
ComposesWhole ==
  /\ composed # <<>> => /\ Begins(composed[1]) /\ Chained(composed, call.sizes)
                        /\ EndsAll(composed[Len(composed)], call.sizes)
  /\ ~Refused

\* An upload is left to the server only where it could not be aborted.
UploadsAborted == open /\ ~Running => mishap

\* A ranged stream is the range that was asked for, also of a server that ignores it.
RangesExact == Done("range", "ok") => call.body = Requested

S3Inv == RangesExact /\ WalksTrue /\ DeletesAll /\ ComposesWhole /\ UploadsAborted

-----------------------------------------------------------------------------
(* Why it holds.                                                            *)

Detectors(values) == [checkpoint : values \cup {None}, power : Nat, distance : Nat,
                      initialized : BOOLEAN]
PartRecord == [source : Nat, start : Nat, size : Nat]
WalkCalls ==
  [op : {"walk"}, pc : {"list"} \cup Results, token : Token, cycles : Detectors(Token),
   expected : Key, seen : SUBSET Key, bytes : Nat]
DeleteCalls ==
  [op : {"delete"}, pc : {"list", "delete"} \cup Results, page : SUBSET Key,
   previous : (SUBSET Key) \cup {None}, stuck : Nat, cycles : Detectors(SUBSET Key),
   number : Nat]
ComposeCalls ==
  [op : {"compose"}, pc : {"head", "create", "copy", "complete", "abort"} \cup Results,
   sizes : Seq(Nat), heads : Nat, source : Nat, number : Nat,
   copied : Seq(PartRecord), cause : Causes]
UploadCalls ==
  [op : {"upload"}, pc : {"put", "create", "copy", "abort"} \cup Results, cause : Causes]
RangeCalls ==
  [op : {"range"}, pc : {"get", "stream"} \cup Results, offset : Nat, count : Nat,
   body : SUBSET Bytes]

S3TypeOK ==
  /\ call \in WalkCalls \cup DeleteCalls \cup ComposeCalls \cup UploadCalls \cup RangeCalls
  /\ server \in [sane : BOOLEAN, next : [Token -> Token \cup {None}]]
  /\ bucket \subseteq Listed /\ lasting \subseteq bucket /\ bucket \subseteq ever
  /\ Outside \in bucket
  /\ open \in BOOLEAN /\ mishap \in BOOLEAN /\ composed \in Seq(PartRecord)

\* A walk has seen what it passed, and its tokens only grow.
WalkOK ==
  call.op = "walk" =>
    /\ call.bytes = Cardinality(call.seen)
    /\ server.sane =>
         /\ call.seen \subseteq ever
         /\ call.cycles.initialized => call.cycles.checkpoint \in 0..call.token
         /\ call.pc = "list" =>
              \A k \in lasting : k <= call.token /\ k <= call.expected => k \in call.seen
         /\ call.pc = "missing" => ~(1..call.expected \subseteq lasting)
         /\ call.pc # "cyclic"

DeleteOK == Done("delete", "ok") /\ server.sane => lasting \cap Key = {}

\* What was copied is the plan up to the next part.
ComposeOK ==
  call.op = "compose" =>
    /\ call.pc \in {"create", "copy", "complete"} => Plannable(call.sizes)
    /\ call.pc \in {"head", "create"} =>
         call.copied = <<>> /\ call.source = 1 /\ call.number = 1
    /\ call.copied # <<>> => Begins(call.copied[1])
    /\ Chained(call.copied, call.sizes)
    /\ call.pc = "copy" =>
         /\ call.source \in DOMAIN call.sizes
         /\ call.number \in DOMAIN PartsOf(call.sizes, call.source)
         /\ NextPart.size <= MaxPart
         /\ IF call.copied = <<>> THEN Begins(NextPart)
            ELSE Follows(call.copied[Len(call.copied)], NextPart, call.sizes)
         /\ \A i \in DOMAIN call.copied : call.copied[i].size >= MinPart
         /\ Len(call.copied) + 1 = Before(call.sizes, call.source) + call.number
    /\ call.pc = "complete" =>
         /\ call.copied # <<>> /\ EndsAll(call.copied[Len(call.copied)], call.sizes)
         /\ Legal(call.copied)

ComposedOK == composed # <<>> =>
  /\ call.op = "compose"
  /\ Begins(composed[1]) /\ Chained(composed, call.sizes)
  /\ EndsAll(composed[Len(composed)], call.sizes)

MultipartOK ==
  /\ open => \/ mishap
             \/ /\ call.op \in {"compose", "upload"}
                /\ call.pc \in {"copy", "complete", "abort"}
  /\ call.pc = "crashed" => mishap

RangeOK == call.op = "range" /\ call.pc \in {"stream", "ok"} => call.body = Requested

ObjectsInv == S3TypeOK /\ WalkOK /\ DeleteOK /\ ComposeOK /\ ComposedOK /\ MultipartOK /\ RangeOK
=============================================================================
