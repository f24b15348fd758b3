----------------------------- MODULE RestoreProofs -----------------------------
(***************************************************************************)
(* The requests behind the restoration of a cache, for archives, ranges,   *)
(* keys, scopes and entries of any kind and number: a download delivers    *)
(* what was asked for and leaves nothing behind, a lookup answers with the *)
(* best of what it could serve all the time; and the cache of part         *)
(* boundaries that the downloads share is consistent between its locks.    *)
(*                                                                         *)
(* A request is a download or a lookup.  The invariant of either is proved *)
(* apart (DownloadInd, LookupInd), by what each of its steps keeps, and    *)
(* RequestInd is both: a step of the one leaves the other alone.           *)
(***************************************************************************)
EXTENDS Requests, PartIndexCache, FiniteSetTheorems, FunctionTheorems, SequenceTheorems,
        WellFoundedInduction, TLAPS

\* What is no property of numbers is shown by a smallest counterexample.
LEMMA SmallestOf ==
  ASSUME NEW S \in SUBSET Nat, S # {}
  PROVE  \E x \in S : \A y \in S : x <= y
<1>1. PICK x \in S : \A y \in S : ~(<<y, x>> \in OpToRel(<, Nat))
  BY NatLessThanWellFounded, WFMin
<1>2. ASSUME NEW y \in S PROVE x <= y
  <2>1. ~(y < x)
    BY <1>1 DEF OpToRel
  <2> QED  BY <2>1
<1> QED  BY <1>2

-----------------------------------------------------------------------------
(* The ends of the parts.                                                    *)

SumsTo(f, n) == f = [i \in 0 .. n |-> IF i = 0 THEN 0 ELSE f[i - 1] + archive.sizes[i]]

\* The recursive definition of the ends has a function that satisfies it.
LEMMA SumsExist ==
  ASSUME archive.sizes \in Seq(Nat), NEW n \in 0 .. Parts
  PROVE  \E f \in [0 .. n -> Nat] : SumsTo(f, n)
<1> DEFINE Without == {m \in 0 .. Parts : ~ \E f \in [0 .. m -> Nat] : SumsTo(f, m)}
<1>p. Parts \in Nat /\ \A i \in 1 .. Parts : archive.sizes[i] \in Nat
  BY DEF Parts
<1>1. ASSUME Without # {} PROVE FALSE
  <2>1. PICK m \in Without : \A l \in Without : m <= l
    <3>1. Without \in SUBSET Nat
      BY <1>p
    <3> HIDE DEF Without
    <3> QED  BY <1>1, <3>1, SmallestOf
  <2>2. m \in 0 .. Parts /\ ~ \E f \in [0 .. m -> Nat] : SumsTo(f, m)
    BY <2>1
  <2>3. CASE m = 0
    <3> DEFINE f == [i \in 0 .. 0 |-> 0]
    <3>1. f \in [0 .. m -> Nat] /\ \A i \in 0 .. m : i = 0
      BY <2>3
    <3>2. f = [i \in 0 .. m |-> IF i = 0 THEN 0 ELSE f[i - 1] + archive.sizes[i]]
      BY <2>3, <3>1
    <3> QED  BY <2>2, <3>1, <3>2 DEF SumsTo
  <2>4. CASE m # 0
    <3>1. m - 1 \in 0 .. Parts /\ m - 1 \notin Without
      <4>1. m - 1 \in 0 .. Parts
        BY <1>p, <2>2, <2>4
      <4>2. m - 1 \in Without => m <= m - 1
        BY <2>1
      <4> HIDE DEF Without
      <4> QED  BY <2>2, <4>1, <4>2
    <3>2. PICK f \in [0 .. m - 1 -> Nat] : SumsTo(f, m - 1)
      BY <3>1
    <3> DEFINE g == [i \in 0 .. m |-> IF i = m THEN f[m - 1] + archive.sizes[m] ELSE f[i]]
    <3>3. g \in [0 .. m -> Nat]
      <4>1. \A i \in 0 .. m : i # m => f[i] \in Nat
        BY <2>2
      <4>2. f[m - 1] \in Nat /\ archive.sizes[m] \in Nat
        BY <1>p, <2>2, <2>4
      <4> QED  BY <4>1, <4>2, SMTT(60)
    <3>4. \A i \in 0 .. m : g[i] = IF i = 0 THEN 0 ELSE g[i - 1] + archive.sizes[i]
      <4> SUFFICES ASSUME NEW i \in 0 .. m
                   PROVE  g[i] = IF i = 0 THEN 0 ELSE g[i - 1] + archive.sizes[i]
        OBVIOUS
      <4>1. CASE i = m
        BY <2>2, <2>4, <4>1
      <4>2. CASE i # m
        <5>1. i \in 0 .. m - 1 /\ g[i] = f[i]
          BY <2>2, <4>2
        <5>2. f[i] = IF i = 0 THEN 0 ELSE f[i - 1] + archive.sizes[i]
          BY <3>2, <5>1 DEF SumsTo
        <5>3. i # 0 => i - 1 \in 0 .. m /\ i - 1 # m /\ g[i - 1] = f[i - 1]
          BY <2>2, <5>1
        <5> QED  BY <5>1, <5>2, <5>3
      <4> QED  BY <4>1, <4>2
    <3>5. SumsTo(g, m)
      <4> HIDE DEF g
      <4> QED  BY <3>3, <3>4 DEF SumsTo
    <3> QED  BY <2>2, <3>3, <3>5
  <2> QED  BY <2>3, <2>4
<1> QED  BY <1>1

\* newPartIndex: each end is the one before and the size of the part.
LEMMA EndsAdd ==
  ASSUME archive.sizes \in Seq(Nat)
  PROVE  /\ Parts \in Nat /\ Ends \in [0 .. Parts -> Nat] /\ Ends[0] = 0
         /\ Total \in Nat
         /\ \A i \in 1 .. Parts : /\ archive.sizes[i] \in Nat
                                  /\ Ends[i] = Ends[i - 1] + archive.sizes[i]
<1>p. Parts \in Nat /\ \A i \in 1 .. Parts : archive.sizes[i] \in Nat
  BY DEF Parts
<1>1. Parts \in 0 .. Parts
  BY <1>p
<1>2. PICK f \in [0 .. Parts -> Nat] : SumsTo(f, Parts)
  BY <1>1, SumsExist
<1>3. Ends = CHOOSE g : SumsTo(g, Parts)
  BY Zenon DEF Ends, SumsTo
<1>4. SumsTo(Ends, Parts)
  BY <1>2, <1>3, Zenon
<1> DEFINE Differ == {i \in 0 .. Parts : Ends[i] # f[i]}
<1>5. ASSUME Differ # {} PROVE FALSE
  <2>1. PICK i \in Differ : \A j \in Differ : i <= j
    <3>1. Differ \in SUBSET Nat
      BY <1>p
    <3> HIDE DEF Differ
    <3> QED  BY <1>5, <3>1, SmallestOf
  <2>2. i \in 0 .. Parts /\ Ends[i] # f[i]
    BY <2>1
  <2>3. /\ f[i] = IF i = 0 THEN 0 ELSE f[i - 1] + archive.sizes[i]
        /\ Ends[i] = IF i = 0 THEN 0 ELSE Ends[i - 1] + archive.sizes[i]
    BY <1>2, <1>4, <2>2 DEF SumsTo
  <2>4. i # 0 => i - 1 \in 0 .. Parts /\ i - 1 \notin Differ
    BY <1>p, <2>1, <2>2
  <2> QED  BY <2>2, <2>3, <2>4
<1>6. Ends = f
  <2>1. DOMAIN Ends = 0 .. Parts /\ Ends = [i \in 0 .. Parts |-> Ends[i]]
    BY <1>4, Zenon DEF SumsTo
  <2> QED  BY <1>2, <1>5, <2>1
<1>7. \A i \in 0 .. Parts : f[i] = IF i = 0 THEN 0 ELSE f[i - 1] + archive.sizes[i]
  BY <1>2 DEF SumsTo
<1>8. f[0] = 0 /\ \A i \in 1 .. Parts : f[i] = f[i - 1] + archive.sizes[i]
  BY <1>p, <1>7
<1>9. f[Parts] \in Nat
  BY <1>1, <1>2
<1> QED  BY <1>p, <1>2, <1>6, <1>8, <1>9 DEF Total

\* No end is before an earlier one.
LEMMA EndsGrow ==
  ASSUME archive.sizes \in Seq(Nat), NEW i \in 0 .. Parts, NEW j \in 0 .. Parts, i <= j
  PROVE  Ends[i] <= Ends[j]
<1> DEFINE Below == {k \in 0 .. Parts : i <= k /\ ~(Ends[i] <= Ends[k])}
<1>e. /\ Parts \in Nat /\ Ends \in [0 .. Parts -> Nat]
      /\ \A k \in 1 .. Parts : archive.sizes[k] \in Nat /\ Ends[k] = Ends[k - 1] + archive.sizes[k]
  BY EndsAdd
<1>1. ASSUME Below # {} PROVE FALSE
  <2>1. PICK k \in Below : \A l \in Below : k <= l
    <3>1. Below \in SUBSET Nat
      BY <1>e
    <3> HIDE DEF Below
    <3> QED  BY <1>1, <3>1, SmallestOf
  <2>2. k \in 0 .. Parts /\ i <= k /\ ~(Ends[i] <= Ends[k])
    BY <2>1
  <2>3. k # i
    BY <1>e, <2>2
  <2>4. k - 1 \in 0 .. Parts /\ i <= k - 1 /\ k \in 1 .. Parts
    BY <1>e, <2>2, <2>3
  <2>5. Ends[i] <= Ends[k - 1]
    <3>1. k - 1 \notin Below
      BY <1>e, <2>1, <2>2
    <3> QED  BY <2>4, <3>1
  <2>6. Ends[k] = Ends[k - 1] + archive.sizes[k] /\ archive.sizes[k] \in Nat
        /\ Ends[k - 1] \in Nat /\ Ends[i] \in Nat
    BY <1>e, <2>4
  <2> QED  BY <2>2, <2>5, <2>6
<1> QED  BY <1>1

\* Nothing but the sizes of the parts determines them.
LEMMA EndsStay ==
  ASSUME archive'.sizes = archive.sizes
  PROVE  Parts' = Parts /\ Ends' = Ends /\ Total' = Total
<1>1. Parts' = Parts
  BY Zenon DEF Parts
<1>2. Ends' = Ends
  BY <1>1, Zenon DEF Ends
<1> QED  BY <1>1, <1>2, Zenon DEF Total
-----------------------------------------------------------------------------
(* The invariant of a download.                                              *)

Stream == {None} \cup Nat
HandlerType == [at : Stage, outcome : Outcome, stream : Stream, n : {0, 1},
                byte : Nat, err : Error]
RenewalType == [at : {"none", "running", "closing", "closeStream", "done"},
                cancelled : BOOLEAN, stream : Stream]
ReaderType == [raw : BOOLEAN, ranged : BOOLEAN, closed : BOOLEAN, index : Nat, offset : Nat,
               remaining : Nat, current : Stream, count : Nat, from : Nat, pos : Nat]

DownloadTypes ==
  /\ archive \in [sizes : Sizes, merged : BOOLEAN, recorded : BOOLEAN, gone : BOOLEAN]
  /\ ranges \in Ranges
  /\ lease \in {"none", "live", "lost", "released"}
  /\ handler \in HandlerType /\ renewal \in RenewalType /\ reader \in ReaderType
  /\ leaseErr \in BOOLEAN /\ open \in SUBSET Nat /\ delivered \in Seq(Nat)

Before == {"start", "resolve", "index", "delayed"}
Copying == {"streaming", "select", "open", "install", "read", "finish", "returned"}

\* How the lease, the renewal and the handler go together.
StagesFit ==
  /\ handler.at \in Before =>
       /\ reader = NoReader /\ renewal.at = "none" /\ delivered = <<>> /\ open = {}
       /\ handler.outcome = "none" /\ ~leaseErr
       /\ handler.at = "start" => lease = "none"
       /\ handler.at \in {"resolve", "index"} => lease = "live"
       /\ handler.at = "delayed" => lease \in {"live", "lost"}
  /\ handler.at \in {"index", "delayed"} => ~archive.merged /\ ranges # <<>>
  /\ handler.at \in Copying => handler.outcome = "none"
  /\ handler.at \in Copying \cup {"closing", "closeStream", "release"} =>
       lease \in {"live", "lost"} /\ renewal.at # "none"
  /\ handler.at \in {"release", "done"} =>
       open = {} /\ reader.current = None /\ renewal.at \in {"none", "done"}
  /\ handler.at = "done" => lease \in {"none", "released"}

\* Who has a stream that is open.
Holders == {reader.current} \cup (IF renewal.at = "closeStream" THEN {renewal.stream} ELSE {})
                            \cup (IF handler.at = "install" THEN {handler.stream} ELSE {})
StreamsHeld ==
  /\ open \subseteq Holders
  /\ reader.closed => reader.current = None
  /\ reader.current # None => reader.current \in open
  /\ renewal.at \in {"none", "running", "closing"} /\ handler.at # "release" => ~reader.closed
  /\ renewal.at = "closeStream" => reader.closed
  /\ handler.at = "install" => handler.stream \in Nat
  /\ handler.at = "install" /\ ~reader.closed => handler.stream \in open
  /\ handler.at \in {"read", "finish"} =>
       handler.stream \in Nat /\ (reader.closed \/ handler.stream = reader.current)
  /\ handler.at \in {"select", "open", "install", "finish"} => ~reader.raw
  /\ handler.at \in {"open", "install"} => reader.current = None
  /\ reader.raw => reader.closed \/ reader.current = Merged

From == IF ranges = <<>> THEN 0 ELSE Selected.offset
Extent == IF ranges = <<>> THEN Total ELSE Selected.count

\* The bytes that were read, though the last one may not have been written.
Produced == Len(delivered) + (IF handler.at \in {"finish", "returned"} THEN handler.n ELSE 0)

\* They are the first of what was asked for.
BytesInOrder ==
  /\ \A i \in 1 .. Len(delivered) : delivered[i] = From + i - 1
  /\ handler.at \in {"finish", "returned"} /\ handler.n = 1 =>
       handler.byte = From + Len(delivered)
  /\ handler.at \in Copying \/ delivered # <<>> \/ handler.outcome = "complete" =>
       /\ ranges # <<>> => Satisfiable # {}
       /\ Produced <= Extent
  /\ handler.at = "returned" /\ handler.err = "eof" => Produced = Extent
  /\ handler.outcome = "complete" => Len(delivered) = Extent
  /\ handler.outcome = "unsatisfiable" => ranges # <<>> /\ Satisfiable = {}

\* A part is being read, or the whole object.
Holding == reader.raw \/ reader.current # None \/ handler.at \in {"read", "finish"}

PositionKept ==
  /\ reader.ranged => ranges # <<>>
  /\ reader.ranged \/ reader.raw \/ ranges = <<>>
  /\ reader.index <= Parts
  /\ reader.index < Parts => reader.offset <= archive.sizes[reader.index + 1]
  /\ reader.index = Parts => reader.offset = 0
  /\ ~reader.ranged => reader.offset = 0
  /\ Holding =>
       /\ reader.from + reader.pos = From + Produced /\ reader.pos <= reader.count
       /\ reader.from + reader.count <= From + Extent
       /\ reader.raw => reader.from + reader.count = From + Extent
       /\ ~reader.raw => reader.offset = 0
       /\ ~reader.raw /\ ~reader.ranged => reader.from + reader.count = Ends[reader.index]
       /\ ~reader.raw /\ reader.ranged =>
            /\ reader.from + reader.remaining = From + Extent
            /\ reader.count = reader.remaining \/ reader.from + reader.count = Ends[reader.index]
  /\ ~Holding /\ ~reader.closed =>
       /\ ~reader.ranged => Ends[reader.index] = From + Produced
       /\ reader.ranged => reader.remaining + Produced = Extent
       /\ reader.ranged /\ reader.remaining > 0 =>
            Ends[reader.index] + reader.offset = From + Produced
  /\ handler.at \in {"open", "install"} /\ ~reader.closed =>
       /\ reader.index < Parts
       /\ reader.ranged => reader.remaining > 0 /\ Available > 0
  /\ handler.at = "finish" => handler.err = "eof" /\ AtEnd

DownloadInd ==
  /\ DownloadTypes /\ StagesFit /\ StreamsHeld /\ BytesInOrder
  /\ handler.at \in Copying => PositionKept

\* What a CHOOSE of a least element gives.
LEMMA LeastOf ==
  ASSUME NEW S \in SUBSET Nat, S # {}
  PROVE  Min(S) \in S /\ \A y \in S : Min(S) <= y
<1>1. \E x \in S : \A y \in S : x <= y
  BY SmallestOf
<1> QED  BY <1>1, Zenon DEF Min

LEMMA LeastOfTwo ==
  ASSUME NEW a \in Int, NEW b \in Int
  PROVE  Min({a, b}) = IF a <= b THEN a ELSE b
<1>1. \E x \in {a, b} : \A y \in {a, b} : x <= y
  BY SMT
<1>2. Min({a, b}) \in {a, b} /\ \A y \in {a, b} : Min({a, b}) <= y
  BY <1>1, Zenon DEF Min
<1> QED  BY <1>2, SMT

-----------------------------------------------------------------------------
(* Ranges. *)

Span(offset, count) == offset .. offset + count - 1

\* resolveByteRanges: a range that can be satisfied becomes the bytes it denotes.
LEMMA RangeResolved ==
  ASSUME archive.sizes \in Seq(Nat), NEW range \in ByteRange
  PROVE  /\ Unsatisfiable(range) <=> Denoted(range) = {}
         /\ ~Unsatisfiable(range) =>
              /\ Resolved(range).offset \in Nat /\ Resolved(range).count \in Nat \ {0}
              /\ Resolved(range).offset + Resolved(range).count <= Total
              /\ Denoted(range) = Span(Resolved(range).offset, Resolved(range).count)
<1>t. Total \in Nat
  BY EndsAdd
<1>r. /\ range[1] \in {"closed", "open", "suffix"} /\ range[2] \in Nat /\ range[3] \in Nat
      /\ range[1] = "closed" => range[2] <= range[3]
  BY DEF ByteRange, Kind
<1>1. CASE range[1] = "closed"
  <2>1. Denoted(range) = {p \in 0 .. Total - 1 : range[2] <= p /\ p <= range[3]}
    BY <1>1, Zenon DEF Denoted
  <2>2. Unsatisfiable(range) <=> range[2] >= Total
    BY <1>1, Zenon DEF Unsatisfiable
  <2>3. /\ Resolved(range).offset = range[2]
        /\ Resolved(range).count = Min({range[3], Total - 1}) - range[2] + 1
    BY <1>1 DEF Resolved
  <2>4. Min({range[3], Total - 1}) = IF range[3] <= Total - 1 THEN range[3] ELSE Total - 1
    BY <1>t, <1>r, LeastOfTwo
  <2>5. CASE Unsatisfiable(range)
    BY <1>t, <1>r, <2>1, <2>2, <2>5
  <2>6. CASE ~Unsatisfiable(range)
    <3> DEFINE o == Resolved(range).offset
               c == Resolved(range).count
    <3>1. /\ o = range[2] /\ o < Total
          /\ c = (IF range[3] <= Total - 1 THEN range[3] ELSE Total - 1) - o + 1
      BY <1>t, <1>r, <2>2, <2>3, <2>4, <2>6
    <3> HIDE DEF o, c
    <3>2. o \in Nat /\ c \in Nat \ {0} /\ o + c <= Total
      BY <1>t, <1>1, <1>r, <3>1
    <3>3. Denoted(range) = Span(o, c)
      <4>1. \A p \in 0 .. Total - 1 : range[2] <= p /\ p <= range[3] <=> p \in Span(o, c)
        BY <1>t, <1>r, <3>1, <3>2, SMTT(60) DEF Span
      <4>2. Span(o, c) \subseteq 0 .. Total - 1
        BY <1>t, <3>2 DEF Span
      <4> QED  BY <2>1, <4>1, <4>2, Zenon
    <3>4. o \in Denoted(range)
      BY <3>2, <3>3 DEF Span
    <3> QED  BY <2>6, <3>2, <3>3, <3>4 DEF o, c
  <2> QED  BY <2>5, <2>6
<1>2. CASE range[1] = "open"
  <2>1. Denoted(range) = {p \in 0 .. Total - 1 : range[2] <= p}
    BY <1>2, Zenon DEF Denoted
  <2>2. Unsatisfiable(range) <=> range[2] >= Total
    BY <1>2, Zenon DEF Unsatisfiable
  <2>3. Resolved(range).offset = range[2] /\ Resolved(range).count = Total - range[2]
    BY <1>2 DEF Resolved
  <2>5. CASE Unsatisfiable(range)
    BY <1>t, <1>r, <2>1, <2>2, <2>5
  <2>6. CASE ~Unsatisfiable(range)
    <3> DEFINE o == Resolved(range).offset
               c == Resolved(range).count
    <3>1. o = range[2] /\ o < Total /\ c = Total - o
      BY <1>t, <1>r, <2>2, <2>3, <2>6
    <3> HIDE DEF o, c
    <3>2. o \in Nat /\ c \in Nat \ {0} /\ o + c = Total
      BY <1>t, <1>r, <3>1
    <3>3. Denoted(range) = Span(o, c)
      <4>1. \A p : p \in 0 .. Total - 1 /\ o <= p <=> p \in Span(o, c)
        BY <1>t, <3>2 DEF Span
      <4>2. Denoted(range) = {p \in 0 .. Total - 1 : o <= p}
        BY <2>1, <3>1
      <4> QED  BY <4>1, <4>2, Zenon
    <3>4. o \in Denoted(range)
      BY <3>2, <3>3 DEF Span
    <3> QED  BY <2>6, <3>2, <3>3, <3>4 DEF o, c
  <2> QED  BY <2>5, <2>6
<1>3. CASE range[1] = "suffix"
  <2>1. Denoted(range) = {p \in 0 .. Total - 1 : Total - p <= range[2]}
    BY <1>3, Zenon DEF Denoted
  <2>2. Unsatisfiable(range) <=> range[2] = 0 \/ Total = 0
    BY <1>3, Zenon DEF Unsatisfiable
  <2>3. /\ Resolved(range).offset = Total - Min({range[2], Total})
        /\ Resolved(range).count = Min({range[2], Total})
    BY <1>3 DEF Resolved
  <2>4. Min({range[2], Total}) = IF range[2] <= Total THEN range[2] ELSE Total
    BY <1>t, <1>r, LeastOfTwo
  <2>5. CASE Unsatisfiable(range)
    <3>1. \A p \in 0 .. Total - 1 : ~(Total - p <= range[2])
      BY <1>t, <1>r, <2>2, <2>5
    <3> QED  BY <2>1, <2>5, <3>1
  <2>6. CASE ~Unsatisfiable(range)
    <3> DEFINE o == Resolved(range).offset
               c == Resolved(range).count
    <3>1. /\ c = (IF range[2] <= Total THEN range[2] ELSE Total) /\ o = Total - c
          /\ c # 0
      BY <1>t, <1>r, <2>2, <2>3, <2>4, <2>6
    <3> HIDE DEF o, c
    <3>2. o \in Nat /\ c \in Nat \ {0} /\ o + c = Total
      BY <1>t, <1>r, <3>1
    <3>3. \A p \in 0 .. Total - 1 : Total - p <= range[2] <=> o <= p
      BY <1>t, <1>r, <3>1, <3>2
    <3>4. Denoted(range) = Span(o, c)
      <4>1. \A p : p \in 0 .. Total - 1 /\ o <= p <=> p \in Span(o, c)
        BY <1>t, <3>2 DEF Span
      <4>2. Denoted(range) = {p \in 0 .. Total - 1 : o <= p}
        BY <2>1, <3>3, Zenon
      <4> QED  BY <4>1, <4>2, Zenon
    <3>5. o \in Denoted(range)
      BY <3>2, <3>4 DEF Span
    <3> QED  BY <2>6, <3>2, <3>4, <3>5 DEF o, c
  <2> QED  BY <2>5, <2>6
<1> QED  BY <1>r, <1>1, <1>2, <1>3

\* The first range that can be satisfied is the first that denotes a byte.
LEMMA SelectionWanted ==
  ASSUME archive.sizes \in Seq(Nat), ranges \in Seq(ByteRange)
  PROVE  /\ Answerable = Satisfiable
         /\ ranges = <<>> \/ Satisfiable # {} =>
              /\ From \in Nat /\ Extent \in Nat /\ From + Extent <= Total
              /\ Wanted = Span(From, Extent)
         /\ ranges # <<>> /\ Satisfiable # {} => Extent # 0
<1>t. Total \in Nat
  BY EndsAdd
<1>r. \A i \in DOMAIN ranges : ranges[i] \in ByteRange
  OBVIOUS
<1>1. Answerable = Satisfiable
  <2>1. \A i \in DOMAIN ranges : Denoted(ranges[i]) # {} <=> ~Unsatisfiable(ranges[i])
    BY <1>r, RangeResolved
  <2> QED  BY <2>1, Zenon DEF Answerable, Satisfiable
<1>2. CASE ranges = <<>>
  <2>1. From = 0 /\ Extent = Total /\ Wanted = 0 .. Total - 1
    BY <1>2, Zenon DEF From, Extent, Wanted
  <2> QED  BY <1>t, <1>1, <1>2, <2>1 DEF Span
<1>3. CASE ranges # <<>> /\ Satisfiable # {}
  <2>1. Satisfiable \in SUBSET Nat
    BY DEF Satisfiable
  <2> DEFINE first == Min(Satisfiable)
  <2>2. first \in Satisfiable
    <3> HIDE DEF first
    <3> QED  BY <1>3, <2>1, LeastOf DEF first
  <2>3. ranges[first] \in ByteRange /\ ~Unsatisfiable(ranges[first])
    BY <1>r, <2>2, Zenon DEF Satisfiable
  <2>4. From = Resolved(ranges[first]).offset /\ Extent = Resolved(ranges[first]).count
    BY <1>3, Zenon DEF From, Extent, Selected
  <2>5. Wanted = Denoted(ranges[first])
    BY <1>1, <1>3, Zenon DEF Wanted
  <2> HIDE DEF first
  <2>6. /\ From \in Nat /\ Extent \in Nat \ {0} /\ From + Extent <= Total
        /\ Wanted = Span(From, Extent)
    BY <2>3, <2>4, <2>5, RangeResolved, Zenon
  <2> QED  BY <1>1, <1>3, <2>6
<1> QED  BY <1>1, <1>2, <1>3

\* partIndex.locate: the part that has a byte.
LEMMA PartHolds ==
  ASSUME archive.sizes \in Seq(Nat), NEW position \in Nat, position < Total
  PROVE  /\ Part(position) \in 0 .. Parts - 1
         /\ Offset(position) \in Nat /\ Offset(position) <= archive.sizes[Part(position) + 1]
         /\ Ends[Part(position)] + Offset(position) = position
<1> DEFINE After == {i \in 0 .. Parts - 1 : Ends[i + 1] > position} \cup {Parts}
           part == Part(position)
<1>e. /\ Parts \in Nat /\ Ends \in [0 .. Parts -> Nat] /\ Ends[0] = 0
      /\ \A i \in 1 .. Parts : archive.sizes[i] \in Nat /\ Ends[i] = Ends[i - 1] + archive.sizes[i]
  BY EndsAdd
<1>1. Parts # 0 /\ Ends[Parts] > position
  BY <1>e DEF Total
<1>2. part \in After /\ \A i \in After : part <= i
  <2>1. After \in SUBSET Nat /\ After # {}
    BY <1>e
  <2>2. part = Min(After)
    BY Zenon DEF Part
  <2> HIDE DEF After, part
  <2> QED  BY <2>1, <2>2, LeastOf
<1> HIDE DEF part
<1>3. part \in 0 .. Parts - 1 /\ Ends[part + 1] > position
  <2>1. Parts - 1 \in After
    BY <1>e, <1>1
  <2>2. part <= Parts - 1
    BY <1>2, <2>1
  <2> QED  BY <1>e, <1>2, <2>2
<1>4. Ends[part] <= position
  <2>1. CASE part = 0
    BY <1>e, <2>1
  <2>2. CASE part # 0
    <3>1. part - 1 \in 0 .. Parts - 1 /\ part - 1 \notin After
      <4>1. part - 1 \in 0 .. Parts - 1
        BY <1>e, <1>3, <2>2
      <4>2. part - 1 \in After => part <= part - 1
        BY <1>2
      <4> HIDE DEF After
      <4> QED  BY <1>3, <4>1, <4>2
    <3>2. ~(Ends[(part - 1) + 1] > position) /\ (part - 1) + 1 = part
      BY <1>3, <3>1
    <3>3. Ends[part] \in Nat
      BY <1>e, <1>3
    <3> QED  BY <3>2, <3>3
  <2> QED  BY <2>1, <2>2
<1>5. Offset(position) = position - Ends[part]
  <2>1. part # Parts
    BY <1>e, <1>3
  <2> QED  BY <2>1, Zenon DEF Offset, part
<1>6. /\ Ends[part] \in Nat /\ archive.sizes[part + 1] \in Nat
      /\ Ends[part + 1] = Ends[part] + archive.sizes[part + 1]
  <2>1. part + 1 \in 1 .. Parts /\ (part + 1) - 1 = part /\ part \in 0 .. Parts
    BY <1>e, <1>3
  <2> QED  BY <1>e, <2>1
<1>7. /\ part \in 0 .. Parts - 1
      /\ Offset(position) \in Nat /\ Offset(position) <= archive.sizes[part + 1]
      /\ Ends[part] + Offset(position) = position
  BY <1>3, <1>4, <1>5, <1>6, SMTT(30)
<1> QED  BY <1>7 DEF part

\* Sizes and ranges stay, and so does what they say.
LEMMA SelectionStays ==
  ASSUME archive'.sizes = archive.sizes, ranges' = ranges
  PROVE  /\ Parts' = Parts /\ Ends' = Ends /\ Total' = Total
         /\ Satisfiable' = Satisfiable /\ From' = From /\ Extent' = Extent
<1>1. Parts' = Parts /\ Ends' = Ends /\ Total' = Total
  BY EndsStay
<1>2. Satisfiable' = Satisfiable
  BY <1>1, Zenon DEF Satisfiable, Unsatisfiable
<1>3. Selected' = Selected
  BY <1>1, <1>2, Zenon DEF Selected, Resolved
<1>4. From' = From /\ Extent' = Extent
  BY <1>1, <1>3, Zenon DEF From, Extent
<1> QED  BY <1>1, <1>2, <1>4

-----------------------------------------------------------------------------
(* What the invariant says of the bytes a client got.                        *)

LEMMA SizesAndRanges ==
  ASSUME DownloadTypes
  PROVE  archive.sizes \in Seq(Nat) /\ ranges \in Seq(ByteRange)
BY DownloadAssumption, Zenon DEF DownloadTypes

\* The bytes that BytesInOrder numbers are those that a range denotes.
LEMMA WantedDelivered ==
  ASSUME DownloadInd
  PROVE  DeliversSelection
<1>s. archive.sizes \in Seq(Nat) /\ ranges \in Seq(ByteRange)
  BY SizesAndRanges DEF DownloadInd
<1> DEFINE n == Len(delivered)
<1>n. /\ delivered \in Seq(Nat) /\ n \in Nat /\ DOMAIN delivered = 1 .. n
      /\ \A i \in 1 .. n : delivered[i] = From + i - 1
  <2>1. delivered \in Seq(Nat)
    BY DEF DownloadInd, DownloadTypes
  <2>2. \A i \in 1 .. n : delivered[i] = From + i - 1
    BY DEF DownloadInd, BytesInOrder
  <2> QED  BY <2>1, <2>2
<1>1. ASSUME delivered # <<>> \/ handler.outcome = "complete"
      PROVE  /\ From \in Nat /\ Extent \in Nat /\ Wanted = Span(From, Extent)
             /\ n <= Extent
             /\ handler.outcome = "complete" => n = Extent
  <2>1. (ranges # <<>> => Satisfiable # {}) /\ Produced <= Extent
    BY <1>1, Zenon DEF DownloadInd, BytesInOrder
  <2>2. From \in Nat /\ Extent \in Nat /\ Wanted = Span(From, Extent)
    BY <1>s, <2>1, SelectionWanted
  <2>3. n <= Produced /\ Produced \in Nat
    <3>1. handler.n \in {0, 1}
      BY DEF DownloadInd, DownloadTypes, HandlerType
    <3> QED  BY <1>n, <3>1 DEF Produced
  <2>4. handler.outcome = "complete" => n = Extent
    BY Zenon DEF DownloadInd, BytesInOrder
  <2> HIDE DEF n
  <2> QED  BY <1>n, <2>1, <2>2, <2>3, <2>4
<1> HIDE DEF n
<1>2. ASSUME NEW i \in DOMAIN delivered
      PROVE  /\ delivered[i] \in Wanted
             /\ {p \in Wanted : p < delivered[i]} = {delivered[j] : j \in 1 .. i - 1}
  <2>1. delivered # <<>> /\ i \in 1 .. n
    BY <1>n
  <2>2. From \in Nat /\ Extent \in Nat /\ Wanted = Span(From, Extent) /\ n <= Extent
    BY <1>1, <2>1
  <2>3. delivered[i] = From + i - 1 /\ \A j \in 1 .. i - 1 : delivered[j] = From + j - 1
    BY <1>n, <2>1
  <2>4. delivered[i] \in Wanted
    BY <1>n, <2>1, <2>2, <2>3 DEF Span
  <2>5. ASSUME NEW p \in Wanted, p < delivered[i]
        PROVE  p \in {delivered[j] : j \in 1 .. i - 1}
    <3>1. p - From + 1 \in 1 .. i - 1 /\ p \in Int
      BY <1>n, <2>1, <2>2, <2>3, <2>5 DEF Span
    <3>2. delivered[p - From + 1] = p
      BY <2>2, <2>3, <3>1
    <3> QED  BY <3>1, <3>2
  <2>6. ASSUME NEW j \in 1 .. i - 1
        PROVE  delivered[j] \in Wanted /\ delivered[j] < delivered[i]
    BY <1>n, <2>1, <2>2, <2>3 DEF Span
  <2> QED  BY <2>4, <2>5, <2>6
<1>3. ASSUME handler.outcome = "complete"
      PROVE  Wanted = {delivered[i] : i \in DOMAIN delivered}
  <2>1. From \in Nat /\ Extent \in Nat /\ Wanted = Span(From, Extent) /\ n = Extent
    BY <1>1, <1>3
  <2>2. ASSUME NEW p \in Wanted PROVE p \in {delivered[i] : i \in DOMAIN delivered}
    <3>1. p - From + 1 \in 1 .. n /\ p \in Int
      BY <2>1 DEF Span
    <3>2. delivered[p - From + 1] = p
      BY <1>n, <2>1, <3>1
    <3> QED  BY <1>n, <3>1, <3>2
  <2>3. ASSUME NEW i \in DOMAIN delivered PROVE delivered[i] \in Wanted
    BY <1>n, <2>1 DEF Span
  <2> QED  BY <2>2, <2>3
<1>4. handler.outcome = "unsatisfiable" => ranges # <<>> /\ Answerable = {}
  <2>1. Answerable = Satisfiable
    BY <1>s, SelectionWanted
  <2> QED  BY <2>1, Zenon DEF DownloadInd, BytesInOrder
<1> QED  BY <1>2, <1>3, <1>4 DEF DeliversSelection

-----------------------------------------------------------------------------
(* What steps do to the records of a download.                               *)

HandlerOf(at0, outcome0, stream0, n0, byte0, err0) ==
  [at |-> at0, outcome |-> outcome0, stream |-> stream0, n |-> n0, byte |-> byte0, err |-> err0]

LEMMA HandlerHas ==
  ASSUME NEW r \in HandlerType
  PROVE  /\ r = HandlerOf(r.at, r.outcome, r.stream, r.n, r.byte, r.err)
         /\ r.at \in Stage /\ r.outcome \in Outcome /\ r.stream \in Stream /\ r.n \in {0, 1}
         /\ r.byte \in Nat /\ r.err \in Error
BY DEF HandlerType, HandlerOf

HandlerWithAt(r, at1) ==
  [r EXCEPT !.at = at1]

LEMMA HandlerSetsAt ==
  ASSUME NEW r \in HandlerType, NEW at1, NEW q, q = HandlerWithAt(r, at1)
  PROVE  /\ at1 \in Stage => q \in HandlerType
         /\ q.at = at1 /\ q.outcome = r.outcome /\ q.stream = r.stream /\ q.n = r.n
         /\ q.byte = r.byte /\ q.err = r.err
BY SMT DEF HandlerType, HandlerWithAt

HandlerWithAtOutcome(r, at1, outcome1) ==
  [r EXCEPT !.at = at1, !.outcome = outcome1]

LEMMA HandlerSetsAtOutcome ==
  ASSUME NEW r \in HandlerType, NEW at1, NEW outcome1,
         NEW q, q = HandlerWithAtOutcome(r, at1, outcome1)
  PROVE  /\ at1 \in Stage /\ outcome1 \in Outcome => q \in HandlerType
         /\ q.at = at1 /\ q.outcome = outcome1 /\ q.stream = r.stream /\ q.n = r.n
         /\ q.byte = r.byte /\ q.err = r.err
<1>1. r = HandlerOf(r.at, r.outcome, r.stream, r.n, r.byte, r.err)
  BY HandlerHas, Zenon
<1>2. PICK at0, outcome0, stream0, n0, byte0, err0 :
        /\ at0 = r.at /\ outcome0 = r.outcome /\ stream0 = r.stream /\ n0 = r.n /\ byte0 = r.byte
        /\ err0 = r.err
  OBVIOUS
<1>3. r = HandlerOf(at0, outcome0, stream0, n0, byte0, err0)
  BY <1>1, <1>2, Zenon
<1>4. q = HandlerOf(at1, outcome1, stream0, n0, byte0, err0)
  BY <1>3 DEF HandlerOf, HandlerWithAtOutcome
<1>5. q = HandlerOf(at1, outcome1, r.stream, r.n, r.byte, r.err)
  BY <1>2, <1>4, Zenon
<1>6. /\ q.at = at1 /\ q.outcome = outcome1 /\ q.stream = r.stream /\ q.n = r.n /\ q.byte = r.byte
      /\ q.err = r.err
  BY <1>5 DEF HandlerOf
<1>7. ASSUME at1 \in Stage, outcome1 \in Outcome
      PROVE  q \in HandlerType
  <2>1. /\ at1 \in Stage /\ outcome1 \in Outcome /\ r.stream \in Stream /\ r.n \in {0, 1}
        /\ r.byte \in Nat /\ r.err \in Error
    BY <1>7, HandlerHas, Zenon
  <2> QED  BY ONLY <1>5, <2>1, Zenon DEF HandlerOf, HandlerType
<1> QED  BY <1>6, <1>7, Zenon

HandlerWithAtStream(r, at1, stream1) ==
  [r EXCEPT !.at = at1, !.stream = stream1]

LEMMA HandlerSetsAtStream ==
  ASSUME NEW r \in HandlerType, NEW at1, NEW stream1,
         NEW q, q = HandlerWithAtStream(r, at1, stream1)
  PROVE  /\ at1 \in Stage /\ stream1 \in Stream => q \in HandlerType
         /\ q.at = at1 /\ q.outcome = r.outcome /\ q.stream = stream1 /\ q.n = r.n
         /\ q.byte = r.byte /\ q.err = r.err
<1>1. r = HandlerOf(r.at, r.outcome, r.stream, r.n, r.byte, r.err)
  BY HandlerHas, Zenon
<1>2. PICK at0, outcome0, stream0, n0, byte0, err0 :
        /\ at0 = r.at /\ outcome0 = r.outcome /\ stream0 = r.stream /\ n0 = r.n /\ byte0 = r.byte
        /\ err0 = r.err
  OBVIOUS
<1>3. r = HandlerOf(at0, outcome0, stream0, n0, byte0, err0)
  BY <1>1, <1>2, Zenon
<1>4. q = HandlerOf(at1, outcome0, stream1, n0, byte0, err0)
  BY <1>3 DEF HandlerOf, HandlerWithAtStream
<1>5. q = HandlerOf(at1, r.outcome, stream1, r.n, r.byte, r.err)
  BY <1>2, <1>4, Zenon
<1>6. /\ q.at = at1 /\ q.outcome = r.outcome /\ q.stream = stream1 /\ q.n = r.n /\ q.byte = r.byte
      /\ q.err = r.err
  BY <1>5 DEF HandlerOf
<1>7. ASSUME at1 \in Stage, stream1 \in Stream
      PROVE  q \in HandlerType
  <2>1. /\ at1 \in Stage /\ r.outcome \in Outcome /\ stream1 \in Stream /\ r.n \in {0, 1}
        /\ r.byte \in Nat /\ r.err \in Error
    BY <1>7, HandlerHas, Zenon
  <2> QED  BY ONLY <1>5, <2>1, Zenon DEF HandlerOf, HandlerType
<1> QED  BY <1>6, <1>7, Zenon

HandlerWithAtNByteErr(r, at1, n1, byte1, err1) ==
  [r EXCEPT !.at = at1, !.n = n1, !.byte = byte1, !.err = err1]

LEMMA HandlerSetsAtNByteErr ==
  ASSUME NEW r \in HandlerType, NEW at1, NEW n1, NEW byte1, NEW err1,
         NEW q, q = HandlerWithAtNByteErr(r, at1, n1, byte1, err1)
  PROVE  /\ /\ at1 \in Stage /\ n1 \in {0, 1} /\ byte1 \in Nat /\ err1 \in Error
            => q \in HandlerType
         /\ q.at = at1 /\ q.outcome = r.outcome /\ q.stream = r.stream /\ q.n = n1
         /\ q.byte = byte1 /\ q.err = err1
<1>1. r = HandlerOf(r.at, r.outcome, r.stream, r.n, r.byte, r.err)
  BY HandlerHas, Zenon
<1>2. PICK at0, outcome0, stream0, n0, byte0, err0 :
        /\ at0 = r.at /\ outcome0 = r.outcome /\ stream0 = r.stream /\ n0 = r.n /\ byte0 = r.byte
        /\ err0 = r.err
  OBVIOUS
<1>3. r = HandlerOf(at0, outcome0, stream0, n0, byte0, err0)
  BY <1>1, <1>2, Zenon
<1>4. q = HandlerOf(at1, outcome0, stream0, n1, byte1, err1)
  BY <1>3 DEF HandlerOf, HandlerWithAtNByteErr
<1>5. q = HandlerOf(at1, r.outcome, r.stream, n1, byte1, err1)
  BY <1>2, <1>4, Zenon
<1>6. /\ q.at = at1 /\ q.outcome = r.outcome /\ q.stream = r.stream /\ q.n = n1 /\ q.byte = byte1
      /\ q.err = err1
  BY <1>5 DEF HandlerOf
<1>7. ASSUME at1 \in Stage, n1 \in {0, 1}, byte1 \in Nat, err1 \in Error
      PROVE  q \in HandlerType
  <2>1. /\ at1 \in Stage /\ r.outcome \in Outcome /\ r.stream \in Stream /\ n1 \in {0, 1}
        /\ byte1 \in Nat /\ err1 \in Error
    BY <1>7, HandlerHas, Zenon
  <2> QED  BY ONLY <1>5, <2>1, Zenon DEF HandlerOf, HandlerType
<1> QED  BY <1>6, <1>7, Zenon

RenewalOf(at0, cancelled0, stream0) ==
  [at |-> at0, cancelled |-> cancelled0, stream |-> stream0]

LEMMA RenewalHas ==
  ASSUME NEW r \in RenewalType
  PROVE  /\ r = RenewalOf(r.at, r.cancelled, r.stream)
         /\ r.at \in {"none", "running", "closing", "closeStream", "done"}
         /\ r.cancelled \in BOOLEAN /\ r.stream \in Stream
BY DEF RenewalType, RenewalOf

RenewalWithAt(r, at1) ==
  [r EXCEPT !.at = at1]

LEMMA RenewalSetsAt ==
  ASSUME NEW r \in RenewalType, NEW at1, NEW q, q = RenewalWithAt(r, at1)
  PROVE  /\ /\ at1 \in {"none", "running", "closing", "closeStream", "done"}
            => q \in RenewalType
         /\ q.at = at1 /\ q.cancelled = r.cancelled /\ q.stream = r.stream
BY SMT DEF RenewalType, RenewalWithAt

RenewalWithCancelled(r, cancelled1) ==
  [r EXCEPT !.cancelled = cancelled1]

LEMMA RenewalSetsCancelled ==
  ASSUME NEW r \in RenewalType, NEW cancelled1, NEW q, q = RenewalWithCancelled(r, cancelled1)
  PROVE  /\ cancelled1 \in BOOLEAN => q \in RenewalType
         /\ q.at = r.at /\ q.cancelled = cancelled1 /\ q.stream = r.stream
BY SMT DEF RenewalType, RenewalWithCancelled

RenewalWithAtStream(r, at1, stream1) ==
  [r EXCEPT !.at = at1, !.stream = stream1]

LEMMA RenewalSetsAtStream ==
  ASSUME NEW r \in RenewalType, NEW at1, NEW stream1,
         NEW q, q = RenewalWithAtStream(r, at1, stream1)
  PROVE  /\ /\ at1 \in {"none", "running", "closing", "closeStream", "done"} /\ stream1 \in Stream
            => q \in RenewalType
         /\ q.at = at1 /\ q.cancelled = r.cancelled /\ q.stream = stream1
<1>1. r = RenewalOf(r.at, r.cancelled, r.stream)
  BY RenewalHas, Zenon
<1>2. PICK at0, cancelled0, stream0 :
        /\ at0 = r.at /\ cancelled0 = r.cancelled /\ stream0 = r.stream
  OBVIOUS
<1>3. r = RenewalOf(at0, cancelled0, stream0)
  BY <1>1, <1>2, Zenon
<1>4. q = RenewalOf(at1, cancelled0, stream1)
  BY <1>3 DEF RenewalOf, RenewalWithAtStream
<1>5. q = RenewalOf(at1, r.cancelled, stream1)
  BY <1>2, <1>4, Zenon
<1>6. /\ q.at = at1 /\ q.cancelled = r.cancelled /\ q.stream = stream1
  BY <1>5 DEF RenewalOf
<1>7. ASSUME at1 \in {"none", "running", "closing", "closeStream", "done"}, stream1 \in Stream
      PROVE  q \in RenewalType
  <2>1. /\ at1 \in {"none", "running", "closing", "closeStream", "done"}
        /\ r.cancelled \in BOOLEAN /\ stream1 \in Stream
    BY <1>7, RenewalHas, Zenon
  <2> QED  BY ONLY <1>5, <2>1, Zenon DEF RenewalOf, RenewalType
<1> QED  BY <1>6, <1>7, Zenon

ReaderOf(raw0, ranged0, closed0, index0, offset0, remaining0, current0, count0, from0, pos0) ==
  [raw |-> raw0, ranged |-> ranged0, closed |-> closed0, index |-> index0, offset |-> offset0,
   remaining |-> remaining0, current |-> current0, count |-> count0, from |-> from0, pos |-> pos0]

LEMMA ReaderHas ==
  ASSUME NEW r \in ReaderType
  PROVE  /\ r = ReaderOf(r.raw, r.ranged, r.closed, r.index, r.offset, r.remaining, r.current,
                          r.count, r.from, r.pos)
         /\ r.raw \in BOOLEAN /\ r.ranged \in BOOLEAN /\ r.closed \in BOOLEAN /\ r.index \in Nat
         /\ r.offset \in Nat /\ r.remaining \in Nat /\ r.current \in Stream /\ r.count \in Nat
         /\ r.from \in Nat /\ r.pos \in Nat
BY DEF ReaderType, ReaderOf

ReaderWithRawCurrentFromCount(r, raw1, current1, from1, count1) ==
  [r EXCEPT !.raw = raw1, !.current = current1, !.from = from1, !.count = count1]

LEMMA ReaderSetsRawCurrentFromCount ==
  ASSUME NEW r \in ReaderType, NEW raw1, NEW current1, NEW from1, NEW count1,
         NEW q, q = ReaderWithRawCurrentFromCount(r, raw1, current1, from1, count1)
  PROVE  /\ /\ raw1 \in BOOLEAN /\ current1 \in Stream /\ from1 \in Nat /\ count1 \in Nat
            => q \in ReaderType
         /\ q.raw = raw1 /\ q.ranged = r.ranged /\ q.closed = r.closed /\ q.index = r.index
         /\ q.offset = r.offset /\ q.remaining = r.remaining /\ q.current = current1
         /\ q.count = count1 /\ q.from = from1 /\ q.pos = r.pos
<1>1. r = ReaderOf(r.raw, r.ranged, r.closed, r.index, r.offset, r.remaining, r.current, r.count,
                   r.from, r.pos)
  BY ReaderHas, Zenon
<1>2. PICK raw0, ranged0, closed0, index0, offset0, remaining0, current0, count0, from0, pos0 :
        /\ raw0 = r.raw /\ ranged0 = r.ranged /\ closed0 = r.closed /\ index0 = r.index
        /\ offset0 = r.offset /\ remaining0 = r.remaining /\ current0 = r.current
        /\ count0 = r.count /\ from0 = r.from /\ pos0 = r.pos
  OBVIOUS
<1>3. r = ReaderOf(raw0, ranged0, closed0, index0, offset0, remaining0, current0, count0, from0,
                   pos0)
  BY <1>1, <1>2, Zenon
<1>4. q = ReaderOf(raw1, ranged0, closed0, index0, offset0, remaining0, current1, count1, from1,
                   pos0)
  BY <1>3 DEF ReaderOf, ReaderWithRawCurrentFromCount
<1>5. q = ReaderOf(raw1, r.ranged, r.closed, r.index, r.offset, r.remaining, current1, count1,
                   from1, r.pos)
  BY <1>2, <1>4, Zenon
<1>6. /\ q.raw = raw1 /\ q.ranged = r.ranged /\ q.closed = r.closed /\ q.index = r.index
      /\ q.offset = r.offset /\ q.remaining = r.remaining /\ q.current = current1
      /\ q.count = count1 /\ q.from = from1 /\ q.pos = r.pos
  BY <1>5 DEF ReaderOf
<1>7. ASSUME raw1 \in BOOLEAN, current1 \in Stream, from1 \in Nat, count1 \in Nat
      PROVE  q \in ReaderType
  <2>1. /\ raw1 \in BOOLEAN /\ r.ranged \in BOOLEAN /\ r.closed \in BOOLEAN /\ r.index \in Nat
        /\ r.offset \in Nat /\ r.remaining \in Nat /\ current1 \in Stream /\ count1 \in Nat
        /\ from1 \in Nat /\ r.pos \in Nat
    BY <1>7, ReaderHas, Zenon
  <2> QED  BY ONLY <1>5, <2>1, Zenon DEF ReaderOf, ReaderType
<1> QED  BY <1>6, <1>7, Zenon

ReaderWithRangedIndexOffsetRemaining(r, ranged1, index1, offset1, remaining1) ==
  [r EXCEPT !.ranged = ranged1, !.index = index1, !.offset = offset1, !.remaining = remaining1]

LEMMA ReaderSetsRangedIndexOffsetRemaining ==
  ASSUME NEW r \in ReaderType, NEW ranged1, NEW index1, NEW offset1, NEW remaining1,
         NEW q, q = ReaderWithRangedIndexOffsetRemaining(r, ranged1, index1, offset1, remaining1)
  PROVE  /\ /\ ranged1 \in BOOLEAN /\ index1 \in Nat /\ offset1 \in Nat /\ remaining1 \in Nat
            => q \in ReaderType
         /\ q.raw = r.raw /\ q.ranged = ranged1 /\ q.closed = r.closed /\ q.index = index1
         /\ q.offset = offset1 /\ q.remaining = remaining1 /\ q.current = r.current
         /\ q.count = r.count /\ q.from = r.from /\ q.pos = r.pos
<1>1. r = ReaderOf(r.raw, r.ranged, r.closed, r.index, r.offset, r.remaining, r.current, r.count,
                   r.from, r.pos)
  BY ReaderHas, Zenon
<1>2. PICK raw0, ranged0, closed0, index0, offset0, remaining0, current0, count0, from0, pos0 :
        /\ raw0 = r.raw /\ ranged0 = r.ranged /\ closed0 = r.closed /\ index0 = r.index
        /\ offset0 = r.offset /\ remaining0 = r.remaining /\ current0 = r.current
        /\ count0 = r.count /\ from0 = r.from /\ pos0 = r.pos
  OBVIOUS
<1>3. r = ReaderOf(raw0, ranged0, closed0, index0, offset0, remaining0, current0, count0, from0,
                   pos0)
  BY <1>1, <1>2, Zenon
<1>4. q = ReaderOf(raw0, ranged1, closed0, index1, offset1, remaining1, current0, count0, from0,
                   pos0)
  BY <1>3 DEF ReaderOf, ReaderWithRangedIndexOffsetRemaining
<1>5. q = ReaderOf(r.raw, ranged1, r.closed, index1, offset1, remaining1, r.current, r.count,
                   r.from, r.pos)
  BY <1>2, <1>4, Zenon
<1>6. /\ q.raw = r.raw /\ q.ranged = ranged1 /\ q.closed = r.closed /\ q.index = index1
      /\ q.offset = offset1 /\ q.remaining = remaining1 /\ q.current = r.current
      /\ q.count = r.count /\ q.from = r.from /\ q.pos = r.pos
  BY <1>5 DEF ReaderOf
<1>7. ASSUME ranged1 \in BOOLEAN, index1 \in Nat, offset1 \in Nat, remaining1 \in Nat
      PROVE  q \in ReaderType
  <2>1. /\ r.raw \in BOOLEAN /\ ranged1 \in BOOLEAN /\ r.closed \in BOOLEAN /\ index1 \in Nat
        /\ offset1 \in Nat /\ remaining1 \in Nat /\ r.current \in Stream /\ r.count \in Nat
        /\ r.from \in Nat /\ r.pos \in Nat
    BY <1>7, ReaderHas, Zenon
  <2> QED  BY ONLY <1>5, <2>1, Zenon DEF ReaderOf, ReaderType
<1> QED  BY <1>6, <1>7, Zenon

ReaderWithIndexOffset(r, index1, offset1) ==
  [r EXCEPT !.index = index1, !.offset = offset1]

LEMMA ReaderSetsIndexOffset ==
  ASSUME NEW r \in ReaderType, NEW index1, NEW offset1,
         NEW q, q = ReaderWithIndexOffset(r, index1, offset1)
  PROVE  /\ index1 \in Nat /\ offset1 \in Nat => q \in ReaderType
         /\ q.raw = r.raw /\ q.ranged = r.ranged /\ q.closed = r.closed /\ q.index = index1
         /\ q.offset = offset1 /\ q.remaining = r.remaining /\ q.current = r.current
         /\ q.count = r.count /\ q.from = r.from /\ q.pos = r.pos
<1>1. r = ReaderOf(r.raw, r.ranged, r.closed, r.index, r.offset, r.remaining, r.current, r.count,
                   r.from, r.pos)
  BY ReaderHas, Zenon
<1>2. PICK raw0, ranged0, closed0, index0, offset0, remaining0, current0, count0, from0, pos0 :
        /\ raw0 = r.raw /\ ranged0 = r.ranged /\ closed0 = r.closed /\ index0 = r.index
        /\ offset0 = r.offset /\ remaining0 = r.remaining /\ current0 = r.current
        /\ count0 = r.count /\ from0 = r.from /\ pos0 = r.pos
  OBVIOUS
<1>3. r = ReaderOf(raw0, ranged0, closed0, index0, offset0, remaining0, current0, count0, from0,
                   pos0)
  BY <1>1, <1>2, Zenon
<1>4. q = ReaderOf(raw0, ranged0, closed0, index1, offset1, remaining0, current0, count0, from0,
                   pos0)
  BY <1>3 DEF ReaderOf, ReaderWithIndexOffset
<1>5. q = ReaderOf(r.raw, r.ranged, r.closed, index1, offset1, r.remaining, r.current, r.count,
                   r.from, r.pos)
  BY <1>2, <1>4, Zenon
<1>6. /\ q.raw = r.raw /\ q.ranged = r.ranged /\ q.closed = r.closed /\ q.index = index1
      /\ q.offset = offset1 /\ q.remaining = r.remaining /\ q.current = r.current
      /\ q.count = r.count /\ q.from = r.from /\ q.pos = r.pos
  BY <1>5 DEF ReaderOf
<1>7. ASSUME index1 \in Nat, offset1 \in Nat
      PROVE  q \in ReaderType
  <2>1. /\ r.raw \in BOOLEAN /\ r.ranged \in BOOLEAN /\ r.closed \in BOOLEAN /\ index1 \in Nat
        /\ offset1 \in Nat /\ r.remaining \in Nat /\ r.current \in Stream /\ r.count \in Nat
        /\ r.from \in Nat /\ r.pos \in Nat
    BY <1>7, ReaderHas, Zenon
  <2> QED  BY ONLY <1>5, <2>1, Zenon DEF ReaderOf, ReaderType
<1> QED  BY <1>6, <1>7, Zenon

ReaderWithCurrentFromCountPosIndexOffset(r, current1, from1, count1, pos1, index1, offset1) ==
  [r EXCEPT !.current = current1, !.from = from1, !.count = count1, !.pos = pos1,
            !.index = index1, !.offset = offset1]

LEMMA ReaderSetsCurrentFromCountPosIndexOffset ==
  ASSUME NEW r \in ReaderType, NEW current1, NEW from1, NEW count1, NEW pos1, NEW index1,
         NEW offset1,
         NEW q,
         q = ReaderWithCurrentFromCountPosIndexOffset(r, current1, from1, count1, pos1,
                                                      index1, offset1)
  PROVE  /\ /\ current1 \in Stream /\ from1 \in Nat /\ count1 \in Nat /\ pos1 \in Nat
            /\ index1 \in Nat /\ offset1 \in Nat
            => q \in ReaderType
         /\ q.raw = r.raw /\ q.ranged = r.ranged /\ q.closed = r.closed /\ q.index = index1
         /\ q.offset = offset1 /\ q.remaining = r.remaining /\ q.current = current1
         /\ q.count = count1 /\ q.from = from1 /\ q.pos = pos1
<1>1. r = ReaderOf(r.raw, r.ranged, r.closed, r.index, r.offset, r.remaining, r.current, r.count,
                   r.from, r.pos)
  BY ReaderHas, Zenon
<1>2. PICK raw0, ranged0, closed0, index0, offset0, remaining0, current0, count0, from0, pos0 :
        /\ raw0 = r.raw /\ ranged0 = r.ranged /\ closed0 = r.closed /\ index0 = r.index
        /\ offset0 = r.offset /\ remaining0 = r.remaining /\ current0 = r.current
        /\ count0 = r.count /\ from0 = r.from /\ pos0 = r.pos
  OBVIOUS
<1>3. r = ReaderOf(raw0, ranged0, closed0, index0, offset0, remaining0, current0, count0, from0,
                   pos0)
  BY <1>1, <1>2, Zenon
<1>4. q = ReaderOf(raw0, ranged0, closed0, index1, offset1, remaining0, current1, count1, from1,
                   pos1)
  BY <1>3 DEF ReaderOf, ReaderWithCurrentFromCountPosIndexOffset
<1>5. q = ReaderOf(r.raw, r.ranged, r.closed, index1, offset1, r.remaining, current1, count1,
                   from1, pos1)
  BY <1>2, <1>4, Zenon
<1>6. /\ q.raw = r.raw /\ q.ranged = r.ranged /\ q.closed = r.closed /\ q.index = index1
      /\ q.offset = offset1 /\ q.remaining = r.remaining /\ q.current = current1
      /\ q.count = count1 /\ q.from = from1 /\ q.pos = pos1
  BY <1>5 DEF ReaderOf
<1>7. ASSUME current1 \in Stream, from1 \in Nat, count1 \in Nat, pos1 \in Nat, index1 \in Nat,
             offset1 \in Nat
      PROVE  q \in ReaderType
  <2>1. /\ r.raw \in BOOLEAN /\ r.ranged \in BOOLEAN /\ r.closed \in BOOLEAN /\ index1 \in Nat
        /\ offset1 \in Nat /\ r.remaining \in Nat /\ current1 \in Stream /\ count1 \in Nat
        /\ from1 \in Nat /\ pos1 \in Nat
    BY <1>7, ReaderHas, Zenon
  <2> QED  BY ONLY <1>5, <2>1, Zenon DEF ReaderOf, ReaderType
<1> QED  BY <1>6, <1>7, Zenon

ReaderWithPos(r, pos1) ==
  [r EXCEPT !.pos = pos1]

LEMMA ReaderSetsPos ==
  ASSUME NEW r \in ReaderType, NEW pos1, NEW q, q = ReaderWithPos(r, pos1)
  PROVE  /\ pos1 \in Nat => q \in ReaderType
         /\ q.raw = r.raw /\ q.ranged = r.ranged /\ q.closed = r.closed /\ q.index = r.index
         /\ q.offset = r.offset /\ q.remaining = r.remaining /\ q.current = r.current
         /\ q.count = r.count /\ q.from = r.from /\ q.pos = pos1
BY SMT DEF ReaderType, ReaderWithPos

ReaderWithCurrentRemaining(r, current1, remaining1) ==
  [r EXCEPT !.current = current1, !.remaining = remaining1]

LEMMA ReaderSetsCurrentRemaining ==
  ASSUME NEW r \in ReaderType, NEW current1, NEW remaining1,
         NEW q, q = ReaderWithCurrentRemaining(r, current1, remaining1)
  PROVE  /\ current1 \in Stream /\ remaining1 \in Nat => q \in ReaderType
         /\ q.raw = r.raw /\ q.ranged = r.ranged /\ q.closed = r.closed /\ q.index = r.index
         /\ q.offset = r.offset /\ q.remaining = remaining1 /\ q.current = current1
         /\ q.count = r.count /\ q.from = r.from /\ q.pos = r.pos
<1>1. r = ReaderOf(r.raw, r.ranged, r.closed, r.index, r.offset, r.remaining, r.current, r.count,
                   r.from, r.pos)
  BY ReaderHas, Zenon
<1>2. PICK raw0, ranged0, closed0, index0, offset0, remaining0, current0, count0, from0, pos0 :
        /\ raw0 = r.raw /\ ranged0 = r.ranged /\ closed0 = r.closed /\ index0 = r.index
        /\ offset0 = r.offset /\ remaining0 = r.remaining /\ current0 = r.current
        /\ count0 = r.count /\ from0 = r.from /\ pos0 = r.pos
  OBVIOUS
<1>3. r = ReaderOf(raw0, ranged0, closed0, index0, offset0, remaining0, current0, count0, from0,
                   pos0)
  BY <1>1, <1>2, Zenon
<1>4. q = ReaderOf(raw0, ranged0, closed0, index0, offset0, remaining1, current1, count0, from0,
                   pos0)
  BY <1>3 DEF ReaderOf, ReaderWithCurrentRemaining
<1>5. q = ReaderOf(r.raw, r.ranged, r.closed, r.index, r.offset, remaining1, current1, r.count,
                   r.from, r.pos)
  BY <1>2, <1>4, Zenon
<1>6. /\ q.raw = r.raw /\ q.ranged = r.ranged /\ q.closed = r.closed /\ q.index = r.index
      /\ q.offset = r.offset /\ q.remaining = remaining1 /\ q.current = current1
      /\ q.count = r.count /\ q.from = r.from /\ q.pos = r.pos
  BY <1>5 DEF ReaderOf
<1>7. ASSUME current1 \in Stream, remaining1 \in Nat
      PROVE  q \in ReaderType
  <2>1. /\ r.raw \in BOOLEAN /\ r.ranged \in BOOLEAN /\ r.closed \in BOOLEAN /\ r.index \in Nat
        /\ r.offset \in Nat /\ remaining1 \in Nat /\ current1 \in Stream /\ r.count \in Nat
        /\ r.from \in Nat /\ r.pos \in Nat
    BY <1>7, ReaderHas, Zenon
  <2> QED  BY ONLY <1>5, <2>1, Zenon DEF ReaderOf, ReaderType
<1> QED  BY <1>6, <1>7, Zenon

ReaderWithClosedCurrent(r, closed1, current1) ==
  [r EXCEPT !.closed = closed1, !.current = current1]

LEMMA ReaderSetsClosedCurrent ==
  ASSUME NEW r \in ReaderType, NEW closed1, NEW current1,
         NEW q, q = ReaderWithClosedCurrent(r, closed1, current1)
  PROVE  /\ closed1 \in BOOLEAN /\ current1 \in Stream => q \in ReaderType
         /\ q.raw = r.raw /\ q.ranged = r.ranged /\ q.closed = closed1 /\ q.index = r.index
         /\ q.offset = r.offset /\ q.remaining = r.remaining /\ q.current = current1
         /\ q.count = r.count /\ q.from = r.from /\ q.pos = r.pos
<1>1. r = ReaderOf(r.raw, r.ranged, r.closed, r.index, r.offset, r.remaining, r.current, r.count,
                   r.from, r.pos)
  BY ReaderHas, Zenon
<1>2. PICK raw0, ranged0, closed0, index0, offset0, remaining0, current0, count0, from0, pos0 :
        /\ raw0 = r.raw /\ ranged0 = r.ranged /\ closed0 = r.closed /\ index0 = r.index
        /\ offset0 = r.offset /\ remaining0 = r.remaining /\ current0 = r.current
        /\ count0 = r.count /\ from0 = r.from /\ pos0 = r.pos
  OBVIOUS
<1>3. r = ReaderOf(raw0, ranged0, closed0, index0, offset0, remaining0, current0, count0, from0,
                   pos0)
  BY <1>1, <1>2, Zenon
<1>4. q = ReaderOf(raw0, ranged0, closed1, index0, offset0, remaining0, current1, count0, from0,
                   pos0)
  BY <1>3 DEF ReaderOf, ReaderWithClosedCurrent
<1>5. q = ReaderOf(r.raw, r.ranged, closed1, r.index, r.offset, r.remaining, current1, r.count,
                   r.from, r.pos)
  BY <1>2, <1>4, Zenon
<1>6. /\ q.raw = r.raw /\ q.ranged = r.ranged /\ q.closed = closed1 /\ q.index = r.index
      /\ q.offset = r.offset /\ q.remaining = r.remaining /\ q.current = current1
      /\ q.count = r.count /\ q.from = r.from /\ q.pos = r.pos
  BY <1>5 DEF ReaderOf
<1>7. ASSUME closed1 \in BOOLEAN, current1 \in Stream
      PROVE  q \in ReaderType
  <2>1. /\ r.raw \in BOOLEAN /\ r.ranged \in BOOLEAN /\ closed1 \in BOOLEAN /\ r.index \in Nat
        /\ r.offset \in Nat /\ r.remaining \in Nat /\ current1 \in Stream /\ r.count \in Nat
        /\ r.from \in Nat /\ r.pos \in Nat
    BY <1>7, ReaderHas, Zenon
  <2> QED  BY ONLY <1>5, <2>1, Zenon DEF ReaderOf, ReaderType
<1> QED  BY <1>6, <1>7, Zenon

-----------------------------------------------------------------------------
(* Until there is a stream.                                                  *)

\* The lease is acquired before anything is opened.
LEMMA AcquireKeeps ==
  ASSUME DownloadInd, AcquireReader
  PROVE  DownloadInd'
<1>1. /\ handler.at = "start" /\ archive' = archive /\ ranges' = ranges
      /\ renewal' = renewal /\ leaseErr' = leaseErr /\ reader' = reader /\ open' = open
      /\ delivered' = delivered
  BY DEF AcquireReader
<1>2. /\ handler' \in HandlerType /\ handler'.stream = handler.stream
      /\ \/ lease' = "live" /\ handler'.at = "resolve" /\ handler'.outcome = "none"
         \/ lease' = "none" /\ handler'.at = "done" /\ handler'.outcome = "notFound"
  <2>1. handler \in HandlerType /\ handler.outcome = "none" /\ lease = "none"
    BY <1>1 DEF DownloadInd, DownloadTypes, StagesFit, Before
  <2>2. "resolve" \in Stage /\ "done" \in Stage /\ "notFound" \in Outcome
    BY DEF Stage, Outcome
  <2>3. CASE lease' = "live" /\ handler' = [handler EXCEPT !.at = "resolve"]
    BY <2>1, <2>2, <2>3, HandlerSetsAt DEF HandlerWithAt
  <2>4. CASE lease' = lease /\ handler' = [handler EXCEPT !.at = "done", !.outcome = "notFound"]
    <3>1. handler' = HandlerWithAtOutcome(handler, "done", "notFound")
      BY <2>4, Zenon DEF HandlerWithAtOutcome
    <3> QED  BY <2>1, <2>2, <2>4, <3>1, HandlerSetsAtOutcome
  <2> QED  BY <2>3, <2>4 DEF AcquireReader
<1>3. /\ reader = NoReader /\ renewal.at = "none" /\ delivered = <<>> /\ open = {} /\ ~leaseErr
  BY <1>1 DEF DownloadInd, StagesFit, Before
<1>4. DownloadTypes'
  BY <1>1, <1>2 DEF DownloadInd, DownloadTypes
<1>5. StagesFit'
  BY <1>1, <1>2, <1>3 DEF StagesFit, Before, Copying, NoReader
<1>6. StreamsHeld'
  BY <1>1, <1>2, <1>3 DEF StreamsHeld, Holders, NoReader
<1>7. BytesInOrder'
  BY <1>1, <1>2, <1>3 DEF BytesInOrder, Copying
<1>8. handler'.at \notin Copying
  BY <1>2 DEF Copying
<1> QED  BY <1>4, <1>5, <1>6, <1>7, <1>8 DEF DownloadInd

\* Whatever fails before there is a stream gives the lease back.
LEMMA FailsKeeps ==
  ASSUME DownloadInd, handler.at \in {"resolve", "index", "delayed"},
         NEW outcome \in {"notFound", "failed", "unsatisfiable"}, Fails(outcome),
         outcome = "unsatisfiable" => ranges # <<>> /\ Satisfiable = {},
         UNCHANGED <<archive, ranges, leaseErr, delivered>>
  PROVE  DownloadInd'
<1>1. /\ archive' = archive /\ ranges' = ranges /\ lease' = "released"
      /\ renewal' = renewal /\ leaseErr' = leaseErr /\ reader' = reader /\ open' = open
      /\ delivered' = delivered /\ handler' = [handler EXCEPT !.at = "done", !.outcome = outcome]
  BY DEF Fails
<1>2. handler' \in HandlerType /\ handler'.at = "done" /\ handler'.outcome = outcome
  <2>1. handler \in HandlerType
    BY <1>1 DEF DownloadInd, DownloadTypes
  <2>2. "done" \in Stage /\ outcome \in Outcome
    BY DEF Stage, Outcome
  <2>3. handler' = HandlerWithAtOutcome(handler, "done", outcome)
    BY <1>1, Zenon DEF HandlerWithAtOutcome
  <2> QED  BY <2>1, <2>2, <2>3, HandlerSetsAtOutcome
<1>3. /\ reader = NoReader /\ renewal.at = "none" /\ delivered = <<>> /\ open = {} /\ ~leaseErr
  BY <1>1 DEF DownloadInd, StagesFit, Before
<1>4. DownloadTypes'
  BY <1>1, <1>2 DEF DownloadInd, DownloadTypes
<1>5. StagesFit'
  BY <1>1, <1>2, <1>3 DEF StagesFit, Before, Copying, NoReader
<1>6. StreamsHeld'
  BY <1>1, <1>2, <1>3 DEF StreamsHeld, Holders, NoReader
<1>7. BytesInOrder'
  <2>1. Satisfiable' = Satisfiable
    BY <1>1, SelectionStays
  <2> QED  BY <1>1, <1>2, <1>3, <2>1 DEF BytesInOrder, Copying
<1>8. handler'.at \notin Copying
  BY <1>2 DEF Copying
<1> QED  BY <1>4, <1>5, <1>6, <1>7, <1>8 DEF DownloadInd

\* A reader begins where its range does.
LEMMA StreamsKeeps ==
  ASSUME DownloadInd, handler.at \in {"resolve", "index", "delayed"},
         NEW r \in ReaderType, Streams(r), ~r.closed, lease = "live",
         ranges = <<>> \/ Satisfiable # {},
         open' = IF r.current = None THEN {} ELSE {r.current},
         r.pos = 0,
         UNCHANGED <<archive, ranges, leaseErr, delivered>>,
         r.ranged => ranges # <<>>, ~(r.raw /\ r.ranged),
         r.raw => /\ r.current = Merged /\ r.from = From /\ r.count = Extent
                  /\ r.index = 0 /\ r.offset = 0,
         ~r.raw /\ ~r.ranged => ranges = <<>> /\ r.current = None /\ r.index = 0 /\ r.offset = 0,
         r.ranged => /\ r.current = None
                     /\ r.index = Part(From) /\ r.offset = Offset(From) /\ r.remaining = Extent
  PROVE  DownloadInd'
<1>1. /\ archive' = archive /\ ranges' = ranges /\ lease' = lease /\ leaseErr' = leaseErr
      /\ delivered' = delivered /\ reader' = r
      /\ handler' = [handler EXCEPT !.at = "streaming"]
      /\ renewal' = [renewal EXCEPT !.at = "running"]
  BY DEF Streams
<1>2. /\ handler' \in HandlerType /\ handler'.at = "streaming" /\ handler'.outcome = "none"
      /\ renewal' \in RenewalType /\ renewal'.at = "running"
  <2>1. handler \in HandlerType /\ renewal \in RenewalType /\ handler.outcome = "none"
    BY <1>1 DEF DownloadInd, DownloadTypes, StagesFit, Before
  <2>2. "streaming" \in Stage
    BY DEF Stage
  <2> QED  BY <1>1, <2>1, <2>2, HandlerSetsAt, RenewalSetsAt
           DEF HandlerWithAt, RenewalWithAt
<1>3. delivered = <<>> /\ open = {} /\ ~leaseErr
  BY <1>1 DEF DownloadInd, StagesFit, Before
<1>4. DownloadTypes'
  <2>1. open' \in SUBSET Nat
    BY ReaderHas DEF Stream
  <2> QED  BY <1>1, <1>2, <2>1 DEF DownloadInd, DownloadTypes
<1>5. StagesFit'
  BY <1>1, <1>2, <1>3 DEF StagesFit, Before, Copying, NoReader
<1>6. StreamsHeld'
  BY <1>1, <1>2, <1>3 DEF StreamsHeld, Holders, NoReader
<1>s. archive.sizes \in Seq(Nat) /\ ranges \in Seq(ByteRange)
  BY SizesAndRanges DEF DownloadInd
<1>f. /\ Parts' = Parts /\ Ends' = Ends /\ From' = From /\ Extent' = Extent
      /\ Satisfiable' = Satisfiable
  BY <1>1, SelectionStays
<1>w. /\ From \in Nat /\ Extent \in Nat /\ From + Extent <= Total
      /\ ranges # <<>> => Extent # 0
  BY <1>s, SelectionWanted
<1>p. Produced' = 0
  BY <1>1, <1>2, <1>3 DEF Produced
<1>7. BytesInOrder'
  BY <1>1, <1>2, <1>3, <1>f, <1>w, <1>p DEF BytesInOrder, Copying
<1>8. PositionKept'
  <2>e. /\ Parts \in Nat /\ Ends[0] = 0 /\ \A i \in 1 .. Parts : archive.sizes[i] \in Nat
    BY <1>s, EndsAdd
  <2>1. CASE r.raw
    <3>1. Holding'
      BY <1>1, <2>1, Zenon DEF Holding
    <3>2. 0 < Parts => archive.sizes[0 + 1] \in Nat
      BY <2>e
    <3> QED  BY <1>1, <1>2, <1>f, <1>w, <1>p, <2>1, <2>e, <3>1, <3>2 DEF PositionKept
  <2>2. CASE ~r.raw
    <3>1. ~Holding'
      BY <1>1, <1>2, <2>2 DEF Holding
    <3>2. CASE ~r.ranged
      <4>1. From = 0
        BY <3>2, <2>2 DEF From
      <4>2. 0 < Parts => archive.sizes[0 + 1] \in Nat
        BY <2>e
      <4> QED  BY <1>1, <1>2, <1>f, <1>w, <1>p, <2>2, <2>e, <3>1, <3>2, <4>1, <4>2
               DEF PositionKept
    <3>3. CASE r.ranged
      <4>1. From < Total
        BY <1>s, <1>w, <3>3, EndsAdd
      <4>2. /\ r.index \in 0 .. Parts - 1
            /\ r.offset \in Nat /\ r.offset <= archive.sizes[r.index + 1]
            /\ Ends[r.index] + r.offset = From
        BY <1>s, <1>w, <3>3, <4>1, PartHolds
      <4> QED  BY <1>1, <1>2, <1>f, <1>w, <1>p, <2>2, <2>e, <3>1, <3>3, <4>2
               DEF PositionKept
    <3> QED  BY <3>2, <3>3
  <2> QED  BY <2>1, <2>2
<1> QED  BY <1>4, <1>5, <1>6, <1>7, <1>8 DEF DownloadInd

LEMMA NoReaderFields ==
  /\ NoReader \in ReaderType
  /\ ~NoReader.raw /\ ~NoReader.ranged /\ ~NoReader.closed /\ NoReader.index = 0
  /\ NoReader.offset = 0 /\ NoReader.remaining = 0 /\ NoReader.current = None
  /\ NoReader.count = 0 /\ NoReader.from = 0 /\ NoReader.pos = 0
BY DEF NoReader, ReaderType, Stream

\* The ranged reader begins in the part that holds the first byte, at its offset.
LEMMA RangedKeeps ==
  ASSUME DownloadInd, handler.at \in {"index", "delayed"}, RangedPartsReader, lease = "live",
         Satisfiable # {}, UNCHANGED <<archive, ranges, leaseErr, delivered>>
  PROVE  DownloadInd'
<1>1. ranges # <<>> /\ open = {}
  BY DEF DownloadInd, StagesFit, Before
<1>2. From = Selected.offset /\ Extent = Selected.count
  BY <1>1 DEF From, Extent
<1>s. archive.sizes \in Seq(Nat) /\ ranges \in Seq(ByteRange)
  BY SizesAndRanges DEF DownloadInd
<1>w. From \in Nat /\ Extent \in Nat /\ From < Total /\ Parts \in Nat
  BY <1>1, <1>s, SelectionWanted, EndsAdd
<1>p. Part(From) \in Nat /\ Offset(From) \in Nat
  BY <1>s, <1>w, PartHolds
<1>4. PICK part \in Nat, offset \in Nat, count \in Nat, ranged \in BOOLEAN, fresh \in ReaderType :
        /\ part = Part(From) /\ offset = Offset(From) /\ count = Extent /\ ranged = TRUE
        /\ fresh = NoReader
  BY <1>p, <1>w, NoReaderFields, Zenon
<1>5. PICK r : r = ReaderWithRangedIndexOffsetRemaining(fresh, ranged, part, offset, count)
  OBVIOUS
<1>6. Streams(r) /\ open' = open
  BY <1>2, <1>4, <1>5, Zenon DEF RangedPartsReader, ReaderWithRangedIndexOffsetRemaining
<1>7. /\ r \in ReaderType /\ r.raw = fresh.raw /\ r.ranged = ranged /\ r.closed = fresh.closed
      /\ r.index = part /\ r.offset = offset /\ r.remaining = count
      /\ r.current = fresh.current /\ r.pos = fresh.pos
  BY <1>5, ReaderSetsRangedIndexOffsetRemaining
<1>8. /\ ~r.raw /\ r.ranged /\ ~r.closed /\ r.index = Part(From)
      /\ r.offset = Offset(From) /\ r.remaining = Extent /\ r.current = None /\ r.pos = 0
  BY <1>4, <1>7, NoReaderFields
<1> QED  BY <1>1, <1>6, <1>7, <1>8, StreamsKeeps

\* A single object is read from the first byte to the last that was selected.
LEMMA WholeKeeps ==
  ASSUME DownloadInd, handler.at = "resolve", ranges = <<>> \/ Satisfiable # {},
         OpenObject(From, Extent), UNCHANGED <<archive, ranges, leaseErr, delivered>>
  PROVE  DownloadInd'
<1>1. CASE archive.gone
  BY <1>1, FailsKeeps DEF OpenObject
<1>2. CASE ~archive.gone
  <2>1. open = {} /\ lease = "live"
    BY DEF DownloadInd, StagesFit, Before
  <2>s. archive.sizes \in Seq(Nat) /\ ranges \in Seq(ByteRange)
    BY SizesAndRanges DEF DownloadInd
  <2>4. PICK object \in Stream, from \in Nat, count \in Nat, raw \in BOOLEAN,
             fresh \in ReaderType :
          object = Merged /\ from = From /\ count = Extent /\ raw = TRUE /\ fresh = NoReader
    <3>1. From \in Nat /\ Extent \in Nat /\ Merged \in Stream
      BY <2>s, SelectionWanted DEF Merged, Stream
    <3> QED  BY <3>1, NoReaderFields, Zenon
  <2>5. PICK r : r = ReaderWithRawCurrentFromCount(fresh, raw, object, from, count)
    OBVIOUS
  <2>6. Streams(r) /\ open' = open \cup {Merged}
    BY <1>2, <2>4, <2>5, Zenon DEF OpenObject, ReaderWithRawCurrentFromCount
  <2>7. /\ r \in ReaderType /\ r.raw = raw /\ r.ranged = fresh.ranged /\ r.closed = fresh.closed
        /\ r.index = fresh.index /\ r.offset = fresh.offset
        /\ r.current = object /\ r.from = from /\ r.count = count /\ r.pos = fresh.pos
    BY <2>5, ReaderSetsRawCurrentFromCount
  <2>8. /\ r.raw /\ ~r.ranged /\ ~r.closed /\ r.index = 0 /\ r.offset = 0 /\ r.current = Merged
        /\ r.from = From /\ r.count = Extent /\ r.pos = 0
    BY <2>4, <2>7, NoReaderFields
  <2> QED  BY <2>1, <2>6, <2>7, <2>8, StreamsKeeps DEF Merged, None
<1> QED  BY <1>1, <1>2

\* The reader of all parts begins with the first.
LEMMA PartsReaderKeeps ==
  ASSUME DownloadInd, handler.at = "resolve", ranges = <<>>,
         PartsReader, UNCHANGED <<archive, ranges, leaseErr, delivered>>
  PROVE  DownloadInd'
<1>1. open = {} /\ lease = "live" /\ Streams(NoReader) /\ open' = open
  BY DEF DownloadInd, StagesFit, Before, PartsReader
<1> QED  BY <1>1, NoReaderFields, StreamsKeeps

\* A range over several parts needs their index first.
LEMMA IndexKeeps ==
  ASSUME DownloadInd, handler.at \in {"resolve", "index"}, ranges # <<>>, ~archive.merged,
         NEW stage \in {"index", "delayed"}, handler' = [handler EXCEPT !.at = stage],
         UNCHANGED <<archive, ranges, lease, renewal, leaseErr, reader, open, delivered>>
  PROVE  DownloadInd'
<1>1. handler' \in HandlerType /\ handler'.at = stage /\ handler'.outcome = handler.outcome
  <2>1. handler \in HandlerType /\ stage \in Stage
    BY DEF DownloadInd, DownloadTypes, Stage
  <2> QED  BY <2>1, HandlerSetsAt DEF HandlerWithAt
<1>2. /\ archive' = archive /\ ranges' = ranges /\ lease' = lease /\ leaseErr' = leaseErr
      /\ renewal' = renewal /\ reader' = reader /\ open' = open /\ delivered' = delivered
  OBVIOUS
<1>3. /\ reader = NoReader /\ renewal.at = "none" /\ delivered = <<>> /\ open = {} /\ ~leaseErr
      /\ handler.outcome = "none" /\ lease = "live"
  BY DEF DownloadInd, StagesFit, Before
<1>4. DownloadTypes'
  BY <1>1, <1>2 DEF DownloadInd, DownloadTypes
<1>5. StagesFit'
  BY <1>1, <1>2, <1>3 DEF StagesFit, Before, Copying
<1>6. StreamsHeld'
  BY <1>1, <1>2, <1>3, NoReaderFields DEF StreamsHeld, Holders
<1>7. BytesInOrder'
  BY <1>1, <1>2, <1>3 DEF BytesInOrder, Copying
<1>8. handler'.at \notin Copying
  BY <1>1 DEF Copying
<1> QED  BY <1>4, <1>5, <1>6, <1>7, <1>8 DEF DownloadInd

\* The representation and the range decide which reader it is.
LEMMA OpenStreamKeeps ==
  ASSUME DownloadInd, OpenStream
  PROVE  DownloadInd'
<1>1. handler.at = "resolve" /\ UNCHANGED <<archive, ranges, leaseErr, delivered>>
  BY DEF OpenStream
<1>2. CASE ranges = <<>>
  <2>1. OpenWhole
    BY <1>2 DEF OpenStream
  <2>2. CASE archive.merged
    <3>1. OpenObject(From, Extent)
      BY <1>2, <2>1, <2>2, Zenon DEF OpenWhole, From, Extent
    <3> QED  BY <1>1, <1>2, <3>1, WholeKeeps
  <2>3. CASE ~archive.merged
    <3>1. PartsReader
      BY <2>1, <2>3, Zenon DEF OpenWhole
    <3> QED  BY <1>1, <1>2, <3>1, PartsReaderKeeps
  <2> QED  BY <2>2, <2>3
<1>3. CASE ranges # <<>>
  <2>1. OpenRanges
    BY <1>3 DEF OpenStream
  <2>2. CASE Fails("notFound")
    BY <1>1, <2>2, FailsKeeps
  <2>3. CASE Satisfiable = {} /\ Fails("unsatisfiable")
    BY <1>1, <1>3, <2>3, FailsKeeps
  <2>4. CASE Satisfiable # {} /\ OpenObject(Selected.offset, Selected.count)
    <3>1. OpenObject(From, Extent)
      BY <1>3, <2>4, Zenon DEF From, Extent
    <3> QED  BY <1>1, <2>4, <3>1, WholeKeeps
  <2>5. CASE /\ Objects # 1 /\ handler' = [handler EXCEPT !.at = "index"]
             /\ UNCHANGED <<lease, renewal, reader, open>>
    <3>1. ~archive.merged
      BY <2>5 DEF Objects
    <3> QED  BY <1>1, <1>3, <2>5, <3>1, IndexKeeps
  <2> QED  BY <2>1, <2>2, <2>3, <2>4, <2>5, Zenon DEF OpenRanges
<1> QED  BY <1>2, <1>3

LEMMA OpenFailsKeeps ==
  ASSUME DownloadInd, OpenFails
  PROVE  DownloadInd'
BY FailsKeeps DEF OpenFails

\* The index is there at once, or the download is delayed.
LEMMA GetPartIndexKeeps ==
  ASSUME DownloadInd, GetPartIndex
  PROVE  DownloadInd'
<1>1. /\ handler.at = "index" /\ UNCHANGED <<archive, ranges, leaseErr, delivered>>
      /\ ranges # <<>> /\ ~archive.merged /\ lease = "live"
  BY DEF GetPartIndex, DownloadInd, StagesFit, Before
<1>2. CASE /\ handler' = [handler EXCEPT !.at = "delayed"]
           /\ UNCHANGED <<lease, renewal, reader, open>>
  BY <1>1, <1>2, IndexKeeps
<1>3. CASE Satisfiable = {} /\ Fails("unsatisfiable")
  BY <1>1, <1>3, FailsKeeps
<1>4. CASE Satisfiable # {} /\ RangedPartsReader
  BY <1>1, <1>4, RangedKeeps
<1> QED  BY <1>2, <1>3, <1>4 DEF GetPartIndex

\* After a delay a lease that is lost fails the download.
LEMMA RenewReaderKeeps ==
  ASSUME DownloadInd, RenewReaderAfterDelay
  PROVE  DownloadInd'
<1>1. /\ handler.at = "delayed" /\ UNCHANGED <<archive, ranges, leaseErr, delivered>>
      /\ ranges # <<>>
  BY DEF RenewReaderAfterDelay, DownloadInd, StagesFit
<1>2. CASE Fails("notFound")
  BY <1>1, <1>2, FailsKeeps
<1>3. CASE Satisfiable = {} /\ Fails("unsatisfiable")
  BY <1>1, <1>3, FailsKeeps
<1>4. CASE Satisfiable # {} /\ Renewed /\ RangedPartsReader
  BY <1>1, <1>4, RangedKeeps DEF Renewed
<1> QED  BY <1>2, <1>3, <1>4 DEF RenewReaderAfterDelay

-----------------------------------------------------------------------------
(* While bytes are copied.                                                   *)

\* What every step of copying needs of the invariant.
LEMMA CopyFacts ==
  ASSUME DownloadInd, handler.at \in Copying
  PROVE  /\ Parts \in Nat /\ Total \in Nat /\ Ends \in [0 .. Parts -> Nat] /\ Total = Ends[Parts]
         /\ \A i \in 1 .. Parts : /\ archive.sizes[i] \in Nat
                                  /\ Ends[i] = Ends[i - 1] + archive.sizes[i]
         /\ From \in Nat /\ Extent \in Nat /\ From + Extent <= Total
         /\ ranges # <<>> => Satisfiable # {} /\ Extent # 0
         /\ ranges = <<>> => From = 0 /\ Extent = Total
         /\ handler \in HandlerType /\ handler.n \in {0, 1} /\ handler.byte \in Nat
         /\ renewal \in RenewalType
         /\ reader \in ReaderType /\ reader.index \in Nat /\ reader.offset \in Nat
         /\ reader.remaining \in Nat /\ reader.current \in Stream /\ reader.count \in Nat
         /\ reader.from \in Nat /\ reader.pos \in Nat
         /\ delivered \in Seq(Nat) /\ Len(delivered) \in Nat
         /\ Produced \in Nat /\ Produced <= Extent
         /\ PositionKept
         /\ lease \in {"live", "lost"} /\ renewal.at # "none" /\ handler.outcome = "none"
<1>s. archive.sizes \in Seq(Nat) /\ ranges \in Seq(ByteRange)
  BY SizesAndRanges DEF DownloadInd
<1>1. /\ Parts \in Nat /\ Total \in Nat /\ Ends \in [0 .. Parts -> Nat] /\ Total = Ends[Parts]
      /\ \A i \in 1 .. Parts : archive.sizes[i] \in Nat /\ Ends[i] = Ends[i - 1] + archive.sizes[i]
  BY <1>s, EndsAdd DEF Total
<1>2. ranges # <<>> => Satisfiable # {}
  BY DEF DownloadInd, BytesInOrder
<1>3. /\ From \in Nat /\ Extent \in Nat /\ From + Extent <= Total
      /\ ranges # <<>> => Extent # 0
  BY <1>s, <1>2, SelectionWanted
<1>4. ranges = <<>> => From = 0 /\ Extent = Total
  BY Zenon DEF From, Extent
<1>5. /\ handler \in HandlerType /\ renewal \in RenewalType /\ reader \in ReaderType
      /\ delivered \in Seq(Nat)
  BY DEF DownloadInd, DownloadTypes
<1>6. handler.n \in {0, 1} /\ handler.byte \in Nat
  BY <1>5, HandlerHas, Zenon
<1>7. /\ reader.index \in Nat /\ reader.offset \in Nat
      /\ reader.remaining \in Nat /\ reader.current \in Stream /\ reader.count \in Nat
      /\ reader.from \in Nat /\ reader.pos \in Nat
  BY <1>5, ReaderHas, Zenon
<1>8. Len(delivered) \in Nat
  BY <1>5
<1>9. Produced \in Nat /\ Produced <= Extent
  BY <1>6, <1>8 DEF Produced, DownloadInd, BytesInOrder
<1>10. PositionKept /\ lease \in {"live", "lost"} /\ renewal.at # "none" /\ handler.outcome = "none"
  BY DEF DownloadInd, StagesFit
<1> QED  BY <1>1, <1>2, <1>3, <1>4, <1>5, <1>6, <1>7, <1>8, <1>9, <1>10

\* What was selected depends on the archive's sizes and on the ranges alone.
LEMMA SizesStay ==
  ASSUME archive'.sizes = archive.sizes, ranges' = ranges
  PROVE  /\ Parts' = Parts /\ Ends' = Ends /\ Total' = Total
         /\ Satisfiable' = Satisfiable /\ From' = From /\ Extent' = Extent
         /\ reader' = reader => Available' = Available
<1>1. reader' = reader => Available' = Available
  BY Zenon DEF Available
<1> QED  BY <1>1, SelectionStays

\* Copying ends, with all bytes or with an error.
LEMMA CopyEndsKeeps ==
  ASSUME DownloadInd, handler.at \in {"streaming", "returned"},
         NEW outcome \in {"failed", "complete"}, CopyEnds(outcome),
         UNCHANGED <<archive, ranges, lease, renewal, leaseErr, reader, open>>,
         delivered' = IF handler.at = "returned" /\ handler.n > 0
                        THEN Append(delivered, handler.byte) ELSE delivered,
         outcome = "complete" => handler.at = "returned" /\ handler.err = "eof"
  PROVE  DownloadInd'
<1>f. handler.at \in Copying /\ handler.at # "finish"
  BY DEF Copying
<1>1. /\ handler' \in HandlerType /\ handler'.at = "closing" /\ handler'.outcome = outcome
  <2>1. handler \in HandlerType /\ "closing" \in Stage /\ outcome \in Outcome
    BY <1>f, CopyFacts DEF Stage, Outcome
  <2>2. handler' = HandlerWithAtOutcome(handler, "closing", outcome)
    BY Zenon DEF HandlerWithAtOutcome, CopyEnds
  <2> QED  BY <2>1, <2>2, HandlerSetsAtOutcome
<1>2. /\ archive' = archive /\ ranges' = ranges /\ lease' = lease /\ leaseErr' = leaseErr
      /\ renewal' = renewal /\ reader' = reader /\ open' = open
  OBVIOUS
<1>3. /\ delivered' \in Seq(Nat) /\ Len(delivered') = Produced
      /\ \A i \in 1 .. Produced : delivered'[i] = From + i - 1
  <2>1. /\ handler.n \in {0, 1} /\ handler.byte \in Nat /\ delivered \in Seq(Nat)
        /\ Len(delivered) \in Nat /\ From \in Nat
    BY <1>f, CopyFacts
  <2>2. /\ \A i \in 1 .. Len(delivered) : delivered[i] = From + i - 1
        /\ handler.at = "returned" /\ handler.n = 1 => handler.byte = From + Len(delivered)
    BY DEF DownloadInd, BytesInOrder
  <2>3. CASE handler.at = "returned" /\ handler.n = 1
    <3>1. delivered' = Append(delivered, handler.byte) /\ Produced = Len(delivered) + 1
      BY <2>3 DEF Produced
    <3> QED  BY <2>1, <2>2, <2>3, <3>1
  <2>4. CASE ~(handler.at = "returned" /\ handler.n = 1)
    <3>1. delivered' = delivered /\ Produced = Len(delivered)
      BY <1>f, <2>1, <2>4 DEF Produced
    <3> QED  BY <2>1, <2>2, <3>1
  <2> QED  BY <2>3, <2>4
<1>4. DownloadTypes'
  BY <1>1, <1>2, <1>3 DEF DownloadInd, DownloadTypes
<1>5. StagesFit'
  BY <1>f, <1>1, <1>2, CopyFacts DEF StagesFit, Before, Copying
<1>6. StreamsHeld'
  BY <1>f, <1>1, <1>2, Zenon DEF DownloadInd, StreamsHeld, Holders
<1>7. BytesInOrder'
  <2>1. From' = From /\ Extent' = Extent /\ Satisfiable' = Satisfiable
    BY <1>2, SizesStay
  <2>2. Produced' = Produced
    BY <1>1, <1>3, <1>f, CopyFacts DEF Produced
  <2>3. Produced <= Extent /\ (ranges # <<>> => Satisfiable # {})
    BY <1>f, CopyFacts
  <2>4. outcome = "complete" => Produced = Extent
    BY DEF DownloadInd, BytesInOrder
  <2> QED  BY <1>1, <1>2, <1>3, <2>1, <2>2, <2>3, <2>4 DEF BytesInOrder, Copying
<1>8. handler'.at \notin Copying
  BY <1>1 DEF Copying
<1> QED  BY <1>4, <1>5, <1>6, <1>7, <1>8 DEF DownloadInd

\* The handler goes on, and the reader is as it was.
LEMMA HandlerMoves ==
  ASSUME DownloadInd, handler.at \in Copying,
         handler' \in HandlerType, handler'.at \in Copying, handler'.outcome = handler.outcome,
         UNCHANGED <<archive, ranges, lease, renewal, leaseErr, reader>>,
         open' \in SUBSET Nat, StreamsHeld',
         delivered' \in Seq(Nat), Produced' = Produced,
         \A i \in 1 .. Len(delivered') : delivered'[i] = From + i - 1,
         handler'.at \in {"finish", "returned"} /\ handler'.n = 1 =>
           handler'.byte = From + Len(delivered'),
         handler'.at = "returned" /\ handler'.err = "eof" => Produced = Extent,
         Holding' => Holding, Holding => Holding' \/ reader.closed,
         handler'.at \in {"open", "install"} /\ ~reader.closed =>
           /\ reader.index < Parts
           /\ reader.ranged => reader.remaining > 0 /\ Available > 0,
         handler'.at = "finish" => handler'.err = "eof" /\ AtEnd
  PROVE  DownloadInd'
<1>1. /\ archive' = archive /\ ranges' = ranges /\ lease' = lease /\ leaseErr' = leaseErr
      /\ renewal' = renewal /\ reader' = reader
  OBVIOUS
<1>2. /\ Parts' = Parts /\ Ends' = Ends /\ From' = From /\ Extent' = Extent
      /\ Satisfiable' = Satisfiable /\ Available' = Available
  BY <1>1, SizesStay
<1>3. DownloadTypes'
  BY <1>1 DEF DownloadInd, DownloadTypes
<1>4. StagesFit'
  BY <1>1, CopyFacts DEF StagesFit, Before, Copying
<1>5. BytesInOrder'
  <2>1. Produced <= Extent /\ (ranges # <<>> => Satisfiable # {}) /\ handler.outcome = "none"
    BY CopyFacts
  <2> QED  BY <1>1, <1>2, <2>1 DEF BytesInOrder, Copying
<1>6. PositionKept'
  <2>1. PositionKept
    BY CopyFacts
  <2>2. AtEnd' = AtEnd
    BY <1>1, Zenon DEF AtEnd
  <2> QED  BY <1>1, <1>2, <2>1, <2>2 DEF PositionKept
<1> QED  BY <1>3, <1>4, <1>5, <1>6 DEF DownloadInd

\* A read begins: in the open stream, at the end, or by choosing a part.
LEMMA ReadKeeps ==
  ASSUME DownloadInd, Read
  PROVE  DownloadInd'
<1>1. /\ handler.at = "streaming"
      /\ UNCHANGED <<archive, ranges, lease, renewal, leaseErr, reader, open, delivered>>
  BY DEF Read
<1>c. handler.at \in Copying
  BY <1>1 DEF Copying
<1>2. CASE CopyEnds("failed")
  BY <1>1, <1>2, CopyEndsKeeps
<1>3. ASSUME NEW stage \in {"select", "read"}, handler' \in HandlerType, handler'.at = stage,
             handler'.outcome = handler.outcome,
             stage = "select" => ~reader.raw,
             stage = "read" => handler'.stream \in Nat
                               /\ (reader.closed \/ handler'.stream = reader.current),
             stage = "read" => reader.raw
      PROVE  DownloadInd'
  <2>1. handler'.at \in Copying
    BY <1>3 DEF Copying
  <2>2. StreamsHeld'
    BY <1>1, <1>3 DEF DownloadInd, StreamsHeld, Holders
  <2>3. Produced' = Produced /\ (Holding' <=> Holding)
    BY <1>1, <1>3 DEF Produced, Holding
  <2>4. open' \in SUBSET Nat /\ delivered' \in Seq(Nat)
    BY <1>1 DEF DownloadInd, DownloadTypes
  <2>5. \A i \in 1 .. Len(delivered') : delivered'[i] = From + i - 1
    BY <1>1 DEF DownloadInd, BytesInOrder
  <2> QED  BY <1>1, <1>c, <1>3, <2>1, <2>2, <2>3, <2>4, <2>5, HandlerMoves
<1>t. handler \in HandlerType /\ "select" \in Stage /\ "read" \in Stage
  BY <1>c, CopyFacts DEF Stage
<1>4. CASE ~reader.raw /\ Go("select")
  <2>1. handler' = HandlerWithAt(handler, "select")
    BY <1>4, Zenon DEF Go, HandlerWithAt
  <2> QED  BY <1>3, <1>4, <1>t, <2>1, HandlerSetsAt
<1>5. CASE reader.raw /\ handler' = [handler EXCEPT !.at = "read", !.stream = Merged]
  <2>1. handler' = HandlerWithAtStream(handler, "read", Merged)
    BY <1>5, Zenon DEF HandlerWithAtStream
  <2>2. Merged \in Stream /\ Merged \in Nat
    BY DEF Merged, Stream
  <2>3. handler' \in HandlerType /\ handler'.at = "read" /\ handler'.stream = Merged
        /\ handler'.outcome = handler.outcome
    BY <1>t, <2>1, <2>2, HandlerSetsAtStream
  <2>4. reader.closed \/ Merged = reader.current
    BY <1>5 DEF DownloadInd, StreamsHeld
  <2> QED  BY <1>3, <1>5, <2>2, <2>3, <2>4
<1> QED  BY <1>1, <1>2, <1>4, <1>5 DEF Read

LEMMA GoSets ==
  ASSUME handler \in HandlerType, NEW stage \in Stage, Go(stage)
  PROVE  /\ handler' \in HandlerType /\ handler'.at = stage
         /\ handler'.outcome = handler.outcome /\ handler'.stream = handler.stream
         /\ handler'.n = handler.n /\ handler'.byte = handler.byte /\ handler'.err = handler.err
<1>1. handler' = HandlerWithAt(handler, stage)
  BY Zenon DEF Go, HandlerWithAt
<1> QED  BY <1>1, HandlerSetsAt

LEMMA ReturnsSets ==
  ASSUME handler \in HandlerType, NEW n \in {0, 1}, NEW byte \in Nat, NEW err \in Error,
         Returns(n, byte, err)
  PROVE  /\ handler' \in HandlerType /\ handler'.at = "returned"
         /\ handler'.outcome = handler.outcome /\ handler'.stream = handler.stream
         /\ handler'.n = n /\ handler'.byte = byte /\ handler'.err = err
<1>1. "returned" \in Stage
  BY DEF Stage
<1>2. handler' = HandlerWithAtNByteErr(handler, "returned", n, byte, err)
  BY Zenon DEF Returns, HandlerWithAtNByteErr
<1> QED  BY <1>1, <1>2, HandlerSetsAtNByteErr

\* Read returns nothing but an error, or the end if all was read.
LEMMA NothingReturned ==
  ASSUME DownloadInd, handler.at \in {"select", "open", "install"},
         NEW err \in {"eof", "failed"}, Returns(0, 0, err),
         UNCHANGED <<archive, ranges, lease, renewal, leaseErr, reader, delivered>>,
         open' \in SUBSET Nat, open' \subseteq open, open \ {handler.stream} \subseteq open',
         handler.at = "install" => handler.stream \notin open',
         handler.at # "install" => open' = open,
         handler.at = "install" => reader.closed,
         err = "eof" => Produced = Extent
  PROVE  DownloadInd'
<1>c. handler.at \in Copying /\ 0 \in Nat /\ err \in Error
  BY DEF Copying, Error
<1>t. handler \in HandlerType /\ renewal \in RenewalType /\ delivered \in Seq(Nat)
  BY <1>c, CopyFacts
<1>1. /\ handler' \in HandlerType /\ handler'.at = "returned"
      /\ handler'.outcome = handler.outcome
      /\ handler'.n = 0 /\ handler'.byte = 0 /\ handler'.err = err
  BY <1>c, <1>t, ReturnsSets
<1>2. handler'.at \in Copying
  BY <1>1 DEF Copying
<1>3. StreamsHeld'
  BY <1>1 DEF DownloadInd, StreamsHeld, Holders
<1>4. Produced' = Produced /\ (Holding' <=> Holding)
  BY <1>1 DEF Produced, Holding
<1>5. \A i \in 1 .. Len(delivered') : delivered'[i] = From + i - 1
  BY DEF DownloadInd, BytesInOrder
<1> QED  BY <1>c, <1>t, <1>1, <1>2, <1>3, <1>4, <1>5, HandlerMoves

\* The handler goes on with the reader.
LEMMA ReaderMoves ==
  ASSUME DownloadInd, handler.at \in Copying,
         handler' \in HandlerType, handler'.at \in Copying, handler'.outcome = handler.outcome,
         reader' \in ReaderType,
         UNCHANGED <<archive, ranges, lease, renewal, leaseErr, delivered>>,
         open' \in SUBSET Nat, StreamsHeld', Produced' \in Nat, Produced' <= Extent,
         handler'.at \in {"finish", "returned"} /\ handler'.n = 1 =>
           handler'.byte = From + Len(delivered),
         handler'.at = "returned" /\ handler'.err = "eof" => Produced' = Extent,
         PositionKept'
  PROVE  DownloadInd'
<1>1. /\ archive' = archive /\ ranges' = ranges /\ lease' = lease /\ leaseErr' = leaseErr
      /\ renewal' = renewal /\ delivered' = delivered
  OBVIOUS
<1>2. /\ From' = From /\ Extent' = Extent /\ Satisfiable' = Satisfiable
  BY <1>1, SizesStay
<1>3. DownloadTypes'
  BY <1>1 DEF DownloadInd, DownloadTypes
<1>4. StagesFit'
  BY <1>1, CopyFacts DEF StagesFit, Before, Copying
<1>5. BytesInOrder'
  <2>1. (ranges # <<>> => Satisfiable # {}) /\ handler.outcome = "none"
    BY CopyFacts
  <2>2. \A i \in 1 .. Len(delivered) : delivered[i] = From + i - 1
    BY DEF DownloadInd, BytesInOrder
  <2> QED  BY <1>1, <1>2, <2>1, <2>2 DEF BytesInOrder, Copying
<1> QED  BY <1>3, <1>4, <1>5 DEF DownloadInd

\* Empty parts, and an offset at the end of a part, are stepped over.
LEMMA SelectPartKeeps ==
  ASSUME DownloadInd, SelectPart
  PROVE  DownloadInd'
<1>1. /\ handler.at = "select"
      /\ UNCHANGED <<archive, ranges, lease, renewal, leaseErr, open, delivered>>
  BY DEF SelectPart
<1>c. handler.at \in Copying
  BY <1>1 DEF Copying
<1>t. /\ handler \in HandlerType /\ delivered \in Seq(Nat) /\ open \in SUBSET Nat
      /\ \A i \in 1 .. Len(delivered) : delivered[i] = From + i - 1
      /\ ~reader.raw /\ Produced = Len(delivered)
  BY <1>c, <1>1, CopyFacts DEF DownloadInd, DownloadTypes, BytesInOrder, StreamsHeld, Produced
<1>p. PositionKept /\ Produced <= Extent /\ Produced \in Nat /\ Extent \in Nat
  BY <1>c, CopyFacts
<1>2. CASE Returns(0, 0, "failed") /\ UNCHANGED reader
  BY <1>1, <1>2, <1>t, NothingReturned
<1>3. CASE reader.current # None /\ UNCHANGED reader
           /\ handler' = [handler EXCEPT !.at = "read", !.stream = reader.current]
  <2>1. handler' = HandlerWithAtStream(handler, "read", reader.current)
    BY <1>3, Zenon DEF HandlerWithAtStream
  <2>2. reader.current \in Stream /\ reader.current \in Nat /\ "read" \in Stage
    BY <1>c, <1>3, CopyFacts DEF Stream, Stage
  <2>3. /\ handler' \in HandlerType /\ handler'.at = "read" /\ handler'.stream = reader.current
        /\ handler'.outcome = handler.outcome
    BY <1>t, <2>1, <2>2, HandlerSetsAtStream
  <2>4. handler'.at \in Copying
    BY <2>3 DEF Copying
  <2>5. StreamsHeld'
    BY <1>1, <1>3, <2>2, <2>3 DEF DownloadInd, StreamsHeld, Holders
  <2>6. Produced' = Produced /\ (Holding' <=> Holding)
    BY <1>1, <1>3, <2>3 DEF Produced, Holding
  <2> QED  BY <1>1, <1>3, <1>c, <1>t, <2>3, <2>4, <2>5, <2>6, HandlerMoves
<1>4. CASE /\ ~reader.closed /\ reader.current = None
           /\ IF reader.ranged THEN reader.remaining = 0 ELSE reader.index >= Parts
           /\ Returns(0, 0, "eof") /\ UNCHANGED reader
  <2>1. ~Holding
    BY <1>1, <1>4, <1>t DEF Holding
  <2>2. Produced = Extent
    <3>1. CASE reader.ranged
      BY <1>4, <1>p, <2>1, <3>1 DEF PositionKept
    <3>2. CASE ~reader.ranged
      <4>1. reader.index = Parts /\ Ends[reader.index] = From + Produced /\ ranges = <<>>
        BY <1>4, <1>p, <1>c, <1>t, <2>1, <3>2, CopyFacts, SMTT(30) DEF PositionKept
      <4> QED  BY <1>c, <1>p, <4>1, CopyFacts
    <3> QED  BY <3>1, <3>2
  <2> QED  BY <1>1, <1>4, <1>t, <2>2, NothingReturned
<1>5. CASE /\ ~reader.closed /\ reader.current = None
           /\ ~(IF reader.ranged THEN reader.remaining = 0 ELSE reader.index >= Parts)
           /\ ~(reader.ranged /\ reader.remaining > 0 /\ reader.index >= Parts)
  <2>1. ~Holding /\ reader.index \in Nat /\ Parts \in Nat /\ reader.remaining \in Nat
    BY <1>1, <1>5, <1>c, <1>t, CopyFacts DEF Holding
  <2>2. reader.index < Parts /\ (reader.ranged => reader.remaining > 0)
    BY <1>5, <2>1
  <2>3. CASE Skippable /\ UNCHANGED handler
             /\ reader' = [reader EXCEPT !.index = @ + 1, !.offset = 0]
    <3>1. reader' = ReaderWithIndexOffset(reader, reader.index + 1, 0)
      BY <2>3, Zenon DEF ReaderWithIndexOffset
    <3>2. /\ reader' \in ReaderType /\ reader'.raw = reader.raw /\ reader'.ranged = reader.ranged
          /\ reader'.closed = reader.closed /\ reader'.index = reader.index + 1
          /\ reader'.offset = 0 /\ reader'.remaining = reader.remaining
          /\ reader'.current = reader.current
      <4>1. reader \in ReaderType /\ reader.index + 1 \in Nat /\ 0 \in Nat
        BY <1>c, <2>1, CopyFacts, SMTT(30)
      <4> QED  BY <3>1, <4>1, ReaderSetsIndexOffset
    <3>3. /\ reader.ranged /\ Ends[reader.index + 1] = From + Produced
          /\ reader.index + 1 < Parts => archive.sizes[reader.index + 1 + 1] \in Nat
      <4>1. reader.ranged /\ archive.sizes[reader.index + 1] - reader.offset <= 0
        BY <2>3 DEF Skippable, Available
      <4>2. /\ reader.offset <= archive.sizes[reader.index + 1]
            /\ Ends[reader.index] + reader.offset = From + Produced
        BY <1>p, <1>5, <2>1, <2>2, <4>1 DEF PositionKept
      <4>3. /\ archive.sizes[reader.index + 1] \in Nat /\ reader.offset \in Nat
            /\ Ends[reader.index + 1] = Ends[reader.index] + archive.sizes[reader.index + 1]
            /\ Ends[reader.index] \in Nat
            /\ reader.index + 1 < Parts => archive.sizes[reader.index + 1 + 1] \in Nat
        <5>1. /\ reader.index + 1 \in 1 .. Parts /\ (reader.index + 1) - 1 = reader.index
              /\ reader.index \in 0 .. Parts
              /\ reader.index + 1 < Parts => reader.index + 1 + 1 \in 1 .. Parts
          BY <2>1, <2>2
        <5> QED  BY <1>c, <5>1, CopyFacts
      <4> QED  BY <4>1, <4>2, <4>3
    <3>4. /\ archive' = archive /\ ranges' = ranges /\ lease' = lease /\ leaseErr' = leaseErr
          /\ renewal' = renewal /\ delivered' = delivered /\ handler' = handler /\ open' = open
      BY <1>1, <2>3
    <3>5. StreamsHeld'
      BY <3>2, <3>4 DEF DownloadInd, StreamsHeld, Holders
    <3>6. Produced' = Produced /\ ~Holding'
      BY <1>1, <1>t, <1>5, <3>2, <3>4 DEF Produced, Holding
    <3>7. PositionKept'
      <4>1. Parts' = Parts /\ Ends' = Ends /\ From' = From /\ Extent' = Extent
        BY <3>4, SizesStay
      <4>2. reader.ranged => ranges # <<>> /\ reader.remaining + Produced = Extent
        BY <1>p, <1>5, <2>1 DEF PositionKept
      <4>3. From \in Nat
        BY <1>c, CopyFacts
      <4> QED  BY <1>1, <1>5, <1>t, <1>p, <2>1, <2>2, <3>2, <3>3, <3>4, <3>6, <4>1, <4>2, <4>3
               DEF PositionKept
    <3> QED  BY <1>1, <1>c, <1>t, <1>p, <3>2, <3>4, <3>5, <3>6, <3>7, ReaderMoves
  <2>4. CASE ~Skippable /\ Go("open") /\ UNCHANGED reader
    <3>1. /\ handler' \in HandlerType /\ handler'.at = "open"
          /\ handler'.outcome = handler.outcome
      BY <1>t, <2>4, GoSets DEF Stage
    <3>2. handler'.at \in Copying
      BY <3>1 DEF Copying
    <3>3. StreamsHeld'
      BY <1>1, <1>5, <1>t, <2>4, <3>1 DEF DownloadInd, StreamsHeld, Holders
    <3>4. Produced' = Produced /\ (Holding' <=> Holding)
      BY <1>1, <2>4, <3>1 DEF Produced, Holding
    <3>5. reader.ranged => Available > 0
      <4>1. archive.sizes[reader.index + 1] \in Nat /\ reader.offset \in Nat
        <5>1. reader.index + 1 \in 1 .. Parts
          BY <2>1, <2>2
        <5> QED  BY <1>c, <5>1, CopyFacts
      <4> QED  BY <2>4, <4>1 DEF Skippable, Available
    <3> QED  BY <1>1, <1>c, <1>t, <2>2, <2>4, <3>1, <3>2, <3>3, <3>4, <3>5, HandlerMoves
  <2> QED  BY <1>5, <2>3, <2>4 DEF SelectPart
<1> QED  BY <1>2, <1>3, <1>4, <1>5, Zenon DEF SelectPart

\* The part is opened outside of the lock; a Close may come before it is installed.
LEMMA OpenPartKeeps ==
  ASSUME DownloadInd, OpenPart
  PROVE  DownloadInd'
<1>1. /\ handler.at = "open"
      /\ UNCHANGED <<archive, ranges, lease, renewal, leaseErr, reader, delivered>>
  BY DEF OpenPart
<1>c. handler.at \in Copying
  BY <1>1 DEF Copying
<1>t. /\ handler \in HandlerType /\ delivered \in Seq(Nat) /\ open \in SUBSET Nat
      /\ \A i \in 1 .. Len(delivered) : delivered[i] = From + i - 1
      /\ reader.index \in Nat /\ PositionKept
  BY <1>c, CopyFacts DEF DownloadInd, DownloadTypes, BytesInOrder
<1>2. CASE Returns(0, 0, "failed") /\ UNCHANGED open
  BY <1>1, <1>2, <1>t, NothingReturned
<1>3. CASE /\ handler' = [handler EXCEPT !.at = "install", !.stream = reader.index]
           /\ open' = open \cup {reader.index}
  <2>1. handler' = HandlerWithAtStream(handler, "install", reader.index)
    BY <1>3, Zenon DEF HandlerWithAtStream
  <2>2. reader.index \in Stream /\ "install" \in Stage
    BY <1>t DEF Stream, Stage
  <2>3. /\ handler' \in HandlerType /\ handler'.at = "install"
        /\ handler'.stream = reader.index /\ handler'.outcome = handler.outcome
    BY <1>t, <2>1, <2>2, HandlerSetsAtStream
  <2>4. handler'.at \in Copying
    BY <2>3 DEF Copying
  <2>5. StreamsHeld' /\ open' \in SUBSET Nat
    BY <1>1, <1>3, <1>t, <2>3 DEF DownloadInd, StreamsHeld, Holders
  <2>6. Produced' = Produced /\ (Holding' <=> Holding)
    BY <1>1, <2>3 DEF Produced, Holding
  <2>7. ~reader.closed => /\ reader.index < Parts
                          /\ reader.ranged => reader.remaining > 0 /\ Available > 0
    BY <1>1, <1>t DEF PositionKept
  <2> QED  BY <1>1, <1>c, <1>t, <2>3, <2>4, <2>5, <2>6, <2>7, HandlerMoves
<1> QED  BY <1>2, <1>3 DEF OpenPart

\* currentStream: what a part is asked for is the rest of it, or all that is wanted.
LEMMA CountTaken ==
  ASSUME DownloadInd, handler.at = "install", ~reader.closed
  PROVE  /\ reader.index < Parts /\ Ends[reader.index] \in Nat /\ Count \in Nat
         /\ ~Holding
         /\ Ends[reader.index] + reader.offset = From + Produced
         /\ From + Produced + Count <= From + Extent
         /\ ~reader.ranged => From + Produced + Count = Ends[reader.index + 1]
         /\ reader.ranged => \/ Count = reader.remaining
                             \/ From + Produced + Count = Ends[reader.index + 1]
         /\ reader.ranged => reader.remaining + Produced = Extent
<1>c. handler.at \in Copying
  BY DEF Copying
<1>f. /\ Parts \in Nat /\ From \in Nat /\ Extent \in Nat /\ From + Extent <= Total
      /\ reader.index \in Nat /\ reader.offset \in Nat /\ reader.remaining \in Nat
      /\ Produced \in Nat /\ PositionKept /\ Total = Ends[Parts]
      /\ ranges = <<>> => From = 0 /\ Extent = Total
  BY <1>c, CopyFacts
<1>1. ~reader.raw /\ reader.current = None /\ ~Holding
  BY DEF DownloadInd, StreamsHeld, Holding
<1>2. /\ reader.index < Parts
      /\ reader.ranged => reader.remaining > 0 /\ Available > 0
      /\ ~reader.ranged => /\ Ends[reader.index] = From + Produced /\ reader.offset = 0
                           /\ ranges = <<>>
      /\ reader.ranged => /\ reader.remaining + Produced = Extent
                          /\ reader.remaining > 0 =>
                               Ends[reader.index] + reader.offset = From + Produced
  BY <1>1, <1>f DEF PositionKept
<1>3. /\ archive.sizes[reader.index + 1] \in Nat /\ Ends[reader.index] \in Nat
      /\ Ends[reader.index + 1] = Ends[reader.index] + archive.sizes[reader.index + 1]
  <2>1. /\ reader.index + 1 \in 1 .. Parts /\ (reader.index + 1) - 1 = reader.index
        /\ reader.index \in 0 .. Parts
    BY <1>f, <1>2
  <2> QED  BY <1>c, <2>1, CopyFacts
<1>4. Available = archive.sizes[reader.index + 1] - reader.offset /\ Available \in Int
  BY <1>f, <1>3 DEF Available
<1>5. CASE reader.ranged
  <2>1. Count = IF Available <= reader.remaining THEN Available ELSE reader.remaining
    <3>1. Count = Min({Available, reader.remaining})
      BY <1>5 DEF Count
    <3> QED  BY <1>4, <1>f, <3>1, LeastOfTwo
  <2>2. /\ Ends[reader.index] + reader.offset = From + Produced
        /\ reader.remaining + Produced = Extent
    BY <1>2, <1>5
  <2>3. Ends[reader.index + 1] = From + Produced + Available
    <3>1. PICK e \in Nat, s \in Nat, o \in Nat :
            e = Ends[reader.index] /\ s = archive.sizes[reader.index + 1] /\ o = reader.offset
      BY <1>f, <1>3, Zenon
    <3>2. Ends[reader.index + 1] = e + s /\ Available = s - o /\ e + o = From + Produced
      BY <1>3, <1>4, <2>2, <3>1, Zenon
    <3> QED  BY <1>f, <3>2
  <2>4. Available > 0
    BY <1>2, <1>5
  <2>5. /\ Count \in Nat /\ Count <= reader.remaining
        /\ \/ Count = reader.remaining
           \/ From + Produced + Count = Ends[reader.index + 1]
    BY <1>f, <1>4, <2>1, <2>3, <2>4
  <2>6. From + Produced + Count <= From + Extent
    BY <1>f, <2>2, <2>5
  <2> QED  BY <1>1, <1>2, <1>3, <1>5, <2>2, <2>5, <2>6
<1>6. CASE ~reader.ranged
  <2>1. Count = Available
    BY <1>6 DEF Count
  <2>2. Ends[reader.index + 1] <= Ends[Parts]
    <3>1. /\ archive.sizes \in Seq(Nat) /\ reader.index + 1 \in 0 .. Parts /\ Parts \in 0 .. Parts
          /\ reader.index + 1 <= Parts
      BY <1>f, <1>2, SizesAndRanges DEF DownloadInd
    <3> QED  BY <3>1, EndsGrow
  <2> QED  BY <1>f, <1>1, <1>2, <1>3, <1>4, <1>6, <2>1, <2>2, SMTT(30)
<1> QED  BY <1>5, <1>6

\* A stream that was opened for a reader closed meanwhile is closed at once.
LEMMA InstallStreamKeeps ==
  ASSUME DownloadInd, InstallStream
  PROVE  DownloadInd'
<1>1. handler.at = "install" /\ UNCHANGED <<archive, ranges, lease, renewal, leaseErr, delivered>>
  BY DEF InstallStream
<1>c. handler.at \in Copying
  BY <1>1 DEF Copying
<1>t. /\ handler \in HandlerType /\ delivered \in Seq(Nat) /\ open \in SUBSET Nat
      /\ handler.stream \in Nat
  BY <1>c, <1>1, CopyFacts DEF DownloadInd, DownloadTypes, StreamsHeld
<1>2. CASE reader.closed
  <2>1. Returns(0, 0, "failed") /\ open' = open \ {handler.stream} /\ UNCHANGED reader
    BY <1>2 DEF InstallStream, ClosedMeanwhile
  <2> QED  BY <1>1, <1>2, <1>t, <2>1, NothingReturned
<1>3. CASE ~reader.closed
  <2>1. /\ reader' = [reader EXCEPT !.current = handler.stream,
                         !.from = Ends[reader.index] + reader.offset,
                         !.count = Count, !.pos = 0,
                         !.index = @ + 1, !.offset = 0]
        /\ Go("read") /\ open' = open
    BY <1>3, Zenon DEF InstallStream, ClosedMeanwhile
  <2>2. /\ handler' \in HandlerType /\ handler'.at = "read" /\ handler'.stream = handler.stream
        /\ handler'.outcome = handler.outcome
    BY <1>t, <2>1, GoSets DEF Stage
  <2>3. /\ reader \in ReaderType /\ reader.index \in Nat /\ reader.offset \in Nat
        /\ From \in Nat /\ Produced \in Nat /\ Extent \in Nat /\ Parts \in Nat
        /\ reader.remaining \in Nat /\ PositionKept /\ Produced <= Extent
    BY <1>c, CopyFacts
  <2>4. /\ reader.index < Parts /\ Ends[reader.index] \in Nat /\ Count \in Nat /\ ~Holding
        /\ Ends[reader.index] + reader.offset = From + Produced
        /\ From + Produced + Count <= From + Extent
        /\ ~reader.ranged => From + Produced + Count = Ends[reader.index + 1]
        /\ reader.ranged => \/ Count = reader.remaining
                            \/ From + Produced + Count = Ends[reader.index + 1]
        /\ reader.ranged => reader.remaining + Produced = Extent
    BY <1>1, <1>3, CountTaken
  <2>5. PICK current \in Stream, from \in Nat, count \in Nat, pos \in Nat, index \in Nat,
             offset \in Nat :
          /\ current = handler.stream /\ from = Ends[reader.index] + reader.offset
          /\ count = Count /\ pos = 0 /\ index = reader.index + 1 /\ offset = 0
    <3>1. /\ handler.stream \in Stream /\ Ends[reader.index] + reader.offset \in Nat
          /\ Count \in Nat /\ 0 \in Nat /\ reader.index + 1 \in Nat
      BY <1>t, <2>3, <2>4, SMTT(30) DEF Stream
    <3> QED  BY <3>1, Zenon
  <2>6. reader' = ReaderWithCurrentFromCountPosIndexOffset(reader, current, from, count, pos,
                                                           index, offset)
    BY <2>1, <2>5, Zenon DEF ReaderWithCurrentFromCountPosIndexOffset
  <2>7. /\ reader' \in ReaderType /\ reader'.raw = reader.raw /\ reader'.ranged = reader.ranged
        /\ reader'.closed = reader.closed /\ reader'.index = index /\ reader'.offset = offset
        /\ reader'.remaining = reader.remaining /\ reader'.current = current
        /\ reader'.count = count /\ reader'.from = from /\ reader'.pos = pos
    <3>1. reader \in ReaderType
      BY <2>3
    <3>2. PICK r \in ReaderType : r = reader
      BY <3>1
    <3>3. PICK q : q = ReaderWithCurrentFromCountPosIndexOffset(r, current, from, count, pos,
                                                                index, offset)
      OBVIOUS
    <3>4. /\ q \in ReaderType /\ q.raw = r.raw /\ q.ranged = r.ranged
          /\ q.closed = r.closed /\ q.index = index /\ q.offset = offset
          /\ q.remaining = r.remaining /\ q.current = current
          /\ q.count = count /\ q.from = from /\ q.pos = pos
      BY ONLY <3>3, ReaderSetsCurrentFromCountPosIndexOffset
    <3> QED  BY <2>6, <3>2, <3>3, <3>4, Zenon
  <2>8. handler'.at \in Copying
    BY <2>2 DEF Copying
  <2>9. StreamsHeld'
    <3>1. handler.stream \in open /\ open \subseteq {None, handler.stream}
      BY <1>1, <1>3 DEF DownloadInd, StreamsHeld, Holders
    <3>2. open = {handler.stream}
      <4>1. None \notin open
        BY <1>t DEF None
      <4> QED  BY <3>1, <4>1, Zenon
    <3>3. ~reader'.closed /\ reader'.current = handler.stream /\ renewal' = renewal
          /\ open' = {handler.stream}
      BY <1>1, <1>3, <2>1, <2>5, <2>7, <3>2
    <3>4. renewal.at # "closeStream" /\ ~reader.raw
      BY <1>1, <1>3 DEF DownloadInd, StreamsHeld
    <3> QED  BY <1>t, <2>2, <2>7, <3>3, <3>4 DEF StreamsHeld, Holders
  <2>10. Produced' = Produced /\ Holding'
    BY <1>1, <2>2 DEF Produced, Holding
  <2>11. PositionKept'
    <3>1. Parts' = Parts /\ Ends' = Ends /\ From' = From /\ Extent' = Extent
      BY <1>1, SizesStay
    <3>2. archive' = archive /\ ranges' = ranges
      BY <1>1
    <3>3. /\ reader.ranged => ranges # <<>>
          /\ reader.ranged \/ ranges = <<>>
          /\ ~reader.raw
      BY <1>1, <2>3 DEF PositionKept, DownloadInd, StreamsHeld
    <3>4. reader.index + 1 < Parts => 0 <= archive.sizes[reader.index + 1 + 1]
      <4>1. reader.index + 1 < Parts => reader.index + 1 + 1 \in 1 .. Parts
        BY <2>3
      <4> QED  BY <1>c, <4>1, CopyFacts, SMTT(60)
    <3>5. reader'.index = reader.index + 1 /\ reader'.offset = 0
          /\ reader'.ranged = reader.ranged /\ ~reader'.raw
      BY <2>5, <2>7, <3>3
    <3>6. /\ reader'.ranged => ranges' # <<>>
          /\ reader'.ranged \/ reader'.raw \/ ranges' = <<>>
          /\ reader'.index <= Parts'
          /\ reader'.index = Parts' => reader'.offset = 0
          /\ ~reader'.ranged => reader'.offset = 0
      BY <2>3, <2>4, <3>1, <3>2, <3>3, <3>5
    <3>7. reader'.index < Parts' => reader'.offset <= archive'.sizes[reader'.index + 1]
      BY <3>1, <3>2, <3>4, <3>5
    <3>8. /\ reader'.from + reader'.pos = From' + Produced' /\ reader'.pos <= reader'.count
          /\ reader'.from + reader'.count <= From' + Extent'
      BY <2>3, <2>4, <2>5, <2>7, <2>10, <3>1
    <3>9. ~reader'.ranged => reader'.from + reader'.count = Ends'[reader'.index]
      BY <2>3, <2>4, <2>5, <2>7, <3>1, <3>5
    <3>10. /\ reader'.from = From + Produced /\ reader'.count = Count
           /\ reader'.remaining = reader.remaining /\ Ends'[reader'.index] = Ends[reader.index + 1]
      BY <2>4, <2>5, <2>7, <3>1, <3>5
    <3>11. Holding' /\ handler'.at = "read"
      BY <2>2, <2>10
    <3>12. reader'.ranged => reader'.from + reader'.remaining = From' + Extent'
      BY <2>3, <2>4, <3>1, <3>5, <3>10
    <3>13. reader'.ranged => \/ reader'.count = reader'.remaining
                             \/ reader'.from + reader'.count = Ends'[reader'.index]
      BY <2>4, <3>5, <3>10
    <3> QED  BY <3>5, <3>6, <3>7, <3>8, <3>9, <3>12, <3>13, <3>11
             DEF PositionKept
  <2> QED  BY <1>1, <1>c, <1>t, <2>1, <2>2, <2>3, <2>7, <2>8, <2>9, <2>10, <2>11, ReaderMoves
<1> QED  BY <1>2, <1>3

\* A byte of the stream is the next one of the range.
LEMMA ReadStreamKeeps ==
  ASSUME DownloadInd, ReadStream
  PROVE  DownloadInd'
<1>1. /\ handler.at = "read"
      /\ UNCHANGED <<archive, ranges, lease, renewal, leaseErr, open, delivered>>
  BY DEF ReadStream
<1>c. handler.at \in Copying
  BY <1>1 DEF Copying
<1>f. /\ handler \in HandlerType /\ reader \in ReaderType /\ delivered \in Seq(Nat)
      /\ open \in SUBSET Nat /\ Len(delivered) \in Nat
      /\ \A i \in 1 .. Len(delivered) : delivered[i] = From + i - 1
      /\ From \in Nat /\ Extent \in Nat /\ reader.from \in Nat /\ reader.pos \in Nat
      /\ reader.count \in Nat /\ PositionKept
  BY <1>c, CopyFacts DEF DownloadInd, DownloadTypes, BytesInOrder
<1>h. /\ Holding /\ Produced = Len(delivered)
      /\ reader.from + reader.pos = From + Produced /\ reader.pos <= reader.count
      /\ reader.from + reader.count <= From + Extent
      /\ reader.raw => reader.from + reader.count = From + Extent
  BY <1>1, <1>f DEF Holding, Produced, PositionKept
<1>2. ASSUME NEW n \in {0, 1}, NEW byte \in Nat, NEW err \in Error, NEW at,
             at = IF err = "eof" /\ ~reader.raw THEN "finish" ELSE "returned",
             handler' = [handler EXCEPT !.at = at, !.n = n, !.byte = byte, !.err = err]
      PROVE  /\ handler' \in HandlerType /\ handler'.at = at /\ handler'.n = n
             /\ handler'.byte = byte /\ handler'.err = err
             /\ handler'.outcome = handler.outcome /\ handler'.stream = handler.stream
  <2>1. at \in Stage
    BY <1>2 DEF Stage
  <2>2. handler' = HandlerWithAtNByteErr(handler, at, n, byte, err)
    BY <1>2, Zenon DEF HandlerWithAtNByteErr
  <2> QED  BY <1>f, <1>2, <2>1, <2>2, HandlerSetsAtNByteErr
\* Nothing is read.
<1>3. ASSUME NEW err \in {"eof", "failed"}, err = "eof" => AtEnd, UNCHANGED reader,
             handler' = [handler EXCEPT
                           !.at = IF err = "eof" /\ ~reader.raw THEN "finish" ELSE "returned",
                           !.n = 0, !.byte = 0, !.err = err]
      PROVE  DownloadInd'
  <2>1. PICK at : at = IF err = "eof" /\ ~reader.raw THEN "finish" ELSE "returned"
    OBVIOUS
  <2>2. /\ handler' \in HandlerType /\ handler'.at = at /\ handler'.n = 0 /\ handler'.err = err
        /\ handler'.outcome = handler.outcome /\ handler'.stream = handler.stream
    <3>1. err \in Error /\ 0 \in Nat /\ 0 \in {0, 1}
      BY DEF Error
    <3> QED  BY <1>2, <1>3, <2>1, <3>1, ZenonT(60)
  <2>3. handler'.at \in Copying
    BY <2>1, <2>2 DEF Copying
  <2>4. StreamsHeld'
    BY <1>1, <1>3, <2>1, <2>2 DEF DownloadInd, StreamsHeld, Holders
  <2>5. Produced' = Produced
    BY <1>1, <1>h, <2>1, <2>2 DEF Produced
  <2>6. (Holding' => Holding) /\ (Holding => Holding' \/ reader.closed)
    <3>1. handler.stream \in Nat /\ (reader.closed \/ handler.stream = reader.current)
      BY <1>1 DEF DownloadInd, StreamsHeld
    <3> QED  BY <1>h, <1>3, <3>1 DEF Holding, None
  <2>7. handler'.at = "returned" /\ handler'.err = "eof" => Produced = Extent
    BY <1>f, <1>h, <1>3, <2>1, <2>2 DEF AtEnd
  <2> QED  BY <1>1, <1>c, <1>f, <1>3, <2>1, <2>2, <2>3, <2>4, <2>5, <2>6, <2>7, HandlerMoves
\* A byte is read.
<1>4. ASSUME ~AtEnd, NEW err \in {"none", "eof"},
             err = "eof" => reader.pos + 1 = reader.count /\ ranges = <<>>,
             reader' = [reader EXCEPT !.pos = @ + 1],
             handler' = [handler EXCEPT
                           !.at = IF err = "eof" /\ ~reader.raw THEN "finish" ELSE "returned",
                           !.n = 1, !.byte = reader.from + reader.pos, !.err = err]
      PROVE  DownloadInd'
  <2>1. PICK at, byte : /\ at = IF err = "eof" /\ ~reader.raw THEN "finish" ELSE "returned"
                        /\ byte = reader.from + reader.pos
    OBVIOUS
  <2>2. /\ handler' \in HandlerType /\ handler'.at = at /\ handler'.n = 1 /\ handler'.err = err
        /\ handler'.byte = byte
        /\ handler'.outcome = handler.outcome /\ handler'.stream = handler.stream
    <3>1. err \in Error /\ byte \in Nat /\ 1 \in {0, 1}
      BY <1>f, <2>1 DEF Error
    <3>2. at \in Stage
      BY <2>1 DEF Stage
    <3>3. PICK n : n = 1
      OBVIOUS
    <3>4. handler' = HandlerWithAtNByteErr(handler, at, n, byte, err)
      BY <1>4, <2>1, <3>3, Zenon DEF HandlerWithAtNByteErr
    <3>5. handler \in HandlerType /\ n \in {0, 1}
      BY <1>f, <3>3
    <3>6. /\ handler' \in HandlerType /\ handler'.at = at /\ handler'.n = n /\ handler'.err = err
          /\ handler'.byte = byte
          /\ handler'.outcome = handler.outcome /\ handler'.stream = handler.stream
      BY ONLY <3>1, <3>2, <3>4, <3>5, HandlerSetsAtNByteErr
    <3> QED  BY <3>3, <3>6, Zenon
  <2>3. handler'.at \in Copying /\ handler'.at \in {"finish", "returned"}
    BY <2>1, <2>2 DEF Copying
  <2>4. /\ reader' \in ReaderType /\ reader'.raw = reader.raw /\ reader'.ranged = reader.ranged
        /\ reader'.closed = reader.closed /\ reader'.index = reader.index
        /\ reader'.offset = reader.offset /\ reader'.remaining = reader.remaining
        /\ reader'.current = reader.current /\ reader'.count = reader.count
        /\ reader'.from = reader.from /\ reader'.pos = reader.pos + 1
    <3>1. PICK pos \in Nat : pos = reader.pos + 1
      BY <1>f
    <3>2. reader' = ReaderWithPos(reader, pos)
      BY <1>4, <3>1, Zenon DEF ReaderWithPos
    <3>3. reader \in ReaderType
      BY <1>f
    <3>4. /\ reader' \in ReaderType /\ reader'.raw = reader.raw /\ reader'.ranged = reader.ranged
          /\ reader'.closed = reader.closed /\ reader'.index = reader.index
          /\ reader'.offset = reader.offset /\ reader'.remaining = reader.remaining
          /\ reader'.current = reader.current /\ reader'.count = reader.count
          /\ reader'.from = reader.from /\ reader'.pos = pos
      BY ONLY <3>1, <3>2, <3>3, ReaderSetsPos
    <3> QED  BY <3>1, <3>4, Zenon
  <2>5. StreamsHeld'
    BY <1>1, <2>1, <2>2, <2>3, <2>4 DEF DownloadInd, StreamsHeld, Holders
  <2>6. reader.pos + 1 <= reader.count
    BY <1>f, <1>h, <1>4 DEF AtEnd
  <2>7. Produced' = Produced + 1
    BY <1>1, <1>h, <2>2, <2>3 DEF Produced
  <2>8. Produced + 1 <= Extent /\ Produced + 1 \in Nat
    BY <1>f, <1>h, <2>6, SMTT(60)
  <2>9. handler'.at = "returned" /\ handler'.err = "eof" => Produced + 1 = Extent
    BY <1>f, <1>h, <1>4, <2>1, <2>2, SMTT(60)
  <2>10. PositionKept'
    <3>1. Parts' = Parts /\ Ends' = Ends /\ From' = From /\ Extent' = Extent
      BY <1>1, SizesStay
    <3>2. archive' = archive /\ ranges' = ranges
      BY <1>1
    <3>3. Holding' <=> reader.raw \/ reader.current # None \/ at = "finish"
      BY <2>1, <2>2, <2>4 DEF Holding
    <3>4. at = "finish" => err = "eof" /\ reader.pos + 1 = reader.count
      BY <1>4, <2>1
    <3>5. ~Holding' => reader.closed
      <4>1. handler.stream \in Nat /\ (reader.closed \/ handler.stream = reader.current)
        BY <1>1 DEF DownloadInd, StreamsHeld
      <4> QED  BY <3>3, <4>1 DEF None
    <3>6. AtEnd' <=> reader.pos + 1 = reader.count
      BY <2>4 DEF AtEnd
    <3>7. handler'.at \in {"finish", "returned"}
      BY <2>3
    <3>8. /\ reader'.from + reader'.pos = From + Produced'
          /\ reader'.pos <= reader'.count /\ reader'.from + reader'.count <= From + Extent
          /\ handler'.at = "finish" => handler'.err = "eof" /\ AtEnd'
      <4>1. reader'.from + reader'.pos = From + Produced'
        <5>1. reader'.from = reader.from /\ reader'.pos = reader.pos + 1
          BY <2>4
        <5>2. reader.from + reader.pos = From + Produced
          BY <1>h
        <5>3. Produced \in Nat /\ From \in Nat /\ reader.from \in Nat /\ reader.pos \in Nat
          BY <1>f, <1>h
        <5> QED  BY ONLY <2>7, <5>1, <5>2, <5>3, SMTT(30)
      <4>2. reader'.pos <= reader'.count /\ reader'.from + reader'.count <= From + Extent
        BY <1>h, <2>4, <2>6
      <4>3. handler'.at = "finish" => handler'.err = "eof" /\ AtEnd'
        BY <2>2, <3>4, <3>6, Zenon
      <4> QED  BY <4>1, <4>2, <4>3, Zenon
    <3>9. Holding /\ PositionKept
      BY <1>f, <1>h
    <3> HIDE DEF Holding
    <3> QED  BY ONLY <2>4, <3>1, <3>2, <3>5, <3>7, <3>8, <3>9, Zenon
             DEF PositionKept
  <2>11. byte = From + Len(delivered)
    BY <1>h, <2>1
  <2> QED  BY <1>1, <1>c, <1>f, <2>1, <2>2, <2>3, <2>4, <2>5, <2>7, <2>8, <2>9, <2>10, <2>11,
              ReaderMoves
<1>5. \/ /\ UNCHANGED reader
         /\ \E err \in {"eof", "failed"} :
              /\ err = "eof" => AtEnd
              /\ handler' = [handler EXCEPT
                               !.at = IF err = "eof" /\ ~reader.raw THEN "finish" ELSE "returned",
                               !.n = 0, !.byte = 0, !.err = err]
      \/ /\ ~AtEnd /\ reader' = [reader EXCEPT !.pos = @ + 1]
         /\ \E err \in {"none", "eof"} :
              /\ err = "eof" => reader.pos + 1 = reader.count /\ ranges = <<>>
              /\ handler' = [handler EXCEPT
                               !.at = IF err = "eof" /\ ~reader.raw THEN "finish" ELSE "returned",
                               !.n = 1, !.byte = reader.from + reader.pos, !.err = err]
  BY Zenon DEF ReadStream
<1> QED  BY <1>3, <1>4, <1>5

\* At the end of a part the reader goes on to the next, unless it was closed.
LEMMA FinishPartKeeps ==
  ASSUME DownloadInd, FinishPart
  PROVE  DownloadInd'
<1>1. /\ handler.at = "finish"
      /\ UNCHANGED <<archive, ranges, lease, renewal, leaseErr, delivered>>
  BY DEF FinishPart
<1>c. handler.at \in Copying
  BY <1>1 DEF Copying
<1>f. /\ handler \in HandlerType /\ reader \in ReaderType /\ delivered \in Seq(Nat)
      /\ open \in SUBSET Nat /\ Len(delivered) \in Nat /\ handler.n \in {0, 1}
      /\ \A i \in 1 .. Len(delivered) : delivered[i] = From + i - 1
      /\ handler.n = 1 => handler.byte = From + Len(delivered)
      /\ From \in Nat /\ Extent \in Nat /\ reader.from \in Nat /\ reader.pos \in Nat
      /\ reader.count \in Nat /\ reader.remaining \in Nat /\ reader.index \in Nat
      /\ PositionKept /\ handler.byte \in Nat /\ Produced \in Nat /\ Produced <= Extent
  BY <1>c, <1>1, CopyFacts DEF DownloadInd, DownloadTypes, BytesInOrder
<1>s. handler.stream \in Nat /\ (reader.closed \/ handler.stream = reader.current) /\ ~reader.raw
      /\ (reader.closed => reader.current = None)
  BY <1>1 DEF DownloadInd, StreamsHeld
<1>2. /\ handler' \in HandlerType /\ handler'.at \in {"select", "returned"}
      /\ handler'.outcome = handler.outcome /\ handler'.stream = handler.stream
      /\ handler'.at = "returned" => /\ handler'.err # "eof"
                                     /\ handler'.n = handler.n
                                     /\ handler.n = 1 => handler'.byte = handler.byte
      /\ handler.n = 1 => handler'.at = "returned"
  <2>1. CASE handler.n > 0 /\ Returns(1, handler.byte, "none")
    BY <1>f, <2>1, ReturnsSets DEF Error
  <2>2. CASE ~(handler.n > 0) /\ Go("select")
    BY <1>f, <2>2, GoSets DEF Stage
  <2>3. CASE ~(handler.n > 0) /\ Returns(0, 0, "failed")
    BY <1>f, <2>3, ReturnsSets DEF Error
  <2> QED  BY <2>1, <2>2, <2>3 DEF FinishPart
<1>3. handler'.at \in Copying
  BY <1>2 DEF Copying
<1>4. Produced' = Produced
  BY <1>1, <1>f, <1>2 DEF Produced
<1>5. CASE reader.current # handler.stream
  <2>1. UNCHANGED <<reader, open>> /\ reader.closed /\ reader.current = None
    BY <1>5, <1>s DEF FinishPart
  <2>2. StreamsHeld'
    BY <1>1, <1>2, <2>1 DEF DownloadInd, StreamsHeld, Holders
  <2>3. ~Holding'
    BY <1>2, <1>s, <2>1 DEF Holding
  <2> QED  BY <1>1, <1>c, <1>f, <1>2, <1>3, <1>4, <2>1, <2>2, <2>3, HandlerMoves
<1>6. CASE reader.current = handler.stream
  <2>1. /\ reader' = [reader EXCEPT !.current = None, !.remaining =
                           IF reader.ranged THEN @ - reader.count ELSE @]
        /\ open' = open \ {handler.stream}
    BY <1>6, Zenon DEF FinishPart
  <2>2. ~reader.closed /\ reader.current # None /\ Holding
    BY <1>6, <1>s DEF None, Holding
  <2>3. /\ reader.from + reader.pos = From + Produced /\ reader.pos = reader.count
        /\ reader.from + reader.count <= From + Extent
        /\ reader.offset = 0
        /\ ~reader.ranged => reader.from + reader.count = Ends[reader.index]
        /\ reader.ranged => /\ reader.from + reader.remaining = From + Extent
                            /\ \/ reader.count = reader.remaining
                               \/ reader.from + reader.count = Ends[reader.index]
    BY <1>1, <1>f, <1>s, <2>2 DEF PositionKept, AtEnd
  <2>4. PICK left \in Nat : /\ left = IF reader.ranged THEN reader.remaining - reader.count
                                                       ELSE reader.remaining
                            /\ reader.ranged => left + Produced = Extent
    BY <1>f, <2>3, SMTT(30)
  <2>5. /\ reader' \in ReaderType /\ reader'.raw = reader.raw /\ reader'.ranged = reader.ranged
        /\ reader'.closed = reader.closed /\ reader'.index = reader.index
        /\ reader'.offset = reader.offset /\ reader'.remaining = left
        /\ reader'.current = None
    <3>1. reader' = ReaderWithCurrentRemaining(reader, None, left)
      BY <2>1, <2>4, Zenon DEF ReaderWithCurrentRemaining
    <3>2. None \in Stream
      BY DEF Stream
    <3> QED  BY <1>f, <3>1, <3>2, ReaderSetsCurrentRemaining
  <2>6. StreamsHeld' /\ open' \in SUBSET Nat
    BY <1>1, <1>f, <1>s, <1>2, <1>6, <2>1, <2>2, <2>5 DEF DownloadInd, StreamsHeld, Holders
  <2>7. PositionKept'
    <3>1. Parts' = Parts /\ Ends' = Ends /\ From' = From /\ Extent' = Extent
      BY <1>1, SizesStay
    <3>2. archive' = archive /\ ranges' = ranges
      BY <1>1
    <3>3. ~Holding'
      BY <1>2, <1>s, <2>5 DEF Holding
    <3>4. reader.ranged /\ left > 0 => Ends[reader.index] = From + Produced
      BY <1>f, <2>3, <2>4
    <3>5. ~reader.ranged => Ends[reader.index] = From + Produced
      BY <1>f, <2>3
    <3>6. From + Produced \in Nat
      BY <1>f
    <3> QED  BY <1>f, <1>2, <1>4, <2>2, <2>3, <2>4, <2>5, <3>1, <3>2, <3>3, <3>4, <3>5, <3>6,
                SMTT(60)
             DEF PositionKept
  <2> QED  BY <1>1, <1>c, <1>f, <1>2, <1>3, <1>4, <2>5, <2>6, <2>7, ReaderMoves
<1> QED  BY <1>5, <1>6

\* What was read is written to the client, and an end or an error ends the copy.
LEMMA ReadReturnsKeeps ==
  ASSUME DownloadInd, ReadReturns
  PROVE  DownloadInd'
<1> DEFINE err == IF leaseErr THEN IF handler.n > 0 THEN "none" ELSE "failed" ELSE handler.err
<1>1. /\ handler.at = "returned"
      /\ UNCHANGED <<archive, ranges, lease, renewal, leaseErr, reader, open>>
      /\ delivered' = IF handler.n > 0 THEN Append(delivered, handler.byte) ELSE delivered
  BY DEF ReadReturns
<1>c. handler.at \in Copying
  BY <1>1 DEF Copying
<1>2. CASE err = "none" /\ Go("streaming")
  <2>f. /\ handler \in HandlerType /\ delivered \in Seq(Nat) /\ Len(delivered) \in Nat
        /\ handler.n \in {0, 1} /\ handler.byte \in Nat /\ From \in Nat
    BY <1>c, CopyFacts
  <2>d. /\ \A i \in 1 .. Len(delivered) : delivered[i] = From + i - 1
        /\ handler.n = 1 => handler.byte = From + Len(delivered)
    BY <1>1 DEF DownloadInd, BytesInOrder
  <2>1. /\ handler' \in HandlerType /\ handler'.at = "streaming"
        /\ handler'.outcome = handler.outcome
    BY <1>2, <2>f, GoSets DEF Stage
  <2>2. handler'.at \in Copying
    BY <2>1 DEF Copying
  <2>3. StreamsHeld' /\ open' \in SUBSET Nat
    BY <1>1, <2>1 DEF DownloadInd, DownloadTypes, StreamsHeld, Holders
  <2>4. /\ delivered' \in Seq(Nat) /\ Len(delivered') = Produced
        /\ \A i \in 1 .. Len(delivered') : delivered'[i] = From + i - 1
    <3>1. CASE handler.n = 1
      <4>1. delivered' = Append(delivered, handler.byte) /\ Produced = Len(delivered) + 1
        BY <1>1, <3>1 DEF Produced
      <4> QED  BY <2>f, <2>d, <3>1, <4>1
    <3>2. CASE handler.n = 0
      <4>1. delivered' = delivered /\ Produced = Len(delivered)
        BY <1>1, <2>f, <3>2 DEF Produced
      <4> QED  BY <2>f, <2>d, <4>1
    <3> QED  BY <2>f, <3>1, <3>2
  <2>5. Produced' = Produced /\ (Holding' <=> Holding)
    BY <1>1, <1>c, <2>1, <2>4, CopyFacts DEF Produced, Holding
  <2> HIDE DEF err
  <2> QED  BY <1>1, <1>c, <2>1, <2>2, <2>3, <2>4, <2>5, HandlerMoves
<1>3. CASE err = "eof" /\ CopyEnds("complete")
  <2>1. handler.err = "eof"
    BY <1>3
  <2> QED  BY <1>1, <1>3, <2>1, CopyEndsKeeps
<1>4. CASE err = "failed" /\ CopyEnds("failed")
  BY <1>1, <1>4, CopyEndsKeeps
<1>5. err \in {"none", "eof", "failed"}
  <2>1. handler.err \in Error
    BY <1>c, CopyFacts, HandlerHas, Zenon
  <2> QED  BY <2>1 DEF Error
<1> QED  BY <1>2, <1>3, <1>4, <1>5, Zenon DEF ReadReturns

-----------------------------------------------------------------------------
(* When the stream is closed, by the handler or by the renewal.              *)

\* Close of a reader leaves its position as it was.
LEMMA ReaderCloses ==
  ASSUME reader \in ReaderType, reader' = [reader EXCEPT !.closed = TRUE, !.current = None]
  PROVE  /\ reader' \in ReaderType /\ reader'.closed /\ reader'.current = None
         /\ reader'.raw = reader.raw /\ reader'.ranged = reader.ranged
         /\ reader'.index = reader.index /\ reader'.offset = reader.offset
         /\ reader'.remaining = reader.remaining /\ reader'.count = reader.count
         /\ reader'.from = reader.from /\ reader'.pos = reader.pos
<1>1. PICK r \in ReaderType, yes \in BOOLEAN, none \in Stream :
        r = reader /\ yes = TRUE /\ none = None
  BY DEF Stream
<1>2. PICK q : q = reader' /\ q = ReaderWithClosedCurrent(r, yes, none)
  BY <1>1, Zenon DEF ReaderWithClosedCurrent
<1>3. /\ q \in ReaderType /\ q.closed = yes /\ q.current = none
      /\ q.raw = r.raw /\ q.ranged = r.ranged /\ q.index = r.index /\ q.offset = r.offset
      /\ q.remaining = r.remaining /\ q.count = r.count /\ q.from = r.from /\ q.pos = r.pos
  BY ONLY <1>2, ReaderSetsClosedCurrent
<1> QED  BY <1>1, <1>2, <1>3, Zenon

\* What is left to show when nothing is read or written.
LEMMA BytesStay ==
  ASSUME DownloadInd, handler.at \notin Copying, handler'.at \notin Copying,
         handler'.outcome = handler.outcome,
         UNCHANGED <<archive, ranges, delivered>>,
         DownloadTypes', StagesFit', StreamsHeld'
  PROVE  DownloadInd'
<1>1. /\ From' = From /\ Extent' = Extent /\ Satisfiable' = Satisfiable
  BY SizesStay
<1>2. Produced' = Produced
  BY DEF Produced, Copying
<1>3. BytesInOrder'
  BY <1>1, <1>2 DEF DownloadInd, BytesInOrder, Copying
<1> QED  BY <1>3 DEF DownloadInd

\* What is left to show when the handler does nothing.
LEMMA HandlerWaits ==
  ASSUME DownloadInd, UNCHANGED <<handler, ranges, delivered>>, archive'.sizes = archive.sizes,
         DownloadTypes', StagesFit', StreamsHeld',
         \/ reader' = reader
         \/ reader' = [reader EXCEPT !.closed = TRUE, !.current = None]
  PROVE  DownloadInd'
<1>1. /\ Parts' = Parts /\ Ends' = Ends /\ From' = From /\ Extent' = Extent
      /\ Satisfiable' = Satisfiable
  BY SizesStay
<1>2. Produced' = Produced
  BY DEF Produced
<1>3. BytesInOrder'
  BY <1>1, <1>2 DEF DownloadInd, BytesInOrder
<1>4. ASSUME handler.at \in Copying  PROVE PositionKept'
  <2>1. PositionKept
    BY <1>4 DEF DownloadInd
  <2>2. CASE reader' = reader
    <3>1. Holding' = Holding /\ AtEnd' = AtEnd /\ Available' = Available
      BY <2>2 DEF Holding, AtEnd, Available
    <3> QED  BY <1>1, <1>2, <2>1, <2>2, <3>1 DEF PositionKept
  <2>3. CASE reader' = [reader EXCEPT !.closed = TRUE, !.current = None]
    <3>1. /\ reader'.closed /\ reader'.current = None
          /\ reader'.raw = reader.raw /\ reader'.ranged = reader.ranged
          /\ reader'.index = reader.index /\ reader'.offset = reader.offset
          /\ reader'.remaining = reader.remaining /\ reader'.count = reader.count
          /\ reader'.from = reader.from /\ reader'.pos = reader.pos
      BY <2>3, ReaderCloses DEF DownloadInd, DownloadTypes
    <3>2. (Holding' => Holding) /\ AtEnd' = AtEnd
      BY <3>1 DEF Holding, AtEnd
    <3> QED  BY <1>1, <1>2, <2>1, <3>1, <3>2 DEF PositionKept
  <2> QED  BY <2>2, <2>3
<1> QED  BY <1>3, <1>4 DEF DownloadInd

\* Close of the handler stops the renewal.
LEMMA CancelRenewalKeeps ==
  ASSUME DownloadInd, CancelRenewal
  PROVE  DownloadInd'
<1>1. /\ handler.at = "closing"
      /\ UNCHANGED <<archive, ranges, lease, leaseErr, reader, open, delivered>>
  BY DEF CancelRenewal
<1>2. handler \in HandlerType /\ renewal \in RenewalType
  BY DEF DownloadInd, DownloadTypes
<1>3. /\ handler' \in HandlerType /\ handler'.at = "closeStream"
      /\ handler'.outcome = handler.outcome
  BY <1>2, GoSets DEF CancelRenewal, Stage
<1>4. renewal' \in RenewalType /\ renewal'.at = renewal.at /\ renewal'.stream = renewal.stream
  <2>1. renewal' = RenewalWithCancelled(renewal, TRUE)
    BY Zenon DEF CancelRenewal, Cancelled, RenewalWithCancelled
  <2> QED  BY <1>2, <2>1, RenewalSetsCancelled, ZenonT(60)
<1>5. DownloadTypes'
  BY <1>1, <1>3, <1>4 DEF DownloadInd, DownloadTypes
<1>6. StagesFit'
  BY <1>1, <1>3, <1>4 DEF DownloadInd, StagesFit, Before, Copying
<1>7. StreamsHeld'
  BY <1>1, <1>3, <1>4 DEF DownloadInd, StreamsHeld, Holders
<1>8. handler.at \notin Copying /\ handler'.at \notin Copying
  BY <1>1, <1>3 DEF Copying
<1> QED  BY <1>1, <1>3, <1>5, <1>6, <1>7, <1>8, BytesStay

\* It waits for the renewal and closes the stream that the renewal left.
LEMMA CloseStreamKeeps ==
  ASSUME DownloadInd, CloseStream
  PROVE  DownloadInd'
<1>1. /\ handler.at = "closeStream" /\ renewal.at = "done"
      /\ UNCHANGED <<archive, ranges, lease, renewal, leaseErr, delivered>>
      /\ open' = IF reader.closed THEN open ELSE open \ {reader.current}
      /\ reader' = [reader EXCEPT !.closed = TRUE, !.current = None]
  BY DEF CloseStream
<1>2. handler \in HandlerType /\ reader \in ReaderType /\ open \in SUBSET Nat
  BY DEF DownloadInd, DownloadTypes
<1>3. /\ handler' \in HandlerType /\ handler'.at = "release"
      /\ handler'.outcome = handler.outcome
  BY <1>2, GoSets DEF CloseStream, Stage
<1>4. reader' \in ReaderType /\ reader'.closed /\ reader'.current = None /\ reader'.raw = reader.raw
  BY <1>1, <1>2, ReaderCloses
<1>5. open' = {}
  <2>1. open \subseteq {reader.current} /\ (reader.closed => reader.current = None)
    BY <1>1 DEF DownloadInd, StreamsHeld, Holders
  <2>2. None \notin open
    BY <1>2 DEF None
  <2> QED  BY <1>1, <2>1, <2>2
<1>6. DownloadTypes'
  BY <1>1, <1>3, <1>4, <1>5 DEF DownloadInd, DownloadTypes
<1>7. StagesFit'
  BY <1>1, <1>3, <1>4, <1>5 DEF DownloadInd, StagesFit, Before, Copying
<1>8. StreamsHeld'
  BY <1>1, <1>3, <1>4, <1>5 DEF DownloadInd, StreamsHeld, Holders
<1>9. handler.at \notin Copying /\ handler'.at \notin Copying
  BY <1>1, <1>3 DEF Copying
<1> QED  BY <1>1, <1>3, <1>6, <1>7, <1>8, <1>9, BytesStay

\* The lease is given back when nothing is open any more.
LEMMA ReleaseLeaseKeeps ==
  ASSUME DownloadInd, ReleaseLease
  PROVE  DownloadInd'
<1>1. /\ handler.at = "release" /\ lease' = "released"
      /\ UNCHANGED <<archive, ranges, renewal, leaseErr, reader, open, delivered>>
  BY DEF ReleaseLease
<1>2. handler \in HandlerType
  BY DEF DownloadInd, DownloadTypes
<1>3. /\ handler' \in HandlerType /\ handler'.at = "done"
      /\ handler'.outcome = handler.outcome
  BY <1>2, GoSets DEF ReleaseLease, Stage
<1>4. open = {} /\ reader.current = None /\ renewal.at = "done"
  BY <1>1 DEF DownloadInd, StagesFit
<1>5. DownloadTypes'
  BY <1>1, <1>3 DEF DownloadInd, DownloadTypes
<1>6. StagesFit'
  BY <1>1, <1>3, <1>4 DEF DownloadInd, StagesFit, Before, Copying
<1>7. StreamsHeld'
  BY <1>1, <1>3, <1>4 DEF DownloadInd, StreamsHeld, Holders
<1>8. handler.at \notin Copying /\ handler'.at \notin Copying
  BY <1>1, <1>3 DEF Copying
<1> QED  BY <1>1, <1>3, <1>5, <1>6, <1>7, <1>8, BytesStay

\* The renewal runs only while there is something to renew.
LEMMA RenewalRuns ==
  ASSUME DownloadInd, renewal.at \notin {"none", "done"}
  PROVE  /\ handler.at \notin Before /\ handler.at \notin {"release", "done"}
         /\ renewal \in RenewalType /\ reader \in ReaderType /\ open \in SUBSET Nat
BY DEF DownloadInd, DownloadTypes, StagesFit

\* The renewal finds its lease lost.
LEMMA RenewFailsKeeps ==
  ASSUME DownloadInd, RenewFails
  PROVE  DownloadInd'
<1>1. /\ renewal.at = "running" /\ leaseErr' = TRUE
      /\ UNCHANGED <<archive, ranges, lease, handler, reader, open, delivered>>
  BY DEF RenewFails
<1>2. renewal' \in RenewalType /\ renewal'.at = "closing"
  <2>1. renewal' = RenewalWithAt(renewal, "closing")
    BY Zenon DEF RenewFails, RenewalWithAt
  <2> QED  BY <1>1, <2>1, RenewalRuns, RenewalSetsAt
<1>3. DownloadTypes'
  BY <1>1, <1>2 DEF DownloadInd, DownloadTypes
<1>4. StagesFit'
  BY <1>1, <1>2, RenewalRuns DEF DownloadInd, StagesFit
<1>5. StreamsHeld'
  BY <1>1, <1>2 DEF DownloadInd, StreamsHeld, Holders
<1> QED  BY <1>1, <1>3, <1>4, <1>5, HandlerWaits

\* Then it takes the stream from the reader under the lock.
LEMMA RenewalTakesStreamKeeps ==
  ASSUME DownloadInd, RenewalTakesStream
  PROVE  DownloadInd'
<1>1. /\ renewal.at = "closing"
      /\ UNCHANGED <<archive, ranges, lease, handler, leaseErr, open, delivered>>
      /\ reader' = [reader EXCEPT !.closed = TRUE, !.current = None]
  BY DEF RenewalTakesStream
<1>2. renewal' \in RenewalType /\ renewal'.at = "closeStream" /\ renewal'.stream = reader.current
  <2>1. PICK stream \in Stream : stream = reader.current
    BY <1>1, RenewalRuns, ReaderHas
  <2>2. renewal' = RenewalWithAtStream(renewal, "closeStream", stream)
    BY <2>1, Zenon DEF RenewalTakesStream, RenewalWithAtStream
  <2> QED  BY <1>1, <2>1, <2>2, RenewalRuns, RenewalSetsAtStream
<1>3. reader' \in ReaderType /\ reader'.closed /\ reader'.current = None /\ reader'.raw = reader.raw
  BY <1>1, RenewalRuns, ReaderCloses
<1>4. DownloadTypes'
  BY <1>1, <1>2, <1>3 DEF DownloadInd, DownloadTypes
<1>5. StagesFit'
  BY <1>1, <1>2, RenewalRuns DEF DownloadInd, StagesFit
<1>6. StreamsHeld'
  BY <1>1, <1>2, <1>3 DEF DownloadInd, StreamsHeld, Holders
<1> QED  BY <1>1, <1>4, <1>5, <1>6, HandlerWaits

\* And closes what it took.
LEMMA RenewalClosesStreamKeeps ==
  ASSUME DownloadInd, RenewalClosesStream
  PROVE  DownloadInd'
<1>1. /\ renewal.at = "closeStream" /\ open' = open \ {renewal.stream}
      /\ UNCHANGED <<archive, ranges, lease, handler, leaseErr, reader, delivered>>
  BY DEF RenewalClosesStream
<1>2. renewal' \in RenewalType /\ renewal'.at = "done"
  <2>1. renewal' = RenewalWithAt(renewal, "done")
    BY Zenon DEF RenewalClosesStream, RenewalWithAt
  <2> QED  BY <1>1, <2>1, RenewalRuns, RenewalSetsAt
<1>3. DownloadTypes'
  BY <1>1, <1>2 DEF DownloadInd, DownloadTypes
<1>4. StagesFit'
  BY <1>1, <1>2, RenewalRuns DEF DownloadInd, StagesFit
<1>5. StreamsHeld'
  BY <1>1, <1>2 DEF DownloadInd, StreamsHeld, Holders
<1> QED  BY <1>1, <1>3, <1>4, <1>5, HandlerWaits

\* A renewal that was cancelled ends.
LEMMA RenewalStopsKeeps ==
  ASSUME DownloadInd, RenewalStops
  PROVE  DownloadInd'
<1>1. /\ renewal.at = "running"
      /\ UNCHANGED <<archive, ranges, lease, handler, leaseErr, reader, open, delivered>>
  BY DEF RenewalStops
<1>2. renewal' \in RenewalType /\ renewal'.at = "done"
  <2>1. renewal' = RenewalWithAt(renewal, "done")
    BY Zenon DEF RenewalStops, RenewalWithAt
  <2> QED  BY <1>1, <2>1, RenewalRuns, RenewalSetsAt
<1>3. DownloadTypes'
  BY <1>1, <1>2 DEF DownloadInd, DownloadTypes
<1>4. StagesFit'
  BY <1>1, <1>2, RenewalRuns DEF DownloadInd, StagesFit
<1>5. StreamsHeld'
  BY <1>1, <1>2 DEF DownloadInd, StreamsHeld, Holders
<1> QED  BY <1>1, <1>3, <1>4, <1>5, HandlerWaits

\* The lease is lost, or the objects are, while the download goes on.
LEMMA WorldKeeps ==
  ASSUME DownloadInd, LeaseExpires \/ ObjectsDeleted
  PROVE  DownloadInd'
<1>1. CASE LeaseExpires
  <2>1. /\ lease = "live" /\ lease' = "lost" /\ (handler.at = "delayed" \/ renewal.at # "none")
        /\ UNCHANGED <<archive, ranges, handler, renewal, leaseErr, reader, open, delivered>>
    BY <1>1 DEF LeaseExpires
  <2>2. DownloadTypes'
    BY <2>1 DEF DownloadInd, DownloadTypes
  <2>3. StagesFit'
    BY <2>1 DEF DownloadInd, StagesFit, Before, Copying
  <2>4. StreamsHeld'
    BY <2>1 DEF DownloadInd, StreamsHeld, Holders
  <2> QED  BY <2>1, <2>2, <2>3, <2>4, HandlerWaits
<1>2. CASE ObjectsDeleted
  <2>1. /\ archive' = [archive EXCEPT !.gone = TRUE]
        /\ UNCHANGED <<ranges, lease, handler, renewal, leaseErr, reader, open, delivered>>
    BY <1>2 DEF ObjectsDeleted
  <2>2. /\ archive' \in [sizes : Sizes, merged : BOOLEAN, recorded : BOOLEAN, gone : BOOLEAN]
        /\ archive'.sizes = archive.sizes /\ archive'.merged = archive.merged
    BY <2>1 DEF DownloadInd, DownloadTypes
  <2>3. DownloadTypes'
    BY <2>1, <2>2 DEF DownloadInd, DownloadTypes
  <2>4. StagesFit'
    BY <2>1, <2>2 DEF DownloadInd, StagesFit
  <2>5. StreamsHeld'
    BY <2>1 DEF DownloadInd, StreamsHeld, Holders
  <2> QED  BY <2>1, <2>2, <2>3, <2>4, <2>5, HandlerWaits
<1> QED  BY <1>1, <1>2

-----------------------------------------------------------------------------
(* The specification of a download.                                          *)

\* The invariant of a download holds at first, and every step keeps it.
LEMMA DownloadInitInd ==
  ASSUME Init
  PROVE  DownloadInd
<1>1. PICK sizes \in Sizes, joined \in BOOLEAN, recorded \in BOOLEAN :
        archive = [sizes |-> sizes, merged |-> joined, recorded |-> recorded, gone |-> FALSE]
  BY DEF Init
<1>2. /\ ranges \in Ranges /\ lease = "none" /\ leaseErr = FALSE
      /\ handler = [at |-> "start", outcome |-> "none", stream |-> None,
                    n |-> 0, byte |-> 0, err |-> "none"]
      /\ renewal = [at |-> "none", cancelled |-> FALSE, stream |-> None]
      /\ reader = NoReader /\ open = {} /\ delivered = <<>>
  BY DEF Init
<1>3. DownloadTypes
  <2>1. handler \in HandlerType
    BY <1>2 DEF HandlerType, Stage, Outcome, Error, Stream
  <2>2. renewal \in RenewalType
    BY <1>2 DEF RenewalType, Stream
  <2>3. delivered \in Seq(Nat) /\ open \in SUBSET Nat
    BY <1>2
  <2> QED  BY <1>1, <1>2, <2>1, <2>2, <2>3, NoReaderFields DEF DownloadTypes
<1>4. StagesFit
  BY <1>2 DEF StagesFit, Before, Copying
<1>5. StreamsHeld
  BY <1>2, NoReaderFields DEF StreamsHeld, Holders
<1>6. BytesInOrder
  BY <1>2 DEF BytesInOrder, Copying
<1> QED  BY <1>2, <1>3, <1>4, <1>5, <1>6 DEF DownloadInd, Copying

LEMMA DownloadNextKeeps ==
  ASSUME DownloadInd, [Next]_vars
  PROVE  DownloadInd'
<1>1. CASE AcquireReader
  BY <1>1, AcquireKeeps
<1>2. CASE OpenStream
  BY <1>2, OpenStreamKeeps
<1>3. CASE OpenFails
  BY <1>3, OpenFailsKeeps
<1>4. CASE GetPartIndex
  BY <1>4, GetPartIndexKeeps
<1>5. CASE RenewReaderAfterDelay
  BY <1>5, RenewReaderKeeps
<1>6. CASE Read
  BY <1>6, ReadKeeps
<1>7. CASE SelectPart
  BY <1>7, SelectPartKeeps
<1>8. CASE OpenPart
  BY <1>8, OpenPartKeeps
<1>9. CASE InstallStream
  BY <1>9, InstallStreamKeeps
<1>10. CASE ReadStream
  BY <1>10, ReadStreamKeeps
<1>11. CASE FinishPart
  BY <1>11, FinishPartKeeps
<1>12. CASE ReadReturns
  BY <1>12, ReadReturnsKeeps
<1>13. CASE CancelRenewal
  BY <1>13, CancelRenewalKeeps
<1>14. CASE CloseStream
  BY <1>14, CloseStreamKeeps
<1>15. CASE ReleaseLease
  BY <1>15, ReleaseLeaseKeeps
<1>16. CASE RenewalTakesStream
  BY <1>16, RenewalTakesStreamKeeps
<1>17. CASE RenewalClosesStream
  BY <1>17, RenewalClosesStreamKeeps
<1>18. CASE RenewalStops
  BY <1>18, RenewalStopsKeeps
<1>19. CASE RenewFails
  BY <1>19, RenewFailsKeeps
<1>20. CASE LeaseExpires \/ ObjectsDeleted
  BY <1>20, WorldKeeps
<1>21. CASE UNCHANGED vars
  <2>1. /\ UNCHANGED <<archive, ranges, handler, reader, delivered>>
        /\ UNCHANGED <<lease, renewal, leaseErr, open>>
    BY <1>21 DEF vars
  <2>2. DownloadTypes' /\ StagesFit' /\ StreamsHeld'
    BY <2>1 DEF DownloadInd, DownloadTypes, StagesFit, StreamsHeld, Holders
  <2> QED  BY <2>1, <2>2, HandlerWaits
<1> QED  BY <1>1, <1>2, <1>3, <1>4, <1>5, <1>6, <1>7, <1>8, <1>9, <1>10, <1>11, <1>12, <1>13,
            <1>14, <1>15, <1>16, <1>17, <1>18, <1>19, <1>20, <1>21
         DEF Next, Handler, Closing, Terminating

\* It says more than DownloadInv.
LEMMA DownloadIndImplies ==
  ASSUME DownloadInd
  PROVE  DownloadInv
<1>1. TypeOK
  <2>1. /\ archive.sizes \in Sizes /\ ranges \in Ranges
        /\ {archive.merged, archive.recorded, archive.gone, leaseErr} \subseteq BOOLEAN
        /\ lease \in {"none", "live", "lost", "released"}
        /\ open \subseteq Nat /\ delivered \in Seq(Nat)
    BY DEF DownloadInd, DownloadTypes
  <2>2. handler \in HandlerType /\ renewal \in RenewalType /\ reader \in ReaderType
    BY DEF DownloadInd, DownloadTypes
  <2>3. /\ handler.at \in Stage /\ handler.outcome \in Outcome
        /\ handler.stream \in {None} \cup Nat
        /\ handler.n \in {0, 1} /\ handler.err \in Error
    BY <2>2, HandlerHas DEF Stream
  <2>4. /\ renewal.at \in {"none", "running", "closing", "closeStream", "done"}
        /\ renewal.cancelled \in BOOLEAN
    BY <2>2, RenewalHas
  <2>5. /\ {reader.index, reader.offset, reader.remaining, reader.pos} \subseteq Nat
        /\ {reader.raw, reader.ranged, reader.closed} \subseteq BOOLEAN
        /\ reader.current \in {None} \cup Nat
    BY <2>2, ReaderHas DEF Stream
  <2> QED  BY <2>1, <2>3, <2>4, <2>5, Zenon DEF TypeOK
<1>2. lease = "released" => open = {} /\ renewal.at \in {"none", "done"}
  BY DEF DownloadInd, DownloadTypes, StagesFit, HandlerType, Before, Copying, Stage
<1>3. /\ handler.at = "done" => lease \in {"none", "released"}
      /\ reader.current # None => reader.current \in open
  BY DEF DownloadInd, StagesFit, StreamsHeld
<1> QED  BY <1>1, <1>2, <1>3 DEF DownloadInv

\* No step from before the stream into it takes a lease that was lost.
LEMMA FreshLease ==
  ASSUME DownloadInd, [Next]_vars,
         handler.at \in {"resolve", "index", "delayed"}, handler'.at = "streaming"
  PROVE  lease = "live"
<1>1. handler \in HandlerType
  BY DEF DownloadInd, DownloadTypes
<1>2. handler.at # "delayed" => lease = "live"
  BY DEF DownloadInd, StagesFit, Before
<1>3. CASE handler.at = "delayed"
  <2>1. RenewReaderAfterDelay \/ OpenFails \/ UNCHANGED handler
    BY <1>3 DEF Next, Handler, Closing, Terminating, vars, AcquireReader, OpenStream, GetPartIndex,
         Read, SelectPart, OpenPart, InstallStream, ReadStream, FinishPart, ReadReturns,
         CancelRenewal, CloseStream, ReleaseLease, RenewalTakesStream, RenewalClosesStream,
         RenewalStops, RenewFails, LeaseExpires, ObjectsDeleted
  <2>2. ASSUME NEW outcome, Fails(outcome)
        PROVE  FALSE
    <3>1. handler' = HandlerWithAtOutcome(handler, "done", outcome)
      BY <2>2, Zenon DEF Fails, HandlerWithAtOutcome
    <3>2. handler'.at = "done"
      BY <1>1, <3>1, HandlerSetsAtOutcome
    <3> QED  BY <3>2
  <2>3. CASE RenewReaderAfterDelay
    BY <2>2, <2>3 DEF RenewReaderAfterDelay, Renewed
  <2>4. CASE OpenFails
    BY <2>2, <2>4 DEF OpenFails
  <2>5. CASE UNCHANGED handler
    BY <2>5
  <2> QED  BY <2>1, <2>3, <2>4, <2>5
<1> QED  BY <1>2, <1>3
-----------------------------------------------------------------------------
(* The invariant of a lookup.                                                *)

Pc == {"query", "location", "probe", "purge", "direct", "hit", "miss", "failed"}
Url == {"none", "direct", "fallback"}
Rep == {"merged", "parts"}
LookupType == [pc : Pc, attempts : Nat, scope : Nat, key : Nat, prefix : BOOLEAN,
               tuple : Tuple \cup {<<>>}, found : Location \cup {<<>>},
               updatedAt : Nat, rep : Rep, url : Url]
EntryType == [upload : Nat, updatedAt : Nat]

LookupTypes ==
  /\ engine \in Engine /\ asked \in Asked /\ lookup \in LookupType
  /\ uploads \in Nat /\ changes \in Nat /\ uploads <= changes /\ changes <= MaxChanges
  /\ DOMAIN entry \subseteq Tuple /\ \A t \in DOMAIN entry : entry[t] \in EntryType
  /\ locations \subseteq Tuple \X (0 .. uploads) /\ lost \subseteq Tuple \X (0 .. uploads)
  /\ \A t \in DOMAIN age : age[t] \in {0, 1}

\* What is stored, and what the entries have that could be served all the time.
Stored ==
  /\ Referenced \subseteq locations
  /\ partsDeleted \subseteq merged /\ merged \subseteq locations
  /\ dangling \subseteq lost
  /\ \A t \in steady : /\ t \in DOMAIN entry /\ t \in DOMAIN age
                       /\ Current(t) \notin lost /\ age[t] <= entry[t].updatedAt

Found == {"location", "probe", "purge", "direct", "hit"}

\* The query, as the match it would be, and those that were asked before.
Cursor == <<lookup.scope, lookup.key, IF lookup.prefix THEN "prefix" ELSE "exact">>
Passed(m) ==
  \/ lookup.scope = 0 \/ Sooner(m[1], lookup.scope)
  \/ /\ m[1] = lookup.scope
     /\ \/ m[2] < lookup.key
        \/ m[2] = lookup.key /\ m[3] = "exact" /\ lookup.prefix

NoneBefore == \A u \in steady : \A m \in Matches(u) : ~Passed(m)

Searched ==
  /\ lookup.scope \in Readable \cup {0} /\ lookup.key \in DOMAIN asked.keys
  /\ lookup.attempts <= MaxAttempts /\ (lookup.pc # "miss" => lookup.attempts < MaxAttempts)
  /\ lookup.pc \in {"query"} \cup Found => NoneBefore
  /\ lookup.pc \in Found =>
       /\ lookup.tuple \in Tuple /\ lookup.found \in {lookup.tuple} \X (0 .. uploads)
       /\ Cursor \in Matches(lookup.tuple)
       /\ \A u \in steady : Cursor \in Matches(u) => age[u] <= lookup.updatedAt
  /\ lookup.pc = "miss" /\ lookup.attempts < MaxAttempts =>
       \A u \in steady : Matches(u) = {}

\* What was found there before.
Probed ==
  /\ lookup.pc = "probe" /\ lookup.rep = "merged" =>
       \/ lookup.found \in merged
       \/ lookup.found \notin locations
  /\ lookup.pc = "purge" =>
       \/ lookup.found \notin locations
       \/ lookup.found \in lost
       \/ lookup.rep = "parts" /\ lookup.found \in partsDeleted
  /\ lookup.pc \in {"direct", "hit"} => lookup.found \notin dangling

LookupInd == LookupTypes /\ Stored /\ Searched /\ Probed

-----------------------------------------------------------------------------
(* What steps do to the record of a lookup.                                   *)

LookupOf(pc0, attempts0, scope0, key0, prefix0, tuple0, found0, updatedAt0, rep0, url0) ==
  [pc |-> pc0, attempts |-> attempts0, scope |-> scope0, key |-> key0, prefix |-> prefix0,
   tuple |-> tuple0, found |-> found0, updatedAt |-> updatedAt0, rep |-> rep0, url |-> url0]

LEMMA LookupHas ==
  ASSUME NEW r \in LookupType
  PROVE  /\ r = LookupOf(r.pc, r.attempts, r.scope, r.key, r.prefix, r.tuple, r.found,
                          r.updatedAt, r.rep, r.url)
         /\ r.pc \in Pc /\ r.attempts \in Nat /\ r.scope \in Nat /\ r.key \in Nat
         /\ r.prefix \in BOOLEAN /\ r.tuple \in Tuple \cup {<<>>}
         /\ r.found \in Location \cup {<<>>} /\ r.updatedAt \in Nat /\ r.rep \in Rep
         /\ r.url \in Url
BY DEF LookupType, LookupOf

LookupWithPc(r, pc1) ==
  [r EXCEPT !.pc = pc1]

LEMMA LookupSetsPc ==
  ASSUME NEW r \in LookupType, NEW pc1, NEW q, q = LookupWithPc(r, pc1)
  PROVE  /\ pc1 \in Pc => q \in LookupType
         /\ q.pc = pc1 /\ q.attempts = r.attempts /\ q.scope = r.scope /\ q.key = r.key
         /\ q.prefix = r.prefix /\ q.tuple = r.tuple /\ q.found = r.found
         /\ q.updatedAt = r.updatedAt /\ q.rep = r.rep /\ q.url = r.url
BY SMT DEF LookupType, LookupWithPc

LookupWithPcUrl(r, pc1, url1) ==
  [r EXCEPT !.pc = pc1, !.url = url1]

LEMMA LookupSetsPcUrl ==
  ASSUME NEW r \in LookupType, NEW pc1, NEW url1, NEW q, q = LookupWithPcUrl(r, pc1, url1)
  PROVE  /\ pc1 \in Pc /\ url1 \in Url => q \in LookupType
         /\ q.pc = pc1 /\ q.attempts = r.attempts /\ q.scope = r.scope /\ q.key = r.key
         /\ q.prefix = r.prefix /\ q.tuple = r.tuple /\ q.found = r.found
         /\ q.updatedAt = r.updatedAt /\ q.rep = r.rep /\ q.url = url1
<1>1. r = LookupOf(r.pc, r.attempts, r.scope, r.key, r.prefix, r.tuple, r.found, r.updatedAt,
                   r.rep, r.url)
  BY LookupHas, Zenon
<1>2. PICK pc0, attempts0, scope0, key0, prefix0, tuple0, found0, updatedAt0, rep0, url0 :
        /\ pc0 = r.pc /\ attempts0 = r.attempts /\ scope0 = r.scope /\ key0 = r.key
        /\ prefix0 = r.prefix /\ tuple0 = r.tuple /\ found0 = r.found /\ updatedAt0 = r.updatedAt
        /\ rep0 = r.rep /\ url0 = r.url
  OBVIOUS
<1>3. r = LookupOf(pc0, attempts0, scope0, key0, prefix0, tuple0, found0, updatedAt0, rep0, url0)
  BY <1>1, <1>2, Zenon
<1>4. q = LookupOf(pc1, attempts0, scope0, key0, prefix0, tuple0, found0, updatedAt0, rep0, url1)
  BY <1>3 DEF LookupOf, LookupWithPcUrl
<1>5. q = LookupOf(pc1, r.attempts, r.scope, r.key, r.prefix, r.tuple, r.found, r.updatedAt,
                   r.rep, url1)
  BY <1>2, <1>4, Zenon
<1>6. /\ q.pc = pc1 /\ q.attempts = r.attempts /\ q.scope = r.scope /\ q.key = r.key
      /\ q.prefix = r.prefix /\ q.tuple = r.tuple /\ q.found = r.found
      /\ q.updatedAt = r.updatedAt /\ q.rep = r.rep /\ q.url = url1
  BY <1>5 DEF LookupOf
<1>7. ASSUME pc1 \in Pc, url1 \in Url
      PROVE  q \in LookupType
  <2>1. /\ pc1 \in Pc /\ r.attempts \in Nat /\ r.scope \in Nat /\ r.key \in Nat
        /\ r.prefix \in BOOLEAN /\ r.tuple \in Tuple \cup {<<>>}
        /\ r.found \in Location \cup {<<>>} /\ r.updatedAt \in Nat /\ r.rep \in Rep
        /\ url1 \in Url
    BY <1>7, LookupHas, Zenon
  <2> QED  BY ONLY <1>5, <2>1, Zenon DEF LookupOf, LookupType
<1> QED  BY <1>6, <1>7, Zenon

LookupWithPcAttempts(r, pc1, attempts1) ==
  [r EXCEPT !.pc = pc1, !.attempts = attempts1]

LEMMA LookupSetsPcAttempts ==
  ASSUME NEW r \in LookupType, NEW pc1, NEW attempts1,
         NEW q, q = LookupWithPcAttempts(r, pc1, attempts1)
  PROVE  /\ pc1 \in Pc /\ attempts1 \in Nat => q \in LookupType
         /\ q.pc = pc1 /\ q.attempts = attempts1 /\ q.scope = r.scope /\ q.key = r.key
         /\ q.prefix = r.prefix /\ q.tuple = r.tuple /\ q.found = r.found
         /\ q.updatedAt = r.updatedAt /\ q.rep = r.rep /\ q.url = r.url
<1>1. r = LookupOf(r.pc, r.attempts, r.scope, r.key, r.prefix, r.tuple, r.found, r.updatedAt,
                   r.rep, r.url)
  BY LookupHas, Zenon
<1>2. PICK pc0, attempts0, scope0, key0, prefix0, tuple0, found0, updatedAt0, rep0, url0 :
        /\ pc0 = r.pc /\ attempts0 = r.attempts /\ scope0 = r.scope /\ key0 = r.key
        /\ prefix0 = r.prefix /\ tuple0 = r.tuple /\ found0 = r.found /\ updatedAt0 = r.updatedAt
        /\ rep0 = r.rep /\ url0 = r.url
  OBVIOUS
<1>3. r = LookupOf(pc0, attempts0, scope0, key0, prefix0, tuple0, found0, updatedAt0, rep0, url0)
  BY <1>1, <1>2, Zenon
<1>4. q = LookupOf(pc1, attempts1, scope0, key0, prefix0, tuple0, found0, updatedAt0, rep0, url0)
  BY <1>3 DEF LookupOf, LookupWithPcAttempts
<1>5. q = LookupOf(pc1, attempts1, r.scope, r.key, r.prefix, r.tuple, r.found, r.updatedAt, r.rep,
                   r.url)
  BY <1>2, <1>4, Zenon
<1>6. /\ q.pc = pc1 /\ q.attempts = attempts1 /\ q.scope = r.scope /\ q.key = r.key
      /\ q.prefix = r.prefix /\ q.tuple = r.tuple /\ q.found = r.found
      /\ q.updatedAt = r.updatedAt /\ q.rep = r.rep /\ q.url = r.url
  BY <1>5 DEF LookupOf
<1>7. ASSUME pc1 \in Pc, attempts1 \in Nat
      PROVE  q \in LookupType
  <2>1. /\ pc1 \in Pc /\ attempts1 \in Nat /\ r.scope \in Nat /\ r.key \in Nat
        /\ r.prefix \in BOOLEAN /\ r.tuple \in Tuple \cup {<<>>}
        /\ r.found \in Location \cup {<<>>} /\ r.updatedAt \in Nat /\ r.rep \in Rep
        /\ r.url \in Url
    BY <1>7, LookupHas, Zenon
  <2> QED  BY ONLY <1>5, <2>1, Zenon DEF LookupOf, LookupType
<1> QED  BY <1>6, <1>7, Zenon

LookupWithAttempts(r, attempts1) ==
  [r EXCEPT !.attempts = attempts1]

LEMMA LookupSetsAttempts ==
  ASSUME NEW r \in LookupType, NEW attempts1, NEW q, q = LookupWithAttempts(r, attempts1)
  PROVE  /\ attempts1 \in Nat => q \in LookupType
         /\ q.pc = r.pc /\ q.attempts = attempts1 /\ q.scope = r.scope /\ q.key = r.key
         /\ q.prefix = r.prefix /\ q.tuple = r.tuple /\ q.found = r.found
         /\ q.updatedAt = r.updatedAt /\ q.rep = r.rep /\ q.url = r.url
BY SMT DEF LookupType, LookupWithAttempts

LookupWithPrefix(r, prefix1) ==
  [r EXCEPT !.prefix = prefix1]

LEMMA LookupSetsPrefix ==
  ASSUME NEW r \in LookupType, NEW prefix1, NEW q, q = LookupWithPrefix(r, prefix1)
  PROVE  /\ prefix1 \in BOOLEAN => q \in LookupType
         /\ q.pc = r.pc /\ q.attempts = r.attempts /\ q.scope = r.scope /\ q.key = r.key
         /\ q.prefix = prefix1 /\ q.tuple = r.tuple /\ q.found = r.found
         /\ q.updatedAt = r.updatedAt /\ q.rep = r.rep /\ q.url = r.url
BY SMT DEF LookupType, LookupWithPrefix

LookupWithKeyPrefix(r, key1, prefix1) ==
  [r EXCEPT !.key = key1, !.prefix = prefix1]

LEMMA LookupSetsKeyPrefix ==
  ASSUME NEW r \in LookupType, NEW key1, NEW prefix1,
         NEW q, q = LookupWithKeyPrefix(r, key1, prefix1)
  PROVE  /\ key1 \in Nat /\ prefix1 \in BOOLEAN => q \in LookupType
         /\ q.pc = r.pc /\ q.attempts = r.attempts /\ q.scope = r.scope /\ q.key = key1
         /\ q.prefix = prefix1 /\ q.tuple = r.tuple /\ q.found = r.found
         /\ q.updatedAt = r.updatedAt /\ q.rep = r.rep /\ q.url = r.url
<1>1. r = LookupOf(r.pc, r.attempts, r.scope, r.key, r.prefix, r.tuple, r.found, r.updatedAt,
                   r.rep, r.url)
  BY LookupHas, Zenon
<1>2. PICK pc0, attempts0, scope0, key0, prefix0, tuple0, found0, updatedAt0, rep0, url0 :
        /\ pc0 = r.pc /\ attempts0 = r.attempts /\ scope0 = r.scope /\ key0 = r.key
        /\ prefix0 = r.prefix /\ tuple0 = r.tuple /\ found0 = r.found /\ updatedAt0 = r.updatedAt
        /\ rep0 = r.rep /\ url0 = r.url
  OBVIOUS
<1>3. r = LookupOf(pc0, attempts0, scope0, key0, prefix0, tuple0, found0, updatedAt0, rep0, url0)
  BY <1>1, <1>2, Zenon
<1>4. q = LookupOf(pc0, attempts0, scope0, key1, prefix1, tuple0, found0, updatedAt0, rep0, url0)
  BY <1>3 DEF LookupOf, LookupWithKeyPrefix
<1>5. q = LookupOf(r.pc, r.attempts, r.scope, key1, prefix1, r.tuple, r.found, r.updatedAt, r.rep,
                   r.url)
  BY <1>2, <1>4, Zenon
<1>6. /\ q.pc = r.pc /\ q.attempts = r.attempts /\ q.scope = r.scope /\ q.key = key1
      /\ q.prefix = prefix1 /\ q.tuple = r.tuple /\ q.found = r.found /\ q.updatedAt = r.updatedAt
      /\ q.rep = r.rep /\ q.url = r.url
  BY <1>5 DEF LookupOf
<1>7. ASSUME key1 \in Nat, prefix1 \in BOOLEAN
      PROVE  q \in LookupType
  <2>1. /\ r.pc \in Pc /\ r.attempts \in Nat /\ r.scope \in Nat /\ key1 \in Nat
        /\ prefix1 \in BOOLEAN /\ r.tuple \in Tuple \cup {<<>>}
        /\ r.found \in Location \cup {<<>>} /\ r.updatedAt \in Nat /\ r.rep \in Rep
        /\ r.url \in Url
    BY <1>7, LookupHas, Zenon
  <2> QED  BY ONLY <1>5, <2>1, Zenon DEF LookupOf, LookupType
<1> QED  BY <1>6, <1>7, Zenon

LookupWithScopeKeyPrefix(r, scope1, key1, prefix1) ==
  [r EXCEPT !.scope = scope1, !.key = key1, !.prefix = prefix1]

LEMMA LookupSetsScopeKeyPrefix ==
  ASSUME NEW r \in LookupType, NEW scope1, NEW key1, NEW prefix1,
         NEW q, q = LookupWithScopeKeyPrefix(r, scope1, key1, prefix1)
  PROVE  /\ scope1 \in Nat /\ key1 \in Nat /\ prefix1 \in BOOLEAN => q \in LookupType
         /\ q.pc = r.pc /\ q.attempts = r.attempts /\ q.scope = scope1 /\ q.key = key1
         /\ q.prefix = prefix1 /\ q.tuple = r.tuple /\ q.found = r.found
         /\ q.updatedAt = r.updatedAt /\ q.rep = r.rep /\ q.url = r.url
<1>1. r = LookupOf(r.pc, r.attempts, r.scope, r.key, r.prefix, r.tuple, r.found, r.updatedAt,
                   r.rep, r.url)
  BY LookupHas, Zenon
<1>2. PICK pc0, attempts0, scope0, key0, prefix0, tuple0, found0, updatedAt0, rep0, url0 :
        /\ pc0 = r.pc /\ attempts0 = r.attempts /\ scope0 = r.scope /\ key0 = r.key
        /\ prefix0 = r.prefix /\ tuple0 = r.tuple /\ found0 = r.found /\ updatedAt0 = r.updatedAt
        /\ rep0 = r.rep /\ url0 = r.url
  OBVIOUS
<1>3. r = LookupOf(pc0, attempts0, scope0, key0, prefix0, tuple0, found0, updatedAt0, rep0, url0)
  BY <1>1, <1>2, Zenon
<1>4. q = LookupOf(pc0, attempts0, scope1, key1, prefix1, tuple0, found0, updatedAt0, rep0, url0)
  BY <1>3 DEF LookupOf, LookupWithScopeKeyPrefix
<1>5. q = LookupOf(r.pc, r.attempts, scope1, key1, prefix1, r.tuple, r.found, r.updatedAt, r.rep,
                   r.url)
  BY <1>2, <1>4, Zenon
<1>6. /\ q.pc = r.pc /\ q.attempts = r.attempts /\ q.scope = scope1 /\ q.key = key1
      /\ q.prefix = prefix1 /\ q.tuple = r.tuple /\ q.found = r.found /\ q.updatedAt = r.updatedAt
      /\ q.rep = r.rep /\ q.url = r.url
  BY <1>5 DEF LookupOf
<1>7. ASSUME scope1 \in Nat, key1 \in Nat, prefix1 \in BOOLEAN
      PROVE  q \in LookupType
  <2>1. /\ r.pc \in Pc /\ r.attempts \in Nat /\ scope1 \in Nat /\ key1 \in Nat
        /\ prefix1 \in BOOLEAN /\ r.tuple \in Tuple \cup {<<>>}
        /\ r.found \in Location \cup {<<>>} /\ r.updatedAt \in Nat /\ r.rep \in Rep
        /\ r.url \in Url
    BY <1>7, LookupHas, Zenon
  <2> QED  BY ONLY <1>5, <2>1, Zenon DEF LookupOf, LookupType
<1> QED  BY <1>6, <1>7, Zenon

LookupWithPcTupleFoundUpdatedAt(r, pc1, tuple1, found1, updatedAt1) ==
  [r EXCEPT !.pc = pc1, !.tuple = tuple1, !.found = found1, !.updatedAt = updatedAt1]

LEMMA LookupSetsPcTupleFoundUpdatedAt ==
  ASSUME NEW r \in LookupType, NEW pc1, NEW tuple1, NEW found1, NEW updatedAt1,
         NEW q, q = LookupWithPcTupleFoundUpdatedAt(r, pc1, tuple1, found1, updatedAt1)
  PROVE  /\ /\ pc1 \in Pc /\ tuple1 \in Tuple \cup {<<>>} /\ found1 \in Location \cup {<<>>}
            /\ updatedAt1 \in Nat
            => q \in LookupType
         /\ q.pc = pc1 /\ q.attempts = r.attempts /\ q.scope = r.scope /\ q.key = r.key
         /\ q.prefix = r.prefix /\ q.tuple = tuple1 /\ q.found = found1
         /\ q.updatedAt = updatedAt1 /\ q.rep = r.rep /\ q.url = r.url
<1>1. r = LookupOf(r.pc, r.attempts, r.scope, r.key, r.prefix, r.tuple, r.found, r.updatedAt,
                   r.rep, r.url)
  BY LookupHas, Zenon
<1>2. PICK pc0, attempts0, scope0, key0, prefix0, tuple0, found0, updatedAt0, rep0, url0 :
        /\ pc0 = r.pc /\ attempts0 = r.attempts /\ scope0 = r.scope /\ key0 = r.key
        /\ prefix0 = r.prefix /\ tuple0 = r.tuple /\ found0 = r.found /\ updatedAt0 = r.updatedAt
        /\ rep0 = r.rep /\ url0 = r.url
  OBVIOUS
<1>3. r = LookupOf(pc0, attempts0, scope0, key0, prefix0, tuple0, found0, updatedAt0, rep0, url0)
  BY <1>1, <1>2, Zenon
<1>4. q = LookupOf(pc1, attempts0, scope0, key0, prefix0, tuple1, found1, updatedAt1, rep0, url0)
  BY <1>3 DEF LookupOf, LookupWithPcTupleFoundUpdatedAt
<1>5. q = LookupOf(pc1, r.attempts, r.scope, r.key, r.prefix, tuple1, found1, updatedAt1, r.rep,
                   r.url)
  BY <1>2, <1>4, Zenon
<1>6. /\ q.pc = pc1 /\ q.attempts = r.attempts /\ q.scope = r.scope /\ q.key = r.key
      /\ q.prefix = r.prefix /\ q.tuple = tuple1 /\ q.found = found1 /\ q.updatedAt = updatedAt1
      /\ q.rep = r.rep /\ q.url = r.url
  BY <1>5 DEF LookupOf
<1>7. ASSUME pc1 \in Pc, tuple1 \in Tuple \cup {<<>>}, found1 \in Location \cup {<<>>},
             updatedAt1 \in Nat
      PROVE  q \in LookupType
  <2>1. /\ pc1 \in Pc /\ r.attempts \in Nat /\ r.scope \in Nat /\ r.key \in Nat
        /\ r.prefix \in BOOLEAN /\ tuple1 \in Tuple \cup {<<>>} /\ found1 \in Location \cup {<<>>}
        /\ updatedAt1 \in Nat /\ r.rep \in Rep /\ r.url \in Url
    BY <1>7, LookupHas, Zenon
  <2> QED  BY ONLY <1>5, <2>1, Zenon DEF LookupOf, LookupType
<1> QED  BY <1>6, <1>7, Zenon

LookupWithPcRep(r, pc1, rep1) ==
  [r EXCEPT !.pc = pc1, !.rep = rep1]

LEMMA LookupSetsPcRep ==
  ASSUME NEW r \in LookupType, NEW pc1, NEW rep1, NEW q, q = LookupWithPcRep(r, pc1, rep1)
  PROVE  /\ pc1 \in Pc /\ rep1 \in Rep => q \in LookupType
         /\ q.pc = pc1 /\ q.attempts = r.attempts /\ q.scope = r.scope /\ q.key = r.key
         /\ q.prefix = r.prefix /\ q.tuple = r.tuple /\ q.found = r.found
         /\ q.updatedAt = r.updatedAt /\ q.rep = rep1 /\ q.url = r.url
<1>1. r = LookupOf(r.pc, r.attempts, r.scope, r.key, r.prefix, r.tuple, r.found, r.updatedAt,
                   r.rep, r.url)
  BY LookupHas, Zenon
<1>2. PICK pc0, attempts0, scope0, key0, prefix0, tuple0, found0, updatedAt0, rep0, url0 :
        /\ pc0 = r.pc /\ attempts0 = r.attempts /\ scope0 = r.scope /\ key0 = r.key
        /\ prefix0 = r.prefix /\ tuple0 = r.tuple /\ found0 = r.found /\ updatedAt0 = r.updatedAt
        /\ rep0 = r.rep /\ url0 = r.url
  OBVIOUS
<1>3. r = LookupOf(pc0, attempts0, scope0, key0, prefix0, tuple0, found0, updatedAt0, rep0, url0)
  BY <1>1, <1>2, Zenon
<1>4. q = LookupOf(pc1, attempts0, scope0, key0, prefix0, tuple0, found0, updatedAt0, rep1, url0)
  BY <1>3 DEF LookupOf, LookupWithPcRep
<1>5. q = LookupOf(pc1, r.attempts, r.scope, r.key, r.prefix, r.tuple, r.found, r.updatedAt, rep1,
                   r.url)
  BY <1>2, <1>4, Zenon
<1>6. /\ q.pc = pc1 /\ q.attempts = r.attempts /\ q.scope = r.scope /\ q.key = r.key
      /\ q.prefix = r.prefix /\ q.tuple = r.tuple /\ q.found = r.found
      /\ q.updatedAt = r.updatedAt /\ q.rep = rep1 /\ q.url = r.url
  BY <1>5 DEF LookupOf
<1>7. ASSUME pc1 \in Pc, rep1 \in Rep
      PROVE  q \in LookupType
  <2>1. /\ pc1 \in Pc /\ r.attempts \in Nat /\ r.scope \in Nat /\ r.key \in Nat
        /\ r.prefix \in BOOLEAN /\ r.tuple \in Tuple \cup {<<>>}
        /\ r.found \in Location \cup {<<>>} /\ r.updatedAt \in Nat /\ rep1 \in Rep
        /\ r.url \in Url
    BY <1>7, LookupHas, Zenon
  <2> QED  BY ONLY <1>5, <2>1, Zenon DEF LookupOf, LookupType
<1> QED  BY <1>6, <1>7, Zenon

LookupWithPcFoundRep(r, pc1, found1, rep1) ==
  [r EXCEPT !.pc = pc1, !.found = found1, !.rep = rep1]

LEMMA LookupSetsPcFoundRep ==
  ASSUME NEW r \in LookupType, NEW pc1, NEW found1, NEW rep1,
         NEW q, q = LookupWithPcFoundRep(r, pc1, found1, rep1)
  PROVE  /\ /\ pc1 \in Pc /\ found1 \in Location \cup {<<>>} /\ rep1 \in Rep
            => q \in LookupType
         /\ q.pc = pc1 /\ q.attempts = r.attempts /\ q.scope = r.scope /\ q.key = r.key
         /\ q.prefix = r.prefix /\ q.tuple = r.tuple /\ q.found = found1
         /\ q.updatedAt = r.updatedAt /\ q.rep = rep1 /\ q.url = r.url
<1>1. r = LookupOf(r.pc, r.attempts, r.scope, r.key, r.prefix, r.tuple, r.found, r.updatedAt,
                   r.rep, r.url)
  BY LookupHas, Zenon
<1>2. PICK pc0, attempts0, scope0, key0, prefix0, tuple0, found0, updatedAt0, rep0, url0 :
        /\ pc0 = r.pc /\ attempts0 = r.attempts /\ scope0 = r.scope /\ key0 = r.key
        /\ prefix0 = r.prefix /\ tuple0 = r.tuple /\ found0 = r.found /\ updatedAt0 = r.updatedAt
        /\ rep0 = r.rep /\ url0 = r.url
  OBVIOUS
<1>3. r = LookupOf(pc0, attempts0, scope0, key0, prefix0, tuple0, found0, updatedAt0, rep0, url0)
  BY <1>1, <1>2, Zenon
<1>4. q = LookupOf(pc1, attempts0, scope0, key0, prefix0, tuple0, found1, updatedAt0, rep1, url0)
  BY <1>3 DEF LookupOf, LookupWithPcFoundRep
<1>5. q = LookupOf(pc1, r.attempts, r.scope, r.key, r.prefix, r.tuple, found1, r.updatedAt, rep1,
                   r.url)
  BY <1>2, <1>4, Zenon
<1>6. /\ q.pc = pc1 /\ q.attempts = r.attempts /\ q.scope = r.scope /\ q.key = r.key
      /\ q.prefix = r.prefix /\ q.tuple = r.tuple /\ q.found = found1 /\ q.updatedAt = r.updatedAt
      /\ q.rep = rep1 /\ q.url = r.url
  BY <1>5 DEF LookupOf
<1>7. ASSUME pc1 \in Pc, found1 \in Location \cup {<<>>}, rep1 \in Rep
      PROVE  q \in LookupType
  <2>1. /\ pc1 \in Pc /\ r.attempts \in Nat /\ r.scope \in Nat /\ r.key \in Nat
        /\ r.prefix \in BOOLEAN /\ r.tuple \in Tuple \cup {<<>>}
        /\ found1 \in Location \cup {<<>>} /\ r.updatedAt \in Nat /\ rep1 \in Rep /\ r.url \in Url
    BY <1>7, LookupHas, Zenon
  <2> QED  BY ONLY <1>5, <2>1, Zenon DEF LookupOf, LookupType
<1> QED  BY <1>6, <1>7, Zenon

-----------------------------------------------------------------------------
(* The order of the scopes.                                                  *)

LEMMA AskedHas ==
  ASSUME asked \in Asked
  PROVE  /\ Len(asked.scopes) \in Nat /\ DOMAIN asked.scopes = 1 .. Len(asked.scopes)
         /\ \A i \in 1 .. Len(asked.scopes) :
              asked.scopes[i].permission \in Int /\ asked.scopes[i].scope \in Scope
         /\ Len(asked.keys) \in Nat \ {0} /\ DOMAIN asked.keys = 1 .. Len(asked.keys)
         /\ \A i \in 1 .. Len(asked.keys) : asked.keys[i] \in Seq(Letter)
<1>1. PICK scopes, keys : scopes = asked.scopes /\ keys = asked.keys
  OBVIOUS
<1>2. /\ scopes \in Seq([scope : Scope, permission : Int])
      /\ keys \in Seq(Seq(Letter)) /\ keys # <<>>
  BY <1>1, LookupAssumption, Zenon DEF LookupAssumption
<1>3. /\ Len(scopes) \in Nat /\ DOMAIN scopes = 1 .. Len(scopes)
      /\ \A i \in 1 .. Len(scopes) : scopes[i] \in [scope : Scope, permission : Int]
  <2>1. PICK ranks : ranks = [scope : Scope, permission : Int]
    OBVIOUS
  <2>2. scopes \in Seq(ranks)
    BY <1>2, <2>1, Zenon
  <2>3. /\ Len(scopes) \in Nat /\ DOMAIN scopes = 1 .. Len(scopes)
        /\ \A i \in 1 .. Len(scopes) : scopes[i] \in ranks
    BY ONLY <2>2
  <2> QED  BY <2>1, <2>3, Zenon
<1>4. \A i \in 1 .. Len(scopes) : scopes[i].permission \in Int /\ scopes[i].scope \in Scope
  BY <1>3
<1>5. /\ Len(keys) \in Nat /\ DOMAIN keys = 1 .. Len(keys)
      /\ \A i \in 1 .. Len(keys) : keys[i] \in Seq(Letter)
  BY <1>2
<1>6. Len(keys) # 0
  BY <1>2, <1>5, EmptySeq
<1> QED  BY <1>1, <1>3, <1>4, <1>5, <1>6

LEMMA ReadableHas ==
  ASSUME asked \in Asked, NEW i \in Readable
  PROVE  /\ i \in 1 .. Len(asked.scopes) /\ i \in Nat \ {0}
         /\ asked.scopes[i].permission \in Int
BY AskedHas DEF Readable

LEMMA SoonerOrders ==
  ASSUME asked \in Asked, NEW i \in Readable, NEW j \in Readable, NEW k \in Readable
  PROVE  /\ ~Sooner(i, i)
         /\ Sooner(i, j) /\ Sooner(j, k) => Sooner(i, k)
         /\ i = j \/ Sooner(i, j) \/ Sooner(j, i)
<1>1. PICK p \in Int, q \in Int, r \in Int :
        /\ p = asked.scopes[i].permission /\ q = asked.scopes[j].permission
        /\ r = asked.scopes[k].permission
  BY ReadableHas
<1>2. i \in Nat /\ j \in Nat /\ k \in Nat
  BY ReadableHas
<1>3. /\ Sooner(i, i) <=> p > p \/ (p = p /\ i < i)
      /\ Sooner(i, j) <=> p > q \/ (p = q /\ i < j)
      /\ Sooner(j, i) <=> q > p \/ (q = p /\ j < i)
      /\ Sooner(j, k) <=> q > r \/ (q = r /\ j < k)
      /\ Sooner(i, k) <=> p > r \/ (p = r /\ i < k)
  BY <1>1 DEF Sooner
<1> QED  BY ONLY <1>2, <1>3

\* ReadScopesByPermission: the loop over the scopes is in this order, and takes each.
LEMMA SoonestLeads ==
  ASSUME asked \in Asked, NEW S \in SUBSET Readable
  PROVE  /\ S = {} => Soonest(S) = 0
         /\ S # {} => /\ Soonest(S) \in S
                      /\ \A j \in S \ {Soonest(S)} : Sooner(Soonest(S), j)
<1> DEFINE Among(k) == {i \in S : i <= k}
           Leads(k, m) == m \in Among(k) /\ \A j \in Among(k) : m = j \/ Sooner(m, j)
           Without == {k \in Nat : Among(k) # {} /\ ~ \E m \in S : Leads(k, m)}
<1>s. \A i \in S : i \in Nat \ {0} /\ i <= Len(asked.scopes)
  BY ReadableHas, AskedHas
<1>o. \A i, j, k \in S :
        /\ ~Sooner(i, i)
        /\ Sooner(i, j) /\ Sooner(j, k) => Sooner(i, k)
        /\ i = j \/ Sooner(i, j) \/ Sooner(j, i)
  BY SoonerOrders
<1>1. ASSUME Without # {} PROVE FALSE
  <2>1. PICK k \in Without : \A l \in Without : k <= l
    <3>1. Without \in SUBSET Nat
      OBVIOUS
    <3> HIDE DEF Without
    <3> QED  BY <1>1, <3>1, SmallestOf
  <2>2. k \in Nat /\ Among(k) # {} /\ ~ \E m \in S : Leads(k, m)
    BY <2>1
  <2>3. k # 0
    BY <1>s, <2>2
  <2>4. k - 1 \in Nat /\ k - 1 \notin Without
    <3>1. k - 1 \in Nat
      BY <2>2, <2>3
    <3>2. k - 1 \in Without => k <= k - 1
      BY <2>1
    <3> HIDE DEF Without
    <3> QED  BY <2>2, <3>1, <3>2
  <2>5. \A i \in S : i <= k <=> i <= k - 1 \/ i = k
    BY <1>s, <2>2, SMTT(30)
  <2>6. Among(k) = Among(k - 1) \cup (S \cap {k})
    BY <1>s, <2>2, <2>5
  <2>7. CASE Among(k - 1) = {}
    <3>1. Among(k) = {k} /\ k \in S
      BY <2>2, <2>6, <2>7
    <3>2. Leads(k, k)
      BY <3>1
    <3> QED  BY <2>2, <3>1, <3>2
  <2>8. CASE Among(k - 1) # {}
    <3>1. PICK m \in S : Leads(k - 1, m)
      BY <2>4, <2>8
    <3> HIDE DEF Without
    <3>2. CASE k \in S /\ Sooner(k, m)
      <4>1. \A j \in Among(k - 1) : Sooner(k, j)
        BY <1>o, <3>1, <3>2
      <4>2. Leads(k, k)
        BY <2>2, <2>6, <3>2, <4>1
      <4> QED  BY <2>2, <3>2, <4>2
    <3>3. CASE ~(k \in S /\ Sooner(k, m))
      <4>1. Leads(k, m)
        BY <1>o, <2>6, <3>1, <3>3
      <4> QED  BY <2>2, <3>1, <4>1
    <3> QED  BY <3>2, <3>3
  <2> QED  BY <2>7, <2>8
<1>2. ASSUME S # {}
      PROVE  \E m \in S : \A j \in S \ {m} : Sooner(m, j)
  <2>1. PICK n : n = Len(asked.scopes)
    OBVIOUS
  <2>2. n \in Nat /\ Among(n) = S
    BY <1>s, <2>1, AskedHas
  <2>3. n \notin Without
    BY <1>1
  <2>4. PICK m \in S : Leads(n, m)
    BY <1>2, <2>2, <2>3
  <2> QED  BY <2>2, <2>4
<1>3. S # {} => /\ Soonest(S) \in S
                /\ \A j \in S \ {Soonest(S)} : Sooner(Soonest(S), j)
  BY <1>2, Zenon DEF Soonest
<1>4. S = {} => Soonest(S) = 0
  BY DEF Soonest
<1> QED  BY <1>3, <1>4

-----------------------------------------------------------------------------
(* Matching.                                                                 *)

LEMMA FoldedHas ==
  ASSUME NEW k \in Seq(Letter)
  PROVE  /\ Len(Folded(k)) = Len(k) /\ Len(k) \in Nat
         /\ \A n \in 0 .. Len(k) :
              /\ SubSeq(Folded(k), 1, n) \in [1 .. n -> {Fold[engine][k[i]] : i \in DOMAIN k}]
              /\ \A i \in 1 .. n : SubSeq(Folded(k), 1, n)[i] = Fold[engine][k[i]]
<1> DEFINE S == {Fold[engine][k[i]] : i \in DOMAIN k}
<1>1. Len(k) \in Nat /\ DOMAIN k = 1 .. Len(k)
  OBVIOUS
<1>2. PICK f : f = Folded(k)
  OBVIOUS
<1>3. f \in [1 .. Len(k) -> S] /\ \A i \in 1 .. Len(k) : f[i] = Fold[engine][k[i]]
  BY <1>1, <1>2 DEF Folded
<1> HIDE DEF S
<1>4. f \in Seq(S) /\ Len(f) = Len(k)
  <2>1. f \in Seq(S)
    BY <1>1, <1>3, SeqDef
  <2> QED  BY <1>1, <1>3, <2>1, LenProperties
<1>5. ASSUME NEW n \in 0 .. Len(k)
      PROVE  /\ SubSeq(f, 1, n) \in [1 .. n -> S]
             /\ \A i \in 1 .. n : SubSeq(f, 1, n)[i] = Fold[engine][k[i]]
  <2>1. PICK s : s = SubSeq(f, 1, n)
    OBVIOUS
  <2>2. s \in Seq(S) /\ Len(s) = n /\ \A i \in 1 .. n : s[i] = f[i]
    BY <1>1, <1>4, <2>1
  <2>3. s \in [1 .. n -> S]
    BY ONLY <2>2, LenProperties, SeqDef
  <2>4. \A i \in 1 .. n : i \in 1 .. Len(k)
    BY <1>1
  <2> QED  BY <1>3, <2>1, <2>2, <2>3, <2>4
<1> QED  BY <1>1, <1>2, <1>4, <1>5 DEF S

\* cachekey: what the collation finds is confirmed, so that it counts for nothing.
LEMMA FoldingConfirmed ==
  ASSUME NEW k \in Seq(Letter), NEW v \in Seq(Letter)
  PROVE  /\ Exact(k, v) <=> k = v
         /\ Prefix(k, v) <=> IsPrefix(v, k)
<1>1. Exact(k, v) <=> k = v
  BY DEF Exact, Confirmed, Binary
<1>2. Len(k) \in Nat /\ Len(v) \in Nat /\ SubSeq(v, 1, Len(v)) = v
  <2>1. PICK s : s = SubSeq(v, 1, Len(v))
    OBVIOUS
  <2>2. Len(v) \in Nat /\ s \in Seq(Letter) /\ Len(s) = Len(v) /\ \A i \in 1 .. Len(v) : s[i] = v[i]
    BY <2>1
  <2>3. s = v
    BY <2>2, SeqEqual
  <2> QED  BY <2>1, <2>2, <2>3
<1>3. ASSUME Prefix(k, v) PROVE IsPrefix(v, k)
  <2>1. Len(Folded(v)) <= Len(Folded(k)) /\ SubSeq(k, 1, Len(v)) = v
    BY <1>3 DEF Prefix, IsPrefix, Confirmed, Binary
  <2>2. Len(v) <= Len(k)
    BY <2>1, FoldedHas
  <2> QED  BY <1>2, <2>1, <2>2, Zenon DEF IsPrefix
<1>4. ASSUME IsPrefix(v, k) PROVE Prefix(k, v)
  <2>1. Len(v) <= Len(k) /\ SubSeq(k, 1, Len(v)) = v
    BY <1>2, <1>4, Zenon DEF IsPrefix
  <2>2. PICK n : n = Len(v)
    OBVIOUS
  <2>3. \A i \in 1 .. n : k[i] = v[i]
    <3>1. \A i \in 1 .. n : SubSeq(k, 1, n)[i] = k[i]
      BY <1>2, <2>1, <2>2
    <3> QED  BY <2>1, <2>2, <3>1
  <2>4. PICK a, b : a = SubSeq(Folded(v), 1, n) /\ b = SubSeq(Folded(k), 1, n)
    OBVIOUS
  <2>5. n \in 0 .. Len(v) /\ n \in 0 .. Len(k)
    BY <1>2, <2>1, <2>2
  <2>6. /\ DOMAIN a = 1 .. n /\ \A i \in 1 .. n : a[i] = Fold[engine][v[i]]
        /\ DOMAIN b = 1 .. n /\ \A i \in 1 .. n : b[i] = Fold[engine][k[i]]
        /\ a = [i \in DOMAIN a |-> a[i]] /\ b = [i \in DOMAIN b |-> b[i]]
    BY <2>4, <2>5, FoldedHas
  <2>7. a = b
    <3>1. \A i \in 1 .. n : a[i] = b[i]
      BY <2>3, <2>6
    <3>2. [i \in DOMAIN a |-> a[i]] = [i \in DOMAIN b |-> b[i]]
      BY ONLY <2>6, <3>1
    <3> QED  BY <2>6, <3>2, Zenon
  <2>8. IsPrefix(Folded(v), Folded(k))
    BY <2>1, <2>2, <2>4, <2>7, FoldedHas DEF IsPrefix
  <2> QED  BY <2>1, <2>8, Zenon DEF Prefix, Confirmed, Binary
<1> QED  BY <1>1, <1>3, <1>4

LEMMA TupleHas ==
  ASSUME NEW t \in Tuple
  PROVE  /\ t = [key |-> t.key, scope |-> t.scope, family |-> t.family]
         /\ t.key \in Seq(Letter)
BY LookupAssumption, Zenon DEF LookupAssumption

\* What a query selects is what matches in this way.
LEMMA SelectsMatches ==
  ASSUME asked \in Asked, lookup \in LookupType, lookup.scope \in Readable,
         lookup.key \in DOMAIN asked.keys, asked.keys[1] # <<>>, NEW t \in Tuple
  PROVE  Selects(Query, t) <=> Cursor \in Matches(t)
<1>0. lookup.prefix \in BOOLEAN
  BY LookupHas
<1>1. PICK scope, key, way, prefix :
        /\ scope = lookup.scope /\ key = lookup.key /\ prefix = lookup.prefix
        /\ way = IF prefix THEN "prefix" ELSE "exact"
  OBVIOUS
<1>2. /\ Query.scope = asked.scopes[scope].scope /\ Query.key = asked.keys[key]
      /\ Query.prefix = prefix
  BY <1>1 DEF Query
<1>3. Cursor = <<scope, key, way>>
  BY <1>1 DEF Cursor
<1>4. Selects(Query, t) <=>
        /\ t.scope = asked.scopes[scope].scope /\ t.family = asked.family
        /\ IF prefix THEN IsPrefix(asked.keys[key], t.key) ELSE t.key = asked.keys[key]
  <2>1. asked.keys[key] \in Seq(Letter) /\ t.key \in Seq(Letter)
    BY <1>1, AskedHas, TupleHas
  <2> QED  BY <1>2, <2>1, FoldingConfirmed, Zenon DEF Selects
<1>5. /\ <<scope, key, way>> \in
           (DOMAIN asked.scopes) \X (DOMAIN asked.keys) \X {"exact", "prefix"}
      /\ Reads(scope)
  BY <1>1 DEF Readable, Reads
<1>6. <<scope, key, way>> \in Matches(t) <=>
        /\ t.family = asked.family /\ t.scope = asked.scopes[scope].scope
        /\ IF way = "exact" THEN t.key = asked.keys[key] ELSE IsPrefix(asked.keys[key], t.key)
  BY <1>5 DEF Matches
<1>7. way = "exact" <=> ~prefix
  BY <1>0, <1>1
<1> QED  BY <1>3, <1>4, <1>6, <1>7, Zenon

\* Two entries that match the same query as whole keys are one.
LEMMA ExactIsUnique ==
  ASSUME NEW t \in Tuple, NEW u \in Tuple, ~lookup.prefix,
         Cursor \in Matches(t), Cursor \in Matches(u)
  PROVE  t = u
<1>1. Cursor[1] = lookup.scope /\ Cursor[2] = lookup.key /\ Cursor[3] = "exact"
  BY DEF Cursor
<1>2. t.family = u.family /\ t.scope = u.scope /\ t.key = u.key
  BY <1>1 DEF Matches
<1> QED  BY <1>2, TupleHas, Zenon

LEMMA MatchHas ==
  ASSUME asked \in Asked, NEW t, NEW m \in Matches(t)
  PROVE  /\ m[1] \in Readable /\ m[2] \in DOMAIN asked.keys /\ m[3] \in {"exact", "prefix"}
         /\ m = <<m[1], m[2], m[3]>> /\ asked.keys[1] # <<>>
BY DEF Matches, Readable, Reads

-----------------------------------------------------------------------------
(* The order of the queries is that of the matches.                          *)

LEMMA BetterIsPassed ==
  ASSUME asked \in Asked, lookup.scope \in Readable, lookup.key \in DOMAIN asked.keys,
         NEW t, NEW m \in Matches(t)
  PROVE  /\ Better(m, Cursor) => Passed(m)
         /\ Passed(m) \/ m = Cursor \/ Better(Cursor, m)
<1>1. /\ m[1] \in Readable /\ m[2] \in DOMAIN asked.keys /\ m[3] \in {"exact", "prefix"}
      /\ m = <<m[1], m[2], m[3]>>
  BY MatchHas
<1>2. PICK s, k, w, scope, key, way :
        /\ s = m[1] /\ k = m[2] /\ w = m[3]
        /\ scope = lookup.scope /\ key = lookup.key
        /\ way = IF lookup.prefix THEN "prefix" ELSE "exact"
  OBVIOUS
<1>3. PICK p, q : p = asked.scopes[s].permission /\ q = asked.scopes[scope].permission
  OBVIOUS
<1>4. p \in Int /\ q \in Int /\ s \in Nat \ {0} /\ scope \in Nat \ {0} /\ k \in Nat /\ key \in Nat
  BY <1>1, <1>2, <1>3, ReadableHas, AskedHas, SMTT(60)
<1>5. Cursor = <<scope, key, way>> /\ m = <<s, k, w>> /\ w \in {"exact", "prefix"}
  BY <1>1, <1>2 DEF Cursor
<1>6. Passed(m) <=>
        \/ p > q \/ (p = q /\ s < scope)
        \/ s = scope /\ (k < key \/ (k = key /\ w = "exact" /\ way = "prefix"))
  BY <1>2, <1>3, <1>4 DEF Passed, Sooner
<1>7. /\ Better(m, Cursor) <=>
           \/ p > q
           \/ p = q /\ \/ s < scope
                       \/ s = scope /\ \/ k < key
                                       \/ k = key /\ w = "exact" /\ way = "prefix"
      /\ Better(Cursor, m) <=>
           \/ q > p
           \/ q = p /\ \/ scope < s
                       \/ scope = s /\ \/ key < k
                                       \/ key = k /\ way = "exact" /\ w = "prefix"
  BY <1>3, <1>5 DEF Better
<1>8. way \in {"exact", "prefix"} /\ (s = scope => p = q)
  BY <1>2, <1>3
<1>9. Better(m, Cursor) => Passed(m)
  BY ONLY <1>4, <1>6, <1>7
<1>10. Passed(m) \/ (s = scope /\ k = key /\ w = way) \/ Better(Cursor, m)
  BY ONLY <1>4, <1>5, <1>6, <1>7, <1>8
<1> QED  BY <1>5, <1>9, <1>10

LEMMA MatchesStay ==
  ASSUME asked' = asked, NEW t
  PROVE  Matches(t)' = Matches(t)
BY DEF Matches, Reads

\* The first query of an attempt.
LEMMA NoneBeforeFirst ==
  ASSUME asked \in Asked, lookup.scope = Soonest(Readable), lookup.key = 1, ~lookup.prefix
  PROVE  /\ lookup.scope \in Readable \cup {0} /\ lookup.key \in DOMAIN asked.keys
         /\ NoneBefore
<1>1. /\ lookup.scope \in Readable \cup {0} /\ lookup.key \in DOMAIN asked.keys
      /\ \A s \in Readable : /\ lookup.scope \in Readable
                             /\ s = lookup.scope \/ Sooner(lookup.scope, s)
  BY SoonestLeads, AskedHas
<1>2. ASSUME NEW u \in steady, NEW m \in Matches(u), Passed(m)
      PROVE  FALSE
  <2>1. m[1] \in Readable /\ m[2] \in Nat \ {0}
    BY MatchHas, AskedHas
  <2>2. /\ lookup.scope \in Readable /\ lookup.scope # 0
        /\ m[1] = lookup.scope \/ Sooner(lookup.scope, m[1])
    BY <1>1, <2>1, ReadableHas
  <2>3. ~Sooner(m[1], lookup.scope)
    BY <2>1, <2>2, SoonerOrders
  <2>4. ~(m[2] < lookup.key)
    BY <2>1
  <2> QED  BY <1>2, <2>2, <2>3, <2>4 DEF Passed
<1> QED  BY <1>1, <1>2 DEF NoneBefore

\* The next one, if nothing was found.
LEMMA NoneBeforeNext ==
  ASSUME asked \in Asked, lookup \in LookupType, lookup.scope \in Readable,
         lookup.key \in DOMAIN asked.keys, NoneBefore,
         \A u \in steady : Cursor \notin Matches(u),
         lookup' = NextQuery, UNCHANGED <<asked, steady>>
  PROVE  /\ lookup' \in LookupType /\ lookup'.pc = lookup.pc
         /\ lookup'.attempts = lookup.attempts
         /\ lookup'.scope \in Readable \cup {0} /\ lookup'.key \in DOMAIN asked.keys
         /\ NoneBefore'
<1> DEFINE later == {s \in Readable : Sooner(lookup.scope, s)}
<1>0. /\ lookup.prefix \in BOOLEAN /\ lookup.key \in Nat \ {0}
      /\ lookup.key \in 1 .. Len(asked.keys) /\ Len(asked.keys) \in Nat \ {0}
  BY LookupHas, AskedHas
<1>s. /\ later = {} => Soonest(later) = 0
      /\ later # {} => /\ Soonest(later) \in later
                       /\ \A j \in later \ {Soonest(later)} : Sooner(Soonest(later), j)
      /\ Soonest(later) \in Readable \cup {0}
  BY SoonestLeads
<1>1. /\ lookup' \in LookupType /\ lookup'.pc = lookup.pc /\ lookup'.attempts = lookup.attempts
      /\ \/ /\ ~lookup.prefix /\ lookup'.prefix
            /\ lookup'.scope = lookup.scope /\ lookup'.key = lookup.key
         \/ /\ lookup.prefix /\ ~lookup'.prefix /\ lookup.key < Len(asked.keys)
            /\ lookup'.scope = lookup.scope /\ lookup'.key = lookup.key + 1
         \/ /\ lookup.prefix /\ ~lookup'.prefix /\ lookup.key = Len(asked.keys)
            /\ lookup'.scope = Soonest(later) /\ lookup'.key = 1
  <2>t. lookup \in LookupType
    OBVIOUS
  <2>1. CASE ~lookup.prefix
    <3>0. PICK yes \in BOOLEAN : yes = TRUE
      OBVIOUS
    <3>1. PICK q : q = lookup' /\ q = LookupWithPrefix(lookup, yes)
      BY <2>1, <3>0, Zenon DEF NextQuery, LookupWithPrefix
    <3>2. /\ q \in LookupType /\ q.pc = lookup.pc /\ q.attempts = lookup.attempts
          /\ q.scope = lookup.scope /\ q.key = lookup.key /\ q.prefix = yes
      BY ONLY <2>t, <3>1, LookupSetsPrefix
    <3> QED  BY <2>1, <3>0, <3>1, <3>2, Zenon
  <2>2. CASE lookup.prefix /\ lookup.key < Len(asked.keys)
    <3>0. PICK key \in Nat : key = lookup.key + 1
      BY <1>0
    <3>1. PICK no \in BOOLEAN : no = FALSE
      OBVIOUS
    <3>2. PICK q : q = lookup' /\ q = LookupWithKeyPrefix(lookup, key, no)
      BY <2>2, <3>0, <3>1, Zenon DEF NextQuery, LookupWithKeyPrefix
    <3>3. /\ q \in LookupType /\ q.pc = lookup.pc /\ q.attempts = lookup.attempts
          /\ q.scope = lookup.scope /\ q.key = key /\ q.prefix = no
      BY ONLY <2>t, <3>1, <3>2, LookupSetsKeyPrefix
    <3> QED  BY <2>2, <3>0, <3>1, <3>2, <3>3, Zenon
  <2>3. CASE lookup.prefix /\ ~(lookup.key < Len(asked.keys))
    <3>0. Soonest(later) \in Nat /\ lookup.key = Len(asked.keys)
      BY <1>0, <1>s, <2>3, ReadableHas
    <3>1. PICK scope \in Nat, key \in Nat, no \in BOOLEAN :
            scope = Soonest(later) /\ key = 1 /\ no = FALSE
      BY <3>0
    <3>2. PICK q : q = lookup' /\ q = LookupWithScopeKeyPrefix(lookup, scope, key, no)
      BY <2>3, <3>1, Zenon DEF NextQuery, LookupWithScopeKeyPrefix
    <3>3. /\ q \in LookupType /\ q.pc = lookup.pc /\ q.attempts = lookup.attempts
          /\ q.scope = scope /\ q.key = key /\ q.prefix = no
      BY ONLY <2>t, <3>1, <3>2, LookupSetsScopeKeyPrefix
    <3> QED  BY <2>3, <3>0, <3>1, <3>2, <3>3, Zenon
  <2> QED  BY <2>1, <2>2, <2>3
<1> HIDE DEF later
<1>2. lookup'.scope \in Readable \cup {0} /\ lookup'.key \in DOMAIN asked.keys
  BY <1>0, <1>1, <1>s, AskedHas
<1>3. ASSUME NEW u \in steady, NEW m \in Matches(u), Passed(m)'
      PROVE  FALSE
  <2>1. /\ m[1] \in Readable /\ m[2] \in 1 .. Len(asked.keys) /\ m[3] \in {"exact", "prefix"}
        /\ m = <<m[1], m[2], m[3]>>
    BY MatchHas, AskedHas
  <2>2. ~Passed(m) /\ m # Cursor
    BY DEF NoneBefore
  <2>3. /\ lookup.scope # 0 /\ lookup.scope \in Nat /\ m[1] \in Nat /\ m[1] # 0
        /\ \A s : Sooner(m[1], s)' <=> Sooner(m[1], s)
    BY <2>1, ReadableHas DEF Sooner
  <2>4. /\ ~Sooner(m[1], lookup.scope)
        /\ m[1] = lookup.scope => /\ ~(m[2] < lookup.key)
                                  /\ m[2] = lookup.key => ~(m[3] = "exact" /\ lookup.prefix)
    BY <2>2, <2>3 DEF Passed
  <2>5. \/ lookup'.scope = 0 \/ Sooner(m[1], lookup'.scope)
        \/ /\ m[1] = lookup'.scope
           /\ m[2] < lookup'.key \/ (m[2] = lookup'.key /\ m[3] = "exact" /\ lookup'.prefix)
    BY <1>3, <2>3 DEF Passed
  <2>6. CASE lookup'.scope = lookup.scope
    <3>1. /\ m[1] = lookup.scope
          /\ m[2] < lookup'.key \/ (m[2] = lookup'.key /\ m[3] = "exact" /\ lookup'.prefix)
      BY <2>3, <2>4, <2>5, <2>6
    <3>2. m[2] = lookup.key /\ m[3] = IF lookup.prefix THEN "prefix" ELSE "exact"
      BY <1>0, <1>1, <2>1, <2>4, <2>6, <3>1
    <3> QED  BY <2>1, <2>2, <3>1, <3>2 DEF Cursor
  <2>7. CASE lookup'.scope = Soonest(later) /\ lookup'.key = 1 /\ lookup.prefix /\ ~lookup'.prefix
             /\ lookup.key = Len(asked.keys)
    <3>1. m[1] # lookup.scope
      <4>1. m[1] = lookup.scope => m[2] = lookup.key /\ m[3] = "prefix"
        BY <1>0, <2>1, <2>4, <2>7
      <4> QED  BY <2>1, <2>2, <2>7, <4>1 DEF Cursor
    <3>2. m[1] \in later
      BY <2>1, <2>4, <3>1, SoonerOrders DEF later
    <3>3. /\ lookup'.scope \in Readable /\ lookup'.scope # 0
          /\ m[1] = lookup'.scope \/ Sooner(lookup'.scope, m[1])
      BY <1>s, <2>7, <3>2, ReadableHas DEF later
    <3>4. ~Sooner(m[1], lookup'.scope)
      BY <2>1, <3>3, SoonerOrders
    <3> QED  BY <2>1, <2>5, <2>7, <3>3, <3>4
  <2> QED  BY <1>1, <2>6, <2>7
<1>4. NoneBefore'
  BY <1>3, MatchesStay, Zenon DEF NoneBefore
<1> QED  BY <1>1, <1>2, <1>4

\* What was found is the best there was.
LEMMA FindsBest ==
  ASSUME LookupTypes, Searched, lookup.pc \in Found
  PROVE  /\ Matches(lookup.tuple) # {}
         /\ \A u \in steady : Matches(u) # {} =>
              /\ ~Preferred(u, lookup.tuple)
              /\ Preferred(lookup.tuple, u) \/ age[u] <= lookup.updatedAt
<1>1. /\ asked \in Asked /\ Cursor \in Matches(lookup.tuple) /\ NoneBefore
      /\ lookup.key \in DOMAIN asked.keys
      /\ \A u \in steady : Cursor \in Matches(u) => age[u] <= lookup.updatedAt
  BY DEF LookupTypes, Searched
<1>2. lookup.scope \in Readable
  <2>1. Cursor[1] = lookup.scope
    BY DEF Cursor
  <2> QED  BY <1>1, <2>1, MatchHas
<1>3. ASSUME NEW u \in steady, Preferred(u, lookup.tuple) PROVE FALSE
  <2>1. PICK m \in Matches(u) : Better(m, Cursor)
    BY <1>1, <1>3, Zenon DEF Preferred
  <2>2. Passed(m)
    BY <1>1, <1>2, <2>1, BetterIsPassed
  <2> QED  BY <1>1, <2>2 DEF NoneBefore
<1>4. ASSUME NEW u \in steady, Cursor \notin Matches(u) PROVE Preferred(lookup.tuple, u)
  <2>1. \A m \in Matches(u) : Better(Cursor, m)
    <3>1. ASSUME NEW m \in Matches(u) PROVE Better(Cursor, m)
      <4>1. ~Passed(m) /\ m # Cursor
        BY <1>1, <1>4 DEF NoneBefore
      <4> QED  BY <1>1, <1>2, <4>1, BetterIsPassed
    <3> QED  BY <3>1
  <2> QED  BY <1>1, <2>1, Zenon DEF Preferred
<1> QED  BY <1>1, <1>3, <1>4

\* What was found by the first query that finds anything is the best match.
LEMMA BestIsServed ==
  ASSUME LookupInd
  PROVE  ServesBestMatch
<1>1. ASSUME lookup.pc = "hit"
      PROVE  /\ Matches(lookup.tuple) # {} /\ lookup.found \notin dangling
             /\ \A u \in steady : Matches(u) # {} =>
                  /\ ~Preferred(u, lookup.tuple)
                  /\ Preferred(lookup.tuple, u) \/ age[u] <= lookup.updatedAt
  <2>1. lookup.pc \in Found /\ LookupTypes /\ Searched /\ lookup.found \notin dangling
    BY <1>1 DEF LookupInd, Found, Probed
  <2> QED  BY <2>1, FindsBest
<1>2. lookup.pc = "miss" /\ lookup.attempts < MaxAttempts => \A u \in steady : Matches(u) = {}
  BY DEF LookupInd, Searched
<1> QED  BY <1>1, <1>2 DEF ServesBestMatch

-----------------------------------------------------------------------------
(* The steps of a lookup.                                                    *)

\* The types of the lookup's state.
LEMMA LookupFacts ==
  ASSUME LookupInd
  PROVE  /\ asked \in Asked /\ lookup \in LookupType
         /\ lookup.attempts \in Nat /\ lookup.scope \in Nat /\ lookup.key \in Nat
         /\ lookup.prefix \in BOOLEAN /\ lookup.updatedAt \in Nat
         /\ lookup.pc \in Pc /\ lookup.rep \in Rep
         /\ MaxAttempts \in Nat \ {0} /\ MaxChanges \in Nat
         /\ uploads \in Nat /\ changes \in Nat /\ uploads <= changes /\ changes <= MaxChanges
<1>1. asked \in Asked /\ lookup \in LookupType
  BY DEF LookupInd, LookupTypes
<1>2. /\ lookup.attempts \in Nat /\ lookup.scope \in Nat /\ lookup.key \in Nat
      /\ lookup.prefix \in BOOLEAN /\ lookup.updatedAt \in Nat
      /\ lookup.pc \in Pc /\ lookup.rep \in Rep
  BY <1>1, LookupHas, Zenon
<1>3. MaxAttempts \in Nat \ {0} /\ MaxChanges \in Nat
  BY LookupAssumption, Zenon DEF LookupAssumption
<1>4. uploads \in Nat /\ changes \in Nat /\ uploads <= changes /\ changes <= MaxChanges
  BY DEF LookupInd, LookupTypes
<1> QED  BY <1>1, <1>2, <1>3, <1>4

\* The location that was found is one of the entry that was.
LEMMA FoundHas ==
  ASSUME LookupInd, lookup.pc \in Found
  PROVE  /\ lookup.tuple \in Tuple /\ lookup.found \in {lookup.tuple} \X (0 .. uploads)
         /\ lookup.found[1] = lookup.tuple /\ lookup.found \in Location
<1>1. lookup.tuple \in Tuple /\ lookup.found \in {lookup.tuple} \X (0 .. uploads)
  BY DEF LookupInd, Searched
<1>2. \A n \in 0 .. uploads : n \in 0 .. MaxChanges
  BY LookupFacts
<1> QED  BY <1>1, <1>2 DEF Location

LEMMA CurrentHas ==
  ASSUME LookupInd, NEW t \in DOMAIN entry
  PROVE  /\ t \in Tuple /\ Current(t) \in Referenced /\ Current(t) \in locations
         /\ Current(t) \in {t} \X (0 .. uploads) /\ Current(t) \in Location
         /\ entry[t].updatedAt \in Nat
<1>1. t \in Tuple /\ Current(t) \in Referenced /\ Current(t) \in locations
  BY DEF LookupInd, LookupTypes, Stored, Referenced
<1>2. Current(t) \in Tuple \X (0 .. uploads) /\ Current(t)[1] = t
  BY <1>1 DEF LookupInd, LookupTypes, Current
<1>3. \A n \in 0 .. uploads : n \in 0 .. MaxChanges
  BY LookupFacts
<1>4. entry[t].updatedAt \in Nat
  BY DEF LookupInd, LookupTypes, EntryType
<1> QED  BY <1>1, <1>2, <1>3, <1>4 DEF Location, Current

\* A step of the lookup that leaves the store alone.
LEMMA StoreStays ==
  ASSUME LookupInd, LookupOnly
  PROVE  /\ asked' = asked /\ age' = age /\ steady' = steady /\ uploads' = uploads
         /\ entry' = entry /\ locations' = locations /\ merged' = merged
         /\ partsDeleted' = partsDeleted /\ lost' = lost /\ dangling' = dangling
         /\ Stored'
         /\ lookup' \in LookupType => LookupTypes'
<1>1. /\ asked' = asked /\ age' = age /\ steady' = steady /\ uploads' = uploads
      /\ entry' = entry /\ locations' = locations /\ merged' = merged
      /\ partsDeleted' = partsDeleted /\ lost' = lost /\ dangling' = dangling
      /\ engine' = engine /\ changes' = changes
  BY DEF LookupOnly, storeVars, fixedVars
<1>2. Stored'
  BY <1>1 DEF LookupInd, Stored, Referenced, Current
<1>3. lookup' \in LookupType => LookupTypes'
  BY <1>1 DEF LookupInd, LookupTypes
<1> QED  BY <1>1, <1>2, <1>3

\* What was searched stays so while the cursor does.
LEMMA SearchStays ==
  ASSUME LookupInd, asked' = asked, age' = age, steady' \subseteq steady,
         uploads' \in Nat, uploads <= uploads',
         lookup'.attempts = lookup.attempts, lookup'.scope = lookup.scope,
         lookup'.key = lookup.key, lookup'.prefix = lookup.prefix,
         lookup'.tuple = lookup.tuple, lookup'.updatedAt = lookup.updatedAt,
         lookup'.pc = lookup.pc \/ (lookup.pc \in Found /\ lookup'.pc \in Found),
         lookup'.found = lookup.found \/ lookup'.found \in {lookup.tuple} \X (0 .. uploads')
  PROVE  Searched'
<1>1. Searched
  BY DEF LookupInd
<1>2. Readable' = Readable /\ Cursor' = Cursor /\ \A u : Matches(u)' = Matches(u)
  BY MatchesStay DEF Readable, Cursor
<1>3. NoneBefore => NoneBefore'
  <2>1. \A m : Passed(m)' => Passed(m)
    BY DEF Passed, Sooner
  <2> QED  BY <1>2, <2>1, Zenon DEF NoneBefore
<1>4. \A n \in 0 .. uploads : n \in 0 .. uploads'
  BY LookupFacts
<1>5. lookup'.pc = "miss" => lookup.pc = "miss"
  BY DEF Found
<1>6. lookup'.pc \in Found =>
        /\ lookup.pc \in Found /\ lookup'.tuple \in Tuple
        /\ lookup'.found \in {lookup.tuple} \X (0 .. uploads')
  BY <1>1, <1>4 DEF Searched
<1>7. lookup'.pc \in {"query"} \cup Found => lookup.pc \in {"query"} \cup Found
  OBVIOUS
<1>8. lookup.pc = "miss" => lookup'.pc = "miss"
  BY DEF Found
<1> QED  BY <1>1, <1>2, <1>3, <1>5, <1>6, <1>7, <1>8, Zenon DEF Searched

LEMMA AnswersSet ==
  ASSUME lookup \in LookupType, NEW pc \in Pc, NEW url \in Url, Answer(pc, url)
  PROVE  /\ lookup' \in LookupType /\ lookup'.pc = pc /\ lookup'.attempts = lookup.attempts
         /\ lookup'.scope = lookup.scope /\ lookup'.key = lookup.key
         /\ lookup'.prefix = lookup.prefix /\ lookup'.tuple = lookup.tuple
         /\ lookup'.found = lookup.found /\ lookup'.updatedAt = lookup.updatedAt
<1>1. PICK q : q = lookup' /\ q = LookupWithPcUrl(lookup, pc, url)
  BY Zenon DEF Answer, LookupWithPcUrl
<1> QED  BY <1>1, LookupSetsPcUrl

\* A lookup that fails has nothing left to promise.
LEMMA FailKeeps ==
  ASSUME LookupInd, lookup.pc \in {"query", "location", "probe", "purge", "direct"},
         Answer("failed", "none"), LookupOnly
  PROVE  LookupInd'
<1>1. /\ lookup' \in LookupType /\ lookup'.pc = "failed" /\ lookup'.attempts = lookup.attempts
      /\ lookup'.scope = lookup.scope /\ lookup'.key = lookup.key
  BY LookupFacts, AnswersSet DEF Pc, Url
<1>2. LookupTypes' /\ Stored' /\ asked' = asked
  BY <1>1, StoreStays
<1>3. Searched'
  BY <1>1, <1>2 DEF LookupInd, Searched, Readable, Found
<1>4. Probed'
  BY <1>1 DEF Probed
<1> QED  BY <1>2, <1>3, <1>4 DEF LookupInd

LEMMA NoLookupFields ==
  ASSUME asked \in Asked
  PROVE  /\ NoLookup \in LookupType /\ NoLookup.pc = "query" /\ NoLookup.attempts = 0
         /\ NoLookup.scope = Soonest(Readable) /\ NoLookup.key = 1 /\ NoLookup.prefix = FALSE
<1>1. Soonest(Readable) \in Nat
  BY SoonestLeads, ReadableHas
<1> QED  BY <1>1 DEF NoLookup, LookupType, Pc, Rep, Url

\* The state in which an attempt begins.
LEMMA AttemptBegins ==
  asked \in Asked /\ lookup.scope = Soonest(Readable) /\ lookup.key = 1 /\ lookup.prefix = FALSE
  => /\ lookup.scope \in Readable \cup {0} /\ lookup.key \in DOMAIN asked.keys
     /\ NoneBefore
BY NoneBeforeFirst

\* An attempt begins again from the first query, or it was the last.
LEMMA RetryKeeps ==
  ASSUME LookupInd, lookup.pc \in Found, Retry, asked' = asked
  PROVE  lookup' \in LookupType /\ Searched' /\ Probed'
<1>0. lookup.attempts < MaxAttempts
  BY DEF LookupInd, Searched, Found
<1>1. CASE lookup.attempts + 1 = MaxAttempts
  <2>1. PICK pc \in Pc, attempts \in Nat : pc = "miss" /\ attempts = MaxAttempts
    BY LookupFacts DEF Pc
  <2>2. PICK q : q = lookup' /\ q = LookupWithPcAttempts(lookup, pc, attempts)
    BY <1>1, <2>1, Zenon DEF Retry, LookupWithPcAttempts
  <2>3. lookup \in LookupType
    BY LookupFacts
  <2>4. /\ q \in LookupType /\ q.pc = pc /\ q.attempts = attempts
        /\ q.scope = lookup.scope /\ q.key = lookup.key
    BY ONLY <2>1, <2>2, <2>3, LookupSetsPcAttempts
  <2>5. /\ lookup' \in LookupType /\ lookup'.pc = "miss" /\ lookup'.attempts = MaxAttempts
        /\ lookup'.scope = lookup.scope /\ lookup'.key = lookup.key
    BY <2>1, <2>2, <2>4
  <2>6. Searched'
    BY <2>5, LookupFacts DEF LookupInd, Searched, Readable, Found
  <2>7. Probed'
    BY <2>5 DEF Probed
  <2> QED  BY <2>5, <2>6, <2>7
<1>2. CASE lookup.attempts + 1 # MaxAttempts
  <2>1. PICK attempts \in Nat : attempts = lookup.attempts + 1 /\ attempts < MaxAttempts
    BY <1>0, <1>2, LookupFacts
  <2>2. PICK fresh \in LookupType : fresh = NoLookup
    BY LookupFacts, NoLookupFields
  <2>3. PICK q : q = lookup' /\ q = LookupWithAttempts(fresh, attempts)
    BY <1>2, <2>1, <2>2, Zenon DEF Retry, LookupWithAttempts
  <2>4. /\ q \in LookupType /\ q.pc = fresh.pc /\ q.attempts = attempts
        /\ q.scope = fresh.scope /\ q.key = fresh.key /\ q.prefix = fresh.prefix
    BY ONLY <2>1, <2>2, <2>3, LookupSetsAttempts
  <2>5. /\ lookup' \in LookupType /\ lookup'.pc = "query" /\ lookup'.attempts < MaxAttempts
        /\ lookup'.attempts \in Nat
        /\ lookup'.scope = Soonest(Readable) /\ lookup'.key = 1 /\ lookup'.prefix = FALSE
    BY <2>1, <2>2, <2>3, <2>4, LookupFacts, NoLookupFields
  <2>6. /\ lookup'.scope \in Readable' \cup {0} /\ lookup'.key \in DOMAIN asked'.keys
        /\ NoneBefore'
    <3>1. (asked \in Asked /\ lookup.scope = Soonest(Readable) /\ lookup.key = 1
             /\ lookup.prefix = FALSE
           => /\ lookup.scope \in Readable \cup {0} /\ lookup.key \in DOMAIN asked.keys
              /\ NoneBefore)'
      BY AttemptBegins, PTL
    <3>2. asked' \in Asked /\ Readable' = Readable
      BY LookupFacts DEF Readable
    <3>3. Soonest(Readable') = Soonest(Readable)'
      BY DEF Soonest, Sooner, Readable
    <3>4. Soonest(Readable') = Soonest(Readable)
      BY <3>2
    <3> QED  BY <2>5, <3>1, <3>2, <3>3, <3>4
  <2>7. Searched'
    BY <2>5, <2>6, LookupFacts DEF Searched, Found
  <2>8. Probed'
    BY <2>5 DEF Probed
  <2> QED  BY <2>5, <2>7, <2>8
<1> QED  BY <1>1, <1>2

\* A query finds the youngest of its matches, or it is passed.
LEMMA MatchKeeps ==
  ASSUME LookupInd, MatchCacheEntry
  PROVE  LookupInd'
<1>1. lookup.pc = "query" /\ LookupOnly
  BY DEF MatchCacheEntry
<1>2. /\ asked' = asked /\ age' = age /\ steady' = steady /\ uploads' = uploads
      /\ Stored' /\ (lookup' \in LookupType => LookupTypes')
  BY <1>1, StoreStays
<1>3. /\ lookup.attempts < MaxAttempts /\ NoneBefore
      /\ lookup.scope \in Readable \cup {0} /\ lookup.key \in DOMAIN asked.keys
  BY <1>1 DEF LookupInd, Searched
<1>4. CASE Answer("failed", "none")
  BY <1>1, <1>4, FailKeeps
<1>5. CASE lookup.scope = 0 /\ Answer("miss", "none")
  <2>1. /\ lookup' \in LookupType /\ lookup'.pc = "miss" /\ lookup'.attempts = lookup.attempts
        /\ lookup'.scope = lookup.scope /\ lookup'.key = lookup.key
    BY <1>5, LookupFacts, AnswersSet DEF Pc, Url
  <2>2. \A u \in steady : Matches(u) = {}
    BY <1>3, <1>5 DEF NoneBefore, Passed
  <2>3. \A u \in steady' : Matches(u)' = {}
    BY <1>2, <2>2, MatchesStay
  <2>4. Searched'
    <3>1. /\ lookup'.scope \in Readable' \cup {0} /\ lookup'.key \in DOMAIN asked'.keys
          /\ lookup'.attempts <= MaxAttempts /\ lookup'.attempts < MaxAttempts
      BY <1>2, <1>3, <2>1, LookupFacts DEF Readable
    <3>2. lookup'.pc \notin {"query"} \cup Found
      BY <2>1 DEF Found
    <3> QED  BY <2>1, <2>3, <3>1, <3>2, Zenon DEF Searched
  <2>5. Probed'
    BY <2>1 DEF Probed
  <2> QED  BY <1>2, <2>1, <2>4, <2>5 DEF LookupInd
<1>6. CASE asked.keys[1] # <<>> /\ lookup.scope # 0 /\ \E t \in DOMAIN entry :
             /\ First(Query, t)
             /\ lookup' = [lookup EXCEPT !.pc = "location", !.tuple = t,
                             !.found = Current(t), !.updatedAt = entry[t].updatedAt]
  <2>1. PICK t \in DOMAIN entry :
          /\ First(Query, t)
          /\ lookup' = [lookup EXCEPT !.pc = "location", !.tuple = t,
                          !.found = Current(t), !.updatedAt = entry[t].updatedAt]
    BY <1>6
  <2>2. /\ t \in Tuple /\ Current(t) \in {t} \X (0 .. uploads) /\ Current(t) \in Location
        /\ entry[t].updatedAt \in Nat
    BY CurrentHas
  <2>3. /\ lookup' \in LookupType /\ lookup'.pc = "location" /\ lookup'.attempts = lookup.attempts
        /\ lookup'.scope = lookup.scope /\ lookup'.key = lookup.key
        /\ lookup'.prefix = lookup.prefix /\ lookup'.tuple = t
        /\ lookup'.found = Current(t) /\ lookup'.updatedAt = entry[t].updatedAt
    <3>1. PICK found \in Location : found = Current(t)
      BY <2>2
    <3>2. PICK updatedAt \in Nat : updatedAt = entry[t].updatedAt
      BY <2>2
    <3>3. PICK pc \in Pc : pc = "location"
      BY DEF Pc
    <3>4. PICK q : /\ q = lookup'
                   /\ q = LookupWithPcTupleFoundUpdatedAt(lookup, pc, t, found, updatedAt)
      BY <2>1, <3>1, <3>2, <3>3, Zenon DEF LookupWithPcTupleFoundUpdatedAt
    <3>5. lookup \in LookupType
      BY LookupFacts
    <3>6. /\ q \in LookupType /\ q.pc = pc /\ q.attempts = lookup.attempts
          /\ q.scope = lookup.scope /\ q.key = lookup.key
          /\ q.prefix = lookup.prefix /\ q.tuple = t
          /\ q.found = found /\ q.updatedAt = updatedAt
      BY ONLY <2>2, <3>1, <3>2, <3>3, <3>4, <3>5, LookupSetsPcTupleFoundUpdatedAt
    <3> QED  BY <3>1, <3>2, <3>3, <3>4, <3>6, Zenon
  <2>4. lookup.scope \in Readable
    BY <1>3, <1>6
  <2>5. \A u \in Tuple : Selects(Query, u) <=> Cursor \in Matches(u)
    BY <1>3, <1>6, <2>4, LookupFacts, SelectsMatches
  <2>6. Cursor \in Matches(t)
    BY <2>1, <2>2, <2>5 DEF First
  <2>7. ASSUME NEW u \in steady, Cursor \in Matches(u)
        PROVE  age[u] <= entry[t].updatedAt
    <3>1. /\ u \in DOMAIN entry /\ u \in Tuple /\ age[u] <= entry[u].updatedAt
          /\ age[u] \in Nat /\ entry[u].updatedAt \in Nat
      BY CurrentHas DEF LookupInd, LookupTypes, Stored
    <3>2. CASE lookup.prefix
      <4>1. Query.prefix
        BY <3>2 DEF Query
      <4>2. entry[u].updatedAt <= entry[t].updatedAt
        BY <2>1, <2>5, <2>7, <3>1, <4>1 DEF First
      <4> QED  BY <2>2, <3>1, <4>2
    <3>3. CASE ~lookup.prefix
      <4>1. u = t
        BY <2>2, <2>6, <2>7, <3>1, <3>3, ExactIsUnique
      <4> QED  BY <3>1, <4>1
    <3> QED  BY <3>2, <3>3
  <2>8. NoneBefore' /\ Cursor' = Cursor /\ Readable' = Readable
    <3>1. \A m : Passed(m)' => Passed(m)
      BY <1>2, <2>3 DEF Passed, Sooner
    <3>2. NoneBefore'
      BY <1>2, <1>3, <3>1, MatchesStay, Zenon DEF NoneBefore
    <3> QED  BY <1>2, <2>3, <3>2 DEF Cursor, Readable
  <2>9. Matches(t)' = Matches(t) /\ \A u \in steady : Matches(u)' = Matches(u)
    BY <1>2, MatchesStay
  <2>10. Searched'
    <3>1. /\ lookup'.scope \in Readable' \cup {0} /\ lookup'.key \in DOMAIN asked'.keys
          /\ lookup'.attempts <= MaxAttempts /\ lookup'.attempts < MaxAttempts
      BY <1>2, <1>3, <2>3, <2>8, LookupFacts
    <3>2. /\ lookup'.tuple \in Tuple /\ lookup'.found \in {lookup'.tuple} \X (0 .. uploads')
          /\ Cursor' \in Matches(lookup.tuple)'
      BY <1>2, <2>2, <2>3, <2>6, <2>8, <2>9
    <3>3. \A u \in steady' : Cursor' \in Matches(u)' => age'[u] <= lookup'.updatedAt
      BY <1>2, <2>3, <2>7, <2>8, <2>9
    <3>4. lookup'.pc # "miss"
      BY <2>3
    <3> QED  BY <2>8, <3>1, <3>2, <3>3, <3>4, Zenon DEF Searched
  <2>11. Probed'
    BY <2>3 DEF Probed
  <2> QED  BY <1>2, <2>3, <2>10, <2>11 DEF LookupInd
<1>7. CASE /\ asked.keys[1] # <<>> /\ lookup.scope # 0 /\ lookup' = NextQuery
           /\ \A t \in DOMAIN entry : ~Selects(Query, t)
  <2>1. lookup.scope \in Readable
    BY <1>3, <1>7
  <2>2. \A u \in steady : Cursor \notin Matches(u)
    <3>1. \A u \in steady : u \in DOMAIN entry /\ u \in Tuple
      BY DEF LookupInd, LookupTypes, Stored
    <3> QED  BY <1>3, <1>7, <2>1, <3>1, LookupFacts, SelectsMatches
  <2>3. /\ lookup' \in LookupType /\ lookup'.pc = "query" /\ lookup'.attempts = lookup.attempts
        /\ lookup'.scope \in Readable \cup {0} /\ lookup'.key \in DOMAIN asked.keys
        /\ NoneBefore'
    BY <1>1, <1>2, <1>3, <1>7, <2>1, <2>2, LookupFacts, NoneBeforeNext
  <2>4. Searched'
    <3>1. lookup'.attempts <= MaxAttempts /\ lookup'.attempts < MaxAttempts /\ Readable' = Readable
      BY <1>2, <1>3, <2>3, LookupFacts DEF Readable
    <3> QED  BY <1>2, <2>3, <3>1 DEF Searched, Found
  <2>5. Probed'
    BY <2>3 DEF Probed
  <2> QED  BY <1>2, <2>3, <2>4, <2>5 DEF LookupInd
<1> QED  BY <1>4, <1>5, <1>6, <1>7 DEF MatchCacheEntry

\* The location of the entry is read, or is no longer the one that was found.
LEMMA ReadLocationKeeps ==
  ASSUME LookupInd, ReadLocation
  PROVE  LookupInd'
<1>1. lookup.pc = "location" /\ LookupOnly /\ lookup.pc \in Found
  BY DEF ReadLocation, Found
<1>2. /\ asked' = asked /\ age' = age /\ steady' = steady /\ uploads' = uploads
      /\ merged' = merged /\ Stored' /\ (lookup' \in LookupType => LookupTypes')
  BY <1>1, StoreStays
<1>3. CASE Retry
  <2>1. lookup' \in LookupType /\ Searched' /\ Probed'
    BY <1>1, <1>2, <1>3, RetryKeeps
  <2> QED  BY <1>2, <2>1 DEF LookupInd
<1>4. CASE lookup' = [lookup EXCEPT !.pc = "probe", !.rep = Representation(lookup.found)]
  <2>1. PICK pc \in Pc, rep \in Rep : pc = "probe" /\ rep = Representation(lookup.found)
    BY DEF Representation, Pc, Rep
  <2>2. PICK q : q = lookup' /\ q = LookupWithPcRep(lookup, pc, rep)
    BY <1>4, <2>1, Zenon DEF LookupWithPcRep
  <2>3. lookup \in LookupType
    BY LookupFacts
  <2>4. /\ q \in LookupType /\ q.pc = pc /\ q.attempts = lookup.attempts
        /\ q.scope = lookup.scope /\ q.key = lookup.key
        /\ q.prefix = lookup.prefix /\ q.tuple = lookup.tuple
        /\ q.found = lookup.found /\ q.updatedAt = lookup.updatedAt /\ q.rep = rep
    BY ONLY <2>1, <2>2, <2>3, LookupSetsPcRep
  <2>5. /\ lookup' \in LookupType /\ lookup'.pc = "probe" /\ lookup'.attempts = lookup.attempts
        /\ lookup'.scope = lookup.scope /\ lookup'.key = lookup.key
        /\ lookup'.prefix = lookup.prefix /\ lookup'.tuple = lookup.tuple
        /\ lookup'.found = lookup.found /\ lookup'.updatedAt = lookup.updatedAt
        /\ lookup'.rep = Representation(lookup.found)
    BY <2>1, <2>2, <2>4
  <2>6. Searched'
    <3>1. /\ steady' \subseteq steady /\ uploads' \in Nat /\ uploads <= uploads'
          /\ lookup'.pc \in Found
      BY <1>2, <2>5, LookupFacts DEF Found
    <3> QED  BY <1>1, <1>2, <2>5, <3>1, SearchStays, Zenon
  <2>7. Probed'
    BY <1>2, <2>5 DEF Probed, Representation
  <2> QED  BY <1>2, <2>5, <2>6, <2>7 DEF LookupInd
<1> QED  BY <1>3, <1>4 DEF ReadLocation

\* The probe finds the object, which then was not dangling, or finds it missing.
LEMMA ProbeKeeps ==
  ASSUME LookupInd, Probe
  PROVE  LookupInd'
<1>1. lookup.pc = "probe" /\ LookupOnly /\ lookup.pc \in Found
  BY DEF Probe, Found
<1>2. /\ asked' = asked /\ age' = age /\ steady' = steady /\ uploads' = uploads
      /\ locations' = locations /\ merged' = merged /\ partsDeleted' = partsDeleted
      /\ lost' = lost /\ dangling' = dangling
      /\ Stored' /\ (lookup' \in LookupType => LookupTypes')
  BY <1>1, StoreStays
<1>3. /\ lookup' \in LookupType /\ lookup'.pc \in {"direct", "hit", "purge"}
      /\ lookup'.attempts = lookup.attempts
      /\ lookup'.scope = lookup.scope /\ lookup'.key = lookup.key
      /\ lookup'.prefix = lookup.prefix /\ lookup'.tuple = lookup.tuple
      /\ lookup'.found = lookup.found /\ lookup'.updatedAt = lookup.updatedAt
      /\ lookup'.pc = "purge" <=> ~ObjectExists(lookup.found, lookup.rep)
      /\ lookup'.pc = "purge" => lookup'.rep = lookup.rep
  <2>1. lookup \in LookupType
    BY LookupFacts
  <2>2. CASE ObjectExists(lookup.found, lookup.rep) /\ Answer("hit", "fallback")
    BY <2>1, <2>2, AnswersSet DEF Pc, Url
  <2>3. ASSUME NEW pc \in {"direct", "purge"}, lookup' = [lookup EXCEPT !.pc = pc],
               pc = "purge" <=> ~ObjectExists(lookup.found, lookup.rep)
        PROVE  /\ lookup' \in LookupType /\ lookup'.pc \in {"direct", "hit", "purge"}
               /\ lookup'.attempts = lookup.attempts
               /\ lookup'.scope = lookup.scope /\ lookup'.key = lookup.key
               /\ lookup'.prefix = lookup.prefix /\ lookup'.tuple = lookup.tuple
               /\ lookup'.found = lookup.found /\ lookup'.updatedAt = lookup.updatedAt
               /\ lookup'.pc = "purge" <=> ~ObjectExists(lookup.found, lookup.rep)
               /\ lookup'.pc = "purge" => lookup'.rep = lookup.rep
    <3>1. PICK q : q = lookup' /\ q = LookupWithPc(lookup, pc)
      BY <2>3, Zenon DEF LookupWithPc
    <3>2. pc \in Pc
      BY DEF Pc
    <3>3. /\ q \in LookupType /\ q.pc = pc /\ q.attempts = lookup.attempts
          /\ q.scope = lookup.scope /\ q.key = lookup.key
          /\ q.prefix = lookup.prefix /\ q.tuple = lookup.tuple
          /\ q.found = lookup.found /\ q.updatedAt = lookup.updatedAt /\ q.rep = lookup.rep
      BY ONLY <2>1, <3>1, <3>2, LookupSetsPc
    <3> QED  BY <2>3, <3>1, <3>3
  <2> QED  BY <2>2, <2>3 DEF Probe
<1>4. Searched'
  <2>1. /\ steady' \subseteq steady /\ uploads' \in Nat /\ uploads <= uploads'
        /\ lookup'.pc \in Found
    BY <1>2, <1>3, LookupFacts DEF Found
  <2> QED  BY <1>1, <1>2, <1>3, <2>1, SearchStays, Zenon
<1>5. Probed'
  <2>1. ObjectExists(lookup.found, lookup.rep) => lookup.found \notin dangling
    BY DEF ObjectExists, LookupInd, Stored
  <2>2. ~ObjectExists(lookup.found, lookup.rep) =>
          \/ lookup.found \notin locations \/ lookup.found \in lost
          \/ (lookup.rep = "parts" /\ lookup.found \in partsDeleted)
    BY <1>1, LookupFacts DEF ObjectExists, LookupInd, Probed, Rep
  <2> QED  BY <1>2, <1>3, <2>1, <2>2 DEF Probed
<1> QED  BY <1>2, <1>3, <1>4, <1>5 DEF LookupInd

\* What is purged has lost its object, and was none of those that could be served.
LEMMA PurgeKeeps ==
  ASSUME LookupInd, PurgeDanglingCacheEntryIfUnchanged
  PROVE  LookupInd'
<1>1. /\ lookup.pc = "purge" /\ lookup.pc \in Found /\ Retry
      /\ locations' = locations /\ merged' = merged /\ partsDeleted' = partsDeleted
      /\ lost' = lost /\ uploads' = uploads /\ changes' = changes /\ steady' = steady
      /\ engine' = engine /\ asked' = asked /\ age' = age /\ dangling' = dangling
  BY DEF PurgeDanglingCacheEntryIfUnchanged, Found, fixedVars
<1>2. lookup' \in LookupType /\ Searched' /\ Probed'
  BY <1>1, RetryKeeps
<1>3. CASE UNCHANGED entry
  <2>1. LookupTypes' /\ Stored'
    BY <1>1, <1>2, <1>3 DEF LookupInd, LookupTypes, Stored, Referenced, Current
  <2> QED  BY <1>2, <2>1 DEF LookupInd
<1>4. CASE Unchanged(lookup.found) /\ RemoveEntry(lookup.tuple)
  <2>1. /\ DOMAIN entry' = DOMAIN entry \ {lookup.tuple}
        /\ \A t \in DOMAIN entry \ {lookup.tuple} : entry'[t] = entry[t]
    BY <1>4 DEF RemoveEntry
  <2>2. lookup.tuple \notin steady
    <3>1. PICK t \in DOMAIN entry : lookup.found = Current(t)
      BY <1>4 DEF Unchanged, Referenced
    <3>2. t = lookup.tuple
      BY <1>1, <3>1, FoundHas DEF Current
    <3>3. lookup.found \in locations /\ Representation(lookup.found) = lookup.rep
      BY <1>4, <3>1, CurrentHas DEF Unchanged
    <3>4. lookup.found \in lost
      BY <1>1, <3>3 DEF LookupInd, Probed, Stored, Representation
    <3> QED  BY <3>1, <3>2, <3>4 DEF LookupInd, Stored
  <2>3. \A t \in DOMAIN entry' : Current(t)' = Current(t)
    BY <2>1 DEF Current
  <2>4. Referenced' \subseteq Referenced
    BY <2>1, <2>3 DEF Referenced
  <2>5. LookupTypes'
    BY <1>1, <1>2, <2>1 DEF LookupInd, LookupTypes
  <2>6. Stored'
    BY <1>1, <2>1, <2>2, <2>3, <2>4 DEF LookupInd, Stored
  <2> QED  BY <1>2, <2>5, <2>6 DEF LookupInd
<1> QED  BY <1>3, <1>4 DEF PurgeDanglingCacheEntryIfUnchanged

\* The entry may have another location by now, of the same key.
LEMMA DirectKeeps ==
  ASSUME LookupInd, AcquireDirectReader
  PROVE  LookupInd'
<1> DEFINE t == lookup.tuple
           l == Current(t)
<1>1. lookup.pc = "direct" /\ LookupOnly /\ lookup.pc \in Found
  BY DEF AcquireDirectReader, Found
<1>2. /\ asked' = asked /\ age' = age /\ steady' = steady /\ uploads' = uploads
      /\ locations' = locations /\ merged' = merged /\ partsDeleted' = partsDeleted
      /\ lost' = lost /\ dangling' = dangling
      /\ Stored' /\ (lookup' \in LookupType => LookupTypes')
  BY <1>1, StoreStays
<1>3. /\ steady' \subseteq steady /\ uploads' \in Nat /\ uploads <= uploads'
      /\ lookup \in LookupType
  BY <1>2, LookupFacts
<1>4. CASE Retry
  <2>1. lookup' \in LookupType /\ Searched' /\ Probed'
    BY <1>1, <1>2, <1>4, RetryKeeps
  <2> QED  BY <1>2, <2>1 DEF LookupInd
<1>5. ASSUME NEW url \in Url, Answer("hit", url)
      PROVE  LookupInd'
  <2>1. /\ lookup' \in LookupType /\ lookup'.pc = "hit" /\ lookup'.attempts = lookup.attempts
        /\ lookup'.scope = lookup.scope /\ lookup'.key = lookup.key
        /\ lookup'.prefix = lookup.prefix /\ lookup'.tuple = lookup.tuple
        /\ lookup'.found = lookup.found /\ lookup'.updatedAt = lookup.updatedAt
    BY <1>3, <1>5, AnswersSet DEF Pc
  <2>2. lookup'.pc \in Found
    BY <2>1 DEF Found
  <2>3. Searched'
    BY <1>1, <1>2, <1>3, <2>1, <2>2, SearchStays, Zenon
  <2>4. Probed'
    BY <1>1, <1>2, <2>1 DEF LookupInd, Probed
  <2> QED  BY <1>2, <2>1, <2>3, <2>4 DEF LookupInd
<1>6. CASE /\ t \in DOMAIN entry
           /\ ~ObjectExists(l, Representation(l))
           /\ lookup' = [lookup EXCEPT !.pc = "purge", !.found = l, !.rep = Representation(l)]
  <2>1. l \in locations /\ l \in {t} \X (0 .. uploads) /\ l \in Location
    BY <1>6, CurrentHas
  <2>2. PICK pc \in Pc, rep \in Rep : pc = "purge" /\ rep = Representation(l)
    BY DEF Representation, Pc, Rep
  <2>3. PICK found \in Location : found = l
    BY <2>1
  <2>4. PICK q : q = lookup' /\ q = LookupWithPcFoundRep(lookup, pc, found, rep)
    BY <1>6, <2>2, <2>3, Zenon DEF LookupWithPcFoundRep
  <2>5. /\ q \in LookupType /\ q.pc = pc /\ q.attempts = lookup.attempts
        /\ q.scope = lookup.scope /\ q.key = lookup.key
        /\ q.prefix = lookup.prefix /\ q.tuple = lookup.tuple
        /\ q.found = found /\ q.updatedAt = lookup.updatedAt
    BY ONLY <1>3, <2>2, <2>3, <2>4, LookupSetsPcFoundRep
  <2>6. /\ lookup' \in LookupType /\ lookup'.pc = "purge" /\ lookup'.attempts = lookup.attempts
        /\ lookup'.scope = lookup.scope /\ lookup'.key = lookup.key
        /\ lookup'.prefix = lookup.prefix /\ lookup'.tuple = lookup.tuple
        /\ lookup'.found = l /\ lookup'.updatedAt = lookup.updatedAt
    BY <2>2, <2>3, <2>4, <2>5, Zenon
  <2>7. lookup'.pc \in Found /\ lookup'.found \in {lookup.tuple} \X (0 .. uploads')
    BY <1>2, <2>1, <2>6 DEF Found
  <2>8. Searched'
    BY <1>1, <1>2, <1>3, <2>6, <2>7, SearchStays, Zenon
  <2>9. l \in lost
    BY <1>6, <2>1 DEF ObjectExists, Representation, LookupInd, Stored
  <2>10. Probed'
    BY <1>2, <2>6, <2>9 DEF Probed
  <2> QED  BY <1>2, <2>6, <2>8, <2>10 DEF LookupInd
<1>7. \/ Retry
      \/ Answer("hit", "fallback") \/ Answer("hit", "direct")
      \/ /\ t \in DOMAIN entry
         /\ ~ObjectExists(l, Representation(l))
         /\ lookup' = [lookup EXCEPT !.pc = "purge", !.found = l, !.rep = Representation(l)]
  BY DEF AcquireDirectReader
<1>8. "fallback" \in Url /\ "direct" \in Url
  BY DEF Url
<1> QED  BY <1>4, <1>5, <1>6, <1>7, <1>8

-----------------------------------------------------------------------------
(* What happens meanwhile.                                                   *)

\* What happens meanwhile leaves the lookup alone, and takes nothing but objects from it.
LEMMA MeanwhileKeeps ==
  ASSUME LookupInd, Meanwhile, Stored', steady' \subseteq steady,
         uploads' \in Nat, uploads <= uploads', uploads' <= uploads + 1,
         DOMAIN entry' \subseteq Tuple, \A t \in DOMAIN entry' : entry'[t] \in EntryType,
         locations' \subseteq Tuple \X (0 .. uploads'), lost' \subseteq Tuple \X (0 .. uploads'),
         lost \subseteq lost',
         lookup.pc \in Found =>
           /\ lookup.found \notin locations => lookup.found \notin locations'
           /\ lookup.found \in merged => lookup.found \in merged' \/ lookup.found \notin locations'
           /\ lookup.found \in partsDeleted =>
                lookup.found \in partsDeleted' \/ lookup.found \notin locations'
  PROVE  LookupInd'
<1>1. /\ lookup' = lookup /\ engine' = engine /\ asked' = asked /\ age' = age
      /\ dangling' = dangling /\ changes' = changes + 1 /\ changes < MaxChanges
  BY DEF Meanwhile, fixedVars
<1>2. LookupTypes'
  <2>1. changes' \in Nat /\ uploads' <= changes' /\ changes' <= MaxChanges
    BY <1>1, LookupFacts
  <2> QED  BY <1>1, <2>1 DEF LookupInd, LookupTypes
<1>3. Searched'
  BY <1>1, SearchStays
<1>4. Probed'
  BY <1>1 DEF LookupInd, Probed, Found
<1> QED  BY <1>2, <1>3, <1>4 DEF LookupInd

\* A new location is one that no lookup has found yet.
LEMMA CompleteUploadKeeps ==
  ASSUME LookupInd, NEW t \in Tuple, CompleteUpload(t)
  PROVE  LookupInd'
<1>1. /\ Meanwhile /\ uploads' = uploads + 1 /\ locations' = locations \cup {<<t, uploads'>>}
      /\ merged' = merged /\ partsDeleted' = partsDeleted /\ lost' = lost /\ steady' = steady
      /\ age' = age /\ dangling' = dangling
  BY DEF CompleteUpload, Meanwhile, fixedVars
<1>2. /\ DOMAIN entry' = DOMAIN entry \cup {t}
      /\ entry'[t] = [upload |-> uploads', updatedAt |-> uploads']
      /\ \A u \in DOMAIN entry \ {t} : entry'[u] = entry[u]
  BY DEF CompleteUpload
<1>3. uploads \in Nat /\ uploads' \in Nat /\ \A n \in 0 .. uploads : n \in 0 .. uploads'
  BY <1>1, LookupFacts
<1>4. /\ locations \subseteq Tuple \X (0 .. uploads) /\ lost \subseteq Tuple \X (0 .. uploads)
      /\ DOMAIN entry \subseteq Tuple /\ \A u \in DOMAIN entry : entry[u] \in EntryType
  BY DEF LookupInd, LookupTypes
<1>5. <<t, uploads'>> \notin locations /\ <<t, uploads'>> \notin lost
  BY <1>1, <1>3, <1>4
<1>6. /\ locations' \subseteq Tuple \X (0 .. uploads') /\ lost' \subseteq Tuple \X (0 .. uploads')
  BY <1>1, <1>3, <1>4
<1>7. DOMAIN entry' \subseteq Tuple /\ \A u \in DOMAIN entry' : entry'[u] \in EntryType
  BY <1>2, <1>3, <1>4 DEF EntryType
<1>8. /\ Current(t)' = <<t, uploads'>>
      /\ \A u \in DOMAIN entry \ {t} : Current(u)' = Current(u)
  BY <1>2 DEF Current
<1>9. Stored'
  <2>1. Referenced' \subseteq locations'
    BY <1>1, <1>2, <1>8 DEF LookupInd, Stored, Referenced
  <2>2. ASSUME NEW u \in steady
        PROVE  /\ u \in DOMAIN entry' /\ u \in DOMAIN age'
               /\ Current(u)' \notin lost' /\ age'[u] <= entry'[u].updatedAt
    <3>1. /\ u \in DOMAIN entry /\ u \in DOMAIN age
          /\ Current(u) \notin lost /\ age[u] <= entry[u].updatedAt
      BY DEF LookupInd, Stored
    <3>2. CASE u = t
      <4>1. age[u] \in {0, 1} /\ entry'[t].updatedAt = uploads + 1
        BY <1>1, <1>2, <3>1 DEF LookupInd, LookupTypes
      <4> QED  BY <1>1, <1>2, <1>3, <1>5, <1>8, <3>1, <3>2, <4>1
    <3>3. CASE u # t
      BY <1>1, <1>2, <1>8, <3>1, <3>3
    <3> QED  BY <3>2, <3>3
  <2> QED  BY <1>1, <2>1, <2>2 DEF LookupInd, Stored
<1>10. lookup.pc \in Found => lookup.found # <<t, uploads'>>
  BY <1>1, <1>3, FoundHas
<1> QED  BY <1>1, <1>3, <1>6, <1>7, <1>9, <1>10, MeanwhileKeeps

\* An entry that is deleted could not be served all the time.
LEMMA DeleteEntryKeeps ==
  ASSUME LookupInd, NEW t, DeleteEntry(t)
  PROVE  LookupInd'
<1>1. /\ Meanwhile /\ locations' = locations /\ steady' = steady \ {t}
      /\ merged' = merged /\ partsDeleted' = partsDeleted /\ lost' = lost /\ uploads' = uploads
      /\ age' = age /\ dangling' = dangling
  BY DEF DeleteEntry, Meanwhile, fixedVars
<1>2. /\ DOMAIN entry' = DOMAIN entry \ {t}
      /\ \A u \in DOMAIN entry \ {t} : entry'[u] = entry[u]
  BY DEF DeleteEntry, RemoveEntry
<1>3. \A u \in DOMAIN entry' : Current(u)' = Current(u)
  BY <1>2 DEF Current
<1>4. Referenced' \subseteq Referenced
  BY <1>2, <1>3 DEF Referenced
<1>5. Stored'
  BY <1>1, <1>2, <1>3, <1>4 DEF LookupInd, Stored
<1>6. /\ DOMAIN entry' \subseteq Tuple /\ \A u \in DOMAIN entry' : entry'[u] \in EntryType
      /\ locations \subseteq Tuple \X (0 .. uploads) /\ lost \subseteq Tuple \X (0 .. uploads)
      /\ uploads \in Nat
  BY <1>2 DEF LookupInd, LookupTypes
<1> QED  BY <1>1, <1>5, <1>6, MeanwhileKeeps

\* A location is deleted with its row, merged, or loses its parts or all of its objects.
LEMMA LocationKeeps ==
  ASSUME LookupInd, NEW l \in locations,
         DeleteLocation(l) \/ Merge(l) \/ DeleteParts(l) \/ LoseObjects(l)
  PROVE  LookupInd'
<1>1. /\ Meanwhile /\ entry' = entry /\ uploads' = uploads /\ age' = age /\ dangling' = dangling
      /\ asked' = asked
  BY DEF DeleteLocation, Merge, DeleteParts, LoseObjects, Meanwhile, fixedVars
<1>2. /\ DOMAIN entry \subseteq Tuple /\ \A u \in DOMAIN entry : entry[u] \in EntryType
      /\ locations \subseteq Tuple \X (0 .. uploads) /\ lost \subseteq Tuple \X (0 .. uploads)
      /\ uploads \in Nat
  BY DEF LookupInd, LookupTypes
<1>3. Referenced' = Referenced /\ \A u : Current(u)' = Current(u)
  BY <1>1 DEF Referenced, Current
<1>4. /\ Referenced \subseteq locations
      /\ partsDeleted \subseteq merged /\ merged \subseteq locations
      /\ dangling \subseteq lost
      /\ \A t \in steady : /\ t \in DOMAIN entry /\ t \in DOMAIN age
                           /\ Current(t) \notin lost /\ age[t] <= entry[t].updatedAt
  BY DEF LookupInd, Stored
<1>5. CASE DeleteLocation(l)
  <2>1. /\ l \notin Referenced /\ locations' = locations \ {l} /\ merged' = merged \ {l}
        /\ partsDeleted' = partsDeleted \ {l} /\ lost' = lost /\ steady' = steady
    BY <1>5 DEF DeleteLocation
  <2>2. Stored'
    BY <1>1, <1>3, <1>4, <2>1 DEF Stored
  <2> QED  BY <1>1, <1>2, <2>1, <2>2, MeanwhileKeeps
<1>6. CASE Merge(l)
  <2>1. /\ locations' = locations /\ merged' = merged \cup {l}
        /\ partsDeleted' = partsDeleted /\ lost' = lost /\ steady' = steady
    BY <1>6 DEF Merge
  <2>2. Stored'
    BY <1>1, <1>3, <1>4, <2>1 DEF Stored
  <2> QED  BY <1>1, <1>2, <2>1, <2>2, MeanwhileKeeps
<1>7. CASE DeleteParts(l)
  <2>1. /\ locations' = locations /\ merged' = merged /\ l \in merged
        /\ partsDeleted' = partsDeleted \cup {l} /\ lost' = lost /\ steady' = steady
    BY <1>7 DEF DeleteParts
  <2>2. Stored'
    BY <1>1, <1>3, <1>4, <2>1 DEF Stored
  <2> QED  BY <1>1, <1>2, <2>1, <2>2, MeanwhileKeeps
<1>8. CASE LoseObjects(l)
  <2>1. /\ locations' = locations /\ merged' = merged /\ partsDeleted' = partsDeleted
        /\ lost' = lost \cup {l}
        /\ steady' = IF l \in Referenced THEN steady \ {l[1]} ELSE steady
    BY <1>8 DEF LoseObjects
  <2>2. \A t \in steady' : t \in steady /\ Current(t) # l
    BY <1>4, <2>1 DEF Referenced, Current
  <2>3. Stored'
    BY <1>1, <1>3, <1>4, <2>1, <2>2 DEF Stored
  <2>4. steady' \subseteq steady
    BY <2>1
  <2>5. lost' \subseteq Tuple \X (0 .. uploads)
    BY <1>2, <2>1
  <2> QED  BY <1>1, <1>2, <2>1, <2>3, <2>4, <2>5, MeanwhileKeeps
<1> QED  BY <1>5, <1>6, <1>7, <1>8

\* An attempt finds nothing passed yet, and what is stored is what it began with.
LEMMA LookupInitInd ==
  ASSUME LookupInit
  PROVE  LookupInd
<1>1. PICK held \in Entries :
        /\ entry = [t \in DOMAIN held |-> [upload |-> 0, updatedAt |-> held[t]]]
        /\ locations = {<<t, 0>> : t \in DOMAIN held}
        /\ lost \in SUBSET locations
        /\ steady = {t \in DOMAIN held : <<t, 0>> \notin lost}
        /\ age = held /\ dangling = lost
  BY DEF LookupInit
<1>2. DOMAIN held \subseteq Tuple /\ \A t \in DOMAIN held : held[t] \in {0, 1}
  BY LookupAssumption DEF LookupAssumption
<1>3. /\ engine \in Engine /\ asked \in Asked /\ lookup = NoLookup
      /\ merged = {} /\ partsDeleted = {} /\ uploads = 0 /\ changes = 0
  BY DEF LookupInit
<1>4. /\ lookup \in LookupType /\ lookup.pc = "query" /\ lookup.attempts = 0
      /\ lookup.scope = Soonest(Readable) /\ lookup.key = 1 /\ lookup.prefix = FALSE
  BY <1>3, NoLookupFields
<1>5. MaxAttempts \in Nat \ {0} /\ MaxChanges \in Nat
  BY LookupAssumption DEF LookupAssumption
<1>6. /\ DOMAIN entry = DOMAIN held
      /\ \A t \in DOMAIN held : /\ entry[t] = [upload |-> 0, updatedAt |-> held[t]]
                                /\ Current(t) = <<t, 0>>
  BY <1>1 DEF Current
<1>7. LookupTypes
  <2>1. \A t \in DOMAIN entry : entry[t] \in EntryType
    BY <1>2, <1>6 DEF EntryType
  <2>2. locations \subseteq Tuple \X (0 .. uploads) /\ lost \subseteq locations
    BY <1>1, <1>2, <1>3
  <2> QED  BY <1>1, <1>2, <1>3, <1>4, <1>5, <1>6, <2>1, <2>2 DEF LookupTypes
<1>8. Stored
  <2>1. Referenced = {<<t, 0>> : t \in DOMAIN held}
    BY <1>6 DEF Referenced
  <2>2. \A t \in steady : /\ t \in DOMAIN entry /\ t \in DOMAIN age
                          /\ Current(t) \notin lost /\ age[t] <= entry[t].updatedAt
    BY <1>1, <1>2, <1>6
  <2> QED  BY <1>1, <1>3, <2>1, <2>2 DEF Stored
<1>9. Searched
  <2>1. /\ lookup.scope \in Readable \cup {0} /\ lookup.key \in DOMAIN asked.keys
        /\ NoneBefore
    BY <1>3, <1>4, NoneBeforeFirst
  <2> QED  BY <1>4, <1>5, <2>1 DEF Searched, Found
<1>10. Probed
  BY <1>4 DEF Probed
<1> QED  BY <1>7, <1>8, <1>9, <1>10 DEF LookupInd

\* Every step of a lookup keeps its invariant.
LEMMA LookupNextKeeps ==
  ASSUME LookupInd, [LookupNext]_lookupVars
  PROVE  LookupInd'
<1>1. CASE MatchCacheEntry
  BY <1>1, MatchKeeps
<1>2. CASE ReadLocation
  BY <1>2, ReadLocationKeeps
<1>3. CASE Probe
  BY <1>3, ProbeKeeps
<1>4. CASE PurgeDanglingCacheEntryIfUnchanged
  BY <1>4, PurgeKeeps
<1>5. CASE AcquireDirectReader
  BY <1>5, DirectKeeps
<1>6. CASE Fail
  BY <1>6, FailKeeps DEF Fail
<1>7. CASE \E t \in Tuple : CompleteUpload(t) \/ DeleteEntry(t)
  BY <1>7, CompleteUploadKeeps, DeleteEntryKeeps
<1>8. CASE \E l \in locations : DeleteLocation(l) \/ Merge(l) \/ DeleteParts(l) \/ LoseObjects(l)
  BY <1>8, LocationKeeps
<1>9. CASE UNCHANGED lookupVars
  <2>1. /\ engine' = engine /\ entry' = entry /\ locations' = locations /\ merged' = merged
        /\ partsDeleted' = partsDeleted /\ lost' = lost /\ uploads' = uploads
        /\ changes' = changes /\ asked' = asked /\ lookup' = lookup /\ steady' = steady
        /\ age' = age /\ dangling' = dangling
    BY <1>9 DEF lookupVars
  <2>2. LookupTypes'
    BY <2>1 DEF LookupInd, LookupTypes
  <2>3. Stored'
    BY <2>1 DEF LookupInd, Stored, Referenced, Current
  <2>4. Searched'
    <3>1. uploads \in Nat
      BY LookupFacts
    <3> QED  BY <2>1, <3>1, SearchStays
  <2>5. Probed'
    BY <2>1 DEF LookupInd, Probed
  <2> QED  BY <2>2, <2>3, <2>4, <2>5 DEF LookupInd
<1> QED  BY <1>1, <1>2, <1>3, <1>4, <1>5, <1>6, <1>7, <1>8, <1>9 DEF LookupNext, LookupStep

LEMMA LookupIndTypes ==
  ASSUME LookupInd
  PROVE  LookupTypeOK
<1>1. /\ lookup.pc \in Pc /\ lookup.url \in Url /\ lookup.attempts \in 0 .. MaxAttempts
  BY LookupFacts DEF LookupInd, Searched, LookupType, LookupTypes
<1>2. locations \subseteq Location
  BY LookupFacts DEF LookupInd, LookupTypes, Location
<1> QED  BY <1>1, <1>2 DEF LookupInd, LookupTypes, Stored, LookupTypeOK, Pc, Url

-----------------------------------------------------------------------------
(* Either request.                                                           *)

RequestInd == DownloadInd /\ LookupInd

\* A request begins in the invariants of both, and each step keeps them.
LEMMA RequestInitInd ==
  ASSUME RequestInit
  PROVE  RequestInd
<1>1. Init /\ LookupInit
  BY DEF RequestInit, NothingAsked, NoDownload
<1> QED  BY <1>1, DownloadInitInd, LookupInitInd DEF RequestInd

LEMMA RequestNextKeeps ==
  ASSUME RequestInd, [RequestNext]_requestVars
  PROVE  RequestInd'
<1>1. [Next]_vars /\ [LookupNext]_lookupVars
  BY Zenon DEF RequestNext, OfDownload, OfLookup, requestVars
<1> QED  BY <1>1, DownloadNextKeeps, LookupNextKeeps DEF RequestInd

LEMMA RequestIndHolds == RequestSpec => []RequestInd
<1>1. RequestInit => RequestInd
  BY RequestInitInd
<1>2. RequestInd /\ [RequestNext]_requestVars => RequestInd'
  BY RequestNextKeeps
<1> QED  BY <1>1, <1>2, PTL DEF RequestSpec

\* No stream of an object stays open and no lease stays behind, however the copying of the
\* handler, the renewal and the closing of leasedReadCloser interleave, for archives of any
\* sizes; and what a lookup holds is an entry and a location as they are stored.
THEOREM RequestsAreSafe == RequestSpec => []RequestInv
<1>1. RequestInd => RequestInv
  BY DownloadIndImplies, LookupIndTypes DEF RequestInd, RequestInv
<1> QED  BY <1>1, RequestIndHolds, PTL

\* A client gets the bytes of the first range that can be satisfied, in their order and none
\* of them twice, and all of them if the download completes: for parts of any sizes, empty
\* ones too, and any list of ranges.
THEOREM DeliversWhatWasAsked == RequestSpec => []DeliversSelection
<1>1. RequestInd => DeliversSelection
  BY WantedDelivered DEF RequestInd
<1> QED  BY <1>1, RequestIndHolds, PTL

\* No entry that could be served all the time is better than the one that a lookup answers
\* with, and it answers with none only if there is none or its attempts are used up: for any
\* keys and scopes, any folding of letters, and whatever happens between its queries.
THEOREM ServesTheBest == RequestSpec => []ServesBestMatch
<1>1. RequestInd => ServesBestMatch
  BY BestIsServed DEF RequestInd
<1> QED  BY <1>1, RequestIndHolds, PTL

\* A download that had to wait for the index of its parts streams with a lease that is live.
THEOREM StreamsWithLease == RequestSpec => FreshLeaseStreams
<1>1. RequestInd /\ [RequestNext]_requestVars =>
        [handler.at \in {"resolve", "index", "delayed"} /\ handler'.at = "streaming"
           => lease = "live"]_vars
  <2> SUFFICES ASSUME RequestInd, [RequestNext]_requestVars,
                      handler.at \in {"resolve", "index", "delayed"}, handler'.at = "streaming"
               PROVE  lease = "live"
    OBVIOUS
  <2>1. [Next]_vars
    BY Zenon DEF RequestNext, OfDownload, OfLookup, requestVars
  <2> QED  BY <2>1, FreshLease DEF RequestInd
<1> QED  BY <1>1, RequestIndHolds, PTL DEF RequestSpec, FreshLeaseStreams

-----------------------------------------------------------------------------
(* Sums over finite sets, as the models take them with MapThenSumSet: what *)
(* a sum is when an element is added or removed, whichever element the     *)
(* fold picks first, and how sums of naturals compare.                         *)
(* The induction over finite sets is by a minimal counterexample: strict   *)
(* inclusion of the subsets of a finite set is well founded.               *)

(* The sum of f[x] for the x of S. *)
SumOver(f, S) == MapThenSumSet(LAMBDA x : f[x], S)

(* Of the sets in a nonempty F some contains no other one.                 *)
LEMMA MinimalSet ==
  ASSUME NEW S, IsFiniteSet(S), NEW F \in SUBSET (SUBSET S), F # {}
  PROVE  \E T \in F : \A U \in F : U \subseteq T => U = T
<1>1. IsWellFoundedOn(StrictSubsetOrdering(S), SUBSET S)
  BY FS_StrictSubsetOrderingWellFounded, FS_FiniteSubsetsOfFinite
<1>2. PICK T \in F : \A U \in F : ~(<<U, T>> \in StrictSubsetOrdering(S))
  BY <1>1, WFMin
<1> QED
  BY <1>2 DEF StrictSubsetOrdering

-----------------------------------------------------------------------------
(* The fold is a function on the subsets, and there is just one such.      *)

OneOf(S) == CHOOSE x \in S : TRUE

IsFold(g, f, S) ==
  g = [s \in SUBSET S |-> IF s = {} THEN 0 ELSE f[OneOf(s)] + g[s \ {OneOf(s)}]]

LEMMA OneOfIn == ASSUME NEW S, S # {} PROVE OneOf(S) \in S
  BY DEF OneOf

(* What a fold is, subset by subset. *)
LEMMA FoldValues ==
  ASSUME NEW f, NEW S, NEW g
  PROVE  IsFold(g, f, S) <=>
           /\ g = [s \in SUBSET S |-> g[s]]
           /\ \A s \in SUBSET S :
                g[s] = IF s = {} THEN 0 ELSE f[OneOf(s)] + g[s \ {OneOf(s)}]
  BY DEF IsFold

(* Two folds agree on the subsets they share.                              *)
LEMMA FoldsAgree ==
  ASSUME NEW f, NEW S, NEW T \in SUBSET S, IsFiniteSet(T), NEW g, NEW h,
         IsFold(g, f, S), IsFold(h, f, T)
  PROVE  g[T] = h[T]
<1> DEFINE F == {U \in SUBSET T : g[U] # h[U]}
<1>1. SUFFICES ASSUME F # {} PROVE FALSE
  OBVIOUS
<1>2. PICK U \in F : \A V \in F : V \subseteq U => V = U
  <2> HIDE DEF F
  <2>1. F \in SUBSET (SUBSET T)
    BY DEF F
  <2> QED
    BY <1>1, <2>1, MinimalSet
<1>3. U \in SUBSET S /\ U \in SUBSET T
  OBVIOUS
<1>4. U # {}
  BY <1>2, <1>3, FoldValues
<1>5. OneOf(U) \in U
  BY <1>4, OneOfIn
<1>6. g[U \ {OneOf(U)}] = h[U \ {OneOf(U)}]
  BY <1>2, <1>5
<1> QED
  BY <1>2, <1>3, <1>4, <1>6, FoldValues

(* There is a fold over every finite set: were there none over U, but one  *)
(* over each smaller set, those would give one over U.                     *)
LEMMA FoldExists ==
  ASSUME NEW f, NEW S, IsFiniteSet(S)
  PROVE  \E g : IsFold(g, f, S)
<1> DEFINE F == {U \in SUBSET S : ~\E g : IsFold(g, f, U)}
<1>1. SUFFICES ASSUME F # {} PROVE FALSE
  OBVIOUS
<1>2. PICK U \in F : \A V \in F : V \subseteq U => V = U
  <2> HIDE DEF F
  <2>1. F \in SUBSET (SUBSET S)
    BY DEF F
  <2> QED
    BY <1>1, <2>1, MinimalSet
<1> DEFINE G(V) == CHOOSE g : IsFold(g, f, V)
           h == [s \in SUBSET U |->
                   IF s = {} THEN 0
                   ELSE f[OneOf(s)] + G(s \ {OneOf(s)})[s \ {OneOf(s)}]]
<1>3. \A V \in SUBSET U : V # U => IsFold(G(V), f, V)
  BY <1>2
<1>4. \A V \in SUBSET U : IsFiniteSet(V)
  BY FS_Subset
<1>5. ASSUME NEW s \in SUBSET U, s # U
      PROVE  G(s)[s] = h[s]
  <2>1. IsFold(G(s), f, s)
    BY <1>3, <1>5
  <2> HIDE DEF G
  <2>2. CASE s = {}
    <3>1. G(s)[s] = 0
      BY <2>1, <2>2, FoldValues
    <3> QED
      BY <2>2, <3>1
  <2>3. CASE s # {}
    <3> DEFINE r == s \ {OneOf(s)}
    <3>1. OneOf(s) \in s
      BY <2>3, OneOfIn
    <3>2. r \in SUBSET s /\ r # U /\ r \in SUBSET U
      BY <3>1
    <3>3. IsFold(G(r), f, r)
      BY <3>2, <1>3
    <3>4. G(s)[r] = G(r)[r]
      <4> HIDE DEF r
      <4>1. IsFiniteSet(r)
        BY <3>2, <1>4
      <4> QED
        BY <2>1, <3>2, <3>3, <4>1, FoldsAgree
    <3>5. G(s)[s] = f[OneOf(s)] + G(s)[r]
      BY <2>1, <2>3, FoldValues
    <3> QED
      BY <2>3, <3>4, <3>5
  <2> QED
    BY <2>2, <2>3
<1>6. IsFold(h, f, U)
  <2> SUFFICES ASSUME NEW s \in SUBSET U
               PROVE  h[s] = IF s = {} THEN 0
                              ELSE f[OneOf(s)] + h[s \ {OneOf(s)}]
    <3>1. h = [s \in SUBSET U |-> h[s]]
      OBVIOUS
    <3> HIDE DEF h
    <3> QED
      BY <3>1, FoldValues
  <2>1. CASE s = {}
    BY <2>1
  <2>2. CASE s # {}
    <3> DEFINE r == s \ {OneOf(s)}
    <3>1. OneOf(s) \in s
      BY <2>2, OneOfIn
    <3>2. r \in SUBSET U /\ r # U
      BY <3>1
    <3>3. G(r)[r] = h[r]
      BY <3>2, <1>5
    <3>4. h[s] = f[OneOf(s)] + G(r)[r]
      BY <2>2
    <3> HIDE DEF h, G, r
    <3>5. h[s] = f[OneOf(s)] + h[r]
      BY <3>3, <3>4
    <3> QED
      BY <2>2, <3>5 DEF r
  <2> QED
    BY <2>1, <2>2
<1> QED
  BY <1>2, <1>6

(* The sum over a set is what its fold gives. *)
LEMMA SumIsFold ==
  ASSUME NEW f, NEW S, IsFiniteSet(S), NEW g, IsFold(g, f, S)
  PROVE  SumOver(f, S) = g[S]
<1> DEFINE iter == CHOOSE h : IsFold(h, f, S)
<1>1. IsFold(iter, f, S)
  OBVIOUS
<1>2. iter[S] = g[S]
  <2> HIDE DEF iter
  <2> QED
    BY <1>1, FoldsAgree
<1>3. SumOver(f, S) = iter[S]
  BY DEF SumOver, MapThenSumSet, MapThenFoldSet, IsFold, OneOf
<1> QED
  BY <1>2, <1>3

LEMMA SumFirst ==
  ASSUME NEW f, NEW S, IsFiniteSet(S)
  PROVE  SumOver(f, S) = IF S = {} THEN 0
                           ELSE f[OneOf(S)] + SumOver(f, S \ {OneOf(S)})
<1>1. PICK g : IsFold(g, f, S)
  BY FoldExists
<1>2. SumOver(f, S) = g[S]
  BY <1>1, SumIsFold
<1>3. CASE S = {}
  BY <1>1, <1>2, <1>3, FoldValues
<1>4. CASE S # {}
  <2> DEFINE R == S \ {OneOf(S)}
  <2>1. IsFiniteSet(R) /\ R \in SUBSET S
    BY FS_Subset
  <2>2. PICK h : IsFold(h, f, R)
    BY <2>1, FoldExists
  <2>3. SumOver(f, R) = h[R] /\ g[R] = h[R]
    BY <1>1, <2>1, <2>2, SumIsFold, FoldsAgree
  <2>4. g[S] = f[OneOf(S)] + g[R]
    BY <1>1, <1>4, FoldValues
  <2> QED
    BY <1>2, <1>4, <2>3, <2>4
<1> QED
  BY <1>3, <1>4

-----------------------------------------------------------------------------
(* Sums of integers. *)

THEOREM SumEmpty == ASSUME NEW f, NEW S, S = {} PROVE SumOver(f, S) = 0
  BY FS_EmptySet, SumFirst

(* A sum of integers is one.                                               *)
THEOREM SumType ==
  ASSUME NEW f, NEW S, IsFiniteSet(S), \A x \in S : f[x] \in Int
  PROVE  SumOver(f, S) \in Int
<1> DEFINE F == {U \in SUBSET S : SumOver(f, U) \notin Int}
<1>1. SUFFICES ASSUME F # {} PROVE FALSE
  OBVIOUS
<1>2. PICK U \in F : \A V \in F : V \subseteq U => V = U
  <2> HIDE DEF F
  <2>1. F \in SUBSET (SUBSET S)
    BY DEF F
  <2> QED
    BY <1>1, <2>1, MinimalSet
<1>3. IsFiniteSet(U) /\ U # {}
  <2>1. IsFiniteSet(U)
    BY FS_Subset
  <2>2. U # {}
    BY SumEmpty
  <2> QED
    BY <2>1, <2>2
<1>4. OneOf(U) \in U
  BY <1>3, OneOfIn
<1>5. SumOver(f, U \ {OneOf(U)}) \in Int
  BY <1>2, <1>4
<1>6. f[OneOf(U)] \in Int
  BY <1>4
<1>7. SumOver(f, U) = f[OneOf(U)] + SumOver(f, U \ {OneOf(U)})
  BY <1>3, SumFirst
<1> QED
  BY <1>5, <1>6, <1>7

(* Any element may be the one that is taken off first.                     *)
THEOREM SumRemove ==
  ASSUME NEW f, NEW S, IsFiniteSet(S), \A x \in S : f[x] \in Int,
         NEW x \in S
  PROVE  SumOver(f, S) = f[x] + SumOver(f, S \ {x})
<1> DEFINE Off(U, y) == SumOver(f, U) = f[y] + SumOver(f, U \ {y})
           F == {U \in SUBSET S : \E y \in U : ~Off(U, y)}
<1>1. SUFFICES ASSUME F # {} PROVE FALSE
  OBVIOUS
<1>2. PICK U \in F : \A V \in F : V \subseteq U => V = U
  <2> HIDE DEF F
  <2>1. F \in SUBSET (SUBSET S)
    BY DEF F
  <2> QED
    BY <1>1, <2>1, MinimalSet
<1>3. PICK y \in U : ~Off(U, y)
  OBVIOUS
<1>4. \A V \in SUBSET S : IsFiniteSet(V)
  BY FS_Subset
<1> DEFINE c == OneOf(U)
           R == U \ {c, y}
<1>5. c \in U
  BY <1>3, OneOfIn
<1>6. SumOver(f, U) = f[c] + SumOver(f, U \ {c})
  BY <1>3, <1>4, SumFirst
<1>7. c # y
  BY <1>3, <1>6
<1>8. SumOver(f, U \ {c}) = f[y] + SumOver(f, R)
  <2>1. Off(U \ {c}, y)
    <3>1. U \ {c} \in SUBSET S /\ y \in U \ {c} /\ U \ {c} # U
      BY <1>5, <1>7
    <3> QED
      BY <1>2, <3>1
  <2>2. (U \ {c}) \ {y} = R
    OBVIOUS
  <2> QED
    BY <2>1, <2>2
<1>9. SumOver(f, U \ {y}) = f[c] + SumOver(f, R)
  <2>1. Off(U \ {y}, c)
    <3>1. U \ {y} \in SUBSET S /\ c \in U \ {y} /\ U \ {y} # U
      BY <1>5, <1>7
    <3> QED
      BY <1>2, <3>1
  <2>2. (U \ {y}) \ {c} = R
    OBVIOUS
  <2> QED
    BY <2>1, <2>2
<1>10. SumOver(f, R) \in Int /\ f[c] \in Int /\ f[y] \in Int
  <2>1. R \in SUBSET S /\ IsFiniteSet(R)
    BY <1>4
  <2>2. \A z \in R : f[z] \in Int
    OBVIOUS
  <2> HIDE DEF R
  <2>3. SumOver(f, R) \in Int
    BY <2>1, <2>2, SumType
  <2> QED
    BY <1>5, <2>3
<1> HIDE DEF F, c, R
<1>11. SumOver(f, U) = f[y] + SumOver(f, U \ {y})
  BY <1>6, <1>8, <1>9, <1>10
<1> QED
  BY <1>3, <1>11

THEOREM SumAdd ==
  ASSUME NEW f, NEW S, IsFiniteSet(S), NEW x, x \notin S,
         \A y \in S \cup {x} : f[y] \in Int
  PROVE  SumOver(f, S \cup {x}) = f[x] + SumOver(f, S)
<1>1. IsFiniteSet(S \cup {x})
  BY FS_AddElement
<1>2. (S \cup {x}) \ {x} = S
  OBVIOUS
<1>3. SumOver(f, S \cup {x}) = f[x] + SumOver(f, (S \cup {x}) \ {x})
  BY <1>1, SumRemove
<1> QED
  BY <1>2, <1>3

(* Only the values on the set matter.                                      *)
THEOREM SumAgree ==
  ASSUME NEW f, NEW g, NEW S, IsFiniteSet(S), \A x \in S : f[x] = g[x]
  PROVE  SumOver(f, S) = SumOver(g, S)
<1> DEFINE F == {U \in SUBSET S : SumOver(f, U) # SumOver(g, U)}
<1>1. SUFFICES ASSUME F # {} PROVE FALSE
  OBVIOUS
<1>2. PICK U \in F : \A V \in F : V \subseteq U => V = U
  <2> HIDE DEF F
  <2>1. F \in SUBSET (SUBSET S)
    BY DEF F
  <2> QED
    BY <1>1, <2>1, MinimalSet
<1>3. IsFiniteSet(U) /\ U # {}
  <2>1. IsFiniteSet(U)
    BY FS_Subset
  <2>2. U # {}
    BY SumEmpty
  <2> QED
    BY <2>1, <2>2
<1>4. OneOf(U) \in U
  BY <1>3, OneOfIn
<1>5. SumOver(f, U \ {OneOf(U)}) = SumOver(g, U \ {OneOf(U)})
  BY <1>2, <1>4
<1>6. f[OneOf(U)] = g[OneOf(U)]
  BY <1>4
<1>7. /\ SumOver(f, U) = f[OneOf(U)] + SumOver(f, U \ {OneOf(U)})
      /\ SumOver(g, U) = g[OneOf(U)] + SumOver(g, U \ {OneOf(U)})
  BY <1>3, SumFirst
<1> QED
  BY <1>2, <1>5, <1>6, <1>7

(* The sum over a set is that over a part of it and that over the rest.    *)
THEOREM SumSplit ==
  ASSUME NEW f, NEW S, IsFiniteSet(S), \A x \in S : f[x] \in Int,
         NEW T \in SUBSET S
  PROVE  SumOver(f, S) = SumOver(f, T) + SumOver(f, S \ T)
<1> DEFINE Splits(U) == SumOver(f, S) = SumOver(f, U) + SumOver(f, S \ U)
           F == {U \in SUBSET S : ~Splits(U)}
<1>1. SUFFICES ASSUME F # {} PROVE FALSE
  OBVIOUS
<1>2. PICK U \in F : \A V \in F : V \subseteq U => V = U
  <2> HIDE DEF F
  <2>1. F \in SUBSET (SUBSET S)
    BY DEF F
  <2> QED
    BY <1>1, <2>1, MinimalSet
<1>3. \A V \in SUBSET S : IsFiniteSet(V) /\ SumOver(f, V) \in Int
  <2> SUFFICES ASSUME NEW V \in SUBSET S
               PROVE  IsFiniteSet(V) /\ SumOver(f, V) \in Int
    OBVIOUS
  <2>1. IsFiniteSet(V) /\ \A x \in V : f[x] \in Int
    BY FS_Subset
  <2> QED
    BY <2>1, SumType
<1>4. U # {}
  <2>1. SUFFICES ASSUME U = {} PROVE FALSE
    OBVIOUS
  <2>2. S \ U = S
    BY <2>1
  <2>3. SumOver(f, U) = 0
    BY <2>1, SumEmpty
  <2>4. SumOver(f, S) \in Int
    BY SumType
  <2>5. SumOver(f, S \ U) = SumOver(f, S)
    BY <2>2, Zenon
  <2>6. SumOver(f, S) = SumOver(f, U) + SumOver(f, S \ U)
    BY <2>3, <2>4, <2>5
  <2> QED
    BY <1>2, <2>6
<1> DEFINE c == OneOf(U)
           R == U \ {c}
<1>5. c \in U /\ c \in S /\ R \in SUBSET S
  BY <1>4, OneOfIn
<1>6. Splits(R)
  BY <1>2, <1>5
<1>7. SumOver(f, U) = f[c] + SumOver(f, R)
  BY <1>3, <1>5, SumRemove
<1>8. SumOver(f, S \ R) = f[c] + SumOver(f, S \ U)
  <2>1. S \ R = (S \ U) \cup {c} /\ c \notin S \ U
    BY <1>5
  <2>2. IsFiniteSet(S \ U) /\ \A y \in (S \ U) \cup {c} : f[y] \in Int
    BY <1>3, <1>5
  <2> HIDE DEF c, R
  <2> QED
    BY <2>1, <2>2, SumAdd
<1>9. /\ f[c] \in Int /\ SumOver(f, R) \in Int /\ SumOver(f, S \ R) \in Int
      /\ SumOver(f, S \ U) \in Int /\ SumOver(f, U) \in Int
  BY <1>3, <1>5
<1> HIDE DEF F, c, R
<1> QED
  BY <1>2, <1>6, <1>7, <1>8, <1>9 DEF F

(* Sums of naturals grow with the set.                                     *)
THEOREM SumNat ==
  ASSUME NEW f, NEW S, IsFiniteSet(S), \A x \in S : f[x] \in Nat
  PROVE  /\ SumOver(f, S) \in Nat
         /\ \A x \in S : f[x] <= SumOver(f, S)
<1>1. ASSUME NEW T \in SUBSET S PROVE SumOver(f, T) \in Nat
  <2> DEFINE F == {U \in SUBSET S : SumOver(f, U) \notin Nat}
  <2>1. SUFFICES ASSUME F # {} PROVE FALSE
    OBVIOUS
  <2>2. PICK U \in F : \A V \in F : V \subseteq U => V = U
    <3> HIDE DEF F
    <3>1. F \in SUBSET (SUBSET S)
      BY DEF F
    <3> QED
      BY <2>1, <3>1, MinimalSet
  <2>3. IsFiniteSet(U) /\ U # {}
    <3>1. IsFiniteSet(U)
      BY FS_Subset
    <3>2. U # {}
      BY SumEmpty
    <3> QED
      BY <3>1, <3>2
  <2>4. OneOf(U) \in U
    BY <2>3, OneOfIn
  <2>5. SumOver(f, U \ {OneOf(U)}) \in Nat
    BY <2>2, <2>4
  <2>6. f[OneOf(U)] \in Nat
    BY <2>4
  <2>7. SumOver(f, U) = f[OneOf(U)] + SumOver(f, U \ {OneOf(U)})
    BY <2>3, SumFirst
  <2> QED
    BY <2>5, <2>6, <2>7
<1>2. ASSUME NEW x \in S PROVE f[x] <= SumOver(f, S)
  <2>1. SumOver(f, S) = f[x] + SumOver(f, S \ {x})
    BY SumRemove
  <2>2. SumOver(f, S \ {x}) \in Nat
    BY <1>1
  <2> QED
    BY <2>1, <2>2
<1> QED
  BY <1>1, <1>2

-----------------------------------------------------------------------------
(* The cache of part boundaries.                                            *)

LEMMA Bounds ==
  /\ Capacity \in Nat /\ MaxCalls \in Nat /\ Nobody \notin Caller
  /\ \A k \in Key : Weight[k] \in Nat
  BY CapacityAssumption DEF CapacityAssumption

-----------------------------------------------------------------------------
(* The list. *)

(* No key twice. *)
Distinct(s) == s \in Seq(Key) /\ IsInjective(s)

LEMMA Prepended ==
  ASSUME NEW k \in Key, NEW s, Distinct(s), k \notin ToSet(s)
  PROVE  /\ Distinct(<<k>> \o s) /\ Head(<<k>> \o s) = k
         /\ ToSet(<<k>> \o s) = {k} \cup ToSet(s)
<1>1. PICK t : t = <<k>> \o s
  OBVIOUS
<1>2. /\ s \in Seq(Key) /\ Len(s) \in Nat /\ DOMAIN s = 1 .. Len(s)
      /\ \A i \in 1 .. Len(s) : s[i] \in ToSet(s) /\ s[i] \in Key
  BY DEF Distinct, ToSet
<1>3. /\ t \in Seq(Key) /\ Len(t) = Len(s) + 1 /\ DOMAIN t = 1 .. Len(t)
      /\ t[1] = k /\ \A i \in 2 .. Len(t) : t[i] = s[i - 1]
  BY <1>1, <1>2
<1>4. ASSUME NEW i \in DOMAIN t, NEW j \in DOMAIN t, t[i] = t[j] PROVE i = j
  <2>1. CASE i = 1 /\ j = 1
    BY <2>1
  <2>2. CASE i # 1 /\ j # 1
    <3>1. i - 1 \in 1 .. Len(s) /\ j - 1 \in 1 .. Len(s)
      BY <1>2, <1>3, <2>2
    <3>2. s[i - 1] = s[j - 1]
      BY <1>3, <1>4, <2>2
    <3>3. i - 1 = j - 1
      BY <1>2, <3>1, <3>2 DEF Distinct, IsInjective
    <3> QED
      BY <1>3, <3>3
  <2>3. CASE (i = 1) # (j = 1)
    BY <1>2, <1>3, <1>4, <2>3
  <2> QED
    BY <2>1, <2>2, <2>3
<1>5. ToSet(t) = {k} \cup ToSet(s)
  <2>1. ASSUME NEW i \in 1 .. Len(t) PROVE t[i] \in {k} \cup ToSet(s)
    BY <1>2, <1>3
  <2>2. ASSUME NEW i \in 1 .. Len(s) PROVE s[i] \in ToSet(t)
    <3>1. i + 1 \in 1 .. Len(t) /\ t[i + 1] = s[i]
      BY <1>2, <1>3
    <3> QED
      BY <1>3, <3>1 DEF ToSet
  <2>3. k \in ToSet(t)
    BY <1>2, <1>3 DEF ToSet
  <2> QED
    BY <1>2, <1>3, <2>1, <2>2, <2>3 DEF ToSet
<1>6. Head(t) = k
  BY <1>2, <1>3
<1> QED
  BY <1>1, <1>3, <1>4, <1>5, <1>6 DEF Distinct, IsInjective

LEMMA Joined ==
  ASSUME NEW a \in Seq(Key), NEW b \in Seq(Key)
  PROVE  /\ a \o b \in Seq(Key) /\ Len(a \o b) = Len(a) + Len(b)
         /\ DOMAIN (a \o b) = 1 .. Len(a \o b)
         /\ \A i \in 1 .. Len(a \o b) :
              (a \o b)[i] = IF i <= Len(a) THEN a[i] ELSE b[i - Len(a)]
  OBVIOUS

LEMMA Removed ==
  ASSUME NEW s, Distinct(s), NEW p \in DOMAIN s
  PROVE  /\ Distinct(RemoveAt(s, p))
         /\ ToSet(RemoveAt(s, p)) = ToSet(s) \ {s[p]}
<1>1. PICK t : t = RemoveAt(s, p)
  OBVIOUS
<1>2. /\ s \in Seq(Key) /\ Len(s) \in Nat /\ DOMAIN s = 1 .. Len(s)
      /\ \A i \in 1 .. Len(s) : s[i] \in Key
      /\ \A i, j \in 1 .. Len(s) : s[i] = s[j] => i = j
  BY DEF Distinct, IsInjective
<1>3. PICK a, b : a = SubSeq(s, 1, p - 1) /\ b = SubSeq(s, p + 1, Len(s))
  OBVIOUS
<1>4. /\ a \in Seq(Key) /\ Len(a) = p - 1 /\ \A i \in 1 .. p - 1 : a[i] = s[i]
      /\ b \in Seq(Key) /\ Len(b) = Len(s) - p
      /\ \A i \in 1 .. Len(s) - p : b[i] = s[p + i]
  BY <1>2, <1>3, SMTT(60)
<1>5. t = a \o b
  BY <1>1, <1>3 DEF RemoveAt
<1>6. /\ t \in Seq(Key) /\ Len(t) = Len(s) - 1 /\ DOMAIN t = 1 .. Len(t)
      /\ \A i \in 1 .. Len(t) : t[i] = IF i < p THEN s[i] ELSE s[i + 1]
  <2>0. /\ t \in Seq(Key) /\ Len(t) = Len(a) + Len(b)
        /\ DOMAIN t = 1 .. Len(t)
        /\ \A i \in 1 .. Len(t) : t[i] = IF i <= Len(a) THEN a[i]
                                                       ELSE b[i - Len(a)]
    BY <1>4, <1>5, Joined
  <2>1. t \in Seq(Key) /\ Len(t) = Len(s) - 1 /\ DOMAIN t = 1 .. Len(t)
    BY <1>2, <1>4, <2>0
  <2>2. ASSUME NEW i \in 1 .. Len(t)
        PROVE  t[i] = IF i < p THEN s[i] ELSE s[i + 1]
    <3>1. CASE i < p
      BY <1>2, <1>4, <2>0, <2>1, <3>1
    <3>2. CASE ~(i < p)
      <4>1. t[i] = b[i - (p - 1)] /\ i - (p - 1) \in 1 .. Len(s) - p
        BY <1>2, <1>4, <2>0, <2>1, <3>2, SMTT(30)
      <4>2. p + (i - (p - 1)) = i + 1
        BY <1>2, <2>1
      <4> QED
        BY <1>4, <3>2, <4>1, <4>2
    <3> QED
      BY <3>1, <3>2
  <2> QED
    BY <2>1, <2>2
<1>7. ASSUME NEW i \in 1 .. Len(t), NEW j \in 1 .. Len(t), t[i] = t[j]
      PROVE  i = j
  BY <1>2, <1>6, <1>7
<1>8. ToSet(t) = ToSet(s) \ {s[p]}
  <2>1. ASSUME NEW i \in 1 .. Len(t)
        PROVE  \E j \in 1 .. Len(s) : t[i] = s[j] /\ j # p
    BY <1>2, <1>6, SMTT(30)
  <2>2. ASSUME NEW i \in 1 .. Len(s), i # p PROVE s[i] \in ToSet(t)
    <3>1. CASE i < p
      <4>1. i \in 1 .. Len(t) /\ t[i] = s[i]
        BY <1>2, <1>6, <3>1
      <4> QED
        BY <1>6, <4>1 DEF ToSet
    <3>2. CASE ~(i < p)
      <4>1. i - 1 \in 1 .. Len(t) /\ t[i - 1] = s[i]
        BY <1>2, <1>6, <2>2, <3>2
      <4> QED
        BY <1>6, <4>1 DEF ToSet
    <3> QED
      BY <3>1, <3>2
  <2>3. ASSUME NEW x \in ToSet(t) PROVE x \in ToSet(s) \ {s[p]}
    <3>1. PICK i \in 1 .. Len(t) : x = t[i]
      BY <1>6, <2>3 DEF ToSet
    <3>2. PICK j \in 1 .. Len(s) : x = s[j] /\ j # p
      BY <2>1, <3>1
    <3> QED
      BY <1>2, <3>2 DEF ToSet
  <2>4. ASSUME NEW x \in ToSet(s) \ {s[p]} PROVE x \in ToSet(t)
    <3>1. PICK i \in 1 .. Len(s) : x = s[i]
      BY <1>2, <2>4 DEF ToSet
    <3> QED
      BY <2>2, <2>4, <3>1
  <2> QED
    BY <2>3, <2>4
<1> QED
  BY <1>1, <1>6, <1>7, <1>8 DEF Distinct, IsInjective

LEMMA Shortened ==
  ASSUME NEW s, Distinct(s), NEW n \in 0 .. Len(s)
  PROVE  /\ Distinct(SubSeq(s, 1, n))
         /\ ToSet(SubSeq(s, 1, n)) = {s[i] : i \in 1 .. n}
<1>1. PICK t : t = SubSeq(s, 1, n)
  OBVIOUS
<1>2. /\ s \in Seq(Key) /\ Len(s) \in Nat /\ DOMAIN s = 1 .. Len(s)
      /\ \A i, j \in 1 .. Len(s) : s[i] = s[j] => i = j
  BY DEF Distinct, IsInjective
<1>3. /\ t \in Seq(Key) /\ Len(t) = n /\ DOMAIN t = 1 .. n
      /\ \A i \in 1 .. n : t[i] = s[i] /\ i \in 1 .. Len(s)
  BY <1>1, <1>2
<1>4. \A i, j \in 1 .. n : t[i] = t[j] => i = j
  BY <1>2, <1>3
<1>5. Distinct(t)
  BY <1>3, <1>4 DEF Distinct, IsInjective
<1>6. ToSet(t) = {s[i] : i \in 1 .. n}
  BY <1>3 DEF ToSet
<1> QED
  BY <1>1, <1>5, <1>6

(* The list and its parts weigh as much as their keys.                     *)
LEMMA ListWeight ==
  ASSUME Distinct(lru), NEW n \in 0 .. Len(lru)
  PROVE  /\ ToSet(lru) = UpTo(n) \cup Behind(n) /\ UpTo(n) \cap Behind(n) = {}
         /\ TotalWeight(ToSet(lru)) = TotalWeight(UpTo(n)) + TotalWeight(Behind(n))
         /\ TotalWeight(UpTo(n)) \in Nat /\ TotalWeight(Behind(n)) \in Nat
         /\ IsFiniteSet(UpTo(n)) /\ UpTo(n) \subseteq Key
<1>1. /\ lru \in Seq(Key) /\ Len(lru) \in Nat /\ DOMAIN lru = 1 .. Len(lru)
      /\ \A i \in 1 .. Len(lru) : lru[i] \in Key
      /\ \A i, j \in 1 .. Len(lru) : lru[i] = lru[j] => i = j
  BY DEF Distinct, IsInjective
<1>2. PICK all, front, back :
        all = ToSet(lru) /\ front = UpTo(n) /\ back = Behind(n)
  OBVIOUS
<1>3. /\ all = front \cup back /\ front \cap back = {} /\ all \subseteq Key
      /\ back = all \ front
  BY <1>1, <1>2 DEF ToSet, UpTo, Behind
<1>4. IsFiniteSet(all)
  <2>1. IsFiniteSet(1 .. Len(lru))
    BY <1>1, FS_Interval
  <2>2. lru \in Surjection(1 .. Len(lru), all)
    <3>1. lru \in [1 .. Len(lru) -> all]
      BY <1>1, <1>2 DEF ToSet
    <3>2. \A k \in all : \E i \in 1 .. Len(lru) : lru[i] = k
      BY <1>1, <1>2 DEF ToSet
    <3> QED
      BY <3>1, <3>2 DEF Surjection
  <2> QED
    BY <2>1, <2>2, FS_Surjection
<1>5. /\ IsFiniteSet(front) /\ IsFiniteSet(back)
      /\ \A k \in all : Weight[k] \in Int
      /\ \A k \in front : Weight[k] \in Nat
      /\ \A k \in back : Weight[k] \in Nat
  BY <1>3, <1>4, FS_Subset, Bounds
<1>6. SumOver(Weight, all) = SumOver(Weight, front) + SumOver(Weight, all \ front)
  BY <1>3, <1>4, <1>5, SumSplit
<1>7. SumOver(Weight, front) \in Nat /\ SumOver(Weight, back) \in Nat
  BY <1>5, SumNat
<1>8. \A S : TotalWeight(S) = SumOver(Weight, S)
  BY DEF TotalWeight, SumOver
<1>9. SumOver(Weight, all \ front) = SumOver(Weight, back)
  BY <1>3, Zenon
<1>10. /\ TotalWeight(all) = TotalWeight(front) + TotalWeight(back)
       /\ TotalWeight(front) \in Nat /\ TotalWeight(back) \in Nat
  BY <1>6, <1>7, <1>8, <1>9
<1> QED
  BY <1>2, <1>3, <1>5, <1>10

-----------------------------------------------------------------------------
(* What changes the list. *)

ListOK == Distinct(lru) /\ used \in Nat /\ Accounted

(* Whatever is evicted would not have fit. *)
OnlyForRoom ==
  \A i \in DOMAIN lru :
    lru[i] \notin ToSet(lru')
      => TotalWeight(UpTo(i)) + Weight[Head(lru')] > Capacity

LEMMA ListSame ==
  ASSUME ListOK, UNCHANGED <<lru, used>>
  PROVE  ListOK' /\ OnlyForRoom
<1>1. lru' = lru /\ used' = used
  OBVIOUS
<1>2. TotalWeight(ToSet(lru')) = TotalWeight(ToSet(lru))
  BY <1>1, Zenon
<1>3. OnlyForRoom
  BY <1>1 DEF OnlyForRoom, ToSet
<1> QED
  BY <1>1, <1>2, <1>3 DEF ListOK, Accounted, Distinct

LEMMA MoveKeeps ==
  ASSUME ListOK, NEW k \in Key, MoveToFront(k), UNCHANGED used
  PROVE  ListOK' /\ OnlyForRoom
<1>1. PICK i \in DOMAIN lru : lru[i] = k /\ lru' = <<k>> \o RemoveAt(lru, i)
  BY DEF MoveToFront
<1>2. PICK s : s = RemoveAt(lru, i)
  OBVIOUS
<1>3. Distinct(s) /\ ToSet(s) = ToSet(lru) \ {k}
  BY <1>1, <1>2, Removed DEF ListOK
<1>4. Distinct(lru') /\ ToSet(lru') = {k} \cup ToSet(s)
  <2>1. Distinct(<<k>> \o s) /\ ToSet(<<k>> \o s) = {k} \cup ToSet(s)
    BY <1>3, Prepended
  <2> QED
    BY <1>1, <1>2, <2>1
<1>5. k \in ToSet(lru)
  BY <1>1 DEF ToSet
<1>6. ToSet(lru') = ToSet(lru)
  BY <1>3, <1>4, <1>5
<1>7. TotalWeight(ToSet(lru')) = TotalWeight(ToSet(lru))
  BY <1>6, Zenon
<1>8. OnlyForRoom
  BY <1>6 DEF OnlyForRoom, ToSet
<1> QED
  BY <1>4, <1>7, <1>8 DEF ListOK, Accounted

LEMMA AddKeeps ==
  ASSUME ListOK, NEW k \in Key, Add(k)
  PROVE  ListOK' /\ OnlyForRoom
<1>1. CASE Cached(k)
  BY <1>1, MoveKeeps DEF Add
<1>2. CASE ~Cached(k) /\ Capacity > 0 /\ Weight[k] <= Capacity
  <2>1. PICK n \in 0 .. Len(lru) :
          /\ Keeps(k, n)
          /\ lru' = <<k>> \o SubSeq(lru, 1, n)
          /\ used' = used - TotalWeight(Behind(n)) + Weight[k]
    BY <1>2 DEF Add
  <2>2. PICK s : s = SubSeq(lru, 1, n)
    OBVIOUS
  <2>3. /\ ToSet(lru) = UpTo(n) \cup Behind(n)
        /\ TotalWeight(ToSet(lru)) = TotalWeight(UpTo(n)) + TotalWeight(Behind(n))
        /\ TotalWeight(UpTo(n)) \in Nat /\ TotalWeight(Behind(n)) \in Nat
        /\ IsFiniteSet(UpTo(n)) /\ UpTo(n) \subseteq Key
    BY ListWeight DEF ListOK
  <2>4. Distinct(s) /\ ToSet(s) = UpTo(n)
    BY <2>2, Shortened DEF ListOK, UpTo
  <2>5. k \notin UpTo(n)
    BY <1>2, <2>3 DEF Cached
  <2>6. Distinct(lru') /\ Head(lru') = k /\ ToSet(lru') = {k} \cup UpTo(n)
    <3>1. /\ Distinct(<<k>> \o s) /\ Head(<<k>> \o s) = k
          /\ ToSet(<<k>> \o s) = {k} \cup ToSet(s)
      BY <2>4, <2>5, Prepended
    <3> QED
      BY <2>1, <2>2, <2>4, <3>1
  <2>7. TotalWeight(ToSet(lru')) = Weight[k] + TotalWeight(UpTo(n))
    <3>1. PICK S : S = UpTo(n)
      OBVIOUS
    <3>2. IsFiniteSet(S) /\ k \notin S /\ \A y \in S \cup {k} : Weight[y] \in Int
      BY <2>3, <2>5, <3>1, Bounds
    <3>3. SumOver(Weight, S \cup {k}) = Weight[k] + SumOver(Weight, S)
      BY <3>2, SumAdd
    <3>4. ToSet(lru') = S \cup {k}
      BY <2>6, <3>1
    <3>5. TotalWeight(ToSet(lru')) = SumOver(Weight, S \cup {k})
      BY <3>4, Zenon DEF TotalWeight, SumOver
    <3>6. TotalWeight(UpTo(n)) = SumOver(Weight, S)
      BY <3>1, Zenon DEF TotalWeight, SumOver
    <3> QED
      BY <3>3, <3>5, <3>6
  <2>8. /\ used = TotalWeight(UpTo(n)) + TotalWeight(Behind(n))
        /\ used <= Capacity /\ Weight[k] \in Nat /\ Capacity \in Nat
    BY <2>3, Bounds DEF ListOK, Accounted
  <2>9. used' = Weight[k] + TotalWeight(UpTo(n)) /\ used' \in Nat
    BY <2>1, <2>3, <2>8
  <2>10. used' <= Capacity
    <3>1. CASE n = 0
      <4>1. UpTo(n) = {}
        BY <3>1 DEF UpTo
      <4>2. SumOver(Weight, UpTo(n)) = 0
        BY <4>1, SumEmpty
      <4>3. TotalWeight(UpTo(n)) = 0
        BY <4>2 DEF TotalWeight, SumOver
      <4> QED
        BY <1>2, <2>8, <2>9, <4>3
    <3>2. CASE Fits(k, n)
      BY <2>1, <3>2 DEF Fits
    <3> QED
      BY <2>1, <3>1, <3>2 DEF Keeps
  <2>11. OnlyForRoom
    <3> SUFFICES ASSUME NEW i \in DOMAIN lru, lru[i] \notin ToSet(lru')
                 PROVE  TotalWeight(UpTo(i)) + Weight[k] > Capacity
      BY <2>6 DEF OnlyForRoom
    <3>1. i \in n + 1 .. Len(lru)
      <4>1. i \in 1 .. Len(lru) /\ lru[i] \notin UpTo(n)
        BY <2>6 DEF ListOK, Distinct
      <4> QED
        BY <4>1 DEF UpTo
    <3>2. ~Fits(k, i) /\ i \in 0 .. Len(lru)
      BY <2>1, <3>1 DEF Keeps
    <3>3. /\ TotalWeight(ToSet(lru)) = TotalWeight(UpTo(i)) + TotalWeight(Behind(i))
          /\ TotalWeight(UpTo(i)) \in Nat /\ TotalWeight(Behind(i)) \in Nat
      BY <3>2, ListWeight DEF ListOK
    <3>4. used = TotalWeight(UpTo(i)) + TotalWeight(Behind(i))
      BY <3>3 DEF ListOK, Accounted
    <3>5. ~(used - TotalWeight(Behind(i)) + Weight[k] <= Capacity)
      BY <3>2 DEF Fits
    <3> QED
      BY <2>8, <3>3, <3>4, <3>5
  <2> QED
    BY <2>6, <2>7, <2>9, <2>10, <2>11 DEF ListOK, Accounted
<1>3. CASE UNCHANGED <<lru, used>>
  BY <1>3, ListSame
<1> QED
  BY <1>1, <1>2, <1>3 DEF Add

-----------------------------------------------------------------------------
(* Calls. *)

CallType == caller \in [Caller -> Call \cup {NoCall}]

LEMMA CallFields ==
  ASSUME CallType, NEW c \in Caller, caller[c].at # "none"
  PROVE  /\ caller[c] \in Call /\ caller[c].key \in Key
         /\ caller[c].waited \in BOOLEAN
         /\ caller[c].at \in {"waiting", "woken", "loading", "returned"}
  BY DEF CallType, Call, NoCall

(* Who loads, who waits for whom, and what they will say.                  *)
CallsOK == /\ CallType /\ flight \in [Key -> Caller \cup {Nobody}]
           /\ OneLoadPerKey /\ WaitersHaveLoader /\ Delayed

(* A call that was kept waiting says so. *)
SaysSo ==
  \A c \in Caller :
    caller[c].at \in {"woken", "loading"} /\ caller'[c].at = "returned"
      => caller'[c].waited

LEMMA CallsSame ==
  ASSUME CallsOK, UNCHANGED <<flight, caller>>
  PROVE  CallsOK' /\ SaysSo
  BY DEF CallsOK, CallType, OneLoadPerKey, WaitersHaveLoader, Delayed, SaysSo

(* The steps of a call that loads nothing: it goes on to call. *)
LEMMA CallGoes ==
  ASSUME CallsOK, NEW c \in Caller, NEW call \in Call,
         caller[c].at # "loading", UNCHANGED flight,
         caller' = [caller EXCEPT ![c] = call],
         \/ /\ call.at = "returned"
            /\ caller[c].at = "woken" => call.waited
         \/ /\ call.at = "waiting" /\ call.waited
            /\ call.on = flight[call.key] /\ call.on # Nobody
  PROVE  CallsOK' /\ SaysSo
<1>1. /\ caller'[c] = call /\ CallType'
      /\ \A d \in Caller : d # c => caller'[d] = caller[d]
  BY DEF CallsOK, CallType
<1>2. OneLoadPerKey'
  BY <1>1 DEF CallsOK, OneLoadPerKey
<1>3. WaitersHaveLoader'
  <2> SUFFICES ASSUME NEW d \in Caller, caller'[d].at = "waiting"
               PROVE  LET loader == caller'[d].on IN
                      /\ loader # Nobody /\ caller'[loader].at = "loading"
                      /\ caller'[loader].key = caller'[d].key
    BY DEF WaitersHaveLoader
  <2>1. CASE d = c
    <3>1. /\ call.on \in Caller /\ call.key \in Key /\ call.on # Nobody
          /\ flight[call.key] = call.on
      BY <1>1, <2>1 DEF Call
    <3>2. caller[call.on].at = "loading" /\ caller[call.on].key = call.key
      BY <3>1 DEF CallsOK, OneLoadPerKey
    <3>3. call.on # c
      BY <3>2
    <3> QED
      BY <1>1, <2>1, <3>1, <3>2, <3>3
  <2>2. CASE d # c
    <3>1. /\ caller[d].on # Nobody /\ caller[caller[d].on].at = "loading"
          /\ caller[caller[d].on].key = caller[d].key
      BY <1>1, <2>2 DEF CallsOK, WaitersHaveLoader
    <3>2. caller[d].on \in Caller
      BY <1>1, <2>2, <3>1, CallFields DEF CallsOK, Call
    <3> QED
      BY <1>1, <2>2, <3>1, <3>2
  <2> QED
    BY <2>1, <2>2
<1>4. Delayed'
  BY <1>1 DEF CallsOK, Delayed
<1>5. SaysSo
  BY <1>1 DEF SaysSo
<1> QED
  BY <1>1, <1>2, <1>3, <1>4, <1>5 DEF CallsOK

LEMMA LooksFrom ==
  ASSUME NEW c \in Caller, NEW k \in Key, Looks(c, k)
  PROVE  caller[c].at \in {"none", "returned", "woken"}
  BY DEF Looks

LEMMA HitKeeps ==
  ASSUME CallsOK, NEW c \in Caller, NEW k \in Key, Hit(c, k)
  PROVE  CallsOK' /\ SaysSo
<1>1. PICK call : call = [at |-> "returned", key |-> k, on |-> Nobody,
                          waited |-> Waited(c)]
  OBVIOUS
<1>2. Waited(c) \in BOOLEAN /\ Waited(c) = (caller[c].at = "woken")
  BY DEF Waited
<1>3. /\ call \in Call /\ call.at = "returned"
      /\ caller[c].at = "woken" => call.waited
  BY <1>1, <1>2 DEF Call
<1>4. /\ caller[c].at # "loading" /\ UNCHANGED flight
      /\ caller' = [caller EXCEPT ![c] = call]
  BY <1>1, LooksFrom DEF Hit
<1> QED
  BY <1>3, <1>4, CallGoes

LEMMA WaitKeeps ==
  ASSUME CallsOK, NEW c \in Caller, NEW k \in Key, Wait(c, k)
  PROVE  CallsOK' /\ SaysSo
<1>1. PICK call : call = [at |-> "waiting", key |-> k, on |-> flight[k],
                          waited |-> TRUE]
  OBVIOUS
<1>2. flight[k] \in Caller \cup {Nobody} /\ flight[k] # Nobody
  BY DEF CallsOK, Wait, InFlight
<1>3. /\ call \in Call /\ call.at = "waiting" /\ call.waited
      /\ call.on = flight[call.key] /\ call.on # Nobody
  BY <1>1, <1>2 DEF Call
<1>4. /\ caller[c].at # "loading" /\ UNCHANGED flight
      /\ caller' = [caller EXCEPT ![c] = call]
  BY <1>1, LooksFrom DEF Wait
<1> QED
  BY <1>3, <1>4, CallGoes

LEMMA CancelKeeps ==
  ASSUME CallsOK, NEW c \in Caller, CancelWait(c)
  PROVE  CallsOK' /\ SaysSo
<1>1. PICK call : call = [caller[c] EXCEPT !.at = "returned", !.on = Nobody]
  OBVIOUS
<1>2. caller[c].at \in {"waiting", "woken"} /\ UNCHANGED flight
  BY DEF CancelWait
<1>3. caller[c] \in Call /\ caller[c].waited
  BY <1>2, CallFields DEF CallsOK, Delayed
<1>4. call \in Call /\ call.at = "returned" /\ call.waited
  BY <1>1, <1>3 DEF Call
<1>5. caller' = [caller EXCEPT ![c] = call]
  BY <1>1 DEF CancelWait, CallsOK, CallType
<1> QED
  BY <1>2, <1>4, <1>5, CallGoes

LEMMA StartKeeps ==
  ASSUME CallsOK, NEW c \in Caller, NEW k \in Key, StartLoad(c, k)
  PROVE  CallsOK' /\ SaysSo
<1>1. PICK call : call = [at |-> "loading", key |-> k, on |-> Nobody,
                          waited |-> TRUE]
  OBVIOUS
<1>2. call \in Call /\ call.at = "loading" /\ call.key = k /\ call.waited
  BY <1>1 DEF Call
<1>3. /\ caller[c].at # "loading" /\ flight[k] = Nobody
      /\ caller' = [caller EXCEPT ![c] = call]
      /\ flight' = [flight EXCEPT ![k] = c]
  BY <1>1, LooksFrom DEF StartLoad, InFlight
<1>4. /\ caller'[c] = call /\ CallType' /\ flight'[k] = c
      /\ flight' \in [Key -> Caller \cup {Nobody}]
      /\ \A d \in Caller : d # c => caller'[d] = caller[d]
      /\ \A j \in Key : j # k => flight'[j] = flight[j]
  BY <1>2, <1>3 DEF CallsOK, CallType
<1>5. OneLoadPerKey'
  BY <1>2, <1>3, <1>4, Bounds DEF CallsOK, OneLoadPerKey
<1>6. WaitersHaveLoader'
  <2> SUFFICES ASSUME NEW d \in Caller, caller'[d].at = "waiting"
               PROVE  LET loader == caller'[d].on IN
                      /\ loader # Nobody /\ caller'[loader].at = "loading"
                      /\ caller'[loader].key = caller'[d].key
    BY DEF WaitersHaveLoader
  <2>1. d # c /\ caller'[d] = caller[d]
    BY <1>2, <1>4
  <2>2. /\ caller[d].on # Nobody /\ caller[caller[d].on].at = "loading"
        /\ caller[caller[d].on].key = caller[d].key
    BY <2>1 DEF CallsOK, WaitersHaveLoader
  <2>3. caller[d].on \in Caller
    BY <2>1, <2>2, CallFields DEF CallsOK, Call
  <2> QED
    BY <1>3, <1>4, <2>1, <2>2, <2>3
<1>7. Delayed' /\ SaysSo
  BY <1>2, <1>4 DEF CallsOK, Delayed, SaysSo
<1> QED
  BY <1>4, <1>5, <1>6, <1>7 DEF CallsOK

LEMMA EndKeeps ==
  ASSUME CallsOK, NEW c \in Caller, NEW loaded \in BOOLEAN, EndLoad(c, loaded)
  PROVE  CallsOK' /\ SaysSo /\ caller[c].key \in Key
<1>1. PICK k : k = caller[c].key
  OBVIOUS
<1>2. /\ caller[c].at = "loading" /\ flight' = [flight EXCEPT ![k] = Nobody]
      /\ caller' = [d \in Caller |->
           CASE d = c -> [caller[d] EXCEPT !.at = "returned"]
             [] WokenBy(c, d, loaded) ->
                  [caller[d] EXCEPT !.at = "woken", !.on = Nobody]
             [] OTHER -> caller[d]]
  BY <1>1 DEF EndLoad
<1>3. caller[c] \in Call /\ k \in Key /\ caller[c].waited
  BY <1>1, <1>2, CallFields DEF CallsOK, Delayed
<1>4. /\ caller'[c] = [caller[c] EXCEPT !.at = "returned"]
      /\ \A d \in Caller : d # c /\ WokenBy(c, d, loaded) =>
           caller'[d] = [caller[d] EXCEPT !.at = "woken", !.on = Nobody]
      /\ \A d \in Caller : d # c /\ ~WokenBy(c, d, loaded) =>
           caller'[d] = caller[d]
  BY <1>2 DEF WokenBy
<1>5. ASSUME NEW d \in Caller, WokenBy(c, d, loaded), d # c
      PROVE  /\ caller[d] \in Call /\ caller[d].waited /\ caller'[d] \in Call
             /\ caller'[d].at = "woken" /\ caller'[d].waited
             /\ caller'[d].key = caller[d].key /\ caller[d].at = "waiting"
  <2>1. caller[d].at = "waiting"
    BY <1>5 DEF WokenBy
  <2>2. caller[d] \in Call /\ caller[d].waited
    BY <2>1, CallFields DEF CallsOK, Delayed
  <2> QED
    BY <1>4, <1>5, <2>1, <2>2 DEF Call
<1>6. /\ caller'[c] \in Call /\ caller'[c].at = "returned"
      /\ caller'[c].waited
  BY <1>3, <1>4, ZenonT(60) DEF Call
<1>7. CallType' /\ flight' \in [Key -> Caller \cup {Nobody}]
  <2>1. ASSUME NEW d \in Caller PROVE caller'[d] \in Call \cup {NoCall}
    <3>1. CASE d # c /\ ~WokenBy(c, d, loaded)
      BY <1>4, <3>1 DEF CallsOK, CallType
    <3> QED
      BY <1>5, <1>6, <3>1
  <2> QED
    BY <1>2, <2>1 DEF CallsOK, CallType
<1>8. /\ flight'[k] = Nobody
      /\ \A j \in Key : j # k => flight'[j] = flight[j]
  BY <1>2, <1>3 DEF CallsOK
<1>9. OneLoadPerKey'
  <2> SUFFICES ASSUME NEW d \in Caller, NEW j \in Key
               PROVE  flight'[j] = d <=>
                        caller'[d].at = "loading" /\ caller'[d].key = j
    BY DEF OneLoadPerKey
  <2>1. flight[j] = d <=> caller[d].at = "loading" /\ caller[d].key = j
    BY DEF CallsOK, OneLoadPerKey
  <2>2. flight[k] = c
    BY <1>1, <1>2, <1>3 DEF CallsOK, OneLoadPerKey
  <2>3. CASE d = c
    BY <1>1, <1>6, <1>8, <2>1, <2>3, Bounds
  <2>4. CASE d # c /\ WokenBy(c, d, loaded)
    BY <1>5, <1>8, <2>1, <2>2, <2>4, Bounds
  <2>5. CASE d # c /\ ~WokenBy(c, d, loaded)
    BY <1>4, <1>8, <2>1, <2>2, <2>5, Bounds, ZenonT(60)
  <2> QED
    BY <2>3, <2>4, <2>5
<1>10. WaitersHaveLoader'
  <2> SUFFICES ASSUME NEW d \in Caller, caller'[d].at = "waiting"
               PROVE  LET loader == caller'[d].on IN
                      /\ loader # Nobody /\ caller'[loader].at = "loading"
                      /\ caller'[loader].key = caller'[d].key
    BY DEF WaitersHaveLoader
  <2>1. d # c /\ ~WokenBy(c, d, loaded) /\ caller'[d] = caller[d]
    BY <1>4, <1>5, <1>6
  <2>2. /\ caller[d].on # Nobody /\ caller[caller[d].on].at = "loading"
        /\ caller[caller[d].on].key = caller[d].key /\ caller[d].on # c
    BY <2>1 DEF CallsOK, WaitersHaveLoader, WokenBy
  <2>3. caller[d].on \in Caller
    BY <2>1, <2>2, CallFields DEF CallsOK, Call
  <2>4. ~WokenBy(c, caller[d].on, loaded)
    BY <2>2 DEF WokenBy
  <2> QED
    BY <1>4, <2>1, <2>2, <2>3, <2>4
<1>11. Delayed'
  BY <1>4, <1>5, <1>6 DEF CallsOK, Delayed
<1>12. SaysSo
  BY <1>4, <1>5, <1>6 DEF SaysSo
<1> QED
  BY <1>1, <1>3, <1>7, <1>9, <1>10, <1>11, <1>12 DEF CallsOK

-----------------------------------------------------------------------------

LEMMA CacheInitInv == CacheInit => CacheInv
<1> SUFFICES ASSUME CacheInit PROVE CacheInv
  OBVIOUS
<1>1. CacheTypeOK
  BY Bounds DEF CacheInit, CacheTypeOK, IsInjective
<1>2. Accounted
  <2>1. ToSet(lru) = {}
    BY DEF CacheInit, ToSet
  <2>2. SumOver(Weight, ToSet(lru)) = 0
    BY <2>1, SumEmpty
  <2> QED
    BY <2>2, Bounds DEF CacheInit, Accounted, TotalWeight, SumOver
<1>3. OneLoadPerKey /\ WaitersHaveLoader /\ Delayed
  BY Bounds DEF CacheInit, NoCall, OneLoadPerKey, WaitersHaveLoader, Delayed
<1> QED
  BY <1>1, <1>2, <1>3 DEF CacheInv

(* Every step keeps both halves and does what RoomAndDelay asks.           *)
LEMMA CacheStep ==
  ASSUME CacheInv, [CacheNext]_cacheVars
  PROVE  CacheInv' /\ OnlyForRoom /\ SaysSo
<1>1. ListOK /\ CallsOK /\ calls \in [Caller -> 0 .. MaxCalls]
      /\ finalized \subseteq Key
  BY DEF CacheInv, CacheTypeOK, ListOK, Distinct, CallsOK, CallType
<1>2. SUFFICES /\ ListOK' /\ CallsOK' /\ calls' \in [Caller -> 0 .. MaxCalls]
               /\ finalized' \subseteq Key /\ OnlyForRoom /\ SaysSo
  BY DEF CacheInv, CacheTypeOK, ListOK, Distinct, CallsOK, CallType
<1>3. ASSUME NEW c \in Caller, NEW k \in Key, Look(c, k)
      PROVE  /\ ListOK' /\ CallsOK' /\ calls' \in [Caller -> 0 .. MaxCalls]
             /\ finalized' \subseteq Key /\ OnlyForRoom /\ SaysSo
  <2>1. calls' \in [Caller -> 0 .. MaxCalls] /\ UNCHANGED finalized
    <3>1. Looks(c, k) /\ UNCHANGED finalized
      BY <1>3 DEF Look, Hit, Wait, StartLoad
    <3> QED
      BY <1>1, <3>1, Bounds DEF Looks
  <2>2. CASE Hit(c, k)
    <3>1. MoveToFront(k) /\ UNCHANGED used
      BY <2>2 DEF Hit
    <3> QED
      BY <1>1, <2>1, <2>2, <3>1, MoveKeeps, HitKeeps
  <2>3. CASE Wait(c, k)
    <3>1. UNCHANGED <<lru, used>>
      BY <2>3 DEF Wait
    <3> QED
      BY <1>1, <2>1, <2>3, <3>1, ListSame, WaitKeeps
  <2>4. CASE StartLoad(c, k)
    <3>1. UNCHANGED <<lru, used>>
      BY <2>4 DEF StartLoad
    <3> QED
      BY <1>1, <2>1, <2>4, <3>1, ListSame, StartKeeps
  <2> QED
    BY <1>3, <2>2, <2>3, <2>4 DEF Look
<1>4. ASSUME NEW c \in Caller, CancelWait(c)
      PROVE  /\ ListOK' /\ CallsOK' /\ calls' \in [Caller -> 0 .. MaxCalls]
             /\ finalized' \subseteq Key /\ OnlyForRoom /\ SaysSo
  <2>1. UNCHANGED <<lru, used, calls, finalized>>
    BY <1>4 DEF CancelWait
  <2> QED
    BY <1>1, <1>4, <2>1, ListSame, CancelKeeps
<1>5. ASSUME NEW c \in Caller, NEW loaded \in BOOLEAN, EndLoad(c, loaded)
      PROVE  /\ ListOK' /\ CallsOK' /\ calls' \in [Caller -> 0 .. MaxCalls]
             /\ finalized' \subseteq Key /\ OnlyForRoom /\ SaysSo
  <2>1. CallsOK' /\ SaysSo /\ caller[c].key \in Key
    BY <1>1, <1>5, EndKeeps
  <2>2. /\ Add(caller[c].key) \/ UNCHANGED <<lru, used>>
        /\ UNCHANGED <<calls, finalized>>
    BY <1>5 DEF EndLoad
  <2>3. ListOK' /\ OnlyForRoom
    BY <1>1, <2>1, <2>2, AddKeeps, ListSame
  <2> QED
    BY <1>1, <2>1, <2>2, <2>3
<1>6. ASSUME NEW k \in Key, AddFinalized(k)
      PROVE  /\ ListOK' /\ CallsOK' /\ calls' \in [Caller -> 0 .. MaxCalls]
             /\ finalized' \subseteq Key /\ OnlyForRoom /\ SaysSo
  <2>1. /\ Add(k) /\ UNCHANGED <<flight, caller, calls>>
        /\ finalized' = finalized \cup {k}
    BY <1>6 DEF AddFinalized
  <2> QED
    BY <1>1, <2>1, AddKeeps, CallsSame
<1>7. CASE UNCHANGED cacheVars
  BY <1>1, <1>7, ListSame, CallsSame DEF cacheVars
<1> QED
  BY <1>3, <1>4, <1>5, <1>6, <1>7 DEF CacheNext, CallStep

(* Between two locks the cache holds each index once, charges what they    *)
(* weigh and no more than the capacity, has one load for each key that is  *)
(* in flight, and whoever waits waits for a load of its key that runs.     *)
THEOREM CacheIsConsistent == CacheSpec => []CacheInv
<1>1. CacheInit => CacheInv
  BY CacheInitInv
<1>2. CacheInv /\ [CacheNext]_cacheVars => CacheInv'
  BY CacheStep
<1> QED
  BY <1>1, <1>2, PTL DEF CacheSpec

(* What is evicted would not have fit beside the new index, with all that  *)
(* was used more recently; and whoever was kept waiting is told so.        *)
THEOREM EvictsForRoom == CacheSpec => RoomAndDelay
<1>1. CacheInv /\ [CacheNext]_cacheVars => OnlyForRoom /\ SaysSo
  BY CacheStep
<1>2. CacheInv /\ [CacheNext]_cacheVars =>
        [/\ \A i \in DOMAIN lru :
              lru[i] \notin ToSet(lru')
                => TotalWeight(UpTo(i)) + Weight[Head(lru')] > Capacity
         /\ \A c \in Caller :
              caller[c].at \in {"woken", "loading"} /\ caller'[c].at = "returned"
                => caller'[c].waited]_cacheVars
  BY <1>1 DEF OnlyForRoom, SaysSo
<1> QED
  BY <1>2, CacheIsConsistent, PTL DEF CacheSpec, RoomAndDelay
=============================================================================
