---------------------------- MODULE StorageProofs ----------------------------
(***************************************************************************)
(* Proofs about what is stored: about Storage, for every set of names,     *)
(* contents, writers and keys, and every limit of the S3 adapter, and      *)
(* about CapacityEviction, for any number of locations of any size.        *)
(*                                                                         *)
(* 1. FilesInv is inductive: a request owns its temporary name and its     *)
(*    inode until it is published, what an object shows is whole or torn,  *)
(*    a reader keeps the content it opened, and no listing of the daily    *)
(*    removal holds a name of an active session.  Most steps are steps of  *)
(*    one request (RequestStep), of the reader (ReaderStep), or unlink a   *)
(*    name (UnlinkingStep); crashes and power losses come last.            *)
(* 2. Every step that keeps FilesInv is a step of ObjectStore or stutters, *)
(*    where a write is pending from its first byte until it is published.  *)
(* 3. ObjectsInv is inductive: an answer that ends a call says what is so  *)
(*    (AnswerStep), tokens of a sane server grow and so never repeat       *)
(*    (WalkStep), a source is split without gap (SplitFacts), and copies   *)
(*    follow the plan, whose number of parts is a sum (PlanFacts).         *)
(* 4. A pass of capacity eviction evicts only while more bytes are in use  *)
(*    than the target, the least recently used first, gives up only after  *)
(*    it looked at every location and never circles, whatever happens      *)
(*    meanwhile: the last section.                                         *)
(***************************************************************************)
EXTENDS Storage, CapacityEviction, FiniteSetTheorems, TLAPS

-----------------------------------------------------------------------------
(* Sums over finite sets, as the models take them with MapThenSumSet: what *)
(* a sum is when an element is added or removed, whichever element the     *)
(* fold picks first, and how sums of naturals compare.                         *)
(* The induction over finite sets is by a minimal counterexample: strict   *)
(* inclusion of the subsets of a finite set is well founded.               *)

(* The sum of f[x] for the x of S. *)
SumOver(f, S) == MapThenSumSet(LAMBDA x : f[x], S)

(* Of the sets in a nonempty F some contains no other one.                 *)
LEMMA MinimalSet ==
  ASSUME NEW S, IsFiniteSet(S), NEW F \in SUBSET (SUBSET S), F # {}
  PROVE  \E T \in F : \A U \in F : U \subseteq T => U = T
<1>1. IsWellFoundedOn(StrictSubsetOrdering(S), SUBSET S)
  BY FS_StrictSubsetOrderingWellFounded, FS_FiniteSubsetsOfFinite
<1>2. PICK T \in F : \A U \in F : ~(<<U, T>> \in StrictSubsetOrdering(S))
  BY <1>1, WFMin
<1> QED
  BY <1>2 DEF StrictSubsetOrdering

-----------------------------------------------------------------------------
(* The fold is a function on the subsets, and there is just one such.      *)

OneOf(S) == CHOOSE x \in S : TRUE

IsFold(g, f, S) ==
  g = [s \in SUBSET S |-> IF s = {} THEN 0 ELSE f[OneOf(s)] + g[s \ {OneOf(s)}]]

LEMMA OneOfIn == ASSUME NEW S, S # {} PROVE OneOf(S) \in S
  BY DEF OneOf

(* What a fold is, subset by subset. *)
LEMMA FoldValues ==
  ASSUME NEW f, NEW S, NEW g
  PROVE  IsFold(g, f, S) <=>
           /\ g = [s \in SUBSET S |-> g[s]]
           /\ \A s \in SUBSET S :
                g[s] = IF s = {} THEN 0 ELSE f[OneOf(s)] + g[s \ {OneOf(s)}]
  BY DEF IsFold

(* Two folds agree on the subsets they share.                              *)
LEMMA FoldsAgree ==
  ASSUME NEW f, NEW S, NEW T \in SUBSET S, IsFiniteSet(T), NEW g, NEW h,
         IsFold(g, f, S), IsFold(h, f, T)
  PROVE  g[T] = h[T]
<1> DEFINE F == {U \in SUBSET T : g[U] # h[U]}
<1>1. SUFFICES ASSUME F # {} PROVE FALSE
  OBVIOUS
<1>2. PICK U \in F : \A V \in F : V \subseteq U => V = U
  <2> HIDE DEF F
  <2>1. F \in SUBSET (SUBSET T)
    BY DEF F
  <2> QED
    BY <1>1, <2>1, MinimalSet
<1>3. U \in SUBSET S /\ U \in SUBSET T
  OBVIOUS
<1>4. U # {}
  BY <1>2, <1>3, FoldValues
<1>5. OneOf(U) \in U
  BY <1>4, OneOfIn
<1>6. g[U \ {OneOf(U)}] = h[U \ {OneOf(U)}]
  BY <1>2, <1>5
<1> QED
  BY <1>2, <1>3, <1>4, <1>6, FoldValues

(* There is a fold over every finite set: were there none over U, but one  *)
(* over each smaller set, those would give one over U.                     *)
LEMMA FoldExists ==
  ASSUME NEW f, NEW S, IsFiniteSet(S)
  PROVE  \E g : IsFold(g, f, S)
<1> DEFINE F == {U \in SUBSET S : ~\E g : IsFold(g, f, U)}
<1>1. SUFFICES ASSUME F # {} PROVE FALSE
  OBVIOUS
<1>2. PICK U \in F : \A V \in F : V \subseteq U => V = U
  <2> HIDE DEF F
  <2>1. F \in SUBSET (SUBSET S)
    BY DEF F
  <2> QED
    BY <1>1, <2>1, MinimalSet
<1> DEFINE G(V) == CHOOSE g : IsFold(g, f, V)
           h == [s \in SUBSET U |->
                   IF s = {} THEN 0
                   ELSE f[OneOf(s)] + G(s \ {OneOf(s)})[s \ {OneOf(s)}]]
<1>3. \A V \in SUBSET U : V # U => IsFold(G(V), f, V)
  BY <1>2
<1>4. \A V \in SUBSET U : IsFiniteSet(V)
  BY FS_Subset
<1>5. ASSUME NEW s \in SUBSET U, s # U
      PROVE  G(s)[s] = h[s]
  <2>1. IsFold(G(s), f, s)
    BY <1>3, <1>5
  <2> HIDE DEF G
  <2>2. CASE s = {}
    <3>1. G(s)[s] = 0
      BY <2>1, <2>2, FoldValues
    <3> QED
      BY <2>2, <3>1
  <2>3. CASE s # {}
    <3> DEFINE r == s \ {OneOf(s)}
    <3>1. OneOf(s) \in s
      BY <2>3, OneOfIn
    <3>2. r \in SUBSET s /\ r # U /\ r \in SUBSET U
      BY <3>1
    <3>3. IsFold(G(r), f, r)
      BY <3>2, <1>3
    <3>4. G(s)[r] = G(r)[r]
      <4> HIDE DEF r
      <4>1. IsFiniteSet(r)
        BY <3>2, <1>4
      <4> QED
        BY <2>1, <3>2, <3>3, <4>1, FoldsAgree
    <3>5. G(s)[s] = f[OneOf(s)] + G(s)[r]
      BY <2>1, <2>3, FoldValues
    <3> QED
      BY <2>3, <3>4, <3>5
  <2> QED
    BY <2>2, <2>3
<1>6. IsFold(h, f, U)
  <2> SUFFICES ASSUME NEW s \in SUBSET U
               PROVE  h[s] = IF s = {} THEN 0
                              ELSE f[OneOf(s)] + h[s \ {OneOf(s)}]
    <3>1. h = [s \in SUBSET U |-> h[s]]
      OBVIOUS
    <3> HIDE DEF h
    <3> QED
      BY <3>1, FoldValues
  <2>1. CASE s = {}
    BY <2>1
  <2>2. CASE s # {}
    <3> DEFINE r == s \ {OneOf(s)}
    <3>1. OneOf(s) \in s
      BY <2>2, OneOfIn
    <3>2. r \in SUBSET U /\ r # U
      BY <3>1
    <3>3. G(r)[r] = h[r]
      BY <3>2, <1>5
    <3>4. h[s] = f[OneOf(s)] + G(r)[r]
      BY <2>2
    <3> HIDE DEF h, G, r
    <3>5. h[s] = f[OneOf(s)] + h[r]
      BY <3>3, <3>4
    <3> QED
      BY <2>2, <3>5 DEF r
  <2> QED
    BY <2>1, <2>2
<1> QED
  BY <1>2, <1>6

(* The sum over a set is what its fold gives. *)
LEMMA SumIsFold ==
  ASSUME NEW f, NEW S, IsFiniteSet(S), NEW g, IsFold(g, f, S)
  PROVE  SumOver(f, S) = g[S]
<1> DEFINE iter == CHOOSE h : IsFold(h, f, S)
<1>1. IsFold(iter, f, S)
  OBVIOUS
<1>2. iter[S] = g[S]
  <2> HIDE DEF iter
  <2> QED
    BY <1>1, FoldsAgree
<1>3. SumOver(f, S) = iter[S]
  BY DEF SumOver, MapThenSumSet, MapThenFoldSet, IsFold, OneOf
<1> QED
  BY <1>2, <1>3

LEMMA SumFirst ==
  ASSUME NEW f, NEW S, IsFiniteSet(S)
  PROVE  SumOver(f, S) = IF S = {} THEN 0
                           ELSE f[OneOf(S)] + SumOver(f, S \ {OneOf(S)})
<1>1. PICK g : IsFold(g, f, S)
  BY FoldExists
<1>2. SumOver(f, S) = g[S]
  BY <1>1, SumIsFold
<1>3. CASE S = {}
  BY <1>1, <1>2, <1>3, FoldValues
<1>4. CASE S # {}
  <2> DEFINE R == S \ {OneOf(S)}
  <2>1. IsFiniteSet(R) /\ R \in SUBSET S
    BY FS_Subset
  <2>2. PICK h : IsFold(h, f, R)
    BY <2>1, FoldExists
  <2>3. SumOver(f, R) = h[R] /\ g[R] = h[R]
    BY <1>1, <2>1, <2>2, SumIsFold, FoldsAgree
  <2>4. g[S] = f[OneOf(S)] + g[R]
    BY <1>1, <1>4, FoldValues
  <2> QED
    BY <1>2, <1>4, <2>3, <2>4
<1> QED
  BY <1>3, <1>4

-----------------------------------------------------------------------------
(* Sums of integers. *)

THEOREM SumEmpty == ASSUME NEW f, NEW S, S = {} PROVE SumOver(f, S) = 0
  BY FS_EmptySet, SumFirst

(* A sum of integers is one.                                               *)
THEOREM SumType ==
  ASSUME NEW f, NEW S, IsFiniteSet(S), \A x \in S : f[x] \in Int
  PROVE  SumOver(f, S) \in Int
<1> DEFINE F == {U \in SUBSET S : SumOver(f, U) \notin Int}
<1>1. SUFFICES ASSUME F # {} PROVE FALSE
  OBVIOUS
<1>2. PICK U \in F : \A V \in F : V \subseteq U => V = U
  <2> HIDE DEF F
  <2>1. F \in SUBSET (SUBSET S)
    BY DEF F
  <2> QED
    BY <1>1, <2>1, MinimalSet
<1>3. IsFiniteSet(U) /\ U # {}
  <2>1. IsFiniteSet(U)
    BY FS_Subset
  <2>2. U # {}
    BY SumEmpty
  <2> QED
    BY <2>1, <2>2
<1>4. OneOf(U) \in U
  BY <1>3, OneOfIn
<1>5. SumOver(f, U \ {OneOf(U)}) \in Int
  BY <1>2, <1>4
<1>6. f[OneOf(U)] \in Int
  BY <1>4
<1>7. SumOver(f, U) = f[OneOf(U)] + SumOver(f, U \ {OneOf(U)})
  BY <1>3, SumFirst
<1> QED
  BY <1>5, <1>6, <1>7

(* Any element may be the one that is taken off first.                     *)
THEOREM SumRemove ==
  ASSUME NEW f, NEW S, IsFiniteSet(S), \A x \in S : f[x] \in Int,
         NEW x \in S
  PROVE  SumOver(f, S) = f[x] + SumOver(f, S \ {x})
<1> DEFINE Off(U, y) == SumOver(f, U) = f[y] + SumOver(f, U \ {y})
           F == {U \in SUBSET S : \E y \in U : ~Off(U, y)}
<1>1. SUFFICES ASSUME F # {} PROVE FALSE
  OBVIOUS
<1>2. PICK U \in F : \A V \in F : V \subseteq U => V = U
  <2> HIDE DEF F
  <2>1. F \in SUBSET (SUBSET S)
    BY DEF F
  <2> QED
    BY <1>1, <2>1, MinimalSet
<1>3. PICK y \in U : ~Off(U, y)
  OBVIOUS
<1>4. \A V \in SUBSET S : IsFiniteSet(V)
  BY FS_Subset
<1> DEFINE c == OneOf(U)
           R == U \ {c, y}
<1>5. c \in U
  BY <1>3, OneOfIn
<1>6. SumOver(f, U) = f[c] + SumOver(f, U \ {c})
  BY <1>3, <1>4, SumFirst
<1>7. c # y
  BY <1>3, <1>6
<1>8. SumOver(f, U \ {c}) = f[y] + SumOver(f, R)
  <2>1. Off(U \ {c}, y)
    <3>1. U \ {c} \in SUBSET S /\ y \in U \ {c} /\ U \ {c} # U
      BY <1>5, <1>7
    <3> QED
      BY <1>2, <3>1
  <2>2. (U \ {c}) \ {y} = R
    OBVIOUS
  <2> QED
    BY <2>1, <2>2
<1>9. SumOver(f, U \ {y}) = f[c] + SumOver(f, R)
  <2>1. Off(U \ {y}, c)
    <3>1. U \ {y} \in SUBSET S /\ c \in U \ {y} /\ U \ {y} # U
      BY <1>5, <1>7
    <3> QED
      BY <1>2, <3>1
  <2>2. (U \ {y}) \ {c} = R
    OBVIOUS
  <2> QED
    BY <2>1, <2>2
<1>10. SumOver(f, R) \in Int /\ f[c] \in Int /\ f[y] \in Int
  <2>1. R \in SUBSET S /\ IsFiniteSet(R)
    BY <1>4
  <2>2. \A z \in R : f[z] \in Int
    OBVIOUS
  <2> HIDE DEF R
  <2>3. SumOver(f, R) \in Int
    BY <2>1, <2>2, SumType
  <2> QED
    BY <1>5, <2>3
<1> HIDE DEF F, c, R
<1>11. SumOver(f, U) = f[y] + SumOver(f, U \ {y})
  BY <1>6, <1>8, <1>9, <1>10
<1> QED
  BY <1>3, <1>11

THEOREM SumAdd ==
  ASSUME NEW f, NEW S, IsFiniteSet(S), NEW x, x \notin S,
         \A y \in S \cup {x} : f[y] \in Int
  PROVE  SumOver(f, S \cup {x}) = f[x] + SumOver(f, S)
<1>1. IsFiniteSet(S \cup {x})
  BY FS_AddElement
<1>2. (S \cup {x}) \ {x} = S
  OBVIOUS
<1>3. SumOver(f, S \cup {x}) = f[x] + SumOver(f, (S \cup {x}) \ {x})
  BY <1>1, SumRemove
<1> QED
  BY <1>2, <1>3

(* Only the values on the set matter.                                      *)
THEOREM SumAgree ==
  ASSUME NEW f, NEW g, NEW S, IsFiniteSet(S), \A x \in S : f[x] = g[x]
  PROVE  SumOver(f, S) = SumOver(g, S)
<1> DEFINE F == {U \in SUBSET S : SumOver(f, U) # SumOver(g, U)}
<1>1. SUFFICES ASSUME F # {} PROVE FALSE
  OBVIOUS
<1>2. PICK U \in F : \A V \in F : V \subseteq U => V = U
  <2> HIDE DEF F
  <2>1. F \in SUBSET (SUBSET S)
    BY DEF F
  <2> QED
    BY <1>1, <2>1, MinimalSet
<1>3. IsFiniteSet(U) /\ U # {}
  <2>1. IsFiniteSet(U)
    BY FS_Subset
  <2>2. U # {}
    BY SumEmpty
  <2> QED
    BY <2>1, <2>2
<1>4. OneOf(U) \in U
  BY <1>3, OneOfIn
<1>5. SumOver(f, U \ {OneOf(U)}) = SumOver(g, U \ {OneOf(U)})
  BY <1>2, <1>4
<1>6. f[OneOf(U)] = g[OneOf(U)]
  BY <1>4
<1>7. /\ SumOver(f, U) = f[OneOf(U)] + SumOver(f, U \ {OneOf(U)})
      /\ SumOver(g, U) = g[OneOf(U)] + SumOver(g, U \ {OneOf(U)})
  BY <1>3, SumFirst
<1> QED
  BY <1>2, <1>5, <1>6, <1>7

(* The sum over a set is that over a part of it and that over the rest.    *)
THEOREM SumSplit ==
  ASSUME NEW f, NEW S, IsFiniteSet(S), \A x \in S : f[x] \in Int,
         NEW T \in SUBSET S
  PROVE  SumOver(f, S) = SumOver(f, T) + SumOver(f, S \ T)
<1> DEFINE Splits(U) == SumOver(f, S) = SumOver(f, U) + SumOver(f, S \ U)
           F == {U \in SUBSET S : ~Splits(U)}
<1>1. SUFFICES ASSUME F # {} PROVE FALSE
  OBVIOUS
<1>2. PICK U \in F : \A V \in F : V \subseteq U => V = U
  <2> HIDE DEF F
  <2>1. F \in SUBSET (SUBSET S)
    BY DEF F
  <2> QED
    BY <1>1, <2>1, MinimalSet
<1>3. \A V \in SUBSET S : IsFiniteSet(V) /\ SumOver(f, V) \in Int
  <2> SUFFICES ASSUME NEW V \in SUBSET S
               PROVE  IsFiniteSet(V) /\ SumOver(f, V) \in Int
    OBVIOUS
  <2>1. IsFiniteSet(V) /\ \A x \in V : f[x] \in Int
    BY FS_Subset
  <2> QED
    BY <2>1, SumType
<1>4. U # {}
  <2>1. SUFFICES ASSUME U = {} PROVE FALSE
    OBVIOUS
  <2>2. S \ U = S
    BY <2>1
  <2>3. SumOver(f, U) = 0
    BY <2>1, SumEmpty
  <2>4. SumOver(f, S) \in Int
    BY SumType
  <2>5. SumOver(f, S \ U) = SumOver(f, S)
    BY <2>2, Zenon
  <2>6. SumOver(f, S) = SumOver(f, U) + SumOver(f, S \ U)
    BY <2>3, <2>4, <2>5
  <2> QED
    BY <1>2, <2>6
<1> DEFINE c == OneOf(U)
           R == U \ {c}
<1>5. c \in U /\ c \in S /\ R \in SUBSET S
  BY <1>4, OneOfIn
<1>6. Splits(R)
  BY <1>2, <1>5
<1>7. SumOver(f, U) = f[c] + SumOver(f, R)
  BY <1>3, <1>5, SumRemove
<1>8. SumOver(f, S \ R) = f[c] + SumOver(f, S \ U)
  <2>1. S \ R = (S \ U) \cup {c} /\ c \notin S \ U
    BY <1>5
  <2>2. IsFiniteSet(S \ U) /\ \A y \in (S \ U) \cup {c} : f[y] \in Int
    BY <1>3, <1>5
  <2> HIDE DEF c, R
  <2> QED
    BY <2>1, <2>2, SumAdd
<1>9. /\ f[c] \in Int /\ SumOver(f, R) \in Int /\ SumOver(f, S \ R) \in Int
      /\ SumOver(f, S \ U) \in Int /\ SumOver(f, U) \in Int
  BY <1>3, <1>5
<1> HIDE DEF F, c, R
<1> QED
  BY <1>2, <1>6, <1>7, <1>8, <1>9 DEF F

(* Sums of naturals grow with the set.                                     *)
THEOREM SumNat ==
  ASSUME NEW f, NEW S, IsFiniteSet(S), \A x \in S : f[x] \in Nat
  PROVE  /\ SumOver(f, S) \in Nat
         /\ \A x \in S : f[x] <= SumOver(f, S)
<1>1. ASSUME NEW T \in SUBSET S PROVE SumOver(f, T) \in Nat
  <2> DEFINE F == {U \in SUBSET S : SumOver(f, U) \notin Nat}
  <2>1. SUFFICES ASSUME F # {} PROVE FALSE
    OBVIOUS
  <2>2. PICK U \in F : \A V \in F : V \subseteq U => V = U
    <3> HIDE DEF F
    <3>1. F \in SUBSET (SUBSET S)
      BY DEF F
    <3> QED
      BY <2>1, <3>1, MinimalSet
  <2>3. IsFiniteSet(U) /\ U # {}
    <3>1. IsFiniteSet(U)
      BY FS_Subset
    <3>2. U # {}
      BY SumEmpty
    <3> QED
      BY <3>1, <3>2
  <2>4. OneOf(U) \in U
    BY <2>3, OneOfIn
  <2>5. SumOver(f, U \ {OneOf(U)}) \in Nat
    BY <2>2, <2>4
  <2>6. f[OneOf(U)] \in Nat
    BY <2>4
  <2>7. SumOver(f, U) = f[OneOf(U)] + SumOver(f, U \ {OneOf(U)})
    BY <2>3, SumFirst
  <2> QED
    BY <2>5, <2>6, <2>7
<1>2. ASSUME NEW x \in S PROVE f[x] <= SumOver(f, S)
  <2>1. SumOver(f, S) = f[x] + SumOver(f, S \ {x})
    BY SumRemove
  <2>2. SumOver(f, S \ {x}) \in Nat
    BY <1>1
  <2> QED
    BY <2>1, <2>2
<1> QED
  BY <1>1, <1>2

THEOREM SumSubset ==
  ASSUME NEW f, NEW S, IsFiniteSet(S), \A x \in S : f[x] \in Nat,
         NEW T \in SUBSET S
  PROVE  SumOver(f, T) <= SumOver(f, S)
<1>1. SumOver(f, S) = SumOver(f, T) + SumOver(f, S \ T)
  BY SumSplit
<1>2. /\ IsFiniteSet(T) /\ IsFiniteSet(S \ T)
      /\ \A x \in T : f[x] \in Nat
      /\ \A x \in S \ T : f[x] \in Nat
  BY FS_Subset, FS_Difference
<1>3. SumOver(f, T) \in Nat /\ SumOver(f, S \ T) \in Nat
  BY <1>2, SumNat
<1> QED
  BY <1>1, <1>3

-----------------------------------------------------------------------------
(* The filesystem adapter: types and small facts.                           *)

LEMMA SomeName == ASSUME NEW names, names # {} PROVE Some(names) \in names
BY DEF Some

LEMMA Names ==
  /\ Block \in Path /\ Part \in Path /\ Block \in Object /\ Part \in Object
  /\ Temp \subseteq Path /\ \A t \in Temp : t \notin Object /\ t # Missing
  /\ \A n \in Object : n \in Path /\ n # Missing
  /\ \A i \in Inode : i # Missing
  /\ \A c \in Content : c # Missing
  /\ Chunks \in Nat /\ Chunks > 0
BY FilesystemAssumption DEF Path, Object

LEMMA Quiet ==
  /\ Resting \in WriterState /\ RequestOK(Resting)
  /\ [Resting EXCEPT !.pc = "done"] \in WriterState
  /\ RequestOK([Resting EXCEPT !.pc = "done"])
  /\ Empty \in FileState
  /\ NotReading \in ReaderState
  /\ NotListing \in ListingState({"unlink"})
  /\ NotListing \in ListingState({"walk", "clean"})
BY Names DEF Resting, WriterState, Steps, RequestOK, Making, Complete, NotReading,
             ReaderState, NotListing, ListingState, Empty, FileState

(* An inode that something refers to is not free.                           *)
LEMMA InodeInUse ==
  ASSUME NEW i,
         \/ \E n \in Path : files[n] = i \/ disk[n] = i
         \/ reader.inode = i
         \/ \E w \in Writer : writers[w].inode = i
  PROVE  i \notin FreeInodes
BY DEF FreeInodes

LEMMA ContentsKept ==
  ASSUME NEW new \in [Inode -> FileState], Contents(new)
  PROVE  /\ inodes' \in [Inode -> FileState]
         /\ \A i \in Inode : i \in FreeInodes' \/ inodes'[i] = new[i]
BY Names DEF Contents, Empty, FileState

-----------------------------------------------------------------------------
(* A step of one request.                                                    *)

OwnKept(w) == TempOwned(w) /\ FileOwned(w) /\ FileComplete(writers[w])

LEMMA RequestStep ==
  ASSUME FilesInv, NEW w \in Writer, NEW s \in WriterState,
         writers' = [writers EXCEPT ![w] = s],
         UNCHANGED <<scenario, session, disk, others>>, folder' \in BOOLEAN, broken' \in Nat,
         files' \in Directory, inodes' \in [Inode -> FileState],
         s.temp \in {Missing, writers[w].temp} \cup FreshTemps,
         \/ s.inode \in {Missing, writers[w].inode} \cup FreeInodes
         \/ s.pc \notin Making /\ s.inode = files[Block],
         \A n \in Path : \/ files'[n] \in {files[n], Missing}
                         \/ n = s.temp /\ files'[n] = s.inode
                         \/ n \in Object /\ writers[w].pc \in Complete
                              /\ files'[n] = writers[w].inode,
         \A i \in Inode : \/ inodes'[i] = inodes[i]
                          \/ i \in FreeInodes \/ i \in FreeInodes'
                          \/ writers[w].pc \in Making /\ i = writers[w].inode,
         RequestOK(s), OwnKept(w)'
  PROVE  FilesInv'
<1> USE DEF others
<1>0. /\ writers \in [Writer -> WriterState] /\ files \in Directory /\ disk \in Directory
      /\ reader \in ReaderState
  BY DEF FilesInv, FsTypeOK
<1>1. /\ writers'[w] = s
      /\ \A v \in Writer \ {w} : writers'[v] = writers[v]
      /\ writers' \in [Writer -> WriterState]
  BY <1>0
<1>2. FsTypeOK'
  BY <1>1 DEF FilesInv, FsTypeOK
<1>3. ASSUME NEW i \in Inode,
             \/ \E n \in Path : files'[n] = i \/ disk[n] = i
             \/ reader.inode = i
             \/ \E v \in Writer : writers'[v].inode = i
      PROVE  i \notin FreeInodes'
  BY <1>3 DEF FreeInodes
<1>4. ASSUME NEW v \in Writer, v # w
      PROVE  /\ RequestOK(writers[v])' /\ TempOwned(v)'
             /\ FileOwned(v)' /\ FileComplete(writers[v])'
  <2>1. /\ RequestOK(writers[v]) /\ TempOwned(v) /\ FileOwned(v) /\ FileComplete(writers[v])
        /\ RequestOK(writers[w]) /\ TempOwned(w) /\ FileOwned(w)
    BY DEF FilesInv, RequestsOK
  <2>2. writers'[v] = writers[v] /\ writers[v] \in WriterState /\ writers[w] \in WriterState
    BY <1>0, <1>1, <1>4
  <2>3. RequestOK(writers[v])'
    BY <2>1, <2>2 DEF RequestOK
  <2>4. TempOwned(v)'
    BY <2>1, <2>2, <1>1, <1>4, Names DEF TempOwned, FreshTemps, WriterState
  <2>5. FileOwned(v)'
    <3> SUFFICES ASSUME writers[v].pc \in Making PROVE FileOwned(v)'
      BY <2>2 DEF FileOwned
    <3>1. writers[v].inode \in Inode /\ writers[v].temp \in Temp
      BY <2>1, <2>2, Names DEF RequestOK, WriterState, Making
    <3>2. writers[v].inode \notin FreeInodes
      BY InodeInUse
    <3>3. /\ writers[v].inode # s.inode /\ writers[v].inode # writers[w].inode
          /\ writers[v].inode # Missing
      BY <2>1, <1>4, <3>1, <3>2, Names DEF FileOwned
    <3> QED
      BY <2>1, <2>2, <1>1, <1>4, <3>1, <3>3, Names DEF FileOwned
  <2>6. FileComplete(writers[v])'
    <3> SUFFICES ASSUME writers[v].pc \in {"write", "sync"} \cup Complete
                 PROVE  FileComplete(writers[v])'
      BY <2>2 DEF FileComplete, Complete
    <3>1. writers[v].inode \in Inode
      BY <2>1, <2>2, Names DEF RequestOK, WriterState, Making, Complete
    <3>2. inodes'[writers[v].inode] = inodes[writers[v].inode]
      BY <2>1, <2>2, <3>1, <1>3, <1>4, InodeInUse DEF FileOwned
    <3> QED
      BY <2>1, <2>2, <3>2 DEF FileComplete
  <2> QED
    BY <2>3, <2>4, <2>5, <2>6
<1>5. RequestsOK'
  <2>1. RequestOK(writers[w])' /\ TempOwned(w)' /\ FileOwned(w)' /\ FileComplete(writers[w])'
    BY <1>1 DEF OwnKept, RequestOK
  <2> QED
    BY <1>4, <2>1 DEF RequestsOK
<1>6. ASSUME NEW i \in Inode, i \notin FreeInodes', i \notin FreeInodes,
             i # writers[w].inode \/ writers[w].pc \notin Making
      PROVE  inodes'[i] = inodes[i]
  BY <1>6
<1>7. ObjectsWhole'
  <2> SUFFICES ASSUME NEW n \in Object PROVE ObjectWhole(files[n])' /\ ObjectWhole(disk[n])'
    BY DEF ObjectsWhole
  <2>0. n \in Path /\ n # writers[w].temp /\ n # s.temp
    BY Names, <1>0 DEF WriterState
  <2>1. ObjectWhole(files[n]) /\ ObjectWhole(disk[n]) /\ FileOwned(w)
        /\ FileComplete(writers[w]) /\ RequestOK(writers[w])
    BY DEF FilesInv, RequestsOK, ObjectsWhole
  <2>2. ASSUME NEW i \in Inode, i = files[n] \/ i = disk[n], i \notin FreeInodes'
        PROVE  inodes'[i] = inodes[i]
    BY <2>0, <2>1, <2>2, <1>6, InodeInUse DEF FileOwned
  <2>3. disk[n] \in Inode \cup {Missing} /\ files[n] \in Inode \cup {Missing}
        /\ files'[n] \in Inode \cup {Missing}
    BY <1>0, <2>0 DEF Directory
  <2>4. ObjectWhole(disk[n])'
    BY <2>0, <2>1, <2>2, <2>3, <1>3 DEF ObjectWhole
  <2>5. CASE files'[n] \in {files[n], Missing}
    BY <2>0, <2>1, <2>2, <2>3, <1>3, <2>5, <2>4 DEF ObjectWhole
  <2>6. CASE writers[w].pc \in Complete /\ files'[n] = writers[w].inode
    <3>1. writers[w].inode \in Inode /\ writers[w].inode \notin FreeInodes
      BY <2>1, <2>6, <1>0, Names, InodeInUse DEF RequestOK, WriterState
    <3>2. inodes'[writers[w].inode] = inodes[writers[w].inode]
      BY <3>1, <2>6, <2>0, <1>3, <1>6 DEF Making, Complete
    <3> QED
      BY <3>1, <3>2, <2>1, <2>4, <2>6, <1>0 DEF RequestOK, FileComplete, ObjectWhole, WriterState
  <2> QED
    BY <2>0, <2>5, <2>6
<1>8. ListingsOK' /\ ReaderOK'
  <2>1. ListingsOK'
    BY DEF FilesInv, ListingsOK
  <2>2. ReaderOK /\ FileOwned(w)
    BY DEF FilesInv, RequestsOK
  <2>3. reader.inode \in Inode => inodes'[reader.inode] = inodes[reader.inode]
    BY <2>2, <1>3, <1>6, InodeInUse DEF FileOwned
  <2>4. ReaderOK'
    BY <2>2, <2>3, <1>0 DEF ReaderOK, ReaderState
  <2> QED
    BY <2>1, <2>4
<1> QED
  BY <1>2, <1>5, <1>7, <1>8 DEF FilesInv

(* What the files and inodes become when a step only frees inodes.          *)
LEMMA OnlyFreed ==
  ASSUME FsTypeOK, Contents(inodes)
  PROVE  /\ inodes' \in [Inode -> FileState]
         /\ \A i \in Inode : i \in FreeInodes' \/ inodes'[i] = inodes[i]
BY ContentsKept DEF FsTypeOK

(* A step that touches no file.                                             *)
LEMMA QuietStep ==
  ASSUME FilesInv, NEW w \in Writer, NEW s \in WriterState, Enter(w, s),
         UNCHANGED <<world, files, inodes, others>>, folder' \in BOOLEAN,
         s.temp \in {Missing, writers[w].temp}, s.inode \in {Missing, writers[w].inode},
         s.temp # Missing => s.inode = writers[w].inode,
         s.pc \notin Making, RequestOK(s), FileComplete(s)
  PROVE  FilesInv'
<1> USE DEF others, world
<1>1. writers' = [writers EXCEPT ![w] = s] /\ writers'[w] = s
  BY DEF Enter, FilesInv, FsTypeOK
<1>2. TempOwned(w)'
  BY <1>1 DEF TempOwned, FilesInv, RequestsOK
<1>3. FileOwned(w)' /\ (FileComplete(writers[w]))'
  BY <1>1 DEF FileOwned, FileComplete
<1>4. OwnKept(w)'
  BY <1>2, <1>3 DEF OwnKept
<1>5. /\ files' \in Directory /\ inodes' \in [Inode -> FileState] /\ broken' \in Nat
      /\ files' = files /\ inodes' = inodes
  BY DEF FilesInv, FsTypeOK
<1> QED
  BY ONLY <1>1, <1>4, <1>5, RequestStep, FilesInv, w \in Writer, s \in WriterState,
          UNCHANGED <<world, files, inodes, others>>, folder' \in BOOLEAN,
          s.temp \in {Missing, writers[w].temp}, s.inode \in {Missing, writers[w].inode},
          RequestOK(s) DEF world

LEMMA QuietRequests ==
  ASSUME FilesInv, NEW w \in Writer, Upload(w) \/ Fail(w) \/ Copy(w) \/ Stream(w)
  PROVE  FilesInv'
<1>0. writers[w] \in WriterState /\ RequestOK(writers[w]) /\ FsTypeOK /\ ObjectsWhole
  BY DEF FilesInv, FsTypeOK, RequestsOK
<1>1. CASE Upload(w)
  <2> DEFINE s == [Resting EXCEPT !.pc = "create", !.target = Block,
                                  !.of = scenario.requests[w], !.size = Chunks]
  <2>1. scenario.requests[w] \in Content
    BY <1>0, <1>1, FilesystemAssumption DEF FsTypeOK, Platform, Upload
  <2>2. s \in WriterState
    <3>1. Chunks \in 0..Chunks /\ "create" \in Steps
      BY Names DEF Steps
    <3>2. Block \in Object \cup {Missing} /\ scenario.requests[w] \in Content \cup {Missing}
      BY <2>1, Names
    <3> QED
      BY <3>1, <3>2, Quiet DEF WriterState
  <2>3. RequestOK(s) /\ FileComplete(s) /\ s.pc \notin Making
    BY <2>1, Names DEF Resting, RequestOK, FileComplete, Making, Complete
  <2>4. s.temp = Missing /\ s.inode = Missing
    BY DEF Resting
  <2>5. Enter(w, s) /\ UNCHANGED <<world, files, inodes, others>> /\ folder' \in BOOLEAN
    BY <1>1 DEF Upload
  <2> QED
    BY ONLY <2>2, <2>3, <2>4, <2>5, QuietStep, FilesInv, w \in Writer
<1>2. CASE Fail(w)
  <2> DEFINE s == [writers[w] EXCEPT !.pc = "undo"]
  <2>2. s \in WriterState
    BY <1>0 DEF WriterState, Steps
  <2>3. RequestOK(s) /\ FileComplete(s) /\ s.pc \notin Making
    BY <1>0, <1>2 DEF WriterState, RequestOK, FileComplete, Making, Complete, Fail
  <2>4. s.temp = writers[w].temp /\ s.inode = writers[w].inode
    BY <1>0 DEF WriterState
  <2>5. Enter(w, s) /\ UNCHANGED <<world, files, inodes, others>> /\ folder' \in BOOLEAN
    BY <1>0, <1>2 DEF Fail, Go, FsTypeOK
  <2> QED
    BY ONLY <2>2, <2>3, <2>4, <2>5, QuietStep, FilesInv, w \in Writer
<1>3. CASE Copy(w)
  <2> DEFINE s == IF Present(Block) THEN [Resting EXCEPT !.pc = "reserve", !.target = Part]
                  ELSE [Resting EXCEPT !.pc = "done"]
  <2>2. s \in WriterState
    BY Names, Quiet DEF Resting, WriterState, Steps
  <2>3. RequestOK(s) /\ FileComplete(s) /\ s.pc \notin Making
    BY Names DEF Resting, RequestOK, FileComplete, Making, Complete
  <2>4. s.temp = Missing /\ s.inode = Missing
    BY DEF Resting
  <2>5. Enter(w, s) /\ UNCHANGED <<world, files, inodes, others>> /\ folder' \in BOOLEAN
    BY <1>0, <1>3 DEF Copy, Finish, FsTypeOK
  <2> QED
    BY ONLY <2>2, <2>3, <2>4, <2>5, QuietStep, FilesInv, w \in Writer
<1>4. CASE Stream(w)
  <2> DEFINE s == IF Present(Block)
                  THEN [writers[w] EXCEPT !.pc = "create", !.of = inodes[files[Block]].of,
                                          !.size = inodes[files[Block]].written]
                  ELSE [Resting EXCEPT !.pc = "done"]
  <2>1. Present(Block) => /\ inodes[files[Block]] \in FileState
                          /\ inodes[files[Block]].of # Missing
                          /\ scenario.fsync => inodes[files[Block]].written = Chunks
    BY <1>0, Names DEF FsTypeOK, Directory, ObjectsWhole, ObjectWhole, Present
  <2>2. s \in WriterState
    <3>1. CASE Present(Block)
      <4>1. /\ inodes[files[Block]].of \in Content \cup {Missing}
            /\ inodes[files[Block]].written \in 0..Chunks
        BY <2>1, <3>1 DEF FileState
      <4> QED
        BY <1>0, <3>1, <4>1 DEF WriterState, Steps
    <3>2. CASE ~Present(Block)
      BY <3>2, Quiet
    <3> QED
      BY <3>1, <3>2
  <2>3. RequestOK(s) /\ FileComplete(s) /\ s.pc \notin Making
    BY <1>0, <1>4, <2>1, Names
       DEF Resting, WriterState, RequestOK, FileComplete, Making, Complete, Stream, At
  <2>4. s.temp = Missing /\ s.inode = Missing
    BY <1>0, <1>4 DEF Resting, WriterState, RequestOK, Making, Complete, Stream, At
  <2>5. Enter(w, s) /\ UNCHANGED <<world, files, inodes, others>> /\ folder' \in BOOLEAN
    BY <1>0, <1>4 DEF Stream, Finish, FsTypeOK
  <2> QED
    BY ONLY <2>2, <2>3, <2>4, <2>5, QuietStep, FilesInv, w \in Writer
<1> QED
  BY <1>1, <1>2, <1>3, <1>4

LEMMA MakingStep ==
  ASSUME FilesInv, NEW w \in Writer, NEW step \in {"write", "sync", "unreserve"}, NEW content,
         MakeTemp(w, step, content), UNCHANGED <<world, folder, others>>,
         IF step = "unreserve"
         THEN content = Missing /\ writers[w].target = Part
         ELSE /\ content = writers[w].of /\ writers[w].pc = "create"
              /\ step = "write" <=> writers[w].size # 0
  PROVE  FilesInv'
<1> USE DEF others, world
<1>0. /\ writers[w] \in WriterState /\ RequestOK(writers[w]) /\ FsTypeOK
      /\ writers \in [Writer -> WriterState]
  BY DEF FilesInv, FsTypeOK, RequestsOK
<1>1. CASE ~folder
  <2> DEFINE s == [Resting EXCEPT !.pc = "done"]
  <2>2. s \in WriterState /\ RequestOK(s)
    BY Quiet
  <2>3. FileComplete(s) /\ s.pc \notin Making /\ s.temp = Missing /\ s.inode = Missing
    BY DEF Resting, FileComplete, Making, Complete
  <2>5. Enter(w, s) /\ UNCHANGED <<world, files, inodes, others>> /\ folder' \in BOOLEAN
    BY <1>0, <1>1 DEF MakeTemp, Finish, FsTypeOK
  <2> QED
    BY ONLY <2>2, <2>3, <2>5, QuietStep, FilesInv, w \in Writer
<1>2. CASE folder
  <2> DEFINE temp == Some(FreshTemps)
             i == Some(FreeInodes)
             s == [writers[w] EXCEPT !.pc = step, !.temp = temp, !.inode = i]
             file == [Empty EXCEPT !.of = content]
  <2>1. /\ temp \in FreshTemps /\ i \in FreeInodes
        /\ files' = [files EXCEPT ![temp] = i] /\ inodes' = [inodes EXCEPT ![i] = file]
        /\ writers' = [writers EXCEPT ![w] = s]
    BY <1>2, SomeName DEF MakeTemp, Enter
  <2> HIDE DEF temp, i
  <2>2. temp \in Temp /\ i \in Inode /\ files[temp] = Missing /\ disk[temp] = Missing
    BY <2>1 DEF FreshTemps, FreeInodes, Present
  <2>3. file \in FileState /\ file.of = content /\ file.written = 0
    <3>1. content \in Content \cup {Missing}
      BY <1>0 DEF WriterState
    <3>2. Empty \in FileState /\ Empty.written = 0
      BY Quiet DEF Empty
    <3> QED
      BY <3>1, <3>2, Names DEF FileState
  <2>4. s \in WriterState
    BY <1>0, <2>2 DEF WriterState, Steps
  <2>5. /\ s.pc = step /\ s.temp = temp /\ s.inode = i /\ s.of = writers[w].of
        /\ s.size = writers[w].size /\ s.target = writers[w].target
    BY <1>0 DEF WriterState
  <2>6. RequestOK(s)
    BY <1>0, <2>2, <2>5, Names DEF RequestOK, Making, Complete
  <2>7. files' \in Directory /\ inodes' \in [Inode -> FileState]
    BY <1>0, <2>1, <2>2, <2>3, Names DEF FsTypeOK, Directory
  <2>8. TempOwned(w)'
    BY <1>0, <2>1, <2>2, <2>5, Names DEF TempOwned, FreshTemps, FsTypeOK, Directory
  <2>9. FileOwned(w)'
    BY <1>0, <2>1, <2>2, <2>5, Names DEF FileOwned, FreeInodes, FsTypeOK, Directory, Object, Path
  <2>10. (FileComplete(writers[w]))'
    <3>1. inodes'[i] = file /\ writers'[w] = s
      BY <1>0, <2>1, <2>2 DEF FsTypeOK
    <3>2. step \in {"write", "sync"} => file.of = s.of
      BY <2>3, <2>5
    <3>3. step = "write" => file.written < s.size
      BY <1>0, <2>3, <2>5 DEF WriterState
    <3>4. step = "sync" => file.written = s.size
      BY <1>0, <2>3, <2>5 DEF WriterState
    <3>5. s.pc = step /\ s.inode = i
      BY <2>5
    <3> HIDE DEF s, file
    <3> QED
      BY <3>1, <3>2, <3>3, <3>4, <3>5 DEF FileComplete, Complete
  <2>11. OwnKept(w)'
    BY <2>8, <2>9, <2>10 DEF OwnKept
  <2>12. /\ \A n \in Path : \/ files'[n] \in {files[n], Missing}
                            \/ n = s.temp /\ files'[n] = s.inode
         /\ \A j \in Inode : inodes'[j] = inodes[j] \/ j \in FreeInodes
    BY <1>0, <2>1, <2>2, <2>5, Names DEF FsTypeOK, Directory
  <2>13. folder' \in BOOLEAN /\ broken' \in Nat
    BY <1>0 DEF FsTypeOK
  <2> QED
    BY ONLY <2>1, <2>4, <2>5, <2>6, <2>7, <2>11, <2>12, <2>13, RequestStep, FilesInv, w \in Writer,
            UNCHANGED <<world, folder, others>> DEF world
<1> QED
  BY <1>1, <1>2

LEMMA MakingRequests ==
  ASSUME FilesInv, NEW w \in Writer, CreateTemp(w) \/ Reserve(w)
  PROVE  FilesInv'
<1>0. writers[w] \in WriterState /\ RequestOK(writers[w])
  BY DEF FilesInv, FsTypeOK, RequestsOK
<1>1. CASE CreateTemp(w)
  <2>1. CASE writers[w].size = 0
    BY <1>1, <2>1, MakingStep DEF CreateTemp, At
  <2>2. CASE writers[w].size # 0
    BY <1>1, <2>2, MakingStep DEF CreateTemp, At
  <2> QED
    BY <2>1, <2>2
<1>2. CASE Reserve(w)
  <2>1. writers[w].target = Part
    BY <1>0, <1>2 DEF RequestOK, Reserve, At
  <2> QED
    BY <1>2, <2>1, MakingStep DEF Reserve
<1> QED
  BY <1>1, <1>2

LEMMA WritingRequests ==
  ASSUME FilesInv, NEW w \in Writer, Write(w) \/ SyncUpload(w)
  PROVE  FilesInv'
<1> USE DEF others, world
<1>0. /\ writers[w] \in WriterState /\ RequestOK(writers[w]) /\ FsTypeOK /\ FileOwned(w)
      /\ FileComplete(writers[w]) /\ TempOwned(w) /\ writers \in [Writer -> WriterState]
  BY DEF FilesInv, FsTypeOK, RequestsOK
<1> DEFINE i == writers[w].inode
<1>1. writers[w].pc \in Making /\ writers[w].temp \in Temp /\ i \in Inode /\ inodes[i] \in FileState
  BY <1>0, Names DEF Write, SyncUpload, At, RequestOK, Making, WriterState, FsTypeOK
<1>2. ASSUME NEW pc \in {"write", "sync", "rename"}, NEW file \in FileState,
             Enter(w, [writers[w] EXCEPT !.pc = pc]), inodes' = [inodes EXCEPT ![i] = file],
             UNCHANGED <<world, folder, files, others>>,
             file.of = inodes[i].of,
             pc = "write" => file.written < writers[w].size,
             pc # "write" => file.written = writers[w].size,
             pc = "rename" => (scenario.fsync => file.synced)
      PROVE  FilesInv'
  <2> DEFINE s == [writers[w] EXCEPT !.pc = pc]
  <2>1. s \in WriterState
    BY <1>0 DEF WriterState, Steps
  <2>2. /\ s.pc = pc /\ s.temp = writers[w].temp /\ s.inode = i /\ s.of = writers[w].of
        /\ s.size = writers[w].size /\ s.target = writers[w].target
    BY <1>0 DEF WriterState
  <2>3. /\ writers' = [writers EXCEPT ![w] = s] /\ writers'[w] = s
        /\ \A v \in Writer \ {w} : writers'[v] = writers[v]
    BY <1>0, <1>2 DEF Enter
  <2>4. inodes'[i] = file /\ \A j \in Inode \ {i} : inodes'[j] = inodes[j]
    BY <1>0, <1>1, <1>2 DEF FsTypeOK
  <2>5. RequestOK(s)
    BY <1>0, <1>1, <2>2 DEF RequestOK, Making, Complete, Write, SyncUpload, At
  <2>6. TempOwned(w)'
    BY <1>0, <1>2, <2>2, <2>3 DEF TempOwned
  <2>7. FileOwned(w)'
    BY <1>0, <1>1, <1>2, <2>2, <2>3 DEF FileOwned
  <2>8. (FileComplete(writers[w]))'
    <3>1. inodes[i].of = writers[w].of
      BY <1>0 DEF FileComplete, Write, SyncUpload, At
    <3> HIDE DEF s
    <3> QED
      BY <1>2, <2>2, <2>3, <2>4, <3>1 DEF FileComplete, Complete
  <2>9. OwnKept(w)'
    BY <2>6, <2>7, <2>8 DEF OwnKept
  <2>10. /\ files' \in Directory /\ inodes' \in [Inode -> FileState] /\ broken' \in Nat
         /\ folder' \in BOOLEAN /\ files' = files
    BY <1>0, <1>1, <1>2 DEF FsTypeOK
  <2> QED
    BY ONLY <1>1, <1>2, <2>1, <2>2, <2>3, <2>4, <2>5, <2>9, <2>10, RequestStep, FilesInv,
            w \in Writer DEF world
<1>3. CASE Write(w)
  <2> DEFINE written == inodes[i].written + 1
             file == [inodes[i] EXCEPT !.written = written, !.old = FALSE]
             pc == IF written = writers[w].size THEN "sync" ELSE "write"
  <2>1. inodes[i].written \in Nat /\ writers[w].size \in 0..Chunks
        /\ inodes[i].written < writers[w].size
    BY <1>0, <1>1, <1>3, Names DEF FileState, WriterState, FileComplete, Write, At
  <2>2. written \in 0..Chunks
    BY <2>1, Names
  <2>3. file \in FileState /\ file.of = inodes[i].of /\ file.written = written
    BY <1>1, <2>2 DEF FileState
  <2>4. pc = "write" => written < writers[w].size
    BY <2>1
  <2>5. Enter(w, [writers[w] EXCEPT !.pc = pc]) /\ inodes' = [inodes EXCEPT ![i] = file]
        /\ UNCHANGED <<world, folder, files, others>>
    BY <1>0, <1>1, <1>3 DEF Write, Go, FsTypeOK
  <2>6. pc # "write" => written = writers[w].size
    OBVIOUS
  <2>7. pc \in {"write", "sync", "rename"} /\ pc # "rename"
    OBVIOUS
  <2> HIDE DEF pc, file, written
  <2> QED
    BY <1>2, <2>3, <2>4, <2>5, <2>6, <2>7
<1>4. CASE SyncUpload(w)
  <2> DEFINE file == [inodes[i] EXCEPT !.synced = scenario.fsync]
  <2>1. scenario.fsync \in BOOLEAN
    BY <1>0, FilesystemAssumption DEF FsTypeOK, Platform
  <2>2. file \in FileState /\ file.of = inodes[i].of /\ file.written = inodes[i].written
        /\ file.synced = scenario.fsync
    BY <1>1, <2>1 DEF FileState
  <2>3. inodes[i].written = writers[w].size
    BY <1>0, <1>4 DEF FileComplete, SyncUpload, At
  <2>4. Enter(w, [writers[w] EXCEPT !.pc = "rename"]) /\ inodes' = [inodes EXCEPT ![i] = file]
        /\ UNCHANGED <<world, folder, files, others>>
    BY <1>0, <1>1, <1>4 DEF SyncUpload, Go, FsTypeOK
  <2> HIDE DEF file
  <2> QED
    BY <1>2, <2>2, <2>3, <2>4
<1> QED
  BY <1>3, <1>4

(* A step that moves or removes names and frees the inodes left without one. *)
LEMMA FreeingStep ==
  ASSUME FilesInv, NEW w \in Writer, NEW s \in WriterState, Enter(w, s), Contents(inodes),
         UNCHANGED <<scenario, session, disk, folder, others>>, broken' \in Nat,
         files' \in Directory, RequestOK(s), s.pc \notin Making \cup {"write", "sync"},
         s.temp \in {Missing, writers[w].temp}, s.inode \in {Missing, writers[w].inode},
         s.temp # Missing => files'[s.temp] \in {Missing, s.inode},
         s.pc \in Complete => /\ writers[w].pc \in Complete /\ s.inode = writers[w].inode
                              /\ s.of = writers[w].of /\ s.size = writers[w].size,
         \A n \in Path : \/ files'[n] \in {files[n], Missing}
                         \/ n \in Object /\ writers[w].pc \in Complete
                              /\ files'[n] = writers[w].inode
  PROVE  FilesInv'
<1> USE DEF others
<1>0. /\ writers[w] \in WriterState /\ RequestOK(writers[w]) /\ FsTypeOK /\ TempOwned(w)
      /\ FileComplete(writers[w]) /\ writers \in [Writer -> WriterState]
  BY DEF FilesInv, FsTypeOK, RequestsOK
<1>1. /\ writers' = [writers EXCEPT ![w] = s] /\ writers'[w] = s
      /\ \A v \in Writer \ {w} : writers'[v] = writers[v]
  BY <1>0 DEF Enter
<1>2. /\ inodes' \in [Inode -> FileState]
      /\ \A i \in Inode : i \in FreeInodes' \/ inodes'[i] = inodes[i]
  BY <1>0, OnlyFreed
<1>3. TempOwned(w)'
  BY <1>0, <1>1 DEF TempOwned
<1>4. FileOwned(w)'
  BY <1>1 DEF FileOwned
<1>5. (FileComplete(writers[w]))'
  <2>1. CASE s.pc \in Complete
    <3>1. s.inode \in Inode
      BY <1>0, <2>1, Names DEF RequestOK, WriterState, Complete
    <3>2. s.inode \notin FreeInodes'
      BY <1>1 DEF FreeInodes
    <3>3. inodes'[s.inode] = inodes[s.inode]
      BY <1>2, <3>1, <3>2
    <3> QED
      BY <1>0, <1>1, <2>1, <3>3 DEF FileComplete, Complete
  <2>2. CASE s.pc \notin Complete
    BY <1>1, <2>2 DEF FileComplete, Making
  <2> QED
    BY <2>1, <2>2
<1>6. OwnKept(w)'
  BY <1>3, <1>4, <1>5 DEF OwnKept
<1>7. folder' \in BOOLEAN /\ s.pc \notin Making
  BY <1>0 DEF FsTypeOK
<1> QED
  BY <1>1, <1>2, <1>6, <1>7, RequestStep

LEMMA RenameStep ==
  ASSUME FilesInv, NEW w \in Writer, writers[w].pc \in Complete, Rename(w), Contents(inodes),
         UNCHANGED <<world, folder, others>>
  PROVE  FilesInv'
<1> USE DEF others, world
<1>0. /\ writers[w] \in WriterState /\ RequestOK(writers[w]) /\ FsTypeOK /\ TempOwned(w)
  BY DEF FilesInv, FsTypeOK, RequestsOK
<1>1. /\ writers[w].temp \in Temp /\ writers[w].target \in Object /\ broken' \in Nat
      /\ files \in Directory
  BY <1>0, Names DEF RequestOK, WriterState, Complete, FsTypeOK
<1>2. CASE files[writers[w].temp] = Missing
  <2> DEFINE s == [writers[w] EXCEPT !.pc = "undo"]
  <2>1. s \in WriterState
    BY <1>0 DEF WriterState, Steps
  <2>2. s.pc = "undo" /\ s.temp = writers[w].temp /\ s.inode = writers[w].inode
    BY <1>0 DEF WriterState
  <2>3. RequestOK(s)
    BY <1>0, <2>2 DEF RequestOK, Making, Complete
  <2>4. Enter(w, s) /\ files' = files
    BY <1>2 DEF Rename, Go
  <2>5. "undo" \notin Making \cup {"write", "sync"} /\ "undo" \notin Complete
    BY DEF Making, Complete
  <2> HIDE DEF s
  <2> QED
    BY <1>1, <1>2, <2>1, <2>2, <2>3, <2>4, <2>5, FreeingStep
<1>3. CASE files[writers[w].temp] # Missing
  <2> DEFINE s == [Resting EXCEPT !.pc = "done"]
  <2>1. s \in WriterState /\ RequestOK(s)
    BY Quiet
  <2>2. s.pc = "done" /\ s.temp = Missing /\ s.inode = Missing
    BY DEF Resting
  <2>3. Enter(w, s)
    BY <1>3 DEF Rename, Finish
  <2>4. files[writers[w].temp] = writers[w].inode /\ writers[w].inode \in Inode
    BY <1>0, <1>1, <1>3, Names DEF TempOwned, WriterState
  <2>5. files' = files
        \/ files' = [files EXCEPT ![writers[w].temp] = Missing,
                                  ![writers[w].target] = writers[w].inode]
    BY <1>3, <2>4 DEF Rename
  <2>6. /\ files' \in Directory
        /\ \A n \in Path : \/ files'[n] \in {files[n], Missing}
                           \/ n \in Object /\ files'[n] = writers[w].inode
    BY <1>1, <2>4, <2>5, Names DEF Directory
  <2>7. "done" \notin Making \cup {"write", "sync"} /\ "done" \notin Complete
    BY DEF Making, Complete
  <2> HIDE DEF s
  <2> QED
    BY <1>1, <2>1, <2>2, <2>3, <2>6, <2>7, FreeingStep
<1> QED
  BY <1>2, <1>3

LEMMA RenamingRequests ==
  ASSUME FilesInv, NEW w \in Writer, Commit(w) \/ Replace(w) \/ CommitAgain(w)
  PROVE  FilesInv'
<1> USE DEF others, world
<1>0. /\ writers[w] \in WriterState /\ RequestOK(writers[w]) /\ FsTypeOK /\ TempOwned(w)
  BY DEF FilesInv, FsTypeOK, RequestsOK
<1>1. writers[w].pc \in Complete
  BY DEF Commit, Replace, CommitAgain, At, Complete
<1>2. /\ writers[w].temp \in Temp /\ writers[w].target \in Object /\ files \in Directory
  BY <1>0, <1>1, Names DEF RequestOK, WriterState, Complete, FsTypeOK
<1>3. ASSUME NEW pc \in {"replace", "again", "undo"}, Go(w, pc), Contents(inodes),
             UNCHANGED <<world, folder, others>>, files' \in {files, Unlinked(writers[w].target)},
             pc # "undo" => ~scenario.replaces
      PROVE  FilesInv'
  <2> DEFINE s == [writers[w] EXCEPT !.pc = pc]
  <2>1. s \in WriterState
    BY <1>0 DEF WriterState, Steps
  <2>2. s.pc = pc /\ s.temp = writers[w].temp /\ s.inode = writers[w].inode
        /\ s.of = writers[w].of /\ s.size = writers[w].size /\ s.target = writers[w].target
    BY <1>0 DEF WriterState
  <2>3. RequestOK(s)
    BY <1>0, <1>1, <1>3, <2>2 DEF RequestOK, Making, Complete
  <2>4. Enter(w, s)
    BY <1>3 DEF Go
  <2>5. files' \in Directory /\ \A n \in Path : files'[n] \in {files[n], Missing}
    BY <1>2, <1>3 DEF Directory, Unlinked
  <2>6. files'[s.temp] \in {Missing, s.inode}
    BY <1>0, <1>2, <2>2, <2>5, Names DEF TempOwned
  <2>7. pc \notin Making \cup {"write", "sync"} /\ broken' \in Nat
    BY <1>0, <1>3 DEF Making, FsTypeOK
  <2> HIDE DEF s
  <2> QED
    BY <1>1, <1>3, <2>1, <2>2, <2>3, <2>4, <2>5, <2>6, <2>7, FreeingStep
<1>4. CASE Commit(w)
  <2>1. CASE Present(writers[w].temp) /\ Present(writers[w].target) /\ ~scenario.replaces
    BY <1>3, <1>4, <2>1 DEF Commit
  <2>2. CASE ~(Present(writers[w].temp) /\ Present(writers[w].target) /\ ~scenario.replaces)
    BY <1>1, <1>4, <2>2, RenameStep DEF Commit
  <2> QED
    BY <2>1, <2>2
<1>5. CASE Replace(w)
  <2>1. ~scenario.replaces
    BY <1>0, <1>5 DEF RequestOK, Replace, At
  <2> QED
    BY <1>3, <1>5, <2>1 DEF Replace
<1>6. CASE CommitAgain(w)
  <2>1. CASE Present(writers[w].target)
    BY <1>3, <1>6, <2>1 DEF CommitAgain
  <2>2. CASE ~Present(writers[w].target)
    BY <1>1, <1>6, <2>2, RenameStep DEF CommitAgain
  <2> QED
    BY <2>1, <2>2
<1> QED
  BY <1>4, <1>5, <1>6

LEMMA LinkingRequests ==
  ASSUME FilesInv, NEW w \in Writer, RemoveTemp(w) \/ Unreserve(w) \/ Link(w)
  PROVE  FilesInv'
<1> USE DEF others, world
<1>0. /\ writers[w] \in WriterState /\ RequestOK(writers[w]) /\ FsTypeOK /\ TempOwned(w)
      /\ writers \in [Writer -> WriterState] /\ files \in Directory /\ ObjectsWhole
  BY DEF FilesInv, FsTypeOK, RequestsOK
<1>1. writers[w].temp \in Temp
  BY <1>0, Names DEF RequestOK, WriterState, Making, RemoveTemp, Unreserve, Link, At
<1>2. ASSUME NEW s \in {[Resting EXCEPT !.pc = "done"]}, Enter(w, s), Contents(inodes),
             UNCHANGED <<scenario, session, disk, folder, others>>, broken' \in Nat,
             files' \in {files, Unlinked(writers[w].temp)}
      PROVE  FilesInv'
  <2>1. s \in WriterState /\ RequestOK(s)
    BY Quiet
  <2>2. s.pc = "done" /\ s.temp = Missing /\ s.inode = Missing
    BY DEF Resting
  <2>3. files' \in Directory /\ \A n \in Path : files'[n] \in {files[n], Missing}
    BY <1>0, <1>1, <1>2 DEF Directory, Unlinked
  <2>4. "done" \notin Making \cup {"write", "sync"} /\ "done" \notin Complete
    BY DEF Making, Complete
  <2> QED
    BY <1>2, <2>1, <2>2, <2>3, <2>4, FreeingStep
<1>3. CASE RemoveTemp(w)
  <2>1. broken' \in Nat
    BY <1>0, <1>3 DEF RemoveTemp, RemoveFile, Broken, FsTypeOK
  <2> QED
    BY <1>2, <1>3, <2>1 DEF RemoveTemp, RemoveFile, Finish
<1>4. CASE Unreserve(w)
  <2>0. broken' \in Nat
    BY <1>0, <1>4 DEF Unreserve, FsTypeOK
  <2>1. CASE Present(writers[w].temp)
    <3> DEFINE s == [writers[w] EXCEPT !.pc = "link", !.inode = Missing]
    <3>1. s \in WriterState
      BY <1>0 DEF WriterState, Steps
    <3>2. s.pc = "link" /\ s.temp = writers[w].temp /\ s.inode = Missing
          /\ s.of = writers[w].of /\ s.size = writers[w].size /\ s.target = writers[w].target
      BY <1>0 DEF WriterState
    <3>3. RequestOK(s)
      BY <1>0, <1>1, <1>4, <3>2, Names DEF RequestOK, Making, Complete, Unreserve, At
    <3>4. /\ files' \in Directory /\ files'[s.temp] = Missing
          /\ \A n \in Path : files'[n] \in {files[n], Missing}
      BY <1>0, <1>1, <1>4, <3>2, Names DEF Directory, Unlinked, Unreserve
    <3>5. "link" \notin Making \cup {"write", "sync"} /\ "link" \notin Complete
      BY DEF Making, Complete
    <3>6. Enter(w, s)
      BY <1>4, <2>1 DEF Unreserve
    <3> HIDE DEF s
    <3> QED
      BY <1>4, <2>0, <3>1, <3>2, <3>3, <3>4, <3>5, <3>6, FreeingStep DEF Unreserve
  <2>2. CASE ~Present(writers[w].temp)
    BY <1>2, <1>4, <2>0, <2>2 DEF Unreserve, Finish
  <2> QED
    BY <2>1, <2>2
<1>5. CASE Link(w)
  <2>1. CASE scenario.links /\ Present(Block)
    <3> DEFINE i == files[Block]
               s == [writers[w] EXCEPT !.pc = "rename", !.inode = i, !.of = inodes[i].of,
                                       !.size = inodes[i].written]
    <3>1. /\ i \in Inode /\ inodes[i] \in FileState /\ inodes[i].of # Missing
          /\ scenario.fsync => inodes[i].written = Chunks /\ inodes[i].synced
      BY <1>0, <2>1, Names DEF FsTypeOK, Directory, ObjectsWhole, ObjectWhole, Present
    <3>2. files' = [files EXCEPT ![writers[w].temp] = i] /\ Enter(w, s)
          /\ UNCHANGED <<world, folder, inodes, others>>
      BY <1>5, <2>1 DEF Link
    <3> HIDE DEF i
    <3>3. s \in WriterState
      BY <1>0, <3>1 DEF WriterState, FileState, Steps
    <3>4. s.pc = "rename" /\ s.temp = writers[w].temp /\ s.inode = i
          /\ s.of = inodes[i].of /\ s.size = inodes[i].written /\ s.target = writers[w].target
      BY <1>0 DEF WriterState
    <3>5. RequestOK(s)
      BY <1>0, <1>1, <1>5, <3>1, <3>4, Names DEF RequestOK, Making, Complete, Link, At
    <3> HIDE DEF s
    <3>6. /\ writers' = [writers EXCEPT ![w] = s] /\ writers'[w] = s
          /\ \A v \in Writer \ {w} : writers'[v] = writers[v]
      BY <1>0, <3>2 DEF Enter
    <3>7. TempOwned(w)'
      BY <1>0, <1>1, <3>2, <3>4, <3>6, Names DEF TempOwned, Directory
    <3>8. FileOwned(w)' /\ (FileComplete(writers[w]))'
      BY <3>1, <3>2, <3>4, <3>6 DEF FileOwned, FileComplete, Making, Complete
    <3>9. OwnKept(w)'
      BY <3>7, <3>8 DEF OwnKept
    <3>10. /\ files' \in Directory /\ inodes' \in [Inode -> FileState] /\ inodes' = inodes
           /\ folder' \in BOOLEAN /\ broken' \in Nat
           /\ \A n \in Path : \/ files'[n] = files[n]
                              \/ n = s.temp /\ files'[n] = s.inode
      BY <1>0, <1>1, <3>1, <3>2, <3>4, Names DEF Directory, FsTypeOK
    <3>11. s.pc \notin Making /\ s.inode = files[Block]
      BY <3>4 DEF Making, i
    <3> QED
      BY ONLY <3>2, <3>3, <3>4, <3>5, <3>6, <3>9, <3>10, <3>11, RequestStep, FilesInv,
              w \in Writer DEF world
  <2>2. CASE ~(scenario.links /\ Present(Block))
    <3> DEFINE s == [Resting EXCEPT !.pc = "open", !.target = Part]
    <3>1. s \in WriterState
      BY Quiet, Names DEF WriterState, Steps
    <3>2. RequestOK(s) /\ FileComplete(s) /\ s.pc \notin Making
      BY Names DEF Resting, RequestOK, FileComplete, Making, Complete
    <3>3. s.temp = Missing /\ s.inode = Missing
      BY DEF Resting
    <3>4. Enter(w, s) /\ UNCHANGED <<world, files, inodes, others>> /\ folder' \in BOOLEAN
      BY <1>0, <1>5, <2>2 DEF Link, FsTypeOK
    <3> QED
      BY ONLY <3>1, <3>2, <3>3, <3>4, QuietStep, FilesInv, w \in Writer
  <2> QED
    BY <2>1, <2>2
<1> QED
  BY <1>3, <1>4, <1>5

LEMMA Requests ==
  ASSUME FilesInv, NEW w \in Writer, Request(w) \/ Fail(w) \/ Copy(w) \/ Upload(w)
  PROVE  FilesInv'
BY QuietRequests, MakingRequests, WritingRequests, RenamingRequests, LinkingRequests
   DEF Request

-----------------------------------------------------------------------------
(* The processes beside the requests, and the world.                         *)

LEMMA ReaderStep ==
  ASSUME FilesInv, Read \/ \E n \in Object, ranged \in BOOLEAN : Open(n, ranged)
  PROVE  FilesInv'
<1> USE DEF world
<1>0. /\ FsTypeOK /\ reader \in ReaderState /\ files \in Directory
      /\ inodes \in [Inode -> FileState] /\ writers \in [Writer -> WriterState]
      /\ ReaderOK /\ RequestsOK /\ ObjectsWhole /\ ListingsOK
  BY DEF FilesInv, FsTypeOK
<1>1. UNCHANGED <<world, folder, files, inodes, writers, remover, cleaner>>
  BY DEF Read, Open
<1>2. CASE Read
  <2> DEFINE f == inodes[reader.inode]
             more == reader.got < f.written
             got == IF more THEN reader.got + 1 ELSE reader.got
  <2>1. /\ reader.inode \in Inode /\ f \in FileState /\ reader.got \in 0..Chunks
        /\ reader.got <= f.written /\ f.written \in 0..Chunks /\ reader.ranged \in BOOLEAN
        /\ scenario.fsync => f.written = Chunks
    BY <1>0, <1>2, Names DEF ReaderOK, ReaderState, Read, NotReading, FileState
  <2>2. got \in 0..Chunks /\ got <= f.written /\ (~more => got = f.written)
    BY <2>1, Names
  <2> HIDE DEF f, got, more
  <2>3. reader' = [reader EXCEPT !.got = got, !.pc = Outcome(got, ~more)]
    BY <1>2 DEF Read, got, more, f
  <2>4. Outcome(got, ~more) \in {"read", "eof", "unexpected"}
    BY DEF Outcome
  <2>5. reader' \in ReaderState
    BY <1>0, <2>2, <2>3, <2>4 DEF ReaderState
  <2>6. /\ reader'.inode = reader.inode /\ reader'.ranged = reader.ranged
        /\ reader'.got = got /\ reader'.pc = Outcome(got, ~more)
    BY <1>0, <2>3 DEF ReaderState
  <2>7. Outcome(got, ~more) = "eof" /\ (reader.ranged \/ scenario.fsync) => got = Chunks
    BY <2>1, <2>2, Names DEF Outcome
  <2>8. ReaderOK'
    BY <1>1, <2>1, <2>2, <2>4, <2>6, <2>7, Names DEF ReaderOK, f
  <2>9. RequestsOK'
    BY <1>0, <1>1, <2>6 DEF RequestsOK, RequestOK, TempOwned, FileOwned, FileComplete
  <2> QED
    BY <1>0, <1>1, <2>5, <2>8, <2>9
       DEF FilesInv, FsTypeOK, ObjectsWhole, ObjectWhole, ListingsOK
<1>3. ASSUME NEW n \in Object, NEW ranged \in BOOLEAN, Open(n, ranged)
      PROVE  FilesInv'
  <2>1. /\ files[n] \in Inode /\ inodes[files[n]] \in FileState /\ n \in Path
        /\ scenario.fsync => inodes[files[n]].written = Chunks
    BY <1>0, <1>3, Names DEF Open, Present, Directory, ObjectsWhole, ObjectWhole
  <2>2. reader' = [pc |-> "read", inode |-> files[n], ranged |-> ranged, got |-> 0]
    BY <1>3 DEF Open
  <2>3. reader' \in ReaderState /\ reader'.inode = files[n] /\ reader'.pc = "read"
        /\ reader'.got = 0
    BY <2>1, <2>2, Names DEF ReaderState
  <2>4. ReaderOK'
    BY <1>1, <2>1, <2>3, Names DEF ReaderOK, FileState
  <2>5. RequestsOK'
    <3> SUFFICES ASSUME NEW w \in Writer
                 PROVE  (/\ RequestOK(writers[w]) /\ TempOwned(w)
                         /\ FileOwned(w) /\ FileComplete(writers[w]))'
      BY DEF RequestsOK
    <3>1. /\ RequestOK(writers[w]) /\ TempOwned(w) /\ FileOwned(w) /\ FileComplete(writers[w])
          /\ writers[w] \in WriterState
      BY <1>0 DEF RequestsOK
    <3>2. n # writers[w].temp
      BY <3>1, Names DEF WriterState
    <3>3. FileOwned(w)'
      BY <1>1, <2>1, <2>3, <3>1, <3>2 DEF FileOwned
    <3> QED
      BY <1>1, <3>1, <3>3 DEF RequestOK, TempOwned, FileComplete
  <2> QED
    BY <1>0, <1>1, <2>3, <2>4, <2>5
       DEF FilesInv, FsTypeOK, ObjectsWhole, ObjectWhole, ListingsOK
<1> QED
  BY <1>2, <1>3

(* Names go away, inodes are freed and get older; nothing else happens.      *)
LEMMA UnlinkingStep ==
  ASSUME FilesInv, UNCHANGED <<scenario, disk, writers, reader>>,
         session' \in {"active", "kept", "dropped"}, folder' \in BOOLEAN, broken' \in Nat,
         files' \in Directory, \A n \in Path : files'[n] \in {files[n], Missing},
         inodes' \in [Inode -> FileState],
         \A i \in Inode : \/ i \in FreeInodes'
                          \/ /\ inodes'[i].of = inodes[i].of
                             /\ inodes'[i].written = inodes[i].written
                             /\ inodes'[i].synced = inodes[i].synced,
         remover' \in ListingState({"unlink"}), cleaner' \in ListingState({"walk", "clean"}),
         ListingsOK'
  PROVE  FilesInv'
<1>0. /\ FsTypeOK /\ reader \in ReaderState /\ files \in Directory /\ disk \in Directory
      /\ writers \in [Writer -> WriterState] /\ ReaderOK /\ RequestsOK /\ ObjectsWhole
  BY DEF FilesInv, FsTypeOK
<1>1. FsTypeOK'
  BY <1>0 DEF FsTypeOK
<1>2. ASSUME NEW i \in Inode,
             \/ \E n \in Path : files'[n] = i \/ disk[n] = i
             \/ reader.inode = i
             \/ \E w \in Writer : writers[w].inode = i
      PROVE  /\ inodes'[i].of = inodes[i].of /\ inodes'[i].written = inodes[i].written
             /\ inodes'[i].synced = inodes[i].synced
  BY <1>2 DEF FreeInodes
<1>3. RequestsOK'
  <2> SUFFICES ASSUME NEW w \in Writer
               PROVE  (/\ RequestOK(writers[w]) /\ TempOwned(w)
                       /\ FileOwned(w) /\ FileComplete(writers[w]))'
    BY DEF RequestsOK
  <2>1. /\ RequestOK(writers[w]) /\ TempOwned(w) /\ FileOwned(w) /\ FileComplete(writers[w])
        /\ writers[w] \in WriterState
    BY <1>0 DEF RequestsOK
  <2>2. RequestOK(writers[w])' /\ TempOwned(w)'
    BY <2>1, Names DEF RequestOK, TempOwned, WriterState
  <2>3. FileOwned(w)'
    BY <2>1, Names DEF FileOwned, RequestOK, Making
  <2>4. FileComplete(writers[w])'
    <3> SUFFICES ASSUME writers[w].pc \in {"write", "sync"} \cup Complete
                 PROVE  FileComplete(writers[w])'
      BY DEF FileComplete, Complete
    <3>1. writers[w].inode \in Inode
      BY <2>1, Names DEF RequestOK, WriterState, Making, Complete
    <3> QED
      BY <1>2, <2>1, <3>1 DEF FileComplete
  <2> QED
    BY <2>2, <2>3, <2>4
<1>4. ObjectsWhole'
  <2> SUFFICES ASSUME NEW n \in Object PROVE ObjectWhole(files[n])' /\ ObjectWhole(disk[n])'
    BY DEF ObjectsWhole
  <2>1. n \in Path /\ ObjectWhole(files[n]) /\ ObjectWhole(disk[n])
        /\ files[n] \in Inode \cup {Missing} /\ disk[n] \in Inode \cup {Missing}
    BY <1>0, Names DEF ObjectsWhole, Directory
  <2> QED
    BY <1>2, <2>1 DEF ObjectWhole
<1>5. ReaderOK'
  BY <1>0, <1>2 DEF ReaderOK, ReaderState
<1> QED
  BY <1>1, <1>3, <1>4, <1>5 DEF FilesInv

LEMMA Listings ==
  ASSUME FilesInv, Removal \/ Cleanup \/ EndSession \/ Age
  PROVE  FilesInv'
<1> USE DEF world, processes
<1>0. /\ FsTypeOK /\ files \in Directory /\ inodes \in [Inode -> FileState] /\ ListingsOK
      /\ remover \in ListingState({"unlink"}) /\ cleaner \in ListingState({"walk", "clean"})
      /\ session \in {"active", "kept", "dropped"} /\ folder \in BOOLEAN /\ broken \in Nat
  BY DEF FilesInv, FsTypeOK
<1>1. ASSUME UNCHANGED <<scenario, disk, broken, folder, files, inodes, writers, reader>>,
             session' \in {"active", "kept", "dropped"},
             remover' \in ListingState({"unlink"}), cleaner' \in ListingState({"walk", "clean"}),
             ListingsOK'
      PROVE  FilesInv'
  <2>1. files' = files /\ inodes' = inodes
    BY <1>1
  <2> QED
    BY <1>0, <1>1, <2>1, UnlinkingStep
<1>2. ASSUME NEW name \in Path, files' \in {files, Unlinked(name)}, Contents(inodes),
             UNCHANGED <<scenario, session, disk, folder, writers, reader>>, broken' \in Nat,
             remover' \in ListingState({"unlink"}), cleaner' \in ListingState({"walk", "clean"}),
             ListingsOK'
      PROVE  FilesInv'
  <2>1. files' \in Directory /\ \A n \in Path : files'[n] \in {files[n], Missing}
    BY <1>0, <1>2 DEF Directory, Unlinked
  <2>2. /\ inodes' \in [Inode -> FileState]
        /\ \A i \in Inode : i \in FreeInodes' \/ inodes'[i] = inodes[i]
    BY <1>0, <1>2, OnlyFreed
  <2> QED
    BY <1>0, <1>2, <2>1, <2>2, UnlinkingStep
<1>3. CASE StartRemoval
  <2>1. remover' \in ListingState({"unlink"}) /\ remover'.pc = "unlink"
    BY <1>3, Quiet DEF StartRemoval, ListingState, NotListing
  <2>2. ListingsOK'
    BY <1>0, <1>3 DEF StartRemoval, ListingsOK
  <2> QED
    BY <1>0, <1>1, <1>3, <2>1, <2>2 DEF StartRemoval
<1>4. CASE RemoveFolder
  <2>1. ListingsOK' /\ remover' \in ListingState({"unlink"})
    BY <1>0, <1>4, Quiet DEF RemoveFolder, ListingsOK, NotListing
  <2>2. folder' \in BOOLEAN /\ files' = files /\ inodes' = inodes
    BY <1>4 DEF RemoveFolder
  <2> QED
    BY <1>0, <1>4, <2>1, <2>2, UnlinkingStep DEF RemoveFolder
<1>5. ASSUME NEW name \in Path, Unlink(name) PROVE FilesInv'
  <2>1. remover' \in ListingState({"unlink"}) /\ remover'.pc = remover.pc
    BY <1>0, <1>5 DEF Unlink, ListingState
  <2>2. ListingsOK'
    BY <1>0, <1>5, <2>1 DEF Unlink, ListingsOK
  <2>3. broken' \in Nat
    BY <1>0, <1>5 DEF Unlink
  <2> QED
    BY <1>0, <1>2, <1>5, <2>1, <2>2, <2>3 DEF Unlink
<1>6. CASE StartWalk
  <2>1. cleaner' \in ListingState({"walk", "clean"}) /\ cleaner'.pc = "walk"
    BY <1>6, Quiet DEF StartWalk, ListingState, NotListing
  <2>2. ListingsOK'
    BY <1>0, <1>6, <2>1 DEF StartWalk, ListingsOK
  <2> QED
    BY <1>0, <1>1, <1>6, <2>1, <2>2 DEF StartWalk
<1>7. ASSUME NEW name \in Path, Visit(name) PROVE FilesInv'
  <2>1. cleaner' \in ListingState({"walk", "clean"}) /\ cleaner'.pc = cleaner.pc
    BY <1>0, <1>7 DEF Visit, ListingState
  <2>2. ListingsOK'
    BY <1>0, <1>7, <2>1 DEF Visit, ListingsOK
  <2> QED
    BY <1>0, <1>1, <1>7, <2>1, <2>2 DEF Visit
<1>8. CASE QueryUploads
  <2>1. Deletable \subseteq Temp /\ (session = "active" => Deletable = {})
        /\ Temp \subseteq Path
    BY <1>0, Names DEF Deletable, ListingState
  <2>2. cleaner' = [NotListing EXCEPT !.pc = "clean", !.todo = Deletable]
    BY <1>8 DEF QueryUploads
  <2>3. cleaner' \in ListingState({"walk", "clean"}) /\ cleaner'.pc = "clean"
        /\ cleaner'.todo = Deletable
    BY <2>1, <2>2, Quiet DEF ListingState
  <2>4. ListingsOK'
    BY <1>0, <1>8, <2>1, <2>3 DEF QueryUploads, ListingsOK
  <2> QED
    BY <1>0, <1>1, <1>8, <2>3, <2>4 DEF QueryUploads
<1>9. ASSUME NEW name \in Path, Clean(name) PROVE FilesInv'
  <2>1. cleaner' \in ListingState({"walk", "clean"}) /\ cleaner'.pc = cleaner.pc
        /\ cleaner'.todo = cleaner.todo \ {name}
    BY <1>0, <1>9 DEF Clean, ListingState
  <2>2. ListingsOK'
    BY <1>0, <1>9, <2>1 DEF Clean, ListingsOK
  <2>3. broken' \in Nat /\ files' \in {files, Unlinked(name)}
    BY <1>0, <1>9 DEF Clean, RemoveFile, Broken
  <2> QED
    BY <1>0, <1>2, <1>9, <2>1, <2>2, <2>3 DEF Clean
<1>10. CASE EndCleanup
  <2>1. ListingsOK' /\ cleaner' \in ListingState({"walk", "clean"})
    BY <1>0, <1>10, Quiet DEF EndCleanup, ListingsOK, NotListing
  <2> QED
    BY <1>0, <1>1, <1>10, <2>1 DEF EndCleanup
<1>11. CASE EndSession
  <2>1. ListingsOK' /\ session' \in {"active", "kept", "dropped"}
    BY <1>0, <1>11 DEF EndSession, ListingsOK
  <2> QED
    BY <1>0, <1>1, <1>11, <2>1 DEF EndSession
<1>12. CASE Age
  <2>1. ASSUME NEW i \in Inode
        PROVE  /\ inodes'[i] \in FileState /\ inodes'[i].of = inodes[i].of
               /\ inodes'[i].written = inodes[i].written /\ inodes'[i].synced = inodes[i].synced
    BY <1>0, <1>12 DEF Age, FileState
  <2>2. inodes' \in [Inode -> FileState] /\ files' = files
    BY <1>12, <2>1 DEF Age
  <2>3. ListingsOK'
    BY <1>0, <1>12 DEF Age, ListingsOK
  <2> QED
    BY <1>0, <1>12, <2>1, <2>2, <2>3, UnlinkingStep DEF Age
<1> QED
  BY <1>3, <1>4, <1>5, <1>6, <1>7, <1>8, <1>9, <1>10, <1>11, <1>12 DEF Removal, Cleanup

LEMMA Persists ==
  ASSUME FilesInv, Persist PROVE FilesInv'
<1> USE DEF processes
<1>0. /\ FsTypeOK /\ reader \in ReaderState /\ files \in Directory /\ disk \in Directory
      /\ writers \in [Writer -> WriterState] /\ ReaderOK /\ RequestsOK /\ ObjectsWhole /\ ListingsOK
  BY DEF FilesInv, FsTypeOK
<1>1. /\ disk' = files /\ UNCHANGED <<scenario, session, folder, files, processes, broken>>
      /\ inodes' \in [Inode -> FileState]
      /\ \A i \in Inode : i \in FreeInodes' \/ inodes'[i] = inodes[i]
  BY <1>0, OnlyFreed DEF Persist
<1>2. ASSUME NEW i \in Inode,
             \/ \E n \in Path : files[n] = i
             \/ reader.inode = i
             \/ \E w \in Writer : writers[w].inode = i
      PROVE  inodes'[i] = inodes[i]
  BY <1>1, <1>2 DEF FreeInodes
<1>3. FsTypeOK'
  BY <1>0, <1>1 DEF FsTypeOK
<1>4. RequestsOK'
  <2> SUFFICES ASSUME NEW w \in Writer
               PROVE  (/\ RequestOK(writers[w]) /\ TempOwned(w)
                       /\ FileOwned(w) /\ FileComplete(writers[w]))'
    BY DEF RequestsOK
  <2>1. /\ RequestOK(writers[w]) /\ TempOwned(w) /\ FileOwned(w) /\ FileComplete(writers[w])
        /\ writers[w] \in WriterState
    BY <1>0 DEF RequestsOK
  <2>2. RequestOK(writers[w])' /\ TempOwned(w)'
    BY <1>1, <2>1 DEF RequestOK, TempOwned
  <2>3. FileOwned(w)'
    BY <1>1, <2>1, Names DEF FileOwned, WriterState
  <2>4. FileComplete(writers[w])'
    <3> SUFFICES ASSUME writers[w].pc \in {"write", "sync"} \cup Complete
                 PROVE  FileComplete(writers[w])'
      BY <1>1 DEF FileComplete, Complete
    <3>1. writers[w].inode \in Inode
      BY <2>1, Names DEF RequestOK, WriterState, Making, Complete
    <3> QED
      BY <1>1, <1>2, <2>1, <3>1 DEF FileComplete
  <2> QED
    BY <2>2, <2>3, <2>4
<1>5. ObjectsWhole'
  <2> SUFFICES ASSUME NEW n \in Object PROVE ObjectWhole(files[n])' /\ ObjectWhole(disk[n])'
    BY DEF ObjectsWhole
  <2>1. n \in Path /\ ObjectWhole(files[n]) /\ files[n] \in Inode \cup {Missing}
    BY <1>0, Names DEF ObjectsWhole, Directory
  <2> QED
    BY <1>1, <1>2, <2>1 DEF ObjectWhole
<1>6. ReaderOK' /\ ListingsOK'
  BY <1>0, <1>1, <1>2 DEF ReaderOK, ReaderState, ListingsOK
<1> QED
  BY <1>3, <1>4, <1>5, <1>6 DEF FilesInv

LEMMA Restarts ==
  ASSUME FilesInv, Restart, folder' \in BOOLEAN, UNCHANGED disk, files' \in Directory,
         inodes' \in [Inode -> FileState], ObjectsWhole'
  PROVE  FilesInv'
<1>0. FsTypeOK /\ ListingsOK
  BY DEF FilesInv
<1>1. /\ UNCHANGED <<scenario, session>> /\ broken' \in Nat
      /\ reader' = NotReading /\ remover' = NotListing /\ cleaner' = NotListing
  BY <1>0 DEF Restart, Broken, FsTypeOK
<1>2. \A w \in Writer : writers'[w] = Resting \/ writers'[w] = [Resting EXCEPT !.pc = "done"]
  BY DEF Restart
<1>3. writers' \in [Writer -> WriterState]
  BY <1>2, Quiet DEF Restart
<1>4. FsTypeOK'
  BY <1>0, <1>1, <1>3, Quiet DEF FsTypeOK
<1>5. RequestsOK'
  <2> SUFFICES ASSUME NEW w \in Writer
               PROVE  (/\ RequestOK(writers[w]) /\ TempOwned(w)
                       /\ FileOwned(w) /\ FileComplete(writers[w]))'
    BY DEF RequestsOK
  <2>1. /\ writers'[w].temp = Missing /\ writers'[w].inode = Missing
        /\ writers'[w].pc \in {"idle", "done"}
    BY <1>2 DEF Resting
  <2>2. RequestOK(writers[w])'
    BY <2>1 DEF RequestOK, Making, Complete
  <2> QED
    BY <2>1, <2>2 DEF TempOwned, FileOwned, FileComplete, Making, Complete
<1>6. ReaderOK' /\ ListingsOK'
  BY <1>1 DEF ReaderOK, ListingsOK, NotReading, NotListing
<1> QED
  BY <1>4, <1>5, <1>6 DEF FilesInv

LEMMA Faults ==
  ASSUME FilesInv, Crash \/ LosePower PROVE FilesInv'
<1>0. /\ FsTypeOK /\ files \in Directory /\ disk \in Directory /\ inodes \in [Inode -> FileState]
      /\ ObjectsWhole /\ folder \in BOOLEAN
  BY DEF FilesInv, FsTypeOK
<1>1. CASE Crash
  <2>1. /\ UNCHANGED <<folder, files, disk>> /\ Restart /\ inodes' \in [Inode -> FileState]
        /\ \A i \in Inode : i \in FreeInodes' \/ inodes'[i] = inodes[i]
    BY <1>0, <1>1, OnlyFreed DEF Crash
  <2>2. ObjectsWhole'
    <3> SUFFICES ASSUME NEW n \in Object PROVE ObjectWhole(files[n])' /\ ObjectWhole(disk[n])'
      BY DEF ObjectsWhole
    <3>1. n \in Path /\ ObjectWhole(files[n]) /\ ObjectWhole(disk[n])
          /\ files[n] \in Inode \cup {Missing} /\ disk[n] \in Inode \cup {Missing}
      BY <1>0, Names DEF ObjectsWhole, Directory
    <3>2. files'[n] \notin FreeInodes' /\ disk'[n] \notin FreeInodes'
      BY <3>1 DEF FreeInodes
    <3>3. scenario' = scenario
      BY <2>1 DEF Restart
    <3> QED
      BY <2>1, <3>1, <3>2, <3>3 DEF ObjectWhole
  <2> QED
    BY <1>0, <2>1, <2>2, Restarts
<1>2. CASE LosePower
  <2>1. Restart /\ files' = disk /\ disk' = disk /\ folder' \in BOOLEAN /\ scenario' = scenario
    BY <1>0, <1>2 DEF LosePower, Restart
  <2>2. PICK lost \in SUBSET {i \in Inode : ~inodes[i].synced /\ inodes[i].written > 0} :
          Contents([i \in Inode |-> IF i \in lost THEN [inodes[i] EXCEPT !.written = @ - 1]
                                    ELSE inodes[i]])
    BY <1>2 DEF LosePower
  <2> DEFINE new == [i \in Inode |-> IF i \in lost THEN [inodes[i] EXCEPT !.written = @ - 1]
                                     ELSE inodes[i]]
  <2>3. ASSUME NEW i \in Inode
        PROVE  /\ new[i] \in FileState /\ new[i].of = inodes[i].of
               /\ inodes[i].synced => new[i] = inodes[i]
    <3>1. inodes[i] \in FileState
      BY <1>0
    <3>2. CASE i \in lost
      <4>1. inodes[i].written - 1 \in 0..Chunks /\ ~inodes[i].synced
        BY <2>2, <3>1, <3>2, Names DEF FileState
      <4> QED
        BY <3>1, <3>2, <4>1 DEF FileState
    <3>3. CASE i \notin lost
      BY <3>1, <3>3
    <3> QED
      BY <3>2, <3>3
  <2>4. new \in [Inode -> FileState] /\ Contents(new)
    BY <2>2, <2>3
  <2> HIDE DEF new
  <2>5. /\ inodes' \in [Inode -> FileState]
        /\ \A i \in Inode : i \in FreeInodes' \/ inodes'[i] = new[i]
    BY <2>4, ContentsKept
  <2>6. ObjectsWhole'
    <3> SUFFICES ASSUME NEW n \in Object PROVE ObjectWhole(files[n])' /\ ObjectWhole(disk[n])'
      BY DEF ObjectsWhole
    <3>1. n \in Path /\ ObjectWhole(disk[n]) /\ disk[n] \in Inode \cup {Missing}
      BY <1>0, Names DEF ObjectsWhole, Directory
    <3>2. disk[n] \notin FreeInodes'
      BY <2>1, <3>1 DEF FreeInodes
    <3> QED
      BY <2>1, <2>3, <2>5, <3>1, <3>2 DEF ObjectWhole
  <2> QED
    BY <1>0, <2>1, <2>5, <2>6, Restarts
<1> QED
  BY <1>1, <1>2

LEMMA FilesInit == FsInit => FilesInv
<1> SUFFICES ASSUME FsInit PROVE FilesInv
  OBVIOUS
<1>1. Some(Inode) \in Inode /\ Some(Content) \in Content
  BY SomeName, FilesystemAssumption
<1>2. /\ scenario \in Scenarios /\ session = "active" /\ folder = TRUE /\ disk = files
      /\ files = [n \in Path |-> IF n = Block THEN Some(Inode) ELSE Missing]
      /\ inodes = [i \in Inode |-> IF i = files[Block] THEN Whole(Some(Content)) ELSE Empty]
      /\ writers = [w \in Writer |-> Resting]
      /\ reader = NotReading /\ remover = NotListing /\ cleaner = NotListing /\ broken = 0
  BY DEF FsInit
<1>3. files[Block] = Some(Inode) /\ files[Part] = Missing /\ files \in Directory
  BY <1>1, <1>2, Names, FilesystemAssumption DEF Directory
<1>4. Whole(Some(Content)) \in FileState
  BY <1>1, Names DEF Whole, FileState
<1>5. inodes \in [Inode -> FileState] /\ inodes[files[Block]] = Whole(Some(Content))
  BY <1>1, <1>2, <1>3, <1>4, Quiet
<1>6. FsTypeOK
  BY <1>2, <1>3, <1>5, Quiet DEF FsTypeOK
<1>7. RequestsOK
  <2> SUFFICES ASSUME NEW w \in Writer
               PROVE  /\ RequestOK(writers[w]) /\ TempOwned(w)
                      /\ FileOwned(w) /\ FileComplete(writers[w])
    BY DEF RequestsOK
  <2>1. writers[w] = Resting
    BY <1>2
  <2>2. RequestOK(writers[w]) /\ writers[w].temp = Missing /\ writers[w].pc = "idle"
    BY <2>1, Quiet DEF Resting
  <2> QED
    BY <2>2 DEF TempOwned, FileOwned, FileComplete, Making, Complete
<1>8. ObjectsWhole
  <2>1. /\ inodes[files[Block]].of # Missing /\ inodes[files[Block]].written = Chunks
        /\ inodes[files[Block]].synced
    BY <1>1, <1>5, Names DEF Whole
  <2> QED
    BY <1>2, <1>3, <2>1 DEF ObjectsWhole, ObjectWhole, Object
<1>9. ListingsOK /\ ReaderOK
  BY <1>2 DEF ListingsOK, ReaderOK, NotListing, NotReading
<1> QED
  BY <1>6, <1>7, <1>8, <1>9 DEF FilesInv

LEMMA FilesStep == FilesInv /\ [FsNext]_fsVars => FilesInv'
<1> SUFFICES ASSUME FilesInv, [FsNext]_fsVars PROVE FilesInv'
  OBVIOUS
<1>1. CASE FsNext
  BY <1>1, Requests, ReaderStep, Listings, Persists, Faults DEF FsNext
<1>2. CASE UNCHANGED fsVars
  BY <1>2 DEF fsVars, FilesInv, FsTypeOK, RequestsOK, RequestOK, TempOwned, FileOwned,
              FileComplete, ObjectsWhole, ObjectWhole, ListingsOK, ReaderOK
<1> QED
  BY <1>1, <1>2

LEMMA DownloadWhole == FilesInv => DownloadsWhole
BY Names DEF FilesInv, FsTypeOK, ReaderOK, ReaderState, DownloadsWhole, FileState

-----------------------------------------------------------------------------
(* The filesystem adapter implements ObjectStore.                            *)

objectStoreVars ==
  <<Objects, Durable, Pending, session = "dropped", scenario.fsync, scenario.replaces>>
Setting == <<session, scenario>>

(* The content of a file that no request writes stays as long as something  *)
(* refers to the file.                                                       *)
InodesKept ==
  \A i \in Inode : \/ i \in FreeInodes \/ i \in FreeInodes'
                   \/ \E w \in Writer : writers[w].pc \in Making /\ i = writers[w].inode
                   \/ /\ inodes'[i].of = inodes[i].of
                      /\ inodes'[i].written = inodes[i].written

LEMMA ObjectsStep ==
  ASSUME FilesInv, InodesKept, NEW n \in Object, NEW i,
         i \in {files[n], disk[n]}, i \in {files'[n], disk'[n]}
  PROVE  ContentOf(i)' = ContentOf(i)
<1>1. /\ files \in Directory /\ disk \in Directory /\ RequestsOK
      /\ writers \in [Writer -> WriterState]
  BY DEF FilesInv, FsTypeOK
<1>2. n \in Path /\ i \in Inode \cup {Missing}
  BY <1>1, Names DEF Directory
<1>3. \A w \in Writer : writers[w].pc \in Making => i # writers[w].inode
  BY <1>1, <1>2, Names DEF RequestsOK, RequestOK, FileOwned, WriterState
<1>4. i \notin FreeInodes /\ i \notin FreeInodes'
  BY <1>2 DEF FreeInodes
<1> QED
  BY <1>2, <1>3, <1>4 DEF ContentOf, InodesKept

LEMMA ObjectsKept ==
  ASSUME FilesInv, InodesKept, disk' = disk, \A n \in Object : files'[n] = files[n]
  PROVE  Objects' = Objects /\ Durable' = Durable
<1>1. ASSUME NEW n \in Object
      PROVE  /\ ContentOf(files[n])' = ContentOf(files[n])
             /\ ContentOf(disk[n])' = ContentOf(disk[n])
  BY ObjectsStep
<1> QED
  BY <1>1 DEF Objects, Durable

LEMMA ObjectsChange ==
  ASSUME FilesInv, InodesKept, disk' = disk, NEW name \in Object,
         \A n \in Object \ {name} : files'[n] = files[n]
  PROVE  /\ Objects' = [Objects EXCEPT ![name] = (ContentOf(files[name]))']
         /\ Durable' = Durable
<1>1. ASSUME NEW n \in Object PROVE ContentOf(disk[n])' = ContentOf(disk[n])
  BY ObjectsStep
<1>2. ASSUME NEW n \in Object \ {name} PROVE ContentOf(files[n])' = ContentOf(files[n])
  BY ObjectsStep
<1> QED
  BY <1>1, <1>2 DEF Objects, Durable

LEMMA PendingStep ==
  ASSUME FilesInv, NEW w \in Writer, NEW s, Enter(w, s)
  PROVE  /\ s.pc \in Publishing /\ writers[w].pc \notin Publishing
              => Pending' = Pending \cup {Announced(s)}
         /\ s.pc \in Publishing /\ writers[w].pc \in Publishing
            /\ Announced(s) = Announced(writers[w]) => Pending' = Pending
         /\ s.pc \notin Publishing /\ writers[w].pc \notin Publishing => Pending' = Pending
         /\ s.pc \notin Publishing /\ writers[w].pc \in Publishing
              => Pending' \in {Pending, Pending \ {Announced(writers[w])}}
         /\ writers[w].pc \in Publishing => Announced(writers[w]) \in Pending
<1>1. /\ writers'[w] = s /\ \A v \in Writer \ {w} : writers'[v] = writers[v]
  BY DEF FilesInv, FsTypeOK, Enter
<1>2. \A x : x \in Pending <=> \E v \in Writer : writers[v].pc \in Publishing
                                               /\ x = Announced(writers[v])
  BY DEF Pending
<1>3. \A x : x \in Pending' <=> \E v \in Writer : writers'[v].pc \in Publishing
                                                /\ x = Announced(writers'[v])
  BY DEF Pending, Announced
<1>4. \A x : x \in Pending' <=> \/ s.pc \in Publishing /\ x = Announced(s)
                                \/ \E v \in Writer \ {w} : writers[v].pc \in Publishing
                                                           /\ x = Announced(writers[v])
  BY <1>1, <1>3
<1>5. \A x : x \in Pending <=> \/ writers[w].pc \in Publishing /\ x = Announced(writers[w])
                               \/ \E v \in Writer \ {w} : writers[v].pc \in Publishing
                                                          /\ x = Announced(writers[v])
  BY <1>2
<1> DEFINE rest == {x \in Pending \cup Pending' : \E v \in Writer \ {w} :
                       writers[v].pc \in Publishing /\ x = Announced(writers[v])}
<1>6. Pending' = IF s.pc \in Publishing THEN rest \cup {Announced(s)} ELSE rest
  BY <1>4, <1>5
<1>7. Pending = IF writers[w].pc \in Publishing THEN rest \cup {Announced(writers[w])} ELSE rest
  BY <1>4, <1>5
<1> HIDE DEF rest
<1> QED
  BY <1>6, <1>7

(* The steps of the map that the steps of the filesystem are.                *)
LEMMA StoreSteps ==
  ASSUME Setting' = Setting, Durable' = Durable
  PROVE  /\ Objects' = Objects /\ Pending' = Pending => UNCHANGED objectStoreVars
         /\ Objects' = Objects => \A n \in Object, c \in Content :
              Pending' = Pending \cup {<<n, c>>} => Store!Next
         /\ Objects' = Objects /\ Objects[Block] # Missing
            /\ Pending' = Pending \cup {<<Part, Objects[Block]>>} => Store!Next
         /\ \A a \in Pending :
              Pending' \in {Pending, Pending \ {a}} /\ a = <<a[1], a[2]>> =>
                /\ Objects' = Objects => Store!Next
                /\ Objects' = [Objects EXCEPT ![a[1]] = a[2]] => Store!Next
         /\ Objects' = Objects /\ Pending' = {} => Store!Next
         /\ \A n \in Object :
              /\ Objects' = [Objects EXCEPT ![n] = Missing] /\ Pending' = Pending
              /\ session = "dropped" \/ (~scenario.replaces /\ \E a \in Pending : a[1] = n)
              => Store!Next
<1>1. /\ (session = "dropped")' = (session = "dropped")
      /\ scenario.fsync' = scenario.fsync /\ scenario.replaces' = scenario.replaces
  BY DEF Setting
<1>2. Objects' = Objects /\ Pending' = Pending => UNCHANGED objectStoreVars
  BY <1>1 DEF objectStoreVars
<1>3. ASSUME Objects' = Objects, NEW n \in Object, NEW c \in Content,
             Pending' = Pending \cup {<<n, c>>}
      PROVE  Store!Next
  BY <1>1, <1>3, Zenon DEF Store!Next, Store!Begin
<1>4. ASSUME Objects' = Objects, Objects[Block] # Missing,
             Pending' = Pending \cup {<<Part, Objects[Block]>>}
      PROVE  Store!Next
  BY <1>1, <1>4, Names, Zenon DEF Store!Next, Store!BeginCopy, Store!Begin
<1>5. ASSUME NEW a \in Pending, Pending' \in {Pending, Pending \ {a}}, a = <<a[1], a[2]>>
      PROVE  /\ Objects' = Objects => Store!Next
             /\ Objects' = [Objects EXCEPT ![a[1]] = a[2]] => Store!Next
  <2>1. Store!Settled(a[1], a[2])
    BY <1>5, Zenon DEF Store!Settled
  <2>2. Objects' = Objects => Store!GiveUp(a[1], a[2])
    BY <1>1, <2>1, Zenon DEF Store!GiveUp
  <2>3. Objects' = [Objects EXCEPT ![a[1]] = a[2]] => Store!Publish(a[1], a[2])
    BY <1>1, <1>5, <2>1, Zenon DEF Store!Publish
  <2> QED
    BY <2>2, <2>3, Zenon DEF Store!Next
<1>6. Objects' = Objects /\ Pending' = {} => Store!Next
  BY <1>1, Zenon DEF Store!Next, Store!Crash
<1>7. ASSUME NEW n \in Object, Objects' = [Objects EXCEPT ![n] = Missing], Pending' = Pending,
             session = "dropped" \/ (~scenario.replaces /\ \E a \in Pending : a[1] = n)
      PROVE  Store!Next
  BY <1>1, <1>7, Zenon DEF Store!Next, Store!Remove
<1> QED
  BY <1>2, <1>3, <1>4, <1>5, <1>6, <1>7, Zenon

LEMMA QuietImplement ==
  ASSUME FilesInv, NEW w \in Writer, Upload(w) \/ Fail(w) \/ Copy(w) \/ Stream(w)
  PROVE  Store!Next \/ UNCHANGED objectStoreVars
<1>0. /\ writers[w] \in WriterState /\ RequestOK(writers[w]) /\ FsTypeOK /\ ObjectsWhole
  BY DEF FilesInv, FsTypeOK, RequestsOK
<1>1. UNCHANGED <<world, files, inodes>>
  BY DEF Upload, Fail, Copy, Stream
<1>2. Setting' = Setting /\ disk' = disk /\ files' = files /\ InodesKept
  BY <1>1 DEF world, Setting, InodesKept
<1>3. Objects' = Objects /\ Durable' = Durable
  BY <1>2, ObjectsKept
<1>4. CASE Upload(w)
  <2> DEFINE s == [Resting EXCEPT !.pc = "create", !.target = Block,
                                  !.of = scenario.requests[w], !.size = Chunks]
  <2>1. scenario.requests[w] \in Content
    BY <1>0, <1>4, FilesystemAssumption DEF FsTypeOK, Platform, Upload
  <2>2. s.pc \in Publishing /\ Announced(s) = <<Block, scenario.requests[w]>>
    BY DEF Resting, Publishing, Announced
  <2>3. Enter(w, s) /\ writers[w].pc \notin Publishing
    BY <1>4 DEF Upload, At, Publishing
  <2> HIDE DEF s
  <2>4. Pending' = Pending \cup {<<Block, scenario.requests[w]>>}
    BY <2>2, <2>3, PendingStep
  <2> QED
    BY <1>2, <1>3, <2>1, <2>4, Names, StoreSteps
<1>5. CASE Fail(w)
  <2> DEFINE s == [writers[w] EXCEPT !.pc = "undo"]
  <2>1. s.pc \notin Publishing /\ Enter(w, s) /\ writers[w].pc \in Publishing
    BY <1>0, <1>5 DEF Fail, Go, WriterState, Publishing
  <2> HIDE DEF s
  <2>2. /\ Announced(writers[w]) \in Pending
        /\ Pending' \in {Pending, Pending \ {Announced(writers[w])}}
    BY <2>1, PendingStep
  <2> QED
    BY <1>2, <1>3, <2>2, StoreSteps DEF Announced
<1>6. CASE Copy(w)
  <2> DEFINE s == IF Present(Block) THEN [Resting EXCEPT !.pc = "reserve", !.target = Part]
                  ELSE [Resting EXCEPT !.pc = "done"]
  <2>1. s.pc \notin Publishing /\ Enter(w, s) /\ writers[w].pc \notin Publishing
    BY <1>6 DEF Copy, At, Finish, Resting, Publishing
  <2> HIDE DEF s
  <2>2. Pending' = Pending
    BY <2>1, PendingStep
  <2> QED
    BY <1>2, <1>3, <2>2, StoreSteps
<1>7. CASE Stream(w)
  <2>0. writers[w].pc \notin Publishing
    BY <1>7 DEF Stream, At, Publishing
  <2>1. CASE ~Present(Block)
    <3>1. \E s : Enter(w, s) /\ s.pc \notin Publishing
      BY <1>7, <2>1 DEF Stream, Finish, Resting, Publishing
    <3>2. Pending' = Pending
      BY <2>0, <3>1, PendingStep
    <3> QED
      BY <1>2, <1>3, <3>2, StoreSteps
  <2>2. CASE Present(Block)
    <3> DEFINE i == files[Block]
               s == [writers[w] EXCEPT !.pc = "create", !.of = inodes[i].of,
                                       !.size = inodes[i].written]
    <3>1. Enter(w, s)
      BY <1>7, <2>2 DEF Stream
    <3>2. writers[w].target = Part
      BY <1>0, <1>7 DEF RequestOK, Stream, At
    <3>3. s.pc = "create" /\ s.target = Part /\ s.of = inodes[i].of /\ s.size = inodes[i].written
      BY <1>0, <3>2 DEF WriterState
    <3>4. Objects[Block] = ContentOf(i) /\ i # Missing /\ inodes[i].of # Missing
      BY <1>0, <2>2, Names DEF Objects, Present, ObjectsWhole, ObjectWhole
    <3>5. Announced(s) = <<Part, Objects[Block]>> /\ Objects[Block] # Missing
      BY <3>3, <3>4, FilesystemAssumption DEF Announced, ContentOf
    <3> HIDE DEF s
    <3>6. Pending' = Pending \cup {<<Part, Objects[Block]>>}
      BY <2>0, <3>1, <3>3, <3>5, PendingStep DEF Publishing
    <3> QED
      BY <1>2, <1>3, <3>5, <3>6, StoreSteps
  <2> QED
    BY <2>1, <2>2
<1> QED
  BY <1>4, <1>5, <1>6, <1>7

LEMMA MakingImplement ==
  ASSUME FilesInv, NEW w \in Writer, CreateTemp(w) \/ Reserve(w)
  PROVE  Store!Next \/ UNCHANGED objectStoreVars
<1>0. /\ writers[w] \in WriterState /\ RequestOK(writers[w]) /\ FsTypeOK
      /\ files \in Directory
  BY DEF FilesInv, FsTypeOK, RequestsOK
<1>1. UNCHANGED world
  BY DEF CreateTemp, Reserve
<1>2. Setting' = Setting /\ disk' = disk
  BY <1>1 DEF world, Setting
<1>3. PICK step \in {"write", "sync", "unreserve"}, content \in {writers[w].of, Missing} :
        /\ MakeTemp(w, step, content)
        /\ \/ writers[w].pc = "create" /\ step # "unreserve"
           \/ writers[w].pc = "reserve" /\ step = "unreserve"
  <2>1. CASE CreateTemp(w)
    <3>1. CASE writers[w].size = 0
      BY <2>1, <3>1 DEF CreateTemp, At
    <3>2. CASE writers[w].size # 0
      BY <2>1, <3>2 DEF CreateTemp, At
    <3> QED
      BY <3>1, <3>2
  <2>2. CASE Reserve(w)
    BY <2>2 DEF Reserve, At
  <2> QED
    BY <2>1, <2>2
<1>4. CASE ~folder
  <2> DEFINE s == [Resting EXCEPT !.pc = "done"]
  <2>1. s.pc \notin Publishing /\ Enter(w, s) /\ files' = files /\ inodes' = inodes
    BY <1>3, <1>4 DEF MakeTemp, Finish, Resting, Publishing
  <2> HIDE DEF s
  <2>2. Objects' = Objects /\ Durable' = Durable
    BY <1>2, <2>1, ObjectsKept DEF InodesKept
  <2>3. CASE writers[w].pc \in Publishing
    <3>1. /\ Announced(writers[w]) \in Pending
          /\ Pending' \in {Pending, Pending \ {Announced(writers[w])}}
      BY <2>1, <2>3, PendingStep
    <3> QED
      BY <1>2, <2>2, <3>1, StoreSteps DEF Announced
  <2>4. CASE writers[w].pc \notin Publishing
    <3>1. Pending' = Pending
      BY <2>1, <2>4, PendingStep
    <3> QED
      BY <1>2, <2>2, <3>1, StoreSteps
  <2> QED
    BY <2>3, <2>4
<1>5. CASE folder
  <2> DEFINE temp == Some(FreshTemps)
             i == Some(FreeInodes)
             s == [writers[w] EXCEPT !.pc = step, !.temp = temp, !.inode = i]
  <2>1. /\ temp \in FreshTemps /\ i \in FreeInodes
        /\ files' = [files EXCEPT ![temp] = i]
        /\ inodes' = [inodes EXCEPT ![i] = [Empty EXCEPT !.of = content]]
        /\ Enter(w, s)
    BY <1>3, <1>5, SomeName DEF MakeTemp
  <2> HIDE DEF temp, i
  <2>2. \A n \in Object : files'[n] = files[n]
    BY <1>0, <2>1, Names DEF FreshTemps, Directory
  <2>3. InodesKept
    BY <1>0, <2>1 DEF InodesKept, FsTypeOK
  <2>4. Objects' = Objects /\ Durable' = Durable
    BY <1>2, <2>2, <2>3, ObjectsKept
  <2>5. s.pc = step /\ Announced(s) = Announced(writers[w])
    BY <1>0 DEF WriterState, Announced
  <2> HIDE DEF s
  <2>6. Pending' = Pending
    BY <1>3, <2>1, <2>5, PendingStep DEF Publishing
  <2> QED
    BY <1>2, <2>4, <2>6, StoreSteps
<1> QED
  BY <1>4, <1>5

LEMMA WritingImplement ==
  ASSUME FilesInv, NEW w \in Writer, Write(w) \/ SyncUpload(w)
  PROVE  Store!Next \/ UNCHANGED objectStoreVars
<1>0. /\ writers[w] \in WriterState /\ FsTypeOK
  BY DEF FilesInv, FsTypeOK
<1>1. UNCHANGED <<world, files>>
  BY DEF Write, SyncUpload
<1>2. Setting' = Setting /\ disk' = disk /\ files' = files
  BY <1>1 DEF world, Setting
<1>3. InodesKept
  BY <1>0 DEF InodesKept, Write, SyncUpload, At, Making, FsTypeOK
<1>4. Objects' = Objects /\ Durable' = Durable
  BY <1>2, <1>3, ObjectsKept
<1>5. PICK pc \in {"write", "sync", "rename"} : Go(w, pc) /\ writers[w].pc \in {"write", "sync"}
  BY DEF Write, SyncUpload, At
<1> DEFINE s == [writers[w] EXCEPT !.pc = pc]
<1>6. s.pc = pc /\ Announced(s) = Announced(writers[w]) /\ Enter(w, s)
  BY <1>0, <1>5 DEF WriterState, Announced, Go
<1> HIDE DEF s
<1>7. Pending' = Pending
  BY <1>5, <1>6, PendingStep DEF Publishing
<1> QED
  BY <1>2, <1>4, <1>7, StoreSteps

LEMMA RenameImplement ==
  ASSUME FilesInv, NEW w \in Writer, writers[w].pc \in Complete, Rename(w), Contents(inodes),
         UNCHANGED world
  PROVE  Store!Next \/ UNCHANGED objectStoreVars
<1>0. /\ writers[w] \in WriterState /\ RequestOK(writers[w]) /\ FsTypeOK /\ TempOwned(w)
      /\ FileComplete(writers[w]) /\ files \in Directory
  BY DEF FilesInv, FsTypeOK, RequestsOK
<1>1. /\ writers[w].temp \in Temp /\ writers[w].target \in Object
      /\ writers[w].pc \in Publishing
  BY <1>0, Names DEF RequestOK, WriterState, Complete, Publishing
<1>2. Setting' = Setting /\ disk' = disk
  BY DEF world, Setting
<1>3. InodesKept /\ \A j \in Inode : j \in FreeInodes' \/ inodes'[j] = inodes[j]
  BY <1>0, OnlyFreed DEF InodesKept
<1>4. PICK s \in {[writers[w] EXCEPT !.pc = "undo"], [Resting EXCEPT !.pc = "done"]} : Enter(w, s)
  BY DEF Rename, Go, Finish
<1>5. s.pc \notin Publishing
  BY <1>0, <1>4 DEF WriterState, Resting, Publishing
<1>6. /\ Announced(writers[w]) \in Pending
      /\ Pending' \in {Pending, Pending \ {Announced(writers[w])}}
  BY <1>1, <1>4, <1>5, PendingStep
<1> DEFINE i == files[writers[w].temp]
<1>7. CASE files' = files
  <2>1. Objects' = Objects /\ Durable' = Durable
    BY <1>2, <1>3, <1>7, ObjectsKept
  <2> QED
    BY <1>2, <1>6, <2>1, StoreSteps DEF Announced
<1>8. CASE files' # files
  <2>0. PICK t \in Object : t = writers[w].target
    BY <1>1
  <2>1. i # Missing /\ files' = [files EXCEPT ![writers[w].temp] = Missing, ![t] = i]
    BY <1>8, <2>0 DEF Rename
  <2>2. i = writers[w].inode /\ i \in Inode
    BY <1>0, <1>1, <2>1, Names DEF TempOwned, WriterState
  <2>3. files'[t] = i /\ \A n \in Object \ {t} : files'[n] = files[n]
    BY <1>0, <1>1, <2>1, Names DEF Directory
  <2>4. i \notin FreeInodes' /\ t \in Path
    BY <1>1, <2>3, Names DEF FreeInodes
  <2>5. inodes'[i] = inodes[i]
    BY <1>3, <2>2, <2>4
  <2>6. inodes[i].of = writers[w].of /\ inodes[i].written = writers[w].size
    BY <1>0, <2>2 DEF FileComplete
  <2>7. PICK c : c = Announced(writers[w])[2] /\ (ContentOf(files[t]))' = c
    <3>1. Announced(writers[w])[2] = IF writers[w].size = Chunks THEN writers[w].of ELSE Torn
      BY DEF Announced
    <3>2. i # Missing
      BY <2>1
    <3>3. (ContentOf(files[t]))' = IF writers[w].size = Chunks THEN writers[w].of ELSE Torn
      BY ONLY <2>3, <2>5, <2>6, <3>2 DEF ContentOf
    <3> QED
      BY ONLY <3>1, <3>3
  <2>8. Announced(writers[w])[1] = t
    BY <2>0 DEF Announced
  <2>9. Durable' = Durable
        /\ Objects' = [Objects EXCEPT ![Announced(writers[w])[1]] = Announced(writers[w])[2]]
    BY <1>2, <1>3, <2>3, <2>7, <2>8, ObjectsChange
  <2> QED
    BY <1>2, <1>6, <2>9, StoreSteps DEF Announced
<1> QED
  BY <1>7, <1>8

LEMMA RenamingImplement ==
  ASSUME FilesInv, NEW w \in Writer, Commit(w) \/ Replace(w) \/ CommitAgain(w)
  PROVE  Store!Next \/ UNCHANGED objectStoreVars
<1>0. /\ writers[w] \in WriterState /\ RequestOK(writers[w]) /\ FsTypeOK
      /\ files \in Directory
  BY DEF FilesInv, FsTypeOK, RequestsOK
<1>1. writers[w].pc \in Complete /\ writers[w].pc \in Publishing
  BY DEF Commit, Replace, CommitAgain, At, Complete, Publishing
<1>2. PICK t \in Object : t = writers[w].target
  BY <1>0, <1>1, Names DEF RequestOK, WriterState
<1>3. UNCHANGED world /\ Contents(inodes)
  BY DEF Commit, Replace, CommitAgain
<1>4. Setting' = Setting /\ disk' = disk /\ InodesKept
  BY <1>0, <1>3, OnlyFreed DEF world, Setting, InodesKept
<1>5. ASSUME NEW pc \in {"replace", "again", "undo"}, Go(w, pc)
      PROVE  /\ Announced(writers[w]) \in Pending
             /\ pc # "undo" => Pending' = Pending
             /\ Pending' \in {Pending, Pending \ {Announced(writers[w])}}
  <2> DEFINE s == [writers[w] EXCEPT !.pc = pc]
  <2>1. s.pc = pc /\ Announced(s) = Announced(writers[w]) /\ Enter(w, s)
    BY <1>0, <1>5 DEF WriterState, Announced, Go
  <2> HIDE DEF s
  <2> QED
    BY <1>1, <2>1, PendingStep DEF Publishing
<1>6. ASSUME NEW pc \in {"replace", "undo"}, Go(w, pc), files' = files
      PROVE  Store!Next \/ UNCHANGED objectStoreVars
  <2>1. Objects' = Objects /\ Durable' = Durable
    BY <1>4, <1>6, ObjectsKept
  <2> QED
    BY <1>4, <1>5, <1>6, <2>1, StoreSteps DEF Announced
<1>7. CASE Commit(w)
  <2>1. CASE Present(writers[w].temp) /\ Present(writers[w].target) /\ ~scenario.replaces
    BY <1>6, <1>7, <2>1 DEF Commit
  <2>2. CASE ~(Present(writers[w].temp) /\ Present(writers[w].target) /\ ~scenario.replaces)
    BY <1>1, <1>3, <1>7, <2>2, RenameImplement DEF Commit
  <2> QED
    BY <2>1, <2>2
<1>8. CASE CommitAgain(w)
  <2>1. CASE Present(writers[w].target)
    BY <1>6, <1>8, <2>1 DEF CommitAgain
  <2>2. CASE ~Present(writers[w].target)
    BY <1>1, <1>3, <1>8, <2>2, RenameImplement DEF CommitAgain
  <2> QED
    BY <2>1, <2>2
<1>9. CASE Replace(w)
  <2>1. ~scenario.replaces /\ Pending' = Pending /\ Announced(writers[w]) \in Pending
    BY <1>0, <1>5, <1>9 DEF RequestOK, Replace, At
  <2>2. files'[t] = Missing /\ \A n \in Object \ {t} : files'[n] = files[n]
    BY <1>0, <1>2, <1>9, Names DEF Replace, Unlinked, Directory
  <2>3. (ContentOf(files[t]))' = Missing
    BY <2>2 DEF ContentOf
  <2>4. Objects' = [Objects EXCEPT ![t] = Missing] /\ Durable' = Durable
    BY <1>2, <1>4, <2>2, <2>3, ObjectsChange
  <2>5. \E a \in Pending : a[1] = t
    BY <1>2, <2>1 DEF Announced
  <2> QED
    BY <1>4, <2>1, <2>4, <2>5, StoreSteps
<1> QED
  BY <1>7, <1>8, <1>9

LEMMA LinkingImplement ==
  ASSUME FilesInv, NEW w \in Writer, RemoveTemp(w) \/ Unreserve(w) \/ Link(w)
  PROVE  Store!Next \/ UNCHANGED objectStoreVars
<1>0. /\ writers[w] \in WriterState /\ RequestOK(writers[w]) /\ FsTypeOK /\ ObjectsWhole
      /\ files \in Directory
  BY DEF FilesInv, FsTypeOK, RequestsOK
<1>1. writers[w].temp \in Temp /\ writers[w].pc \notin Publishing
  BY <1>0, Names
     DEF RequestOK, WriterState, Making, RemoveTemp, Unreserve, Link, At, Publishing
<1>2. Setting' = Setting /\ disk' = disk
  BY DEF RemoveTemp, Unreserve, Link, world, Setting
<1>3. \A n \in Object : files'[n] = files[n]
  BY <1>0, <1>1, Names DEF RemoveTemp, RemoveFile, Unreserve, Link, Unlinked, Directory
<1>4. InodesKept
  BY <1>0, OnlyFreed DEF InodesKept, RemoveTemp, Unreserve, Link
<1>5. Objects' = Objects /\ Durable' = Durable
  BY <1>2, <1>3, <1>4, ObjectsKept
<1>6. ASSUME NEW s, Enter(w, s), s.pc \notin Publishing
      PROVE  Store!Next \/ UNCHANGED objectStoreVars
  <2>1. Pending' = Pending
    BY <1>1, <1>6, PendingStep
  <2> QED
    BY <1>2, <1>5, <2>1, StoreSteps
<1>7. CASE RemoveTemp(w)
  BY <1>6, <1>7 DEF RemoveTemp, Finish, Resting, Publishing
<1>8. CASE Unreserve(w)
  BY <1>0, <1>6, <1>8 DEF Unreserve, Finish, Resting, Publishing, WriterState
<1>9. CASE Link(w)
  <2>1. CASE ~(scenario.links /\ Present(Block))
    BY <1>6, <1>9, <2>1 DEF Link, Resting, Publishing
  <2>2. CASE scenario.links /\ Present(Block)
    <3> DEFINE i == files[Block]
               s == [writers[w] EXCEPT !.pc = "rename", !.inode = i, !.of = inodes[i].of,
                                       !.size = inodes[i].written]
    <3>1. Enter(w, s)
      BY <1>9, <2>2 DEF Link
    <3>2. writers[w].target = Part
      BY <1>0, <1>9 DEF RequestOK, Link, At
    <3>3. s.pc = "rename" /\ s.target = Part /\ s.of = inodes[i].of /\ s.size = inodes[i].written
      BY <1>0, <3>2 DEF WriterState
    <3>4. Objects[Block] = ContentOf(i) /\ i # Missing /\ inodes[i].of # Missing
      BY <1>0, <2>2, Names DEF Objects, Present, ObjectsWhole, ObjectWhole
    <3>5. Announced(s) = <<Part, Objects[Block]>> /\ Objects[Block] # Missing
      BY <3>3, <3>4, FilesystemAssumption DEF Announced, ContentOf
    <3> HIDE DEF s
    <3>6. Pending' = Pending \cup {<<Part, Objects[Block]>>}
      BY <1>1, <3>1, <3>3, <3>5, PendingStep DEF Publishing
    <3> QED
      BY <1>2, <1>5, <3>5, <3>6, StoreSteps
  <2> QED
    BY <2>1, <2>2
<1> QED
  BY <1>7, <1>8, <1>9

(* A step that leaves the requests alone and takes at most one file away.    *)
LEMMA BesideImplement ==
  ASSUME FilesInv, Read \/ Removal \/ Cleanup \/ EndSession \/ Age
                   \/ \E n \in Object, ranged \in BOOLEAN : Open(n, ranged)
  PROVE  Store!Next \/ UNCHANGED objectStoreVars
<1>0. FsTypeOK /\ ListingsOK /\ files \in Directory
  BY DEF FilesInv, FsTypeOK
<1>1. writers' = writers /\ scenario' = scenario /\ disk' = disk
  BY DEF Read, Removal, StartRemoval, Unlink, RemoveFolder, Cleanup, StartWalk, QueryUploads,
         EndCleanup, Visit, Clean, EndSession, Age, Open, world, processes
<1>2. Pending' = Pending
  BY <1>1 DEF Pending, Announced
<1>3. ASSUME session' = session, InodesKept, \A n \in Object : files'[n] = files[n]
      PROVE  Store!Next \/ UNCHANGED objectStoreVars
  <2>1. Setting' = Setting /\ Objects' = Objects /\ Durable' = Durable
    BY <1>1, <1>3, ObjectsKept DEF Setting
  <2> QED
    BY <1>2, <2>1, StoreSteps
<1>4. ASSUME UNCHANGED <<session, files, inodes>> PROVE Store!Next \/ UNCHANGED objectStoreVars
  BY <1>3, <1>4 DEF InodesKept
<1>5. CASE \/ Read \/ StartRemoval \/ RemoveFolder \/ StartWalk \/ QueryUploads \/ EndCleanup
           \/ \E n \in Path : Visit(n)
           \/ \E n \in Object, ranged \in BOOLEAN : Open(n, ranged)
  BY <1>4, <1>5 DEF Read, StartRemoval, RemoveFolder, StartWalk, QueryUploads, EndCleanup,
                    Visit, Open, world
<1>6. ASSUME NEW n \in Path, Unlink(n) PROVE Store!Next \/ UNCHANGED objectStoreVars
  <2>1. /\ files' = Unlinked(n) /\ UNCHANGED <<session, scenario>> /\ session = "dropped"
        /\ InodesKept
    BY <1>0, <1>6, OnlyFreed DEF Unlink, world, ListingsOK, InodesKept
  <2>2. CASE n \notin Object
    BY <1>0, <1>3, <2>1, <2>2, Names DEF Unlinked, Directory
  <2>3. CASE n \in Object
    <3>1. files'[n] = Missing /\ \A m \in Object \ {n} : files'[m] = files[m]
      BY <1>0, <2>1, Names DEF Unlinked, Directory
    <3>2. (ContentOf(files[n]))' = Missing
      BY <3>1 DEF ContentOf
    <3>3. Objects' = [Objects EXCEPT ![n] = Missing] /\ Durable' = Durable
      BY <1>1, <2>1, <2>3, <3>1, <3>2, ObjectsChange
    <3> QED
      BY <1>2, <2>1, <2>3, <3>3, StoreSteps DEF Setting
  <2> QED
    BY <2>2, <2>3
<1>7. ASSUME NEW n \in Path, Clean(n) PROVE Store!Next \/ UNCHANGED objectStoreVars
  <2>1. n \in Temp /\ session' = session /\ InodesKept
    BY <1>0, <1>7, OnlyFreed DEF Clean, ListingsOK, InodesKept
  <2>2. \A m \in Object : files'[m] = files[m]
    BY <1>0, <1>7, <2>1, Names DEF Clean, RemoveFile, Unlinked, Directory
  <2> QED
    BY <1>3, <2>1, <2>2
<1>8. CASE EndSession
  <2>1. UNCHANGED <<files, inodes>> /\ session = "active"
    BY <1>8 DEF EndSession
  <2>2. Objects' = Objects /\ Durable' = Durable
    BY <1>1, <2>1, ObjectsKept DEF InodesKept
  <2>3. CASE session' = "dropped"
    <3>1. (session = "dropped")' = TRUE /\ scenario.fsync' = scenario.fsync
          /\ scenario.replaces' = scenario.replaces
      BY <1>1, <2>3
    <3> QED
      BY <1>2, <2>2, <3>1, Zenon DEF Store!Next, Store!Drop
  <2>4. CASE session' = "kept"
    <3>1. (session = "dropped")' = (session = "dropped") /\ scenario.fsync' = scenario.fsync
          /\ scenario.replaces' = scenario.replaces
      BY <1>1, <2>1, <2>4
    <3> QED
      BY <1>2, <2>2, <3>1 DEF objectStoreVars
  <2> QED
    BY <1>8, <2>3, <2>4 DEF EndSession
<1>9. CASE Age
  <2>1. UNCHANGED <<session, files>>
    BY <1>9 DEF Age, world
  <2>2. InodesKept
    BY <1>0, <1>9 DEF Age, InodesKept, FsTypeOK, FileState
  <2> QED
    BY <1>3, <2>1, <2>2
<1> QED
  BY <1>5, <1>6, <1>7, <1>8, <1>9 DEF Removal, Cleanup

LEMMA FaultsImplement ==
  ASSUME FilesInv, Persist \/ Crash \/ LosePower
  PROVE  Store!Next
<1>0. /\ FsTypeOK /\ ObjectsWhole /\ files \in Directory /\ disk \in Directory
      /\ inodes \in [Inode -> FileState]
  BY DEF FilesInv, FsTypeOK
<1>1. /\ (session = "dropped")' = (session = "dropped")
      /\ scenario.fsync' = scenario.fsync /\ scenario.replaces' = scenario.replaces
  BY DEF Persist, Crash, LosePower, Restart
<1>2. Crash \/ LosePower => Pending' = {}
  BY DEF Crash, LosePower, Restart, Pending, Resting, Publishing
<1>3. CASE Persist
  <2>1. /\ disk' = files /\ files' = files /\ writers' = writers
        /\ \A j \in Inode : j \in FreeInodes' \/ inodes'[j] = inodes[j]
    BY <1>0, <1>3, OnlyFreed DEF Persist, processes
  <2>2. ASSUME NEW n \in Object
        PROVE  /\ (ContentOf(files[n]))' = ContentOf(files[n])
               /\ (ContentOf(disk[n]))' = ContentOf(files[n])
    <3>1. n \in Path /\ files[n] \in Inode \cup {Missing} /\ files[n] \notin FreeInodes'
      BY <1>0, <2>1, Names DEF Directory, FreeInodes
    <3> QED
      BY <2>1, <3>1 DEF ContentOf
  <2>3. Objects' = Objects /\ Durable' = Objects
    BY <2>2 DEF Objects, Durable
  <2>4. Pending' = Pending
    BY <2>1 DEF Pending, Announced
  <2> QED
    BY <1>1, <2>3, <2>4, Zenon DEF Store!Next, Store!Persist
<1>4. CASE Crash
  <2>1. disk' = disk /\ files' = files /\ InodesKept
    BY <1>0, <1>4, OnlyFreed DEF Crash, InodesKept
  <2>2. Objects' = Objects /\ Durable' = Durable
    BY <2>1, ObjectsKept
  <2> QED
    BY <1>1, <1>2, <1>4, <2>2, Zenon DEF Store!Next, Store!Crash
<1>5. CASE LosePower
  <2>1. PICK gone \in SUBSET {i \in Inode : ~inodes[i].synced /\ inodes[i].written > 0} :
          Contents([i \in Inode |-> IF i \in gone THEN [inodes[i] EXCEPT !.written = @ - 1]
                                    ELSE inodes[i]])
    BY <1>5 DEF LosePower
  <2>2. files' = disk /\ disk' = disk
    BY <1>5 DEF LosePower
  <2>3. ASSUME NEW n \in Object
        PROVE  /\ (ContentOf(files[n]))' = (ContentOf(disk[n]))'
               /\ (ContentOf(disk[n]))' # ContentOf(disk[n]) =>
                    /\ (ContentOf(disk[n]))' = Torn /\ ~scenario.fsync
                    /\ ContentOf(disk[n]) # Missing
    <3>1. n \in Path /\ disk[n] \in Inode \cup {Missing} /\ disk[n] \notin FreeInodes'
          /\ ObjectWhole(disk[n])
      BY <1>0, <2>2, Names DEF Directory, FreeInodes, ObjectsWhole
    <3>2. (ContentOf(files[n]))' = (ContentOf(disk[n]))'
      BY <2>2 DEF ContentOf
    <3>3. CASE disk[n] = Missing
      BY <2>2, <3>2, <3>3 DEF ContentOf
    <3>4. CASE disk[n] # Missing
      <4>0. PICK i \in Inode : i = disk[n]
        BY <3>1, <3>4
      <4>1. /\ inodes'[i] = IF i \in gone THEN [inodes[i] EXCEPT !.written = @ - 1] ELSE inodes[i]
            /\ i \in gone => ~inodes[i].synced
        BY <2>1, <3>1, <4>0 DEF Contents
      <4>2. inodes[i] \in FileState /\ inodes[i].of # Missing /\ i # Missing
            /\ (scenario.fsync => inodes[i].synced)
        BY <1>0, <3>1, <4>0, Names DEF ObjectWhole
      <4>3. i \in gone => /\ inodes'[i].written # Chunks /\ ~scenario.fsync
        BY <4>1, <4>2, Names DEF FileState
      <4>4. i \notin gone => inodes'[i] = inodes[i]
        BY <4>1
      <4>5. (ContentOf(disk[n]))' = IF inodes'[i].written = Chunks THEN inodes'[i].of ELSE Torn
        BY <2>2, <4>0, <4>2 DEF ContentOf
      <4>6. ContentOf(disk[n]) = IF inodes[i].written = Chunks THEN inodes[i].of ELSE Torn
        BY <4>0, <4>2 DEF ContentOf
      <4> QED
        BY <3>2, <4>2, <4>3, <4>4, <4>5, <4>6, FilesystemAssumption
    <3> QED
      BY <3>3, <3>4
  <2> DEFINE lost == {n \in Object : (ContentOf(disk[n]))' # ContentOf(disk[n])}
  <2>4. /\ lost \in SUBSET {n \in Object : Durable[n] # Missing}
        /\ scenario.fsync => lost = {}
    BY <2>3 DEF Durable
  <2>5. Objects' = [n \in Object |-> IF n \in lost THEN Torn ELSE Durable[n]]
    BY <2>3 DEF Objects, Durable
  <2>6. Durable' = Objects'
    BY <2>3 DEF Objects, Durable
  <2> HIDE DEF lost
  <2>7. Store!LosePower
    BY <1>1, <1>2, <1>5, <2>4, <2>5, <2>6, Zenon DEF Store!LosePower
  <2> QED
    BY <2>7, Zenon DEF Store!Next
<1> QED
  BY <1>3, <1>4, <1>5

LEMMA ImplementsInit == FsInit => Store!Init
<1> SUFFICES ASSUME FsInit PROVE Store!Init
  OBVIOUS
<1>1. FilesInv /\ FsTypeOK /\ ObjectsWhole
  BY FilesInit DEF FilesInv
<1>2. Durable = Objects /\ Pending = {} /\ (session = "dropped") = FALSE
  BY DEF FsInit, Durable, Objects, Pending, Resting, Publishing
<1>3. scenario.fsync \in BOOLEAN /\ scenario.replaces \in BOOLEAN
  BY <1>1, FilesystemAssumption DEF FsTypeOK, Platform
<1>4. ASSUME NEW n \in Object PROVE ContentOf(files[n]) \in Content \cup {Missing}
  <2>1. n = Block \/ files[n] = Missing
    BY Names DEF FsInit, Object
  <2>2. CASE n = Block
    <3>1. Some(Inode) \in Inode /\ Some(Content) \in Content
      BY SomeName, FilesystemAssumption
    <3>2. files[n] = Some(Inode) /\ inodes[files[n]] = Whole(Some(Content))
      BY <2>2, <3>1, Names DEF FsInit
    <3> QED
      BY <3>1, <3>2 DEF ContentOf, Whole
  <2> QED
    BY <2>1, <2>2 DEF ContentOf
<1>5. Objects \in [Object -> Content \cup {Missing}]
  BY <1>4 DEF Objects
<1> QED
  BY <1>2, <1>3, <1>5, Zenon DEF Store!Init

LEMMA FilesImplement == FilesInv /\ [FsNext]_fsVars => [Store!Next]_objectStoreVars
<1> SUFFICES ASSUME FilesInv, [FsNext]_fsVars PROVE Store!Next \/ UNCHANGED objectStoreVars
  OBVIOUS
<1>1. CASE UNCHANGED fsVars
  BY <1>1 DEF fsVars, objectStoreVars, Objects, Durable, Pending, Announced, ContentOf
<1>2. CASE FsNext
  BY <1>2, QuietImplement, MakingImplement, WritingImplement, RenamingImplement,
     LinkingImplement, BesideImplement, FaultsImplement DEF FsNext, Request
<1> QED
  BY <1>1, <1>2

(* The removal of temporary files.                                           *)
LEMMA SparingSteps ==
  FilesInv /\ [FsNext]_fsVars =>
    [(\E t \in Temp : Present(t) /\ ~Present(t)' /\ cleaner' # cleaner)
     => session # "active"]_fsVars
<1> SUFFICES ASSUME FilesInv, [FsNext]_fsVars,
                    NEW t \in Temp, Present(t), ~Present(t)', cleaner' # cleaner
             PROVE  session # "active"
  BY DEF fsVars
<1>1. FsNext /\ ListingsOK /\ files' # files
  BY DEF fsVars, FilesInv, Present
<1>2. CASE \E n \in Path : Clean(n)
  BY <1>1, <1>2 DEF Clean, ListingsOK
<1>3. CASE LosePower
  BY <1>1, <1>3 DEF LosePower, Restart, ListingsOK
<1> QED
  BY <1>1, <1>2, <1>3 DEF FsNext, Request, CreateTemp, Write, SyncUpload, Commit, Replace,
     CommitAgain, RemoveTemp, Reserve, Unreserve, Link, Stream, Fail, Copy, Upload, Open, Read,
     Removal, StartRemoval, Unlink, RemoveFolder, Cleanup, StartWalk, Visit, QueryUploads,
     EndCleanup, EndSession, Age, Persist, Crash, others, world, processes

-----------------------------------------------------------------------------
(* The S3 adapter: what a call remembers.                                   *)

Calls == WalkCalls \cup DeleteCalls \cup ComposeCalls \cup UploadCalls \cup RangeCalls

LEMMA CallKinds ==
  ASSUME call \in Calls
  PROVE  /\ call.op = "walk" => call \in WalkCalls
         /\ call.op = "delete" => call \in DeleteCalls
         /\ call.op = "compose" => call \in ComposeCalls
         /\ call.op = "upload" => call \in UploadCalls
         /\ call.op = "range" => call \in RangeCalls
         /\ call.op \in {"walk", "delete", "compose", "upload", "range"}
<1>1. call \in WalkCalls => call.op = "walk"
  BY DEF WalkCalls
<1>2. call \in DeleteCalls => call.op = "delete"
  BY DEF DeleteCalls
<1>3. call \in ComposeCalls => call.op = "compose"
  BY DEF ComposeCalls
<1>4. call \in UploadCalls => call.op = "upload"
  BY DEF UploadCalls
<1>5. call \in RangeCalls => call.op = "range"
  BY DEF RangeCalls
<1> QED
  BY <1>1, <1>2, <1>3, <1>4, <1>5 DEF Calls

LEMMA KeysFinite == IsFiniteSet(Key) /\ Key \subseteq Nat
<1>1. Keys \in Int /\ 1 \in Int
  BY S3Assumption
<1>2. IsFiniteSet(1..Keys)
  BY <1>1, FS_Interval
<1> QED
  BY <1>1, <1>2 DEF Key

(* A nonempty set of keys has a first and a last one.                        *)
LEMMA FirstAndLast ==
  ASSUME NEW S \in SUBSET Key, S # {}
  PROVE  /\ \E m \in S : \A k \in S : m <= k
         /\ Max(S) \in S /\ \A k \in S : k <= Max(S)
<1>0. IsFiniteSet(Key) /\ Key \subseteq Nat
  BY KeysFinite
<1>1. IsFiniteSet(S)
  BY <1>0, FS_Subset
<1> DEFINE Below(m) == {k \in S : k <= m}
           Above(m) == {k \in S : k >= m}
           F == {Below(m) : m \in S}
           G == {Above(m) : m \in S}
<1>2. F \in SUBSET (SUBSET S) /\ F # {} /\ G \in SUBSET (SUBSET S) /\ G # {}
  OBVIOUS
<1> HIDE DEF F, G
<1>3. PICK T \in F : \A U \in F : U \subseteq T => U = T
  BY <1>1, <1>2, MinimalSet
<1>4. PICK m \in S : T = Below(m)
  BY DEF F
<1>5. ASSUME NEW k \in S, k < m PROVE FALSE
  <2>1. k \in Nat /\ m \in Nat /\ \A j \in S : j \in Nat
    BY <1>0
  <2>2. Below(k) \in F
    BY DEF F
  <2>3. \A j \in Below(k) : j <= m
    BY <1>5, <2>1
  <2>4. Below(k) \subseteq T
    BY <1>4, <2>3
  <2>5. m \notin Below(k) /\ m \in T
    BY <1>4, <1>5, <2>1
  <2> QED
    BY <1>3, <2>2, <2>4, <2>5
<1>6. \A k \in S : m <= k
  BY <1>0, <1>5
<1>7. PICK V \in G : \A U \in G : U \subseteq V => U = V
  BY <1>1, <1>2, MinimalSet
<1>8. PICK n \in S : V = Above(n)
  BY DEF G
<1>9. ASSUME NEW k \in S, k > n PROVE FALSE
  <2>1. k \in Nat /\ n \in Nat /\ \A j \in S : j \in Nat
    BY <1>0
  <2>2. Above(k) \in G
    BY DEF G
  <2>3. \A j \in Above(k) : j >= n
    BY <1>9, <2>1
  <2>4. Above(k) \subseteq V
    BY <1>8, <2>3
  <2>5. n \notin Above(k) /\ n \in V
    BY <1>8, <1>9, <2>1
  <2> QED
    BY <1>7, <2>2, <2>4, <2>5
<1>10. \A k \in S : n >= k
  BY <1>0, <1>9
<1>11. Max(S) \in S /\ \A k \in S : Max(S) >= k
  BY <1>10 DEF Max
<1> QED
  BY <1>0, <1>6, <1>11

LEMMA PageFacts ==
  ASSUME NEW keys \in SUBSET Key, NEW page, page = FirstPage(keys)
  PROVE  /\ page \subseteq keys
         /\ keys # {} => page # {}
         /\ \A m \in page, k \in keys : k < m => k \in page
<1>0. IsFiniteSet(Key) /\ Key \subseteq Nat
  BY KeysFinite
<1>1. PageSize \in Nat /\ PageSize > 0
  BY S3Assumption
<1> DEFINE Smaller(m) == {j \in keys : j < m}
<1>2. ASSUME NEW m \in keys PROVE IsFiniteSet(Smaller(m)) /\ Cardinality(Smaller(m)) \in Nat
  BY <1>0, FS_Subset, FS_CardinalityType
<1>3. page = {k \in keys : Cardinality(Smaller(k)) < PageSize}
  BY DEF FirstPage
<1>4. ASSUME keys # {} PROVE page # {}
  <2>1. PICK m \in keys : \A k \in keys : m <= k
    BY <1>4, FirstAndLast
  <2>2. Smaller(m) = {}
    <3>1. m \in Nat /\ \A j \in keys : j \in Nat /\ m <= j
      BY <1>0, <2>1
    <3>2. \A j \in keys : ~(j < m)
      BY <3>1
    <3> QED
      BY <3>2
  <2>3. Cardinality(Smaller(m)) = 0
    BY <2>2, FS_EmptySet
  <2> QED
    BY <1>1, <1>3, <2>3
<1>5. ASSUME NEW m \in page, NEW k \in keys, k < m PROVE k \in page
  <2>1. Smaller(k) \in SUBSET Smaller(m) /\ m \in keys
    <3>1. m \in keys
      BY <1>3
    <3>2. m \in Nat /\ k \in Nat /\ \A j \in keys : j \in Nat
      BY <1>0, <3>1
    <3>3. \A j \in keys : j < k => j < m
      BY <1>5, <3>2
    <3> QED
      BY <3>1, <3>3
  <2> HIDE DEF Smaller
  <2>2. Cardinality(Smaller(k)) <= Cardinality(Smaller(m))
    BY <1>2, <2>1, FS_Subset
  <2> QED
    BY <1>1, <1>2, <1>3, <2>1, <2>2
<1> QED
  BY <1>3, <1>4, <1>5

-----------------------------------------------------------------------------
(* A call that is answered, and ends or goes on elsewhere.                   *)
Moves(result) == \/ Answer(result)
                 \/ result = "abort" /\ \E cause \in Causes : Failing(cause)

LEMMA AnswerCall ==
  ASSUME call \in Calls, NEW result, Moves(result),
         \/ result \in Results
         \/ result \in {"create", "copy", "abort"} /\ call.op \in {"compose", "upload"}
  PROVE  /\ call' \in Calls /\ call'.op = call.op /\ call'.pc = result
         /\ call.op = "walk" => /\ call'.seen = call.seen /\ call'.bytes = call.bytes
                                /\ call'.token = call.token /\ call'.cycles = call.cycles
                                /\ call'.expected = call.expected
         /\ call.op = "compose" => /\ call'.sizes = call.sizes /\ call'.copied = call.copied
                                   /\ call'.source = call.source /\ call'.number = call.number
         /\ call.op = "range" => /\ call'.body = call.body /\ call'.offset = call.offset
                                 /\ call'.count = call.count
<1>1. \/ call' = [call EXCEPT !.pc = result]
      \/ /\ call.op \in {"compose", "upload"}
         /\ \E cause \in Causes : call' = [call EXCEPT !.pc = result, !.cause = cause]
  <2>1. "abort" \notin Results
    BY DEF Results
  <2> QED
    BY <2>1 DEF Moves, Answer, Failing
<1>2. CASE call.op = "walk"
  BY <1>1, <1>2, CallKinds DEF Calls, WalkCalls
<1>3. CASE call.op = "delete"
  BY <1>1, <1>3, CallKinds DEF Calls, DeleteCalls
<1>4. CASE call.op = "compose"
  BY <1>1, <1>4, CallKinds DEF Calls, ComposeCalls
<1>5. CASE call.op = "upload"
  BY <1>1, <1>5, CallKinds DEF Calls, UploadCalls
<1>6. CASE call.op = "range"
  BY <1>1, <1>6, CallKinds DEF Calls, RangeCalls
<1> QED
  BY <1>2, <1>3, <1>4, <1>5, <1>6, CallKinds

(* An answer keeps the invariant where it says what is so.                   *)
LEMMA AnswerStep ==
  ASSUME ObjectsInv, NEW result, Moves(result), UNCHANGED server,
         SameBucket \/ (call.op = "upload" /\ Bucket(bucket \cup {1})),
         \/ composed' = composed
         \/ call.op = "compose" /\ call.pc = "complete" /\ composed' = call.copied,
         open' \in BOOLEAN, mishap' \in BOOLEAN,
         \/ result \in Results
         \/ result \in {"create", "copy"} /\ call.op = "upload"
         \/ result = "abort" /\ call.op \in {"compose", "upload"},
         call.op = "walk" /\ server.sane => result # "cyclic" /\ result # "missing",
         call.op = "delete" /\ server.sane /\ result = "ok" => lasting \cap Key = {},
         call.op = "range" /\ result = "ok" => call.pc = "stream",
         open' => mishap' \/ result \in {"copy", "abort"},
         result = "crashed" => mishap'
  PROVE  ObjectsInv'
<1>0. /\ S3TypeOK /\ call \in Calls /\ WalkOK /\ DeleteOK /\ ComposeOK /\ ComposedOK
      /\ RangeOK /\ result \in Results \cup {"create", "copy", "abort"}
  BY DEF ObjectsInv, S3TypeOK, Calls
<1>1. /\ call' \in Calls /\ call'.op = call.op /\ call'.pc = result
      /\ call.op = "walk" => /\ call'.seen = call.seen /\ call'.bytes = call.bytes
                             /\ call'.token = call.token /\ call'.cycles = call.cycles
                             /\ call'.expected = call.expected
      /\ call.op = "compose" => /\ call'.sizes = call.sizes /\ call'.copied = call.copied
                                /\ call'.source = call.source /\ call'.number = call.number
      /\ call.op = "range" => /\ call'.body = call.body /\ call'.offset = call.offset
                              /\ call'.count = call.count
  BY <1>0, AnswerCall
<1>2. /\ call.op # "upload" => UNCHANGED <<bucket, lasting, ever>>
      /\ bucket' \subseteq Listed /\ lasting' \subseteq bucket' /\ bucket' \subseteq ever'
      /\ Outside \in bucket'
  <2>1. 1 \in Listed
    BY S3Assumption DEF Listed, Outside, Key
  <2>2. CASE SameBucket
    BY <1>0, <2>2 DEF SameBucket, S3TypeOK
  <2>3. CASE call.op = "upload" /\ Bucket(bucket \cup {1})
    BY <1>0, <2>1, <2>3 DEF Bucket, S3TypeOK
  <2> QED
    BY <2>2, <2>3
<1>3. S3TypeOK'
  <2>1. composed' \in Seq(PartRecord)
    BY <1>0, CallKinds DEF S3TypeOK, ComposeCalls
  <2> QED
    BY <1>0, <1>1, <1>2, <2>1 DEF S3TypeOK, Calls
<1>4. WalkOK'
  BY <1>0, <1>1, <1>2 DEF WalkOK, Results
<1>5. DeleteOK'
  BY <1>0, <1>1, <1>2 DEF DeleteOK, Done
<1>6. ComposeOK'
  BY <1>0, <1>1, <1>2 DEF ComposeOK, Results, Chained
<1>7. ComposedOK'
  BY <1>0, <1>1, <1>2 DEF ComposedOK, ComposeOK, Chained
<1>8. MultipartOK'
  <2>1. call.op \in {"compose", "upload"} \/ result \in Results
    OBVIOUS
  <2>2. "copy" \notin Results /\ "abort" \notin Results
    BY DEF Results
  <2> QED
    BY <1>1, <2>1, <2>2 DEF MultipartOK
<1>9. RangeOK'
  BY <1>0, <1>1, <1>2 DEF RangeOK, Requested, Results
<1> QED
  BY <1>3, <1>4, <1>5, <1>6, <1>7, <1>8, <1>9 DEF ObjectsInv

(* What a walk is told, by a broken server and by a sane one.                *)
LEMMA ListingFacts ==
  ASSUME S3TypeOK, call \in WalkCalls, NEW page \in ListingPages
  PROVE  /\ page.keys \subseteq Listed /\ page.token \in Token \cup {None}
         /\ server.sane =>
              /\ page.keys \subseteq bucket
              /\ page.more /\ page.token # None => page.token \in Key /\ page.token > call.token
              /\ \A k \in bucket \cap Key :
                   /\ ~page.more /\ k > call.token => k \in page.keys
                   /\ page.more /\ page.token # None /\ k > call.token /\ k <= page.token
                        => k \in page.keys
<1>0. /\ Key \subseteq Nat /\ Keys \in Nat /\ call.token \in Token
      /\ Key \subseteq Token /\ Token \ {Start} = Listed /\ Start \in Token
  BY KeysFinite, S3Assumption DEF WalkCalls, Token, Start, Listed, Outside, Key
<1>1. CASE server.sane
  <2> DEFINE keys == {k \in bucket \cap Key : k > call.token}
             first == FirstPage(keys)
  <2>1. page = [keys |-> first, more |-> first # keys,
                token |-> IF first = {} THEN None ELSE Max(first)]
    BY <1>1 DEF ListingPages, SanePage
  <2>2. page.keys = first /\ page.more = (first # keys)
        /\ page.token = IF first = {} THEN None ELSE Max(first)
    BY <2>1
  <2>3. keys \in SUBSET Key
    OBVIOUS
  <2> HIDE DEF first
  <2>4. /\ first \subseteq keys
        /\ keys # {} => first # {}
        /\ \A m \in first, k \in keys : k < m => k \in first
    BY <2>3, PageFacts DEF first
  <2>a. first \in SUBSET Key /\ first \subseteq bucket
    BY <2>4
  <2>5. first # {} => Max(first) \in first
    BY <2>a, FirstAndLast
  <2>6. page.more /\ page.token # None => /\ page.token \in first /\ first # {}
    BY <2>2, <2>5
  <2>7. page.token \in Key \cup {None} /\ page.keys \subseteq bucket /\ page.keys \subseteq Key
    BY <2>2, <2>a, <2>5
  <2>8. ASSUME NEW k \in bucket \cap Key, k > call.token
        PROVE  /\ ~page.more => k \in page.keys
               /\ page.more /\ page.token # None /\ k <= page.token => k \in page.keys
    <3>1. k \in keys
      BY <2>8
    <3>2. ASSUME page.more, page.token # None, k <= page.token PROVE k \in page.keys
      <4>1. page.token \in first /\ page.token \in Nat /\ k \in Nat
        <5>1. page.token \in first
          BY <2>6, <3>2
        <5>2. page.token \in Key /\ k \in Key
          BY <2>a, <2>8, <5>1
        <5> QED
          BY <1>0, <5>1, <5>2
      <4>2. k = page.token \/ k < page.token
        BY <3>2, <4>1
      <4> QED
        BY <2>2, <2>4, <3>1, <4>1, <4>2
    <3> QED
      BY <2>2, <3>1, <3>2
  <2>9. page.more /\ page.token # None => page.token \in Key /\ page.token > call.token
    <3> SUFFICES ASSUME page.more, page.token # None
                 PROVE  page.token \in Key /\ page.token > call.token
      OBVIOUS
    <3>1. page.token \in keys
      BY <2>4, <2>6
    <3> QED
      BY <3>1
  <2>10. page.keys \subseteq Listed /\ page.token \in Token \cup {None}
    BY <1>0, <2>7 DEF Listed
  <2> QED
    BY <2>7, <2>8, <2>9, <2>10
<1>2. CASE ~server.sane
  <2>1. page.keys \subseteq Listed /\ page.token = server.next[call.token]
    BY <1>2 DEF ListingPages, BrokenPages, AnyPage
  <2> QED
    BY <1>0, <1>2, <2>1 DEF S3TypeOK
<1> QED
  BY <1>1, <1>2

LEMMA ObserveType ==
  ASSUME NEW values, NEW d \in Detectors(values), NEW value \in values
  PROVE  /\ Observe(d, value) \in Detectors(values)
         /\ \/ d.initialized /\ Observe(d, value).checkpoint = d.checkpoint
            \/ Observe(d, value).checkpoint = value
<1>1. CASE ~d.initialized
  <2>1. Observe(d, value) = [d EXCEPT !.checkpoint = value, !.initialized = TRUE]
    BY <1>1 DEF Observe
  <2> QED
    BY <2>1 DEF Detectors
<1>2. CASE d.initialized /\ d.distance + 1 = d.power
  <2>2. PICK p \in Nat : p = 2 * d.power
    BY DEF Detectors
  <2>1. Observe(d, value) = [d EXCEPT !.checkpoint = value, !.power = p, !.distance = 0]
    BY <1>2, <2>2 DEF Observe
  <2>3. PICK e \in Detectors(values) : e = [d EXCEPT !.checkpoint = value, !.power = p]
    BY DEF Detectors
  <2>4. Observe(d, value) = [e EXCEPT !.distance = 0]
    BY <2>1, <2>3
  <2>5. Observe(d, value) \in Detectors(values)
    BY <2>4 DEF Detectors
  <2>6. Observe(d, value).checkpoint = value
    BY <2>1 DEF Detectors
  <2> QED
    BY <2>5, <2>6
<1>3. CASE d.initialized /\ d.distance + 1 # d.power
  <2>1. Observe(d, value) = [d EXCEPT !.distance = d.distance + 1]
    BY <1>3 DEF Observe
  <2>2. d.distance + 1 \in Nat
    BY DEF Detectors
  <2> QED
    BY <1>3, <2>1, <2>2 DEF Detectors
<1> QED
  BY <1>1, <1>2, <1>3

LEMMA WalkStep == ASSUME ObjectsInv, ListObjects PROVE ObjectsInv'
<1>0. S3TypeOK /\ WalkOK /\ ComposedOK /\ MultipartOK
  BY DEF ObjectsInv
<1>1. call \in WalkCalls /\ call.op = "walk" /\ call.pc = "list" /\ call \in Calls
  BY <1>0, CallKinds DEF ListObjects, S3TypeOK, Calls
<1>2. UNCHANGED <<bucket, lasting, ever, server, open, composed, mishap>>
  BY DEF ListObjects, SameBucket, multipart, environment
<1>3. PICK page \in ListingPages :
        LET seen == call.seen \cup Indexed(page.keys)
            bytes == call.bytes + Cardinality(Indexed(page.keys))
        IN \/ Answer("error")
           \/ /\ page.more /\ page.token # None /\ Repeats(call.cycles, page.token)
              /\ Answer("cyclic")
           \/ /\ ~page.more
              /\ call' = [call EXCEPT !.seen = seen, !.bytes = bytes, !.pc = IndexedResult(seen)]
           \/ /\ page.more /\ page.token # None
              /\ call' = [call EXCEPT !.seen = seen, !.bytes = bytes, !.token = page.token,
                                      !.cycles = Observe(@, page.token)]
  BY DEF ListObjects
<1> DEFINE fresh == Indexed(page.keys)
           seen == call.seen \cup fresh
           bytes == call.bytes + Cardinality(fresh)
<1>4. /\ page.keys \subseteq Listed /\ page.token \in Token \cup {None}
      /\ server.sane =>
           /\ page.keys \subseteq bucket
           /\ page.more /\ page.token # None => page.token \in Key /\ page.token > call.token
           /\ \A k \in bucket \cap Key :
                /\ ~page.more /\ k > call.token => k \in page.keys
                /\ page.more /\ page.token # None /\ k > call.token /\ k <= page.token
                     => k \in page.keys
  BY <1>0, <1>1, ListingFacts
<1>5. /\ call.expected \in Key /\ call.seen \in SUBSET Key /\ call.bytes = Cardinality(call.seen)
      /\ call.token \in Token /\ call.cycles \in Detectors(Token)
  BY <1>0, <1>1 DEF WalkCalls, WalkOK
<1>6. IsFiniteSet(Key) /\ Key \subseteq Nat /\ Keys \in Nat /\ Token \subseteq Nat
  BY KeysFinite, S3Assumption DEF Token
<1>7. fresh \in SUBSET Key /\ fresh \cap call.seen = {} /\ fresh \subseteq page.keys
      /\ \A k \in page.keys : k <= call.expected => k \in seen
  BY <1>4, <1>5, <1>6 DEF Indexed, Listed, Outside, Key
<1> HIDE DEF fresh
<1>8. bytes = Cardinality(seen) /\ bytes \in Nat /\ seen \in SUBSET Key
  <2>1. IsFiniteSet(fresh) /\ IsFiniteSet(call.seen) /\ IsFiniteSet(seen)
    BY <1>5, <1>6, <1>7, FS_Subset
  <2>2. Cardinality(seen) = Cardinality(call.seen) + Cardinality(fresh)
                              - Cardinality(call.seen \cap fresh)
    BY <2>1, FS_Union
  <2>3. Cardinality(call.seen \cap fresh) = 0
    BY <1>7, FS_EmptySet
  <2>4. Cardinality(call.seen) \in Nat /\ Cardinality(fresh) \in Nat
    BY <2>1, FS_CardinalityType
  <2> QED
    BY <1>5, <1>7, <2>2, <2>3, <2>4
<1> HIDE DEF bytes
<1>9. ASSUME server.sane PROVE seen \subseteq ever
  BY <1>0, <1>1, <1>4, <1>7, <1>9 DEF S3TypeOK, WalkOK
<1>10. ASSUME server.sane, NEW k \in lasting, k <= call.expected, k \in Key,
              \/ k <= call.token
              \/ ~page.more
              \/ page.more /\ page.token # None /\ k <= page.token
       PROVE  k \in seen
  <2>1. k <= call.token => k \in call.seen
    BY <1>0, <1>1, <1>10 DEF WalkOK
  <2>0. k \in bucket \cap Key /\ k \in Nat /\ call.token \in Nat
    BY <1>0, <1>5, <1>6, <1>10 DEF S3TypeOK
  <2>2. ASSUME k > call.token PROVE k \in page.keys
    <3>1. ~(k <= call.token)
      BY <2>0, <2>2
    <3>2. CASE ~page.more
      BY <1>4, <1>10, <2>0, <2>2, <3>2, Zenon
    <3>3. CASE page.more /\ page.token # None /\ k <= page.token
      BY <1>4, <1>10, <2>0, <2>2, <3>3, Zenon
    <3> QED
      BY <1>10, <3>1, <3>2, <3>3, Zenon
  <2>3. k <= call.token \/ k > call.token
    BY <2>0
  <2> QED
    BY <1>7, <1>10, <2>1, <2>2, <2>3
<1> HIDE DEF seen
<1>11. CASE Answer("error")
  BY <1>0, <1>1, <1>2, <1>11, AnswerStep DEF Moves, MultipartOK, SameBucket, Results, S3TypeOK
<1>12. CASE Answer("cyclic") /\ page.more /\ page.token # None /\ Repeats(call.cycles, page.token)
  <2>1. ASSUME server.sane PROVE FALSE
    <3>1. page.token \in Key /\ page.token > call.token
      BY <1>4, <1>12, <2>1, Zenon
    <3>2. page.token \in 0..call.token
      BY <1>0, <1>1, <1>12, <2>1, Zenon DEF WalkOK, Repeats
    <3>3. page.token \in Nat /\ call.token \in Nat
      BY <1>5, <1>6, <3>1
    <3> QED
      BY <3>1, <3>2, <3>3
  <2> QED
    BY <1>0, <1>1, <1>2, <1>12, <2>1, AnswerStep
       DEF Moves, MultipartOK, SameBucket, Results, S3TypeOK
<1>13. CASE /\ ~page.more
            /\ call' = [call EXCEPT !.seen = seen, !.bytes = bytes, !.pc = IndexedResult(seen)]
  <2> DEFINE result == IndexedResult(seen)
  <2>1. /\ result \in {"ok", "missing"} /\ result \in Results
        /\ result = "missing" => \E k \in 1..call.expected : k \notin seen
    BY DEF IndexedResult, Results
  <2> HIDE DEF result
  <2>2. /\ call' \in WalkCalls /\ call'.op = "walk" /\ call'.pc = result /\ call'.seen = seen
        /\ call'.bytes = bytes /\ call'.cycles = call.cycles /\ call'.token = call.token
        /\ call'.expected = call.expected
    BY <1>1, <1>8, <1>13, <2>1 DEF WalkCalls, result
  <2>3. ASSUME server.sane, NEW k \in 1..call.expected, k \notin seen PROVE k \notin lasting
    BY <1>5, <1>6, <1>10, <1>13, <2>3, S3Assumption DEF Key
  <2>4. WalkOK'
    BY <1>0, <1>1, <1>2, <1>8, <1>9, <2>1, <2>2, <2>3 DEF WalkOK
  <2>5. S3TypeOK'
    BY <1>0, <1>2, <2>2 DEF S3TypeOK
  <2> QED
    BY <1>0, <1>1, <1>2, <2>1, <2>2, <2>4, <2>5
       DEF ObjectsInv, DeleteOK, ComposeOK, ComposedOK, MultipartOK, RangeOK, Done
<1>14. CASE /\ page.more /\ page.token # None
            /\ call' = [call EXCEPT !.seen = seen, !.bytes = bytes, !.token = page.token,
                                    !.cycles = Observe(@, page.token)]
  <2> DEFINE cycles == Observe(call.cycles, page.token)
  <2>1. /\ cycles \in Detectors(Token)
        /\ cycles.checkpoint = call.cycles.checkpoint \/ cycles.checkpoint = page.token
        /\ ~call.cycles.initialized => cycles.checkpoint = page.token
    BY <1>4, <1>5, <1>14, ObserveType
  <2>2. call' = [call EXCEPT !.seen = seen, !.bytes = bytes, !.token = page.token,
                             !.cycles = cycles]
    BY <1>1, <1>14
  <2> HIDE DEF cycles
  <2>3. /\ call' \in WalkCalls /\ call'.op = "walk" /\ call'.pc = "list" /\ call'.seen = seen
        /\ call'.bytes = bytes /\ call'.cycles = cycles /\ call'.token = page.token
        /\ call'.expected = call.expected
    BY <1>1, <1>4, <1>8, <1>14, <2>1, <2>2 DEF WalkCalls
  <2>4. ASSUME server.sane PROVE cycles.checkpoint \in 0..page.token
    BY <1>0, <1>1, <1>4, <1>5, <1>6, <1>14, <2>1, <2>4 DEF WalkOK
  <2>5. ASSUME server.sane, NEW k \in lasting, k <= page.token, k <= call.expected
        PROVE  k \in seen
    <3>0. PICK e \in Nat : e = call.expected /\ e <= Keys
      BY <1>5, <1>6 DEF Key
    <3>1. k \in Key
      <4>1. k \in Listed
        BY <1>0, <2>5 DEF S3TypeOK
      <4> QED
        BY <1>6, <2>5, <3>0, <4>1 DEF Listed, Outside
    <3> QED
      BY <1>10, <1>14, <2>5, <3>1
  <2>6. WalkOK'
    BY <1>0, <1>1, <1>2, <1>8, <1>9, <2>3, <2>4, <2>5 DEF WalkOK
  <2>7. S3TypeOK'
    BY <1>0, <1>2, <2>3 DEF S3TypeOK
  <2> QED
    BY <1>0, <1>1, <1>2, <2>3, <2>6, <2>7
       DEF ObjectsInv, DeleteOK, ComposeOK, ComposedOK, MultipartOK, RangeOK, Done
<1> QED
  BY <1>3, <1>11, <1>12, <1>13, <1>14 DEF bytes, seen, fresh

-----------------------------------------------------------------------------
(* The deletion of a folder.                                                 *)

LEMMA DeletionStep ==
  ASSUME ObjectsInv, ListForDeletion \/ DeletePage \/ ReachWorkLimit
  PROVE  ObjectsInv'
<1>0. S3TypeOK /\ ComposedOK /\ MultipartOK
  BY DEF ObjectsInv
<1>1. call \in DeleteCalls /\ call.op = "delete" /\ call.pc \in {"list", "delete"} /\ call \in Calls
  BY <1>0, CallKinds DEF ListForDeletion, DeletePage, ReachWorkLimit, S3TypeOK, Calls
<1>2. UNCHANGED <<server, open, composed, mishap>>
  BY DEF ListForDeletion, DeletePage, ReachWorkLimit, multipart, environment
<1>3. ASSUME SameBucket, NEW result \in {"error", "ok", "cyclic"}, Answer(result),
             UNCHANGED environment, server.sane /\ result = "ok" => lasting \cap Key = {}
      PROVE  ObjectsInv'
  BY <1>0, <1>1, <1>2, <1>3, AnswerStep DEF Moves, MultipartOK, Results, S3TypeOK, environment
<1>4. ASSUME call' \in DeleteCalls, call'.pc \in {"list", "delete", "error"},
             lasting' \subseteq bucket', bucket' \subseteq Listed, bucket' \subseteq ever',
             Outside \in bucket'
      PROVE  ObjectsInv'
  <2>1. call'.op = "delete"
    BY <1>4 DEF DeleteCalls
  <2>2. S3TypeOK'
    BY <1>0, <1>2, <1>4 DEF S3TypeOK
  <2> QED
    BY <1>0, <1>1, <1>2, <1>4, <2>1, <2>2
       DEF ObjectsInv, WalkOK, DeleteOK, ComposeOK, ComposedOK, MultipartOK, RangeOK, Done
<1>5. CASE ReachWorkLimit
  BY <1>3, <1>5 DEF ReachWorkLimit
<1>6. CASE DeletePage
  <2>1. PICK removed \in SUBSET call.page :
          /\ Bucket(bucket \ removed)
          /\ \/ Answer("error")
             \/ call' = [call EXCEPT !.pc = "list", !.page = {}, !.number = @ + 1]
    BY <1>6 DEF DeletePage
  <2>2. call.page \subseteq Key /\ call.number + 1 \in Nat
    BY <1>1 DEF DeleteCalls
  <2>3. Outside \notin Key
    BY S3Assumption DEF Outside, Key
  <2>4. call' \in DeleteCalls /\ call'.pc \in {"list", "error"}
    BY <1>1, <2>1, <2>2 DEF DeleteCalls, Answer, Results
  <2> QED
    BY <1>0, <1>4, <2>1, <2>2, <2>3, <2>4 DEF Bucket, S3TypeOK
<1>7. CASE ListForDeletion
  <2>0. SameBucket /\ UNCHANGED environment
    BY <1>7 DEF ListForDeletion
  <2>1. PICK page \in (IF server.sane THEN {FirstPage(bucket \cap Key)} ELSE AnyPage) :
          \/ Answer("error")
          \/ page = {} /\ Answer("ok")
          \/ Answer("cyclic")
          \/ /\ Outside \notin page
             /\ \/ call' = [call EXCEPT !.pc = "delete", !.page = page, !.stuck = @ + 1]
                \/ call' = [call EXCEPT !.pc = "delete", !.page = page, !.previous = page,
                                        !.stuck = 0, !.cycles = Observe(@, page)]
    BY <1>7 DEF ListForDeletion
  <2>2. page \subseteq Listed
    <3>1. CASE server.sane
      <4>1. page = FirstPage(bucket \cap Key)
        BY <2>1, <3>1
      <4> QED
        BY <4>1, PageFacts DEF Listed
    <3>2. CASE ~server.sane
      BY <2>1, <3>2 DEF AnyPage
    <3> QED
      BY <3>1, <3>2
  <2>3. server.sane /\ page = {} => lasting \cap Key = {}
    <3> SUFFICES ASSUME server.sane, page = {} PROVE lasting \cap Key = {}
      OBVIOUS
    <3>1. page = FirstPage(bucket \cap Key)
      BY <2>1
    <3>2. bucket \cap Key = {}
      BY <3>1, PageFacts
    <3> QED
      BY <1>0, <3>2 DEF S3TypeOK
  <2>4. CASE Answer("error") \/ (page = {} /\ Answer("ok")) \/ Answer("cyclic")
    BY <1>3, <2>0, <2>3, <2>4
  <2>5. ASSUME page \in SUBSET Key,
               call' = [call EXCEPT !.pc = "delete", !.page = page, !.stuck = @ + 1]
        PROVE  ObjectsInv'
    <3>1. call.stuck + 1 \in Nat
      BY <1>1 DEF DeleteCalls
    <3>2. call' \in DeleteCalls /\ call'.pc = "delete"
      BY <1>1, <2>5, <3>1 DEF DeleteCalls
    <3> QED
      BY <1>0, <1>4, <2>0, <3>2 DEF SameBucket, S3TypeOK
  <2>6. ASSUME page \in SUBSET Key,
               call' = [call EXCEPT !.pc = "delete", !.page = page, !.previous = page,
                                    !.stuck = 0, !.cycles = Observe(@, page)]
        PROVE  ObjectsInv'
    <3>1. PICK cycles \in Detectors(SUBSET Key) : cycles = Observe(call.cycles, page)
      BY <1>1, <2>6, ObserveType DEF DeleteCalls
    <3>2. call' = [call EXCEPT !.pc = "delete", !.page = page, !.previous = page,
                               !.stuck = 0, !.cycles = cycles]
      BY <1>1, <2>6, <3>1 DEF DeleteCalls
    <3>3. PICK a \in DeleteCalls :
            a = [call EXCEPT !.pc = "delete", !.page = page, !.previous = page]
      BY <1>1, <2>6 DEF DeleteCalls
    <3>4. call' = [a EXCEPT !.stuck = 0, !.cycles = cycles]
      BY <3>2, <3>3
    <3>5. call' \in DeleteCalls
      BY <3>4 DEF DeleteCalls
    <3>6. call'.pc = "delete"
      BY <1>1, <3>2 DEF DeleteCalls
    <3> QED
      BY <1>0, <1>4, <2>0, <3>5, <3>6 DEF SameBucket, S3TypeOK
  <2> QED
    BY <2>1, <2>2, <2>4, <2>5, <2>6 DEF Listed
<1> QED
  BY <1>5, <1>6, <1>7

-----------------------------------------------------------------------------
(* Uploads, ranges, and the ends of a call.                                  *)

LEMMA UploadStep ==
  ASSUME ObjectsInv, PutObject \/ TransferParts
  PROVE  ObjectsInv'
<1>0. S3TypeOK /\ MultipartOK
  BY DEF ObjectsInv
<1>1. /\ call.op = "upload" /\ UNCHANGED <<server, mishap>> /\ mishap \in BOOLEAN
      /\ open \in BOOLEAN /\ composed' = composed
  BY <1>0 DEF PutObject, TransferParts, environment, multipart, S3TypeOK
<1>2. CASE PutObject
  <2>1. open' = open /\ (open => mishap)
    BY <1>0, <1>2 DEF PutObject, multipart, MultipartOK
  <2> QED
    BY <1>1, <1>2, <2>1, AnswerStep DEF Moves, PutObject, Results
<1>3. CASE TransferParts
  <2>1. /\ SameBucket \/ Bucket(bucket \cup {1})
        /\ \/ Answer("ok") /\ ~open'
           \/ Failing("error")
        /\ open' \in BOOLEAN
    BY <1>0, <1>1, <1>3 DEF TransferParts
  <2> QED
    BY <1>1, <2>1, AnswerStep DEF Moves, Results, Causes
<1> QED
  BY <1>2, <1>3

LEMMA RangeStep ==
  ASSUME ObjectsInv, GetRange \/ ReadRange
  PROVE  ObjectsInv'
<1>0. S3TypeOK /\ MultipartOK /\ ComposedOK
  BY DEF ObjectsInv
<1>1. /\ call.op = "range" /\ UNCHANGED <<server, open, composed, mishap>> /\ SameBucket
      /\ open \in BOOLEAN /\ mishap \in BOOLEAN /\ call \in RangeCalls
      /\ call.pc \in {"get", "stream"}
  BY <1>0, CallKinds DEF GetRange, ReadRange, environment, multipart, S3TypeOK, Calls
<1>2. open => mishap
  BY <1>0, <1>1 DEF MultipartOK
<1>3. CASE Answer("error") \/ (ReadRange /\ Answer("ok"))
  BY <1>1, <1>2, <1>3, AnswerStep DEF Moves, ReadRange, Results
<1>4. ASSUME NEW body, body = IF server.sane THEN Requested \cap Bytes ELSE Bytes,
             Cardinality(body) = call.count, call.offset > 0 => server.sane,
             call' = [call EXCEPT !.pc = "stream", !.body = body]
      PROVE  ObjectsInv'
  <2>0. call.offset \in Nat /\ call.count \in Nat /\ Keys \in Nat
    BY <1>1, S3Assumption DEF RangeCalls
  <2>1. body \in SUBSET Key /\ Bytes = Key
    BY <1>4 DEF Bytes
  <2>2. body = Requested
    <3>1. CASE server.sane
      <4>1. PICK a \in Int, b \in Int : a = call.offset + 1 /\ b = call.offset + call.count
        BY <2>0
      <4>2. IsFiniteSet(a..b) /\ Cardinality(a..b) = IF a > b THEN 0 ELSE b - a + 1
        BY FS_Interval
      <4>3. Requested = a..b
        BY <4>1 DEF Requested
      <4>4. Cardinality(Requested) = call.count
        BY <2>0, <4>1, <4>2, <4>3
      <4>5. IsFiniteSet(Requested) /\ body \in SUBSET Requested
        BY <1>4, <3>1, <4>2, <4>3, Zenon
      <4> QED
        BY <1>4, <4>4, <4>5, FS_Subset
    <3>2. CASE ~server.sane
      <4>1. call.offset = 0 /\ body = Key
        BY <1>4, <2>0, <2>1, <3>2
      <4>2. Cardinality(1..Keys) = Keys
        BY <2>0, FS_Interval
      <4>3. call.count = Keys
        BY <1>4, <4>1, <4>2 DEF Key
      <4> QED
        BY <2>0, <4>1, <4>3 DEF Key, Requested
    <3> QED
      BY <3>1, <3>2
  <2>3. /\ call' \in RangeCalls /\ call'.op = "range" /\ call'.pc = "stream" /\ call'.body = body
        /\ call'.offset = call.offset /\ call'.count = call.count
    BY <1>1, <1>4, <2>1 DEF RangeCalls
  <2>4. RangeOK'
    BY <2>2, <2>3 DEF RangeOK, Requested
  <2>5. S3TypeOK'
    BY <1>0, <1>1, <2>3 DEF S3TypeOK, SameBucket
  <2> QED
    BY <1>0, <1>1, <1>2, <2>3, <2>4, <2>5
       DEF ObjectsInv, WalkOK, DeleteOK, ComposeOK, ComposedOK, MultipartOK, Done
<1> QED
  BY <1>3, <1>4 DEF GetRange, ReadRange

(* A call ends where it may, and an upload is made or aborted.               *)
LEMMA EndingStep ==
  ASSUME ObjectsInv, \/ Fails \/ ProcessEnds \/ AbortMultipartUpload
                     \/ call.op # "compose" /\ CreateMultipartUpload
  PROVE  ObjectsInv'
<1>0. /\ S3TypeOK /\ MultipartOK /\ open \in BOOLEAN /\ mishap \in BOOLEAN
      /\ call \in Calls
  BY DEF ObjectsInv, S3TypeOK, Calls
<1>1. UNCHANGED <<server, composed>> /\ SameBucket
  BY DEF Fails, ProcessEnds, AbortMultipartUpload, CreateMultipartUpload, environment, multipart
<1>2. CASE Fails
  <2>1. open' = open /\ mishap' = mishap /\ Answer("error") /\ call.pc = "list"
    BY <1>2 DEF Fails, multipart
  <2>2. open => mishap
    BY <1>0, <2>1 DEF MultipartOK
  <2> QED
    BY <1>0, <1>1, <2>1, <2>2, AnswerStep DEF Moves, Results
<1>3. CASE ProcessEnds
  <2>1. mishap' = TRUE /\ open' = open /\ Answer("crashed")
    BY <1>3 DEF ProcessEnds
  <2> QED
    BY <1>0, <1>1, <2>1, AnswerStep DEF Moves, Results
<1>4. CASE AbortMultipartUpload
  <2>1. call.op \in {"compose", "upload"}
    BY <1>0, <1>4, CallKinds
       DEF AbortMultipartUpload, WalkCalls, DeleteCalls, RangeCalls, Results
  <2>2. call.cause \in Causes
    BY <1>0, <2>1, CallKinds DEF ComposeCalls, UploadCalls
  <2>3. /\ Answer("error") \/ Answer("unsupported")
        /\ open' \in BOOLEAN /\ mishap' \in BOOLEAN /\ (open' => mishap')
    BY <1>0, <1>4, <2>2 DEF AbortMultipartUpload, Causes
  <2> QED
    BY <1>1, <2>1, <2>3, AnswerStep DEF Moves, Results
<1>5. CASE call.op # "compose" /\ CreateMultipartUpload
  <2>1. call.op = "upload" /\ call.pc = "create"
    BY <1>0, <1>5, CallKinds
       DEF CreateMultipartUpload, WalkCalls, DeleteCalls, RangeCalls, Results
  <2>2. open => mishap
    BY <1>0, <2>1 DEF MultipartOK
  <2>3. CASE open' = TRUE /\ Answer("copy") /\ UNCHANGED mishap
    BY <1>0, <1>1, <2>1, <2>3, AnswerStep DEF Moves
  <2>4. CASE open' = TRUE /\ mishap' = TRUE /\ Answer("error")
    BY <1>1, <2>1, <2>4, AnswerStep DEF Moves, Results
  <2>5. CASE Answer("error") /\ UNCHANGED <<open, mishap>>
    BY <1>0, <1>1, <2>1, <2>2, <2>5, AnswerStep DEF Moves, Results
  <2> QED
    BY <1>5, <2>3, <2>4, <2>5 DEF CreateMultipartUpload
<1> QED
  BY <1>2, <1>3, <1>4, <1>5

(* Others put and remove objects.                                            *)
LEMMA ChangeStep == ASSUME ObjectsInv, Change PROVE ObjectsInv'
<1>0. S3TypeOK /\ WalkOK /\ DeleteOK /\ ComposeOK /\ ComposedOK /\ MultipartOK /\ RangeOK
  BY DEF ObjectsInv
<1>1. PICK new : Bucket(new) /\ \E k \in Key : new \in {bucket \ {k}, bucket \cup {k}}
  BY DEF Change
<1>2. UNCHANGED <<call, server, open, composed, mishap>>
  BY DEF Change, multipart
<1>3. Outside \notin Key
  BY S3Assumption DEF Outside, Key
<1>4. /\ bucket' = new /\ lasting' = lasting \cap new /\ ever' = ever \cup new
      /\ new \subseteq Listed /\ Outside \in new
  BY <1>0, <1>1, <1>3 DEF Bucket, S3TypeOK, Listed
<1>5. S3TypeOK'
  BY <1>0, <1>2, <1>4 DEF S3TypeOK
<1>6. WalkOK'
  BY <1>0, <1>2, <1>4 DEF WalkOK
<1>7. DeleteOK'
  BY <1>0, <1>2, <1>4 DEF DeleteOK, Done
<1>8. ComposeOK' /\ ComposedOK'
  BY <1>0, <1>2 DEF ComposeOK, ComposedOK, Chained, NextPart
<1>9. MultipartOK' /\ RangeOK'
  BY <1>0, <1>2 DEF MultipartOK, RangeOK, Requested
<1> QED
  BY <1>5, <1>6, <1>7, <1>8, <1>9 DEF ObjectsInv

-----------------------------------------------------------------------------
(* The plan of a composed object.                                            *)

LEMMA DivMod ==
  ASSUME NEW n \in Nat, NEW d \in Nat, d > 0
  PROVE  /\ n \div d \in Nat /\ n % d \in Nat /\ n % d < d
         /\ n = d * (n \div d) + (n % d)
OBVIOUS

LEMMA CeilingFacts ==
  ASSUME NEW n \in Nat, n > 0, NEW d \in Nat, d > 0, NEW c, c = Ceiling(n, d)
  PROVE  c \in Nat /\ c > 0 /\ c <= n /\ n <= c * d
<1>1. /\ c \in Nat /\ (n + d - 1) % d \in Nat /\ (n + d - 1) % d < d
      /\ n + d - 1 = d * c + ((n + d - 1) % d)
  BY DivMod DEF Ceiling
<1>2. PICK r \in Nat : r < d /\ n + d - 1 = d * c + r
  BY <1>1
<1>3. n <= c * d /\ c > 0
  BY ONLY <1>1, <1>2, n \in Nat, n > 0, d \in Nat, d > 0
<1>4. c <= n
  <2>1. CASE c > n
    <3>1. d * c >= d * (n + 1)
      BY ONLY <1>1, <2>1, n \in Nat, d \in Nat
    <3>2. d * (n + 1) = d * n + d
      BY ONLY n \in Nat, d \in Nat
    <3>3. d * n >= n
      BY ONLY n \in Nat, d \in Nat, d > 0
    <3> QED
      BY ONLY <1>1, <1>2, <3>1, <3>2, <3>3, n \in Nat, d \in Nat
  <2> QED
    BY <1>1, <2>1
<1> QED
  BY <1>1, <1>3, <1>4

LEMMA MinOf ==
  ASSUME NEW a \in Nat, NEW b \in Nat
  PROVE  Min({a, b}) = IF a <= b THEN a ELSE b
<1>1. \E x \in {a, b} : \A y \in {a, b} : x <= y
  OBVIOUS
<1>2. PICK x \in {a, b} : (\A y \in {a, b} : x <= y) /\ x = Min({a, b})
  BY <1>1 DEF Min
<1> QED
  BY <1>2

(* The parts of a source follow each other from its first byte to its last,  *)
(* and none is empty or larger than a part may be.                           *)
Divides(parts, s, size) ==
  /\ parts \in Seq(PartRecord) /\ Len(parts) > 0
  /\ parts[1].start = 0
  /\ \A i \in 1..Len(parts) :
       /\ parts[i].source = s /\ parts[i].size <= MaxPart
       /\ IF i = Len(parts) THEN parts[i].start + parts[i].size = size
          ELSE /\ parts[i].start + parts[i].size = parts[i + 1].start
               /\ parts[i].start + parts[i].size < size

LEMMA SplitFacts ==
  ASSUME NEW s \in Nat, NEW size \in Nat, size > 0
  PROVE  Divides(Split(s, size), s, size)
<1>0. PICK parts : parts = Split(s, size)
  OBVIOUS
<1> DEFINE count == Ceiling(size, MaxPart)
           base == size \div count
           extra == size % count
<1>1. MaxPart \in Nat /\ MaxPart > 0
  BY S3Assumption
<1>2. count \in Nat /\ count > 0 /\ count <= size /\ size <= count * MaxPart
  BY <1>1, CeilingFacts
<1> HIDE DEF count
<1>3. base \in Nat /\ extra \in Nat /\ extra < count /\ size = count * base + extra
  BY <1>2, DivMod
<1>4. parts = [i \in 1..count |->
                [source |-> s, start |-> (i - 1) * base + Min({i - 1, extra}),
                 size |-> base + (IF i - 1 < extra THEN 1 ELSE 0)]]
  BY <1>0 DEF Split, count
<1> HIDE DEF base, extra
<1>5. base > 0
  BY ONLY <1>2, <1>3, size \in Nat
<1>6. base + (IF extra > 0 THEN 1 ELSE 0) <= MaxPart
  <2>1. CASE extra > 0
    <3>1. base < MaxPart
      BY ONLY <1>1, <1>2, <1>3, <2>1, size \in Nat
    <3> QED
      BY <1>1, <1>3, <2>1, <3>1
  <2>2. CASE extra = 0
    <3>1. base <= MaxPart
      BY ONLY <1>1, <1>2, <1>3, <2>2, size \in Nat
    <3> QED
      BY <1>1, <1>3, <2>2, <3>1
  <2> QED
    BY <1>3, <2>1, <2>2
<1> DEFINE Begin(i) == (i - 1) * base + (IF i - 1 <= extra THEN i - 1 ELSE extra)
           SizeOf(i) == base + (IF i - 1 < extra THEN 1 ELSE 0)
<1>7. ASSUME NEW i \in 1..count
      PROVE  parts[i].source = s /\ parts[i].start = Begin(i) /\ parts[i].size = SizeOf(i)
  <2>1. i - 1 \in Nat
    BY <1>2
  <2>2. Min({i - 1, extra}) = IF i - 1 <= extra THEN i - 1 ELSE extra
    BY <1>3, <2>1, MinOf
  <2>3. parts[i] = [source |-> s, start |-> Begin(i), size |-> SizeOf(i)]
    BY <1>4, <2>2
  <2> HIDE DEF Begin, SizeOf
  <2> QED
    BY <2>3
<1>8. Len(parts) = count /\ DOMAIN parts = 1..count
  BY <1>2, <1>4
<1>9. ASSUME NEW i \in 1..count
      PROVE  /\ parts[i] \in PartRecord /\ parts[i].source = s /\ parts[i].size <= MaxPart
             /\ IF i = count THEN parts[i].start + parts[i].size = size
                ELSE /\ parts[i].start + parts[i].size = parts[i + 1].start
                     /\ parts[i].start + parts[i].size < size
  <2>1. PICK j \in Nat : j = i - 1
    BY <1>2
  <2>2. j * base \in Nat /\ (j + 1) * base = j * base + base
    BY ONLY <1>3, <2>1
  <2>3. Begin(i) = j * base + (IF j <= extra THEN j ELSE extra)
    BY <2>1
  <2>4. Begin(i) \in Nat /\ SizeOf(i) \in Nat
    BY <1>3, <2>1, <2>2, <2>3
  <2>5. SizeOf(i) <= MaxPart
    BY <1>1, <1>3, <1>6
  <2>6. i = count => Begin(i) + SizeOf(i) = size
    BY ONLY <1>2, <1>3, <2>1, <2>2, <2>3, i \in 1..count, size \in Nat
  <2>7. Begin(i + 1) = (j + 1) * base + (IF j + 1 <= extra THEN j + 1 ELSE extra)
    BY <2>1
  <2>8. Begin(i) + SizeOf(i) = Begin(i + 1)
    BY ONLY <1>2, <1>3, <2>1, <2>2, <2>3, <2>7, i \in 1..count
  <2>9. i # count => Begin(i + 1) < size
    <3> SUFFICES ASSUME i # count PROVE Begin(i + 1) < size
      OBVIOUS
    <3>1. j + 1 < count
      BY <1>2, <2>1
    <3>2. (j + 1) * base < count * base
      BY ONLY <1>2, <1>3, <1>5, <2>1, <3>1
    <3>3. (j + 1) * base \in Nat /\ count * base \in Nat
      BY ONLY <1>2, <1>3, <2>1
    <3> QED
      BY ONLY <1>3, <2>1, <2>7, <3>2, <3>3, size \in Nat
  <2>10. parts[i].source = s /\ parts[i].start = Begin(i) /\ parts[i].size = SizeOf(i)
    BY <1>7
  <2>11. i # count => parts[i + 1].start = Begin(i + 1)
    <3>1. i # count => i + 1 \in 1..count
      BY <1>2
    <3> QED
      BY <1>7, <3>1
  <2>12. parts[i] \in PartRecord
    <3>1. parts[i] = [source |-> s, start |-> parts[i].start, size |-> parts[i].size]
      BY <1>4
    <3> QED
      BY <2>4, <2>10, <3>1 DEF PartRecord
  <2> HIDE DEF Begin, SizeOf
  <2> QED
    BY <2>4, <2>5, <2>6, <2>8, <2>9, <2>10, <2>11, <2>12
<1>10. parts \in Seq(PartRecord)
  <2>1. parts \in [1..count -> PartRecord]
    BY <1>4, <1>9
  <2> QED
    BY <1>2, <2>1
<1>11. parts[1].start = 0
  <2>1. Begin(1) = 0 /\ 1 \in 1..count
    BY <1>2, <1>3
  <2> QED
    BY <1>7, <2>1
<1> QED
  BY <1>0, <1>2, <1>8, <1>9, <1>10, <1>11 DEF Divides

LEMMA DivideFacts ==
  ASSUME NEW parts, NEW s, NEW size, Divides(parts, s, size)
  PROVE  /\ Len(parts) \in Nat /\ DOMAIN parts = 1..Len(parts) /\ 1 \in DOMAIN parts
         /\ parts[1].start = 0 /\ parts[1].source = s
         /\ \A i \in DOMAIN parts :
              /\ parts[i] \in PartRecord /\ parts[i].source = s
              /\ parts[i].size \in Nat /\ parts[i].size <= MaxPart
              /\ i = Len(parts) => parts[i].start + parts[i].size = size
              /\ i # Len(parts) =>
                   /\ i + 1 \in DOMAIN parts
                   /\ parts[i].start + parts[i].size = parts[i + 1].start
                   /\ parts[i].start + parts[i].size < size
<1>1. PICK n \in Nat : n = Len(parts) /\ n > 0 /\ DOMAIN parts = 1..n
  BY DEF Divides
<1>2. 1 \in 1..n /\ \A i \in 1..n : i # n => i + 1 \in 1..n
  BY <1>1
<1>3. \A i \in 1..n : parts[i] \in PartRecord /\ parts[i].size \in Nat
  <2>1. parts \in Seq(PartRecord)
    BY DEF Divides
  <2>2. \A i \in 1..n : parts[i] \in PartRecord
    BY <1>1, <2>1
  <2>3. \A p \in PartRecord : p.size \in Nat
    BY DEF PartRecord
  <2> QED
    BY <2>2, <2>3
<1> QED
  BY <1>1, <1>2, <1>3 DEF Divides

LEMMA PlanFacts ==
  ASSUME NEW sizes \in Seq(Nat), Plannable(sizes)
  PROVE  /\ Len(sizes) \in Nat /\ Len(sizes) > 0 /\ DOMAIN sizes = 1..Len(sizes)
         /\ \A s \in DOMAIN sizes : Divides(PartsOf(sizes, s), s, sizes[s])
         /\ Before(sizes, 1) = 0 /\ Before(sizes, Len(sizes) + 1) <= MaxParts
         /\ \A s \in DOMAIN sizes :
              /\ Before(sizes, s) \in Nat
              /\ Before(sizes, s + 1) = Before(sizes, s) + Len(PartsOf(sizes, s))
<1>1. Len(sizes) \in Nat /\ Len(sizes) > 0 /\ DOMAIN sizes = 1..Len(sizes)
  BY DEF Plannable
<1>2. \A s \in DOMAIN sizes : s \in Nat /\ sizes[s] \in Nat /\ sizes[s] > 0
  BY <1>1 DEF Plannable
<1>3. \A s \in DOMAIN sizes : Divides(PartsOf(sizes, s), s, sizes[s])
  BY <1>2, SplitFacts DEF PartsOf
<1> DEFINE f == Lengths(sizes)
<1>4. \A n : Before(sizes, n) = SumOver(f, 1..n - 1)
  BY DEF Before, SumOver
<1>5. \A s \in DOMAIN sizes : f[s] = Len(PartsOf(sizes, s)) /\ f[s] \in Nat
  BY <1>3 DEF Lengths, Divides
<1> HIDE DEF f
<1>6. Before(sizes, 1) = 0
  <2>1. 1..1 - 1 = {}
    OBVIOUS
  <2> QED
    BY <1>4, <2>1, SumEmpty
<1>7. Before(sizes, Len(sizes) + 1) <= MaxParts
  BY DEF Plannable, Planned
<1>8. ASSUME NEW s \in DOMAIN sizes
      PROVE  /\ Before(sizes, s) \in Nat
             /\ Before(sizes, s + 1) = Before(sizes, s) + Len(PartsOf(sizes, s))
  <2> DEFINE S == 1..s - 1
  <2>1. s \in Nat /\ s \in 1..Len(sizes)
    BY <1>1, <1>2
  <2>2. 1..(s + 1) - 1 = S \cup {s} /\ s \notin S /\ S \subseteq DOMAIN sizes
    BY <1>1, <2>1
  <2>3. IsFiniteSet(S)
    <3>1. PICK m \in Int : m = s - 1
      BY <2>1
    <3>2. IsFiniteSet(1..m)
      BY FS_Interval
    <3> QED
      BY <3>1, <3>2
  <2>4. \A x \in S \cup {s} : f[x] \in Nat
    BY <1>5, <2>2
  <2> HIDE DEF S
  <2>5. SumOver(f, S \cup {s}) = f[s] + SumOver(f, S)
    BY <2>2, <2>3, <2>4, SumAdd, SMTT(30)
  <2>6. SumOver(f, S) \in Nat
    BY <2>3, <2>4, SumNat
  <2>7. Before(sizes, s) = SumOver(f, S)
    BY <1>4 DEF S
  <2>8. Before(sizes, s + 1) = SumOver(f, S \cup {s})
    BY <1>4, <2>2
  <2> QED
    BY <1>5, <2>5, <2>6, <2>7, <2>8
<1> QED
  BY <1>1, <1>3, <1>6, <1>7, <1>8

(* A compose call goes on.                                                   *)
LEMMA ComposeGoes ==
  ASSUME ObjectsInv, call.op = "compose", call' \in ComposeCalls, SameBucket,
         UNCHANGED <<server, composed>>, call'.sizes = call.sizes, open' \in BOOLEAN,
         mishap' \in BOOLEAN, call'.pc # "crashed",
         open' => mishap' \/ call'.pc \in {"copy", "complete"}, ComposeOK'
  PROVE  ObjectsInv'
<1>1. S3TypeOK /\ ComposedOK /\ call'.op = "compose"
  BY DEF ObjectsInv, ComposeCalls
<1>2. S3TypeOK'
  BY <1>1 DEF S3TypeOK, SameBucket
<1>3. ComposedOK'
  BY <1>1 DEF ComposedOK, Chained
<1> QED
  BY <1>1, <1>2, <1>3 DEF ObjectsInv, WalkOK, DeleteOK, MultipartOK, RangeOK, Done

LEMMA HeadStep == ASSUME ObjectsInv, HeadSource PROVE ObjectsInv'
<1>0. S3TypeOK /\ MultipartOK /\ ComposeOK
  BY DEF ObjectsInv
<1>1. call \in ComposeCalls /\ call.op = "compose" /\ call.pc = "head"
  BY <1>0, CallKinds DEF HeadSource, S3TypeOK, Calls
<1>2. /\ UNCHANGED <<server, open, composed, mishap>> /\ SameBucket
      /\ open \in BOOLEAN /\ mishap \in BOOLEAN /\ (open => mishap)
  BY <1>0, <1>1 DEF HeadSource, multipart, environment, MultipartOK, S3TypeOK
<1>3. CASE Answer("unsupported") \/ Answer("notfound") \/ Answer("error")
  BY <1>1, <1>2, <1>3, AnswerStep DEF Moves, Results
<1>4. CASE call' = [call EXCEPT !.heads = @ + 1]
  <2>0. call.heads + 1 \in Nat
    BY <1>1 DEF ComposeCalls
  <2>1. /\ call' \in ComposeCalls /\ call'.pc = "head" /\ call'.sizes = call.sizes
        /\ call'.copied = call.copied /\ call'.source = call.source /\ call'.number = call.number
    BY <1>1, <1>4, <2>0 DEF ComposeCalls
  <2>2. ComposeOK'
    BY <1>0, <1>1, <2>1 DEF ComposeOK, Chained
  <2> QED
    BY <1>1, <1>2, <2>1, <2>2, ComposeGoes
<1>5. CASE Answer("create") /\ Plannable(call.sizes)
  <2>1. /\ call' \in ComposeCalls /\ call'.pc = "create" /\ call'.sizes = call.sizes
        /\ call'.copied = call.copied /\ call'.source = call.source /\ call'.number = call.number
    BY <1>1, <1>5 DEF ComposeCalls, Answer
  <2>2. ComposeOK'
    BY <1>0, <1>1, <1>5, <2>1 DEF ComposeOK, Chained
  <2> QED
    BY <1>1, <1>2, <2>1, <2>2, ComposeGoes
<1> QED
  BY <1>3, <1>4, <1>5 DEF HeadSource

LEMMA CreateStep ==
  ASSUME ObjectsInv, call.op = "compose", CreateMultipartUpload
  PROVE  ObjectsInv'
<1>0. S3TypeOK /\ MultipartOK /\ ComposeOK /\ open \in BOOLEAN /\ mishap \in BOOLEAN
  BY DEF ObjectsInv, S3TypeOK
<1>1. call \in ComposeCalls /\ call.pc = "create"
  BY <1>0, CallKinds DEF CreateMultipartUpload, S3TypeOK, Calls
<1>2. UNCHANGED <<server, composed>> /\ SameBucket /\ (open => mishap)
  BY <1>0, <1>1 DEF CreateMultipartUpload, environment, MultipartOK
<1>3. CASE Answer("error") \/ Answer("unsupported")
  <2>1. open' \in BOOLEAN /\ mishap' \in BOOLEAN /\ (open' => mishap')
    <3>1. CASE open' = TRUE /\ mishap' = TRUE
      BY <3>1
    <3>2. CASE UNCHANGED <<open, mishap>>
      BY <1>0, <1>2, <3>2
    <3>3. ~Answer("copy")
      BY <1>1, <1>3 DEF Answer, ComposeCalls
    <3> QED
      BY <3>1, <3>2, <3>3 DEF CreateMultipartUpload
  <2> QED
    BY <1>2, <1>3, <2>1, AnswerStep DEF Moves, Results
<1>4. CASE open' = TRUE /\ Answer("copy") /\ UNCHANGED mishap
  <2>1. /\ call' \in ComposeCalls /\ call'.pc = "copy" /\ call'.sizes = call.sizes
        /\ call'.copied = call.copied /\ call'.source = call.source /\ call'.number = call.number
    BY <1>1, <1>4 DEF ComposeCalls, Answer
  <2>2. /\ call.copied = <<>> /\ call.source = 1 /\ call.number = 1 /\ Plannable(call.sizes)
        /\ call.sizes \in Seq(Nat)
    BY <1>0, <1>1 DEF ComposeOK, ComposeCalls
  <2>3. PICK sizes \in Seq(Nat) : sizes = call.sizes
    BY <2>2
  <2>4. /\ 1 \in DOMAIN sizes /\ 1 \in DOMAIN PartsOf(sizes, 1)
        /\ PartsOf(sizes, 1)[1].source = 1 /\ PartsOf(sizes, 1)[1].start = 0
        /\ PartsOf(sizes, 1)[1].size <= MaxPart /\ Before(sizes, 1) = 0
    <3>1. 1 \in DOMAIN sizes /\ Before(sizes, 1) = 0
      BY <2>2, <2>3, PlanFacts
    <3>2. Divides(PartsOf(sizes, 1), 1, sizes[1])
      BY <2>2, <2>3, <3>1, PlanFacts
    <3> QED
      BY <3>1, <3>2, DivideFacts
  <2>5. /\ call'.sizes = sizes /\ call'.source = 1 /\ call'.number = 1 /\ call'.copied = <<>>
        /\ NextPart' = PartsOf(sizes, 1)[1]
    BY <2>1, <2>2, <2>3 DEF NextPart
  <2>6. ComposeOK'
    BY <2>1, <2>2, <2>3, <2>4, <2>5 DEF ComposeOK, Chained, Begins
  <2> QED
    BY <1>0, <1>2, <1>4, <2>1, <2>6, ComposeGoes
<1> QED
  BY <1>3, <1>4 DEF CreateMultipartUpload

(* A compose call that fails goes on to abort its upload.                     *)
LEMMA AbortStep ==
  ASSUME ObjectsInv, Moves("abort"), call.op = "compose", SameBucket, open' \in BOOLEAN,
         UNCHANGED <<server, mishap, composed>>
  PROVE  ObjectsInv'
<1>1. mishap' \in BOOLEAN
  BY DEF ObjectsInv, S3TypeOK
<1>2. PICK result : result = "abort"
  OBVIOUS
<1>3. Moves(result)
  BY <1>2
<1> QED
  BY <1>1, <1>2, <1>3, AnswerStep

LEMMA CopyStep == ASSUME ObjectsInv, UploadPartCopy PROVE ObjectsInv'
<1>0. S3TypeOK /\ MultipartOK /\ ComposeOK /\ open \in BOOLEAN /\ mishap \in BOOLEAN
  BY DEF ObjectsInv, S3TypeOK
<1>1. call \in ComposeCalls /\ call.op = "compose" /\ call.pc = "copy"
  BY <1>0, CallKinds DEF UploadPartCopy, S3TypeOK, Calls
<1>2. UNCHANGED <<server, open, composed, mishap>> /\ SameBucket
  BY DEF UploadPartCopy, multipart, environment
<1>3. PICK sizes \in Seq(Nat), s \in Nat, number \in Nat, copied \in Seq(PartRecord) :
        /\ sizes = call.sizes /\ s = call.source /\ number = call.number
        /\ copied = call.copied
  BY <1>1 DEF ComposeCalls
<1>4. PICK parts : parts = PartsOf(sizes, s)
  OBVIOUS
<1>5. PICK part : part = parts[number] /\ part = NextPart
  BY <1>3, <1>4 DEF NextPart
<1>6. /\ Plannable(sizes) /\ s \in DOMAIN sizes /\ number \in DOMAIN parts
      /\ copied # <<>> => Begins(copied[1])
      /\ Chained(copied, sizes)
      /\ IF copied = <<>> THEN Begins(part) ELSE Follows(copied[Len(copied)], part, sizes)
      /\ \A i \in DOMAIN copied : copied[i].size >= MinPart
      /\ Len(copied) + 1 = Before(sizes, s) + number
  BY <1>0, <1>1, <1>3, <1>4, <1>5 DEF ComposeOK
<1>7. PICK count \in Nat, length \in Nat, before \in Nat :
        /\ count = Len(sizes) /\ DOMAIN sizes = 1..count
        /\ length = Len(parts) /\ before = Before(sizes, s)
        /\ Before(sizes, count + 1) <= MaxParts
        /\ Before(sizes, s + 1) = before + length
        /\ Divides(parts, s, sizes[s])
  <2>1. Divides(parts, s, sizes[s])
    BY <1>4, <1>6, PlanFacts
  <2>2. Len(parts) \in Nat
    BY <2>1 DEF Divides
  <2> QED
    BY <1>4, <1>6, <2>1, <2>2, PlanFacts
<1>8. number \in 1..Len(parts) /\ Len(parts) \in Nat /\ DOMAIN parts = 1..Len(parts)
  BY <1>6, <1>7
<1>9. /\ part \in PartRecord /\ part.source = s /\ part.size <= MaxPart /\ part.size \in Nat
      /\ number = length => part.start + part.size = sizes[s]
      /\ number # length =>
           /\ number + 1 \in DOMAIN parts
           /\ part.start + part.size = parts[number + 1].start
           /\ part.start + part.size < sizes[s] /\ parts[number + 1].source = s
  <2>1. PICK size : size = sizes[s]
    OBVIOUS
  <2>2. Divides(parts, s, size) /\ number \in DOMAIN parts /\ length = Len(parts)
    BY <1>6, <1>7, <2>1
  <2>3. \A i \in DOMAIN parts :
          /\ parts[i] \in PartRecord /\ parts[i].source = s
          /\ parts[i].size \in Nat /\ parts[i].size <= MaxPart
          /\ i = Len(parts) => parts[i].start + parts[i].size = size
          /\ i # Len(parts) =>
               /\ i + 1 \in DOMAIN parts
               /\ parts[i].start + parts[i].size = parts[i + 1].start
               /\ parts[i].start + parts[i].size < size
    BY <2>2, DivideFacts
  <2> QED
    BY <1>5, <2>1, <2>2, <2>3
<1>10. \/ \E cause \in Causes : Failing(cause)
       \/ call' = [call EXCEPT !.copied = Append(copied, part),
                               !.source = IF number = Len(parts) THEN s + 1 ELSE s,
                               !.number = IF number = Len(parts) THEN 1 ELSE number + 1,
                               !.pc = IF Final(sizes, s, number) THEN "complete" ELSE "copy"]
  BY <1>1, <1>3, <1>4, <1>5 DEF UploadPartCopy
<1>11. CASE \E cause \in Causes : Failing(cause)
  <2>1. Moves("abort") /\ open \in BOOLEAN /\ (open => mishap \/ "abort" \in {"copy", "abort"})
    BY <1>0, <1>11 DEF Moves
  <2>2. UNCHANGED <<open, mishap, composed, server>> /\ SameBucket
    BY <1>2
  <2> QED
    BY <1>0, <1>1, <2>1, <2>2, AbortStep
<1>12. CASE call' = [call EXCEPT !.copied = Append(copied, part),
                                !.source = IF number = Len(parts) THEN s + 1 ELSE s,
                                !.number = IF number = Len(parts) THEN 1 ELSE number + 1,
                                !.pc = IF Final(sizes, s, number) THEN "complete" ELSE "copy"]
  <2> DEFINE new == Append(copied, part)
             source == IF number = Len(parts) THEN s + 1 ELSE s
             next == IF number = Len(parts) THEN 1 ELSE number + 1
             pc == IF Final(sizes, s, number) THEN "complete" ELSE "copy"
  <2>0. PICK c \in Nat : c = Len(copied) /\ DOMAIN copied = 1..c
    BY <1>3
  <2>1. /\ new \in Seq(PartRecord) /\ Len(copied) = c /\ Len(new) = c + 1
        /\ DOMAIN copied = 1..c /\ DOMAIN new = 1..c + 1
        /\ new[c + 1] = part /\ \A i \in 1..c : new[i] = copied[i]
        /\ new # <<>> /\ (copied = <<>> <=> c = 0)
    <3>1. part \in PartRecord
      BY <1>9
    <3>2. /\ new \in Seq(PartRecord) /\ Len(new) = Len(copied) + 1
          /\ DOMAIN new = 1..Len(new)
          /\ new[Len(copied) + 1] = part /\ \A i \in 1..Len(copied) : new[i] = copied[i]
      BY <1>3, <3>1
    <3>3. new # <<>> /\ (copied = <<>> <=> Len(copied) = 0)
      BY <1>3, <3>1, SMTT(30)
    <3> QED
      BY <2>0, <3>2, <3>3
  <2>2. source \in Nat /\ next \in Nat /\ pc \in {"copy", "complete"}
    BY <1>3
  <2>3. pc = "complete" <=> s = Len(sizes) /\ number = Len(parts)
    BY <1>4 DEF Final
  <2> HIDE DEF new, pc
  <2>4. /\ call' \in ComposeCalls /\ call'.pc = pc /\ call'.sizes = sizes
        /\ call'.copied = new /\ call'.source = source /\ call'.number = next
    <3> HIDE DEF source, next
    <3>1. PICK a \in ComposeCalls : a = [call EXCEPT !.copied = new, !.source = source]
      BY <1>1, <2>1, <2>2 DEF ComposeCalls
    <3>2. call' = [a EXCEPT !.number = next, !.pc = pc]
      BY <1>12, <3>1 DEF new, source, next, pc
    <3>3. call' \in ComposeCalls
      BY <2>2, <3>2 DEF ComposeCalls
    <3>4. /\ call'.pc = pc /\ call'.sizes = sizes
          /\ call'.copied = new /\ call'.source = source /\ call'.number = next
      BY <1>1, <1>3, <3>1, <3>2 DEF ComposeCalls
    <3> QED
      BY <3>3, <3>4
  <2>5. Begins(new[1])
    <3>1. CASE c = 0
      BY <1>6, <2>1, <3>1
    <3>2. CASE c # 0
      <4>1. 1 \in 1..c
        BY <2>0, <3>2
      <4> QED
        BY <1>6, <2>1, <3>2, <4>1
    <3> QED
      BY <3>1, <3>2
  <2>6. Chained(new, sizes)
    <3> SUFFICES ASSUME NEW i \in 1..c PROVE Follows(new[i], new[i + 1], sizes)
      BY <2>0, <2>1 DEF Chained
    <3>1. CASE i = c
      <4>1. c # 0
        BY <2>0
      <4> QED
        BY <1>6, <2>1, <3>1, <4>1
    <3>2. CASE i # c
      <4>1. i \in 1..c - 1 /\ i + 1 \in 1..c
        BY <2>0, <3>2
      <4>2. Follows(copied[i], copied[i + 1], sizes)
        BY <1>6, <2>1, <4>1 DEF Chained
      <4> QED
        BY <2>1, <4>1, <4>2
    <3> QED
      BY <3>1, <3>2
  <2>7. CASE pc = "copy"
    <3>1. source \in DOMAIN sizes
      BY <1>6, <1>7, <2>3, <2>7
    <3>2. /\ 1 \in DOMAIN PartsOf(sizes, source)
          /\ PartsOf(sizes, source)[1].start = 0
          /\ PartsOf(sizes, source)[1].source = source
          /\ \A i \in DOMAIN PartsOf(sizes, source) : PartsOf(sizes, source)[i].size <= MaxPart
      <4>1. PICK t \in DOMAIN sizes : t = source
        BY <3>1
      <4>2. Divides(PartsOf(sizes, t), t, sizes[t])
        BY <1>6, PlanFacts
      <4> QED
        BY <4>1, <4>2, DivideFacts
    <3>3. next \in DOMAIN PartsOf(sizes, source)
      BY <1>4, <1>7, <1>9, <3>2
    <3>4. Follows(part, PartsOf(sizes, source)[next], sizes)
      <4>1. CASE number = Len(parts)
        <5>1. source = s + 1 /\ next = 1 /\ number = length
          BY <1>7, <4>1
        <5>2. sizes[s] \in Nat
          BY <1>6
        <5> QED
          BY <1>9, <3>2, <5>1, <5>2 DEF Follows
      <4>2. CASE number # Len(parts)
        <5>1. source = s /\ next = number + 1 /\ number # length
          BY <1>7, <4>2
        <5> QED
          BY <1>4, <1>9, <5>1 DEF Follows
      <4> QED
        BY <4>1, <4>2
    <3>5. \A i \in DOMAIN new : new[i].size >= MinPart
      <4>1. part.size >= MinPart
        <5>1. ~Final(sizes, s, number)
          BY <2>7 DEF pc
        <5> QED
          BY <1>4, <1>5, <1>6, <5>1 DEF Plannable
      <4> QED
        <5>1. ASSUME NEW i \in 1..c + 1 PROVE new[i].size >= MinPart
          <6>1. i = c + 1 \/ i \in 1..c
            BY <2>0
          <6> QED
            BY <1>6, <2>1, <4>1, <6>1
        <5> QED
          BY <2>1, <5>1
    <3>6. Len(new) + 1 = Before(sizes, source) + next
      <4>1. CASE number = Len(parts)
        <5>1. source = s + 1 /\ next = 1 /\ number = length
          BY <1>7, <4>1
        <5>2. c + 1 = before + length
          BY <1>6, <1>7, <2>0, <5>1
        <5>3. Len(new) + 1 = Before(sizes, s + 1) + 1
          BY <1>7, <2>0, <2>1, <5>2
        <5> QED
          BY <5>1, <5>3
      <4>2. CASE number # Len(parts)
        <5>1. source = s /\ next = number + 1
          BY <4>2
        <5>2. c + 1 = before + number
          BY <1>6, <1>7, <2>0
        <5>3. c + 2 = before + (number + 1)
          BY ONLY <5>2, c \in Nat, before \in Nat, number \in Nat
        <5>4. Len(new) + 1 = c + 2 /\ before = Before(sizes, s)
          BY <1>7, <2>0, <2>1
        <5> QED
          BY <5>1, <5>3, <5>4
      <4> QED
        BY <4>1, <4>2
    <3>7. NextPart' = PartsOf(sizes, source)[next]
      BY <2>4 DEF NextPart
    <3>8. PartsOf(sizes, source)[next].size <= MaxPart
      BY <3>2, <3>3
    <3> HIDE DEF source, next
    <3>9. ComposeOK'
      BY <1>6, <2>1, <2>4, <2>5, <2>6, <2>7, <3>1, <3>3, <3>4, <3>5, <3>6, <3>7, <3>8
         DEF ComposeOK
    <3> QED
      BY <1>0, <1>1, <1>2, <1>3, <2>4, <2>7, <3>9, ComposeGoes
  <2>8. CASE pc = "complete"
    <3>1. s = Len(sizes) /\ number = Len(parts)
      BY <2>3, <2>8
    <3>2. EndsAll(part, sizes)
      BY <1>7, <1>9, <3>1 DEF EndsAll
    <3>3. Len(new) <= MaxParts
      BY <1>6, <1>7, <2>0, <2>1, <3>1, S3Assumption
    <3>4. \A i \in 1..Len(new) - 1 : new[i].size >= MinPart
      <4>1. 1..Len(new) - 1 = 1..c
        BY <2>0, <2>1
      <4> QED
        BY <1>6, <2>1, <4>1
    <3>5. ComposeOK'
      BY <1>6, <2>1, <2>4, <2>5, <2>6, <2>8, <3>2, <3>3, <3>4 DEF ComposeOK, Legal
    <3> QED
      BY <1>0, <1>1, <1>2, <1>3, <2>4, <2>8, <3>5, ComposeGoes
  <2> QED
    BY <2>2, <2>7, <2>8
<1> QED
  BY <1>10, <1>11, <1>12

LEMMA CompleteStep == ASSUME ObjectsInv, CompleteMultipartUpload PROVE ObjectsInv'
<1>0. S3TypeOK /\ MultipartOK /\ ComposeOK /\ open \in BOOLEAN /\ mishap \in BOOLEAN
  BY DEF ObjectsInv, S3TypeOK
<1>1. call.op = "compose" /\ call.pc = "complete"
  BY DEF CompleteMultipartUpload
<1>2. UNCHANGED <<server, mishap>> /\ SameBucket
  BY DEF CompleteMultipartUpload, environment
<1>3. CASE open' = FALSE /\ composed' = call.copied /\ (Answer("ok") \/ Failing("error"))
  <2>1. CASE Answer("ok")
    <3>1. PICK result : result = "ok"
      OBVIOUS
    <3>2. Moves(result) /\ result \in Results
      BY <2>1, <3>1 DEF Moves, Results
    <3> QED
      BY <1>0, <1>1, <1>2, <1>3, <3>1, <3>2, AnswerStep
  <2>2. CASE Failing("error")
    <3>1. PICK result : result = "abort"
      OBVIOUS
    <3>2. Moves(result)
      BY <2>2, <3>1 DEF Moves, Causes
    <3> QED
      BY <1>0, <1>1, <1>2, <1>3, <3>1, <3>2, AnswerStep
  <2> QED
    BY <1>3, <2>1, <2>2
<1>4. CASE (\E cause \in Causes : Failing(cause)) /\ UNCHANGED <<open, composed>>
  <2>1. Moves("abort")
    BY <1>4 DEF Moves
  <2> QED
    BY <1>0, <1>1, <1>2, <1>4, <2>1, AbortStep
<1> QED
  BY <1>3, <1>4 DEF CompleteMultipartUpload

-----------------------------------------------------------------------------
(* Every call of the S3 adapter.                                             *)

Begun == \/ call.op = "walk" /\ call.pc = "list" /\ call.seen = {} /\ call.bytes = 0
             /\ call.token = 0 /\ call.cycles.initialized = FALSE
         \/ call.op = "delete" /\ call.pc = "list"
         \/ /\ call.op = "compose" /\ call.pc = "head"
            /\ call.copied = <<>> /\ call.source = 1 /\ call.number = 1
         \/ call.op = "upload" /\ call.pc \in {"put", "ok"}
         \/ call.op = "range" /\ call.pc = "get"

LEMMA CallBegins == call \in SomeCall => call \in Calls /\ Begun
<1> SUFFICES ASSUME call \in SomeCall PROVE call \in Calls /\ Begun
  OBVIOUS
<1>1. /\ NewDetector \in Detectors(Token) /\ NewDetector \in Detectors(SUBSET Key)
      /\ NewDetector.initialized = FALSE
  BY DEF NewDetector, Detectors
<1>2. ASSUME NEW n \in 1..Keys, call = NewWalk(n) PROVE call \in WalkCalls /\ Begun
  <2>1. Start \in Token /\ Start = 0
    BY S3Assumption DEF Start, Token
  <2> QED
    BY <1>1, <1>2, <2>1 DEF NewWalk, WalkCalls, Key, Begun
<1>3. ASSUME call = NewDelete PROVE call \in DeleteCalls /\ Begun
  BY <1>1, <1>3 DEF NewDelete, DeleteCalls, Begun
<1>4. ASSUME call = NewUpload PROVE call \in UploadCalls /\ Begun
  <2>1. call = [op |-> "upload", pc |-> "put", cause |-> "error"] /\ "error" \in Causes
    BY <1>4 DEF NewUpload, Causes
  <2> QED
    BY <2>1 DEF UploadCalls, Begun
<1>5. ASSUME NEW offset \in 0..Keys, NEW count \in 1..Keys, call = NewRange(offset, count)
      PROVE  call \in RangeCalls /\ Begun
  BY <1>5, S3Assumption DEF NewRange, RangeCalls, Begun
<1>6. ASSUME NEW n \in 0..MaxSources, NEW sizes \in [1..n -> 0..MaxSize],
             call = NewCompose(sizes)
      PROVE  call \in ComposeCalls /\ Begun
  <2>1. sizes \in Seq(Nat)
    BY S3Assumption
  <2>2. <<>> \in Seq(PartRecord)
    OBVIOUS
  <2>3. call = [op |-> "compose", pc |-> "head", sizes |-> sizes, heads |-> 0,
                source |-> 1, number |-> 1, copied |-> <<>>, cause |-> "error"]
    BY <1>6 DEF NewCompose
  <2>4. "error" \in Causes /\ 0 \in Nat /\ 1 \in Nat
    BY DEF Causes
  <2>5. call \in ComposeCalls
    BY <2>1, <2>2, <2>3, <2>4 DEF ComposeCalls
  <2> QED
    BY <2>3, <2>5 DEF Begun
<1> QED
  BY <1>2, <1>3, <1>4, <1>5, <1>6 DEF SomeCall, Calls, Bytes, Key

LEMMA BeginsOK ==
  ASSUME call \in Calls, Begun, server \in [sane : BOOLEAN, next : [Token -> Token \cup {None}]],
         bucket \subseteq Listed, Outside \in bucket, lasting = bucket, ever = bucket,
         open = FALSE, composed = <<>>, mishap = FALSE
  PROVE  ObjectsInv
<1>1. S3TypeOK
  <2>1. composed \in Seq(PartRecord)
    OBVIOUS
  <2> QED
    BY <2>1 DEF S3TypeOK, Calls
<1>2. WalkOK
  <2>1. Cardinality({}) = 0
    BY FS_EmptySet
  <2>2. \A k \in lasting : ~(k <= 0)
    BY S3Assumption DEF Listed, Outside, Key
  <2> QED
    BY <2>1, <2>2 DEF WalkOK, Begun
<1>3. ComposeOK
  <2> SUFFICES ASSUME call.op = "compose" PROVE ComposeOK
    BY DEF ComposeOK
  <2>1. call.pc = "head" /\ call.copied = <<>> /\ call.source = 1 /\ call.number = 1
    BY DEF Begun
  <2>2. Chained(call.copied, call.sizes)
    BY <2>1 DEF Chained
  <2> QED
    BY <2>1, <2>2 DEF ComposeOK
<1> QED
  BY <1>1, <1>2, <1>3 DEF ObjectsInv, DeleteOK, ComposedOK, MultipartOK, RangeOK, Done, Begun

LEMMA ServersOK ==
  /\ SaneServer \in [sane : BOOLEAN, next : [Token -> Token \cup {None}]]
  /\ [SaneServer EXCEPT !.sane = FALSE] \in [sane : BOOLEAN, next : [Token -> Token \cup {None}]]
  /\ BrokenServers \subseteq [sane : BOOLEAN, next : [Token -> Token \cup {None}]]
<1>1. Start \in Token
  BY S3Assumption DEF Start, Token
<1>2. PICK f \in [Token -> Token \cup {None}] : SaneServer = [sane |-> TRUE, next |-> f]
  BY <1>1 DEF SaneServer
<1>3. BrokenServers \subseteq [sane : BOOLEAN, next : [Token -> Token \cup {None}]]
  <2> SUFFICES ASSUME NEW next \in [Token -> Token \cup {None}]
               PROVE  [sane |-> FALSE, next |-> next]
                        \in [sane : BOOLEAN, next : [Token -> Token \cup {None}]]
    BY DEF BrokenServers
  <2> QED
    OBVIOUS
<1> QED
  BY <1>2, <1>3

LEMMA S3Begins == S3Init => ObjectsInv
<1> SUFFICES ASSUME S3Init PROVE ObjectsInv
  OBVIOUS
<1>1. call \in Calls /\ Begun
  BY CallBegins DEF S3Init
<1>2. server \in [sane : BOOLEAN, next : [Token -> Token \cup {None}]]
  BY ServersOK DEF S3Init
<1>3. bucket \subseteq Listed /\ Outside \in bucket
  BY DEF S3Init, Listed
<1> QED
  BY <1>1, <1>2, <1>3, BeginsOK DEF S3Init

LEMMA NoS3Begins == NoS3 => ObjectsInv
<1> SUFFICES ASSUME NoS3 PROVE ObjectsInv
  OBVIOUS
<1>1. call \in Calls /\ Begun
  BY DEF NoS3, Causes, NewUpload, UploadCalls, Calls, Results, Begun
<1> QED
  BY <1>1, ServersOK, BeginsOK DEF NoS3, Listed

LEMMA S3Steps == ObjectsInv /\ [S3Next]_s3Vars => ObjectsInv'
<1> SUFFICES ASSUME ObjectsInv, [S3Next]_s3Vars PROVE ObjectsInv'
  OBVIOUS
<1>1. CASE UNCHANGED s3Vars
  BY <1>1 DEF s3Vars, ObjectsInv, S3TypeOK, WalkOK, DeleteOK, ComposeOK, ComposedOK, MultipartOK,
              RangeOK, Done, NextPart, Requested, Chained
<1>2. CASE S3Next
  BY <1>2, WalkStep, DeletionStep, HeadStep, CreateStep, CopyStep, CompleteStep, UploadStep,
     RangeStep, EndingStep, ChangeStep DEF S3Next, S3Step
<1> QED
  BY <1>1, <1>2

LEMMA AnswersTrue == ObjectsInv => S3Inv
<1> SUFFICES ASSUME ObjectsInv PROVE S3Inv
  OBVIOUS
<1>1. WalksTrue /\ DeletesAll /\ RangesExact
  BY DEF ObjectsInv, WalkOK, DeleteOK, RangeOK, S3TypeOK, WalksTrue, DeletesAll, RangesExact, Done
<1>2. ComposesWhole
  <2>1. ~Refused
    <3>1. call.op = "compose" => call \in ComposeCalls
      BY CallKinds DEF ObjectsInv, S3TypeOK, Calls
    <3>2. ASSUME call.op = "compose", call.pc = "copy" PROVE ~(NextPart.size > MaxPart)
      <4>1. PICK n \in Nat : n = NextPart.size
        <5>1. Divides(PartsOf(call.sizes, call.source), call.source, call.sizes[call.source])
          BY <3>1, <3>2, PlanFacts DEF ObjectsInv, ComposeOK, ComposeCalls
        <5> QED
          BY <3>2, <5>1, DivideFacts DEF ObjectsInv, ComposeOK, NextPart
      <4> QED
        BY <3>2, <4>1, S3Assumption DEF ObjectsInv, ComposeOK
    <3> QED
      BY <3>1, <3>2 DEF ObjectsInv, ComposeOK, Refused
  <2> QED
    BY <2>1 DEF ObjectsInv, ComposedOK, ComposesWhole
<1>3. UploadsAborted
  BY DEF ObjectsInv, MultipartOK, UploadsAborted, Running, Results
<1> QED
  BY <1>1, <1>2, <1>3 DEF S3Inv

-----------------------------------------------------------------------------
(* The storage of a server.                                                  *)

(* In every reachable state a download that ended is whole, listings and     *)
(* deletions that an S3 server answers are what they say, a composed object  *)
(* is its sources in order, and no multipart upload is left to the server    *)
(* that could be aborted.                                                    *)
THEOREM StorageIsSafe == StorageSpec => []StorageInv
<1>1. StorageInit => FilesInv /\ ObjectsInv
  BY FilesInit, S3Begins, NoS3Begins DEF StorageInit, NoFilesystem
<1>2. FilesInv /\ ObjectsInv /\ [StorageNext]_storageVars => FilesInv' /\ ObjectsInv'
  <2>1. [StorageNext]_storageVars => [FsNext]_fsVars /\ [S3Next]_s3Vars
    BY DEF StorageNext, Filesystem, S3, storageVars
  <2> QED
    BY <2>1, FilesStep, S3Steps
<1>3. FilesInv /\ ObjectsInv => StorageInv
  BY DownloadWhole, AnswersTrue DEF StorageInv
<1> QED
  BY <1>1, <1>2, <1>3, PTL DEF StorageSpec

(* The steps of the adapters.                                                *)
LEMMA AdapterSteps ==
  StorageSpec => []FilesInv /\ [][FsNext]_fsVars
<1>1. [StorageNext]_storageVars => [FsNext]_fsVars
  BY DEF StorageNext, Filesystem, S3, storageVars
<1>2. StorageInv => FilesInv
  BY DEF StorageInv
<1> QED
  BY <1>1, <1>2, StorageIsSafe, PTL DEF StorageSpec

(* The filesystem adapter is the object store the cache relies on: an object *)
(* changes at once, from one whole content to another, and only a power      *)
(* failure of a host that does not fsync leaves a part of one.               *)
THEOREM FilesystemImplementsStore == StorageSpec => ImplementsObjectStore
<1>1. StorageInit => Store!Init
  BY ImplementsInit DEF StorageInit, NoFilesystem
<1>2. FilesInv /\ [FsNext]_fsVars
        => [Store!Next]_<<Objects, Durable, Pending, session = "dropped",
                          scenario.fsync, scenario.replaces>>
  BY FilesImplement DEF objectStoreVars
<1> QED
  BY <1>1, <1>2, AdapterSteps, PTL DEF StorageSpec, ImplementsObjectStore, Store!Spec

(* A removal of temporary files spares those of a session that is active.    *)
THEOREM RemovalsSpareSessions == StorageSpec => SparesSessions
BY SparingSteps, AdapterSteps, PTL DEF SparesSessions

-----------------------------------------------------------------------------
(* A pass of capacity eviction.                                             *)

LEMMA Bounds ==
  /\ Location \subseteq Nat /\ IsFiniteSet(Location)
  /\ \A l \in Location : Size[l] \in Nat
  /\ Budget \in Nat /\ OtherBytes \in Nat
  /\ CandidatePageSize \in Nat \ {0} /\ MaxClock \in Nat
  BY CapacityAssumption DEF CapacityAssumption

-----------------------------------------------------------------------------
(* Bytes. *)

LEMMA PartOfLocations ==
  ASSUME NEW S \in SUBSET Location
  PROVE  /\ IsFiniteSet(S) /\ \A l \in S : Size[l] \in Nat
         /\ \A l \in S : Size[l] \in Int
<1>1. IsFiniteSet(S)
  BY Bounds, FS_Subset
<1>2. \A l \in S : Size[l] \in Nat
  BY Bounds
<1> QED
  BY <1>1, <1>2

LEMMA BytesType ==
  ASSUME NEW S \in SUBSET Location
  PROVE  Total(S) \in Nat
<1>1. IsFiniteSet(S) /\ \A l \in S : Size[l] \in Nat
  BY PartOfLocations
<1>2. Total(S) = SumOver(Size, S)
  BY DEF Total, SumOver
<1> QED
  BY <1>1, <1>2, SumNat

LEMMA BytesOff ==
  ASSUME NEW S \in SUBSET Location, NEW l \in S
  PROVE  /\ Total(S) = Size[l] + Total(S \ {l})
         /\ Total(S \ {l}) \in Nat /\ Size[l] \in Nat
<1>1. IsFiniteSet(S) /\ \A k \in S : Size[k] \in Int
  BY PartOfLocations
<1>2. SumOver(Size, S) = Size[l] + SumOver(Size, S \ {l})
  BY <1>1, SumRemove
<1>3. S \ {l} \in SUBSET Location
  OBVIOUS
<1>4. Total(S) = SumOver(Size, S) /\ Total(S \ {l}) = SumOver(Size, S \ {l})
  BY DEF Total, SumOver
<1>5. Total(S \ {l}) \in Nat
  BY <1>3, BytesType
<1> QED
  BY <1>2, <1>4, <1>5, Bounds

LEMMA BytesMore ==
  ASSUME NEW S \in SUBSET Location, NEW T \in SUBSET S
  PROVE  Total(T) <= Total(S)
<1>1. IsFiniteSet(S) /\ \A l \in S : Size[l] \in Nat
  BY PartOfLocations
<1>2. SumOver(Size, T) <= SumOver(Size, S)
  BY <1>1, SumSubset
<1> QED
  BY <1>2 DEF Total, SumOver

LEMMA BytesSplit ==
  ASSUME NEW S \in SUBSET Location, NEW T \in SUBSET S
  PROVE  Total(S) = Total(T) + Total(S \ T)
<1>1. IsFiniteSet(S) /\ \A l \in S : Size[l] \in Int
  BY PartOfLocations
<1>2. SumOver(Size, S) = SumOver(Size, T) + SumOver(Size, S \ T)
  BY <1>1, SumSplit
<1> QED
  BY <1>2 DEF Total, SumOver

LEMMA TargetInBudget == TargetBytes \in Nat /\ TargetBytes <= Budget
  BY Bounds DEF TargetBytes, RatioFloor

LEMMA MaxOf ==
  ASSUME NEW a \in Int, NEW b \in Int
  PROVE  Max({a, b}) = IF a >= b THEN a ELSE b
<1>1. \E x \in {a, b} : \A y \in {a, b} : x >= y
  OBVIOUS
<1>2. PICK x \in {a, b} : (\A y \in {a, b} : x >= y) /\ x = Max({a, b})
  BY <1>1 DEF Max
<1> QED
  BY <1>2

(* What counts as used, but for what is not the cache's. *)
Counted == IF explicit THEN LocationsAt("active")
             ELSE Location \ (LocationsAt("gone") \cup LocationsAt("pending"))
OnVolume == Location \ LocationsAt("gone")
Base == IF explicit THEN 0 ELSE OtherBytes

(* Both are sums over the locations. *)
AsSums ==
  /\ Counted \in SUBSET Location /\ OnVolume \in SUBSET Location
  /\ InUse = Base + Total(Counted)
  /\ FilesystemUsage = OtherBytes + Total(OnVolume)

LEMMA InUseIs == AsSums
<1> USE DEF AsSums
<1>1. Counted \in SUBSET Location /\ OnVolume \in SUBSET Location
  BY DEF Counted, OnVolume, LocationsAt
<1>2. FilesystemUsage = OtherBytes + Total(OnVolume)
  BY DEF FilesystemUsage, OnVolume
<1>3. CASE explicit
  <2>1. Total(LocationsAt("active")) \in Nat
    BY BytesType DEF LocationsAt
  <2> QED
    BY <1>1, <1>2, <1>3, <2>1 DEF InUse, Base, Counted
<1>4. CASE ~explicit
  <2>1. LocationsAt("pending") \in SUBSET OnVolume
    BY DEF LocationsAt, OnVolume
  <2>2. OnVolume \ LocationsAt("pending") = Counted
    BY <1>4 DEF Counted, OnVolume
  <2>3. Total(OnVolume) = Total(LocationsAt("pending")) + Total(OnVolume \ LocationsAt("pending"))
    BY <1>1, <2>1, BytesSplit
  <2>4. Total(OnVolume \ LocationsAt("pending")) = Total(Counted)
    BY <2>2, Zenon
  <2>5. /\ Total(LocationsAt("pending")) \in Nat /\ Total(Counted) \in Nat
        /\ OtherBytes \in Nat
    BY <1>1, <2>1, BytesType, Bounds DEF LocationsAt
  <2> QED
    BY <1>1, <1>2, <1>4, <2>3, <2>4, <2>5 DEF InUse, Base
<1> QED
  BY <1>3, <1>4

LEMMA UsageType == InUse \in Nat /\ FilesystemUsage \in Nat
<1>1. AsSums /\ Base \in Nat /\ OtherBytes \in Nat
  BY InUseIs, Bounds DEF Base
<1> QED
  BY <1>1, BytesType DEF AsSums

-----------------------------------------------------------------------------
(* How locations move, in whatever step, and what that does to the bytes.  *)

AtType == at \in [Location -> {"uploading", "active", "pending", "outbox",
                              "gone"}]

Goes(l, where) == at' = [at EXCEPT ![l] = where]

Finalized(l) == at[l] = "uploading" /\ Goes(l, "active")
Dropped(l) == at[l] = "active" /\ Goes(l, "pending")
RowDeleted(l) ==
  at[l] = "pending" /\ Goes(l, IF explicit THEN "gone" ELSE "outbox")
FolderDeleted(l) == at[l] = "outbox" /\ Goes(l, "gone")

(* A set of locations has no less bytes than it had, or just l's less.     *)
LEMMA BytesMove ==
  ASSUME NEW S \in SUBSET Location, NEW T \in SUBSET Location,
         NEW l \in Location
  PROVE  /\ S \subseteq T => Total(S) <= Total(T)
         /\ l \in S /\ T = S \ {l} => Total(S) = Size[l] + Total(T)
         /\ Total(S) \in Nat /\ Total(T) \in Nat /\ Size[l] \in Nat
<1>1. S \subseteq T => Total(S) <= Total(T)
  BY BytesMore
<1>2. ASSUME l \in S, T = S \ {l} PROVE Total(S) = Size[l] + Total(T)
  BY <1>2, BytesOff, Zenon
<1> QED
  BY <1>1, <1>2, BytesType, Bounds

LEMMA SetsMove ==
  ASSUME AtType, NEW l \in Location, explicit \in BOOLEAN, UNCHANGED explicit
  PROVE  /\ Finalized(l) => Counted \subseteq Counted' /\ OnVolume = OnVolume'
         /\ Dropped(l) => /\ l \in Counted /\ Counted' = Counted \ {l}
                          /\ OnVolume = OnVolume'
         /\ RowDeleted(l) => /\ Counted \subseteq Counted'
                             /\ ~explicit => OnVolume = OnVolume'
         /\ FolderDeleted(l) =>
              /\ l \in OnVolume /\ OnVolume' = OnVolume \ {l}
              /\ \/ Counted' = Counted
                 \/ l \in Counted /\ Counted' = Counted \ {l}
  BY DEF AtType, Goes, Finalized, Dropped, RowDeleted, FolderDeleted, Counted,
         OnVolume, LocationsAt

LEMMA BytesKinds ==
  ASSUME AtType, NEW l \in Location, explicit \in BOOLEAN, UNCHANGED explicit
  PROVE  /\ InUse \in Nat /\ InUse' \in Nat /\ Size[l] \in Nat
         /\ FilesystemUsage \in Nat /\ FilesystemUsage' \in Nat
         /\ Finalized(l) =>
              InUse <= InUse' /\ FilesystemUsage = FilesystemUsage'
         /\ Dropped(l) => /\ InUse = InUse' + Size[l]
                          /\ FilesystemUsage = FilesystemUsage'
         /\ RowDeleted(l) => /\ InUse <= InUse'
                             /\ ~explicit => FilesystemUsage = FilesystemUsage'
         /\ FolderDeleted(l) =>
              /\ InUse <= InUse' + Size[l]
              /\ FilesystemUsage = FilesystemUsage' + Size[l]
<1>1. /\ Counted \in SUBSET Location /\ OnVolume \in SUBSET Location
      /\ InUse = Base + Total(Counted)
      /\ FilesystemUsage = OtherBytes + Total(OnVolume)
  BY InUseIs DEF AsSums
<1>2. /\ Counted' \in SUBSET Location /\ OnVolume' \in SUBSET Location
      /\ InUse' = Base' + Total(Counted')
      /\ FilesystemUsage' = OtherBytes + Total(OnVolume')
  <2>1. AsSums'
    BY InUseIs, PTL
  <2> QED
    BY <2>1 DEF AsSums
<1>3. Base' = Base /\ Base \in Nat /\ OtherBytes \in Nat
  BY Bounds DEF Base
<1>4. PICK c, d, v, w : c = Counted /\ d = Counted' /\ v = OnVolume /\ w = OnVolume'
  OBVIOUS
<1>5. /\ c \subseteq d => Total(c) <= Total(d)
      /\ l \in c /\ d = c \ {l} => Total(c) = Size[l] + Total(d)
      /\ Total(c) \in Nat /\ Total(d) \in Nat /\ Size[l] \in Nat
  BY <1>1, <1>2, <1>4, BytesMove
<1>6. /\ v = w => Total(v) = Total(w)
      /\ l \in v /\ w = v \ {l} => Total(v) = Size[l] + Total(w)
      /\ Total(v) \in Nat /\ Total(w) \in Nat
  BY <1>1, <1>2, <1>4, BytesMove
<1>7. /\ InUse = Base + Total(c) /\ InUse' = Base + Total(d)
      /\ FilesystemUsage = OtherBytes + Total(v)
      /\ FilesystemUsage' = OtherBytes + Total(w)
  BY <1>1, <1>2, <1>3, <1>4, Zenon
<1>8. /\ Finalized(l) => c \subseteq d /\ v = w
      /\ Dropped(l) => l \in c /\ d = c \ {l} /\ v = w
      /\ RowDeleted(l) => c \subseteq d /\ (~explicit => v = w)
      /\ FolderDeleted(l) =>
              /\ l \in v /\ w = v \ {l}
              /\ d = c \/ (l \in c /\ d = c \ {l})
  BY <1>4, SetsMove, Zenon
<1>9. d = c => Total(c) = Total(d)
  OBVIOUS
<1> QED
  BY <1>3, <1>5, <1>6, <1>7, <1>8, <1>9

-----------------------------------------------------------------------------
(* What the others do, as a pass sees it. *)

Stays ==
  /\ pass' \in Pass
  /\ UNCHANGED <<pass.at, pass.usage, pass.cursor, pass.page, pass.seen>>

(* What changes is noted. *)
AroundPass ==
  /\ Stays /\ UNCHANGED explicit
  /\ pass.moved \subseteq pass'.moved /\ pass.stale \subseteq pass'.stale
  /\ pass'.stale \subseteq pass.stale \cup InPage
  /\ \A l \in Location :
       /\ \/ recency'[l] = recency[l]
          \/ l \in pass'.moved /\ (l \in InPage => l \in pass'.stale)
       /\ at'[l] = "active" => at[l] = "active" \/ l \in pass'.moved
  /\ InUse + pass.others <= InUse' + pass'.others
  /\ pass.at = "usage" => FilesystemUsage + pass.others
                            <= FilesystemUsage' + pass'.others

Elsewhere(l) ==
  \/ Tick \/ Finalize(l) \/ Download(l) \/ TouchStorageLocationIfStale(l)
  \/ ReleaseReader(l) \/ RequestDeletion(l) \/ DeleteRow(l) \/ DeleteFolder(l)

StateOK ==
  /\ clock' \in 0 .. MaxClock /\ AtType'
  /\ recency' \in [Location -> 0 .. MaxClock]
  /\ pinned' \subseteq Location

LEMMA Noted ==
  ASSUME Passing, pass \in Pass, NEW m \in SUBSET Location,
         NEW s \in SUBSET Location, NEW b \in Nat, Note(m, s, b)
  PROVE  /\ Stays /\ pass'.moved = pass.moved \cup m
         /\ pass'.stale = pass.stale \cup (s \cap InPage)
         /\ pass'.others = pass.others + b
<1>1. pass' = [pass EXCEPT !.moved = @ \cup m, !.others = @ + b,
                           !.stale = @ \cup (s \cap InPage)]
  BY DEF Note
<1>2. /\ pass.moved \cup m \in SUBSET Location /\ pass.others + b \in Nat
      /\ pass.stale \cup (s \cap InPage) \in SUBSET Location
  BY DEF Pass
<1>3. pass' \in Pass
  BY <1>1, <1>2 DEF Pass
<1>4. UNCHANGED <<pass.at, pass.usage, pass.cursor, pass.page, pass.seen>>
  BY <1>1 DEF Pass
<1>5. /\ pass'.moved = pass.moved \cup m /\ pass'.others = pass.others + b
      /\ pass'.stale = pass.stale \cup (s \cap InPage)
  BY <1>1 DEF Pass
<1> QED
  BY <1>3, <1>4, <1>5 DEF Stays

LEMMA PassNote ==
  ASSUME TypeOK, Passing
  PROVE  /\ pass \in Pass /\ pass.others \in Nat /\ pass.usage \in Nat
         /\ pass.at \in {"usage", "pages", "page", "constrained"}
  BY DEF TypeOK, Pass

(* What the others do to the rows. *)
LEMMA ElsewhereState ==
  ASSUME TypeOK, NEW l \in Location, Elsewhere(l)
  PROVE  StateOK /\ UNCHANGED explicit
<1>1. MaxClock \in Nat /\ clock \in 0 .. MaxClock
  BY Bounds DEF TypeOK
<1>2. CASE Tick
  BY <1>1, <1>2 DEF Tick, storeVars, TypeOK, StateOK, AtType
<1>3. CASE Finalize(l)
  BY <1>1, <1>3 DEF Finalize, TypeOK, StateOK, AtType
<1>4. CASE Download(l) \/ ReleaseReader(l)
  BY <1>1, <1>4 DEF Download, ReleaseReader, TypeOK, StateOK, AtType
<1>5. CASE TouchStorageLocationIfStale(l)
  BY <1>1, <1>5 DEF TouchStorageLocationIfStale, TypeOK, StateOK, AtType
<1>6. CASE RequestDeletion(l) \/ DeleteRow(l) \/ DeleteFolder(l)
  BY <1>1, <1>6 DEF RequestDeletion, DeleteRow, DeleteFolder, TypeOK, StateOK,
                    AtType
<1> QED
  BY <1>2, <1>3, <1>4, <1>5, <1>6 DEF Elsewhere

(* And to the pass that is running. *)
LEMMA QuietPass ==
  ASSUME TypeOK, Passing, UNCHANGED <<at, recency, explicit, pass>>
  PROVE  AroundPass
<1>1. pass \in Pass /\ pass.others \in Nat /\ InUse \in Nat
      /\ FilesystemUsage \in Nat
  BY PassNote, UsageType
<1>2. InUse' = InUse /\ FilesystemUsage' = FilesystemUsage
  BY DEF InUse, FilesystemUsage, LocationsAt
<1> QED
  BY <1>1, <1>2 DEF AroundPass, Stays

LEMMA ElsewherePass ==
  ASSUME TypeOK, Passing, NEW l \in Location, Elsewhere(l),
         pass.at = "usage" => ~explicit
  PROVE  AroundPass
<1>t. /\ AtType /\ explicit \in BOOLEAN /\ recency \in [Location -> 0 .. MaxClock]
      /\ UNCHANGED explicit
  BY ElsewhereState DEF TypeOK, AtType
<1>p. /\ pass \in Pass /\ pass.others \in Nat
      /\ {l} \in SUBSET Location /\ {} \in SUBSET Location
  BY PassNote
<1>b. /\ InUse \in Nat /\ InUse' \in Nat /\ Size[l] \in Nat
      /\ FilesystemUsage \in Nat /\ FilesystemUsage' \in Nat
      /\ Finalized(l) =>
           InUse <= InUse' /\ FilesystemUsage = FilesystemUsage'
      /\ Dropped(l) => /\ InUse = InUse' + Size[l]
                       /\ FilesystemUsage = FilesystemUsage'
      /\ RowDeleted(l) => /\ InUse <= InUse'
                          /\ ~explicit => FilesystemUsage = FilesystemUsage'
      /\ FolderDeleted(l) =>
           /\ InUse <= InUse' + Size[l]
           /\ FilesystemUsage = FilesystemUsage' + Size[l]
  BY <1>t, BytesKinds
<1>s. UNCHANGED <<at, explicit>> =>
        InUse' = InUse /\ FilesystemUsage' = FilesystemUsage
  BY DEF InUse, FilesystemUsage, LocationsAt
<1>1. CASE UNCHANGED <<at, recency, pass>>
  BY <1>1, <1>t, QuietPass
<1>2. CASE Finalize(l)
  <2>1. Note({l}, {l}, 0) /\ Finalized(l)
    BY <1>2 DEF Finalize, Finalized, Goes
  <2>2. /\ Stays /\ pass'.moved = pass.moved \cup {l}
        /\ pass'.stale = pass.stale \cup ({l} \cap InPage)
        /\ pass'.others = pass.others + 0
    BY <1>p, <2>1, Noted
  <2>3. \A k \in Location : k # l => recency'[k] = recency[k] /\ at'[k] = at[k]
    BY <1>2, <1>t DEF Finalize, AtType
  <2> QED
    BY <1>p, <1>t, <1>b, <2>1, <2>2, <2>3 DEF AroundPass
<1>3. CASE Download(l)
  <2>1. PICK bumped \in SUBSET {l} : Note({}, bumped, 0)
    BY <1>3 DEF Download
  <2>2. bumped \in SUBSET Location
    OBVIOUS
  <2>3. /\ Stays /\ pass'.moved = pass.moved \cup {}
        /\ pass'.stale = pass.stale \cup (bumped \cap InPage)
        /\ pass'.others = pass.others + 0
    BY <1>p, <2>1, <2>2, Noted
  <2>4. UNCHANGED <<at, recency, explicit>>
    BY <1>3 DEF Download
  <2> QED
    BY <1>p, <1>t, <1>b, <1>s, <2>3, <2>4 DEF AroundPass
<1>4. CASE TouchStorageLocationIfStale(l)
  <2>1. Note({l}, {l}, 0) /\ UNCHANGED <<at, explicit>>
    BY <1>4 DEF TouchStorageLocationIfStale
  <2>2. /\ Stays /\ pass'.moved = pass.moved \cup {l}
        /\ pass'.stale = pass.stale \cup ({l} \cap InPage)
        /\ pass'.others = pass.others + 0
    BY <1>p, <2>1, Noted
  <2>3. \A k \in Location : k # l => recency'[k] = recency[k]
    BY <1>4, <1>t DEF TouchStorageLocationIfStale
  <2> QED
    BY <1>p, <1>t, <1>b, <1>s, <2>1, <2>2, <2>3 DEF AroundPass
<1>5. CASE RequestDeletion(l)
  <2>1. Note({}, {l}, Size[l]) /\ Dropped(l) /\ UNCHANGED recency
    BY <1>5 DEF RequestDeletion, Dropped, Goes
  <2>2. /\ Stays /\ pass'.moved = pass.moved \cup {}
        /\ pass'.stale = pass.stale \cup ({l} \cap InPage)
        /\ pass'.others = pass.others + Size[l]
    BY <1>p, <1>b, <2>1, Noted
  <2>3. \A k \in Location : at'[k] = "active" => at[k] = "active"
    BY <1>5, <1>t DEF RequestDeletion, AtType
  <2> QED
    BY <1>p, <1>t, <1>b, <2>1, <2>2, <2>3 DEF AroundPass
<1>6. CASE DeleteRow(l)
  <2>1. RowDeleted(l) /\ UNCHANGED <<recency, pass>>
    BY <1>6 DEF DeleteRow, RowDeleted, Goes
  <2>2. \A k \in Location : at'[k] = "active" => at[k] = "active"
    BY <1>6, <1>t DEF DeleteRow, AtType
  <2> QED
    BY <1>p, <1>t, <1>b, <2>1, <2>2 DEF AroundPass, Stays
<1>7. CASE DeleteFolder(l)
  <2>1. Note({}, {}, Size[l]) /\ FolderDeleted(l) /\ UNCHANGED recency
    BY <1>7 DEF DeleteFolder, FolderDeleted, Goes
  <2>2. /\ Stays /\ pass'.moved = pass.moved \cup {}
        /\ pass'.stale = pass.stale \cup ({} \cap InPage)
        /\ pass'.others = pass.others + Size[l]
    BY <1>p, <1>b, <2>1, Noted
  <2>3. \A k \in Location : at'[k] = "active" => at[k] = "active"
    BY <1>7, <1>t DEF DeleteFolder, AtType
  <2> QED
    BY <1>p, <1>t, <1>b, <2>1, <2>2, <2>3 DEF AroundPass
<1> QED
  BY <1>1, <1>2, <1>3, <1>4, <1>5, <1>6, <1>7
     DEF Elsewhere, Tick, ReleaseReader, storeVars

-----------------------------------------------------------------------------
(* What a pass knows. *)

Know == /\ TypeOK /\ EstimateInv /\ PageInv /\ CursorInv
        /\ ConstrainedIsExhaustive

ObservationOf == \A l \in Location : Observation(l) \in Observations

LEMMA ObservationType == TypeOK => ObservationOf
  BY DEF TypeOK, ObservationOf, Observation, Observations

LEMMA Order ==
  ASSUME NEW a \in Observations, NEW b \in Observations
  PROVE  /\ ~(Precedes(a, b) /\ Precedes(b, a))
         /\ \A c \in Observations :
              Precedes(a, b) /\ Precedes(b, c) => Precedes(a, c)
<1>1. ASSUME NEW o \in Observations
      PROVE  o.location \in Nat /\ o.recency \in Nat
  <2>1. o.location \in Location /\ o.recency \in 0 .. MaxClock
    BY DEF Observations
  <2>2. Location \subseteq Nat
    BY Bounds
  <2>3. \A n \in 0 .. MaxClock : n \in Nat
    BY Bounds
  <2>4. o.location \in Nat
    BY <2>1, <2>2, Zenon
  <2>5. o.recency \in Nat
    BY <2>1, <2>3, Zenon
  <2> QED
    BY <2>4, <2>5
<1> QED
  BY <1>1 DEF Precedes

(* Nothing of it is lost by what the others do. *)
LEMMA OutsideKeeps ==
  ASSUME Know, Passing, AroundPass, recency' \in [Location -> 0 .. MaxClock]
  PROVE  EstimateInv' /\ PageInv' /\ CursorInv' /\ ConstrainedIsExhaustive'
<1>1. /\ pass \in Pass /\ pass.others \in Nat /\ pass.usage \in Nat
      /\ pass' \in Pass /\ pass'.others \in Nat /\ pass'.usage = pass.usage
      /\ pass'.at = pass.at /\ pass'.cursor = pass.cursor
      /\ pass'.page = pass.page /\ pass'.seen = pass.seen
      /\ pass'.seen \subseteq Location /\ explicit' = explicit
  BY PassNote DEF Know, AroundPass, Stays, Pass
<1>2. EstimateInv'
  <2>1. InUse + pass.others <= InUse' + pass'.others
    BY DEF AroundPass
  <2>2. pass.at = "usage" => FilesystemUsage + pass.others
                              <= FilesystemUsage' + pass'.others
    BY DEF AroundPass
  <2>3. /\ InUse \in Nat /\ InUse' \in Nat
        /\ FilesystemUsage \in Nat /\ FilesystemUsage' \in Nat
    <3>1. (InUse \in Nat /\ FilesystemUsage \in Nat)'
      BY UsageType, PTL
    <3> QED
      BY <3>1, UsageType
  <2>4. TargetBytes \in Nat
    BY TargetInBudget
  <2> QED
    BY <1>1, <2>1, <2>2, <2>3, <2>4 DEF Know, EstimateInv, Listing
<1>3. /\ pass.moved \subseteq pass'.moved /\ pass.stale \subseteq pass'.stale
      /\ \A l \in Location :
           /\ \/ recency'[l] = recency[l]
              \/ l \in pass'.moved /\ (l \in InPage => l \in pass'.stale)
           /\ at'[l] = "active" => at[l] = "active" \/ l \in pass'.moved
  BY DEF AroundPass
<1>4. \A o \in ToSet(pass.page) : o.location \in InPage /\ o.location \in Location
  <2>1. ToSet(pass.page) \subseteq Observations
    BY <1>1 DEF Pass, ToSet
  <2> QED
    BY <2>1 DEF InPage, Observations
<1>5. PageInv'
  <2>1. SUFFICES ASSUME pass.at = "page" PROVE PageInv'
    BY <1>1 DEF PageInv
  <2>2. pass.page # <<>> /\ IsSorted(pass.page, Precedes)
    BY <2>1 DEF Know, PageInv
  <2>3. ASSUME NEW o \in ToSet(pass.page)
        PROVE  /\ After(o, pass.cursor)
               /\ \/ o.recency = recency'[o.location]
                  \/ o.location \in pass'.stale \cap pass'.moved
               /\ \A q \in ToSet(pass.page) : o.location = q.location => o = q
    BY <1>3, <1>4, <2>1, <2>3 DEF Know, PageInv
  <2> QED
    BY <1>1, <2>2, <2>3 DEF PageInv, After
<1>6. \A l \in Untouched' : /\ l \in Untouched
                           /\ Observation(l)' = Observation(l)
  BY <1>1, <1>3 DEF Untouched, LocationsAt, Observation
<1>7. \A l \in (pass.seen \ pass.moved)' : /\ l \in pass.seen \ pass.moved
                                          /\ Observation(l)' = Observation(l)
  BY <1>1, <1>3 DEF Observation
<1>8. CursorInv'
  <2>1. pass.at = "pages" =>
          \A l \in Untouched' : After(Observation(l)', pass.cursor)
    BY <1>6 DEF Know, CursorInv
  <2>2. pass.at = "page" =>
       \A l \in Untouched' : \/ Observation(l)' \in ToSet(pass.page)
                            \/ Precedes(Last(pass.page), Observation(l)')
    BY <1>6 DEF Know, CursorInv
  <2>3. pass.at \in {"pages", "page"} =>
       \A l \in (pass.seen \ pass.moved)' : ~After(Observation(l)', pass.cursor)
    BY <1>7 DEF Know, CursorInv
  <2> QED
    BY <1>1, <2>1, <2>2, <2>3 DEF CursorInv, After
<1>9. ConstrainedIsExhaustive'
  BY <1>1, <1>3 DEF Know, ConstrainedIsExhaustive, LocationsAt
<1> QED
  BY <1>2, <1>5, <1>8, <1>9

-----------------------------------------------------------------------------
(* Pages. *)

LEMMA SeqOfType ==
  ASSUME NEW S, NEW n \in Nat, NEW s \in SeqOf(S, n)
  PROVE  s \in Seq(S) /\ Len(s) <= n
<1>1. PICK m \in 0 .. n : s \in [1 .. m -> S]
  BY DEF SeqOf
<1>2. s \in Seq(S) /\ Len(s) = m
  BY <1>1
<1> QED
  BY <1>1, <1>2

(* A sorted page is its head, which comes first, and the rest, which is    *)
(* sorted and ends as the page does.                                       *)
LEMMA SortedPage ==
  ASSUME NEW page \in Seq(Observations), page # <<>>,
         IsSorted(page, Precedes)
  PROVE  /\ Head(page) \in Observations /\ Tail(page) \in Seq(Observations)
         /\ Len(Tail(page)) <= Len(page)
         /\ ToSet(page) = {Head(page)} \cup ToSet(Tail(page))
         /\ IsSorted(Tail(page), Precedes)
         /\ \A o \in ToSet(Tail(page)) : Precedes(Head(page), o)
         /\ Last(page) = IF Tail(page) = <<>> THEN Head(page)
                                              ELSE Last(Tail(page))
<1>1. /\ Len(page) \in Nat \ {0} /\ Head(page) = page[1]
      /\ \A i \in 1 .. Len(page) : page[i] \in Observations
      /\ DOMAIN page = 1 .. Len(page)
  OBVIOUS
<1>2. PICK rest : rest = Tail(page)
  OBVIOUS
<1>3. /\ rest \in Seq(Observations) /\ Len(rest) = Len(page) - 1
      /\ DOMAIN rest = 1 .. Len(rest)
      /\ \A i \in 1 .. Len(rest) : rest[i] = page[i + 1]
  BY <1>1, <1>2
<1>4. \A i, j \in 1 .. Len(page) : i < j => Precedes(page[i], page[j])
  BY DEF IsSorted
<1>5. ToSet(page) = {Head(page)} \cup ToSet(rest)
  <2>1. ASSUME NEW i \in 1 .. Len(page)
        PROVE  page[i] \in {Head(page)} \cup ToSet(rest)
    <3>1. CASE i = 1
      BY <1>1, <3>1
    <3>2. CASE i # 1
      <4>1. i - 1 \in 1 .. Len(rest)
        BY <1>1, <1>3, <3>2
      <4>2. rest[i - 1] = page[i]
        BY <1>3, <4>1
      <4> QED
        BY <1>3, <4>1, <4>2 DEF ToSet
    <3> QED
      BY <3>1, <3>2
  <2>2. ASSUME NEW i \in 1 .. Len(rest)
        PROVE  rest[i] \in ToSet(page)
    <3>1. i + 1 \in 1 .. Len(page)
      BY <1>1, <1>3
    <3> QED
      BY <1>1, <1>3, <3>1 DEF ToSet
  <2>3. Head(page) \in ToSet(page)
    BY <1>1 DEF ToSet
  <2> QED
    BY <1>1, <1>3, <2>1, <2>2, <2>3 DEF ToSet
<1>6. IsSorted(rest, Precedes)
  <2> SUFFICES ASSUME NEW i \in 1 .. Len(rest), NEW j \in 1 .. Len(rest), i < j
               PROVE  Precedes(rest[i], rest[j])
    BY DEF IsSorted
  <2>1. i + 1 \in 1 .. Len(page) /\ j + 1 \in 1 .. Len(page) /\ i + 1 < j + 1
    BY <1>1, <1>3
  <2>2. Precedes(page[i + 1], page[j + 1])
    BY <1>4, <2>1
  <2> QED
    BY <1>3, <2>2
<1>7. ASSUME NEW o \in ToSet(rest) PROVE Precedes(Head(page), o)
  <2>1. PICK i \in 1 .. Len(rest) : o = rest[i]
    BY <1>3, <1>7 DEF ToSet
  <2>2. 1 \in 1 .. Len(page) /\ i + 1 \in 1 .. Len(page) /\ 1 < i + 1
    BY <1>1, <1>3
  <2>3. Precedes(page[1], page[i + 1])
    BY <1>4, <2>2
  <2> QED
    BY <1>1, <1>3, <2>1, <2>3
<1>8. Last(page) = IF rest = <<>> THEN Head(page) ELSE Last(rest)
  <2>1. CASE rest = <<>>
    <3>0. Len(rest) = 0
      BY <2>1
    <3>1. Len(page) = 1
      <4>1. 0 = Len(page) - 1
        BY <1>3, <3>0, Zenon
      <4>2. Len(page) \in Nat
        BY <1>1, Zenon
      <4> QED
        BY ONLY <4>1, <4>2
    <3> QED
      BY <1>1, <2>1, <3>1 DEF Last
  <2>2. CASE rest # <<>>
    <3>1. Len(rest) \in Nat /\ Len(rest) # 0
      BY <1>3, <2>2
    <3>2. Len(rest) \in 1 .. Len(rest)
      BY <3>1
    <3>3. rest[Len(rest)] = page[Len(rest) + 1]
      BY <1>3, <3>2
    <3>4. Len(rest) + 1 = Len(page)
      BY <1>1, <1>3
    <3> QED
      BY <2>2, <3>3, <3>4 DEF Last
  <2> QED
    BY <2>1, <2>2
<1>9. Len(rest) <= Len(page) /\ Head(page) \in Observations
  BY <1>1, <1>3
<1> QED
  BY <1>2, <1>3, <1>5, <1>6, <1>7, <1>8, <1>9, Zenon

-----------------------------------------------------------------------------
(* The steps of the pass. *)

(* While no pass runs nothing is claimed of one. *)
LEMMA NotRunning ==
  ASSUME pass' = NoPass
  PROVE  EstimateInv' /\ PageInv' /\ CursorInv' /\ ConstrainedIsExhaustive'
  BY DEF NoPass, EstimateInv, Listing, PageInv, CursorInv,
         ConstrainedIsExhaustive

LEMMA RunsWhen == ASSUME pass.at # "idle" PROVE Passing
  BY DEF Passing, NoPass

LEMMA CandidatesStep ==
  ASSUME Know, CapacityCandidates
  PROVE  /\ pass' \in Pass /\ Len(pass'.page) <= CandidatePageSize
         /\ pass'.stale = {} /\ EstimateInv' /\ PageInv' /\ CursorInv'
         /\ ConstrainedIsExhaustive'
<1> DEFINE candidates == {o \in {Observation(l) : l \in LocationsAt("active")} :
                            After(o, pass.cursor)}
<1>1. PICK page \in SeqOf(candidates, CandidatePageSize) :
        /\ IsPage(page, candidates)
        /\ pass' = [pass EXCEPT !.page = page, !.stale = {},
                      !.at = IF page = <<>> THEN "constrained" ELSE "page"]
  BY DEF CapacityCandidates
<1>2. /\ pass.at = "pages" /\ pass \in Pass /\ TypeOK /\ ObservationOf
      /\ UNCHANGED <<at, recency, explicit>>
  BY RunsWhen, PassNote, ObservationType DEF CapacityCandidates, Know, storeVars
<1>3. candidates \subseteq Observations
  BY <1>2 DEF ObservationOf, LocationsAt
<1>4. /\ \A o \in candidates : /\ After(o, pass.cursor)
                              /\ o.location \in LocationsAt("active")
                              /\ o = Observation(o.location)
      /\ \A l \in LocationsAt("active") :
           After(Observation(l), pass.cursor) => Observation(l) \in candidates
  BY DEF Observation
<1> HIDE DEF candidates
<1>5. page \in Seq(candidates) /\ Len(page) <= CandidatePageSize
  BY <1>1, SeqOfType, Bounds
<1>6. page \in Seq(Observations) /\ ToSet(page) \subseteq candidates
  BY <1>3, <1>5 DEF ToSet
<1>7. /\ pass'.page = page /\ pass'.stale = {} /\ pass'.cursor = pass.cursor
      /\ pass'.seen = pass.seen /\ pass'.moved = pass.moved
      /\ pass'.usage = pass.usage /\ pass'.others = pass.others
      /\ pass'.at = IF page = <<>> THEN "constrained" ELSE "page"
  BY <1>1, <1>2 DEF Pass
<1>8. pass' \in Pass
  BY <1>1, <1>2, <1>6 DEF Pass
<1>9. EstimateInv'
  BY <1>2, <1>7 DEF Know, EstimateInv, Listing, InUse, FilesystemUsage, LocationsAt
<1>10. PageInv'
  <2>1. SUFFICES ASSUME page # <<>> PROVE PageInv'
    BY <1>7 DEF PageInv
  <2>2. IsSorted(page, Precedes)
    BY <1>1 DEF IsPage
  <2>3. ASSUME NEW o \in ToSet(page)
        PROVE  /\ After(o, pass.cursor) /\ o.recency = recency[o.location]
               /\ \A q \in ToSet(page) : o.location = q.location => o = q
    <3>1. o \in candidates
      BY <1>6
    <3>2. o.recency = recency[o.location]
      BY <1>4, <3>1 DEF Observation
    <3> QED
      BY <1>4, <1>6, <3>1, <3>2
  <2> QED
    BY <1>2, <1>7, <2>1, <2>2, <2>3 DEF PageInv, After
<1>11. Untouched' = Untouched /\ \A l : Observation(l)' = Observation(l)
  BY <1>2, <1>7 DEF Untouched, LocationsAt, Observation
<1>12. \A l \in Untouched : Observation(l) \in candidates
  BY <1>2, <1>4 DEF Know, CursorInv, Untouched
<1>13. CursorInv'
  <2>1. page # <<>> =>
          \A l \in Untouched : \/ Observation(l) \in ToSet(page)
                              \/ Precedes(Last(page), Observation(l))
    BY <1>1, <1>12 DEF IsPage
  <2>2. \A l \in pass.seen \ pass.moved : ~After(Observation(l), pass.cursor)
    BY <1>2 DEF Know, CursorInv
  <2> QED
    BY <1>7, <1>11, <2>1, <2>2 DEF CursorInv, After
<1>14. ConstrainedIsExhaustive'
  <2>1. SUFFICES ASSUME page = <<>> PROVE ConstrainedIsExhaustive'
    BY <1>7 DEF ConstrainedIsExhaustive
  <2>2. candidates \subseteq ToSet(page)
    BY <1>1, <2>1, Bounds DEF IsPage
  <2>3. Untouched = {}
    BY <1>12, <2>1, <2>2 DEF ToSet
  <2> QED
    BY <1>2, <1>7, <2>3 DEF ConstrainedIsExhaustive, Untouched, LocationsAt
<1> QED
  BY <1>5, <1>7, <1>8, <1>9, <1>10, <1>13, <1>14

(* EvictNext moves the cursor to the head of the page.                     *)
LEMMA EvictNextStep ==
  ASSUME Know, EvictNext
  PROVE  /\ \/ pass' = NoPass
            \/ /\ pass' \in Pass /\ Len(pass'.page) <= CandidatePageSize
               /\ pass'.stale \subseteq InPage'
         /\ AtType' /\ EstimateInv' /\ PageInv' /\ CursorInv'
         /\ ConstrainedIsExhaustive'
<1>1. /\ pass.at = "page" /\ pass.page # <<>> /\ pass \in Pass /\ TypeOK
      /\ Passing /\ AtType /\ explicit \in BOOLEAN
      /\ UNCHANGED <<recency, explicit>>
      /\ IsSorted(pass.page, Precedes) /\ Len(pass.page) <= CandidatePageSize
      /\ pass.stale \subseteq InPage
  BY RunsWhen, PassNote DEF EvictNext, Know, TypeOK, AtType, PageInv
<1>2. /\ pass.page \in Seq(Observations) /\ pass.usage \in Nat
      /\ pass.others \in Nat /\ pass.seen \in SUBSET Location
      /\ pass.moved \in SUBSET Location /\ pass.stale \in SUBSET Location
      /\ pass.cursor \in SeqOf(Observations, 1)
  BY <1>1 DEF Pass
<1>3. PICK o, rest : o = Head(pass.page) /\ rest = Tail(pass.page)
  OBVIOUS
<1>4. /\ o \in Observations /\ rest \in Seq(Observations)
      /\ Len(rest) <= Len(pass.page)
      /\ ToSet(pass.page) = {o} \cup ToSet(rest)
      /\ IsSorted(rest, Precedes)
      /\ \A q \in ToSet(rest) : Precedes(o, q)
      /\ Last(pass.page) = IF rest = <<>> THEN o ELSE Last(rest)
  BY <1>1, <1>2, <1>3, SortedPage, Zenon
<1>5. PICK l \in Location : l = o.location
  BY <1>4 DEF Observations
<1>6. PICK usage : usage = IF Claims(o) THEN Evicted(pass.usage, l)
                                       ELSE pass.usage
  OBVIOUS
<1>7. /\ at' = IF Claims(o) THEN [at EXCEPT ![l] = "pending"] ELSE at
      /\ pass' = IF usage <= TargetBytes THEN NoPass
             ELSE [pass EXCEPT
                     !.at = IF rest = <<>> THEN "pages" ELSE "page",
                     !.usage = usage, !.cursor = <<o>>, !.page = rest,
                     !.stale = @ \ {l}, !.seen = @ \cup {l}]
  BY <1>3, <1>5, <1>6 DEF EvictNext
<1>8. Claims(o) => Dropped(l)
  BY <1>5, <1>7 DEF Claims, Current, Dropped, Goes
<1>9. AtType' /\ \A k \in Location : at'[k] = "active" => at[k] = "active"
  BY <1>1, <1>7 DEF AtType
<1>10. /\ InUse \in Nat /\ InUse' \in Nat /\ Size[l] \in Nat
       /\ Dropped(l) => InUse = InUse' + Size[l]
  BY <1>1, BytesKinds
<1>11. /\ usage \in Nat
       /\ pass.usage <= InUse + pass.others => usage <= InUse' + pass.others
  <2>1. CASE Claims(o)
    <3>1. usage = IF 0 >= pass.usage - Size[l] THEN 0
                    ELSE pass.usage - Size[l]
      BY <1>2, <1>6, <1>10, <2>1, MaxOf DEF Evicted
    <3> QED
      BY <1>2, <1>8, <1>10, <2>1, <3>1
  <2>2. CASE ~Claims(o)
    <3>1. InUse' = InUse
      BY <1>1, <1>7, <2>2 DEF InUse, FilesystemUsage, LocationsAt
    <3> QED
      BY <1>2, <1>6, <2>2, <3>1
  <2> QED
    BY <2>1, <2>2
<1>12. CASE usage <= TargetBytes
  BY <1>7, <1>9, <1>12, NotRunning
<1>13. CASE ~(usage <= TargetBytes)
  <2>1. /\ pass'.at = IF rest = <<>> THEN "pages" ELSE "page"
        /\ pass'.usage = usage /\ pass'.cursor = <<o>> /\ pass'.page = rest
        /\ pass'.stale = pass.stale \ {l} /\ pass'.seen = pass.seen \cup {l}
        /\ pass'.moved = pass.moved /\ pass'.others = pass.others
    BY <1>1, <1>7, <1>13 DEF Pass
  <2>2. pass' \in Pass
    <3>1. <<o>> \in SeqOf(Observations, 1)
      BY <1>4 DEF SeqOf
    <3>2. /\ pass.stale \ {l} \in SUBSET Location
          /\ pass.seen \cup {l} \in SUBSET Location
      BY <1>2
    <3> QED
      BY <1>1, <1>4, <1>7, <1>11, <1>13, <3>1, <3>2 DEF Pass
  <2>3. pass'.stale \subseteq InPage'
    <3>1. \A k \in pass.stale \ {l} : \E q \in ToSet(rest) : k = q.location
      BY <1>1, <1>4, <1>5 DEF InPage
    <3> QED
      BY <2>1, <3>1 DEF InPage
  <2>4. Len(pass'.page) <= CandidatePageSize
    BY <1>1, <1>2, <1>4, <2>1, Bounds
  <2>5. EstimateInv'
    <3>1. pass.usage <= InUse + pass.others
      BY <1>1 DEF Know, EstimateInv, Listing
    <3>2. usage > TargetBytes
      BY <1>11, <1>13, TargetInBudget
    <3> QED
      BY <1>11, <2>1, <3>1, <3>2 DEF EstimateInv, Listing
  <2>6. ~Precedes(o, o) /\ ~ \E q \in ToSet(rest) : q.location = l
    <3>1. ~Precedes(o, o)
      BY <1>4, Order
    <3> QED
      BY <1>1, <1>4, <1>5, <3>1 DEF Know, PageInv
  <2>7. PageInv'
    <3>1. ASSUME NEW q \in ToSet(rest)
          PROVE  /\ After(q, <<o>>)
                 /\ \/ q.recency = recency[q.location]
                    \/ q.location \in (pass.stale \ {l}) \cap pass.moved
                 /\ \A r \in ToSet(rest) : q.location = r.location => q = r
      <4>1. After(q, <<o>>)
        BY <1>4 DEF After
      <4> QED
        BY <1>1, <1>4, <2>6, <4>1 DEF Know, PageInv
    <3> QED
      BY <1>1, <1>4, <2>1, <3>1 DEF PageInv
  <2>8. ASSUME NEW k \in Untouched'
        PROVE  /\ k \in Untouched /\ k # l /\ Observation(k)' = Observation(k)
               /\ Observation(k) # o
    <3>1. k \in Location /\ at'[k] = "active" /\ k \notin pass'.seen \cup pass'.moved
      BY DEF Untouched, LocationsAt
    <3> QED
      BY <1>1, <1>5, <1>9, <2>1, <3>1 DEF Untouched, LocationsAt, Observation
  <2>9. ASSUME NEW k \in Untouched'
        PROVE  IF rest = <<>> THEN Precedes(o, Observation(k))
                 ELSE \/ Observation(k) \in ToSet(rest)
                      \/ Precedes(Last(rest), Observation(k))
    <3>1. \/ Observation(k) \in ToSet(pass.page)
          \/ Precedes(Last(pass.page), Observation(k))
      BY <1>1, <2>8 DEF Know, CursorInv
    <3>2. rest = <<>> => ToSet(rest) = {}
      BY DEF ToSet
    <3> QED
      BY <1>4, <2>8, <3>1, <3>2
  <2>10. ASSUME NEW k \in pass'.seen \ pass'.moved
         PROVE  ~Precedes(o, Observation(k)) /\ Observation(k)' = Observation(k)
    <3>1. k \in Location /\ Observation(k)' = Observation(k)
      BY <1>1, <1>2, <2>1 DEF Observation
    <3>2. CASE k = l
      <4>1. o.recency = recency[l]
        BY <1>1, <1>4, <1>5, <2>1, <2>10, <3>2 DEF Know, PageInv
      <4>2. o = Observation(l)
        BY <1>4, <1>5, <4>1 DEF Observations, Observation
      <4> QED
        BY <2>6, <3>1, <3>2, <4>2
    <3>3. CASE k # l
      <4>1. k \in pass.seen \ pass.moved
        BY <2>1, <3>3
      <4>2. ~After(Observation(k), pass.cursor) /\ After(o, pass.cursor)
        BY <1>1, <1>4, <4>1 DEF Know, CursorInv, PageInv
      <4>3. pass.cursor # <<>> /\ Precedes(pass.cursor[1], o)
            /\ ~Precedes(pass.cursor[1], Observation(k))
        BY <4>2 DEF After
      <4>4. pass.cursor \in Seq(Observations) /\ Len(pass.cursor) <= 1
        BY <1>2, SeqOfType
      <4>5. pass.cursor[1] \in Observations
        BY <4>3, <4>4
      <4>6. Observation(k) \in Observations
        BY <1>1, <3>1, ObservationType DEF ObservationOf
      <4> QED
        BY <1>4, <3>1, <4>3, <4>5, <4>6, Order
    <3> QED
      BY <3>2, <3>3
  <2>11. CursorInv'
    BY <2>1, <2>8, <2>9, <2>10 DEF CursorInv, After
  <2>12. ConstrainedIsExhaustive'
    BY <2>1 DEF ConstrainedIsExhaustive
  <2> QED
    BY <1>9, <2>2, <2>3, <2>4, <2>5, <2>7, <2>11, <2>12
<1> QED
  BY <1>12, <1>13

(* The steps that measure what is in use.                                  *)
LEMMA OverStep ==
  ASSUME NEW usage \in Nat, Over(usage), UNCHANGED storeVars,
         Passing => pass \in Pass,
         usage <= InUse + (IF Passing THEN pass.others ELSE 0)
  PROVE  /\ \/ pass' = NoPass
            \/ /\ pass' \in Pass /\ Len(pass'.page) <= CandidatePageSize
               /\ pass'.stale \subseteq InPage'
         /\ EstimateInv' /\ PageInv' /\ CursorInv' /\ ConstrainedIsExhaustive'
<1>1. CASE usage <= Budget
  BY <1>1, NotRunning DEF Over
<1>2. CASE ~(usage <= Budget)
  <2>1. PICK moved, theirs : /\ moved = IF Passing THEN pass.moved ELSE {}
                             /\ theirs = IF Passing THEN pass.others ELSE 0
    OBVIOUS
  <2>2. moved \in SUBSET Location /\ theirs \in Nat
    BY <2>1 DEF Pass
  <2>3. pass' = [at |-> "pages", usage |-> usage, cursor |-> <<>>,
                 page |-> <<>>, seen |-> {}, stale |-> {}, moved |-> moved,
                 others |-> theirs]
    BY <1>2, <2>1 DEF Over
  <2>4. /\ pass'.at = "pages" /\ pass'.usage = usage /\ pass'.cursor = <<>>
        /\ pass'.page = <<>> /\ pass'.seen = {} /\ pass'.stale = {}
        /\ pass'.others = theirs
    BY <2>3
  <2>5. pass' \in Pass
    <3>1. <<>> \in SeqOf(Observations, 1) /\ <<>> \in Seq(Observations)
      BY DEF SeqOf
    <3> QED
      BY <2>2, <2>3, <3>1 DEF Pass
  <2>6. Len(pass'.page) <= CandidatePageSize /\ pass'.stale \subseteq InPage'
    BY <2>4, Bounds
  <2>7. EstimateInv'
    <3>1. InUse' = InUse
      BY DEF storeVars, InUse, FilesystemUsage, LocationsAt
    <3> QED
      BY <1>2, <2>1, <2>4, <3>1, TargetInBudget, Bounds DEF EstimateInv, Listing
  <2>8. PageInv' /\ CursorInv' /\ ConstrainedIsExhaustive'
    BY <2>4 DEF PageInv, CursorInv, ConstrainedIsExhaustive, After
  <2> QED
    BY <2>5, <2>6, <2>7, <2>8
<1> QED
  BY <1>1, <1>2

LEMMA MeasureStep ==
  ASSUME Know, SumActiveSizes \/ ReadFilesystemUsage \/ SumPendingCredit
  PROVE  /\ \/ pass' = NoPass
            \/ /\ pass' \in Pass /\ Len(pass'.page) <= CandidatePageSize
               /\ pass'.stale \subseteq InPage'
         /\ EstimateInv' /\ PageInv' /\ CursorInv' /\ ConstrainedIsExhaustive'
<1>1. /\ AsSums /\ Base \in Nat /\ OtherBytes \in Nat /\ Budget \in Nat
      /\ CandidatePageSize \in Nat /\ LocationsAt("active") \in SUBSET Location
      /\ LocationsAt("pending") \in SUBSET Location
  BY InUseIs, Bounds DEF Base, LocationsAt
<1>2. /\ Total(LocationsAt("active")) \in Nat /\ Total(LocationsAt("pending")) \in Nat
      /\ Total(Counted) \in Nat /\ Total(OnVolume) \in Nat
  BY <1>1, BytesType DEF AsSums
<1>3. FilesystemUsage \in Nat /\ InUse \in Nat
  BY UsageType
<1>4. CASE SumActiveSizes
  <2>1. /\ ~Passing /\ explicit /\ Over(Total(LocationsAt("active")))
        /\ UNCHANGED storeVars
    BY <1>4 DEF SumActiveSizes
  <2>2. Total(LocationsAt("active")) <= InUse + 0
    BY <1>2, <2>1 DEF InUse
  <2> QED
    BY <1>2, <2>1, <2>2, OverStep
<1>5. CASE ReadFilesystemUsage
  <2>1. /\ pass' = [at |-> "usage", usage |-> FilesystemUsage, cursor |-> <<>>,
                    page |-> <<>>, seen |-> {}, stale |-> {}, moved |-> {},
                    others |-> 0]
        /\ ~explicit /\ UNCHANGED storeVars
    BY <1>5 DEF ReadFilesystemUsage
  <2>2. FilesystemUsage' = FilesystemUsage
    BY <2>1 DEF storeVars, FilesystemUsage, LocationsAt
  <2>3. pass' \in Pass
    <3>1. <<>> \in SeqOf(Observations, 1) /\ <<>> \in Seq(Observations)
      BY DEF SeqOf
    <3> QED
      BY <1>3, <2>1, <3>1 DEF Pass
  <2>4. /\ pass'.at = "usage" /\ pass'.usage = FilesystemUsage
        /\ pass'.page = <<>> /\ pass'.stale = {} /\ pass'.others = 0
    BY <2>1
  <2>5. Len(pass'.page) <= CandidatePageSize /\ pass'.stale \subseteq InPage'
    BY <1>1, <2>4
  <2>6. EstimateInv'
    BY <1>3, <2>1, <2>2, <2>4 DEF EstimateInv, Listing, storeVars
  <2>7. PageInv' /\ CursorInv' /\ ConstrainedIsExhaustive'
    BY <2>4 DEF PageInv, CursorInv, ConstrainedIsExhaustive
  <2> QED
    BY <2>3, <2>5, <2>6, <2>7
<1>6. CASE SumPendingCredit
  <2>1. PICK pending : pending = {l \in Location : PendingCredit(l)}
    OBVIOUS
  <2>2. pending = LocationsAt("pending")
    BY <2>1 DEF PendingCredit, LocationsAt
  <2>3. /\ pass.at = "usage" /\ UNCHANGED storeVars
        /\ Over(Max({0, pass.usage - Total(pending)}))
    BY <1>6, <2>1 DEF SumPendingCredit
  <2>4. Passing /\ pass \in Pass /\ pass.usage \in Nat /\ pass.others \in Nat
    BY <2>3, RunsWhen, PassNote DEF Know
  <2>5. ~explicit /\ pass.usage <= FilesystemUsage + pass.others
    BY <2>3 DEF Know, EstimateInv
  <2>6. InUse = FilesystemUsage - Total(pending)
    BY <2>2, <2>5 DEF InUse
  <2>7. PICK usage : usage = Max({0, pass.usage - Total(pending)})
    OBVIOUS
  <2>8. Total(pending) \in Nat
    BY <1>2, <2>2, Zenon
  <2>9. usage = IF 0 >= pass.usage - Total(pending) THEN 0
                  ELSE pass.usage - Total(pending)
    BY <2>4, <2>7, <2>8, MaxOf
  <2>10. usage \in Nat /\ usage <= InUse + pass.others
    BY <1>3, <2>4, <2>5, <2>6, <2>8, <2>9
  <2>11. Over(usage)
    BY <2>3, <2>7, Zenon
  <2> QED
    BY <2>3, <2>4, <2>10, <2>11, OverStep
<1> QED
  BY <1>4, <1>5, <1>6

-----------------------------------------------------------------------------

(* What only the pass does leaves the rest of the state well formed.       *)
LEMMA TypeKept ==
  ASSUME StateOK, explicit' \in BOOLEAN,
         \/ pass' = NoPass
         \/ /\ pass' \in Pass /\ Len(pass'.page) <= CandidatePageSize
            /\ pass'.stale \subseteq InPage'
  PROVE  TypeOK'
  BY DEF StateOK, AtType, TypeOK, Passing

LEMMA PassInit == Init => PassInv
<1> SUFFICES ASSUME Init PROVE PassInv
  OBVIOUS
<1>1. pass = NoPass /\ pass.at = "idle"
  BY DEF Init, NoPass
<1>2. TypeOK
  BY <1>1, Bounds DEF Init, TypeOK, Passing
<1> QED
  BY <1>1, <1>2 DEF PassInv, EstimateInv, Listing, PageInv, CursorInv,
                    ConstrainedIsExhaustive

LEMMA PassStep == PassInv /\ [Next]_vars => PassInv'
<1> SUFFICES ASSUME PassInv, [Next]_vars PROVE PassInv'
  OBVIOUS
<1>1. Know /\ TypeOK
  BY DEF PassInv, Know
<1>2. CASE UNCHANGED vars
  <2>1. PassInv' = PassInv
    BY <1>2 DEF vars, PassInv, TypeOK, Passing, InPage, EstimateInv, Listing,
                InUse, FilesystemUsage, LocationsAt, PageInv, After, CursorInv, Untouched,
                Observation, ConstrainedIsExhaustive
  <2> QED
    BY <2>1
<1>3. ASSUME NEW l \in Location, Elsewhere(l) PROVE PassInv'
  <2>1. StateOK /\ UNCHANGED explicit /\ explicit' \in BOOLEAN
    BY <1>1, <1>3, ElsewhereState DEF TypeOK
  <2>2. CASE Passing
    <3>1. pass.at = "usage" => ~explicit
      BY <1>1 DEF Know, EstimateInv
    <3>2. AroundPass
      BY <1>1, <1>3, <2>2, <3>1, ElsewherePass
    <3>3. EstimateInv' /\ PageInv' /\ CursorInv' /\ ConstrainedIsExhaustive'
      BY <1>1, <2>1, <2>2, <3>2, OutsideKeeps DEF StateOK
    <3>4. /\ pass' \in Pass /\ Len(pass'.page) <= CandidatePageSize
          /\ pass'.stale \subseteq InPage'
      BY <1>1, <2>2, <3>2 DEF TypeOK, AroundPass, Stays, InPage
    <3> QED
      BY <2>1, <3>3, <3>4, TypeKept DEF PassInv
  <2>3. CASE ~Passing
    <3>1. pass' = NoPass
      BY <1>3, <2>3 DEF Elsewhere, Tick, Finalize, Download, ReleaseReader,
                        TouchStorageLocationIfStale, RequestDeletion, DeleteRow,
                        DeleteFolder, Note, Passing
    <3> QED
      BY <2>1, <3>1, TypeKept, NotRunning DEF PassInv
  <2> QED
    BY <2>2, <2>3
<1>4. CASE Tick
  <2>1. UNCHANGED <<at, recency, explicit, pass>>
    BY <1>4 DEF Tick, storeVars
  <2>2. TypeOK' /\ recency' \in [Location -> 0 .. MaxClock]
    BY <1>1, <1>4, Bounds DEF Tick, storeVars, TypeOK, Passing, InPage
  <2>3. CASE Passing
    BY <1>1, <2>1, <2>2, <2>3, QuietPass, OutsideKeeps DEF PassInv
  <2>4. CASE ~Passing
    BY <2>1, <2>2, <2>4, NotRunning DEF PassInv, Passing
  <2> QED
    BY <2>3, <2>4
<1>5. ASSUME SumActiveSizes \/ ReadFilesystemUsage \/ SumPendingCredit
      PROVE  PassInv'
  <2>1. StateOK /\ explicit' \in BOOLEAN
    BY <1>1, <1>5 DEF SumActiveSizes, ReadFilesystemUsage, SumPendingCredit,
                      storeVars, TypeOK, StateOK, AtType
  <2> QED
    BY <1>1, <1>5, <2>1, MeasureStep, TypeKept DEF PassInv
<1>6. CASE CapacityCandidates
  <2>1. StateOK /\ explicit' \in BOOLEAN
    BY <1>1, <1>6 DEF CapacityCandidates, storeVars, TypeOK, StateOK, AtType
  <2>2. /\ pass' \in Pass /\ Len(pass'.page) <= CandidatePageSize
        /\ pass'.stale = {} /\ EstimateInv' /\ PageInv' /\ CursorInv'
        /\ ConstrainedIsExhaustive'
    BY <1>1, <1>6, CandidatesStep
  <2> QED
    BY <2>1, <2>2, TypeKept DEF PassInv
<1>7. CASE EvictNext
  <2>1. /\ \/ pass' = NoPass
           \/ /\ pass' \in Pass /\ Len(pass'.page) <= CandidatePageSize
              /\ pass'.stale \subseteq InPage'
        /\ AtType' /\ EstimateInv' /\ PageInv' /\ CursorInv'
        /\ ConstrainedIsExhaustive'
    BY <1>1, <1>7, EvictNextStep
  <2>2. StateOK /\ explicit' \in BOOLEAN
    BY <1>1, <1>7, <2>1 DEF EvictNext, TypeOK, StateOK
  <2> QED
    BY <2>1, <2>2, TypeKept DEF PassInv
<1>8. CASE EndPass \/ FailPass
  <2>1. StateOK /\ explicit' \in BOOLEAN /\ pass' = NoPass
    BY <1>1, <1>8 DEF EndPass, FailPass, storeVars, TypeOK, StateOK, AtType
  <2> QED
    BY <2>1, TypeKept, NotRunning DEF PassInv
<1> QED
  BY <1>2, <1>3, <1>4, <1>5, <1>6, <1>7, <1>8 DEF Next, Elsewhere

(* LocationsAt every step of a pass its estimate is above the target and no more    *)
(* than is in use or was removed by others, its page is in order and tells *)
(* what it does not know to be out of date, and what it has not looked at  *)
(* is still to come; it gives up only when nothing is.                     *)
THEOREM PassIsSafe == Spec => []PassInv
<1>1. Init => PassInv
  BY PassInit
<1>2. PassInv /\ [Next]_vars => PassInv'
  BY PassStep
<1> QED
  BY <1>1, <1>2, PTL DEF Spec

(* A step that claims a location is EvictNext at the head of its page.     *)
LEMMA WhoClaims ==
  ASSUME PassInv, [Next]_vars, NEW l \in Location, Claimed(l)
  PROVE  EvictNext /\ Claims(Head(pass.page)) /\ l = Head(pass.page).location
<1>1. /\ at[l] = "active" /\ at'[l] = "pending" /\ Passing
      /\ ~(Passing' /\ pass'.page = pass.page) /\ AtType /\ TypeOK
  BY DEF Claimed, PassInv, TypeOK, AtType
<1>2. EvictNext
  <2>1. ASSUME NEW k \in Location, RequestDeletion(k) PROVE FALSE
    <3>1. Note({}, {k}, Size[k])
      BY <2>1 DEF RequestDeletion
    <3>2. pass' \in Pass /\ pass'.page = pass.page
      BY <1>1, <3>1, Noted, Bounds, PassNote DEF Stays
    <3>3. Passing'
      BY <3>2 DEF Passing, NoPass, Pass
    <3> QED
      BY <1>1, <3>2, <3>3
  <2>2. ASSUME NEW k \in Location,
               \/ Finalize(k) \/ Download(k) \/ TouchStorageLocationIfStale(k)
               \/ ReleaseReader(k) \/ DeleteRow(k) \/ DeleteFolder(k)
        PROVE  FALSE
    BY <1>1, <2>2 DEF Finalize, Download, TouchStorageLocationIfStale,
                      ReleaseReader, DeleteRow, DeleteFolder, AtType
  <2>3. ~ \/ Tick \/ SumActiveSizes \/ ReadFilesystemUsage \/ SumPendingCredit
          \/ CapacityCandidates \/ EndPass \/ FailPass \/ UNCHANGED vars
    BY <1>1 DEF Tick, SumActiveSizes, ReadFilesystemUsage, SumPendingCredit,
                CapacityCandidates, EndPass, FailPass, storeVars, vars
  <2> QED
    BY <2>1, <2>2, <2>3 DEF Next
<1>3. Claims(Head(pass.page)) /\ l = Head(pass.page).location
  BY <1>1, <1>2 DEF EvictNext, AtType
<1> QED
  BY <1>2, <1>3

LEMMA ClaimIsDue ==
  ASSUME PassInv, [Next]_vars, NEW l \in Location, Claimed(l)
  PROVE  OverTarget /\ OldestLeft(l)
<1>1. /\ EvictNext /\ Claims(Head(pass.page)) /\ l = Head(pass.page).location
      /\ pass.at = "page" /\ pass.page # <<>> /\ Know /\ TypeOK /\ Passing
  BY WhoClaims, RunsWhen DEF EvictNext, PassInv, Know
<1>2. /\ pass \in Pass /\ pass.page \in Seq(Observations)
      /\ pass.usage \in Nat /\ pass.others \in Nat
      /\ IsSorted(pass.page, Precedes)
  BY <1>1, PassNote DEF Pass, Know, PageInv
<1>3. OverTarget
  <2>1. InUse \in Nat /\ TargetBytes \in Nat
    BY UsageType, TargetInBudget
  <2> QED
    BY <1>1, <1>2, <2>1 DEF Know, EstimateInv, Listing, OverTarget
<1>4. OldestLeft(l)
  <2>1. PICK o, rest : o = Head(pass.page) /\ rest = Tail(pass.page)
    OBVIOUS
  <2>2. /\ o \in Observations /\ rest \in Seq(Observations)
        /\ ToSet(pass.page) = {o} \cup ToSet(rest)
        /\ \A q \in ToSet(rest) : Precedes(o, q)
        /\ Last(pass.page) = IF rest = <<>> THEN o ELSE Last(rest)
        /\ Last(pass.page) \in ToSet(pass.page)
    <3>1. Last(pass.page) \in ToSet(pass.page)
      BY <1>1, <1>2 DEF Last, ToSet
    <3> QED
      BY <1>1, <1>2, <2>1, <3>1, SortedPage, Zenon
  <2>3. o.location = l /\ o.recency = recency[l]
    BY <1>1, <2>1, <2>2 DEF Claims, Current, Know, PageInv
  <2>4. Observation(l) = o
    BY <2>2, <2>3 DEF Observation, Observations
  <2> SUFFICES ASSUME NEW k \in LocationsAt("active") \ {l},
                      Precedes(Observation(k), o),
                      k \notin pass.seen \cup pass.moved
               PROVE  FALSE
    BY <2>4 DEF OldestLeft
  <2>5. k \in Untouched /\ k \in Location
    BY DEF Untouched, LocationsAt
  <2>6. Observation(k) \in Observations /\ Observation(k) # o
    BY <1>1, <2>3, <2>5, ObservationType DEF ObservationOf, Observation
  <2>7. \/ Observation(k) \in ToSet(pass.page)
        \/ Precedes(Last(pass.page), Observation(k))
    BY <1>1, <2>5 DEF Know, CursorInv
  <2>8. CASE Observation(k) \in ToSet(pass.page)
    <3>1. Precedes(o, Observation(k))
      BY <2>2, <2>6, <2>8
    <3> QED
      BY <2>2, <2>6, <3>1, Order
  <2>9. CASE Precedes(Last(pass.page), Observation(k))
    <3>1. Last(pass.page) = o \/ Precedes(o, Last(pass.page))
      BY <2>2
    <3>2. Last(pass.page) \in Observations
      BY <1>2, <2>2 DEF ToSet
    <3>3. Precedes(o, Observation(k))
      BY <2>2, <2>6, <2>9, <3>1, <3>2, Order
    <3> QED
      BY <2>2, <2>6, <3>3, Order
  <2> QED
    BY <2>7, <2>8, <2>9
<1> QED
  BY <1>3, <1>4

(* The pass claims a location only while more than the target is in use,   *)
(* what others removed during the pass included, and only when whatever is *)
(* older was looked at or used since the pass began.                       *)
THEOREM EvictionsAreDue == Spec => EvictsOnlyWhatItMust
<1>1. PassInv /\ [Next]_vars
        => [\A l \in Location : Claimed(l) => OverTarget /\ OldestLeft(l)]_vars
  BY ClaimIsDue
<1> QED
  BY <1>1, PassIsSafe, PTL DEF Spec, EvictsOnlyWhatItMust

(* A pass looks at a location once, unless it was used since the pass      *)
(* began: page after page it comes to an end.                              *)
THEOREM PassesAdvance == Spec => PassAdvances
<1>1. ASSUME PassInv, [Next]_vars, pass.at = "page", Passing',
             pass'.page # pass.page
      PROVE  Head(pass.page).location \notin pass.seen \ pass.moved
  <2>1. /\ Know /\ Passing /\ TypeOK /\ pass.page # <<>> /\ pass \in Pass
        /\ IsSorted(pass.page, Precedes)
    BY <1>1, RunsWhen, PassNote DEF PassInv, Know, PageInv
  <2>2. PICK o : o = Head(pass.page)
    OBVIOUS
  <2>3. /\ o \in Observations /\ o \in ToSet(pass.page)
    <3>1. pass.page \in Seq(Observations)
      BY <2>1 DEF Pass
    <3>2. /\ o \in Observations
          /\ ToSet(pass.page) = {o} \cup ToSet(Tail(pass.page))
      BY <2>1, <2>2, <3>1, SortedPage, Zenon
    <3> QED
      BY <3>2
  <2>4. After(o, pass.cursor)
    BY <1>1, <2>1, <2>3 DEF Know, PageInv
  <2> SUFFICES ASSUME o.location \in pass.seen, o.location \notin pass.moved
               PROVE  FALSE
    BY <2>2
  <2>5. o.recency = recency[o.location]
    BY <1>1, <2>1, <2>3 DEF Know, PageInv
  <2>6. Observation(o.location) = o
    BY <2>3, <2>5 DEF Observation, Observations
  <2> QED
    BY <1>1, <2>1, <2>4, <2>6 DEF Know, CursorInv
<1>2. PassInv /\ [Next]_vars
        => [pass.at = "page" /\ Passing' /\ pass'.page # pass.page
              => Head(pass.page).location \notin pass.seen \ pass.moved]_vars
  BY <1>1
<1> QED
  BY <1>2, PassIsSafe, PTL DEF Spec, PassAdvances
=============================================================================
