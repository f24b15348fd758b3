------------------------------ MODULE CacheLookup ------------------------------
(***************************************************************************)
(* A lookup of a cache entry (GetCacheEntryWithDownloadURL in              *)
(* cache/service.go): one query after another, by scope, key, and exact    *)
(* match before prefix, until one answers; then the location of the entry, *)
(* and a probe of its object.  An entry whose object is missing is removed *)
(* and the lookup begins again, so often and no oftener.                   *)
(*                                                                         *)
(* Every query, probe and transaction is a step.  Between two of them      *)
(* uploads are completed, merged and expire, and objects are lost.         *)
(* A key is a sequence of letters, and a collation folds some of them.     *)
(***************************************************************************)
EXTENDS Integers, Sequences, SequencesExt

CONSTANTS
  Letter, Scope, Family,   \* a family is a version in a repository
  Tuple,         \* [key, scope, family]
  Engine, Fold,  \* databases; how each folds letters
  Asked,         \* lookups: [keys, scopes, family, direct]
  Single,        \* tuples whose archives have one part
  Entries,       \* what the cache holds at first: tuples to their updatedAt
  MaxAttempts,   \* maxDanglingPurgeAttempts
  MaxChanges     \* bounds what happens during a lookup

ASSUME LookupAssumption ==
  /\ \A t \in Tuple : /\ t = [key |-> t.key, scope |-> t.scope, family |-> t.family]
                      /\ t.key \in Seq(Letter) /\ t.scope \in Scope /\ t.family \in Family
  /\ Single \subseteq Tuple
  /\ MaxAttempts \in Nat \ {0} /\ MaxChanges \in Nat
  /\ \A held \in Entries : /\ DOMAIN held \subseteq Tuple
                          /\ \A t \in DOMAIN held : held[t] \in {0, 1}
  /\ \A q \in Asked :
       /\ q.keys \in Seq(Seq(Letter)) /\ q.keys # <<>>
       /\ q.scopes \in Seq([scope : Scope, permission : Int])
       /\ q.family \in Family /\ q.direct \in BOOLEAN

VARIABLES
  engine,
  entry,      \* the cache entries: the upload they refer to, and updatedAt
  locations,  \* the rows of storage locations
  merged, partsDeleted,   \* of them
  lost,       \* locations whose objects something else has removed
  uploads,    \* counts the uploads that were completed
  changes,
  asked,      \* the request
  lookup      \* its goroutine

\* What its properties speak of: the entries that could be served ever since it began,
\* their updatedAt then, and the locations that had lost their objects by then.
VARIABLES steady, age, dangling

lookupVars == <<engine, entry, locations, merged, partsDeleted, lost, uploads, changes,
                asked, lookup, steady, age, dangling>>
storeVars == <<entry, locations, merged, partsDeleted, lost, uploads, steady>>
fixedVars == <<engine, asked, age, dangling>>

\* A location is an upload of a tuple: no two entries share one.
Location == Tuple \X (0 .. MaxChanges)
Current(t) == <<t, entry[t].upload>>
Referenced == {Current(t) : t \in DOMAIN entry}

\* representationObjectName, and whether storage has that object.
Representation(l) == IF l \in merged THEN "merged" ELSE "parts"
ObjectExists(l, rep) ==
  l \in locations \ lost /\ IF rep = "merged" THEN l \in merged ELSE l \notin partsDeleted

LookupTypeOK ==
  /\ DOMAIN entry \subseteq Tuple /\ locations \subseteq Location
  /\ Referenced \subseteq locations
  /\ partsDeleted \subseteq merged /\ merged \subseteq locations
  /\ lookup.pc \in {"query", "location", "probe", "purge", "direct", "hit", "miss", "failed"}
  /\ lookup.attempts \in 0 .. MaxAttempts
  /\ lookup.url \in {"none", "direct", "fallback"}

\* ReadScopesByPermission: those that may be read, the more powerful ones first, and of
\* equal ones the one that is named first.  0 follows the last.
Readable == {s \in DOMAIN asked.scopes : asked.scopes[s].permission >= 1}
Sooner(i, j) ==
  LET P(s) == asked.scopes[s].permission IN P(i) > P(j) \/ (P(i) = P(j) /\ i < j)
Soonest(S) == IF S = {} THEN 0 ELSE CHOOSE i \in S : \A j \in S \ {i} : Sooner(i, j)

\* It begins with the first scope and key, exactly.
NoLookup == [pc |-> "query", attempts |-> 0, scope |-> Soonest(Readable), key |-> 1,
             prefix |-> FALSE, tuple |-> <<>>, found |-> <<>>, updatedAt |-> 0,
             rep |-> "parts", url |-> "none"]

LookupInit ==
  /\ engine \in Engine
  /\ \E held \in Entries :
       /\ entry = [t \in DOMAIN held |-> [upload |-> 0, updatedAt |-> held[t]]]
       /\ locations = {<<t, 0>> : t \in DOMAIN held}
       /\ lost \in SUBSET locations
       /\ steady = {t \in DOMAIN held : <<t, 0>> \notin lost}
       /\ age = held /\ dangling = lost
  /\ merged = {} /\ partsDeleted = {} /\ uploads = 0 /\ changes = 0
  /\ asked \in Asked
  /\ lookup = NoLookup

-----------------------------------------------------------------------------
(* Matching. *)

\* cachekey: what the collation of the column finds is compared letter by letter.
Folded(key) == [i \in DOMAIN key |-> Fold[engine][key[i]]]
Binary(key, value) == key = value
AsCollated(key, value) == TRUE   \* Fault: the comparison that confirms is left out.
Confirmed(key, value) == Binary(key, value)

Exact(key, value) == Folded(key) = Folded(value) /\ Confirmed(key, value)
Prefix(key, value) ==
  /\ IsPrefix(Folded(value), Folded(key))
  /\ Confirmed(SubSeq(key, 1, Len(value)), value)

Selects(query, t) ==
  /\ t.scope = query.scope /\ t.family = asked.family
  /\ IF query.prefix THEN Prefix(t.key, query.key) ELSE Exact(t.key, query.key)

\* findCacheEntry: of those with a prefix one of the youngest.
\* Fault: whichever the database returns first.
Unordered(query, t) == Selects(query, t)
First(query, t) ==
  /\ Selects(query, t)
  /\ query.prefix => \A u \in DOMAIN entry :
       Selects(query, u) => entry[u].updatedAt <= entry[t].updatedAt

-----------------------------------------------------------------------------
(* The lookup. *)

Answer(pc, url) == lookup' = [lookup EXCEPT !.pc = pc, !.url = url]

\* The loop begins again, if it may.  Fault: as often as it takes.
RetryAlways == lookup' = NoLookup
Retry ==
  lookup' = IF lookup.attempts + 1 = MaxAttempts
              THEN [lookup EXCEPT !.pc = "miss", !.attempts = MaxAttempts]
              ELSE [NoLookup EXCEPT !.attempts = lookup.attempts + 1]

LookupOnly == UNCHANGED <<storeVars, changes, fixedVars>>

Query == [scope |-> asked.scopes[lookup.scope].scope, key |-> asked.keys[lookup.key],
          prefix |-> lookup.prefix]

\* The loops of MatchCacheEntry and findExactOrPrefixedCacheEntry.
NextQuery ==
  IF ~lookup.prefix THEN [lookup EXCEPT !.prefix = TRUE]
  ELSE IF lookup.key < Len(asked.keys)
    THEN [lookup EXCEPT !.key = @ + 1, !.prefix = FALSE]
    ELSE [lookup EXCEPT !.scope = Soonest({s \in Readable : Sooner(lookup.scope, s)}),
                        !.key = 1, !.prefix = FALSE]

MatchCacheEntry ==
  /\ lookup.pc = "query"
  /\ \/ asked.keys[1] = <<>> /\ Answer("failed", "none")
     \/ asked.keys[1] # <<>> /\ lookup.scope = 0 /\ Answer("miss", "none")
     \/ /\ asked.keys[1] # <<>> /\ lookup.scope # 0
        /\ \/ \E t \in DOMAIN entry :
                /\ First(Query, t)
                /\ lookup' = [lookup EXCEPT !.pc = "location", !.tuple = t,
                     !.found = Current(t), !.updatedAt = entry[t].updatedAt]
           \/ (\A t \in DOMAIN entry : ~Selects(Query, t)) /\ lookup' = NextQuery
  /\ LookupOnly

\* A fenced location has been replaced, and one that is gone removed with its entry: the
\* PurgeDanglingCacheEntry of the latter then finds no entry that refers to it.
ReadLocation ==
  /\ lookup.pc = "location"
  /\ IF lookup.found \in locations \cap Referenced
       THEN lookup' = [lookup EXCEPT !.pc = "probe", !.rep = Representation(lookup.found)]
       ELSE Retry
  /\ LookupOnly

Direct(l) == asked.direct /\ (l \in merged \/ l[1] \in Single)

Probe ==
  /\ lookup.pc = "probe"
  /\ IF ObjectExists(lookup.found, lookup.rep)
       THEN IF asked.direct /\ (lookup.rep = "merged" \/ lookup.found[1] \in Single)
              THEN lookup' = [lookup EXCEPT !.pc = "direct"] ELSE Answer("hit", "fallback")
       ELSE lookup' = [lookup EXCEPT !.pc = "purge"]
  /\ LookupOnly

\* PurgeDanglingCacheEntryIfUnchanged.  It also gives way to a composer or a reader that
\* has the location.  Fault: what was merged meanwhile is taken for missing.
StillReferenced(l) == l \in Referenced
Unchanged(l) == l \in Referenced /\ Representation(l) = lookup.rep

RemoveEntry(t) == entry' = [u \in DOMAIN entry \ {t} |-> entry[u]]

PurgeDanglingCacheEntryIfUnchanged ==
  /\ lookup.pc = "purge"
  /\ \/ Unchanged(lookup.found) /\ RemoveEntry(lookup.tuple)
     \/ UNCHANGED entry
  /\ Retry
  /\ UNCHANGED <<locations, merged, partsDeleted, lost, uploads, changes, steady, fixedVars>>

\* AcquireReader, of the entry as it is now, whose location may be another than the one
\* that was probed; its object is looked for if it is not the same.
AcquireDirectReader ==
  LET t == lookup.tuple
      l == Current(t)
      same == l = lookup.found /\ Representation(l) = lookup.rep
  IN
  /\ lookup.pc = "direct"
  /\ CASE t \notin DOMAIN entry -> Retry
       [] t \in DOMAIN entry /\ ~Direct(l) -> Answer("hit", "fallback")
       [] t \in DOMAIN entry /\ Direct(l) /\ (same \/ ObjectExists(l, Representation(l))) ->
            Answer("hit", "direct")
       [] OTHER ->
            lookup' = [lookup EXCEPT !.pc = "purge", !.found = l, !.rep = Representation(l)]
  /\ LookupOnly

\* A query, a probe or signing fails.
Fail == /\ lookup.pc \in {"query", "location", "probe", "purge", "direct"}
        /\ Answer("failed", "none") /\ LookupOnly

LookupStep == \/ MatchCacheEntry \/ ReadLocation \/ Probe
              \/ PurgeDanglingCacheEntryIfUnchanged \/ AcquireDirectReader

-----------------------------------------------------------------------------
(* Meanwhile. *)

Meanwhile ==
  /\ lookup.pc \notin {"hit", "miss", "failed"}
  /\ changes < MaxChanges /\ changes' = changes + 1
  /\ UNCHANGED <<lookup, fixedVars>>

\* completeUploadRecord: a new entry, or a new location for the entry there is, at a time
\* not before that of the other entries (at first at most 1).
CompleteUpload(t) ==
  /\ uploads' = uploads + 1
  /\ entry' = [u \in DOMAIN entry \cup {t} |->
                 IF u = t THEN [upload |-> uploads', updatedAt |-> uploads'] ELSE entry[u]]
  /\ locations' = locations \cup {<<t, uploads'>>}
  /\ UNCHANGED <<merged, partsDeleted, lost, steady>> /\ Meanwhile

\* By the management API or because it was not used for long.
DeleteEntry(t) ==
  /\ t \in DOMAIN entry
  /\ RemoveEntry(t) /\ steady' = steady \ {t}
  /\ UNCHANGED <<locations, merged, partsDeleted, lost, uploads>> /\ Meanwhile

\* The row of a location without an entry, and its folder.
DeleteLocation(l) ==
  /\ l \in locations \ Referenced
  /\ locations' = locations \ {l}
  /\ merged' = merged \ {l} /\ partsDeleted' = partsDeleted \ {l}
  /\ UNCHANGED <<entry, lost, uploads, steady>> /\ Meanwhile

Merge(l) ==
  /\ l \in locations \ (merged \cup lost) /\ l[1] \notin Single
  /\ merged' = merged \cup {l}
  /\ UNCHANGED <<entry, locations, partsDeleted, lost, uploads, steady>> /\ Meanwhile

DeleteParts(l) ==
  /\ l \in merged \ partsDeleted
  /\ partsDeleted' = partsDeleted \cup {l}
  /\ UNCHANGED <<entry, locations, merged, lost, uploads, steady>> /\ Meanwhile

LoseObjects(l) ==
  /\ l \in locations \ lost
  /\ lost' = lost \cup {l}
  /\ steady' = IF l \in Referenced THEN steady \ {l[1]} ELSE steady
  /\ UNCHANGED <<entry, locations, merged, partsDeleted, uploads>> /\ Meanwhile

LookupNext ==
  \/ LookupStep \/ Fail
  \/ \E t \in Tuple : CompleteUpload(t) \/ DeleteEntry(t)
  \/ \E l \in locations :
       \/ DeleteLocation(l) \/ Merge(l) \/ DeleteParts(l) \/ LoseObjects(l)

-----------------------------------------------------------------------------
(* What a lookup is for, said of scopes and keys as they were asked for.   *)

Reads(i) == asked.scopes[i].permission >= 1

\* How an entry matches: by which scope, key, and as the whole key or a prefix.
Matches(t) ==
  {m \in (DOMAIN asked.scopes) \X (DOMAIN asked.keys) \X {"exact", "prefix"} :
     /\ t.family = asked.family /\ t.scope = asked.scopes[m[1]].scope /\ Reads(m[1])
     /\ asked.keys[1] # <<>>
     /\ IF m[3] = "exact" THEN t.key = asked.keys[m[2]] ELSE IsPrefix(asked.keys[m[2]], t.key)}

Better(m, n) ==
  LET P(x) == asked.scopes[x[1]].permission IN
  \/ P(m) > P(n)
  \/ P(m) = P(n) /\ \/ m[1] < n[1]
                    \/ m[1] = n[1] /\ \/ m[2] < n[2]
                                      \/ m[2] = n[2] /\ m[3] = "exact" /\ n[3] = "prefix"
Preferred(t, u) == \E m \in Matches(t) : \A n \in Matches(u) : Better(m, n)

\* What GetCacheEntryWithDownloadURL answers beside everything that happens during its
\* queries: of the entries that could be served all the time none is better than the one
\* it found, which was not among the dangling ones; and it finds none only if there is
\* none, or if entries it had to give up have used up its attempts.
ServesBestMatch ==
  /\ lookup.pc = "hit" =>
       /\ Matches(lookup.tuple) # {} /\ lookup.found \notin dangling
       /\ \A u \in steady : Matches(u) # {} =>
            /\ ~Preferred(u, lookup.tuple)
            /\ Preferred(lookup.tuple, u) \/ age[u] <= lookup.updatedAt
  /\ lookup.pc = "miss" /\ lookup.attempts < MaxAttempts =>
       \A u \in steady : Matches(u) = {}
=============================================================================
