------------------------------- MODULE Requests -------------------------------
(***************************************************************************)
(* The two requests behind the restoration of a cache: the lookup, which   *)
(* answers with the URL of an entry (CacheLookup), and the download of     *)
(* that entry, later and as often as the client likes (Download).  All     *)
(* that a download has of the lookup is the id of an entry, which may have *)
(* got another location or be gone by then, so either is looked at alone.  *)
(***************************************************************************)
EXTENDS Download, CacheLookup

VARIABLE serving   \* the request

requestVars == <<serving, vars, lookupVars>>

OfDownload(step) == serving = "download" /\ step /\ UNCHANGED <<serving, lookupVars>>
OfLookup(step) == serving = "lookup" /\ step /\ UNCHANGED <<serving, vars>>

\* Whatever the request that is not made would have been.
Some(S) == CHOOSE x \in S : TRUE
NoDownload == Init /\ ranges = Some(Ranges) /\ archive.sizes = Some(Sizes)
              /\ ~archive.merged /\ archive.recorded
NothingAsked == LookupInit /\ engine = Some(Engine) /\ asked = Some(Asked)
                /\ age = Some(Entries) /\ lost = {}

RequestInit == \/ serving = "download" /\ Init /\ NothingAsked
               \/ serving = "lookup" /\ LookupInit /\ NoDownload

LookupOver == lookup.pc \in {"hit", "miss", "failed"}
DownloadOver == handler.at = "done" /\ lease \in {"none", "released"}

RequestNext == \/ OfDownload(Next) \/ OfLookup(LookupNext)
               \/ serving = "lookup" /\ LookupOver /\ UNCHANGED requestVars

\* A request runs on, as calls of storage and of the database return.
RequestSpec == /\ RequestInit /\ [][RequestNext]_requestVars
               /\ WF_requestVars(OfDownload(Handler) \/ OfLookup(LookupStep))
               /\ WF_requestVars(OfDownload(Closing))

-----------------------------------------------------------------------------
\* Every request ends: a download gives its lease back, though Close waits for a renewal
\* that may be closing the stream itself (leased_reader.go); a lookup does not begin again
\* for ever, whatever it finds replaced or missing each time (maxDanglingPurgeAttempts).
EveryRequestEnds == <>(IF serving = "download" THEN DownloadOver ELSE LookupOver)

\* What either answers in the end is said in its module.
RequestInv == DownloadInv /\ LookupTypeOK
=============================================================================
