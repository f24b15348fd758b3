-------------------------- MODULE FilesystemStorage --------------------------
(***************************************************************************)
(* The filesystem adapter (internal/storage/filesystem.go) on the folder   *)
(* of one upload session: requests that upload and copy objects through    *)
(* temporary files, a reader, the deletion of the folder once the session  *)
(* is dropped, and the daily removal of old temporary files.  Each step is *)
(* one call of the operating system; the process may crash between any     *)
(* two, and the host may lose its memory.                                  *)
(*                                                                         *)
(* A file is an inode: the content it belongs to, the chunks it has of it, *)
(* whether they are synced and whether it was last written before the      *)
(* cutoff of the removal.  Directories are not synced: `disk` is the       *)
(* directory as the disk has it, which follows at any time.  The random    *)
(* name of a temporary file is not used again while a process remembers    *)
(* it.                                                                     *)
(***************************************************************************)
EXTENDS Naturals, FiniteSets, TLC

CONSTANTS
  Block, Part,     \* the object names: a block, and the part it is copied to
  Temp,            \* names of temporary files, ".upload-*"
  Inode,
  Content,
  Chunks,          \* size of every content
  Writer,          \* upload and copy requests
  Missing, Torn,
  Scenarios,       \* bound: the requests, platforms and other processes together
  MaxFaults        \* bound: crashes, power losses and failed removals

Object == {Block, Part}
Path == Object \cup Temp
Platform == [fsync : BOOLEAN, links : BOOLEAN, replaces : BOOLEAN,
             requests : [Writer -> Content \cup {Missing}],
             beside : {"reader", "remover", "cleaner"}]

ASSUME FilesystemAssumption ==
  /\ Block # Part /\ Object \cap Temp = {}
  /\ Inode # {} /\ Content # {} /\ Torn # Missing
  /\ Missing \notin Path \cup Inode \cup Content
  /\ Chunks \in Nat \ {0} /\ MaxFaults \in Nat
  /\ Scenarios # {} /\ Scenarios \subseteq Platform

VARIABLES
  scenario,   \* [fsync, links, replaces: the setting, and what the filesystem supports;
              \*  requests: the content each writer uploads, or Missing if it copies;
              \*  beside: "reader", "remover" or "cleaner"]
  session,    \* "active": has an upload row; "kept": finalized; "dropped"
  folder,     \* the folder exists
  files,      \* [Path -> Inode \cup {Missing}]
  disk,       \* files, as the disk has them
  inodes,     \* [Inode -> [of, written, synced, old]]
  writers,    \* [Writer -> the request's local variables]
  reader,     \* the local variables of a download
  remover,    \* the deletion of the folder
  cleaner,    \* the removal of old temporary files
  broken      \* faults so far

fsVars == <<scenario, session, folder, files, disk, inodes,
            writers, reader, remover, cleaner, broken>>
world == <<scenario, session, disk, broken>>
Broken == broken < MaxFaults /\ broken' = broken + 1
others == <<reader, remover, cleaner>>

Resting == [pc |-> "idle", target |-> Missing, of |-> Missing, size |-> 0,
            temp |-> Missing, inode |-> Missing]
NotReading == [pc |-> "idle", inode |-> Missing, ranged |-> FALSE, got |-> 0]
NotListing == [pc |-> "idle", todo |-> {}, batch |-> {}]
Whole(content) == [of |-> content, written |-> Chunks, synced |-> TRUE, old |-> FALSE]
Empty == [of |-> Missing, written |-> 0, synced |-> FALSE, old |-> FALSE]

Present(name) == files[name] # Missing
Unlinked(name) == [files EXCEPT ![name] = Missing]
\* A file is removed, unless that fails.
RemoveFile(name) == \/ files' = Unlinked(name) /\ UNCHANGED broken
                    \/ UNCHANGED files /\ Broken

\* An inode is free again when no directory and no open file refers to it.
FreeInodes == Inode \ ({files[n] : n \in Path} \cup {disk[n] : n \in Path}
                       \cup {reader.inode} \cup {writers[w].inode : w \in Writer})
FreshTemps == {t \in Temp : ~Present(t) /\ disk[t] = Missing}
              \ (cleaner.todo \cup remover.todo \cup {writers[w].temp : w \in Writer})
\* The filesystem forgets an inode that nothing refers to.
Contents(new) == inodes' = [i \in Inode |-> IF i \in FreeInodes' THEN Empty ELSE new[i]]
Some(names) == CHOOSE n \in names : TRUE

FsInit ==
  /\ scenario \in Scenarios
  /\ session = "active" /\ folder = TRUE
  /\ files = [n \in Path |-> IF n = Block THEN Some(Inode) ELSE Missing]
  /\ inodes = [i \in Inode |-> IF i = files[Block] THEN Whole(Some(Content)) ELSE Empty]
  /\ disk = files
  /\ writers = [w \in Writer |-> Resting]
  /\ reader = NotReading /\ remover = NotListing /\ cleaner = NotListing
  /\ broken = 0

Enter(w, record) == writers' = [writers EXCEPT ![w] = record]
Go(w, pc) == Enter(w, [writers[w] EXCEPT !.pc = pc])
Finish(w) == Enter(w, [Resting EXCEPT !.pc = "done"])
At(w, pc) == writers[w].pc = pc

-----------------------------------------------------------------------------
(* UploadStream: a temporary file that is renamed when it is complete.      *)

Upload(w) ==
  /\ At(w, "idle") /\ session = "active" /\ scenario.requests[w] # Missing
  /\ folder' = TRUE
  /\ Enter(w, [Resting EXCEPT !.pc = "create", !.target = Block,
                             !.of = scenario.requests[w], !.size = Chunks])
  /\ UNCHANGED <<world, files, inodes, others>>

\* os.CreateTemp; the folder may be gone.
MakeTemp(w, next, content) ==
  IF folder
  THEN /\ FreshTemps # {} /\ FreeInodes # {}
       /\ LET temp == Some(FreshTemps)
              i == Some(FreeInodes)
          IN /\ files' = [files EXCEPT ![temp] = i]
             /\ inodes' = [inodes EXCEPT ![i] = [Empty EXCEPT !.of = content]]
             /\ Enter(w, [writers[w] EXCEPT !.pc = next, !.temp = temp, !.inode = i])
  ELSE Finish(w) /\ UNCHANGED <<files, inodes>>

CreateTemp(w) ==
  /\ At(w, "create")
  /\ MakeTemp(w, IF writers[w].size = 0 THEN "sync" ELSE "write", writers[w].of)
  /\ UNCHANGED <<world, folder, others>>

\* The client, the context and the disk may fail any call.
Fail(w) ==
  /\ writers[w].pc \in {"write", "sync", "rename"}
  /\ Go(w, "undo")
  /\ UNCHANGED <<world, folder, files, inodes, others>>

(* Fault: an upload is renamed before it is synced. *)
WriteUnsynced(w) ==
  /\ At(w, "write")
  /\ LET i == writers[w].inode
         written == inodes[i].written + 1
     IN /\ inodes' = [inodes EXCEPT ![i] = [@ EXCEPT !.written = written, !.old = FALSE]]
        /\ Go(w, IF written = writers[w].size THEN "rename" ELSE "write")
  /\ UNCHANGED <<world, folder, files, others>>

Write(w) ==
  /\ At(w, "write")
  /\ LET i == writers[w].inode
         written == inodes[i].written + 1
     IN /\ inodes' = [inodes EXCEPT ![i] = [@ EXCEPT !.written = written, !.old = FALSE]]
        /\ Go(w, IF written = writers[w].size THEN "sync" ELSE "write")
  /\ UNCHANGED <<world, folder, files, others>>

SyncUpload(w) ==
  /\ At(w, "sync")
  /\ inodes' = [inodes EXCEPT ![writers[w].inode].synced = scenario.fsync]
  /\ Go(w, "rename")
  /\ UNCHANGED <<world, folder, files, others>>

\* Renaming one link of a file to another succeeds and does nothing.
Rename(w) ==
  LET new == files[writers[w].temp]
      old == files[writers[w].target]
  IN IF new = Missing
     THEN Go(w, "undo") /\ UNCHANGED files
     ELSE /\ files' = IF new = old THEN files
                      ELSE [files EXCEPT ![writers[w].temp] = Missing, ![writers[w].target] = new]
          /\ Finish(w)

\* commitFilesystemObject, where rename replaces a file or refuses to.
Commit(w) ==
  /\ At(w, "rename")
  /\ IF Present(writers[w].temp) /\ Present(writers[w].target) /\ ~scenario.replaces
     THEN Go(w, "replace") /\ UNCHANGED files
     ELSE Rename(w)
  /\ UNCHANGED <<world, folder, others>> /\ Contents(inodes)

Replace(w) ==
  /\ At(w, "replace")
  /\ files' = Unlinked(writers[w].target)
  /\ Go(w, "again")
  /\ UNCHANGED <<world, folder, others>> /\ Contents(inodes)

CommitAgain(w) ==
  /\ At(w, "again")
  /\ IF Present(writers[w].target) THEN Go(w, "undo") /\ UNCHANGED files ELSE Rename(w)
  /\ UNCHANGED <<world, folder, others>> /\ Contents(inodes)

\* The deferred removal of a temporary file that was not published.
RemoveTemp(w) ==
  /\ At(w, "undo")
  /\ RemoveFile(writers[w].temp)
  /\ Finish(w)
  /\ UNCHANGED <<scenario, session, disk, folder, others>> /\ Contents(inodes)

-----------------------------------------------------------------------------
(* CopyObject: a second link to the source, or a stream of its content.     *)

Copy(w) ==
  /\ At(w, "idle") /\ session = "active" /\ scenario.requests[w] = Missing
  /\ IF Present(Block)
     THEN Enter(w, [Resting EXCEPT !.pc = "reserve", !.target = Part]) /\ folder' = TRUE
     ELSE Finish(w) /\ UNCHANGED folder
  /\ UNCHANGED <<world, files, inodes, others>>

\* A temporary file is made for its name, and removed.
Reserve(w) ==
  /\ At(w, "reserve")
  /\ MakeTemp(w, "unreserve", Missing)
  /\ UNCHANGED <<world, folder, others>>

Unreserve(w) ==
  /\ At(w, "unreserve")
  /\ files' = Unlinked(writers[w].temp)
  /\ IF Present(writers[w].temp)
     THEN Enter(w, [writers[w] EXCEPT !.pc = "link", !.inode = Missing])
     ELSE Finish(w)
  /\ UNCHANGED <<world, folder, others>> /\ Contents(inodes)

Link(w) ==
  /\ At(w, "link")
  /\ IF scenario.links /\ Present(Block)
     THEN LET i == files[Block]
          IN /\ files' = [files EXCEPT ![writers[w].temp] = i]
             /\ Enter(w, [writers[w] EXCEPT !.pc = "rename", !.inode = i, !.of = inodes[i].of,
                                         !.size = inodes[i].written])
     ELSE /\ Enter(w, [Resting EXCEPT !.pc = "open", !.target = Part])
          /\ UNCHANGED files
  /\ UNCHANGED <<world, folder, inodes, others>>

\* The stream keeps the file it opened; the upload makes the folder again.
Stream(w) ==
  /\ At(w, "open")
  /\ IF Present(Block)
     THEN /\ Enter(w, [writers[w] EXCEPT !.pc = "create", !.of = inodes[files[Block]].of,
                                         !.size = inodes[files[Block]].written])
          /\ folder' = TRUE
     ELSE Finish(w) /\ UNCHANGED folder
  /\ UNCHANGED <<world, files, inodes, others>>

Request(w) == \/ CreateTemp(w) \/ Write(w) \/ SyncUpload(w) \/ Commit(w) \/ Replace(w)
              \/ CommitAgain(w) \/ RemoveTemp(w) \/ Reserve(w) \/ Unreserve(w)
              \/ Link(w) \/ Stream(w)

-----------------------------------------------------------------------------
(* A download: a ranged stream ends with an error unless it was complete.   *)

\* CreateDownloadStream and CreateRangedDownloadStream, for the whole object.
Open(name, ranged) ==
  /\ scenario.beside = "reader" /\ reader = NotReading /\ Present(name)
  /\ reader' = [pc |-> "read", inode |-> files[name], ranged |-> ranged, got |-> 0]
  /\ UNCHANGED <<world, folder, files, inodes, writers, remover, cleaner>>

Outcome(got, ended) ==
  IF reader.ranged /\ got < Chunks
    THEN IF ended THEN "unexpected" ELSE "read"
    ELSE IF ended \/ reader.ranged THEN "eof" ELSE "read"

Read ==
  /\ reader.pc = "read"
  /\ LET more == reader.got < inodes[reader.inode].written
         got == IF more THEN reader.got + 1 ELSE reader.got
     IN reader' = [reader EXCEPT !.got = got, !.pc = Outcome(got, ~more)]
  /\ UNCHANGED <<world, folder, files, inodes, writers, remover, cleaner>>

-----------------------------------------------------------------------------
(* DeleteFolder: os.RemoveAll lists the folder, removes what it listed and   *)
(* then the folder, unless a request has added to it; the task is retried.  *)

StartRemoval ==
  /\ scenario.beside = "remover" /\ remover = NotListing /\ session = "dropped" /\ folder
  /\ remover' = [NotListing EXCEPT !.pc = "unlink", !.todo = {n \in Path : Present(n)}]
  /\ UNCHANGED <<world, folder, files, inodes, writers, reader, cleaner>>

Unlink(name) ==
  /\ remover.pc = "unlink" /\ name \in remover.todo
  /\ files' = Unlinked(name)
  /\ remover' = [remover EXCEPT !.todo = @ \ {name}]
  /\ UNCHANGED <<world, folder, writers, reader, cleaner>> /\ Contents(inodes)

RemoveFolder ==
  /\ remover.pc = "unlink" /\ remover.todo = {}
  /\ folder' = \E n \in Path : Present(n)
  /\ remover' = NotListing
  /\ UNCHANGED <<world, files, inodes, writers, reader, cleaner>>

Removal == StartRemoval \/ RemoveFolder \/ \E n \in Path : Unlink(n)

-----------------------------------------------------------------------------
(* runTemporaryUploadCleanup: a walk that collects old temporary files and   *)
(* ends where an entry it listed is gone, one query for the upload rows of   *)
(* their folders, and the removal of those that are still old.              *)

Old(name) == Present(name) /\ inodes[files[name]].old

StartWalk ==
  /\ scenario.beside = "cleaner" /\ cleaner = NotListing /\ \E t \in Temp : Old(t)
  /\ cleaner' = [NotListing EXCEPT !.pc = "walk", !.todo = {n \in Path : Present(n)}]
  /\ UNCHANGED <<world, folder, files, inodes, writers, reader, remover>>

Visit(name) ==
  /\ cleaner.pc = "walk" /\ name \in cleaner.todo
  /\ cleaner' = IF Present(name)
                THEN [cleaner EXCEPT !.todo = @ \ {name},
                                     !.batch = IF name \in Temp /\ Old(name) THEN @ \cup {name}
                                               ELSE @]
                ELSE [cleaner EXCEPT !.todo = {}]
  /\ UNCHANGED <<world, folder, files, inodes, writers, reader, remover>>

(* Fault: the upload rows are not asked for. *)
DeletableAnyFolder == cleaner.batch
\* A folder with an upload row keeps its temporary files, old links too.
Deletable == IF session = "active" THEN {} ELSE cleaner.batch

QueryUploads ==
  /\ cleaner.pc = "walk" /\ cleaner.todo = {}
  /\ cleaner' = [NotListing EXCEPT !.pc = "clean", !.todo = Deletable]
  /\ UNCHANGED <<world, folder, files, inodes, writers, reader, remover>>

\* Lstat and Remove; a failed removal is left to the next day.
Clean(name) ==
  /\ cleaner.pc = "clean" /\ name \in cleaner.todo
  /\ IF Old(name) THEN RemoveFile(name) ELSE UNCHANGED <<files, broken>>
  /\ cleaner' = [cleaner EXCEPT !.todo = @ \ {name}]
  /\ UNCHANGED <<scenario, session, disk, folder, writers, reader, remover>> /\ Contents(inodes)

EndCleanup ==
  /\ cleaner.pc = "clean" /\ cleaner.todo = {}
  /\ cleaner' = NotListing
  /\ UNCHANGED <<world, folder, files, inodes, writers, reader, remover>>

Cleanup == StartWalk \/ QueryUploads \/ EndCleanup \/ \E n \in Path : Visit(n) \/ Clean(n)

-----------------------------------------------------------------------------
(* The world: sessions end, a day passes, the disk follows, and faults.     *)

processes == <<writers, reader, remover, cleaner>>

\* Beside a removal the session is dropped, beside a cleanup its cache entry is kept.
EndSession ==
  /\ session = "active"
  /\ \/ scenario.beside = "remover" /\ session' = "dropped"
     \/ scenario.beside = "cleaner" /\ session' = "kept"
  /\ UNCHANGED <<scenario, folder, files, disk, inodes, processes, broken>>

Age ==
  /\ scenario.beside = "cleaner" /\ \E n \in Path : Present(n) /\ ~Old(n)
  /\ inodes' = [i \in Inode |-> IF i \in FreeInodes THEN inodes[i]
                                ELSE [inodes[i] EXCEPT !.old = TRUE]]
  /\ UNCHANGED <<world, folder, files, processes>>

Persist ==
  /\ scenario.beside = "reader" /\ disk # files
  /\ disk' = files
  /\ UNCHANGED <<scenario, session, folder, files, processes, broken>> /\ Contents(inodes)

Restart ==
  /\ Broken
  /\ writers' = [w \in Writer |-> IF At(w, "idle") THEN Resting
                              ELSE [Resting EXCEPT !.pc = "done"]]
  /\ reader' = NotReading /\ remover' = NotListing /\ cleaner' = NotListing
  /\ UNCHANGED <<scenario, session>>

Crash == Restart /\ UNCHANGED <<folder, files, disk>> /\ Contents(inodes)

\* The directory returns to what the disk has, and unsynced chunks may be lost.
LosePower ==
  /\ scenario.beside = "reader" /\ Restart
  /\ files' = disk /\ UNCHANGED disk
  /\ folder' = (folder \/ \E n \in Path : disk[n] # Missing)
  /\ \E lost \in SUBSET {i \in Inode : ~inodes[i].synced /\ inodes[i].written > 0} :
       Contents([i \in Inode |-> IF i \in lost THEN [inodes[i] EXCEPT !.written = @ - 1]
                                 ELSE inodes[i]])

FsNext ==
  \/ \E w \in Writer : Request(w) \/ Fail(w) \/ Copy(w) \/ Upload(w)
  \/ \E n \in Object, ranged \in BOOLEAN : Open(n, ranged)
  \/ Read \/ Removal \/ Cleanup \/ EndSession \/ Age \/ Persist \/ Crash \/ LosePower

-----------------------------------------------------------------------------
(* What the adapter promises.                                               *)

ContentOf(i) == IF i = Missing THEN Missing
                ELSE IF inodes[i].written = Chunks THEN inodes[i].of ELSE Torn
Announced(s) == <<s.target, IF s.size = Chunks THEN s.of ELSE Torn>>
Publishing == {"create", "write", "sync", "rename", "replace", "again"}

\* The map that the files are, the one of the disk, and the writes under way.
Objects == [n \in Object |-> ContentOf(files[n])]
Durable == [n \in Object |-> ContentOf(disk[n])]
Pending == {Announced(writers[w]) : w \in {v \in Writer : writers[v].pc \in Publishing}}

Store == INSTANCE ObjectStore WITH
  objects <- Objects, durable <- Durable, pending <- Pending,
  dropped <- session = "dropped", synced <- scenario.fsync, atomic <- scenario.replaces

\* Requests, copies, crashes and power losses on one folder are steps of a map
\* that changes at once: no reader, deletion or removal of temporary files ever
\* sees or causes a part of a write (UploadStream, CopyObject, commitFilesystemObject).
ImplementsObjectStore == Store!Spec

\* A ranged download never ends well before its last byte, and a download reads
\* one content, as it was when it was opened (CreateRangedDownloadStream,
\* exactLengthReadCloser): a short stream is that of a torn object, which takes a
\* host that lost its memory and STORAGE_FILESYSTEM_FSYNC=false.
DownloadsWhole ==
  reader # NotReading =>
    /\ reader.pc = "eof" /\ (reader.ranged \/ scenario.fsync) => reader.got = Chunks
    /\ inodes[reader.inode].written < Chunks => ~scenario.fsync

\* The removal of old temporary files takes none from an upload session, whose
\* copies make temporary links that are as old as the block they link to
\* (activeUploadFolderBatch).
SparesSessions == [][(\E t \in Temp : Present(t) /\ ~Present(t)' /\ cleaner' # cleaner)
                     => session # "active"]_fsVars

\* What is left of temporary files and of the folder of a dropped session.
FilesSettled == /\ scenario.beside = "cleaner" => \A t \in Temp : ~Present(t)
                /\ scenario.beside = "remover" => ~folder

-----------------------------------------------------------------------------
(* Why it holds.                                                            *)

Steps == {"idle", "create", "write", "sync", "rename", "replace", "again", "undo",
          "reserve", "unreserve", "link", "open", "done"}
Making == {"write", "sync", "unreserve"}         \* has a new file of its own open
Complete == {"rename", "replace", "again"}

Directory == [Path -> Inode \cup {Missing}]
FileState == [of : Content \cup {Missing}, written : 0..Chunks, synced : BOOLEAN, old : BOOLEAN]
WriterState == [pc : Steps, target : Object \cup {Missing}, of : Content \cup {Missing},
                size : 0..Chunks, temp : Temp \cup {Missing}, inode : Inode \cup {Missing}]
ReaderState == [pc : {"idle", "read", "eof", "unexpected"}, inode : Inode \cup {Missing},
                ranged : BOOLEAN, got : 0..Chunks]
ListingState(steps) == [pc : {"idle"} \cup steps, todo : SUBSET Path, batch : SUBSET Temp]

FsTypeOK ==
  /\ scenario \in Scenarios /\ session \in {"active", "kept", "dropped"} /\ folder \in BOOLEAN
  /\ files \in Directory /\ disk \in Directory /\ inodes \in [Inode -> FileState]
  /\ writers \in [Writer -> WriterState] /\ reader \in ReaderState
  /\ remover \in ListingState({"unlink"}) /\ cleaner \in ListingState({"walk", "clean"})
  /\ broken \in Nat

\* What a request remembers at each of its steps.
RequestOK(s) ==
  /\ s.temp # Missing <=> s.pc \in Making \cup Complete \cup {"link", "undo"}
  /\ s.inode # Missing <=> s.pc \in Making \cup Complete \cup {"undo"}
  /\ s.pc \in {"create", "write", "sync"} \cup Complete
       => s.target # Missing /\ s.of # Missing /\ (scenario.fsync => s.size = Chunks)
  /\ s.pc \in {"reserve", "unreserve", "link", "open"} => s.target = Part
  /\ s.pc \in {"replace", "again"} => ~scenario.replaces

\* The file under a temporary name is that of the request that made it, and no two
\* requests have the same name.
TempOwned(w) ==
  writers[w].temp # Missing =>
    /\ files[writers[w].temp] \in {Missing, writers[w].inode}
    /\ \A v \in Writer \ {w} : writers[v].temp # writers[w].temp

\* A file that is written has no other name, and nobody else has it open.
FileOwned(w) ==
  writers[w].pc \in Making =>
    /\ \A n \in Path \ {writers[w].temp} : files[n] # writers[w].inode
    /\ \A n \in Object : disk[n] # writers[w].inode
    /\ \A v \in Writer \ {w} : writers[v].inode # writers[w].inode
    /\ reader.inode # writers[w].inode

\* What is published is what the request announced.
FileComplete(s) ==
  /\ s.pc = "write" => inodes[s.inode].of = s.of /\ inodes[s.inode].written < s.size
  /\ s.pc \in {"sync"} \cup Complete =>
       inodes[s.inode].of = s.of /\ inodes[s.inode].written = s.size
  /\ s.pc \in Complete /\ scenario.fsync => inodes[s.inode].synced

RequestsOK ==
  \A w \in Writer : /\ RequestOK(writers[w]) /\ TempOwned(w)
                    /\ FileOwned(w) /\ FileComplete(writers[w])

ObjectWhole(i) ==
  i # Missing => /\ inodes[i].of # Missing
                 /\ scenario.fsync => inodes[i].written = Chunks /\ inodes[i].synced
ObjectsWhole == \A n \in Object : ObjectWhole(files[n]) /\ ObjectWhole(disk[n])

ListingsOK ==
  /\ remover.pc # "idle" => session = "dropped"
  /\ cleaner.pc = "idle" => cleaner = NotListing
  /\ cleaner.pc # "idle" => scenario.beside = "cleaner"
  /\ cleaner.pc = "clean" =>
       /\ cleaner.todo \subseteq Temp
       /\ session = "active" => cleaner.todo = {}

ReaderOK ==
  IF reader.inode = Missing THEN reader = NotReading
  ELSE /\ reader.pc # "idle" /\ reader.got <= inodes[reader.inode].written
       /\ scenario.fsync => inodes[reader.inode].written = Chunks
       /\ reader.pc = "eof" /\ (reader.ranged \/ scenario.fsync) => reader.got = Chunks

FilesInv == FsTypeOK /\ RequestsOK /\ ObjectsWhole /\ ListingsOK /\ ReaderOK
=============================================================================
