------------------------------- MODULE Storage -------------------------------
(***************************************************************************)
(* The storage of a server is one of two adapters: the filesystem adapter, *)
(* which makes what the cache relies on (ObjectStore) of the calls of an   *)
(* operating system, or the S3 adapter, which is given it by a server and  *)
(* has the answers of that server to tell apart.                           *)
(***************************************************************************)
EXTENDS FilesystemStorage, S3Storage

VARIABLE driver   \* STORAGE_DRIVER

storageVars == <<driver, fsVars, s3Vars>>

\* The adapter that was not chosen does nothing.
NoFilesystem == FsInit /\ scenario = Some(Scenarios)
NoS3 == /\ call = [NewUpload EXCEPT !.pc = "ok"] /\ server = SaneServer
        /\ bucket = {Outside} /\ lasting = bucket /\ ever = bucket
        /\ open = FALSE /\ composed = <<>> /\ mishap = FALSE /\ changes = 0

StorageInit == \/ driver = "filesystem" /\ FsInit /\ NoS3
               \/ driver = "s3" /\ S3Init /\ NoFilesystem

Filesystem(step) == driver = "filesystem" /\ step /\ UNCHANGED <<driver, s3Vars>>
S3(step) == driver = "s3" /\ step /\ UNCHANGED <<driver, fsVars>>

StorageNext == Filesystem(FsNext) \/ S3(S3Next)

\* Calls are answered, sessions end, days pass and a deletion that failed runs again:
\* all this ends; the daily removal of temporary files does not.
Work == (\E w \in Writer : Request(w)) \/ Removal \/ EndSession \/ Age
StorageSpec == /\ StorageInit /\ [][StorageNext]_storageVars
               /\ WF_storageVars(Filesystem(Work)) /\ WF_storageVars(Filesystem(Cleanup))
               /\ WF_storageVars(S3(S3Step))

\* What the adapters promise of their answers: a download is whole (filesystem.go,
\* storage.go exactLengthReadCloser), a listing true, a deletion complete, a composed
\* object its sources, and no multipart upload is left where it could be aborted.
StorageInv == DownloadsWhole /\ S3Inv /\ FilesInv /\ ObjectsInv

\* Whatever the filesystem is left with, and whatever a broken server answers, calls
\* end, and temporary files and dropped folders go away: leftovers of crashes, failures
\* and repeated copies are removed, and no listing is followed in circles.
StorageSettles == <>[](IF driver = "filesystem" THEN FilesSettled ELSE ~Running)
=============================================================================
