---------------------------- MODULE MCServerProcess ----------------------------
(* Two requests that merge, with one slot, or three that only stream, with *)
(* a queue of two.                                                         *)
EXTENDS ServerProcess, TLC

CONSTANTS q1, q2, q3

MCRequest == {q1, q2, q3}
MCLoad == {q1 :> "merge" @@ q2 :> "merge" @@ q3 :> "absent",
           [q \in MCRequest |-> "stream"]}
MCStuckFolders == {{}, {1}}
=============================================================================
