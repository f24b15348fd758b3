------------------------------ MODULE MCStorage ------------------------------
(* A small instance of Storage.                                              *)
EXTENDS Storage

Posix == [fsync |-> TRUE, links |-> TRUE, replaces |-> TRUE]
NoFsync == [Posix EXCEPT !.fsync = FALSE]
NoLinks == [Posix EXCEPT !.links = FALSE]
Refuses == [Posix EXCEPT !.replaces = FALSE]

Requests(first, second) == [w \in Writer |-> IF w = "w1" THEN first ELSE second]
Uploads == Requests("y", "x")
Mixed == Requests("y", Missing)
Copies == Requests(Missing, Missing)

With(platform, requests, beside) == [requests |-> requests, beside |-> beside] @@ platform
MCScenarios ==
  {With(p, Mixed, "reader") : p \in {Posix, NoFsync, NoLinks}}
  \cup {With(p, r, "remover") : p \in {Posix, NoLinks}, r \in {Mixed, Copies}}
  \cup {With(Posix, r, "cleaner") : r \in {Mixed, Copies}} \cup {With(NoLinks, Mixed, "cleaner")}
  \cup {With(Refuses, Uploads, b) : b \in {"reader", "remover"}}
=============================================================================
