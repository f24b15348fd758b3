------------------------------ MODULE MCRequests ------------------------------
(* Small instances of downloads and of lookups.                            *)
EXTENDS Requests, TLC

(* Empty parts at either end and in the middle. *)
MCSizes == {<<>>, <<2>>, <<0>>, <<1, 2>>, <<2, 0, 1>>, <<0, 2, 0>>, <<1, 1, 1>>}

(* Ranges in a part, over a boundary, at it, beyond the end; a list whose  *)
(* first range, or none, can be satisfied.                                 *)
MCRanges ==
  {<<>>, <<<<"closed", 0, 0>>>>, <<<<"closed", 1, 5>>>>, <<<<"closed", 2, 2>>>>,
   <<<<"open", 0, 0>>>>, <<<<"open", 2, 0>>>>, <<<<"suffix", 1, 0>>>>,
   <<<<"suffix", 9, 0>>>>, <<<<"suffix", 0, 0>>, <<"closed", 0, 1>>>>,
   <<<<"closed", 7, 8>>, <<"open", 3, 0>>>>}

(* Keys that prefix one another, also up to the case of a letter, in two   *)
(* scopes and in another repository.                                       *)
T(key, scope, family) == [key |-> key, scope |-> scope, family |-> family]
Long == T(<<"a", "b">>, "main", "ours")
Short == T(<<"a">>, "main", "ours")
Upper == T(<<"A", "b">>, "main", "ours")
Branch == T(<<"a", "c">>, "branch", "ours")
Theirs == T(<<"a">>, "branch", "theirs")
Other == T(<<"a", "c">>, "main", "ours")
MCTuple == {Long, Other, Short, Upper, Branch, Theirs}
MCSingle == {Short}
MCFold == [binary |-> [c \in {"a", "A", "b", "c"} |-> c],
           folding |-> [c \in {"a", "A", "b", "c"} |-> IF c = "A" THEN "a" ELSE c]]
S(scope, permission) == [scope |-> scope, permission |-> permission]
Ask(keys, scopes, direct) ==
  [keys |-> keys, scopes |-> scopes, direct |-> direct, family |-> "ours"]
MCAsked ==
  {Ask(<<<<"a", "b">>, <<"a">>>>, <<S("main", 1), S("branch", 3)>>, FALSE),
   Ask(<<<<"a">>>>, <<S("main", 1), S("main", 3)>>, TRUE),
   Ask(<<<<"a", "b">>, <<"A">>>>, <<S("branch", 0), S("main", 1)>>, FALSE),
   Ask(<<<<>>, <<"a">>>>, <<S("main", 3)>>, FALSE)}
MCEntries ==
  {Long :> 0 @@ Short :> 0 @@ Upper :> 1, Long :> 0 @@ Other :> 1 @@ Theirs :> 1,
   Short :> 1 @@ Branch :> 0}
=============================================================================
