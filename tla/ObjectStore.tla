----------------------------- MODULE ObjectStore -----------------------------
(***************************************************************************)
(* What the cache relies on of the storage of an upload session: a map     *)
(* from names to contents that a write changes at once or not at all,      *)
(* between its start and its end, and that loses a name only after the     *)
(* session is dropped.  A host that loses its memory returns to the map    *)
(* its disk holds; only contents that were not synced can then be torn.    *)
(***************************************************************************)
EXTENDS Naturals

CONSTANTS Object, Content, Missing, Torn

VARIABLES objects,   \* the content of every name, or Missing
          durable,   \* the same as the disk has it
          pending,   \* writes under way: names and the contents they will have
          dropped,   \* the session is over and nothing keeps its folder
          synced,    \* contents are synced before they are published
          atomic     \* the platform replaces a file at once

Init == /\ objects \in [Object -> Content \cup {Missing}]
        /\ durable = objects
        /\ pending = {}
        /\ dropped = FALSE
        /\ synced \in BOOLEAN /\ atomic \in BOOLEAN

Begin(n, c) == /\ pending' = pending \cup {<<n, c>>}
               /\ UNCHANGED <<objects, durable, dropped, synced, atomic>>

\* A copy has the content its source has when it begins.
BeginCopy(source, n) == /\ objects[source] # Missing
                        /\ Begin(n, objects[source])

\* A write is published, or given up; an equal one may still be under way.
Settled(n, c) == pending' \in {pending, pending \ {<<n, c>>}}
Publish(n, c) == /\ <<n, c>> \in pending
                 /\ objects' = [objects EXCEPT ![n] = c]
                 /\ Settled(n, c)
                 /\ UNCHANGED <<durable, dropped, synced, atomic>>
GiveUp(n, c) == Settled(n, c) /\ UNCHANGED <<objects, durable, dropped, synced, atomic>>

Drop == dropped' = TRUE /\ UNCHANGED <<objects, durable, pending, synced, atomic>>

\* Where files are not replaced, a write removes the old content first.
Remove(n) == /\ dropped \/ (~atomic /\ \E w \in pending : w[1] = n)
             /\ objects' = [objects EXCEPT ![n] = Missing]
             /\ UNCHANGED <<durable, pending, dropped, synced, atomic>>

Persist == durable' = objects /\ UNCHANGED <<objects, pending, dropped, synced, atomic>>
Crash == pending' = {} /\ UNCHANGED <<objects, durable, dropped, synced, atomic>>

LosePower == /\ pending' = {}
             /\ \E lost \in SUBSET {n \in Object : durable[n] # Missing} :
                  /\ synced => lost = {}
                  /\ objects' = [n \in Object |-> IF n \in lost THEN Torn ELSE durable[n]]
             /\ durable' = objects'
             /\ UNCHANGED <<dropped, synced, atomic>>

Next == \/ \E n \in Object : Remove(n) \/ \E source \in Object : BeginCopy(source, n)
        \/ \E n \in Object, c \in Content : Begin(n, c)
        \/ \E w \in pending : Publish(w[1], w[2]) \/ GiveUp(w[1], w[2])
        \/ Drop \/ Persist \/ Crash \/ LosePower

Spec == Init /\ [][Next]_<<objects, durable, pending, dropped, synced, atomic>>
=============================================================================
