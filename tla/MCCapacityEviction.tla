-------------------------- MODULE MCCapacityEviction --------------------------
(* Three locations; the last may be uploaded during a pass that did not    *)
(* count it, and is larger than what the pass still wants to evict.        *)
EXTENDS CapacityEviction

MCSize == <<1, 2, 3>>
=============================================================================
