------------------------------ MODULE Minidump ------------------------------
(***************************************************************************)
(* What writing a dump promises to whoever reads the destination, at the   *)
(* end or after the writer has died: a growing list of streams. A stream   *)
(* appears complete, in one step, and never changes or goes away again;    *)
(* success means that all of them are there.                               *)
(***************************************************************************)
EXTENDS Naturals, Sequences

CONSTANT Items     \* Items[j]: what the j-th stream of a dump may be

VARIABLES
    published,     \* the streams a reader of the destination finds
    outcome        \* what the caller has been told

Init == published = << >> /\ outcome = "writing"

Publish ==
    /\ outcome = "writing"
    /\ Len(published) < Len(Items)
    /\ \E item \in Items[Len(published) + 1] : published' = Append(published, item)
    /\ outcome' = IF Len(published) + 1 = Len(Items) THEN "ok" ELSE "writing"

Fail ==
    /\ outcome = "writing"
    /\ outcome' = "failed"
    /\ UNCHANGED published

Next == Publish \/ Fail
Spec == Init /\ [][Next]_<<published, outcome>>
=============================================================================
