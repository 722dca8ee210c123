------------------------------ MODULE Options ------------------------------
(***************************************************************************)
(* Rust's Option as a set with at most one element.                        *)
(***************************************************************************)
EXTENDS Naturals, Sequences

The(option) == CHOOSE x \in option : TRUE
OrElse(option, other) == IF option = {} THEN other ELSE option

\* Iterator::find, with the indices of the elements that satisfy its condition
First(hits, s) == IF hits = {} THEN {} ELSE {s[CHOOSE i \in hits : \A j \in hits : i <= j]}
=============================================================================
