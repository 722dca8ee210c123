--------------------------- MODULE MCWindowsDump ---------------------------
(* Calls for TLC: of the own process, with and without a thread, and of a crash
   context of the own process or of another one. *)
EXTENDS WindowsDump

Call(local, thread_id, external, null_pointers) ==
    [local |-> local, thread_id |-> thread_id, external |-> external, null_pointers |-> null_pointers]
MCCalls ==
    {Call(TRUE, t, FALSE, FALSE) : t \in {{}, {Self}, {2}}}
        \cup {Call(FALSE, {t}, e, n) : t \in {Self, 2}, e, n \in BOOLEAN}
=============================================================================
