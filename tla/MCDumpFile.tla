----------------------------- MODULE MCDumpFile -----------------------------
(***************************************************************************)
(* Instances of DumpFile for TLC. The shapes give every stream data, some  *)
(* streams none at all, and the module list names ahead of its records;    *)
(* the thread list, whose size varies most in practice, takes three.       *)
(***************************************************************************)
EXTENDS DumpFile

S(pre, len, post) == [pre |-> pre, len |-> len, post |-> post]
MCShapes ==
    [k \in 1..Len(Streams) |->
        CASE k = 1 -> {S(0, 0, 0), S(0, 1, 0), S(0, 2, 2)}
          [] k = 2 -> {S(2, 1, 0)}
          [] k = 3 -> {S(0, 0, 0), S(0, 0, 2)}
          [] Streams[k].name = "LinuxDsoDebug" -> {S(1, 2, 0)}
          [] Streams[k].name = "LinuxCmdLine" -> {S(0, 0, 0)}
          [] OTHER -> {S(0, 1, 0)}]
MCPrior == <<Foreign, Foreign>>
=============================================================================
