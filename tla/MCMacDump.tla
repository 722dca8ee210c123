----------------------------- MODULE MCMacDump -----------------------------
(* Instances of MacDump for TLC. Pages of 2 cells. *)
EXTENDS MacDump

Region(start, end, stack, read) == [start |-> start, end |-> end, stack |-> stack, read |-> read]
\* stacks in two abutting regions, below one that is not readable; a single region;
\* code; strings at the end of a region, with another one behind it
MCRegions ==
    {Region(4, 8, TRUE, TRUE), Region(8, 10, TRUE, TRUE), Region(10, 12, TRUE, FALSE),
     Region(14, 16, FALSE, TRUE), Region(20, 28, FALSE, TRUE), Region(28, 30, FALSE, FALSE),
     Region(40, 44, FALSE, TRUE), Region(44, 46, FALSE, TRUE)}
\* stack pointers: in the first and in the second region of a stack, in one that
\* cannot be read, in a hole, none
Places == {5, 9, 11, 12, 15, 0}

Text(at) == [kind |-> "text", fits |-> TRUE, vm_addr |-> at, vm_size |-> 3]
Dylib(v) == [kind |-> "dylib", fits |-> TRUE, version |-> v]
Uuid(u) == [kind |-> "uuid", fits |-> TRUE, uuid |-> u]
Linker == [kind |-> "dylinker", fits |-> TRUE, name |-> <<"usr", "lib", "dyld">>]
Other == [kind |-> "other", fits |-> TRUE]
Header(commands, count) == [magic |-> TRUE, commands |-> commands, count |-> count]
MainImage == Header(<<Text(10), Other, Linker, Uuid("main")>>, 4)
Library == Header(<<Text(0), Dylib(<<1, 2, 3>>), Uuid("lib"), Dylib(<<9, 9, 9>>)>>, 4)
Library2 == Header(<<Uuid("lib2"), Uuid("no"), Dylib(<<4, 5, 6>>), Text(1), Text(2)>>, 5)
NoUuid == Header(<<Text(0), Dylib(<<1, 2, 3>>), Uuid("cut")>>, 2)
Unfit == Header(<<Text(0), [Uuid("unfit") EXCEPT !.fits = FALSE], Uuid("late")>>, 3)
Plugin == Header(<<Text(0), Uuid("bundle")>>, 2)
Dyld == Header(<<Text(0), Linker, Uuid("dyld"), Dylib(<<1, 0, 0>>)>>, 4)
Image(a, path) == [load_address |-> a, file_path |-> path]
At0 == (100 :> MainImage) @@ (110 :> Library) @@ (90 :> Library2) @@ (120 :> NoUuid) @@ (130 :> Unfit)
       @@ (140 :> Plugin) @@ (150 :> [Library EXCEPT !.magic = FALSE]) @@ (200 :> Dyld)
Strings == (40 :> [len |-> 2, path |-> {<<"bin", "main">>}]) @@ (43 :> [len |-> 2, path |-> {<<"lib">>}])
           @@ (41 :> [len |-> 9, path |-> {<<"long">>}]) @@ (42 :> [len |-> 1, path |-> {}])
           @@ (45 :> [len |-> 1, path |-> {<<"end">>}]) @@ (46 :> [len |-> 1, path |-> {<<"gone">>}])
Lists == {<< >>, <<Image(110, 43)>>, <<Image(110, 43), Image(100, 40), Image(90, 41)>>,
          <<Image(100, 40), Image(110, 43), Image(110, 42), Image(90, 45), Image(100, 46)>>,
          <<Image(130, 43), Image(120, 43), Image(100, 46), Image(110, 42), Image(150, 43), Image(160, 43)>>,
          <<Image(100, 40), Image(140, 0), Image(110, 43)>>}

Sys0 == [arch |-> "x86_64", features |-> {4, 25, 63}, extfeatures |-> {31}, leaf7 |-> {0}, ncpu |-> {8},
         family |-> {6}, model |-> {3}, stepping |-> {}, cpufamily |-> [upper |-> 7, lower |-> 9],
         productversion |-> <<{13}, {2}>>]
Code0 == [high |-> 5, signal |-> 11, wrapped |-> "EXC_BAD_ACCESS", low |-> 2]
Exc(kind, wrapped, subcode) == [kind |-> kind, code |-> [Code0 EXCEPT !.wrapped = wrapped], subcode |-> subcode]
Crash(t, exc) == {[thread |-> t, exception |-> exc]}
Task0 == [regions |-> MCRegions, images |-> <<Image(100, 40)>>, at |-> At0, strings |-> Strings, dyld |-> 200]
Time(s, us) == {[seconds |-> s, microseconds |-> us]}
Dump0 ==
    [task |-> Task0, threads |-> <<1, 2, 3>>, handler |-> 3, crash_context |-> {}, threads_fail |-> FALSE,
     images_fail |-> FALSE, pid_fails |-> FALSE, sp |-> (1 :> 5 @@ 2 :> 9 @@ 3 :> 15 @@ 4 :> 15), ip |-> [t \in 1..4 |-> 21],
     names |-> [t \in 1..4 |-> <<"a", "b", "c", "d">>[t]], sys |-> Sys0, ended |-> Time(1, 4), living |-> {}]

Excs == {Exc("EXC_CRASH", "EXC_BAD_ACCESS", {7}), Exc("EXC_CRASH", "EXC_GUARD", {}), Exc("EXC_GUARD", "other", {}),
         Exc("EXC_BAD_ACCESS", "other", {7}), Exc("other", "other", {7})}
MCDumps ==
    {[Dump0 EXCEPT !.sp[1] = a, !.sp[2] = b, !.handler = h, !.crash_context = c] :
        a, b \in Places, h \in {0, 1, 3}, c \in {{}, Crash(1, {}), Crash(2, {Exc("other", "other", {})})}}
    \cup {[Dump0 EXCEPT !.ip[1] = p, !.crash_context = Crash(1, {e})] : p \in {0, 9, 20, 21, 24, 27, 29, 31, 50}, e \in Excs}
    \cup {[Dump0 EXCEPT !.task.images = l, !.images_fail = f, !.task.dyld = d] :
            l \in Lists, f \in BOOLEAN, d \in {200, 201}}
    \cup {[Dump0 EXCEPT !.ended = a, !.living = b] : a, b \in {{}, Time(2, 0), Time(1, 5), Time(1, 9), Time(0, 10), Time(3, 19)}}
    \cup {[Dump0 EXCEPT !.handler = h, !.threads_fail = f, !.pid_fails = p] : h \in {0, 3}, f, p \in BOOLEAN}
    \cup {[Dump0 EXCEPT !.handler = 9, !.crash_context = Crash(1, {})]}
    \cup {[Dump0 EXCEPT !.sys = s] : s \in {[Sys0 EXCEPT !.arch = "aarch64", !.ncpu = {300}], [Sys0 EXCEPT !.productversion = <<{13}, {}, {1}>>],
                                            [Sys0 EXCEPT !.productversion = <<{13}, {2}, {1}>>]}}
=============================================================================
