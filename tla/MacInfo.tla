------------------------------ MODULE MacInfo ------------------------------
(***************************************************************************)
(* What the system info, misc info and exception streams of macOS compute: *)
(* mac/streams/system_info.rs, misc_info.rs and exception.rs, over the     *)
(* sysctl functions of mach.rs. A word of flags is the set of its bits.    *)
(***************************************************************************)
EXTENDS Options

CONSTANTS
    ByteMax,    \* 255: hw.ncpu, the model and the stepping go into a u8
    Second      \* 1000000: the microseconds of a second

\* sysctl_by_name: 0 for a value that is not there; int_sysctl_by_name also for one
\* that the type does not hold.
sysctl_by_name(value) == OrElse(value, {0})
int_sysctl_by_name(value, max) == IF \A v \in value : v <= max THEN The(OrElse(value, {0})) ELSE 0

\* map_feature: <<bit of cpuid, bit of the minidump>>, for each word of features
FeatureMap ==
    [features |-> {<<4, 8>>, <<6, 9>>, <<23, 3>>, <<25, 6>>, <<26, 10>>, <<32, 13>>, <<45, 14>>,
                   <<58, 17>>, <<62, 28>>},
     extfeatures |-> {<<27, 32>>, <<31, 7>>},
     leaf7 |-> {<<0, 22>>}]
read_cpu_info(sys) ==
    IF sys.arch # "x86_64" THEN {}
    ELSE {2, 11, 12} \cup UNION {{f[2] : f \in {f \in FeatureMap[word] : f[1] \in sys[word]}} :
                                    word \in DOMAIN FeatureMap}

\* os_version: parts of "kern.osproductversion", each none where it is no number
os_version(parts) ==
    IF Len(parts) < 2 \/ parts[1] = {} \/ parts[2] = {} THEN <<0, 0, 0>>
    ELSE <<The(parts[1]), The(parts[2]), IF Len(parts) = 2 THEN 0 ELSE The(OrElse(parts[3], {0}))>>

\* On aarch64 `family & 0xffff0000 >> 16` shifts the mask: level and revision are
\* both the lower half of the family.
SystemInfo(sys) ==
    [number_of_processors |-> int_sysctl_by_name(sys.ncpu, ByteMax),
     cpu |-> read_cpu_info(sys),
     processor_level |-> IF sys.arch = "x86_64" THEN int_sysctl_by_name(sys.family, 65535) ELSE sys.cpufamily.lower,
     processor_revision |-> IF sys.arch = "x86_64"
                            THEN <<int_sysctl_by_name(sys.model, ByteMax), int_sysctl_by_name(sys.stepping, ByteMax)>>
                            ELSE sys.cpufamily.lower,
     version |-> os_version(sys.productversion)]

\* Mutant of Duration: more than a second of microseconds is cut off.
DurationCut(tv) == tv.seconds * Second + (tv.microseconds % Second)
\* From<TimeValue>: in microseconds; Duration::new takes less than a second of them.
Duration(tv) ==
    IF tv.microseconds >= Second
    THEN (tv.seconds + 1) * Second + (tv.microseconds - Second)
    ELSE tv.seconds * Second + tv.microseconds

\* The time of the ended threads (MachTaskBasicInfo) and that of the living ones
\* (TaskThreadsTimeInfo), in whole seconds; what cannot be read counts as none.
ProcessTime(ended, living) ==
    (The(OrElse({Duration(t) : t \in ended}, {0})) + The(OrElse({Duration(t) : t \in living}, {0}))) \div Second

\* is_valid_exc_crash, recover_exc_crash_wrapped_exception. A code is a record of
\* its bits: 63..32 high, 31..24 signal, 23..20 wrapped, 19..0 low.
is_valid_exc_crash(code) ==
    code.wrapped \notin {"EXC_CRASH", "EXC_RESOURCE", "EXC_GUARD", "EXC_CORPSE_NOTIFY"}
wrapped_exc(exc) ==
    IF exc.kind = "EXC_CRASH" /\ is_valid_exc_crash(exc.code)
    THEN {[kind |-> exc.code.wrapped, code |-> exc.code.low]} ELSE {}

exception_code(exc) ==
    IF exc.kind \in {"EXC_RESOURCE", "EXC_GUARD"} THEN {exc.code.high}
    ELSE OrElse({w.code : w \in wrapped_exc(exc)}, {<<exc.code.signal, exc.code.wrapped, exc.code.low>>})

\* The record of an exception; pc is none if the thread's state cannot be read.
exception_record(exc, pc) ==
    LET kind == The(OrElse({w.kind : w \in wrapped_exc(exc)}, {exc.kind}))
    IN  [exception_code |-> kind,
         exception_flags |-> The(exception_code(exc)),
         exception_address |-> IF kind = "EXC_BAD_ACCESS" /\ exc.subcode # {} THEN The(exc.subcode)
                               ELSE The(OrElse(pc, {0})),
         exception_information |-> <<kind, exc.code>> \o (IF exc.subcode = {} THEN << >> ELSE <<The(exc.subcode)>>)]
=============================================================================
