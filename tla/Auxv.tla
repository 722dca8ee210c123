-------------------------------- MODULE Auxv --------------------------------
(***************************************************************************)
(* auxv/mod.rs and auxv/reader.rs: the values of the auxiliary vector that *)
(* the caller provides, completed from /proc/<pid>/auxv.                   *)
(***************************************************************************)
EXTENDS Options

Keys == {"AT_PHNUM", "AT_PHDR", "AT_SYSINFO_EHDR", "AT_ENTRY"}

\* From<DirectAuxvDumpInfo>: 0 means that the caller does not know.
FromDirect(direct) == [key \in Keys |-> IF direct[key] > 0 THEN {direct[key]} ELSE {}]
is_complete(auxv) == \A key \in Keys : auxv[key] # {}

\* ProcfsAuxvIter ends at AT_NULL, and after an error: the end of the file or of a
\* pair, or a failure to read ("error").
ProcfsAuxvIter(file) ==
    LET ends == {i \in DOMAIN file : file[i].key \in {"AT_NULL", "error"}}
    IN  SubSeq(file, 1, IF ends = {} THEN Len(file) ELSE (CHOOSE i \in ends : \A j \in ends : i <= j) - 1)

\* Mutant of try_filling_missing_info: the last value of a key counts, and those
\* of the caller do not.
try_filling_overwriting(auxv, file) ==
    IF is_complete(auxv) THEN auxv
    ELSE [key \in Keys |->
             LET pairs == ProcfsAuxvIter(file)
                 hits == {i \in DOMAIN pairs : pairs[i].key = key}
             IN  IF hits = {} THEN auxv[key]
                 ELSE {pairs[CHOOSE i \in hits : \A j \in hits : j <= i].value}]


\* A file that cannot be opened has no pairs: the error is a soft one.
try_filling_missing_info(auxv, file) ==
    IF is_complete(auxv) THEN auxv
    ELSE [key \in Keys |->
             LET pairs == ProcfsAuxvIter(file)
             IN  OrElse(auxv[key],
                        {p.value : p \in First({i \in DOMAIN pairs : pairs[i].key = key}, pairs)})]
=============================================================================
