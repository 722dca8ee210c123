---------------------------- MODULE WindowsDump ----------------------------
(***************************************************************************)
(* windows/minidump_writer.rs: dump_local_context suspends a thread of its *)
(* own process to take its context, and dump_crash_context opens a process *)
(* to dump it. Meanwhile other threads of the process suspend and resume   *)
(* threads too, and a thread may end. MiniDumpWriteDump writes the file.   *)
(***************************************************************************)
EXTENDS Options, FiniteSets

CONSTANTS
    Calls,          \* the calls that are made
    Self,           \* GetCurrentThreadId
    MaxSuspend      \* MAXIMUM_SUSPEND_COUNT, 127: one more fails

ASSUME CallAssumption ==
    /\ MaxSuspend \in Nat
    /\ \A c \in Calls : c.local \in BOOLEAN /\ c.external \in BOOLEAN /\ c.null_pointers \in BOOLEAN

VARIABLES
    call,
    pc, result,
    alive,          \* the requested thread has not ended
    count, others,  \* its suspend count, and the part of it that others have
    handles,        \* the handles that are open: "thread", "process"
    last_error,     \* what the thread's last error says, and which call failed
    context,        \* whose context was taken, and whether it stood still
    written         \* what MiniDumpWriteDump was given

vars == <<call, pc, result, alive, count, others, handles, last_error, context, written>>

Init ==
    /\ call \in Calls
    /\ pc = IF call.local THEN "context" ELSE "open_process"
    /\ result = "none" /\ alive = TRUE /\ others \in 0..MaxSuspend /\ count = others
    /\ handles = {} /\ last_error = "none" /\ context = {} /\ written = {}

\* thread_id.unwrap_or_else(GetCurrentThreadId)
ThreadId == IF call.local THEN The(OrElse(call.thread_id, {Self})) ELSE The(call.thread_id)
External == ~call.local /\ call.external

Goto(step) == pc' = step /\ UNCHANGED <<call, result, alive, others>>

\* capture_context, for the current thread or without one
CaptureContext ==
    /\ pc = "context" /\ ThreadId = Self
    /\ context' = {[thread |-> Self, still |-> TRUE]}
    /\ Goto("open_process") /\ UNCHANGED <<count, handles, last_error, written>>

OpenThread ==
    /\ pc = "context" /\ ThreadId # Self
    /\ \/ /\ alive /\ handles' = handles \cup {"thread"}
          /\ Goto("suspend") /\ UNCHANGED <<count, last_error, context, written>>
       \/ /\ last_error' = "OpenThread" /\ result' = "OpenThread" /\ pc' = "returned"
          /\ UNCHANGED <<call, alive, others, count, handles, context, written>>

\* Returning drops the OwnedHandle, which closes it.
SuspendThread ==
    /\ pc = "suspend"
    /\ \/ /\ alive /\ count < MaxSuspend /\ count' = count + 1
          /\ Goto("get") /\ UNCHANGED <<handles, last_error, context, written>>
       \/ /\ ~alive \/ count = MaxSuspend
          /\ last_error' = "SuspendThread" /\ result' = "SuspendThread" /\ pc' = "returned"
          /\ handles' = handles \ {"thread"}
          /\ UNCHANGED <<call, alive, others, count, context, written>>

GetThreadContext ==
    /\ pc = "get"
    /\ context' = {[thread |-> ThreadId, still |-> count > 0]}
    /\ Goto("resume") /\ UNCHANGED <<count, handles, last_error, written>>

\* Mutant of GetThreadContextFails: the thread is not resumed.
GetThreadContextReturns ==
    /\ pc = "get"
    /\ last_error' = "GetThreadContext" /\ result' = "GetThreadContext" /\ pc' = "returned"
    /\ handles' = handles \ {"thread"}
    /\ UNCHANGED <<call, alive, others, count, context, written>>

GetThreadContextFails ==
    /\ pc = "get"
    /\ last_error' = "GetThreadContext"
    /\ Goto("resume_failed") /\ UNCHANGED <<count, handles, context, written>>

\* ResumeThread fails only for a thread that has ended. Its own result is not
\* looked at; the error is fetched after it, and the handle closed.
Resumed ==
    IF alive THEN count' = (IF count > 0 THEN count - 1 ELSE 0) /\ UNCHANGED last_error
    ELSE last_error' = "ResumeThread" /\ UNCHANGED count
ResumeThread ==
    /\ pc = "resume"
    /\ Resumed
    /\ handles' = handles \ {"thread"}
    /\ Goto("open_process") /\ UNCHANGED <<context, written>>
ResumeAfterFailure ==
    /\ pc = "resume_failed"
    /\ Resumed
    /\ handles' = handles \ {"thread"}
    /\ result' = last_error' /\ pc' = "returned"
    /\ UNCHANGED <<call, alive, others, context, written>>

\* dump_crash_context. GetCurrentProcess gives a pseudo handle, which need not be
\* closed.
OpenProcess ==
    /\ pc = "open_process"
    /\ \/ /\ handles' = IF External THEN handles \cup {"process"} ELSE handles
          /\ Goto("write") /\ UNCHANGED <<count, last_error, context, written>>
       \/ /\ External
          /\ last_error' = "OpenProcess" /\ result' = "OpenProcess" /\ pc' = "returned"
          /\ UNCHANGED <<call, alive, others, count, handles, context, written>>

exc_info ==
    IF ~call.local /\ call.null_pointers THEN {}
    ELSE {[ThreadId |-> ThreadId, ClientPointers |-> External,
           context |-> IF call.local THEN context ELSE {[thread |-> ThreadId, still |-> TRUE]}]}
\* fill_breakpad_stream: only relevant for in-process dumping
fill_breakpad_stream ==
    IF External THEN {} ELSE {[dump_thread_id |-> ThreadId, requesting_thread_id |-> Self]}

\* MiniDumpWriteDump; then self is dropped, with it the handle of the process.
Dump ==
    /\ pc = "write"
    /\ written' = {[exc_info |-> exc_info, breakpad |-> fill_breakpad_stream]}
    /\ handles' = handles \ {"process"}
    /\ \/ result' = "ok" /\ UNCHANGED last_error
       \/ last_error' = "MiniDumpWriteDump" /\ result' = "MiniDumpWriteDump"
    /\ pc' = "returned"
    /\ UNCHANGED <<call, alive, others, count, context>>

\* Others resume what they have suspended, no more.
OtherSuspends ==
    /\ pc # "returned" /\ alive /\ count < MaxSuspend
    /\ count' = count + 1 /\ others' = others + 1
    /\ UNCHANGED <<call, pc, result, alive, handles, last_error, context, written>>
OtherResumes ==
    /\ pc # "returned" /\ alive /\ others > 0
    /\ count' = count - 1 /\ others' = others - 1
    /\ UNCHANGED <<call, pc, result, alive, handles, last_error, context, written>>
\* A thread ends by itself only while it runs; it may be terminated at any time.
ThreadEnds ==
    /\ pc # "returned" /\ alive /\ call.thread_id # {Self}
    /\ alive' = FALSE
    /\ UNCHANGED <<call, pc, result, count, others, handles, last_error, context, written>>

Next ==
    \/ CaptureContext \/ OpenThread \/ SuspendThread \/ GetThreadContext \/ GetThreadContextFails
    \/ ResumeThread \/ ResumeAfterFailure \/ OpenProcess \/ Dump
    \/ OtherSuspends \/ OtherResumes \/ ThreadEnds

Spec == Init /\ [][Next]_vars

-----------------------------------------------------------------------------
\* Whatever call fails: the requested thread is suspended as often as others have
\* suspended it, no handle stays open, the error is that of the call that failed
\* (that of ResumeThread only if the thread has ended), and a dump that succeeds has
\* the context of the thread it names, taken while that thread stood still, and the
\* Breakpad stream exactly for the own process.
CleanReturn ==
    pc = "returned" =>
        /\ alive => count = others
        /\ handles = {}
        /\ result \in {"ok", last_error}
        /\ result = "ResumeThread" => ~alive
        /\ \A w \in written :
              /\ w.breakpad = {} <=> External
              /\ \A e \in w.exc_info : /\ e.ClientPointers = External
                                       /\ \A c \in e.context : c.thread = e.ThreadId /\ c.still
              /\ call.local => \E e \in w.exc_info : e.context # {}
=============================================================================
