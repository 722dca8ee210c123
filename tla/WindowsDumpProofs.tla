------------------------- MODULE WindowsDumpProofs --------------------------
(***************************************************************************)
(* CleanReturn for any calls and any limit of the suspend count. The       *)
(* inductive invariant says at each step what the call still owes: a       *)
(* resume, a handle, a context.                                            *)
(***************************************************************************)
EXTENDS WindowsDump, TLAPS

Suspended == pc \in {"get", "resume", "resume_failed"}
Local == pc \in {"context", "suspend"} \/ Suspended

Typed ==
    /\ call \in Calls
    /\ count \in Nat /\ others \in Nat /\ alive \in BOOLEAN
    /\ pc \in {"context", "suspend", "get", "resume", "resume_failed", "open_process", "write", "returned"}
    /\ Local => call.local

\* The count is that of the others, and one more while the call has the thread
\* suspended. It stays what it was for a thread that has ended.
Owed ==
    /\ Suspended => count = others + 1
    /\ ~Suspended /\ alive => count = others

Handles ==
    handles = IF pc = "suspend" \/ Suspended THEN {"thread"}
              ELSE IF pc = "write" /\ External THEN {"process"} ELSE {}

Errors ==
    /\ pc = "resume_failed" => last_error = "GetThreadContext"
    /\ pc = "returned" => result \in {"ok", last_error} /\ (result = "ResumeThread" => ~alive)

Context ==
    /\ \A c \in context : c.thread = ThreadId /\ c.still
    /\ call.local /\ pc \in {"resume", "open_process", "write"} => context # {}

Given ==
    \A w \in written :
        /\ w.breakpad = {} <=> External
        /\ \A e \in w.exc_info : /\ e.ClientPointers = External
                                 /\ \A c \in e.context : c.thread = e.ThreadId /\ c.still
        /\ call.local => \E e \in w.exc_info : e.context # {}

IInv == Typed /\ Owed /\ Handles /\ Errors /\ Context /\ Given

\* The call has nothing to give back before its first step.
LEMMA InitInv == Init => IInv
<1> SUFFICES ASSUME Init PROVE IInv
  OBVIOUS
<1> QED
  BY CallAssumption DEF Init, IInv, Typed, Local, Suspended, Owed, Handles, Errors, Context, Given, External

\* A step that leaves the call alone leaves alone what follows from it.
LEMMA CallKept == ASSUME call' = call PROVE ThreadId' = ThreadId /\ External' = External
BY DEF ThreadId, External

\* What MiniDumpWriteDump is given, when it is called.
LEMMA DumpGiven == IInv /\ Dump => Given'
<1> SUFFICES ASSUME IInv, Dump PROVE Given'
  OBVIOUS
<1> DEFINE w == [exc_info |-> exc_info, breakpad |-> fill_breakpad_stream]
<1>1. written' = {w} /\ call' = call /\ pc = "write"
  BY DEF Dump
<1>2. External' = External
  BY <1>1, CallKept
<1>3. w.breakpad = {} <=> External
  BY DEF fill_breakpad_stream
<1>4. \A e \in exc_info : /\ e.ClientPointers = External
                          /\ \A c \in e.context : c.thread = e.ThreadId /\ c.still
  BY DEF exc_info, IInv, Context
<1>5. call.local => \E e \in exc_info : e.context # {}
  BY <1>1 DEF exc_info, IInv, Context
<1>6. QED
  BY <1>1, <1>2, <1>3, <1>4, <1>5 DEF Given

\* Every step of the call and of the other threads keeps the invariant.
LEMMA NextInv == IInv /\ [Next]_vars => IInv'
<1> SUFFICES ASSUME IInv, [Next]_vars PROVE IInv'
  OBVIOUS
<1>0. call' = call /\ ThreadId' = ThreadId /\ External' = External
  <2>1. call' = call
    BY DEF Next, vars, CaptureContext, OpenThread, SuspendThread, GetThreadContext, GetThreadContextFails,
       ResumeThread, ResumeAfterFailure, OpenProcess, Dump, OtherSuspends, OtherResumes, ThreadEnds, Goto
  <2>2. QED
    BY <2>1, CallKept
<1> USE <1>0, CallAssumption DEF IInv, Typed, Local, Suspended, Owed, Handles, Errors, Context, Goto
<1>1. CASE CaptureContext
  BY <1>1 DEF CaptureContext, Given
<1>2. CASE OpenThread
  BY <1>2 DEF OpenThread, Given
<1>3. CASE SuspendThread
  BY <1>3 DEF SuspendThread, Given
<1>4. CASE GetThreadContext
  BY <1>4 DEF GetThreadContext, Given
<1>5. CASE GetThreadContextFails
  BY <1>5 DEF GetThreadContextFails, Given
<1>6. CASE ResumeThread
  BY <1>6 DEF ResumeThread, Resumed, Given
<1>7. CASE ResumeAfterFailure
  BY <1>7 DEF ResumeAfterFailure, Resumed, Given
<1>8. CASE OpenProcess
  BY <1>8 DEF OpenProcess, Given
<1>9. CASE Dump
  BY <1>9, DumpGiven DEF Dump
<1>10. CASE OtherSuspends
  BY <1>10 DEF OtherSuspends, Given
<1>11. CASE OtherResumes
  BY <1>11 DEF OtherResumes, Given
<1>12. CASE ThreadEnds
  BY <1>12 DEF ThreadEnds, Given
<1>13. CASE UNCHANGED vars
  BY <1>13 DEF vars, Given
<1>14. QED
  BY <1>1, <1>2, <1>3, <1>4, <1>5, <1>6, <1>7, <1>8, <1>9, <1>10, <1>11, <1>12, <1>13 DEF Next

\* For every call, whatever other threads do to the requested one and whichever
\* system call fails, dump_local_context and dump_crash_context return cleanly.
THEOREM CleanReturnCorrect == Spec => []CleanReturn
<1>1. IInv => CleanReturn
  BY DEF IInv, Typed, Suspended, Owed, Handles, Errors, Given, CleanReturn
<1>2. QED
  BY <1>1, InitInv, NextInv, PTL DEF Spec
=============================================================================
