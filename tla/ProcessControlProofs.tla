------------------------ MODULE ProcessControlProofs ------------------------
(***************************************************************************)
(* Theorems about ProcessControl, for any set of threads and of signals.   *)
(*                                                                         *)
(* The inductive invariant follows the program: Kernel relates the ptrace  *)
(* state of a thread to its scheduling state; each other conjunct says     *)
(* what holds while the writer is in one of its phases.                    *)
(***************************************************************************)
EXTENDS ProcessControl, TLAPS

\* A thread the writer keeps: stopped by SIGSTOP under ptrace, or killed since.
Held(t) == tstate[t] = "dead" \/ (t \in attached /\ tstate[t] = "traced" /\ stopsig[t] = STOP)

Kernel ==
    \A t \in Threads :
        /\ tstate[t] = "traced" => t \in attached
        /\ t \in attached => Alive(t)
        /\ tstate[t] \notin {"traced", "dead"} => stopsig[t] = None

Before ==
    pc \in {"start", "poll", "enumerate", "page_size"} =>
        attached = {} /\ todo = {} /\ cur = None /\ ~suspended

OnThread == pc \in {"wait", "cont", "detach", "regs"}
Suspending ==
    pc = "suspend" \/ OnThread =>
        /\ ~suspended
        /\ todo \subseteq threads
        /\ attached \subseteq (threads \ todo) \cup {cur}
        /\ \A t \in threads \ todo : Held(t)
        /\ pc = "suspend" => cur = None
        /\ OnThread => cur \in todo
        /\ pc = "regs" => Held(cur)
        /\ pc = "cont" => tstate[cur] = "dead" \/ (tstate[cur] = "traced" /\ stopsig[cur] \in Signals)
        /\ pc = "detach" => tstate[cur] = "dead" \/ (tstate[cur] = "traced" /\ stopsig[cur] \in RtSignals)

Writing ==
    pc \in {"late", "write"} =>
        /\ suspended
        /\ todo \subseteq threads
        /\ pc = "late" => todo = {}
        /\ attached \subseteq threads
        /\ \A t \in threads : Held(t)

Dropping ==
    pc = "drop" =>
        /\ todo \subseteq threads
        /\ attached \subseteq todo
        /\ ~suspended => attached = {}
        /\ \A t \in attached : Held(t)

Finishing ==
    /\ pc \in {"continue", "done"} => attached = {}
    /\ pc = "done" => ~groupStop /\ ~sharedStop
    /\ pc = "done" => \A t \in Threads : STOP \notin pending[t] /\ tstate[t] # "stopped"

IInv == TypeOK /\ Kernel /\ Before /\ Suspending /\ Writing /\ Dropping /\ Finishing

-----------------------------------------------------------------------------
\* Before init the writer holds nothing: the invariant holds at the start.
LEMMA InitIInv == Init => IInv
<1> SUFFICES ASSUME Init PROVE IInv
  OBVIOUS
<1> USE LeaderAssumption, SignalAssumption DEF IInv, TypeOK, Kernel, Before, Suspending, OnThread,
       Writing, Dropping, Finishing, Held, Alive, ThreadStates, Steps, UserSignals, Init
<1>1. TypeOK
  BY Zenon
<1>2. Kernel
  OBVIOUS
<1>3. Before
  OBVIOUS
<1>4. Suspending
  OBVIOUS
<1>5. Writing
  OBVIOUS
<1>6. Dropping
  OBVIOUS
<1>7. Finishing
  OBVIOUS
<1>8. QED
  BY <1>1, <1>2, <1>3, <1>4, <1>5, <1>6, <1>7 DEF IInv

\* No step of the target or of the kernel (a signal taken, a thread born, killed,
\* asleep, or continued by someone else) breaks the invariant.
LEMMA TargetIInv == IInv /\ Target => IInv'
<1> SUFFICES ASSUME IInv, Target PROVE IInv'
  OBVIOUS
<1> USE LeaderAssumption, SignalAssumption DEF IInv, TypeOK, Kernel, Before, Suspending, OnThread,
       Writing, Dropping, Finishing, Held, Alive, ThreadStates, Steps, UserSignals
<1>1. CASE Kill
  BY <1>1 DEF Kill, writer, SomeAlive
<1>2. CASE ForeignCont
  <2>1. TypeOK'
    <3>1. contd' \in BOOLEAN /\ sharedStop' \in BOOLEAN /\ groupStop' \in BOOLEAN
      BY <1>2, Zenon DEF ForeignCont, SigCont
    <3>2. QED
      BY <3>1, <1>2 DEF ForeignCont, SigCont, writer, SomeAlive
  <2>2. Kernel'
    BY <1>2 DEF ForeignCont, SigCont, writer, SomeAlive
  <2>3. Before'
    BY <1>2 DEF ForeignCont, SigCont, writer, SomeAlive
  <2>4. Suspending'
    BY <1>2 DEF ForeignCont, SigCont, writer, SomeAlive
  <2>5. Writing'
    BY <1>2 DEF ForeignCont, SigCont, writer, SomeAlive
  <2>6. Dropping'
    BY <1>2 DEF ForeignCont, SigCont, writer, SomeAlive
  <2>7. Finishing'
    BY <1>2 DEF ForeignCont, SigCont, writer, SomeAlive
  <2>8. QED
    BY <2>1, <2>2, <2>3, <2>4, <2>5, <2>6, <2>7 DEF IInv
<1>3. ASSUME NEW t \in Threads, Spawn(t) PROVE IInv'
  BY <1>3 DEF Spawn, writer
<1>4. ASSUME NEW t \in Threads, Exit(t) PROVE IInv'
  BY <1>4 DEF Exit, writer
<1>5. ASSUME NEW t \in Threads, Block(t) PROVE IInv'
  BY <1>5 DEF Block, writer
<1>6. ASSUME NEW t \in Threads, Unblock(t) PROVE IInv'
  BY <1>6 DEF Unblock, writer
<1>7. ASSUME NEW t \in Threads, JoinStop(t) PROVE IInv'
  BY <1>7 DEF JoinStop, writer
<1>8. ASSUME NEW t \in Threads, TakeStop(t) PROVE IInv'
  <2>1. TypeOK'
    <3>1. sharedStop' \in BOOLEAN /\ groupStop' \in BOOLEAN
      BY <1>8, Zenon DEF TakeStop
    <3>2. QED
      BY <3>1, <1>8 DEF TakeStop, writer
  <2>2. Kernel'
    BY <1>8 DEF TakeStop, writer
  <2>3. Before'
    BY <1>8 DEF TakeStop, writer
  <2>4. Suspending'
    BY <1>8 DEF TakeStop, writer
  <2>5. Writing'
    BY <1>8 DEF TakeStop, writer
  <2>6. Dropping'
    BY <1>8 DEF TakeStop, writer
  <2>7. Finishing'
    BY <1>8 DEF TakeStop, writer
  <2>8. QED
    BY <2>1, <2>2, <2>3, <2>4, <2>5, <2>6, <2>7 DEF IInv
<1>9. ASSUME NEW t \in Threads, NEW s \in UserSignals, Send(t, s) PROVE IInv'
  BY <1>9 DEF Send, writer
<1>10. ASSUME NEW t \in Threads, NEW s \in UserSignals, TakeSignal(t, s) PROVE IInv'
  BY <1>10 DEF TakeSignal, writer
<1>11. QED
  BY Zenon, <1>1, <1>2, <1>3, <1>4, <1>5, <1>6, <1>7, <1>8, <1>9, <1>10 DEF Target

\* No step of the writer breaks the invariant: stop_process, enumerate_threads,
\* suspend_thread with its error paths, write_dump, Drop.
LEMMA WriterIInv == IInv /\ Writer => IInv'
<1> SUFFICES ASSUME IInv, Writer PROVE IInv'
  OBVIOUS
<1> USE LeaderAssumption, SignalAssumption DEF IInv, TypeOK, Kernel, Before, Suspending, OnThread,
       Writing, Dropping, Finishing, Held, Alive, ThreadStates, Steps, UserSignals
<1>1. CASE RefuseSelf
  BY <1>1 DEF RefuseSelf, target
<1>2. CASE StopSent
  BY <1>2 DEF StopSent, target
<1>3. CASE StopFailed
  BY <1>3 DEF StopFailed, StopReturns, target
<1>4. CASE PollStopped
  BY <1>4 DEF PollStopped, StopReturns, target
<1>5. CASE PollError
  BY <1>5 DEF PollError, StopReturns, target
<1>6. CASE PollTimeout
  BY <1>6 DEF PollTimeout, StopReturns, target
<1>7. CASE EnumerateThreads
  BY <1>7 DEF EnumerateThreads, Listed, ZombieLeader, target
<1>8. CASE PageSizeOk
  BY <1>8 DEF PageSizeOk, target
<1>9. CASE HardError
  BY <1>9 DEF HardError, target
<1>10. ASSUME NEW t \in Threads, Attach(t) PROVE IInv'
  BY <1>10 DEF Attach, target
<1>11. ASSUME NEW t \in Threads, AttachFails(t) PROVE IInv'
  BY <1>11 DEF AttachFails, Reject, target
<1>12. CASE WaitStopped
  BY <1>12 DEF WaitStopped, target
<1>13. CASE WaitSignal
  BY <1>13 DEF WaitSignal, target
<1>14. CASE WaitError
  BY <1>14 DEF WaitError, target
<1>15. CASE WaitDead
  BY <1>15 DEF WaitDead, Reject, target
<1>16. CASE Cont
  BY <1>16 DEF Cont, target
<1>17. CASE ContFails
  BY <1>17 DEF ContFails, Reject, target
<1>18. CASE DetachAfterError
  BY <1>18 DEF DetachAfterError, ptrace_detach, Reject, target
<1>19. CASE KeepThread
  BY <1>19 DEF KeepThread, target
<1>20. CASE SkipThread
  BY <1>20 DEF SkipThread, ptrace_detach, Reject, target
<1>21. CASE SuspendDone
  BY <1>21 DEF SuspendDone, target
<1>22. CASE StartWriting
  BY <1>22 DEF StartWriting, target
<1>23. ASSUME NEW t \in Threads, ReadThread(t) PROVE IInv'
  BY <1>23 DEF ReadThread, target
<1>24. CASE WriteDone
  BY <1>24 DEF WriteDone, target
<1>25. ASSUME NEW t \in Threads, ResumeThread(t) PROVE IInv'
  BY <1>25 DEF ResumeThread, ptrace_detach, target
<1>26. CASE ResumeDone
  <2>1. TypeOK'
    <3>1. suspended' \in BOOLEAN
      BY <1>26, Zenon DEF ResumeDone
    <3>2. QED
      BY <3>1, <1>26 DEF ResumeDone, target
  <2>2. Kernel'
    BY <1>26 DEF ResumeDone, target
  <2>3. Before'
    BY <1>26 DEF ResumeDone, target
  <2>4. Suspending'
    BY <1>26 DEF ResumeDone, target
  <2>5. Writing'
    BY <1>26 DEF ResumeDone, target
  <2>6. Dropping'
    BY <1>26 DEF ResumeDone, target
  <2>7. Finishing'
    BY <1>26 DEF ResumeDone, target
  <2>8. QED
    BY <2>1, <2>2, <2>3, <2>4, <2>5, <2>6, <2>7 DEF IInv
<1>27. CASE ContinueProcess
  <2>1. TypeOK'
    BY Zenon, <1>27 DEF ContinueProcess, SigCont, target
  <2>2. Kernel'
    BY <1>27 DEF ContinueProcess, SigCont, target
  <2>3. Before'
    BY <1>27 DEF ContinueProcess, SigCont, target
  <2>4. Suspending'
    BY <1>27 DEF ContinueProcess, SigCont, target
  <2>5. Writing'
    BY <1>27 DEF ContinueProcess, SigCont, target
  <2>6. Dropping'
    BY <1>27 DEF ContinueProcess, SigCont, target
  <2>7. Finishing'
    BY <1>27 DEF ContinueProcess, SigCont, target
  <2>8. QED
    BY <2>1, <2>2, <2>3, <2>4, <2>5, <2>6, <2>7 DEF IInv
<1>28. QED
  BY Zenon, <1>1, <1>2, <1>3, <1>4, <1>5, <1>6, <1>7, <1>8, <1>9, <1>10, <1>11, <1>12, <1>13, <1>14,
     <1>15, <1>16, <1>17, <1>18, <1>19, <1>20, <1>21, <1>22, <1>23, <1>24, <1>25, <1>26, <1>27 DEF
     Writer

\* The invariant is inductive.
LEMMA NextIInv == IInv /\ [Next]_vars => IInv'
<1> SUFFICES ASSUME IInv, [Next]_vars PROVE IInv'
  OBVIOUS
<1>1. CASE UNCHANGED vars
  BY <1>1 DEF vars, target, writer, IInv, TypeOK, Kernel, Before, Suspending, OnThread, Writing,
     Dropping, Finishing, Held, Alive
<1>2. QED
  BY <1>1, TargetIInv, WriterIInv DEF Next

\* The inductive invariant holds in every reachable state.
THEOREM InvariantCorrect == Spec => []IInv
<1>1. QED
  BY InitIInv, NextIInv, PTL DEF Spec

\* The state of writer and target stays in its type; in particular only signals
\* that PTRACE_CONT may reinject are ever acted on by a thread.
THEOREM TypeCorrect == Spec => []TypeOK
<1>1. IInv => TypeOK
  BY DEF IInv
<1>2. QED
  BY <1>1, InvariantCorrect, PTL

\* While write_dump runs, every thread in MinidumpWriter::threads is held in a
\* ptrace-stop, or was killed after it had been.
THEOREM SuspendedCorrect == Spec => []SuspendedWhileWriting
<1>1. IInv => SuspendedWhileWriting
  BY DEF IInv, Writing, Held, SuspendedWhileWriting
<1>2. QED
  BY <1>1, InvariantCorrect, PTL

\* Whatever suspend_thread attached to is in the list Drop will detach from.
THEOREM TracedKnownCorrect == Spec => []TracedIsKnown
<1>1. IInv => TracedIsKnown
  <2> SUFFICES ASSUME IInv, NEW t \in attached, Alive(t)
               PROVE t \in threads /\ (t \in todo => pc \in {"write", "drop"} \/ t = cur)
    BY DEF TracedIsKnown
  <2> QED
    BY LeaderAssumption DEF IInv, TypeOK, Steps, Before, Suspending, OnThread, Writing, Dropping,
       Finishing
<1>2. QED
  BY <1>1, InvariantCorrect, PTL

\* However the dump ended, Drop leaves no thread of the target traced or
\* stopped, and no stop signal queued.
THEOREM LeftRunningCorrect == Spec => []LeftRunning
<1>1. IInv => LeftRunning
  BY DEF IInv, Kernel, Finishing, LeftRunning
<1>2. QED
  BY <1>1, InvariantCorrect, PTL

-----------------------------------------------------------------------------
(***************************************************************************)
(* Signals. suspend_thread reinjects what waitpid reports, and every other *)
(* detach is from a thread stopped by SIGSTOP. The error arm of its loop   *)
(* is the exception, and is reached by a real-time signal only.            *)
(***************************************************************************)
Kept == \A t \in Threads :
            tstate[t] # "dead" => sent[t] \ RtSignals \subseteq pending[t] \cup {stopsig[t]} \cup delivered[t]

\* suspend_thread either reinjects what waitpid reports or detaches from a SIGSTOP or
\* a real-time signal: no step loses another signal of a live thread.
LEMMA NextKept == IInv /\ Kept /\ [Next]_vars => Kept'
<1> SUFFICES ASSUME IInv, Kept, [Next]_vars PROVE Kept'
  OBVIOUS
<1> USE SignalAssumption DEF IInv, TypeOK, Kernel, Suspending, OnThread, Dropping,
       Held, UserSignals, Kept
<1>1. CASE Kill
  BY <1>1 DEF Kill, SomeAlive, writer
<1>2. CASE ForeignCont
  BY <1>2 DEF ForeignCont, SigCont, writer
<1>3. ASSUME NEW t \in Threads, Spawn(t) PROVE Kept'
  BY <1>3 DEF Spawn, writer
<1>4. ASSUME NEW t \in Threads, Exit(t) PROVE Kept'
  BY <1>4 DEF Exit, writer
<1>5. ASSUME NEW t \in Threads, Block(t) PROVE Kept'
  BY <1>5 DEF Block, writer
<1>6. ASSUME NEW t \in Threads, Unblock(t) PROVE Kept'
  BY <1>6 DEF Unblock, writer
<1>7. ASSUME NEW t \in Threads, JoinStop(t) PROVE Kept'
  BY <1>7 DEF JoinStop, writer
<1>8. ASSUME NEW t \in Threads, TakeStop(t) PROVE Kept'
  BY <1>8 DEF TakeStop, writer
<1>9. ASSUME NEW t \in Threads, NEW s \in UserSignals, Send(t, s) PROVE Kept'
  BY <1>9 DEF Send, writer
<1>10. ASSUME NEW t \in Threads, NEW s \in UserSignals, TakeSignal(t, s) PROVE Kept'
  BY <1>10 DEF TakeSignal, writer
<1>11. CASE StopSent
  BY <1>11 DEF StopSent, target
<1>12. ASSUME NEW t \in Threads, Attach(t) PROVE Kept'
  BY <1>12 DEF Attach, target
<1>13. CASE Cont
  BY <1>13 DEF Cont, target
<1>14. CASE DetachAfterError
  BY <1>14 DEF DetachAfterError, ptrace_detach, Reject, target
<1>15. CASE SkipThread
  BY <1>15 DEF SkipThread, ptrace_detach, Reject, target
<1>16. ASSUME NEW t \in Threads, ResumeThread(t) PROVE Kept'
  BY <1>16 DEF ResumeThread, ptrace_detach, target
<1>17. CASE ContinueProcess
  BY <1>17 DEF ContinueProcess, SigCont, target
<1>18. CASE UNCHANGED target
  BY <1>18 DEF target
<1>19. QED
  BY Zenon, <1>1, <1>2, <1>3, <1>4, <1>5, <1>6, <1>7, <1>8, <1>9, <1>10, <1>11, <1>12, <1>13, <1>14,
     <1>15, <1>16, <1>17, <1>18
  DEF Next, Target, Writer, vars, StopReturns, RefuseSelf, StopFailed, PollStopped, PollError,
     PollTimeout, EnumerateThreads, PageSizeOk, HardError, AttachFails, WaitStopped, WaitSignal,
     WaitError, WaitDead, ContFails, KeepThread, SuspendDone, StartWriting, ReadThread, WriteDone,
     ResumeDone

\* Spec keeps Kept, for any signals.
LEMMA KeptCorrect == Spec => []Kept
<1>1. Init => Kept
  BY DEF Init, Kept
<1>2. IInv /\ Kept /\ [Next]_vars => Kept'
  BY NextKept
<1>3. QED
  BY <1>1, <1>2, InvariantCorrect, PTL DEF Spec

\* Whatever real-time signals arrive, no other signal that is sent to a live thread is
\* lost to the dump: it is queued, held, or was acted on.
THEOREM NamedSignalsCorrect == Spec => []NamedSignalsKept
<1>1. Kept => NamedSignalsKept
  BY DEF Kept, NamedSignalsKept, Alive
<1>2. QED
  BY <1>1, KeptCorrect, PTL

\* As long as the target uses no real-time signals, no signal sent to one of its
\* threads is lost to the dump.
THEOREM SignalsKept == ASSUME RtSignals = {} PROVE Spec => []NoSignalLost
<1>1. Kept => NoSignalLost
  BY RtSignals = {} DEF Kept, NoSignalLost, Alive
<1>2. QED
  BY <1>1, KeptCorrect, PTL

-----------------------------------------------------------------------------
(***************************************************************************)
(* The snapshot. Once stop_process has seen the leader stopped, the group  *)
(* stop stays in effect until ContinueProcess, so no thread is born and a  *)
(* thread the writer detaches from stops again.                            *)
(***************************************************************************)
Latched ==
    /\ \A t \in Threads : tstate[t] = "stopped" => groupStop
    /\ pc \in {"start", "poll"} => stop = "none"
    /\ stop = "ok" /\ ~contd /\ pc # "done" => groupStop

Accounted ==
    stop = "ok" /\ enum = "ok" /\ ~contd
      /\ pc \in {"page_size", "suspend", "wait", "cont", "detach", "regs", "late", "write"} =>
        \A t \in Threads :
            Alive(t) => \/ t \in threads
                        \/ dropped[t] = "attach"
                        \/ dropped[t] \in {"wait", "skipped"} /\ tstate[t] = "stopped"

\* Once stop_process has seen the leader stopped, the group stop lasts and holds
\* every thread, also through attaching and detaching.
LEMMA NextLatched == IInv /\ Latched /\ [Next]_vars => Latched'
<1> SUFFICES ASSUME IInv, Latched, [Next]_vars PROVE Latched'
  OBVIOUS
<1> USE LeaderAssumption DEF IInv, TypeOK, Latched
<1>1. CASE Kill
  BY <1>1 DEF Kill, SomeAlive, writer
<1>2. CASE ForeignCont
  BY <1>2 DEF ForeignCont, SigCont, writer
<1>3. ASSUME NEW t \in Threads, Spawn(t) PROVE Latched'
  BY <1>3 DEF Spawn, writer
<1>4. ASSUME NEW t \in Threads, Exit(t) PROVE Latched'
  BY <1>4 DEF Exit, writer
<1>5. ASSUME NEW t \in Threads, Block(t) PROVE Latched'
  BY <1>5 DEF Block, writer
<1>6. ASSUME NEW t \in Threads, Unblock(t) PROVE Latched'
  BY <1>6 DEF Unblock, writer
<1>7. ASSUME NEW t \in Threads, JoinStop(t) PROVE Latched'
  BY <1>7 DEF JoinStop, writer
<1>8. ASSUME NEW t \in Threads, TakeStop(t) PROVE Latched'
  BY <1>8 DEF TakeStop, writer
<1>9. ASSUME NEW t \in Threads, NEW s \in UserSignals, Send(t, s) PROVE Latched'
  BY <1>9 DEF Send, writer
<1>10. ASSUME NEW t \in Threads, NEW s \in UserSignals, TakeSignal(t, s) PROVE Latched'
  BY <1>10 DEF TakeSignal, writer
<1>11. CASE RefuseSelf
  BY <1>11 DEF RefuseSelf, target
<1>12. CASE StopSent
  BY <1>12 DEF StopSent, target
<1>13. CASE StopFailed
  BY <1>13 DEF StopFailed, StopReturns, target
<1>14. CASE PollStopped
  BY <1>14 DEF PollStopped, StopReturns, target
<1>15. CASE PollError
  BY <1>15 DEF PollError, StopReturns, target
<1>16. CASE PollTimeout
  BY <1>16 DEF PollTimeout, StopReturns, target
<1>17. CASE EnumerateThreads
  BY <1>17 DEF EnumerateThreads, Listed, target
<1>18. CASE PageSizeOk
  BY <1>18 DEF PageSizeOk, target
<1>19. CASE HardError
  BY <1>19 DEF HardError, target
<1>20. ASSUME NEW t \in Threads, Attach(t) PROVE Latched'
  BY <1>20 DEF Attach, target
<1>21. ASSUME NEW t \in Threads, AttachFails(t) PROVE Latched'
  BY <1>21 DEF AttachFails, Reject, target
<1>22. CASE WaitStopped
  BY <1>22 DEF WaitStopped, target
<1>23. CASE WaitSignal
  BY <1>23 DEF WaitSignal, target
<1>24. CASE WaitError
  BY <1>24 DEF WaitError, target
<1>25. CASE WaitDead
  BY <1>25 DEF WaitDead, Reject, target
<1>26. CASE Cont
  BY <1>26 DEF Cont, target
<1>27. CASE ContFails
  BY <1>27 DEF ContFails, Reject, target
<1>28. CASE DetachAfterError
  BY <1>28 DEF DetachAfterError, ptrace_detach, Reject, target
<1>29. CASE KeepThread
  BY <1>29 DEF KeepThread, target
<1>30. CASE SkipThread
  BY <1>30 DEF SkipThread, ptrace_detach, Reject, target
<1>31. CASE SuspendDone
  BY <1>31 DEF SuspendDone, target
<1>32. CASE StartWriting
  BY <1>32 DEF StartWriting, target
<1>33. ASSUME NEW t \in Threads, ReadThread(t) PROVE Latched'
  BY <1>33 DEF ReadThread, target
<1>34. CASE WriteDone
  BY <1>34 DEF WriteDone, target
<1>35. ASSUME NEW t \in Threads, ResumeThread(t) PROVE Latched'
  BY <1>35 DEF ResumeThread, ptrace_detach, target
<1>36. CASE ResumeDone
  BY <1>36 DEF ResumeDone, target
<1>37. CASE ContinueProcess
  BY <1>37 DEF ContinueProcess, SigCont, target
<1>38. CASE UNCHANGED vars
  BY <1>38 DEF vars, target, writer
<1>39. QED
  BY Zenon, <1>1, <1>2, <1>3, <1>4, <1>5, <1>6, <1>7, <1>8, <1>9, <1>10, <1>11, <1>12, <1>13, <1>14,
     <1>15, <1>16, <1>17, <1>18, <1>19, <1>20, <1>21, <1>22, <1>23, <1>24, <1>25, <1>26, <1>27,
     <1>28, <1>29, <1>30, <1>31, <1>32, <1>33, <1>34, <1>35, <1>36, <1>37, <1>38
  DEF Next, Target, Writer

\* A thread that enumerate_threads listed leaves the list only by an error that
\* `retain` records.
LEMMA NextAccounted == IInv /\ Latched /\ Accounted /\ [Next]_vars => Accounted'
<1> SUFFICES ASSUME IInv, Latched, Accounted, [Next]_vars PROVE Accounted'
  OBVIOUS
<1> USE LeaderAssumption DEF IInv, TypeOK, Kernel, Suspending, OnThread, Held, Latched, Accounted,
       Alive
<1>1. CASE Kill
  BY <1>1 DEF Kill, SomeAlive, writer
<1>2. CASE ForeignCont
  BY <1>2 DEF ForeignCont, SigCont, writer
<1>3. ASSUME NEW t \in Threads, Spawn(t) PROVE Accounted'
  BY <1>3 DEF Spawn, writer
<1>4. ASSUME NEW t \in Threads, Exit(t) PROVE Accounted'
  BY <1>4 DEF Exit, writer
<1>5. ASSUME NEW t \in Threads, Block(t) PROVE Accounted'
  BY <1>5 DEF Block, writer
<1>6. ASSUME NEW t \in Threads, Unblock(t) PROVE Accounted'
  BY <1>6 DEF Unblock, writer
<1>7. ASSUME NEW t \in Threads, JoinStop(t) PROVE Accounted'
  BY <1>7 DEF JoinStop, writer
<1>8. ASSUME NEW t \in Threads, TakeStop(t) PROVE Accounted'
  BY <1>8 DEF TakeStop, writer
<1>9. ASSUME NEW t \in Threads, NEW s \in UserSignals, Send(t, s) PROVE Accounted'
  BY <1>9 DEF Send, writer
<1>10. ASSUME NEW t \in Threads, NEW s \in UserSignals, TakeSignal(t, s) PROVE Accounted'
  BY <1>10 DEF TakeSignal, writer
<1>11. CASE RefuseSelf
  BY <1>11 DEF RefuseSelf, target
<1>12. CASE StopSent
  BY <1>12 DEF StopSent, target
<1>13. CASE StopFailed
  BY <1>13 DEF StopFailed, StopReturns, target
<1>14. CASE PollStopped
  BY <1>14 DEF PollStopped, StopReturns, target
<1>15. CASE PollError
  BY <1>15 DEF PollError, StopReturns, target
<1>16. CASE PollTimeout
  BY <1>16 DEF PollTimeout, StopReturns, target
<1>17. CASE EnumerateThreads
  BY <1>17 DEF EnumerateThreads, Listed, target
<1>18. CASE PageSizeOk
  BY <1>18 DEF PageSizeOk, target
<1>19. CASE HardError
  BY <1>19 DEF HardError, target
<1>20. ASSUME NEW t \in Threads, Attach(t) PROVE Accounted'
  BY <1>20 DEF Attach, target
<1>21. ASSUME NEW t \in Threads, AttachFails(t) PROVE Accounted'
  BY <1>21 DEF AttachFails, Reject, target
<1>22. CASE WaitStopped
  BY <1>22 DEF WaitStopped, target
<1>23. CASE WaitSignal
  BY <1>23 DEF WaitSignal, target
<1>24. CASE WaitError
  BY <1>24 DEF WaitError, target
<1>25. CASE WaitDead
  BY <1>25 DEF WaitDead, Reject, target
<1>26. CASE Cont
  BY <1>26 DEF Cont, target
<1>27. CASE ContFails
  BY <1>27 DEF ContFails, Reject, target
<1>28. CASE DetachAfterError
  BY <1>28 DEF DetachAfterError, ptrace_detach, Reject, target
<1>29. CASE KeepThread
  BY <1>29 DEF KeepThread, target
<1>30. CASE SkipThread
  BY <1>30 DEF SkipThread, ptrace_detach, Reject, target
<1>31. CASE SuspendDone
  BY <1>31 DEF SuspendDone, target
<1>32. CASE StartWriting
  BY <1>32 DEF StartWriting, target
<1>33. ASSUME NEW t \in Threads, ReadThread(t) PROVE Accounted'
  BY <1>33 DEF ReadThread, target
<1>34. CASE WriteDone
  BY <1>34 DEF WriteDone, target
<1>35. ASSUME NEW t \in Threads, ResumeThread(t) PROVE Accounted'
  BY <1>35 DEF ResumeThread, ptrace_detach, target
<1>36. CASE ResumeDone
  BY <1>36 DEF ResumeDone, target
<1>37. CASE ContinueProcess
  BY <1>37 DEF ContinueProcess, SigCont, target
<1>38. CASE UNCHANGED vars
  BY <1>38 DEF vars, target, writer
<1>39. QED
  BY Zenon, <1>1, <1>2, <1>3, <1>4, <1>5, <1>6, <1>7, <1>8, <1>9, <1>10, <1>11, <1>12, <1>13, <1>14,
     <1>15, <1>16, <1>17, <1>18, <1>19, <1>20, <1>21, <1>22, <1>23, <1>24, <1>25, <1>26, <1>27,
     <1>28, <1>29, <1>30, <1>31, <1>32, <1>33, <1>34, <1>35, <1>36, <1>37, <1>38
  DEF Next, Target, Writer

\* If stop_process succeeded, the thread list was read completely and nobody
\* else continues the target, then no thread runs while the dump is written and
\* none is missing from it without an error being recorded.
THEOREM SnapshotCorrect == Spec => []ConsistentSnapshot
<1>1. Init => Latched /\ Accounted
  BY DEF Init, Latched, Accounted
<1>2. IInv /\ Accounted => ConsistentSnapshot
  BY DEF IInv, TypeOK, Writing, Held, Accounted, ConsistentSnapshot, Alive
<1>3. QED
  BY <1>1, <1>2, NextLatched, NextAccounted, InvariantCorrect, PTL DEF Spec
=============================================================================
