--------------------------- MODULE ProcessControl ---------------------------
(***************************************************************************)
(* How the Linux writer freezes the process it dumps and lets it go again: *)
(* SIGSTOP to the whole process, PTRACE_ATTACH and waitpid for every       *)
(* thread, the dump, and the cleanup done by Drop (PTRACE_DETACH for every *)
(* thread the writer kept, then SIGCONT).                                  *)
(*                                                                         *)
(* Two parties interleave: the writer (pc) and the target, whose threads   *)
(* run, block, exit, are born, and receive signals while the writer works. *)
(* The target and the kernel are external code, modelled from the calls    *)
(* the writer makes to them (kill, ptrace, waitpid, /proc).                *)
(***************************************************************************)
EXTENDS FiniteSets

CONSTANTS
    Threads,    \* the thread ids the target may ever have
    Leader,     \* the thread group leader, whose tid is the process id
    Signals,    \* signals other threads send that nix::sys::signal::Signal names
    RtSignals,  \* real-time signals, which nix cannot name
    STOP,       \* SIGSTOP
    None        \* no thread, no signal

ASSUME LeaderAssumption == Leader \in Threads /\ None \notin Threads
ASSUME SignalAssumption ==
    /\ Signals \cap RtSignals = {}
    /\ STOP \notin Signals \cup RtSignals
    /\ None \notin Signals \cup RtSignals \cup {STOP}

UserSignals == Signals \cup RtSignals

VARIABLES
    tstate,     \* scheduling state of each thread
    attached,   \* the threads the writer is the ptrace tracer of
    stopsig,    \* the signal a thread in a ptrace-stop reports to its tracer
    pending,    \* signals queued for one thread
    sharedStop, \* a SIGSTOP is queued for the process as a whole
    groupStop,  \* a group stop is in effect: every thread stops when it can
    contd,      \* someone other than the writer sent the target a SIGCONT
    sent,       \* history: user signals sent to each thread
    delivered,  \* history: user signals each thread acted on
    pc,         \* where MinidumpWriterConfig::write is
    cur,        \* the thread suspend_thread is working on
    threads,    \* MinidumpWriter::threads
    todo,       \* threads the current loop has not visited
    dropped,    \* why `retain` removed a thread from `threads`
    suspended,  \* MinidumpWriter::threads_suspended
    stop,       \* outcome of stop_process
    enum,       \* outcome of enumerate_threads
    result      \* outcome of the dump

target == <<tstate, attached, stopsig, pending, sharedStop, groupStop, contd, sent, delivered>>
writer == <<pc, cur, threads, todo, dropped, suspended, stop, enum, result>>
vars == <<target, writer>>

ThreadStates == {"unborn", "running", "blocked", "stopped", "traced", "dead"}
Steps == {"start", "poll", "enumerate", "page_size", "suspend", "wait", "cont", "detach",
          "regs", "late", "write", "drop", "continue", "done"}

(***************************************************************************)
(* One type invariant.                                                     *)
(***************************************************************************)
TypeOK ==
    /\ tstate \in [Threads -> ThreadStates]
    /\ attached \in SUBSET Threads
    /\ stopsig \in [Threads -> UserSignals \cup {STOP, None}]
    /\ pending \in [Threads -> SUBSET (UserSignals \cup {STOP})]
    /\ sharedStop \in BOOLEAN /\ groupStop \in BOOLEAN /\ contd \in BOOLEAN
    /\ sent \in [Threads -> SUBSET UserSignals]
    /\ delivered \in [Threads -> SUBSET UserSignals]
    /\ pc \in Steps
    /\ cur \in Threads \cup {None}
    /\ threads \in SUBSET Threads
    /\ todo \in SUBSET Threads
    /\ dropped \in [Threads -> {"no", "attach", "wait", "skipped"}]
    /\ suspended \in BOOLEAN
    /\ stop \in {"none", "ok", "failed", "timeout"}
    /\ enum \in {"none", "ok", "partial"}
    /\ result \in {"none", "ok", "err"}

Alive(t) == tstate[t] \notin {"unborn", "dead"}
SomeAlive == \E t \in Threads : Alive(t)
\* A leader that exited before its siblings stays in /proc, and waitpid does
\* not report its death, until the last of them is gone.
ZombieLeader == tstate[Leader] = "dead" /\ SomeAlive

Init ==
    /\ groupStop \in BOOLEAN  \* the target may have been stopped all along
    /\ \E born \in SUBSET Threads :
          /\ Leader \in born
          /\ tstate = [t \in Threads |-> IF t \notin born THEN "unborn"
                                        ELSE IF groupStop THEN "stopped" ELSE "running"]
    /\ attached = {}
    /\ stopsig = [t \in Threads |-> None]
    /\ pending = [t \in Threads |-> {}]
    /\ sharedStop = FALSE /\ contd = FALSE
    /\ sent = [t \in Threads |-> {}]
    /\ delivered = [t \in Threads |-> {}]
    /\ pc = "start"
    /\ cur = None
    /\ threads = {} /\ todo = {}
    /\ dropped = [t \in Threads |-> "no"]
    /\ suspended = FALSE
    /\ stop = "none" /\ enum = "none" /\ result = "none"

-----------------------------------------------------------------------------
(***************************************************************************)
(* The target and the kernel.                                              *)
(***************************************************************************)

\* clone(2) fails with a restart while a group stop is pending.
Spawn(t) ==
    /\ tstate[t] = "unborn" /\ ~groupStop
    /\ \E u \in Threads : tstate[u] = "running"
    /\ tstate' = [tstate EXCEPT ![t] = "running"]
    /\ UNCHANGED <<attached, stopsig, pending, sharedStop, groupStop, contd, sent, delivered>>
    /\ UNCHANGED writer

Exit(t) ==
    /\ tstate[t] = "running"
    /\ tstate' = [tstate EXCEPT ![t] = "dead"]
    /\ attached' = attached \ {t}
    /\ UNCHANGED <<stopsig, pending, sharedStop, groupStop, contd, sent, delivered>>
    /\ UNCHANGED writer

\* SIGKILL to the process, exit_group, or a signal whose action is to terminate.
Kill ==
    /\ SomeAlive
    /\ tstate' = [t \in Threads |-> IF Alive(t) THEN "dead" ELSE tstate[t]]
    /\ attached' = {}
    /\ UNCHANGED <<stopsig, pending, sharedStop, groupStop, contd, sent, delivered>>
    /\ UNCHANGED writer

\* Uninterruptible sleep: signals wait until the thread leaves it.
Block(t) ==
    /\ tstate[t] = "running"
    /\ tstate' = [tstate EXCEPT ![t] = "blocked"]
    /\ UNCHANGED <<attached, stopsig, pending, sharedStop, groupStop, contd, sent, delivered>>
    /\ UNCHANGED writer

Unblock(t) ==
    /\ tstate[t] = "blocked"
    /\ tstate' = [tstate EXCEPT ![t] = "running"]
    /\ UNCHANGED <<attached, stopsig, pending, sharedStop, groupStop, contd, sent, delivered>>
    /\ UNCHANGED writer

\* Each signal is sent to each thread at most once: the bound on signals.
Send(t, s) ==
    /\ Alive(t) /\ s \notin sent[t]
    /\ sent' = [sent EXCEPT ![t] = @ \cup {s}]
    /\ pending' = [pending EXCEPT ![t] = @ \cup {s}]
    /\ UNCHANGED <<tstate, attached, stopsig, sharedStop, groupStop, contd, delivered>>
    /\ UNCHANGED writer

\* A thread joins the group stop in effect; a traced one traps to its tracer.
JoinStop(t) ==
    /\ tstate[t] = "running" /\ groupStop
    /\ IF t \in attached
       THEN /\ tstate' = [tstate EXCEPT ![t] = "traced"]
            /\ stopsig' = [stopsig EXCEPT ![t] = STOP]
       ELSE /\ tstate' = [tstate EXCEPT ![t] = "stopped"]
            /\ UNCHANGED stopsig
    /\ UNCHANGED <<attached, pending, sharedStop, groupStop, contd, sent, delivered>>
    /\ UNCHANGED writer

\* A thread dequeues a SIGSTOP, its own before the process's. A tracer sees it
\* first; otherwise it starts a group stop.
TakeStop(t) ==
    /\ tstate[t] = "running" /\ ~groupStop
    /\ STOP \in pending[t] \/ sharedStop
    /\ pending' = [pending EXCEPT ![t] = @ \ {STOP}]
    /\ sharedStop' = (sharedStop /\ STOP \in pending[t])
    /\ IF t \in attached
       THEN /\ tstate' = [tstate EXCEPT ![t] = "traced"]
            /\ stopsig' = [stopsig EXCEPT ![t] = STOP]
            /\ UNCHANGED groupStop
       ELSE /\ tstate' = [tstate EXCEPT ![t] = "stopped"]
            /\ groupStop' = TRUE
            /\ UNCHANGED stopsig
    /\ UNCHANGED <<attached, contd, sent, delivered>>
    /\ UNCHANGED writer

\* A thread dequeues another signal: its tracer sees it first.
TakeSignal(t, s) ==
    /\ tstate[t] = "running" /\ ~groupStop
    /\ s \in pending[t]
    /\ pending' = [pending EXCEPT ![t] = @ \ {s}]
    /\ IF t \in attached
       THEN /\ tstate' = [tstate EXCEPT ![t] = "traced"]
            /\ stopsig' = [stopsig EXCEPT ![t] = s]
            /\ UNCHANGED delivered
       ELSE /\ delivered' = [delivered EXCEPT ![t] = @ \cup {s}]
            /\ UNCHANGED <<tstate, stopsig>>
    /\ UNCHANGED <<attached, sharedStop, groupStop, contd, sent>>
    /\ UNCHANGED writer

\* What sending SIGCONT does: it discards every queued stop signal and ends
\* the group stop. A thread in a ptrace-stop stays there.
SigCont ==
    /\ tstate' = [t \in Threads |-> IF tstate[t] = "stopped" THEN "running" ELSE tstate[t]]
    /\ pending' = [t \in Threads |-> pending[t] \ {STOP}]
    /\ sharedStop' = FALSE
    /\ groupStop' = FALSE

\* Someone else (a shell, a supervisor) continues the target, once.
ForeignCont ==
    /\ ~contd
    /\ SigCont
    /\ contd' = TRUE
    /\ UNCHANGED <<attached, stopsig, sent, delivered>>
    /\ UNCHANGED writer

Target ==
    \/ Kill
    \/ ForeignCont
    \/ \E t \in Threads : \/ Spawn(t)
                          \/ Exit(t)
                          \/ Block(t)
                          \/ Unblock(t)
                          \/ JoinStop(t)
                          \/ TakeStop(t)
                          \/ \E s \in UserSignals : Send(t, s) \/ TakeSignal(t, s)

-----------------------------------------------------------------------------
(***************************************************************************)
(* init: stop_process, enumerate_threads, page size.                       *)
(***************************************************************************)

\* MinidumpWriter::init refuses to dump its own process; Drop still runs.
RefuseSelf ==
    /\ pc = "start"
    /\ result' = "err"
    /\ pc' = "drop"
    /\ UNCHANGED <<cur, threads, todo, dropped, suspended, stop, enum>>
    /\ UNCHANGED target

\* stop_process: kill(SIGSTOP) succeeded, the poll loop begins.
StopSent ==
    /\ pc = "start" /\ SomeAlive
    /\ sharedStop' = TRUE
    /\ pc' = "poll"
    /\ UNCHANGED <<tstate, attached, stopsig, pending, groupStop, contd, sent, delivered>>
    /\ UNCHANGED <<cur, threads, todo, dropped, suspended, stop, enum, result>>

\* stop_process returns, by any of its exits. Whatever the outcome, init goes on.
StopReturns(outcome) ==
    /\ stop' = outcome
    /\ pc' = "enumerate"
    /\ UNCHANGED <<cur, threads, todo, dropped, suspended, enum, result>>
    /\ UNCHANGED target

\* Mutant of PollStopped: stop_process does not look at the state it reads.
PollAnyState == pc = "poll" /\ StopReturns("ok")
StopFailed == pc = "start" /\ StopReturns("failed")
\* The poll loop reads the state of /proc/<pid>/stat, that is, the leader's.
PollStopped == pc = "poll" /\ tstate[Leader] = "stopped" /\ StopReturns("ok")
PollError == pc = "poll" /\ ~SomeAlive /\ StopReturns("failed")
PollTimeout == pc = "poll" /\ StopReturns("timeout")

\* enumerate_threads: the entries of /proc/<pid>/task that could be read.
Listed == {t \in Threads : Alive(t)} \cup (IF ZombieLeader THEN {Leader} ELSE {})
EnumerateThreads ==
    /\ pc = "enumerate"
    /\ threads' \in SUBSET Listed
    /\ enum' = IF threads' = Listed THEN "ok" ELSE "partial"
    /\ pc' = "page_size"
    /\ UNCHANGED <<cur, todo, dropped, suspended, stop, result>>
    /\ UNCHANGED target

PageSizeOk ==
    /\ pc = "page_size"
    /\ todo' = threads
    /\ pc' = "suspend"
    /\ UNCHANGED <<cur, threads, dropped, suspended, stop, enum, result>>
    /\ UNCHANGED target

\* sysconf failing, late_process_mappings failing on Android, a hard error of
\* write_dump or a panic below it: write returns and the writer is dropped.
HardError ==
    /\ pc \in {"page_size", "late", "write"}
    /\ result' = "err"
    /\ pc' = "drop"
    /\ todo' = threads
    /\ UNCHANGED <<cur, threads, dropped, suspended, stop, enum>>
    /\ UNCHANGED target

-----------------------------------------------------------------------------
(***************************************************************************)
(* suspend_threads: `retain` over suspend_thread.                          *)
(***************************************************************************)

\* PTRACE_ATTACH queues a SIGSTOP for the thread. A thread already in the
\* group stop becomes a ptrace-stop at once and its SIGSTOP stays queued.
Attach(t) ==
    /\ pc = "suspend" /\ t \in todo /\ Alive(t)
    /\ attached' = attached \cup {t}
    /\ pending' = [pending EXCEPT ![t] = @ \cup {STOP}]
    /\ IF tstate[t] = "stopped"
       THEN /\ tstate' = [tstate EXCEPT ![t] = "traced"]
            /\ stopsig' = [stopsig EXCEPT ![t] = STOP]
       ELSE UNCHANGED <<tstate, stopsig>>
    /\ cur' = t
    /\ pc' = "wait"
    /\ UNCHANGED <<sharedStop, groupStop, contd, sent, delivered>>
    /\ UNCHANGED <<threads, todo, dropped, suspended, stop, enum, result>>

\* Mutant of Reject: retain keeps the thread.
RejectKeeps(t, why) ==
    /\ todo' = todo \ {t}
    /\ dropped' = [dropped EXCEPT ![t] = why]
    /\ cur' = None
    /\ pc' = "suspend"
    /\ UNCHANGED <<threads, suspended, stop, enum, result>>

\* suspend_thread returned an error for t: retain removes it.
Reject(t, why) ==
    /\ threads' = threads \ {t}
    /\ todo' = todo \ {t}
    /\ dropped' = [dropped EXCEPT ![t] = why]
    /\ cur' = None
    /\ pc' = "suspend"
    /\ UNCHANGED <<suspended, stop, enum, result>>

\* The thread is gone, or attaching is not permitted.
AttachFails(t) ==
    /\ pc = "suspend" /\ t \in todo
    /\ Reject(t, "attach")
    /\ UNCHANGED target

\* waitpid reports SIGSTOP. (EINTR makes the loop try again: a stutter.)
WaitStopped ==
    /\ pc = "wait" /\ tstate[cur] = "traced" /\ stopsig[cur] = STOP
    /\ pc' = "regs"
    /\ UNCHANGED <<cur, threads, todo, dropped, suspended, stop, enum, result>>
    /\ UNCHANGED target

\* Mutant of WaitSignal: SIGSTOP is reinjected like any other signal.
WaitSignalAny ==
    /\ pc = "wait" /\ tstate[cur] = "traced" /\ stopsig[cur] # None
    /\ pc' = "cont"
    /\ UNCHANGED <<cur, threads, todo, dropped, suspended, stop, enum, result>>
    /\ UNCHANGED target

\* waitpid reports another signal, to be reinjected by PTRACE_CONT.
WaitSignal ==
    /\ pc = "wait" /\ tstate[cur] = "traced" /\ stopsig[cur] \in Signals
    /\ pc' = "cont"
    /\ UNCHANGED <<cur, threads, todo, dropped, suspended, stop, enum, result>>
    /\ UNCHANGED target

\* nix::waitpid answers EINVAL for a stop by a signal it has no name for: the
\* error arm of the loop, which detaches.
WaitError ==
    /\ pc = "wait" /\ tstate[cur] = "traced" /\ stopsig[cur] \in RtSignals
    /\ pc' = "detach"
    /\ UNCHANGED <<cur, threads, todo, dropped, suspended, stop, enum, result>>
    /\ UNCHANGED target

\* Mutant of WaitDead: the loop only ever returns for a stop.
WaitDeadAgain ==
    /\ pc = "wait" /\ tstate[cur] = "dead"
    /\ ~(cur = Leader /\ ZombieLeader)
    /\ UNCHANGED vars

\* waitpid reports something other than a stop: the thread has died.
WaitDead ==
    /\ pc = "wait" /\ tstate[cur] = "dead"
    /\ ~(cur = Leader /\ ZombieLeader)
    /\ Reject(cur, "wait")
    /\ UNCHANGED target

\* Mutant of Cont: ptrace::cont(pid, None), which swallows the signal.
ContWithoutSignal ==
    /\ pc = "cont" /\ tstate[cur] = "traced"
    /\ tstate' = [tstate EXCEPT ![cur] = "running"]
    /\ stopsig' = [stopsig EXCEPT ![cur] = None]
    /\ pc' = "wait"
    /\ UNCHANGED <<attached, pending, sharedStop, groupStop, contd, sent, delivered>>
    /\ UNCHANGED <<cur, threads, todo, dropped, suspended, stop, enum, result>>

\* ptrace::cont(pid, status): the thread goes on and acts on the signal.
Cont ==
    /\ pc = "cont" /\ tstate[cur] = "traced"
    /\ tstate' = [tstate EXCEPT ![cur] = "running"]
    /\ delivered' = [delivered EXCEPT ![cur] = @ \cup {stopsig[cur]}]
    /\ stopsig' = [stopsig EXCEPT ![cur] = None]
    /\ pc' = "wait"
    /\ UNCHANGED <<attached, pending, sharedStop, groupStop, contd, sent>>
    /\ UNCHANGED <<cur, threads, todo, dropped, suspended, stop, enum, result>>

ContFails ==
    /\ pc = "cont" /\ tstate[cur] = "dead"
    /\ Reject(cur, "wait")
    /\ UNCHANGED target

\* ptrace_detach: PTRACE_DETACH with signal 0, so the signal the thread was
\* stopped by is discarded. It goes back into a group stop that is in effect.
\* A thread that no longer exists (ESRCH) is not an error.
ptrace_detach(t) ==
    /\ attached' = attached \ {t}
    /\ IF t \in attached /\ tstate[t] = "traced"
       THEN /\ tstate' = [tstate EXCEPT ![t] = IF groupStop THEN "stopped" ELSE "running"]
            /\ stopsig' = [stopsig EXCEPT ![t] = None]
       ELSE UNCHANGED <<tstate, stopsig>>
    /\ UNCHANGED <<pending, sharedStop, groupStop, contd, sent, delivered>>

DetachAfterError ==
    /\ pc = "detach"
    /\ ptrace_detach(cur)
    /\ Reject(cur, "wait")

\* getregs worked and the stack pointer is not NULL: retain keeps the thread.
KeepThread ==
    /\ pc = "regs" /\ tstate[cur] = "traced"
    /\ todo' = todo \ {cur}
    /\ cur' = None
    /\ pc' = "suspend"
    /\ UNCHANGED <<threads, dropped, suspended, stop, enum, result>>
    /\ UNCHANGED target

\* Mutant of SkipThread: the thread is removed without detaching from it.
SkipThreadAttached ==
    /\ pc = "regs"
    /\ Reject(cur, "skipped")
    /\ UNCHANGED target

\* getregs failed or the stack pointer is NULL (seccomp's trusted code).
SkipThread ==
    /\ pc = "regs"
    /\ ptrace_detach(cur)
    /\ Reject(cur, "skipped")

SuspendDone ==
    /\ pc = "suspend" /\ todo = {}
    /\ suspended' = TRUE
    /\ pc' = "late"
    /\ UNCHANGED <<cur, threads, todo, dropped, stop, enum, result>>
    /\ UNCHANGED target

-----------------------------------------------------------------------------
(***************************************************************************)
(* write_dump, as far as it depends on the target, and Drop.               *)
(***************************************************************************)

StartWriting ==
    /\ pc = "late"
    /\ todo' = threads
    /\ pc' = "write"
    /\ UNCHANGED <<cur, threads, dropped, suspended, stop, enum, result>>
    /\ UNCHANGED target

\* One turn of write_thread_list_stream: registers and stack of a thread. If
\* the thread has been killed meanwhile the turn fails: HardError.
ReadThread(t) ==
    /\ pc = "write" /\ t \in todo /\ Alive(t)
    /\ todo' = todo \ {t}
    /\ UNCHANGED <<pc, cur, threads, dropped, suspended, stop, enum, result>>
    /\ UNCHANGED target

WriteDone ==
    /\ pc = "write" /\ todo = {}
    /\ result' = "ok"
    /\ pc' = "drop"
    /\ todo' = threads
    /\ UNCHANGED <<cur, threads, dropped, suspended, stop, enum>>
    /\ UNCHANGED target

\* resume_threads detaches from the threads one by one.
ResumeThread(t) ==
    /\ pc = "drop" /\ suspended /\ t \in todo
    /\ ptrace_detach(t)
    /\ todo' = todo \ {t}
    /\ UNCHANGED <<pc, cur, threads, dropped, suspended, stop, enum, result>>

ResumeDone ==
    /\ pc = "drop" /\ (suspended => todo = {})
    /\ suspended' = FALSE
    /\ pc' = "continue"
    /\ UNCHANGED <<cur, threads, todo, dropped, stop, enum, result>>
    /\ UNCHANGED target

\* Mutant of ContinueProcess: SIGCONT only if stop_process reported success.
ContinueProcessIfStopped ==
    /\ pc = "continue"
    /\ IF stop = "ok" THEN SigCont ELSE UNCHANGED <<tstate, pending, sharedStop, groupStop>>
    /\ pc' = "done"
    /\ UNCHANGED <<attached, stopsig, contd, sent, delivered>>
    /\ UNCHANGED <<cur, threads, todo, dropped, suspended, stop, enum, result>>

\* continue_process: SIGCONT, an ignored error when the process is gone.
ContinueProcess ==
    /\ pc = "continue"
    /\ SigCont
    /\ pc' = "done"
    /\ UNCHANGED <<attached, stopsig, contd, sent, delivered>>
    /\ UNCHANGED <<cur, threads, todo, dropped, suspended, stop, enum, result>>

Writer ==
    \/ RefuseSelf \/ StopSent \/ StopFailed \/ PollStopped \/ PollError \/ PollTimeout
    \/ EnumerateThreads \/ PageSizeOk \/ HardError
    \/ \E t \in Threads : Attach(t) \/ AttachFails(t)
    \/ WaitStopped \/ WaitSignal \/ WaitError \/ WaitDead \/ Cont \/ ContFails
    \/ DetachAfterError \/ KeepThread \/ SkipThread \/ SuspendDone
    \/ StartWriting \/ (\E t \in Threads : ReadThread(t)) \/ WriteDone
    \/ (\E t \in Threads : ResumeThread(t)) \/ ResumeDone \/ ContinueProcess

Next == Target \/ Writer
Spec == Init /\ [][Next]_vars

(***************************************************************************)
(* Fairness. The writer keeps executing. A thread that can run reaches its *)
(* next signal check (SF: it may sleep uninterruptibly in between, any     *)
(* number of times), and an uninterruptible sleep ends (SleepEnds), which  *)
(* the kernel intends and does not guarantee.                              *)
(***************************************************************************)
Scheduling ==
    /\ WF_vars(Writer)
    /\ \A t \in Threads : SF_vars(JoinStop(t)) /\ SF_vars(TakeStop(t))
SleepEnds == \A t \in Threads : WF_vars(Unblock(t))
FairSpec == Spec /\ Scheduling /\ SleepEnds

-----------------------------------------------------------------------------
(***************************************************************************)
(* Properties                                                              *)
(***************************************************************************)

\* While the dump is written, every thread in MinidumpWriter::threads is held
\* in a ptrace-stop or has been killed: write_thread_list_stream never reads
\* registers or a stack that are changing.
SuspendedWhileWriting ==
    pc = "write" => \A t \in threads : tstate[t] = "dead" \/ (t \in attached /\ tstate[t] = "traced")

\* What stop_process is for ("so that we can get a consistent state"): once it
\* has seen the leader stopped and /proc/<pid>/task was read completely, and
\* as long as nobody else continues the target, no thread runs while the dump
\* is written and none is missing from it without an error being recorded.
\* Threads the writer may not attach to are recorded and may still run.
ConsistentSnapshot ==
    pc = "write" /\ stop = "ok" /\ enum = "ok" /\ ~contd =>
        \A t \in Threads :
            Alive(t) /\ dropped[t] # "attach" =>
                /\ t \in threads \/ dropped[t] # "no"
                /\ tstate[t] \in {"stopped", "traced"}

\* The writer never forgets a thread it traces: whatever it is attached to is
\* either still in `threads`, where Drop will find it, or the one thread
\* suspend_thread is working on.
TracedIsKnown ==
    \A t \in attached : Alive(t) => t \in threads /\ (t \in todo => pc \in {"write", "drop"} \/ t = cur)

\* Drop: "Always try to resume all threads (e.g. in case of error)" and
\* "Always allow the process to continue". However the dump ended, no thread
\* is left traced or stopped, and no stop signal is left that would stop one
\* later.
LeftRunning ==
    pc = "done" =>
        /\ attached = {} /\ ~groupStop /\ ~sharedStop
        /\ \A t \in Threads : tstate[t] \notin {"stopped", "traced"} /\ STOP \notin pending[t]

\* suspend_thread: "Signals other than SIGSTOP that are received need to be
\* reinjected, or they will otherwise get lost." Every signal sent to a live
\* thread is queued, held in its ptrace-stop, or was acted on.
NoSignalLost ==
    \A t \in Threads :
        Alive(t) => sent[t] \subseteq pending[t] \cup {stopsig[t]} \cup delivered[t]

\* The same for the signals that nix can name: not one of them is lost, whatever
\* real-time signals arrive beside it.
NamedSignalsKept ==
    \A t \in Threads :
        Alive(t) => sent[t] \ RtSignals \subseteq pending[t] \cup {stopsig[t]} \cup delivered[t]

\* The call returns: under fair scheduling the writer reaches the end of Drop.
\* waitpid has no timeout, so there are exactly two exceptions, both of a
\* target that was not stopped when it was attached to: a leader that exits
\* while its siblings live on, and a SIGCONT from elsewhere that discards the
\* SIGSTOP of PTRACE_ATTACH before the thread has taken it.
StopIsGone == contd /\ STOP \notin pending[cur] /\ tstate[cur] \in {"running", "blocked"}
DumpEnds ==
    \/ <>(pc = "done")
    \/ <>[](pc = "wait" /\ ((cur = Leader /\ ZombieLeader) \/ StopIsGone))
=============================================================================
