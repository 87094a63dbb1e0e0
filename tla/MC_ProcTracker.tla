--------------------------- MODULE MC_ProcTracker ---------------------------
(***************************************************************************)
(* Small instances of the subprocess tracker, one for each program.        *)
(***************************************************************************)
EXTENDS ProcTracker

CONSTANTS t1, t2

VARIABLES program,
          disturbed,  \* history: a wait failed or was interrupted, or a call was for
                      \* a process that is not known to be a child
          awoken      \* history: calls that had a claim on a child that exited

\* Bound: processes that are started, and named in calls.
Processes(n) ==
    /\ \A h \in Handle : h > n => state'[h] = "none"
    /\ \A t \in Caller : want'[t] <= n

\* Two processes and threads that wait for them, once posix_spawn() told their ids.
Waits ==
    /\ Processes(2)
    /\ UNCHANGED interrupts
    /\ calls' # calls => \E t \in Caller : pc[t] = "idle" /\ pc'[t] = "check" /\ ~nohang'[t]
    /\ KnownIds'

\* Two processes, one call of any kind, and a signal.
Mixed == Processes(2) /\ calls' <= 1 /\ pc'[t2] = "idle"

\* One process, two calls of any kind, and a signal.  Callers are alike: t1 calls first.
Single == Processes(1) /\ (calls = 0 => pc'[t2] = "idle")

\* Three processes, more than the worker has slots, that nobody waits for.
Children == UNCHANGED calls

MCInit ==
    /\ Init
    /\ program \in {"waits", "mixed", "single", "children"}
    /\ program = "waits" => ~ignored
    /\ disturbed = ignored
    /\ awoken = {}

MCNext ==
    /\ Next
    /\ program = "waits" => Waits
    /\ program = "mixed" => Mixed
    /\ program = "single" => Single
    /\ program = "children" => Children
    /\ disturbed' = (disturbed \/ ~(Undisturbed /\ KnownIds)')
    /\ awoken' = {t \in {t1} : pc'[t] # "idle" /\ (t \in awoken \/ Awoken(t)')}
    /\ UNCHANGED program

MCSpec == MCInit /\ [][MCNext]_<<vars, program, disturbed, awoken>> /\ Fairness

----------------------------------------------------------------------------
\* The exit of a tracked child is noticed, by the worker or by a thread in
\* wait4(): it does not stay in the list of living processes.
ExitNoticed == \A h \in Handle : []<>(~Unnoticed(h) \/ disturbed)

\* wait4() on a child that has exited returns, also when another thread is given
\* the status, unless that had happened before the call could make its claim on the
\* child: then it may wait on a child it is not for.  Callers are alike, so that it
\* is enough to watch one of them.
WaitReturns ==
    Answered(t1) ~> \/ pc[t1] = "idle"
                    \/ Astray(t1) /\ t1 \notin awoken /\ reported[want[t1]] > 0
                    \/ disturbed

\* wait4() on one child targets that child: the process whose status a thread is
\* about to be given is the one it asked for.
ReportsWanted ==
    ~disturbed => \A t \in Caller :
        (pc[t] = "status" /\ status[pr[t]] = "ZOMBIE") => pid[pr[t]] = want[t]
=============================================================================
