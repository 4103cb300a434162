------------------------------ MODULE Initialize ------------------------------
(***************************************************************************)
(* utool as a library: several threads of one process call utool_main      *)
(* (utool.c), and the first of them has to initialise the log file and     *)
(* libcurl for all.  initialize() looks at a flag without the mutex, takes *)
(* the mutex, looks again and does the work.  It has returns that keep the *)
(* mutex, so everybody who comes later may wait for ever.                  *)
(*                                                                         *)
(* The flag is a plain variable: nothing orders the look without the mutex *)
(* after the writes of the thread that set it.  Such a look may find the   *)
(* old value, or the new one when the rest of the work cannot be seen yet. *)
(***************************************************************************)
EXTENDS Naturals

CONSTANTS
  Threads,   \* the threads of the process
  Calls,     \* calls of utool_main each thread makes
  NoThread   \* the mutex is free

ASSUME CallsAssumption  == Calls \in Nat
ASSUME ThreadAssumption == NoThread \notin Threads

VARIABLES
  initialized,  \* the static flag
  mutex,        \* its holder
  log,          \* g_UtoolLogFileFP: "none", "open", or "closed" but not NULL
  logging,      \* log lines are written to it, and atexit closes it
  curl,         \* how often curl_global_init has been called
  works,        \* that call has succeeded
  registered,   \* how often curl_global_cleanup has been given to atexit
  sees,         \* threads for which all writes of the initialisation are visible
  pc,           \* where each thread is in initialize or utool_main
  flag,         \* the result of curl_global_init the thread has seen
  ret,          \* what the last call has returned
  calls         \* calls begun

library == <<initialized, log, logging, curl, works, registered>>
vars    == <<library, sees, mutex, pc, flag, ret, calls>>

-----------------------------------------------------------------------------
Failure == {"CREATE_LOG_FILE", "CURL", "INTERNAL"}

Work     == {"log", "curl", "atexit", "publish"}     \* initialising, with the mutex
Critical == {"recheck", "unlock"} \cup Work

TypeOK ==
  /\ initialized \in {0, 1}
  /\ mutex \in Threads \cup {NoThread}
  /\ log \in {"none", "open", "closed"} /\ logging \in {0, 1}
  /\ curl \in Nat /\ works \in {0, 1} /\ registered \in Nat
  /\ sees \subseteq Threads
  /\ pc \in [Threads -> {"idle", "lock", "command", "dead"} \cup Critical]
  /\ flag \in [Threads -> {"OK", "CURL"}]
  /\ ret \in [Threads -> {"none", "OK"} \cup Failure]
  /\ calls \in [Threads -> 0..Calls]

Init ==
  /\ initialized = 0 /\ mutex = NoThread
  /\ log = "none" /\ logging = 0 /\ curl = 0 /\ works = 0 /\ registered = 0
  /\ sees = {}
  /\ pc = [t \in Threads |-> "idle"]
  /\ flag = [t \in Threads |-> "OK"]
  /\ ret = [t \in Threads |-> "none"]
  /\ calls = [t \in Threads |-> 0]

At(t, here)    == pc[t] = here
GoTo(t, there) == pc' = [pc EXCEPT ![t] = there]

Return(t, value) ==
  /\ GoTo(t, "idle")
  /\ ret' = [ret EXCEPT ![t] = value]

-----------------------------------------------------------------------------
\* The value of the flag in a look without the mutex.  The threads that have
\* had the mutex since it was set find it set.
Seen(t) == {initialized} \cup IF t \in sees THEN {} ELSE {0}

\* Who finds the flag set, which is no sooner than it is, may or may not see the
\* writes that come before it in the program of the thread that set it.
Call(t) ==
  /\ At(t, "idle")
  /\ calls[t] < Calls
  /\ calls' = [calls EXCEPT ![t] = @ + 1]
  /\ ret' = [ret EXCEPT ![t] = "none"]
  /\ flag' = [flag EXCEPT ![t] = "OK"]
  /\ \E seen \in Seen(t) :
       \/ seen = 1 /\ GoTo(t, "command") /\ sees' \in {sees, sees \cup {t}}
       \/ seen = 0 /\ GoTo(t, "lock") /\ UNCHANGED sees
  /\ UNCHANGED <<library, mutex>>

Lock(t) ==
  /\ At(t, "lock")
  /\ mutex = NoThread
  /\ mutex' = t
  /\ GoTo(t, "recheck")
  /\ UNCHANGED <<library, sees, flag, ret, calls>>

\* What if: the flag were not looked at again.
RecheckNever(t) ==
  /\ At(t, "recheck")
  /\ GoTo(t, "log")
  /\ UNCHANGED <<library, sees, mutex, flag, ret, calls>>

\* What if: a thread that finds the flag set returned with the mutex.
RecheckReturning(t) ==
  /\ At(t, "recheck")
  /\ GoTo(t, IF initialized = 1 THEN "command" ELSE "log")
  /\ UNCHANGED <<library, sees, mutex, flag, ret, calls>>

\* What if: the flag were set before the work is done.
RecheckPublishing(t) ==
  /\ At(t, "recheck")
  /\ initialized' = 1
  /\ GoTo(t, IF initialized = 1 THEN "unlock" ELSE "log")
  /\ UNCHANGED <<log, logging, curl, works, registered, sees, mutex, flag, ret, calls>>

\* The mutex shows what was written before it was released.
Recheck(t) ==
  /\ At(t, "recheck")
  /\ \/ initialized = 1 /\ sees' = sees \cup {t} /\ GoTo(t, "unlock")
     \/ initialized = 0 /\ UNCHANGED sees /\ GoTo(t, "log")
  /\ UNCHANGED <<library, mutex, flag, ret, calls>>

\* What if: a rotation were no reason to return early, and the file not opened
\* again.
SetLogFilePathClosed(t) ==
  /\ At(t, "log") /\ log = "none"
  /\ log' \in {"open", "closed"} /\ logging' = 1
  /\ GoTo(t, "curl")
  /\ UNCHANGED <<initialized, curl, works, registered, sees, mutex, flag, ret, calls>>

\* UtoolSetLogFilePath.  A log file that has reached its size is closed and
\* renamed.  RotationLogFile takes the success of rename for a failure: 0 is
\* returned, the pointer dangles and no line goes to it.  When rename fails the
\* file is opened again, after the oldest files have been removed.
SetLogFilePath(t) ==
  /\ At(t, "log")
  /\ \/ log = "none" /\ log' = "open" /\ logging' = 1
     \/ log = "none" /\ log' = "closed" /\ logging' = 0
     \/ log # "none" /\ UNCHANGED <<log, logging>>
  /\ GoTo(t, "curl")
  /\ UNCHANGED <<initialized, curl, works, registered, sees, mutex, flag, ret, calls>>

\* That the file was opened again is not looked at.  The line which says so is
\* written through a null pointer and ends the process.
LogCrashes(t) ==
  /\ At(t, "log") /\ log = "none"
  /\ logging' = 1
  /\ pc' = [u \in Threads |-> "dead"]
  /\ UNCHANGED <<initialized, log, curl, works, registered, sees, mutex, flag, ret, calls>>

\* What if: the value of UtoolSetLogFilePath were returned as it is.
LogFailsAsItIs(t) ==
  /\ At(t, "log")
  /\ log = "none"
  /\ Return(t, "1")
  /\ UNCHANGED <<library, sees, mutex, flag, calls>>

\* The return keeps the mutex.
LogFails(t) ==
  /\ At(t, "log")
  /\ log = "none"
  /\ Return(t, "CREATE_LOG_FILE")
  /\ UNCHANGED <<library, sees, mutex, flag, calls>>

CurlGlobalInit(t) ==
  /\ At(t, "curl")
  /\ curl' = curl + 1
  /\ \/ works' = 1 /\ UNCHANGED flag
     \/ works' = 0 /\ flag' = [flag EXCEPT ![t] = "CURL"]
  /\ GoTo(t, "atexit")
  /\ UNCHANGED <<initialized, log, logging, registered, sees, mutex, ret, calls>>

Atexit(t) ==
  /\ At(t, "atexit")
  /\ registered' = registered + 1
  /\ GoTo(t, "publish")
  /\ UNCHANGED <<initialized, log, logging, curl, works, sees, mutex, flag, ret, calls>>

\* This return keeps the mutex, too.
AtexitFails(t) ==
  /\ At(t, "atexit")
  /\ Return(t, "INTERNAL")
  /\ UNCHANGED <<library, sees, mutex, flag, calls>>

\* The flag is set even when libcurl has failed.
Publish(t) ==
  /\ At(t, "publish")
  /\ initialized' = 1
  /\ sees' = sees \cup {t}
  /\ GoTo(t, "unlock")
  /\ UNCHANGED <<log, logging, curl, works, registered, mutex, flag, ret, calls>>

Unlock(t) ==
  /\ At(t, "unlock")
  /\ mutex' = NoThread
  /\ IF flag[t] = "OK" THEN GoTo(t, "command") /\ UNCHANGED ret ELSE Return(t, flag[t])
  /\ UNCHANGED <<library, sees, flag, calls>>

\* The command handler, which uses the log and libcurl.
Execute(t) ==
  /\ At(t, "command")
  /\ Return(t, "OK")
  /\ UNCHANGED <<library, sees, mutex, flag, calls>>

Step(t) ==
  \/ Call(t) \/ Lock(t) \/ Recheck(t)
  \/ SetLogFilePath(t) \/ LogCrashes(t) \/ LogFails(t) \/ CurlGlobalInit(t)
  \/ Atexit(t) \/ AtexitFails(t) \/ Publish(t)
  \/ Unlock(t) \/ Execute(t)

Next == \E t \in Threads : Step(t)

Fairness == \A t \in Threads : WF_vars(Step(t))

Spec == Init /\ [][Next]_vars /\ Fairness

-----------------------------------------------------------------------------
(* Properties. *)

\* The work is done by one thread at a time.
OneInside == \A t \in Threads : pc[t] \in Critical => mutex = t

\* However the threads interleave, and whatever fails, curl_global_init is
\* called once in a process, and curl_global_cleanup is registered once.
InitializedOnce == curl <= 1 /\ registered <= 1

\* Lines go to an open file, or nowhere: never through a pointer that dangles.
LogSettled ==
  \/ log = "open" /\ logging = 1
  \/ log = "closed" /\ logging = 0

\* The work is done, with or without success of libcurl.
Done == LogSettled /\ curl = 1 /\ registered = 1

\* No command begins before the log file is settled, whichever way its rotation
\* went, curl_global_init has been called, with or without success, and its
\* cleanup registered (utool.c:210, log.c:114); and the call that failed to
\* initialise libcurl runs no command (utool.c:265).  Whether the thread of the
\* command sees all of that, and whether libcurl works, are questions of their
\* own: see the end of the module.
CommandsComeLast ==
  \A t \in Threads : At(t, "command") => Done /\ flag[t] = "OK"

\* The inductive invariant: the place of a thread tells how far the work is.
Untouched == log = "none" /\ logging = 0 /\ curl = 0 /\ registered = 0

Place(t) ==
  /\ At(t, "recheck") => initialized = 1 \/ Untouched
  /\ At(t, "log") => initialized = 0 /\ Untouched
  /\ At(t, "curl") => initialized = 0 /\ LogSettled /\ curl = 0 /\ registered = 0
  /\ At(t, "atexit") => initialized = 0 /\ LogSettled /\ curl = 1 /\ registered = 0
  /\ At(t, "publish") => initialized = 0 /\ Done
  /\ At(t, "unlock") => initialized = 1
  /\ At(t, "command") => initialized = 1 /\ flag[t] = "OK"

Progress ==
  /\ initialized = 1 => Done
  /\ mutex = NoThread => initialized = 1 \/ Untouched
  /\ \A t \in Threads : Place(t)

\* Once the library is initialised, who holds the mutex is about to release it,
\* whatever its look at the flag told: only a call that gave the initialisation
\* up, or ended the process, keeps the others waiting for ever.
HolderLetsGo ==
  initialized = 1 /\ mutex # NoThread => pc[mutex] \in {"recheck", "unlock"}

InitInv == TypeOK /\ OneInside /\ Progress /\ InitializedOnce /\ HolderLetsGo

\* The work was left without unlocking.
Abandoned ==
  /\ initialized = 0
  /\ mutex # NoThread
  /\ pc[mutex] \notin Critical

\* All calls of all threads return, unless an initialisation was given up or has
\* ended the process.
CallsReturn ==
  <>(Abandoned \/ \A t \in Threads : At(t, "idle") /\ calls[t] = Calls)

\* "[x] multiple thread support: zf log file init, curl global init" (TODO.md:4):
\* a call may wait for ever for the mutex of one that has failed.
EveryCallReturns == \A t \in Threads : At(t, "lock") ~> At(t, "idle") \/ At(t, "dead")

\* What the code does not keep.  Whoever runs a command sees what was written by
\* the initialisation: not a thread that finds the flag set without the mutex
\* (utool.c:210).
CommandsSeeTheWork == \A t \in Threads : At(t, "command") => t \in sees

\* A command runs with libcurl initialised: after a failure only the first call
\* is told, the flag is set, and the next ones run (utool.c:255).
CommandsHaveCurl == \A t \in Threads : At(t, "command") => works = 1
=============================================================================
