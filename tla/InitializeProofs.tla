--------------------------- MODULE InitializeProofs ---------------------------
(* Proofs about Initialize, for any set of threads and any number of calls. *)
EXTENDS Initialize, TLAPS

-----------------------------------------------------------------------------
\* No thread is the free mutex.
LEMMA NotFree == \A t \in Threads : t # NoThread
  BY ThreadAssumption

\* The invariant holds before the first call.
LEMMA InitInvInit == Init => InitInv
  <1> SUFFICES ASSUME Init PROVE InitInv
    OBVIOUS
  <1> USE DEF Init
  <1>1. TypeOK
    BY CallsAssumption DEF TypeOK, Critical, Work
  <1>2. OneInside
    BY DEF OneInside, Critical, Work
  <1>3. Progress
    BY DEF Progress, Place, At, Untouched
  <1>4. InitializedOnce
    BY DEF InitializedOnce
  <1>5. HolderLetsGo
    BY DEF HolderLetsGo
  <1> QED
    BY <1>1, <1>2, <1>3, <1>4, <1>5 DEF InitInv

\* Every step keeps the types.
LEMMA TypeOKStep == TypeOK /\ [Next]_vars => TypeOK'
  <1> SUFFICES ASSUME TypeOK, [Next]_vars PROVE TypeOK'
    OBVIOUS
  <1>1. CASE UNCHANGED vars
    BY <1>1 DEF TypeOK, vars, library
  <1>2. CASE Next
    <2>1. PICK t \in Threads : Step(t)
      BY <1>2 DEF Next
    <2> USE DEF TypeOK, Critical, Work, Failure, At, GoTo, Return, library
    <2>2. CASE Call(t)
      BY <2>2, CallsAssumption DEF Call
    <2>3. CASE Lock(t)
      BY <2>3 DEF Lock
    <2>4. CASE Recheck(t)
      BY <2>4 DEF Recheck
    <2>5. CASE SetLogFilePath(t)
      BY <2>5 DEF SetLogFilePath
    <2>5a. CASE LogCrashes(t)
      BY <2>5a DEF LogCrashes
    <2>6. CASE LogFails(t)
      BY <2>6 DEF LogFails
    <2>7. CASE CurlGlobalInit(t)
      BY <2>7 DEF CurlGlobalInit
    <2>8. CASE Atexit(t) \/ AtexitFails(t)
      BY <2>8 DEF Atexit, AtexitFails
    <2>9. CASE Publish(t)
      BY <2>9 DEF Publish
    <2>10. CASE Unlock(t)
      BY <2>10 DEF Unlock
    <2>11. CASE Execute(t)
      BY <2>11 DEF Execute
    <2> QED
      BY <2>1, <2>2, <2>3, <2>4, <2>5, <2>5a, <2>6, <2>7, <2>8, <2>9, <2>10, <2>11 DEF Step
  <1> QED
    BY <1>1, <1>2

\* The holder is inside, where only Unlock leads out, or has left without it
\* before the flag was set.
LEMMA HolderLetsGoStep == InitInv /\ [Next]_vars => HolderLetsGo'
  <1> SUFFICES ASSUME InitInv, [Next]_vars PROVE HolderLetsGo'
    OBVIOUS
  <1>1. CASE UNCHANGED vars
    BY <1>1 DEF InitInv, HolderLetsGo, vars, library
  <1>2. CASE Next
    <2>1. PICK t \in Threads : Step(t)
      BY <1>2 DEF Next
    <2>2. /\ pc \in [Threads -> {"idle", "lock", "command", "dead"} \cup Critical]
          /\ mutex \in Threads \cup {NoThread} /\ t # NoThread
      BY NotFree DEF InitInv, TypeOK
    <2>3. CASE Call(t) \/ Execute(t)
      BY <2>2, <2>3 DEF InitInv, HolderLetsGo, Call, Execute, At, GoTo, Return, library
    <2>4. CASE Lock(t)
      BY <2>2, <2>4 DEF Lock, HolderLetsGo, GoTo
    <2>5. CASE Recheck(t) \/ Publish(t) \/ Unlock(t)
      BY <2>2, <2>5 DEF InitInv, OneInside, HolderLetsGo, Recheck, Publish, Unlock,
        At, GoTo, Critical, Work, library
    <2>6. CASE \/ SetLogFilePath(t) \/ LogCrashes(t) \/ LogFails(t)
               \/ CurlGlobalInit(t) \/ Atexit(t) \/ AtexitFails(t)
      <3>1. initialized = 0
        BY <2>6 DEF InitInv, Progress, Place, SetLogFilePath, LogCrashes, LogFails,
          CurlGlobalInit, Atexit, AtexitFails, At
      <3>2. initialized' = initialized
        BY <2>6 DEF SetLogFilePath, LogCrashes, LogFails, CurlGlobalInit, Atexit,
          AtexitFails, library
      <3> QED
        BY <3>1, <3>2 DEF HolderLetsGo
    <2> QED
      BY <2>1, <2>3, <2>4, <2>5, <2>6 DEF Step
  <1> QED
    BY <1>1, <1>2

\* Every step keeps the rest of the invariant.  The thread that moves is inside
\* or not; when it is, nobody else is, and the work is as far as its place says.
LEMMA InitInvStep == InitInv /\ [Next]_vars => InitInv'
  <1> SUFFICES ASSUME InitInv, [Next]_vars PROVE InitInv'
    OBVIOUS
  <1>0. TypeOK' /\ HolderLetsGo'
    BY TypeOKStep, HolderLetsGoStep DEF InitInv
  <1>1. CASE UNCHANGED vars
    BY <1>0, <1>1 DEF InitInv, OneInside, Progress, Place, At, Done, LogSettled, Untouched,
      InitializedOnce, vars, library
  <1>2. CASE Next
    <2>1. PICK t \in Threads : Step(t)
      BY <1>2 DEF Next
    <2>2. pc \in [Threads -> {"idle", "lock", "command", "dead"} \cup Critical]
      BY DEF InitInv, TypeOK
    <2>3. t # NoThread
      BY NotFree
    <2>4. /\ initialized \in {0, 1} /\ curl \in Nat /\ registered \in Nat
          /\ flag \in [Threads -> {"OK", "CURL"}]
      BY DEF InitInv, TypeOK
    <2> USE <2>2, <2>3, <2>4 DEF InitInv, OneInside, Progress, Place, At, GoTo, Return, Done,
      LogSettled, Untouched, InitializedOnce, Critical, Work, library
    <2>5. CASE Call(t)
      <3>1. pc'[t] = "command" => initialized = 1
        BY <2>5 DEF Call, Seen
      <3>2. pc'[t] \in {"command", "lock"} /\ \A u \in Threads \ {t} : pc'[u] = pc[u]
        BY <2>5 DEF Call
      <3>3. /\ initialized' = initialized /\ log' = log /\ logging' = logging /\ curl' = curl
            /\ registered' = registered /\ mutex' = mutex
            /\ flag'[t] = "OK" /\ \A u \in Threads \ {t} : flag'[u] = flag[u]
        BY <2>5 DEF Call
      <3>4. OneInside'
        BY <3>2, <3>3
      <3>5. Place(t)'
        BY <3>1, <3>2, <3>3
      <3>6. ASSUME NEW u \in Threads \ {t} PROVE Place(u)'
        BY <3>2, <3>3
      <3> QED
        BY <1>0, <3>3, <3>4, <3>5, <3>6
    <2>6. CASE Lock(t)
      <3>1. pc'[t] = "recheck" /\ \A u \in Threads \ {t} : pc'[u] = pc[u]
        BY <2>6 DEF Lock
      <3>2. /\ initialized' = initialized /\ log' = log /\ logging' = logging /\ curl' = curl
            /\ registered' = registered /\ mutex = NoThread /\ mutex' = t /\ flag' = flag
        BY <2>6 DEF Lock
      <3>3. OneInside'
        BY <3>1, <3>2, NotFree
      <3>4. Place(t)'
        BY <3>1, <3>2
      <3>5. ASSUME NEW u \in Threads \ {t} PROVE Place(u)'
        BY <3>1, <3>2
      <3> QED
        BY <1>0, <2>3, <3>2, <3>3, <3>4, <3>5
    <2>7. CASE Recheck(t)
      BY <1>0, <2>7 DEF Recheck
    <2>8. CASE SetLogFilePath(t)
      BY <1>0, <2>8 DEF SetLogFilePath
    <2>8a. CASE LogCrashes(t)
      BY <1>0, <2>8a DEF LogCrashes
    <2>9. CASE LogFails(t)
      BY <1>0, <2>9 DEF LogFails
    <2>10. CASE CurlGlobalInit(t)
      BY <1>0, <2>10 DEF CurlGlobalInit
    <2>11. CASE Atexit(t)
      BY <1>0, <2>11 DEF Atexit
    <2>12. CASE AtexitFails(t)
      BY <1>0, <2>12 DEF AtexitFails
    <2>13. CASE Publish(t)
      BY <1>0, <2>13 DEF Publish
    <2>14. CASE Unlock(t)
      <3>1. pc'[t] \in {"command", "idle"} /\ \A u \in Threads \ {t} : pc'[u] = pc[u]
        BY <2>14 DEF Unlock
      <3> QED
        BY <1>0, <2>14, <3>1 DEF Unlock
    <2>15. CASE Execute(t)
      BY <1>0, <2>15 DEF Execute
    <2> QED
      BY <2>1, <2>5, <2>6, <2>7, <2>8, <2>8a, <2>9, <2>10, <2>11, <2>12, <2>13, <2>14, <2>15 DEF Step
  <1> QED
    BY <1>1, <1>2

-----------------------------------------------------------------------------
\* The invariant of initialize() holds in every state.
THEOREM InitInvariant == Spec => []InitInv
  BY InitInvInit, InitInvStep, PTL DEF Spec

\* However many threads call utool_main, libcurl is initialised once.
THEOREM OnceForAll == Spec => []InitializedOnce
  <1>1. InitInv => InitializedOnce
    BY DEF InitInv
  <1> QED
    BY <1>1, InitInvariant, PTL

\* No thread runs a command before the initialisation has come to its end, with
\* libcurl or without.
THEOREM CommandsAlwaysComeLast == Spec => []CommandsComeLast
  <1>1. InitInv => CommandsComeLast
    BY DEF InitInv, Progress, Place, CommandsComeLast
  <1> QED
    BY <1>1, InitInvariant, PTL

\* In a process that is initialised the mutex is never kept: for any number of
\* threads and calls, its holder is on the way to pthread_mutex_unlock.
THEOREM HolderAlwaysLetsGo == Spec => []HolderLetsGo
  <1>1. InitInv => HolderLetsGo
    BY DEF InitInv
  <1> QED
    BY <1>1, InitInvariant, PTL

\* Every thread is at a statement of initialize(), and the mutex has one holder.
THEOREM InitializeTypeCorrect == Spec => []TypeOK
  <1>1. InitInv => TypeOK
    BY DEF InitInv
  <1> QED
    BY <1>1, InitInvariant, PTL
=============================================================================
