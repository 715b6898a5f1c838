--------------------------- MODULE CriticalSection ---------------------------
(***************************************************************************)
(* portENTER_CRITICAL and portEXIT_CRITICAL of                             *)
(* compat/src/freertos_shim.c: a mutex that the first caller allocates,    *)
(* with nothing to order the first callers.  The unordered accesses to     *)
(* mux->mutex are a data race: a thread locks the mutex it saw or the one  *)
(* of a fresh read.  A pthread mutex of the default kind is unlocked by    *)
(* whoever unlocks it.  A failed malloc is left out.                       *)
(***************************************************************************)
EXTENDS FiniteSets

CONSTANTS Entrants,  \* the threads that enter and exit
          NoMutex

\* A thread allocates one mutex at most, so that its mutex has its name.
ASSUME CriticalAssumption == NoMutex \notin Entrants

VARIABLES mutex,   \* mux->mutex
          locked,  \* the mutexes that are locked
          pc,      \* the point of each thread in the calls
          seen,    \* of each thread: the mutex it has read, then the one it locks
          calm     \* history: the mutex has existed with no thread in a section

criticalVars == <<mutex, locked, pc, seen, calm>>

CriticalInit == /\ mutex = NoMutex /\ locked = {}
                /\ pc = [t \in Entrants |-> "out"] /\ seen = [t \in Entrants |-> NoMutex]
                /\ calm = FALSE

Goto(t, from, to) == pc[t] = from /\ pc' = [pc EXCEPT ![t] = to]

-----------------------------------------------------------------------------
\* A mutant of Check: a thread allocates a mutex whenever it has none of its own.
CheckOwn(t) == /\ Goto(t, "out", IF mutex # t THEN "create" ELSE "call")
               /\ seen' = [seen EXCEPT ![t] = mutex]
               /\ UNCHANGED <<mutex, locked, calm>>

\* if (!mux->mutex)
Check(t) == /\ Goto(t, "out", IF mutex = NoMutex THEN "create" ELSE "call")
            /\ seen' = [seen EXCEPT ![t] = mutex]
            /\ UNCHANGED <<mutex, locked, calm>>

Create(t) == /\ Goto(t, "create", "call")
             /\ mutex' = t
             /\ seen' = [seen EXCEPT ![t] = t]
             /\ UNCHANGED <<locked, calm>>

\* The argument of pthread_mutex_lock.
Call(t) == /\ Goto(t, "call", "wait")
           /\ \E m \in {seen[t], mutex} : seen' = [seen EXCEPT ![t] = m]
           /\ UNCHANGED <<mutex, locked, calm>>

Lock(t) == /\ seen[t] \notin locked
           /\ Goto(t, "wait", "in")
           /\ locked' = locked \cup {seen[t]}
           /\ UNCHANGED <<mutex, seen, calm>>

\* A mutant of Exit: the first mutex of the thread that exits is unlocked.
ExitOwn(t) == /\ Goto(t, "in", "out")
              /\ locked' = locked \ {t}
              /\ calm' = (calm \/ \A u \in Entrants \ {t} : pc[u] = "out")
              /\ UNCHANGED <<mutex, seen>>

\* Unlocks whatever mutex is there now, not the one that was locked.
Exit(t) == /\ Goto(t, "in", "out")
           /\ locked' = locked \ {mutex}
           /\ calm' = (calm \/ \A u \in Entrants \ {t} : pc[u] = "out")
           /\ UNCHANGED <<mutex, seen>>

Step(t) == Check(t) \/ Create(t) \/ Call(t) \/ Lock(t) \/ Exit(t)
CriticalNext == \E t \in Entrants : Step(t)

CriticalSpec == CriticalInit /\ [][CriticalNext]_criticalVars

-----------------------------------------------------------------------------
(* Properties *)

\* The types of the variables.
CriticalTypeOK == /\ mutex \in Entrants \cup {NoMutex} /\ locked \subseteq Entrants
                  /\ pc \in [Entrants -> {"out", "create", "call", "wait", "in"}]
                  /\ seen \in [Entrants -> Entrants \cup {NoMutex}] /\ calm \in BOOLEAN

Exclusive == \A t, u \in Entrants : pc[t] = "in" /\ pc[u] = "in" => t = u

\* Damage is confined to first entries that overlap: once the mutex has existed
\* with no thread between enter and exit, one thread at a time is in a section.
ExclusiveOnceCalm == calm => Exclusive

\* Nor does a thread then wait for a mutex nobody will unlock, as a third thread
\* may when the mutex it sleeps on is replaced: the one it waits for is the one
\* that the thread in the section unlocks.
HolderReleases ==
    calm => \A t \in Entrants : pc[t] = "wait" /\ seen[t] \in locked =>
                seen[t] = mutex /\ \E u \in Entrants : pc[u] = "in"
=============================================================================
