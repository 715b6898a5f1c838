\* Three threads: two that enter a critical section first, or set and take bits,
\* and one that comes or sleeps meanwhile; two bits tell "any" from "all".
CONSTANTS
    Threads = {t1, t2, t3}
    Bits = {b1, b2}
    Entrants = {t1, t2, t3}
    NoMutex = NoMutex
SPECIFICATION MCSpec
INVARIANTS NoMissedSet
           ExclusiveOnceCalm HolderReleases
           PatternShown RequestStands
