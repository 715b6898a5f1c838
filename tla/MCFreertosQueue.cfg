\* Three slots, so that several items can be stored before the consumer wakes
\* up: the queue wraps, fills and empties; the two items can be told apart.
CONSTANTS
    Threads = {t1, t2, t3}
    Items = {a, b}
    Capacity = 3
    NoItem = NoItem
    Free = Free
    Uses <- AllUses
SYMMETRY Symmetry
SPECIFICATION UseSpec
INVARIANT NoLostWakeupToConsumer
PROPERTY RefinesFifo
