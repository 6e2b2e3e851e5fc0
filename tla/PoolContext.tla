---------------------------- MODULE PoolContext ----------------------------
(***************************************************************************)
(* internal/context: a context with mutable labels that is recycled        *)
(* through a sync.Pool.  Every access to the labels is one critical        *)
(* section of the context's mutex, except TraceID, which has two.          *)
(***************************************************************************)
EXTENDS Integers, FiniteSets

CONSTANTS
    Ctx,        \* the Context objects
    NoValue     \* the value of a label that is not set

VARIABLES
    labels,     \* the labels of every Context
    leased      \* the Contexts between NewContext and Release

contextVars == <<labels, leased>>

\* The stages a timing hook records.
Stage == {"submitted", "enqueued", "started", "completed"}

Label == Stage \cup {"timing", "trace_id"}

Blank == [l \in Label |-> NoValue]

ContextInit == labels = [c \in Ctx |-> Blank] /\ leased = {}

\* A new Context, or one from the sync.Pool with the labels it has there; and
\* the program stores some labels of its own into it.
NewContext(c, own) ==
    /\ c \notin leased
    /\ leased' = leased \cup {c}
    /\ labels' = [labels EXCEPT ![c] =
                     [l \in Label |-> IF l \in DOMAIN own THEN own[l] ELSE @[l]]]

\* Mutant: the timing switch survives.
ResetButTiming(old) == [Blank EXCEPT !["timing"] = old["timing"]]

\* Reset deletes every label.
Reset(old) == Blank

Release(c) ==
    /\ labels' = [labels EXCEPT ![c] = Reset(@)]
    /\ leased' = leased \ {c}

Store(c, label, value) == [labels EXCEPT ![c][label] = value]

IsTimingEnabled(c) == labels[c]["timing"] # NoValue

\* Mutant: the generated id replaces what another goroutine has stored.
StoredIDBlind(c, id) == id

\* The second critical section of TraceID: an id that appeared while this
\* goroutine was generating its own wins.
StoredID(c, id) == IF labels[c]["trace_id"] = NoValue THEN id ELSE labels[c]["trace_id"]

-----------------------------------------------------------------------------
\* Mutant: the two stages are swapped.
BetweenBackwards(c, from, to) ==
    IF NoValue \in {labels[c][from], labels[c][to]}
    THEN 0
    ELSE labels[c][from].at - labels[c][to].at

\* A latency between two recorded stages, or 0 if one is missing.
Between(c, from, to) ==
    IF NoValue \in {labels[c][from], labels[c][to]}
    THEN 0
    ELSE labels[c][to].at - labels[c][from].at

TotalLatency(c)   == Between(c, "submitted", "completed")
QueueLatency(c)   == Between(c, "submitted", "started")
ExecLatency(c)    == Between(c, "started", "completed")
HandoffLatency(c) == Between(c, "submitted", "enqueued")
=============================================================================
