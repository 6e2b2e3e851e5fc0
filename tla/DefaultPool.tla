---------------------------- MODULE DefaultPool ----------------------------
(***************************************************************************)
(* The default pool: NewPool publishes its pool in a global pointer, Close *)
(* withdraws it after the closed flag is set, and GetDefaultPool loads the *)
(* pointer and then the flag.  Several pools live in one program.          *)
(***************************************************************************)
CONSTANTS
    Pool,       \* the pools the program creates
    Getter,     \* the goroutines that call GetDefaultPool
    NoPool      \* the nil pointer

ASSUME DefaultPoolAssumption == NoPool \notin Pool

VARIABLES
    defaultPool,    \* the global pointer
    newest,         \* the pool published last
    life,           \* how far each pool is from creation to the end of Close
    gpc, got,       \* where each getter is, and the pointer it holds
    gone            \* the pools whose flag was set when the call began

defaultVars == <<defaultPool, newest, life, gpc, got, gone>>

DefaultInit ==
    /\ defaultPool = NoPool /\ newest = NoPool
    /\ life = [p \in Pool |-> "none"]
    /\ gpc = [g \in Getter |-> "ready"]
    /\ got = [g \in Getter |-> NoPool]
    /\ gone = [g \in Getter |-> {}]

\* The closed flag of a pool.
IsClosed(p) == life[p] \in {"closing", "withdrawn"}

\* The last statement of NewPool.
NewPool(p) ==
    /\ life[p] = "none"
    /\ life' = [life EXCEPT ![p] = "open"]
    /\ defaultPool' = p /\ newest' = p
    /\ UNCHANGED <<gpc, got, gone>>

\* The call of Close that wins the compare-and-swap of the flag.
SetClosed(p) ==
    /\ life[p] = "open"
    /\ life' = [life EXCEPT ![p] = "closing"]
    /\ UNCHANGED <<defaultPool, newest, gpc, got, gone>>

\* Mutant: the pointer is cleared whichever pool it holds.
WithoutAny(p) == NoPool

\* defaultPool.CompareAndSwap(p, nil)
Without(p) == IF defaultPool = p THEN NoPool ELSE defaultPool

Withdraw(p) ==
    /\ life[p] = "closing"
    /\ life' = [life EXCEPT ![p] = "withdrawn"]
    /\ defaultPool' = Without(p)
    /\ UNCHANGED <<newest, gpc, got, gone>>

\* Mutant: the answer is the pointer, as loaded.
AnswerUnchecked(p) == p

\* The answer of GetDefaultPool once it has looked at the flag.
Answer(p) == IF p # NoPool /\ IsClosed(p) THEN NoPool ELSE p

LoadDefault(g) ==
    /\ gpc[g] = "ready"
    /\ got' = [got EXCEPT ![g] = defaultPool]
    /\ gone' = [gone EXCEPT ![g] = {p \in Pool : IsClosed(p)}]
    /\ gpc' = [gpc EXCEPT ![g] = "loaded"]
    /\ UNCHANGED <<defaultPool, newest, life>>

LoadFlag(g) ==
    /\ gpc[g] = "loaded"
    /\ got' = [got EXCEPT ![g] = Answer(got[g])]
    /\ gpc' = [gpc EXCEPT ![g] = "answered"]
    /\ UNCHANGED <<defaultPool, newest, life, gone>>

\* The getter uses its answer as long as it likes, and may ask again.
AskAgain(g) ==
    /\ gpc[g] = "answered"
    /\ gpc' = [gpc EXCEPT ![g] = "ready"]
    /\ got' = [got EXCEPT ![g] = NoPool] /\ gone' = [gone EXCEPT ![g] = {}]
    /\ UNCHANGED <<defaultPool, newest, life>>

DefaultNext ==
    \/ \E p \in Pool : NewPool(p) \/ SetClosed(p) \/ Withdraw(p)
    \/ \E g \in Getter : LoadDefault(g) \/ LoadFlag(g) \/ AskAgain(g)

DefaultSpec == DefaultInit /\ [][DefaultNext]_defaultVars

-----------------------------------------------------------------------------
\* "GetDefaultPool returns the most recently created Pool, or nil if [...] the
\* pool has been closed" (pool.go:80).  A pool that was closed before the call
\* began is never the answer, even while its Close has not withdrawn it yet;
\* and the newest pool remains the default as long as it is open, whichever
\* older pools are closed in the meantime.
DefaultPoolIsCurrent ==
    /\ \A g \in Getter : gpc[g] = "answered" => got[g] \notin gone[g]
    /\ newest # NoPool /\ life[newest] = "open" => defaultPool = newest
=============================================================================
