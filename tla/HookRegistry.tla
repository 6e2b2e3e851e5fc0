---------------------------- MODULE HookRegistry ----------------------------
(***************************************************************************)
(* The bundled hook sets: hook.Hooks, whose callbacks are registered       *)
(* before the pool is used, and dynamic.Hooks, whose callbacks may be      *)
(* registered while events are dispatched.  Registrations take a mutex;    *)
(* a dispatch takes none and walks the callbacks it found when it began.   *)
(***************************************************************************)
EXTENDS Integers, Sequences, Functions

CONSTANTS
    Event,          \* kinds of event: Submitted, Enqueued, ...
    Registrar,      \* goroutines that register one callback each
    Dispatcher,     \* goroutines that dispatch one event each
    Subscribes      \* the event of each registrar's callback

ASSUME RegistryAssumption == Subscribes \in [Registrar -> Event]

VARIABLES
    dynamic,            \* which of the two hook sets this is
    registry,           \* the published callbacks of every event
    mu,                 \* the registrars that hold the mutex
    apc, current,       \* where each Add is, and the snapshot it has read
    dpc, event, todo,   \* where each dispatch is, its event, callbacks left
    ran,                \* the callbacks it has run
    before, begun       \* the Adds that had returned, or begun, as it began

registryVars == <<dynamic, registry, mu, apc, current, dpc, event, todo, ran, before, begun>>

addVars      == <<apc, current, mu>>
dispatchVars == <<dpc, event, todo, ran, before, begun>>

RegistryInit ==
    /\ dynamic \in BOOLEAN
    /\ registry = [e \in Event |-> <<>>]
    /\ mu = {}
    /\ apc = [r \in Registrar |-> "ready"]
    /\ current = [r \in Registrar |-> registry]
    /\ dpc = [d \in Dispatcher |-> "ready"]
    /\ event \in [Dispatcher -> Event]
    /\ todo = [d \in Dispatcher |-> <<>>] /\ ran = [d \in Dispatcher |-> <<>>]
    /\ before = [d \in Dispatcher |-> {}] /\ begun = [d \in Dispatcher |-> {}]

-----------------------------------------------------------------------------
\* The static set is complete before the pool dispatches anything.
MayRegister == dynamic \/ \A d \in Dispatcher : dpc[d] = "ready"

MayDispatch == dynamic \/ \A r \in Registrar : apc[r] \in {"ready", "returned"}

\* Mutant: registrations do not exclude each other.
FreeToAddAlways == TRUE

\* mu.Lock lets a registrar in.
FreeToAdd == mu = {}

AddLock(r) ==
    /\ apc[r] = "ready"
    /\ MayRegister /\ FreeToAdd
    /\ mu' = mu \cup {r}
    /\ apc' = [apc EXCEPT ![r] = "locked"]
    /\ UNCHANGED <<dynamic, registry, current, dispatchVars>>

\* The snapshot that the registrar will extend.
AddRead(r) ==
    /\ apc[r] = "locked"
    /\ current' = [current EXCEPT ![r] = registry]
    /\ apc' = [apc EXCEPT ![r] = "read"]
    /\ UNCHANGED <<dynamic, registry, mu, dispatchVars>>

\* The dynamic set publishes a new snapshot of every event; the static one
\* assigns the slice of its event.
AddStore(r) ==
    /\ apc[r] = "read"
    /\ LET extended == Append(current[r][Subscribes[r]], r)
           base     == IF dynamic THEN current[r] ELSE registry
       IN  registry' = [base EXCEPT ![Subscribes[r]] = extended]
    /\ apc' = [apc EXCEPT ![r] = "stored"]
    /\ UNCHANGED <<dynamic, mu, current, dispatchVars>>

AddUnlock(r) ==
    /\ apc[r] = "stored"
    /\ mu' = mu \ {r}
    /\ apc' = [apc EXCEPT ![r] = "returned"]
    /\ UNCHANGED <<dynamic, registry, current, dispatchVars>>

-----------------------------------------------------------------------------
Subscribers(e, pcs) == {r \in Registrar : Subscribes[r] = e /\ apc[r] \in pcs}

DispatchBegin(d) ==
    /\ dpc[d] = "ready"
    /\ MayDispatch
    /\ todo' = [todo EXCEPT ![d] = registry[event[d]]]
    /\ before' = [before EXCEPT ![d] = Subscribers(event[d], {"returned"})]
    /\ begun' = [begun EXCEPT ![d] =
                    Subscribers(event[d], {"locked", "read", "stored", "returned"})]
    /\ dpc' = [dpc EXCEPT ![d] = "running"]
    /\ UNCHANGED <<dynamic, registry, addVars, event, ran>>

\* Mutant: a panic ends the dispatch.
RestAfterPanicNone(rest) == <<>>

\* invoke recovers, and the loop goes on.
RestAfterPanic(rest) == rest

\* The next callback runs, and returns or panics.
Invoke(d) ==
    /\ dpc[d] = "running"
    /\ todo[d] # <<>>
    /\ ran' = [ran EXCEPT ![d] = Append(@, Head(todo[d]))]
    /\ \E panics \in BOOLEAN :
          todo' = [todo EXCEPT ![d] = IF panics THEN RestAfterPanic(Tail(@)) ELSE Tail(@)]
    /\ UNCHANGED <<dynamic, registry, addVars, dpc, event, before, begun>>

DispatchEnd(d) ==
    /\ dpc[d] = "running"
    /\ todo[d] = <<>>
    /\ dpc' = [dpc EXCEPT ![d] = "returned"]
    /\ UNCHANGED <<dynamic, registry, addVars, event, todo, ran, before, begun>>

RegistryNext ==
    \/ \E r \in Registrar : AddLock(r) \/ AddRead(r) \/ AddStore(r) \/ AddUnlock(r)
    \/ \E d \in Dispatcher : DispatchBegin(d) \/ Invoke(d) \/ DispatchEnd(d)

RegistrySpec == RegistryInit /\ [][RegistryNext]_registryVars

-----------------------------------------------------------------------------
\* "Each Dispatch method reads one immutable callback snapshot" (hook/dynamic/
\* dynamic.go:4) and a panicking callback "does not affect the remaining
\* callbacks" (hook/hook.go:12): a dispatch that has returned ran once each, in
\* the order of registration, all callbacks whose Add had returned before it
\* began, and none whose Add began later, whatever registered meanwhile.
DispatchRunsItsSnapshot ==
    \A d \in Dispatcher : dpc[d] = "returned" =>
        /\ before[d] \subseteq Range(ran[d])
        /\ Range(ran[d]) \subseteq begun[d]
        /\ \E n \in 0 .. Len(registry[event[d]]) : ran[d] = SubSeq(registry[event[d]], 1, n)
        /\ \A i, j \in 1 .. Len(ran[d]) : ran[d][i] = ran[d][j] => i = j
=============================================================================
