--------------------------- MODULE ShutdownProofs ---------------------------
(***************************************************************************)
(* The hook registry for any number of registrars and dispatches, Wait and *)
(* Close for any number of tasks, waiters and closers, and the default     *)
(* pool for any number of pools and getters.                               *)
(***************************************************************************)
EXTENDS Shutdown, DefaultPool, HookRegistry, FiniteSetTheorems, TLAPS

-----------------------------------------------------------------------------
(***************************************************************************)
(* The hook registry: registrations copy and store under the mutex,        *)
(* dispatches run what they have loaded.                                   *)
(***************************************************************************)
\* Where AddHook is between Lock and Unlock.
Locking == {"locked", "read", "stored"}

\* The types of the registry's state.
RegistryTypeOK ==
    /\ dynamic \in BOOLEAN
    /\ registry \in [Event -> Seq(Registrar)]
    /\ mu \subseteq Registrar
    /\ apc \in [Registrar -> {"ready", "returned"} \cup Locking]
    /\ current \in [Registrar -> [Event -> Seq(Registrar)]]
    /\ dpc \in [Dispatcher -> {"ready", "running", "returned"}]
    /\ event \in [Dispatcher -> Event]
    /\ todo \in [Dispatcher -> Seq(Registrar)] /\ ran \in [Dispatcher -> Seq(Registrar)]
    /\ before \in [Dispatcher -> SUBSET Registrar]
    /\ begun \in [Dispatcher -> SUBSET Registrar]

\* One registrar at a time is between Lock and Unlock, and what it has read
\* stays current until it stores.
OneAdd ==
    /\ \A r \in Registrar : r \in mu <=> apc[r] \in Locking
    /\ \A r, q \in mu : r = q
    /\ \A r \in Registrar : apc[r] = "read" => current[r] = registry

\* Every callback that was stored is published once, under its event.
Published(e) ==
    /\ \A r \in Registrar : (\E i \in 1 .. Len(registry[e]) : registry[e][i] = r) <=>
          Subscribes[r] = e /\ apc[r] \in {"stored", "returned"}
    /\ \A i, j \in 1 .. Len(registry[e]) : registry[e][i] = registry[e][j] => i = j

\* A dispatch that has run the callbacks done and has rest to run, when all is
\* published now: it goes through the beginning of all, in order, and the
\* beginning holds the callbacks bf and none but the callbacks bg.
Follows(all, done, rest, bf, bg) ==
    /\ Len(done) + Len(rest) <= Len(all)
    /\ \A i \in 1 .. Len(done) : done[i] = all[i]
    /\ \A i \in 1 .. Len(rest) : rest[i] = all[Len(done) + i]
    /\ \A r \in bf : \E i \in 1 .. Len(done) + Len(rest) : all[i] = r
    /\ \A i \in 1 .. Len(done) + Len(rest) : all[i] \in bg

\* A dispatch works through the list it has loaded.
InItsSnapshot(d) == Follows(registry[event[d]], ran[d], todo[d], before[d], begun[d])

\* The inductive invariant of the registry.
RegistryInv ==
    /\ RegistryTypeOK
    /\ OneAdd
    /\ \A e \in Event : Published(e)
    /\ \A d \in Dispatcher : dpc[d] = "ready" => ran[d] = <<>>
    /\ \A d \in Dispatcher : dpc[d] # "ready" => InItsSnapshot(d)
    /\ \A d \in Dispatcher : dpc[d] = "returned" => todo[d] = <<>>

\* It holds of a new registry ...
LEMMA RegistryInvInit == RegistryInit => RegistryInv
<1> SUFFICES ASSUME RegistryInit PROVE RegistryInv
  OBVIOUS
<1>1. RegistryTypeOK
  BY RegistryAssumption DEF RegistryInit, RegistryTypeOK, Locking
<1>2. OneAdd
  BY DEF RegistryInit, OneAdd, Locking
<1>3. \A e \in Event : Published(e)
  BY DEF RegistryInit, Published
<1> QED
  BY <1>1, <1>2, <1>3 DEF RegistryInit, RegistryInv

\* The type is kept by every step.
LEMMA RegistryTypes ==
    ASSUME RegistryTypeOK, RegistryNext
    PROVE  RegistryTypeOK'
<1>1. ASSUME NEW r \in Registrar, AddLock(r) \/ AddRead(r) \/ AddUnlock(r)
      PROVE  RegistryTypeOK'
  BY ZenonT(30), <1>1 DEF RegistryTypeOK, AddLock, AddRead, AddUnlock, dispatchVars, Locking
<1>2. ASSUME NEW r \in Registrar, AddStore(r)
      PROVE  RegistryTypeOK'
  <2> DEFINE extended == Append(current[r][Subscribes[r]], r)
             base     == IF dynamic THEN current[r] ELSE registry
  <2>0. base \in [Event -> Seq(Registrar)] /\ current[r][Subscribes[r]] \in Seq(Registrar)
    BY RegistryAssumption DEF RegistryTypeOK
  <2>1. registry' \in [Event -> Seq(Registrar)]
    <3>1. registry' = [base EXCEPT ![Subscribes[r]] = extended]
      BY <1>2 DEF AddStore
    <3>2. extended \in Seq(Registrar)
      BY <2>0
    <3> HIDE DEF base, extended
    <3> QED
      BY Zenon, <2>0, <3>1, <3>2
  <2> QED
    BY <1>2, <2>1 DEF RegistryTypeOK, AddStore, dispatchVars, Locking
<1>3. ASSUME NEW d \in Dispatcher, DispatchBegin(d)
      PROVE  RegistryTypeOK'
  BY <1>3 DEF RegistryTypeOK, DispatchBegin, addVars, Subscribers
<1>4. ASSUME NEW d \in Dispatcher, Invoke(d)
      PROVE  RegistryTypeOK'
  <2>1. todo[d] \in Seq(Registrar) /\ todo[d] # <<>>
    BY <1>4 DEF RegistryTypeOK, Invoke
  <2>2. Head(todo[d]) \in Registrar /\ Tail(todo[d]) \in Seq(Registrar)
    BY <2>1
  <2> QED
    BY <1>4, <2>2 DEF RegistryTypeOK, Invoke, RestAfterPanic, addVars
<1>5. ASSUME NEW d \in Dispatcher, DispatchEnd(d)
      PROVE  RegistryTypeOK'
  BY <1>5 DEF RegistryTypeOK, DispatchEnd, addVars
<1> QED
  BY <1>1, <1>2, <1>3, <1>4, <1>5 DEF RegistryNext

\* An Add that stores has the registry as it is.
LEMMA StoreAppends ==
    ASSUME RegistryTypeOK, OneAdd, NEW r \in Registrar, AddStore(r)
    PROVE  registry' = [registry EXCEPT ![Subscribes[r]] = Append(@, r)]
  BY Zenon, RegistryAssumption DEF RegistryTypeOK, OneAdd, AddStore

\* The mutex keeps registrars apart.
LEMMA AddsKeepApart ==
    ASSUME RegistryTypeOK, OneAdd, NEW r \in Registrar,
           AddLock(r) \/ AddRead(r) \/ AddStore(r) \/ AddUnlock(r)
    PROVE  OneAdd'
<1>1. CASE AddLock(r)
  BY <1>1 DEF RegistryTypeOK, OneAdd, AddLock, FreeToAdd, Locking
<1>2. CASE AddRead(r)
  BY <1>2 DEF RegistryTypeOK, OneAdd, AddRead, Locking
<1>3. CASE AddStore(r)
  BY <1>3 DEF RegistryTypeOK, OneAdd, AddStore, Locking
<1>4. CASE AddUnlock(r)
  BY <1>4 DEF RegistryTypeOK, OneAdd, AddUnlock, Locking
<1> QED
  BY <1>1, <1>2, <1>3, <1>4

\* Only AddStore publishes, and it publishes a callback that was not.
LEMMA AddsPublishOnce ==
    ASSUME RegistryTypeOK, OneAdd, NEW r \in Registrar, NEW e \in Event, Published(e),
           AddLock(r) \/ AddRead(r) \/ AddStore(r) \/ AddUnlock(r)
    PROVE  Published(e)'
<1>1. CASE AddLock(r) \/ AddRead(r) \/ AddUnlock(r)
  <2>1. UNCHANGED registry
    BY <1>1 DEF AddLock, AddRead, AddUnlock
  <2>2. \A q \in Registrar : apc'[q] \in {"stored", "returned"} <=>
                             apc[q] \in {"stored", "returned"}
    BY <1>1 DEF RegistryTypeOK, AddLock, AddRead, AddUnlock
  <2> QED
    BY <2>1, <2>2 DEF Published
<1>2. CASE AddStore(r)
  <2>1. registry[e] \in Seq(Registrar)
    BY DEF RegistryTypeOK
  <2>2. \A q \in Registrar : apc'[q] \in {"stored", "returned"} <=>
                             q = r \/ apc[q] \in {"stored", "returned"}
    BY <1>2 DEF RegistryTypeOK, AddStore
  <2>3. CASE e # Subscribes[r]
    <3>1. registry'[e] = registry[e]
      BY <1>2, <2>3, StoreAppends DEF RegistryTypeOK
    <3> QED
      BY <2>2, <2>3, <3>1 DEF Published
  <2>4. CASE e = Subscribes[r]
    <3>1. registry'[e] = Append(registry[e], r)
      BY <1>2, <2>4, StoreAppends DEF RegistryTypeOK
    <3>2. /\ Len(registry'[e]) = Len(registry[e]) + 1
          /\ registry'[e][Len(registry[e]) + 1] = r
          /\ \A i \in 1 .. Len(registry[e]) : registry'[e][i] = registry[e][i]
      BY <2>1, <3>1
    <3>3. \A i \in 1 .. Len(registry[e]) : registry[e][i] # r
      BY <1>2, <2>1 DEF Published, AddStore
    <3>4. Len(registry[e]) \in Nat
      BY <2>1
    <3>5. 1 .. Len(registry'[e]) = 1 .. Len(registry[e]) \cup {Len(registry[e]) + 1}
      BY <3>2, <3>4
    <3>6. ASSUME NEW q \in Registrar
          PROVE  (\E i \in 1 .. Len(registry'[e]) : registry'[e][i] = q) <=>
                 q = r \/ \E i \in 1 .. Len(registry[e]) : registry[e][i] = q
      BY <3>2, <3>5
    <3>7. \A i, j \in 1 .. Len(registry'[e]) :
             registry'[e][i] = registry'[e][j] => i = j
      BY Zenon, <3>2, <3>3, <3>4, <3>5 DEF Published
    <3> QED
      BY <2>2, <2>4, <3>6, <3>7 DEF Published
  <2> QED
    BY <2>3, <2>4
<1> QED
  BY <1>1, <1>2

\* What a dispatch has found stays where it was when callbacks are appended.
LEMMA FollowsGrowing ==
    ASSUME NEW all \in Seq(Registrar), NEW done \in Seq(Registrar),
           NEW rest \in Seq(Registrar), NEW bf, NEW bg, NEW r \in Registrar,
           Follows(all, done, rest, bf, bg)
    PROVE  Follows(Append(all, r), done, rest, bf, bg)
<1> DEFINE more == Append(all, r)
           n    == Len(done) + Len(rest)
<1>1. Len(more) = Len(all) + 1 /\ \A i \in 1 .. Len(all) : more[i] = all[i]
  OBVIOUS
<1>2. /\ n \in Nat /\ n <= Len(all) /\ Len(done) <= n /\ Len(all) \in Nat
      /\ \A i \in 1 .. Len(done) : i \in 1 .. n
      /\ \A i \in 1 .. Len(rest) : Len(done) + i \in 1 .. n
  BY DEF Follows
<1>3. \A i \in 1 .. n : more[i] = all[i]
  BY <1>1, <1>2
<1>4. n <= Len(more)
  BY <1>1, <1>2
<1> QED
  BY <1>2, <1>3, <1>4 DEF Follows

\* A dispatch begins with all that is published.
LEMMA FollowsAll ==
    ASSUME NEW all \in Seq(Registrar), NEW bf, NEW bg,
           \A r \in bf : \E i \in 1 .. Len(all) : all[i] = r,
           \A i \in 1 .. Len(all) : all[i] \in bg
    PROVE  Follows(all, <<>>, all, bf, bg)
<1>1. Len(<<>>) = 0 /\ Len(all) \in Nat
  OBVIOUS
<1>2. 0 + Len(all) = Len(all) /\ \A i \in 1 .. Len(all) : 0 + i = i
  BY <1>1
<1> QED
  BY <1>1, <1>2 DEF Follows

\* A callback moves from those to run to those that have run.
LEMMA FollowsOn ==
    ASSUME NEW all \in Seq(Registrar), NEW done \in Seq(Registrar),
           NEW rest \in Seq(Registrar), NEW bf, NEW bg, rest # <<>>,
           Follows(all, done, rest, bf, bg)
    PROVE  Follows(all, Append(done, Head(rest)), Tail(rest), bf, bg)
<1> DEFINE done2 == Append(done, Head(rest))
           rest2 == Tail(rest)
<1>1. /\ Len(done2) = Len(done) + 1 /\ done2[Len(done) + 1] = rest[1]
      /\ \A i \in 1 .. Len(done) : done2[i] = done[i]
  OBVIOUS
<1>2. /\ Len(rest) \in Nat \ {0} /\ Len(rest2) = Len(rest) - 1
      /\ \A i \in 1 .. Len(rest2) : rest2[i] = rest[i + 1]
  OBVIOUS
<1>3. Len(done) \in Nat
  OBVIOUS
<1> HIDE DEF done2, rest2
<1>4. Len(done2) + Len(rest2) = Len(done) + Len(rest)
  BY <1>1, <1>2, <1>3
<1>5. rest[1] = all[Len(done) + 1]
  BY <1>2 DEF Follows
<1>6. 1 .. Len(done2) = 1 .. Len(done) \cup {Len(done) + 1}
  BY <1>1, <1>3
<1>7. \A i \in 1 .. Len(done2) : done2[i] = all[i]
  BY Zenon, <1>1, <1>5, <1>6 DEF Follows
<1>8. ASSUME NEW i \in 1 .. Len(rest2)
      PROVE  rest2[i] = all[Len(done2) + i]
  <2>1. i + 1 \in 1 .. Len(rest) /\ Len(done2) + i = Len(done) + (i + 1)
    BY <1>1, <1>2, <1>3
  <2> QED
    BY <1>2, <2>1 DEF Follows
<1>9. Follows(all, done2, rest2, bf, bg)
  BY <1>4, <1>7, <1>8 DEF Follows
<1> QED
  BY <1>9 DEF done2, rest2

\* Registrations leave every dispatch its snapshot.
LEMMA AddsKeepSnapshots ==
    ASSUME RegistryTypeOK, OneAdd, NEW r \in Registrar, NEW d \in Dispatcher,
           InItsSnapshot(d),
           AddLock(r) \/ AddRead(r) \/ AddStore(r) \/ AddUnlock(r)
    PROVE  InItsSnapshot(d)'
<1>1. UNCHANGED dispatchVars
  BY DEF AddLock, AddRead, AddStore, AddUnlock
<1>2. /\ event[d] \in Event /\ registry[event[d]] \in Seq(Registrar)
      /\ ran[d] \in Seq(Registrar) /\ todo[d] \in Seq(Registrar)
  BY DEF RegistryTypeOK
<1>3. registry'[event[d]] \in {registry[event[d]], Append(registry[event[d]], r)}
  <2>1. CASE AddStore(r)
    <3>1. registry' = [registry EXCEPT ![Subscribes[r]] = Append(@, r)]
      BY <2>1, StoreAppends
    <3> QED
      BY <1>2, <3>1 DEF RegistryTypeOK
  <2>2. CASE AddLock(r) \/ AddRead(r) \/ AddUnlock(r)
    BY <2>2 DEF AddLock, AddRead, AddUnlock
  <2> QED
    BY <2>1, <2>2
<1>4. CASE registry'[event[d]] = registry[event[d]]
  BY <1>1, <1>4 DEF InItsSnapshot, dispatchVars
<1>5. CASE registry'[event[d]] = Append(registry[event[d]], r)
  BY <1>1, <1>2, <1>5, FollowsGrowing DEF InItsSnapshot, dispatchVars
<1> QED
  BY <1>3, <1>4, <1>5

\* The snapshot a dispatch takes.
LEMMA BeginTakesSnapshot ==
    ASSUME RegistryTypeOK, \A e \in Event : Published(e), NEW d \in Dispatcher,
           ran[d] = <<>>, DispatchBegin(d)
    PROVE  InItsSnapshot(d)'
<1> DEFINE e  == event[d]
           bf == Subscribers(e, {"returned"})
           bg == Subscribers(e, {"locked", "read", "stored", "returned"})
<1>1. e \in Event /\ registry[e] \in Seq(Registrar)
  BY DEF RegistryTypeOK
<1>2. /\ UNCHANGED <<registry, ran, event>> /\ todo'[d] = registry[e]
      /\ before'[d] = bf /\ begun'[d] = bg
  BY DEF RegistryTypeOK, DispatchBegin
<1>3. \A r \in bf : r \in Registrar /\ Subscribes[r] = e /\ apc[r] = "returned"
  BY DEF Subscribers
<1>4. \A r \in bf : \E i \in 1 .. Len(registry[e]) : registry[e][i] = r
  BY <1>1, <1>3 DEF Published
<1>5. ASSUME NEW i \in 1 .. Len(registry[e])
      PROVE  registry[e][i] \in bg
  <2>1. registry[e][i] \in Registrar
    BY <1>1
  <2>2. Subscribes[registry[e][i]] = e /\ apc[registry[e][i]] \in {"stored", "returned"}
    BY <1>1, <2>1 DEF Published
  <2> QED
    BY <2>1, <2>2 DEF Subscribers
<1> HIDE DEF bf, bg
<1>6. Follows(registry[e], <<>>, registry[e], bf, bg)
  BY <1>1, <1>4, <1>5, FollowsAll
<1> QED
  BY <1>2, <1>6 DEF InItsSnapshot

\* ... every step keeps it ...
LEMMA RegistryInvNext ==
    ASSUME RegistryInv, RegistryNext
    PROVE  RegistryInv'
<1>1. ASSUME NEW r \in Registrar, AddLock(r) \/ AddRead(r) \/ AddStore(r) \/ AddUnlock(r)
      PROVE  RegistryInv'
  <2>1. RegistryTypeOK'
    BY Zenon, RegistryTypes DEF RegistryInv
  <2>2. OneAdd'
    BY Zenon, <1>1, AddsKeepApart DEF RegistryInv
  <2>3. \A e \in Event : Published(e)'
    BY Zenon, <1>1, AddsPublishOnce DEF RegistryInv
  <2>4. UNCHANGED dispatchVars
    BY <1>1 DEF AddLock, AddRead, AddStore, AddUnlock
  <2>5. \A d \in Dispatcher : dpc[d] # "ready" => InItsSnapshot(d)'
    BY Zenon, <1>1, AddsKeepSnapshots DEF RegistryInv
  <2> QED
    BY <2>1, <2>2, <2>3, <2>4, <2>5 DEF RegistryInv, dispatchVars
<1>2. ASSUME NEW d \in Dispatcher, DispatchBegin(d) \/ Invoke(d) \/ DispatchEnd(d)
      PROVE  RegistryInv'
  <2>1. RegistryTypeOK'
    BY Zenon, RegistryTypes DEF RegistryInv
  <2>2. UNCHANGED <<registry, apc, current, mu>>
    BY <1>2 DEF DispatchBegin, Invoke, DispatchEnd, addVars
  <2>3. OneAdd' /\ \A e \in Event : Published(e)'
    BY <2>2 DEF RegistryInv, OneAdd, Published
  <2>4. ASSUME NEW c \in Dispatcher, c # d
        PROVE  /\ dpc'[c] = dpc[c] /\ ran'[c] = ran[c]
               /\ InItsSnapshot(c) => InItsSnapshot(c)'
               /\ todo'[c] = todo[c]
    <3>1. /\ dpc'[c] = dpc[c] /\ ran'[c] = ran[c] /\ todo'[c] = todo[c]
          /\ event'[c] = event[c] /\ before'[c] = before[c] /\ begun'[c] = begun[c]
      BY <1>2, <2>4 DEF RegistryInv, RegistryTypeOK, DispatchBegin, Invoke, DispatchEnd
    <3> QED
      BY <2>2, <3>1 DEF InItsSnapshot
  <2>5. /\ dpc'[d] # "ready" /\ InItsSnapshot(d)'
        /\ dpc'[d] = "returned" => todo'[d] = <<>>
    <3>1. CASE DispatchBegin(d)
      BY Zenon, <3>1, BeginTakesSnapshot DEF RegistryInv, RegistryTypeOK, DispatchBegin
    <3>2. CASE Invoke(d)
      <4>1. /\ dpc[d] = "running" /\ todo[d] # <<>>
            /\ ran'[d] = Append(ran[d], Head(todo[d])) /\ todo'[d] = Tail(todo[d])
            /\ UNCHANGED <<registry, event, before, begun, dpc>>
        BY <3>2 DEF RegistryInv, RegistryTypeOK, Invoke, RestAfterPanic
      <4>2. /\ registry[event[d]] \in Seq(Registrar)
            /\ ran[d] \in Seq(Registrar) /\ todo[d] \in Seq(Registrar)
        BY DEF RegistryInv, RegistryTypeOK
      <4>3. InItsSnapshot(d)
        BY <4>1 DEF RegistryInv
      <4> QED
        BY <4>1, <4>2, <4>3, FollowsOn DEF InItsSnapshot
    <3>3. CASE DispatchEnd(d)
      <4>1. /\ dpc[d] = "running" /\ todo[d] = <<>> /\ dpc'[d] = "returned"
            /\ UNCHANGED <<registry, event, todo, ran, before, begun>>
        BY <3>3 DEF RegistryInv, RegistryTypeOK, DispatchEnd
      <4> QED
        BY <4>1 DEF RegistryInv, InItsSnapshot
    <3> QED
      BY <1>2, <3>1, <3>2, <3>3
  <2> QED
    BY <2>1, <2>3, <2>4, <2>5 DEF RegistryInv
<1> QED
  BY <1>1, <1>2 DEF RegistryNext

\* ... so it always holds.
LEMMA RegistryInvariant == RegistrySpec => []RegistryInv
<1>1. RegistryInv /\ UNCHANGED registryVars => RegistryInv'
  BY DEF RegistryInv, RegistryTypeOK, OneAdd, Published, InItsSnapshot,
     registryVars
<1> QED
  BY <1>1, RegistryInvInit, RegistryInvNext, PTL DEF RegistrySpec

\* A dispatch, of the static or the dynamic hook set, that has returned ran once
\* each and in the order of registration all callbacks whose Add had returned
\* before it began, and none whose Add began later, whatever registered
\* meanwhile and whichever callbacks panicked.
THEOREM DispatchRunsOneSnapshot == RegistrySpec => []DispatchRunsItsSnapshot
<1>1. ASSUME RegistryInv
      PROVE  DispatchRunsItsSnapshot
  <2> SUFFICES ASSUME NEW d \in Dispatcher, dpc[d] = "returned"
               PROVE  /\ before[d] \subseteq Range(ran[d])
                      /\ Range(ran[d]) \subseteq begun[d]
                      /\ \E n \in 0 .. Len(registry[event[d]]) :
                            ran[d] = SubSeq(registry[event[d]], 1, n)
                      /\ \A i, j \in 1 .. Len(ran[d]) : ran[d][i] = ran[d][j] => i = j
    BY DEF DispatchRunsItsSnapshot
  <2> DEFINE e == event[d]
  <2>1. /\ e \in Event /\ registry \in [Event -> Seq(Registrar)]
        /\ ran \in [Dispatcher -> Seq(Registrar)] /\ todo \in [Dispatcher -> Seq(Registrar)]
    BY <1>1 DEF RegistryInv, RegistryTypeOK
  <2>2. /\ Follows(registry[e], ran[d], <<>>, before[d], begun[d])
        /\ Published(e)
    BY <1>1, <2>1 DEF RegistryInv, InItsSnapshot
  <2>3. Len(ran[d]) + Len(<<>>) = Len(ran[d])
    BY <2>1
  <2>4. /\ Len(ran[d]) <= Len(registry[e])
        /\ \A i \in 1 .. Len(ran[d]) : ran[d][i] = registry[e][i]
    BY <2>2, <2>3 DEF Follows
  <2>5. DOMAIN ran[d] = 1 .. Len(ran[d])
    BY <2>1
  <2>6. before[d] \subseteq Range(ran[d])
    BY <2>2, <2>3, <2>4, <2>5 DEF Follows, Range
  <2>7. Range(ran[d]) \subseteq begun[d]
    BY <2>2, <2>3, <2>4, <2>5 DEF Follows, Range
  <2>8. \E n \in 0 .. Len(registry[e]) : ran[d] = SubSeq(registry[e], 1, n)
    <3>1. Len(ran[d]) \in 0 .. Len(registry[e])
      BY <2>1, <2>4
    <3>2. ran[d] = SubSeq(registry[e], 1, Len(ran[d]))
      BY <2>1, <2>4
    <3> QED
      BY Zenon, <3>1, <3>2
  <2>9. \A i \in 1 .. Len(ran[d]) : i \in 1 .. Len(registry[e])
    BY <2>1, <2>4
  <2>10. \A i, j \in 1 .. Len(ran[d]) : ran[d][i] = ran[d][j] => i = j
    BY <2>2, <2>4, <2>9 DEF Published
  <2> QED
    BY Zenon, <2>6, <2>7, <2>8, <2>10
<1> QED
  BY <1>1, RegistryInvariant, PTL

-----------------------------------------------------------------------------
\* The tasks whose Add is not balanced yet.
Counted == {t \in Task : tpc[t] \in {"added", "queued", "refused", "ran"}}

\* The counter of the WaitGroup is the number of those tasks.
CountExact == count = Cardinality(Counted)

\* What a waiter has seen is accepted, and complete once the waiter is back.
SeenInv ==
    /\ \A w \in Waiter : seen[w] \subseteq Accepted
    /\ WaitDrains

\* Among the closers one at most has won and not finished; the channel and
\* the hook tell how far it is.
CloseInv ==
    /\ \A c \in Closer : cpc[c] = "close" => closed /\ ~closePoolCn /\ poolClosed = 0
    /\ \A c \in Closer : cpc[c] = "hook" => closed /\ closePoolCn /\ poolClosed = 0
    /\ \A c, d \in Closer :
          cpc[c] \in {"close", "hook"} /\ cpc[d] \in {"close", "hook"} => c = d
    /\ \A c \in Closer : cpc[c] = "returned" => closed
    /\ closed /\ poolClosed = 0 => \E c \in Closer : cpc[c] \in {"close", "hook"}
    /\ ~closed => ~closePoolCn /\ poolClosed = 0
    /\ poolClosed \in {0, 1}
    /\ poolClosed = 1 => closePoolCn

-----------------------------------------------------------------------------
LEMMA TypeStep == ShutdownTypeOK /\ [Next]_vars => ShutdownTypeOK'
<1> SUFFICES ASSUME ShutdownTypeOK, [Next]_vars PROVE ShutdownTypeOK'
  OBVIOUS
<1> USE DEF ShutdownTypeOK, taskVars, groupVars, waitVars, closeVars, Panic
<1>1. ASSUME NEW t \in Task, Add(t) PROVE ShutdownTypeOK'
  BY <1>1 DEF Add
<1>2. ASSUME NEW t \in Task, Decide(t) PROVE ShutdownTypeOK'
  BY <1>2 DEF Decide
<1>3. ASSUME NEW t \in Task, Run(t) PROVE ShutdownTypeOK'
  BY <1>3 DEF Run
<1>4. ASSUME NEW t \in Task, Done(t) PROVE ShutdownTypeOK'
  BY <1>4 DEF Done
<1>5. ASSUME NEW t \in Task, Release(t) PROVE ShutdownTypeOK'
  BY <1>5 DEF Release
<1>6. ASSUME NEW w \in Waiter, Wait(w) PROVE ShutdownTypeOK'
  BY <1>6 DEF Wait, Accepted
<1>7. ASSUME NEW w \in Waiter, Wake(w) PROVE ShutdownTypeOK'
  BY <1>7 DEF Wake
<1>8. ASSUME NEW w \in Waiter, WaitReturn(w) PROVE ShutdownTypeOK'
  BY <1>8 DEF WaitReturn
<1>9. ASSUME NEW c \in Closer, CloseBegin(c) PROVE ShutdownTypeOK'
  BY <1>9 DEF CloseBegin, WinsClose, AfterWin
<1>10. ASSUME NEW c \in Closer, CloseChannel(c) PROVE ShutdownTypeOK'
  BY ZenonT(60), <1>10 DEF CloseChannel
<1>11. ASSUME NEW c \in Closer, CloseHook(c) PROVE ShutdownTypeOK'
  BY <1>11 DEF CloseHook
<1>12. CASE UNCHANGED vars
  BY <1>12 DEF vars
<1> QED
  BY Zenon, <1>1, <1>2, <1>3, <1>4, <1>5, <1>6, <1>7, <1>8, <1>9, <1>10, <1>11, <1>12
     DEF Next, TaskStep, WaitStep, CloseStep

LEMMA InitTypes == Init => ShutdownTypeOK
<1> SUFFICES ASSUME Init PROVE ShutdownTypeOK
  OBVIOUS
<1>1. closed \in BOOLEAN /\ closePoolCn \in BOOLEAN
  BY Zenon DEF Init
<1> QED
  BY <1>1 DEF Init, ShutdownTypeOK

\* The variables of the WaitGroup model have their types.
THEOREM ShutdownTypeCorrect == Spec => []ShutdownTypeOK
<1>1. Init => ShutdownTypeOK
  BY InitTypes
<1> QED
  BY <1>1, TypeStep, PTL DEF Spec

-----------------------------------------------------------------------------
(***************************************************************************)
(* The counter.                                                            *)
(***************************************************************************)

LEMMA CountedFinite == IsFiniteSet(Counted)
  BY ShutdownAssumption, FS_Subset DEF Counted

\* A task that owes its done() keeps the counter above zero.
LEMMA CountedPositive ==
    ASSUME CountExact, NEW t \in Counted
    PROVE  count # 0
  BY CountedFinite, FS_EmptySet DEF CountExact

LEMMA CountStep ==
    ASSUME ShutdownTypeOK, CountExact, [Next]_vars
    PROVE  CountExact'
<1> USE DEF ShutdownTypeOK
<1>1. ASSUME NEW t \in Task, Add(t) PROVE CountExact'
  <2>1. CASE UNCHANGED <<tpc, count>>
    BY <2>1 DEF CountExact, Counted
  <2>2. CASE count' = count + 1 /\ tpc' = [tpc EXCEPT ![t] = "added"]
    <3>1. t \notin Counted /\ Counted' = Counted \cup {t}
      BY <1>1, <2>2 DEF Counted, Add
    <3> QED
      BY ZenonT(60), <2>2, <3>1, CountedFinite, FS_AddElement DEF CountExact
  <2> QED
    BY <1>1, <2>1, <2>2 DEF Add, Panic, taskVars, groupVars
<1>2. ASSUME NEW t \in Task, Decide(t) \/ Run(t) \/ Release(t) PROVE CountExact'
  <2>1. count' = count
    BY <1>2 DEF Decide, Run, Release, Panic, groupVars
  <2>2. Counted' = Counted
    BY <1>2 DEF Counted, Decide, Run, Release, Panic, taskVars
  <2> QED
    BY <2>1, <2>2 DEF CountExact
<1>3. ASSUME NEW t \in Task, Done(t) PROVE CountExact'
  <2>1. t \in Counted
    BY <1>3 DEF Counted, Done, OwesDone
  <2>2. count # 0
    BY <2>1, CountedPositive
  <2>3. /\ count' = count - 1
        /\ tpc' = [tpc EXCEPT ![t] =
                      IF count' = 0 /\ waiters > 0 THEN "release" ELSE "settled"]
    BY <1>3, <2>2 DEF Done
  <2>4. Counted' = Counted \ {t}
    BY <2>3 DEF Counted
  <2> QED
    BY ZenonT(60), <2>1, <2>3, <2>4, CountedFinite, FS_RemoveElement DEF CountExact
<1>4. ASSUME UNCHANGED <<tpc, count>> PROVE CountExact'
  BY <1>4 DEF CountExact, Counted
<1>5. ASSUME NEW w \in Waiter, Wait(w) \/ WaitStep(w) PROVE UNCHANGED <<tpc, count>>
  BY <1>5 DEF Wait, WaitStep, Wake, WaitReturn, Panic, taskVars, groupVars
<1>6. ASSUME NEW c \in Closer, CloseBegin(c) \/ CloseStep(c) PROVE UNCHANGED <<tpc, count>>
  BY <1>6 DEF CloseBegin, CloseStep, CloseChannel, CloseHook, Panic, taskVars, groupVars
<1>7. CASE UNCHANGED vars
  BY <1>4, <1>7 DEF vars
<1> QED
  BY Zenon, <1>1, <1>2, <1>3, <1>4, <1>5, <1>6, <1>7 DEF Next, TaskStep

\* Nobody is counted when the counter is zero.
LEMMA ZeroCount ==
    ASSUME CountExact, count = 0
    PROVE  Counted = {}
  BY ZenonT(60), CountedFinite, FS_EmptySet DEF CountExact

-----------------------------------------------------------------------------
(***************************************************************************)
(* Wait drains.                                                            *)
(***************************************************************************)

LEMMA SeenStep ==
    ASSUME ShutdownTypeOK, CountExact, SeenInv, [Next]_vars
    PROVE  SeenInv'
<1>1. Accepted \subseteq Accepted' /\ completed \subseteq completed'
  <2>1. ASSUME NEW t \in Task, Add(t) \/ TaskStep(t)
        PROVE  Accepted \subseteq Accepted' /\ completed \subseteq completed'
    <3>1. CASE Add(t)
      BY <3>1 DEF Add, Accepted, ShutdownTypeOK, Panic, taskVars
    <3>2. CASE Decide(t) \/ Run(t)
      BY <3>2 DEF Decide, Run, Accepted, ShutdownTypeOK
    <3>3. CASE Done(t) \/ Release(t)
      BY <3>3 DEF Done, OwesDone, Release, Accepted, ShutdownTypeOK, Panic, taskVars
    <3> QED
      BY Zenon, <2>1, <3>1, <3>2, <3>3 DEF TaskStep
  <2>2. ASSUME UNCHANGED <<tpc, completed>>
        PROVE  Accepted \subseteq Accepted' /\ completed \subseteq completed'
    BY <2>2 DEF Accepted
  <2>3. ASSUME NEW w \in Waiter, Wait(w) \/ WaitStep(w) PROVE UNCHANGED <<tpc, completed>>
    BY <2>3 DEF Wait, WaitStep, Wake, WaitReturn, Panic, taskVars
  <2>4. ASSUME NEW c \in Closer, CloseBegin(c) \/ CloseStep(c)
        PROVE  UNCHANGED <<tpc, completed>>
    BY <2>4 DEF CloseBegin, CloseStep, CloseChannel, CloseHook, Panic, taskVars
  <2>5. CASE UNCHANGED vars
    BY <2>2, <2>5 DEF vars
  <2> QED
    BY Zenon, <2>1, <2>2, <2>3, <2>4, <2>5 DEF Next
<1>2. ASSUME UNCHANGED waitVars PROVE SeenInv'
  BY <1>1, <1>2 DEF SeenInv, WaitDrains, waitVars
<1>3. ASSUME NEW w \in Waiter, Wait(w) PROVE SeenInv'
  <2>1. UNCHANGED <<tpc, completed>> /\ Accepted' = Accepted
    BY <1>3 DEF Wait, taskVars, Accepted
  <2>2. count = 0 => Accepted \subseteq completed
    BY ZeroCount DEF Accepted, Counted
  <2>3. /\ seen' = [seen EXCEPT ![w] = Accepted]
        /\ \/ count = 0 /\ wpc' = [wpc EXCEPT ![w] = "returned"]
           \/ wpc' = [wpc EXCEPT ![w] = "asleep"]
    BY <1>3 DEF Wait
  <2> QED
    BY <2>1, <2>2, <2>3 DEF SeenInv, WaitDrains, ShutdownTypeOK
<1>4. ASSUME NEW w \in Waiter, Wake(w) PROVE SeenInv'
  <2>1. wpc' = [wpc EXCEPT ![w] = "woken"] /\ UNCHANGED seen
    BY <1>4 DEF Wake
  <2> QED
    BY <1>1, <2>1 DEF SeenInv, WaitDrains, ShutdownTypeOK
<1>5. ASSUME NEW w \in Waiter, WaitReturn(w) PROVE SeenInv'
  <2>1. CASE UNCHANGED waitVars
    BY <1>2, <2>1
  <2>2. CASE count = 0 /\ wpc' = [wpc EXCEPT ![w] = "returned"] /\ UNCHANGED seen
    <3>1. Accepted \subseteq completed
      BY Zenon, <2>2, ZeroCount DEF Accepted, Counted
    <3> QED
      BY <1>1, <2>2, <3>1 DEF SeenInv, WaitDrains, ShutdownTypeOK
  <2> QED
    BY <1>5, <2>1, <2>2 DEF WaitReturn, Panic
<1>6. ASSUME NEW t \in Task, Add(t) \/ TaskStep(t) PROVE UNCHANGED waitVars
  BY <1>6 DEF Add, TaskStep, Decide, Run, Done, Release, Panic, waitVars
<1>7. ASSUME NEW c \in Closer, CloseBegin(c) \/ CloseStep(c) PROVE UNCHANGED waitVars
  BY <1>7 DEF CloseBegin, CloseStep, CloseChannel, CloseHook, Panic, waitVars
<1>8. CASE UNCHANGED vars
  BY <1>2, <1>8 DEF vars, waitVars
<1> QED
  BY Zenon, <1>2, <1>3, <1>4, <1>5, <1>6, <1>7, <1>8 DEF Next, WaitStep

\* A Wait that has returned left no task behind that was accepted before it,
\* whatever the number of tasks, waiters and closers, and even if submissions
\* break the contract of WaitGroup.Add.
THEOREM WaitAlwaysDrains == Spec => []WaitDrains
<1>1. Init => CountExact /\ SeenInv
  <2> SUFFICES ASSUME Init PROVE CountExact /\ SeenInv
    OBVIOUS
  <2>1. Counted = {}
    BY DEF Init, Counted
  <2>2. CountExact
    BY <2>1, FS_EmptySet DEF CountExact, Init
  <2> QED
    BY <2>2 DEF Init, SeenInv, WaitDrains
<1>2. SeenInv => WaitDrains
  BY DEF SeenInv
<1> QED
  BY <1>1, <1>2, InitTypes, TypeStep, CountStep, SeenStep, PTL DEF Spec

-----------------------------------------------------------------------------
(***************************************************************************)
(* Close.                                                                  *)
(***************************************************************************)

LEMMA CloseInvStep ==
    ASSUME ShutdownTypeOK, CloseInv, [Next]_vars
    PROVE  CloseInv'
<1>1. ASSUME UNCHANGED closeVars PROVE CloseInv'
  BY Zenon, <1>1 DEF CloseInv, closeVars
<1>2. ASSUME NEW c \in Closer, CloseBegin(c) PROVE CloseInv'
  <2>1. /\ closed' = TRUE /\ UNCHANGED <<closePoolCn, poolClosed>>
        /\ cpc[c] = "ready"
        /\ cpc' = [cpc EXCEPT ![c] = IF ~closed THEN "close" ELSE "returned"]
    BY <1>2 DEF CloseBegin, WinsClose, AfterWin
  <2>2. CASE closed
    BY <2>1, <2>2 DEF CloseInv, ShutdownTypeOK
  <2>3. CASE ~closed
    BY <2>1, <2>3 DEF CloseInv, ShutdownTypeOK
  <2> QED
    BY <2>2, <2>3
<1>3. ASSUME NEW c \in Closer, CloseChannel(c) PROVE CloseInv'
  <2>1. cpc[c] = "close" /\ ~closePoolCn
    BY <1>3 DEF CloseChannel, CloseInv
  <2>2. closePoolCn' = TRUE /\ cpc' = [cpc EXCEPT ![c] = "hook"] /\ UNCHANGED <<closed, poolClosed>>
    BY <1>3, <2>1 DEF CloseChannel
  <2> QED
    BY <2>1, <2>2 DEF CloseInv, ShutdownTypeOK
<1>4. ASSUME NEW c \in Closer, CloseHook(c) PROVE CloseInv'
  <2>1. /\ cpc[c] = "hook" /\ poolClosed' = poolClosed + 1
        /\ cpc' = [cpc EXCEPT ![c] = "returned"] /\ UNCHANGED <<closed, closePoolCn>>
    BY Zenon, <1>4 DEF CloseHook
  <2> QED
    BY <2>1 DEF CloseInv, ShutdownTypeOK
<1>5. ASSUME NEW t \in Task, Add(t) \/ TaskStep(t) PROVE UNCHANGED closeVars
  BY <1>5 DEF Add, TaskStep, Decide, Run, Done, Release, Panic, closeVars
<1>6. ASSUME NEW w \in Waiter, Wait(w) \/ WaitStep(w) PROVE UNCHANGED closeVars
  BY <1>6 DEF Wait, WaitStep, Wake, WaitReturn, Panic, closeVars
<1>7. CASE UNCHANGED vars
  BY <1>1, <1>7 DEF vars, closeVars
<1> QED
  BY Zenon, <1>1, <1>2, <1>3, <1>4, <1>5, <1>6, <1>7 DEF Next, CloseStep

LEMMA CloseInvInit == Init => CloseInv
  BY DEF Init, CloseInv

\* However many calls of Close race, one of them closes the channel and fires
\* the PoolClosed hook, in this order.
THEOREM PoolClosesOnce == Spec => []PoolClosedOnce
<1>1. CloseInv => PoolClosedOnce
  BY DEF CloseInv, PoolClosedOnce
<1> QED
  BY <1>1, CloseInvInit, CloseInvStep, InitTypes, TypeStep, PTL DEF Spec

-----------------------------------------------------------------------------
(***************************************************************************)
(* No panics, as long as submissions keep the contract of WaitGroup.Add.   *)
(***************************************************************************)
Asleep == {w \in Waiter : wpc[w] = "asleep"}

\* A sleeping waiter is in the word or has a wake-up coming.  The counter is
\* zero from the Done that found waiters until the last of them has looked at
\* the word again.
GroupInv ==
    /\ Cardinality(Asleep) = waiters + permits
    /\ \A t \in Task : tpc[t] = "release" => count = 0 /\ waiters > 0
    /\ \A t, u \in Task : tpc[t] = "release" /\ tpc[u] = "release" => t = u
    /\ permits > 0 \/ (\E w \in Waiter : wpc[w] = "woken") => count = 0 /\ waiters = 0

\* What the proofs below assume of a step.
SafeStep ==
    /\ Disciplined
    /\ ShutdownTypeOK /\ CountExact /\ CloseInv /\ GroupInv /\ NeverPanics
    /\ [Next]_vars

LEMMA AsleepFinite == IsFiniteSet(Asleep)
  BY ShutdownAssumption, FS_Subset DEF Asleep

\* Somebody sleeps while the word or the wake-ups say so.
LEMMA SomebodySleeps ==
    ASSUME ShutdownTypeOK, GroupInv, waiters > 0 \/ permits > 0
    PROVE  \E w \in Waiter : wpc[w] = "asleep"
<1>1. Cardinality(Asleep) # 0
  BY DEF GroupInv, ShutdownTypeOK
<1>2. Asleep # {}
  BY <1>1, FS_EmptySet
<1> QED
  BY <1>2 DEF Asleep

\* An Add never meets waiters at counter zero, nor anybody on the way out.
LEMMA AddIsSafe ==
    ASSUME SafeStep, NEW t \in Task, Add(t)
    PROVE  /\ ~(waiters > 0 /\ count = 0)
           /\ count = 0 => permits = 0 /\ waiters = 0 /\ \A w \in Waiter : wpc[w] # "woken"
<1>1. CASE \E u \in Task : tpc[u] = "queued"
  <2>1. count # 0
    BY <1>1, CountedPositive DEF Counted, SafeStep
  <2> QED
    BY <2>1
<1>2. CASE \A w \in Waiter : wpc[w] \in {"ready", "returned"}
  <2>1. waiters = 0 /\ permits = 0
    BY <1>2, SomebodySleeps DEF SafeStep, ShutdownTypeOK
  <2> QED
    BY <1>2, <2>1
<1> QED
  BY <1>1, <1>2 DEF SafeStep, Add, MayAdd

LEMMA AddGroup ==
    ASSUME SafeStep, NEW t \in Task, Add(t)
    PROVE  GroupInv' /\ NeverPanics'
<1>1. /\ count' = count + 1 /\ tpc[t] = "ready" /\ tpc' = [tpc EXCEPT ![t] = "added"]
      /\ UNCHANGED <<waiters, permits, wpc, panicked>>
  BY AddIsSafe DEF Add, waitVars
<1>2. \A u \in Task : tpc[u] # "release"
  BY Zenon, AddIsSafe DEF SafeStep, GroupInv
<1>3. permits = 0 /\ \A w \in Waiter : wpc[w] # "woken"
  BY <1>1, AddIsSafe DEF SafeStep, GroupInv, ShutdownTypeOK
<1>4. Asleep' = Asleep
  BY <1>1 DEF Asleep
<1> QED
  BY <1>1, <1>2, <1>3, <1>4 DEF SafeStep, GroupInv, ShutdownTypeOK, NeverPanics

LEMMA DoneGroup ==
    ASSUME SafeStep, NEW t \in Task, Done(t)
    PROVE  GroupInv' /\ NeverPanics'
<1>1. count # 0
  BY CountedPositive DEF SafeStep, Done, OwesDone, Counted
<1>2. /\ count' = count - 1
      /\ tpc' = [tpc EXCEPT ![t] =
                    IF count' = 0 /\ waiters > 0 THEN "release" ELSE "settled"]
      /\ UNCHANGED <<waiters, permits, wpc, panicked>>
  BY <1>1 DEF Done, waitVars
<1>3. \A u \in Task : tpc[u] # "release"
  BY <1>1 DEF SafeStep, GroupInv
<1>4. permits = 0 /\ \A w \in Waiter : wpc[w] # "woken"
  BY <1>1 DEF SafeStep, GroupInv, ShutdownTypeOK
<1>5. Asleep' = Asleep
  BY <1>2 DEF Asleep
<1>6. \A u \in Task : tpc'[u] = "release" => u = t /\ count' = 0 /\ waiters' > 0
  BY <1>2, <1>3 DEF SafeStep, ShutdownTypeOK
<1> QED
  BY <1>2, <1>4, <1>5, <1>6 DEF SafeStep, GroupInv, NeverPanics

LEMMA ReleaseGroup ==
    ASSUME SafeStep, NEW t \in Task, Release(t)
    PROVE  GroupInv' /\ NeverPanics'
<1>1. count = 0 /\ waiters > 0 /\ permits = 0
  BY DEF SafeStep, Release, GroupInv, ShutdownTypeOK
<1>2. /\ permits' = permits + waiters /\ waiters' = 0
      /\ tpc' = [tpc EXCEPT ![t] = "settled"] /\ UNCHANGED <<count, wpc, panicked>>
  BY <1>1 DEF Release, waitVars
<1>3. \A u \in Task : tpc'[u] # "release"
  BY <1>2 DEF SafeStep, GroupInv, ShutdownTypeOK, Release
<1>4. Asleep' = Asleep
  BY <1>2 DEF Asleep
<1> QED
  BY <1>1, <1>2, <1>3, <1>4 DEF SafeStep, GroupInv, ShutdownTypeOK, NeverPanics

LEMMA WaitGroupStep ==
    ASSUME SafeStep, NEW w \in Waiter, Wait(w)
    PROVE  GroupInv' /\ NeverPanics'
<1>1. UNCHANGED <<tpc, count, permits, panicked>> /\ wpc[w] = "ready"
  BY DEF Wait, taskVars
<1>2. CASE count = 0 /\ wpc' = [wpc EXCEPT ![w] = "returned"] /\ UNCHANGED waiters
  <2>1. Asleep' = Asleep
    BY Zenon, <1>1, <1>2 DEF Asleep, SafeStep, ShutdownTypeOK
  <2>2. \A x \in Waiter : wpc'[x] = "woken" => wpc[x] = "woken"
    BY Zenon, <1>2 DEF SafeStep, ShutdownTypeOK
  <2> QED
    BY Zenon, <1>1, <1>2, <2>1, <2>2 DEF SafeStep, GroupInv, NeverPanics
<1>3. CASE count > 0 /\ wpc' = [wpc EXCEPT ![w] = "asleep"] /\ waiters' = waiters + 1
  <2>1. w \notin Asleep /\ Asleep' = Asleep \cup {w}
    BY <1>1, <1>3 DEF Asleep, SafeStep, ShutdownTypeOK
  <2>2. Cardinality(Asleep') = Cardinality(Asleep) + 1
    BY ZenonT(60), <2>1, AsleepFinite, FS_AddElement
  <2>3. \A x \in Waiter : wpc'[x] = "woken" => wpc[x] = "woken"
    BY <1>3 DEF SafeStep, ShutdownTypeOK
  <2>4. count # 0
    BY <1>3 DEF SafeStep, ShutdownTypeOK
  <2> QED
    BY <1>1, <1>3, <2>2, <2>3, <2>4 DEF SafeStep, GroupInv, NeverPanics, ShutdownTypeOK
<1> QED
  BY <1>2, <1>3 DEF Wait

LEMMA WakeGroup ==
    ASSUME SafeStep, NEW w \in Waiter, Wake(w)
    PROVE  GroupInv' /\ NeverPanics'
<1>1. /\ wpc[w] = "asleep" /\ permits > 0 /\ permits' = permits - 1
      /\ wpc' = [wpc EXCEPT ![w] = "woken"]
      /\ UNCHANGED <<tpc, count, waiters, panicked>>
  BY DEF Wake, taskVars
<1>2. w \in Asleep /\ Asleep' = Asleep \ {w}
  BY <1>1 DEF Asleep, SafeStep, ShutdownTypeOK
<1>3. Cardinality(Asleep') = Cardinality(Asleep) - 1
  BY <1>2, AsleepFinite, FS_RemoveElement
<1>4. count = 0 /\ waiters = 0
  BY <1>1 DEF SafeStep, GroupInv
<1> QED
  BY <1>1, <1>3, <1>4 DEF SafeStep, GroupInv, NeverPanics, ShutdownTypeOK

LEMMA WaitReturnGroup ==
    ASSUME SafeStep, NEW w \in Waiter, WaitReturn(w)
    PROVE  GroupInv' /\ NeverPanics'
<1>1. count = 0 /\ waiters = 0 /\ wpc[w] = "woken"
  BY DEF WaitReturn, SafeStep, GroupInv
<1>2. wpc' = [wpc EXCEPT ![w] = "returned"] /\ UNCHANGED <<tpc, count, waiters, permits, panicked>>
  BY <1>1 DEF WaitReturn, taskVars, groupVars
<1>3. Asleep' = Asleep
  BY <1>1, <1>2 DEF Asleep, SafeStep, ShutdownTypeOK
<1> QED
  BY <1>1, <1>2, <1>3 DEF SafeStep, GroupInv, NeverPanics

LEMMA QuietGroup ==
    ASSUME SafeStep, UNCHANGED <<tpc, count, waiters, permits, wpc, panicked>>
    PROVE  GroupInv' /\ NeverPanics'
  BY DEF SafeStep, GroupInv, NeverPanics, Asleep

LEMMA SafeStepGroup ==
    ASSUME SafeStep
    PROVE  GroupInv' /\ NeverPanics'
<1>1. ASSUME NEW t \in Task, Decide(t) \/ Run(t) PROVE GroupInv' /\ NeverPanics'
  <2>1. /\ UNCHANGED <<count, waiters, permits, wpc, panicked>>
        /\ \A u \in Task : tpc'[u] = "release" <=> tpc[u] = "release"
    BY <1>1 DEF Decide, Run, groupVars, waitVars, SafeStep, ShutdownTypeOK
  <2>2. Asleep' = Asleep
    BY Zenon, <2>1 DEF Asleep
  <2> QED
    BY Zenon, <2>1, <2>2 DEF SafeStep, GroupInv, NeverPanics
<1>2. ASSUME NEW c \in Closer, CloseBegin(c) \/ CloseStep(c)
      PROVE  UNCHANGED <<tpc, count, waiters, permits, wpc, panicked>>
  <2>1. cpc[c] = "close" => ~closePoolCn
    BY DEF SafeStep, CloseInv
  <2> QED
    BY <1>2, <2>1 DEF CloseBegin, CloseStep, CloseChannel, CloseHook, taskVars, groupVars,
       waitVars
<1>3. CASE UNCHANGED vars
  BY <1>3, QuietGroup DEF vars
<1>4. CASE Next
  BY Zenon, <1>1, <1>2, <1>4, QuietGroup, AddGroup, DoneGroup, ReleaseGroup, WaitGroupStep,
     WakeGroup, WaitReturnGroup DEF Next, TaskStep, WaitStep
<1> QED
  BY <1>3, <1>4 DEF SafeStep

\* With submissions that keep the contract of WaitGroup.Add, no interleaving
\* of submit, Wait, done and Close panics.
THEOREM DisciplinedNeverPanics ==
    ASSUME Disciplined
    PROVE  Spec => []NeverPanics
<1>1. Init => GroupInv /\ NeverPanics /\ CountExact
  <2> SUFFICES ASSUME Init PROVE GroupInv /\ NeverPanics /\ CountExact
    OBVIOUS
  <2>1. Counted = {} /\ Asleep = {}
    BY DEF Init, Counted, Asleep
  <2>2. CountExact /\ Cardinality(Asleep) = waiters + permits
    BY <2>1, FS_EmptySet DEF CountExact, Init
  <2> QED
    BY <2>2 DEF Init, GroupInv, NeverPanics
<1>2. ShutdownTypeOK /\ CountExact /\ CloseInv /\ GroupInv /\ NeverPanics /\ [Next]_vars
        => GroupInv' /\ NeverPanics'
  BY SMTT(30), SafeStepGroup DEF SafeStep
<1> QED
  BY <1>1, <1>2, InitTypes, TypeStep, CountStep, CloseInvInit, CloseInvStep, PTL DEF Spec

-----------------------------------------------------------------------------
(***************************************************************************)
(* The default pool.                                                       *)
(***************************************************************************)

\* A closed flag is never cleared, so what a getter found closed is closed.
DefaultInv ==
    /\ life \in [Pool -> {"none", "open", "closing", "withdrawn"}]
    /\ gpc \in [Getter -> {"ready", "loaded", "answered"}]
    /\ got \in [Getter -> Pool \cup {NoPool}]
    /\ gone \in [Getter -> SUBSET Pool]
    /\ newest \in Pool \cup {NoPool} /\ defaultPool \in Pool \cup {NoPool}
    /\ \A g \in Getter : \A p \in gone[g] : IsClosed(p)
    /\ DefaultPoolIsCurrent

LEMMA DefaultStep ==
    ASSUME DefaultInv, [DefaultNext]_defaultVars
    PROVE  DefaultInv'
<1> USE DefaultPoolAssumption DEF DefaultInv, IsClosed, DefaultPoolIsCurrent
<1>1. ASSUME NEW p \in Pool, NewPool(p) PROVE DefaultInv'
  BY <1>1 DEF NewPool
<1>2. ASSUME NEW p \in Pool, SetClosed(p) PROVE DefaultInv'
  BY <1>2 DEF SetClosed
<1>3. ASSUME NEW p \in Pool, Withdraw(p) PROVE DefaultInv'
  BY <1>3 DEF Withdraw, Without
<1>4. ASSUME NEW g \in Getter, LoadDefault(g) PROVE DefaultInv'
  BY <1>4 DEF LoadDefault
<1>5. ASSUME NEW g \in Getter, LoadFlag(g) PROVE DefaultInv'
  BY <1>5 DEF LoadFlag, Answer
<1>6. ASSUME NEW g \in Getter, AskAgain(g) PROVE DefaultInv'
  BY Zenon, <1>6 DEF AskAgain
<1>7. CASE UNCHANGED defaultVars
  BY <1>7 DEF defaultVars
<1> QED
  BY Zenon, <1>1, <1>2, <1>3, <1>4, <1>5, <1>6, <1>7 DEF DefaultNext

\* GetDefaultPool never answers with a pool whose Close had begun before the
\* call, and the newest pool stays the default while it is open, for any
\* number of pools created and closed and any number of callers.
THEOREM DefaultPoolStaysCurrent == DefaultSpec => []DefaultPoolIsCurrent
<1>1. DefaultInit => DefaultInv
  BY DEF DefaultInit, DefaultInv, DefaultPoolIsCurrent
<1>2. DefaultInv => DefaultPoolIsCurrent
  BY DEF DefaultInv
<1> QED
  BY <1>1, <1>2, DefaultStep, PTL DEF DefaultSpec
=============================================================================
