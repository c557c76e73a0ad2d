------------------------- MODULE RateLimiterProofs -------------------------
(***************************************************************************)
(* Proofs, for every number of connections, addresses, entries, attempts   *)
(* and delays, that the entry mutexes are held exactly across the critical *)
(* section, that the backoff is served, and that an attempt removes no     *)
(* entry but its own.  Then, for behaviours in which no Acquire takes so   *)
(* long over its expiry branch that the entry it reloads goes stale too    *)
(* (Timely): that attempts of one IP exclude each other until a success,   *)
(* and that without a success the limiter is the gate of AttemptGate and   *)
(* loses no failure.  For one client Prompt makes every behaviour timely.  *)
(***************************************************************************)
EXTENDS RateLimiter, TLAPS

\* The delay is a number of seconds no larger than MaxDelay: computeDelay
\* clamps what exceeds it and what has overflowed to a negative number.
LEMMA DelayRange == \A n \in Nat : computeDelay(n) \in 0 .. MaxDelay
BY LimiterAssumption DEF computeDelay

\* The key of a connection is one of the keys of the map.
LEMMA KeyInKeys == \A c \in Conns : Key(c) \in Keys
BY DEF Keys

-----------------------------------------------------------------------------
\* The variables have their types at start.
LEMMA InitTypeOK == Init => TypeOK
BY LimiterAssumption DEF Init, TypeOK, Labels, Critical

\* Every step keeps the type invariant.
LEMMA NextTypeOK == TypeOK /\ [Next]_vars => TypeOK'
<1> SUFFICES ASSUME TypeOK, [Next]_vars PROVE TypeOK'
  OBVIOUS
<1> USE LimiterAssumption, KeyInKeys
<1>1. ASSUME NEW c \in Conns, Lookup(c) PROVE TypeOK'
  BY <1>1 DEF TypeOK, Lookup, Goto, Labels, Critical
<1>2. ASSUME NEW c \in Conns, Create(c) PROVE TypeOK'
  BY <1>2 DEF TypeOK, Create, Goto, Labels, Critical
<1>3. ASSUME NEW c \in Conns, FindStale(c) PROVE TypeOK'
  BY <1>3 DEF TypeOK, FindStale, Goto, Labels, Critical
<1>4. ASSUME NEW c \in Conns, Enter(c) PROVE TypeOK'
  BY <1>4, DelayRange DEF TypeOK, Enter, Goto, Labels, Critical
<1>5. ASSUME NEW c \in Conns, Expire(c) PROVE TypeOK'
  BY <1>5 DEF TypeOK, Expire, Without, Goto, Labels, Critical
<1>6. ASSUME NEW c \in Conns, Check(c) PROVE TypeOK'
  BY <1>6 DEF TypeOK, Check, Goto, Labels, Critical
<1>7. ASSUME NEW c \in Conns, ReleaseSuccess(c) PROVE TypeOK'
  BY <1>7 DEF TypeOK, ReleaseSuccess, Without, Goto, Labels, Critical
<1>8. ASSUME NEW c \in Conns, ReleaseFailure(c) PROVE TypeOK'
  BY <1>8 DEF TypeOK, ReleaseFailure, Goto, Labels, Critical
<1>9. ASSUME NEW c \in Conns, BeginSnapshot(c) PROVE TypeOK'
  BY <1>9 DEF TypeOK, BeginSnapshot, Goto, Labels, Critical
<1>10. ASSUME NEW c \in Conns, Visit(c) PROVE TypeOK'
  BY <1>10 DEF TypeOK, Visit, Labels, Critical
<1>11. ASSUME NEW c \in Conns, EndSnapshot(c) PROVE TypeOK'
  BY <1>11 DEF TypeOK, EndSnapshot, Goto, Labels, Critical
<1>12. CASE Tick
  BY <1>12 DEF TypeOK, Tick, Labels, Critical
<1>13. CASE UNCHANGED vars
  BY <1>13 DEF TypeOK, vars, callback
<1> QED
  BY <1>1, <1>2, <1>3, <1>4, <1>5, <1>6, <1>7, <1>8, <1>9, <1>10, <1>11,
     <1>12, <1>13 DEF Next, Step, Done

\* Every variable always has its type, and a callback refers to an entry
\* exactly while Acquire and release work with one.
THEOREM TypeCorrect == Spec => []TypeOK
BY InitTypeOK, NextTypeOK, PTL DEF Spec

-----------------------------------------------------------------------------
(***************************************************************************)
(* The inductive invariant.  LockDiscipline keeps any two critical         *)
(* sections on different entries, so nobody but the holder changes the     *)
(* count of a held entry; then what is left of a sleep and the time        *)
(* already passed since the last failure always add up to the delay.       *)
(***************************************************************************)
BackoffPending ==
  \A c \in Conns :
    pc[c] \in Critical =>
      /\ pc[c] # "sleep" => left[c] = 0
      /\ failCount[ent[c]] > 0
           => age[ent[c]] + left[c] >= computeDelay(failCount[ent[c]])

Inv == TypeOK /\ LockDiscipline /\ BackoffPending

\* No mutex is held at start.
LEMMA InitLock == Init => LockDiscipline
BY LimiterAssumption DEF Init, LockDiscipline, Critical

\* Every step of the limiter keeps the mutexes with the critical sections.
LEMMA NextLock == TypeOK /\ LockDiscipline /\ [Next]_vars => LockDiscipline'
<1> SUFFICES ASSUME TypeOK, LockDiscipline, [Next]_vars PROVE LockDiscipline'
  OBVIOUS
<1> USE LimiterAssumption, KeyInKeys DEF TypeOK, LockDiscipline, Critical, Goto
<1>1. ASSUME NEW c \in Conns, Lookup(c) PROVE LockDiscipline'
  BY <1>1 DEF Lookup
<1>2. ASSUME NEW c \in Conns, Create(c) PROVE LockDiscipline'
  BY <1>2 DEF Create
<1>3. ASSUME NEW c \in Conns, FindStale(c) PROVE LockDiscipline'
  BY <1>3 DEF FindStale
<1>4. ASSUME NEW c \in Conns, Enter(c) PROVE LockDiscipline'
  BY <1>4 DEF Enter
<1>5. ASSUME NEW c \in Conns, Expire(c) PROVE LockDiscipline'
  BY <1>5 DEF Expire
<1>6. ASSUME NEW c \in Conns, Check(c) PROVE LockDiscipline'
  BY <1>6 DEF Check
<1>7. ASSUME NEW c \in Conns, ReleaseSuccess(c) PROVE LockDiscipline'
  BY <1>7 DEF ReleaseSuccess
<1>8. ASSUME NEW c \in Conns, ReleaseFailure(c) PROVE LockDiscipline'
  BY <1>8 DEF ReleaseFailure
<1>9. ASSUME NEW c \in Conns, BeginSnapshot(c) PROVE LockDiscipline'
  BY <1>9 DEF BeginSnapshot
<1>10. ASSUME NEW c \in Conns, Visit(c) PROVE LockDiscipline'
  BY <1>10 DEF Visit
<1>11. ASSUME NEW c \in Conns, EndSnapshot(c) PROVE LockDiscipline'
  BY <1>11 DEF EndSnapshot
<1>12. CASE Tick
  BY <1>12 DEF Tick
<1>13. CASE UNCHANGED vars
  BY <1>13 DEF vars, callback
<1> QED
  BY <1>1, <1>2, <1>3, <1>4, <1>5, <1>6, <1>7, <1>8, <1>9, <1>10, <1>11,
     <1>12, <1>13 DEF Next, Step, Done

\* No sleep is under way at start.
LEMMA InitBackoff == Init => BackoffPending
BY DEF Init, BackoffPending, Critical

\* Every step keeps the rest of a sleep long enough.
LEMMA NextBackoff == Inv /\ [Next]_vars => BackoffPending'
<1> SUFFICES ASSUME Inv, [Next]_vars PROVE BackoffPending'
  OBVIOUS
<1> USE LimiterAssumption, KeyInKeys
    DEF Inv, TypeOK, LockDiscipline, BackoffPending, Critical, Goto
<1>1. ASSUME NEW c \in Conns, Lookup(c) PROVE BackoffPending'
  BY <1>1 DEF Lookup
<1>2. ASSUME NEW c \in Conns, Create(c) PROVE BackoffPending'
  BY <1>2 DEF Create
<1>3. ASSUME NEW c \in Conns, FindStale(c) PROVE BackoffPending'
  BY <1>3 DEF FindStale
<1>4. ASSUME NEW c \in Conns, Enter(c) PROVE BackoffPending'
  <2>1. ent[c] \in Entry
    BY <1>4 DEF Enter
  <2>2. computeDelay(failCount[ent[c]]) \in 0 .. MaxDelay
    BY <2>1, DelayRange
  <2> QED
    BY <1>4, <2>1, <2>2 DEF Enter
<1>5. ASSUME NEW c \in Conns, Expire(c) PROVE BackoffPending'
  BY <1>5 DEF Expire
<1>6. ASSUME NEW c \in Conns, Check(c) PROVE BackoffPending'
  BY <1>6 DEF Check
<1>7. ASSUME NEW c \in Conns, ReleaseSuccess(c) PROVE BackoffPending'
  BY <1>7 DEF ReleaseSuccess
<1>8. ASSUME NEW c \in Conns, ReleaseFailure(c) PROVE BackoffPending'
  BY <1>8 DEF ReleaseFailure
<1>9. ASSUME NEW c \in Conns, BeginSnapshot(c) PROVE BackoffPending'
  BY <1>9 DEF BeginSnapshot
<1>10. ASSUME NEW c \in Conns, Visit(c) PROVE BackoffPending'
  BY <1>10 DEF Visit
<1>11. ASSUME NEW c \in Conns, EndSnapshot(c) PROVE BackoffPending'
  BY <1>11 DEF EndSnapshot
<1>12. CASE Tick
  <2> SUFFICES ASSUME NEW d \in Conns, (pc[d] \in Critical)'
               PROVE  /\ (pc[d] # "sleep" => left[d] = 0)'
                      /\ (failCount[ent[d]] > 0
                           => age[ent[d]] + left[d] >= computeDelay(failCount[ent[d]]))'
    OBVIOUS
  <2>1. ent[d] \in Entry /\ pc[d] \in Critical
    BY <1>12 DEF Tick
  <2>2. computeDelay(failCount[ent[d]]) \in 0 .. MaxDelay
    BY <2>1, DelayRange
  <2> QED
    BY <1>12, <2>1, <2>2 DEF Tick
<1>13. CASE UNCHANGED vars
  BY <1>13 DEF vars, callback
<1> QED
  BY <1>1, <1>2, <1>3, <1>4, <1>5, <1>6, <1>7, <1>8, <1>9, <1>10, <1>11,
     <1>12, <1>13 DEF Next, Step, Done

\* The inductive invariant holds in every reachable state.
THEOREM InvariantHolds == Spec => []Inv
<1>1. Init => Inv
  BY InitTypeOK, InitLock, InitBackoff DEF Inv
<1>2. Inv /\ [Next]_vars => Inv'
  BY NextTypeOK, NextLock, NextBackoff DEF Inv
<1> QED
  BY <1>1, <1>2, PTL DEF Spec

\* Acquire returns with the mutex of its entry held, release gives it up,
\* and no other path keeps one.
THEOREM LockDisciplineHolds == Spec => []LockDiscipline
<1>1. Inv => LockDiscipline
  BY DEF Inv
<1> QED
  BY <1>1, InvariantHolds, PTL

\* No credential check happens before the backoff for the failures recorded
\* in its entry has passed.
THEOREM BackoffServedHolds == Spec => []BackoffServed
<1>1. Inv => BackoffServed
  BY DEF Inv, TypeOK, BackoffPending, BackoffServed, Critical
<1> QED
  BY <1>1, InvariantHolds, PTL

\* An attempt removes no entry from the map but the one it locked.
THEOREM OnlyOwnEntryRemovedHolds == Spec => OnlyOwnEntryRemoved
<1> DEFINE Own(k) == entries[k] # None /\ entries'[k] # entries[k]
                       => /\ entries'[k] = None
                          /\ \E c \in Conns : /\ Key(c) = k
                                              /\ ent[c] = entries[k]
                                              /\ pc[c] \in {"expire", "succeed"}
<1>1. TypeOK /\ [Next]_vars => [\A k \in Keys : Own(k)]_vars
  <2> SUFFICES ASSUME TypeOK, [Next]_vars, NEW k \in Keys,
                      entries[k] # None, entries'[k] # entries[k]
               PROVE  /\ entries'[k] = None
                      /\ \E c \in Conns : /\ Key(c) = k
                                          /\ ent[c] = entries[k]
                                          /\ pc[c] \in {"expire", "succeed"}
    OBVIOUS
  <2> USE KeyInKeys DEF TypeOK
  <2>1. ASSUME NEW c \in Conns, Lookup(c)
         PROVE  entries'[k] = None /\ Key(c) = k /\ ent[c] = entries[k]
                /\ pc[c] \in {"expire", "succeed"}
    BY <2>1 DEF Lookup
  <2>2. ASSUME NEW c \in Conns, Create(c)
         PROVE  entries'[k] = None /\ Key(c) = k /\ ent[c] = entries[k]
                /\ pc[c] \in {"expire", "succeed"}
    BY <2>2 DEF Create
  <2>3. ASSUME NEW c \in Conns, FindStale(c)
         PROVE  entries'[k] = None /\ Key(c) = k /\ ent[c] = entries[k]
                /\ pc[c] \in {"expire", "succeed"}
    BY <2>3 DEF FindStale
  <2>4. ASSUME NEW c \in Conns, Enter(c)
         PROVE  entries'[k] = None /\ Key(c) = k /\ ent[c] = entries[k]
                /\ pc[c] \in {"expire", "succeed"}
    BY <2>4 DEF Enter
  <2>5. ASSUME NEW c \in Conns, Expire(c)
         PROVE  entries'[k] = None /\ Key(c) = k /\ ent[c] = entries[k]
                /\ pc[c] \in {"expire", "succeed"}
    BY <2>5 DEF Expire, Without
  <2>6. ASSUME NEW c \in Conns, Check(c)
         PROVE  entries'[k] = None /\ Key(c) = k /\ ent[c] = entries[k]
                /\ pc[c] \in {"expire", "succeed"}
    BY <2>6 DEF Check
  <2>7. ASSUME NEW c \in Conns, ReleaseSuccess(c)
         PROVE  entries'[k] = None /\ Key(c) = k /\ ent[c] = entries[k]
                /\ pc[c] \in {"expire", "succeed"}
    BY <2>7 DEF ReleaseSuccess, Without
  <2>8. ASSUME NEW c \in Conns, ReleaseFailure(c)
         PROVE  entries'[k] = None /\ Key(c) = k /\ ent[c] = entries[k]
                /\ pc[c] \in {"expire", "succeed"}
    BY <2>8 DEF ReleaseFailure
  <2>9. ASSUME NEW c \in Conns, BeginSnapshot(c)
         PROVE  entries'[k] = None /\ Key(c) = k /\ ent[c] = entries[k]
                /\ pc[c] \in {"expire", "succeed"}
    BY <2>9 DEF BeginSnapshot
  <2>10. ASSUME NEW c \in Conns, Visit(c)
         PROVE  entries'[k] = None /\ Key(c) = k /\ ent[c] = entries[k]
                /\ pc[c] \in {"expire", "succeed"}
    BY <2>10 DEF Visit
  <2>11. ASSUME NEW c \in Conns, EndSnapshot(c)
         PROVE  entries'[k] = None /\ Key(c) = k /\ ent[c] = entries[k]
                /\ pc[c] \in {"expire", "succeed"}
    BY <2>11 DEF EndSnapshot
  <2>12. ASSUME Tick \/ UNCHANGED vars PROVE FALSE
    BY <2>12 DEF Tick, vars
  <2> QED
    BY <2>1, <2>2, <2>3, <2>4, <2>5, <2>6, <2>7, <2>8, <2>9, <2>10, <2>11,
       <2>12 DEF Next, Step, Done
<1> QED
  BY <1>1, TypeCorrect, PTL DEF Spec, OnlyOwnEntryRemoved

-----------------------------------------------------------------------------
(***************************************************************************)
(* One attempt per IP.  Acquire examines the entry it locks for staleness  *)
(* once.  After its expiry branch it takes whatever entry loadOrCreate     *)
(* gives it, so two attempts can get inside with different entries if that *)
(* one has gone stale in the meantime and somebody else is expiring it.    *)
(* Timely excludes that; PromptIsTimely derives it where it can be.        *)
(***************************************************************************)
\* Some attempt for this key has succeeded.
Succeeded(k) == \E a \in Conns : Key(a) = k /\ won[a]

\* The key's entry is stale and nobody is inside with it.
OpenStale(k) == entries[k] # None /\ holder[entries[k]] = None /\ IsStale(entries[k])

\* The entry this attempt works with is no longer the one in the map.
Cut(c) == ent[c] # None /\ ent[c] # entries[Key(c)]

\* An Acquire that has expired its entry, or will find that others have.
Past(c) ==
  \/ pc[c] = "reload"
  \/ pc[c] \in {"create", "lock"} /\ expired[c]
  \/ Cut(c)

\* No Acquire takes so long over its expiry branch that the entry which
\* replaced the expired one is stale as well.
Timely == \A c \in Conns : Past(c) => ~OpenStale(Key(c)) \/ Succeeded(Key(c))

\* Keys and the attempts for different keys never share an entry.
Owned ==
  /\ \A k, l \in Keys : entries[k] # None /\ entries[k] = entries[l] => k = l
  /\ \A c \in Conns, k \in Keys : ent[c] # None /\ ent[c] = entries[k] => k = Key(c)
  /\ \A c, d \in Conns : ent[c] # None /\ ent[c] = ent[d] => Key(c) = Key(d)

\* Until a success, an entry that is out of the map, or about to be taken out
\* by an expiry, is stale, nobody is inside with it and nobody can get inside:
\* whoever still waits for its mutex has yet to examine it.
Abandoned ==
  \A c \in Conns :
    ~Succeeded(Key(c)) /\ (Cut(c) \/ pc[c] = "expire") =>
      /\ pc[c] \in {"lock", "expire"}
      /\ IsStale(ent[c]) /\ holder[ent[c]] = None
      /\ pc[c] = "lock" => ~expired[c]

\* No entry exists at start.
LEMMA InitOwned == Init => Owned
BY DEF Init, Owned

\* loadOrCreate hands an entry out under its own key only, and makes a new one
\* of a cell nobody refers to.
LEMMA NextOwned == TypeOK /\ Owned /\ [Next]_vars => Owned'
<1> SUFFICES ASSUME TypeOK, Owned, [Next]_vars PROVE Owned'
  OBVIOUS
<1> USE LimiterAssumption, KeyInKeys DEF TypeOK, Owned, Goto
<1>1. ASSUME NEW c \in Conns, Lookup(c) PROVE Owned'
  BY <1>1 DEF Lookup
<1>2. ASSUME NEW c \in Conns, Create(c) PROVE Owned'
  BY <1>2 DEF Create, Unused
<1>3. ASSUME NEW c \in Conns, Expire(c) PROVE Owned'
  BY <1>3 DEF Expire, Without
<1>4. ASSUME NEW c \in Conns, ReleaseSuccess(c) PROVE Owned'
  BY <1>4 DEF ReleaseSuccess, Without
<1>5. ASSUME NEW c \in Conns, ReleaseFailure(c) PROVE Owned'
  BY <1>5 DEF ReleaseFailure
<1>6. ASSUME NEW c \in Conns,
             FindStale(c) \/ Enter(c) \/ Check(c) \/ BeginSnapshot(c) \/ Visit(c)
               \/ EndSnapshot(c)
      PROVE  Owned'
  BY <1>6 DEF FindStale, Enter, Check, BeginSnapshot, Visit, EndSnapshot
<1>7. CASE Tick \/ UNCHANGED vars
  BY <1>7 DEF Tick, vars, callback
<1> QED
  BY <1>1, <1>2, <1>3, <1>4, <1>5, <1>6, <1>7 DEF Next, Step, Done

\* No entry is in use at start.
LEMMA InitAbandoned == Init => Abandoned
BY DEF Init, Abandoned, Cut

\* A success is never undone.
LEMMA SucceededStays ==
  TypeOK /\ [Next]_vars => \A k \in Keys : Succeeded(k) => Succeeded(k)'
<1> SUFFICES ASSUME TypeOK, [Next]_vars, NEW a \in Conns, won[a]
             PROVE  won'[a]
  BY DEF Succeeded
<1> USE DEF TypeOK, Goto
<1>1. ASSUME NEW c \in Conns, Step(c) PROVE won'[a]
  BY <1>1 DEF Step, Lookup, Create, FindStale, Enter, Expire, Check, ReleaseSuccess,
              ReleaseFailure, BeginSnapshot, Visit, EndSnapshot
<1>2. CASE Tick \/ UNCHANGED vars
  BY <1>2 DEF Tick, vars, callback
<1> QED
  BY <1>1, <1>2 DEF Next, Done

\* A step taken in a timely state abandons no entry that anybody is inside with
\* or can get inside with.
LEMMA NextAbandoned ==
  TypeOK /\ LockDiscipline /\ Owned /\ Abandoned /\ Timely /\ [Next]_vars => Abandoned'
<1> SUFFICES ASSUME TypeOK, LockDiscipline, Owned, Abandoned, Timely, [Next]_vars,
                    NEW d \in Conns, ~Succeeded(Key(d))',
                    (Cut(d) \/ pc[d] = "expire")'
             PROVE  (/\ pc[d] \in {"lock", "expire"}
                     /\ IsStale(ent[d]) /\ holder[ent[d]] = None
                     /\ pc[d] = "lock" => ~expired[d])'
  BY DEF Abandoned
<1> DEFINE Gone == /\ pc[d] \in {"lock", "expire"}
                   /\ IsStale(ent[d]) /\ holder[ent[d]] = None
                   /\ pc[d] = "lock" => ~expired[d]
<1>0. /\ ~Succeeded(Key(d))
      /\ Cut(d) \/ pc[d] = "expire" => Gone
      /\ Past(d) => ~OpenStale(Key(d))
  BY SucceededStays, KeyInKeys DEF Abandoned, Timely
<1> USE LimiterAssumption, KeyInKeys, <1>0 DEF TypeOK, Goto, Cut
<1>1. ASSUME NEW c \in Conns, Lookup(c) PROVE Gone'
  BY <1>1 DEF Lookup, IsStale
<1>2. ASSUME NEW c \in Conns, Create(c) PROVE Gone'
  BY <1>2 DEF Create, Unused, IsStale
<1>3. ASSUME NEW c \in Conns, FindStale(c) PROVE Gone'
  BY <1>3 DEF FindStale, IsStale
<1>4. ASSUME NEW c \in Conns, Enter(c) PROVE Gone'
  <2>1. Gone /\ ent[d] \in Entry /\ ent[d]' = ent[d]
    BY <1>4 DEF Enter
  <2>2. ent[c] # ent[d]
    <3> SUFFICES ASSUME ent[c] = ent[d] PROVE FALSE
      OBVIOUS
    <3>1. Key(c) = Key(d) /\ expired[c] /\ pc[c] = "lock"
      BY <1>4, <2>1 DEF Enter, Owned
    <3>2. CASE Cut(d)
      BY <3>1, <3>2 DEF Abandoned
    <3>3. CASE ~Cut(d)
      BY <2>1, <3>1, <3>3 DEF Timely, Past, OpenStale
    <3> QED
      BY <3>2, <3>3
  <2> QED
    BY <1>4, <2>1, <2>2 DEF Enter, IsStale
<1>5. ASSUME NEW c \in Conns, Expire(c) PROVE Gone'
  <2>1. d # c /\ ent[d] \in Entry /\ ent'[d] = ent[d] /\ pc'[d] = pc[d]
    BY <1>5 DEF Expire
  <2>2. CASE Cut(d) \/ pc[d] = "expire"
    BY <1>5, <2>1, <2>2 DEF Expire, IsStale
  <2>3. CASE ~Cut(d) /\ pc[d] # "expire"
    <3>1. ent[c] = ent[d] /\ Key(c) = Key(d) /\ pc[c] = "expire"
      BY <1>5, <2>1, <2>3 DEF Expire, Without, Owned
    <3>2. IsStale(ent[c]) /\ holder[ent[c]] = None
      BY <3>1 DEF Abandoned
    <3>3. pc[d] = "lock"
      BY <2>1, <2>3, <3>1, <3>2 DEF LockDiscipline
    <3>4. ~expired[d]
      BY <2>1, <2>3, <3>1, <3>2, <3>3 DEF Past, OpenStale
    <3> QED
      BY <1>5, <2>1, <3>1, <3>2, <3>3, <3>4 DEF Expire, IsStale
  <2> QED
    BY <2>2, <2>3
<1>6. ASSUME NEW c \in Conns, Check(c) PROVE Gone'
  BY <1>6 DEF Check, IsStale
<1>7. ASSUME NEW c \in Conns, ReleaseSuccess(c) PROVE Gone'
  <2>1. Key(c) # Key(d)
    BY <1>7 DEF ReleaseSuccess, Succeeded
  <2>2. d # c /\ ent[d] \in Entry /\ ent'[d] = ent[d] /\ pc'[d] = pc[d]
    BY <1>7, <2>1 DEF ReleaseSuccess
  <2>3. ent[c] # ent[d] /\ entries'[Key(d)] = entries[Key(d)]
    BY <1>7, <2>1, <2>2 DEF ReleaseSuccess, Owned, Without
  <2> QED
    BY <1>7, <2>2, <2>3 DEF ReleaseSuccess, IsStale
<1>8. ASSUME NEW c \in Conns, ReleaseFailure(c) PROVE Gone'
  <2>1. d # c /\ ent[d] \in Entry /\ ent'[d] = ent[d] /\ Gone
    BY <1>8 DEF ReleaseFailure
  <2>2. ent[c] # ent[d]
    BY <1>8, <2>1 DEF ReleaseFailure, LockDiscipline, Critical
  <2> QED
    BY <1>8, <2>1, <2>2 DEF ReleaseFailure, IsStale
<1>9. ASSUME NEW c \in Conns, BeginSnapshot(c) \/ Visit(c) \/ EndSnapshot(c) PROVE Gone'
  BY <1>9 DEF BeginSnapshot, Visit, EndSnapshot, IsStale
<1>10. CASE Tick
  BY <1>10 DEF Tick, IsStale
<1>11. CASE UNCHANGED vars
  BY <1>11 DEF vars, callback, IsStale
<1> QED
  BY <1>1, <1>2, <1>3, <1>4, <1>5, <1>6, <1>7, <1>8, <1>9, <1>10, <1>11
     DEF Next, Step, Done

\* Snapshot holds l.mu for reading from its begin to its end, and meanwhile no
\* entry joins or leaves the map.
Reading ==
  /\ readers = {c \in Conns : pc[c] = "visit"}
  /\ \A c \in readers : \A e \in todo[c] : \E k \in Keys : entries[k] = e

\* Nobody reads at start.
LEMMA InitReading == Init => Reading
BY DEF Init, Reading

\* The write sections of Acquire, loadOrCreate and release keep out of the way
\* of a Snapshot.
LEMMA NextReading == TypeOK /\ Reading /\ [Next]_vars => Reading'
<1> SUFFICES ASSUME TypeOK, Reading, [Next]_vars PROVE Reading'
  OBVIOUS
<1> USE LimiterAssumption, KeyInKeys DEF TypeOK, Reading, Goto
<1>1. ASSUME NEW c \in Conns, Lookup(c) PROVE Reading'
  BY <1>1 DEF Lookup
<1>2. ASSUME NEW c \in Conns, Create(c) PROVE Reading'
  BY <1>2 DEF Create
<1>3. ASSUME NEW c \in Conns, Expire(c) PROVE Reading'
  BY <1>3 DEF Expire
<1>4. ASSUME NEW c \in Conns, ReleaseSuccess(c) PROVE Reading'
  BY <1>4 DEF ReleaseSuccess
<1>5. ASSUME NEW c \in Conns, ReleaseFailure(c) PROVE Reading'
  BY <1>5 DEF ReleaseFailure
<1>6. ASSUME NEW c \in Conns, FindStale(c) \/ Enter(c) \/ Check(c) PROVE Reading'
  BY <1>6 DEF FindStale, Enter, Check
<1>7. ASSUME NEW c \in Conns, BeginSnapshot(c) PROVE Reading'
  BY <1>7 DEF BeginSnapshot
<1>8. ASSUME NEW c \in Conns, Visit(c) PROVE Reading'
  BY <1>8 DEF Visit
<1>9. ASSUME NEW c \in Conns, EndSnapshot(c) PROVE Reading'
  BY <1>9 DEF EndSnapshot
<1>10. CASE Tick \/ UNCHANGED vars
  BY <1>10 DEF Tick, vars, callback
<1> QED
  BY <1>1, <1>2, <1>3, <1>4, <1>5, <1>6, <1>7, <1>8, <1>9, <1>10 DEF Next, Step, Done

\* Nobody is past an expiry at start.
LEMMA InitTimely == Init => Timely
BY DEF Init, Timely, Past, Cut

\* What a step that takes no time does to timeliness: an entry goes stale only
\* as time passes, a fresh one has no failures, and an Acquire that gets past
\* its expiry leaves the slot empty or finds it refilled.
LEMMA StepTimely ==
  ASSUME TypeOK, Owned, Timely, NEW c \in Conns, Step(c) PROVE Timely'
<1> SUFFICES ASSUME NEW d \in Conns, Past(d)', OpenStale(Key(d))', ~Succeeded(Key(d))'
             PROVE  FALSE
  BY DEF Timely
<1>0. ~Succeeded(Key(d)) /\ (Past(d) => ~OpenStale(Key(d)))
  BY SucceededStays, KeyInKeys DEF Timely, Next
<1> USE LimiterAssumption, KeyInKeys, <1>0 DEF TypeOK, Goto, Past, Cut, OpenStale
<1>1. CASE Lookup(c)
  BY <1>1 DEF Lookup, IsStale
<1>2. CASE Create(c)
  BY <1>2 DEF Create, Unused, IsStale
<1>3. CASE FindStale(c)
  BY <1>3 DEF FindStale, IsStale
<1>4. CASE Enter(c)
  BY <1>4 DEF Enter, IsStale
<1>5. CASE Expire(c)
  BY <1>5 DEF Expire, Without, IsStale, Owned
<1>6. CASE Check(c)
  BY <1>6 DEF Check, IsStale
<1>7. CASE ReleaseSuccess(c)
  <2>1. Key(c) # Key(d)
    BY <1>7 DEF ReleaseSuccess, Succeeded
  <2>2. /\ d # c /\ ent'[d] = ent[d] /\ pc'[d] = pc[d]
        /\ entries'[Key(d)] = entries[Key(d)] /\ entries[Key(d)] # ent[c]
    BY <1>7, <2>1 DEF ReleaseSuccess, Without, Owned, Critical
  <2> QED
    BY <1>7, <2>2 DEF ReleaseSuccess, IsStale
<1>8. CASE ReleaseFailure(c)
  <2>1. entries[Key(d)] # ent[c]
    BY <1>8 DEF ReleaseFailure, IsStale, Critical
  <2> QED
    BY <1>8, <2>1 DEF ReleaseFailure, IsStale
<1>9. CASE BeginSnapshot(c) \/ Visit(c) \/ EndSnapshot(c)
  BY <1>9 DEF BeginSnapshot, Visit, EndSnapshot, IsStale
<1> QED
  BY <1>1, <1>2, <1>3, <1>4, <1>5, <1>6, <1>7, <1>8, <1>9 DEF Step

\* All connections come from one client, by whichever form of its address.
OneClient == \A c, d \in Conns : Key(c) = Key(d)

\* For one client a second that passes with nobody able to run finds every
\* Acquire past its expiry waiting for the mutex of the client's one entry, or
\* for a Snapshot that waits for it; so somebody is inside with that entry.
LEMMA TickTimely ==
  ASSUME Prompt, OneClient, TypeOK, Abandoned, Reading, Timely, Tick
  PROVE  Timely'
<1> SUFFICES ASSUME NEW d \in Conns, Past(d)', OpenStale(Key(d))', ~Succeeded(Key(d))'
             PROVE  FALSE
  BY DEF Timely
<1>1. /\ Past(d) /\ ~Succeeded(Key(d)) /\ ~Runnable(d)
      /\ entries[Key(d)] # None /\ holder[entries[Key(d)]] = None
  BY DEF Tick, Past, Cut, Succeeded, OpenStale
<1>2. readers = {}
  <2> SUFFICES ASSUME NEW r \in Conns, r \in readers PROVE FALSE
    BY DEF TypeOK
  <2>1. pc[r] = "visit" /\ ~Runnable(r)
    BY DEF Reading, Tick
  <2>2. PICK e \in todo[r] : holder[e] # None
    BY <2>1 DEF Runnable
  <2>3. PICK k \in Keys : entries[k] = e
    BY <2>2 DEF Reading
  <2>4. k = Key(d)
    BY DEF Keys, OneClient
  <2> QED
    BY <1>1, <2>2, <2>3, <2>4
<1>3. pc[d] = "lock" /\ holder[ent[d]] # None
  BY <1>1, <1>2 DEF Past, Runnable, Abandoned
<1>4. ~Cut(d)
  BY <1>1, <1>3 DEF Abandoned
<1> QED
  BY <1>1, <1>3, <1>4 DEF Cut, TypeOK, Critical

(***************************************************************************)
(* What holds in timely behaviours, for any number of clients.             *)
(***************************************************************************)
Orderly == Inv /\ Owned /\ Abandoned /\ Reading

\* The initial state is orderly.
LEMMA InitOrderly == Init => Orderly
BY InitTypeOK, InitLock, InitBackoff, InitOwned, InitAbandoned, InitReading DEF Orderly, Inv

\* A step from a timely state keeps all of it.
LEMMA NextOrderly == Orderly /\ Timely /\ [Next]_vars => Orderly'
BY NextTypeOK, NextLock, NextBackoff, NextOwned, NextAbandoned, NextReading DEF Orderly, Inv

\* In a timely behaviour no entry is abandoned while somebody can use it.
LEMMA OrderlyHolds == Spec /\ []Timely => []Orderly
BY InitOrderly, NextOrderly, PTL DEF Spec

\* For one client, with goroutines that run when they can, every behaviour is
\* timely: Acquire need not examine the reloaded entry again.
THEOREM PromptIsTimely ==
  ASSUME Prompt, OneClient
  PROVE  Spec => []Timely
<1>1. Init => Timely
  BY InitTimely
<1>2. Orderly /\ Timely /\ [Next]_vars => Timely'
  <2> SUFFICES ASSUME Orderly, Timely, [Next]_vars PROVE Timely'
    OBVIOUS
  <2>1. ASSUME NEW c \in Conns, Step(c) PROVE Timely'
    BY <2>1, StepTimely DEF Orderly, Inv
  <2>2. CASE Tick
    BY <2>2, TickTimely DEF Orderly, Inv
  <2>3. CASE UNCHANGED vars
    BY <2>3 DEF vars, callback, Timely, Past, Cut, OpenStale, IsStale, Succeeded
  <2> QED
    BY <2>1, <2>2, <2>3 DEF Next, Done
<1> QED
  BY <1>1, <1>2, InitOrderly, NextOrderly, PTL DEF Spec

\* In an orderly state two attempts for one IP are inside only after a success.
LEMMA OrderlyExclusive == Orderly => ExclusiveUntilSuccess
<1> SUFFICES ASSUME Orderly, NEW c \in Conns, NEW d \in Conns,
                    pc[c] \in Critical, pc[d] \in Critical, Key(c) = Key(d),
                    ~Succeeded(Key(c))
             PROVE  c = d
  BY DEF ExclusiveUntilSuccess, Succeeded
<1> USE DEF Orderly, Inv, TypeOK
<1>1. ent[c] \in Entry /\ holder[ent[c]] = c /\ ent[d] \in Entry /\ holder[ent[d]] = d
  BY DEF LockDiscipline
<1>2. ent[c] = entries[Key(c)] /\ ent[d] = entries[Key(d)]
  BY <1>1, LimiterAssumption DEF Abandoned, Cut
<1> QED
  BY <1>1, <1>2

\* The section from Acquire to release is exclusive per IP until a success, in
\* every behaviour in which no Acquire is overtaken by a second expiry.
THEOREM ExclusiveWhenTimely == Spec /\ []Timely => []ExclusiveUntilSuccess
BY OrderlyHolds, OrderlyExclusive, PTL

\* The section from Acquire to release is exclusive until a success among any
\* number of connections of one client.
THEOREM ExclusiveUntilSuccessHolds ==
  ASSUME Prompt, OneClient
  PROVE  Spec => []ExclusiveUntilSuccess
BY PromptIsTimely, ExclusiveWhenTimely, PTL

\* No callback has succeeded, or is about to.
NoneSucceeds == \A c \in Conns : pc[c] # "succeed" /\ ~won[c]

\* The credential check never takes a connection to success.
LEMMA NoneSucceedsHolds ==
  ASSUME Outcomes = {FALSE}
  PROVE  Spec => []NoneSucceeds
<1>1. Init => NoneSucceeds
  BY DEF Init, NoneSucceeds
<1>2. TypeOK /\ NoneSucceeds /\ [Next]_vars => NoneSucceeds'
  <2> SUFFICES ASSUME TypeOK, NoneSucceeds, [Next]_vars PROVE NoneSucceeds'
    OBVIOUS
  <2> USE DEF TypeOK, NoneSucceeds, Goto
  <2>1. ASSUME NEW c \in Conns, Step(c) PROVE NoneSucceeds'
    BY <2>1 DEF Step, Lookup, Create, FindStale, Enter, Expire, Check, ReleaseSuccess,
                ReleaseFailure, BeginSnapshot, Visit, EndSnapshot
  <2>2. CASE Tick \/ UNCHANGED vars
    BY <2>2 DEF Tick, vars, callback
  <2> QED
    BY <2>1, <2>2 DEF Next, Done
<1> QED
  BY <1>1, <1>2, TypeCorrect, PTL DEF Spec

\* A step forgets a recorded failure only of a stale entry or under the lock of
\* a success.
LEMMA StepKeepsFailures ==
  ASSUME Orderly, [Next]_vars, NEW k \in Keys, ~Succeeded(k),
         entries[k] # None, entries'[k] # entries[k]
  PROVE  \/ IsStale(entries[k])
         \/ \E c \in Conns : holder[entries[k]] = c /\ pc[c] = "succeed"
<1> USE KeyInKeys DEF Orderly, Inv, TypeOK
<1>1. ASSUME NEW c \in Conns, Expire(c) PROVE IsStale(entries[k])
  <2>1. ent[c] = entries[k] /\ Key(c) = k /\ pc[c] = "expire"
    BY <1>1 DEF Expire, Without
  <2> QED
    BY <2>1 DEF Abandoned
<1>2. ASSUME NEW c \in Conns, ReleaseSuccess(c)
      PROVE  holder[entries[k]] = c /\ pc[c] = "succeed"
  <2>1. ent[c] = entries[k] /\ pc[c] = "succeed" /\ ent[c] \in Entry
    BY <1>2 DEF ReleaseSuccess, Without, Critical
  <2> QED
    BY <2>1 DEF LockDiscipline, Critical
<1>3. ASSUME NEW c \in Conns,
             Lookup(c) \/ Create(c) \/ FindStale(c) \/ Enter(c) \/ Check(c)
               \/ ReleaseFailure(c) \/ BeginSnapshot(c) \/ Visit(c) \/ EndSnapshot(c)
      PROVE  FALSE
  BY <1>3 DEF Lookup, Create, FindStale, Enter, Check, ReleaseFailure, BeginSnapshot,
              Visit, EndSnapshot
<1>4. ASSUME Tick \/ UNCHANGED vars PROVE FALSE
  BY <1>4 DEF Tick, vars
<1> QED
  BY <1>1, <1>2, <1>3, <1>4 DEF Next, Step, Done

\* In a timely behaviour without a success no failure is forgotten before its
\* entry has gone stale.
THEOREM FailuresKeptWhenTimely ==
  ASSUME Outcomes = {FALSE}
  PROVE  Spec /\ []Timely => FailuresKept
<1> DEFINE Kept == \A k \in Keys :
                     entries[k] # None /\ failCount[entries[k]] > 0 /\ entries'[k] # entries[k]
                       => \/ IsStale(entries[k])
                          \/ \E c \in Conns : holder[entries[k]] = c /\ pc[c] = "succeed"
<1>1. Orderly /\ NoneSucceeds /\ [Next]_vars => [Kept]_vars
  BY StepKeepsFailures DEF NoneSucceeds, Succeeded
<1> QED
  BY <1>1, OrderlyHolds, NoneSucceedsHolds, PTL DEF Spec, FailuresKept

\* However many connections of one client fail, in whatever interleaving, no
\* failure is forgotten before IdleExpiry.
THEOREM FailuresKeptHolds ==
  ASSUME Prompt, OneClient, Outcomes = {FALSE}
  PROVE  Spec => FailuresKept
BY PromptIsTimely, FailuresKeptWhenTimely, PTL

-----------------------------------------------------------------------------
(***************************************************************************)
(* The refinement.  While no attempt succeeds the limiter implements       *)
(* AttemptGate: it lets attempts from one IP through one at a time, counts *)
(* every failure, and forgets a key's count only while nobody is inside.   *)
(* (After a success it does not: an attempt that waits for the mutex of    *)
(* the removed entry goes on with it.)                                     *)
(***************************************************************************)
\* The attempt gate as the limiter's state shows it.
GateInside == {c \in Conns : pc[c] \in Critical}
GateFails == [k \in Keys |-> IF entries[k] = None THEN 0 ELSE failCount[entries[k]]]

\* While nobody succeeds, whoever is inside is inside with the entry in the map.
LEMMA InsideAttached ==
  ASSUME Orderly, NoneSucceeds, NEW c \in Conns, pc[c] \in Critical
  PROVE  ent[c] \in Entry /\ holder[ent[c]] = c /\ entries[Key(c)] = ent[c]
<1>1. ent[c] \in Entry /\ holder[ent[c]] = c
  BY DEF Orderly, Inv, TypeOK, LockDiscipline
<1> QED
  BY <1>1, LimiterAssumption DEF Orderly, Inv, TypeOK, Abandoned, Cut, NoneSucceeds, Succeeded

\* A step of the limiter is a step of the gate or changes nothing it shows: an
\* entry is locked only while nobody else is inside, a failure is counted once
\* and under its own key, and an expiry finds nobody inside.
LEMMA GateStep ==
  Orderly /\ NoneSucceeds /\ Timely /\ [Next]_vars => [Gate!Next]_<<GateInside, GateFails>>
<1> SUFFICES ASSUME Orderly, NoneSucceeds, Timely, [Next]_vars
             PROVE  [Gate!Next]_<<GateInside, GateFails>>
  OBVIOUS
<1> USE LimiterAssumption, KeyInKeys DEF Orderly, Inv, TypeOK, Goto, GateInside, GateFails
<1>1. ASSUME NEW c \in Conns, Enter(c) PROVE Gate!Enter(c)
  <2>1. entries[Key(c)] = ent[c]
    <3>1. ~Succeeded(Key(c)) /\ pc[c] = "lock" /\ (expired[c] \/ ~IsStale(ent[c]))
      BY <1>1 DEF Enter, NoneSucceeds, Succeeded
    <3>2. ~Cut(c)
      BY <3>1 DEF Abandoned
    <3> QED
      BY <1>1, <3>2 DEF Enter, Cut
  <2>2. \A d \in Conns : pc[d] \in Critical => Key(d) # Key(c)
    BY <1>1, <2>1, InsideAttached DEF Enter
  <2>3. GateInside' = GateInside \cup {c}
    BY <1>1 DEF Enter, Critical
  <2>4. UNCHANGED GateFails
    BY <1>1 DEF Enter
  <2> QED
    BY <2>2, <2>3, <2>4 DEF Gate!Enter
<1>2. ASSUME NEW c \in Conns, ReleaseFailure(c) PROVE Gate!Fail(c)
  <2>1. c \in GateInside /\ GateInside' = GateInside \ {c}
    BY <1>2 DEF ReleaseFailure, Critical
  <2>2. GateFails' = [GateFails EXCEPT ![Key(c)] = @ + 1]
    <3>1. ent[c] \in Entry /\ entries[Key(c)] = ent[c] /\ entries' = entries
      BY <1>2, <2>1, InsideAttached DEF ReleaseFailure
    <3>2. failCount' = [failCount EXCEPT ![ent[c]] = @ + 1]
      BY <1>2 DEF ReleaseFailure
    <3>3. \A k \in Keys : k # Key(c) => entries[k] # ent[c]
      BY <3>1 DEF Owned
    <3> QED
      BY <3>1, <3>2, <3>3
  <2> QED
    BY <2>1, <2>2 DEF Gate!Fail
<1>3. ASSUME NEW c \in Conns, Expire(c)
      PROVE  Gate!Forget(Key(c)) \/ UNCHANGED <<GateInside, GateFails>>
  <2>1. UNCHANGED GateInside
    BY <1>3 DEF Expire, Critical
  <2>2. CASE entries[Key(c)] # ent[c]
    BY <1>3, <2>1, <2>2 DEF Expire, Without
  <2>3. CASE entries[Key(c)] = ent[c]
    <3>1. holder[ent[c]] = None
      BY <1>3 DEF Expire, Abandoned, NoneSucceeds, Succeeded
    <3>2. \A d \in Conns : pc[d] \in Critical => Key(d) # Key(c)
      BY <2>3, <3>1, InsideAttached
    <3>3. GateFails' = [GateFails EXCEPT ![Key(c)] = 0]
      BY <1>3, <2>3 DEF Expire, Without
    <3> QED
      BY <2>1, <3>2, <3>3 DEF Gate!Forget
  <2> QED
    BY <2>2, <2>3
<1>4. ASSUME NEW c \in Conns, Create(c) PROVE UNCHANGED <<GateInside, GateFails>>
  <2>1. UNCHANGED GateInside
    BY <1>4 DEF Create, Critical
  <2>2. UNCHANGED GateFails
    BY <1>4 DEF Create, Unused
  <2> QED
    BY <2>1, <2>2
<1>5. ASSUME NEW c \in Conns,
             Lookup(c) \/ FindStale(c) \/ Check(c) \/ BeginSnapshot(c) \/ Visit(c)
               \/ EndSnapshot(c)
      PROVE  UNCHANGED <<GateInside, GateFails>>
  BY <1>5 DEF Lookup, FindStale, Check, BeginSnapshot, Visit, EndSnapshot, Critical
<1>6. ASSUME NEW c \in Conns, ReleaseSuccess(c) PROVE FALSE
  BY <1>6 DEF ReleaseSuccess, NoneSucceeds
<1>7. CASE Tick \/ UNCHANGED vars
  BY <1>7 DEF Tick, vars, callback
<1>8. Gate!Keys = Keys
  BY DEF Gate!Keys, Keys
<1> QED
  BY <1>1, <1>2, <1>3, <1>4, <1>5, <1>6, <1>7, <1>8 DEF Next, Step, Done, Gate!Next

\* In a timely behaviour without a success the limiter is an attempt gate for
\* every IP, through any number of expiries.
THEOREM GateWhenTimely ==
  ASSUME Outcomes = {FALSE}
  PROVE  Spec /\ []Timely => GateSpec
<1>1. Init => Gate!Init
  <2> SUFFICES ASSUME Init PROVE Gate!Init
    OBVIOUS
  <2>1. Gate!Keys = Keys
    BY DEF Gate!Keys, Keys
  <2>2. GateInside = {}
    BY DEF Init, GateInside, Critical
  <2>3. GateFails = [k \in Keys |-> 0]
    BY DEF Init, GateFails
  <2> QED
    BY <2>1, <2>2, <2>3 DEF Gate!Init, GateInside, GateFails
<1> QED
  BY <1>1, GateStep, OrderlyHolds, NoneSucceedsHolds, PTL
     DEF Spec, GateSpec, Gate!Spec, GateInside, GateFails

\* However many connections of one client fail, the limiter is an attempt gate:
\* one attempt at a time, every failure counted, and none forgotten under an
\* attempt.
THEOREM GateRefinement ==
  ASSUME Prompt, OneClient, Outcomes = {FALSE}
  PROVE  Spec => GateSpec
BY PromptIsTimely, GateWhenTimely, PTL

-----------------------------------------------------------------------------
(***************************************************************************)
(* The logged attempt.  From release(false) to BeginSnapshot no time       *)
(* passes, so the entry just failed on cannot be expired, and from then on *)
(* Snapshot keeps it in the map; its count only grows meanwhile.           *)
(***************************************************************************)
OwnFailureSeen ==
  \A c \in Conns :
    /\ pc[c] = "snapshot" => entries[Key(c)] # None /\ age[entries[Key(c)]] = 0
    /\ pc[c] \in {"snapshot", "visit"}
         => entries[Key(c)] # None /\ counted[c] <= failCount[entries[Key(c)]]
    /\ pc[c] = "visit" => entries[Key(c)] \in todo[c] \/ counted[c] <= seen[c]

\* Every step keeps the count of a failure in the map until its own callback
\* has read it.
LEMMA NextOwnFailureSeen ==
  ASSUME Prompt
  PROVE  Orderly /\ NoneSucceeds /\ OwnFailureSeen /\ [Next]_vars => OwnFailureSeen'
<1> SUFFICES ASSUME Orderly, NoneSucceeds, OwnFailureSeen, [Next]_vars PROVE OwnFailureSeen'
  OBVIOUS
<1> USE LimiterAssumption, KeyInKeys DEF Orderly, Inv, TypeOK, OwnFailureSeen, Goto
<1>1. ASSUME NEW c \in Conns, Lookup(c) \/ FindStale(c) \/ Enter(c) \/ Check(c)
      PROVE  OwnFailureSeen'
  BY <1>1 DEF Lookup, FindStale, Enter, Check
<1>2. ASSUME NEW c \in Conns, Create(c) PROVE OwnFailureSeen'
  BY <1>2 DEF Create, Unused
<1>3. ASSUME NEW c \in Conns, Expire(c) PROVE OwnFailureSeen'
  <2>1. readers = {} /\ IsStale(ent[c]) /\ ent[c] \in Entry
    BY <1>3 DEF Expire, Abandoned, NoneSucceeds, Succeeded
  <2>2. \A d \in Conns : pc[d] \in {"snapshot", "visit"}
                           => pc[d] = "snapshot" /\ entries[Key(d)] # ent[c]
    BY <2>1 DEF Reading, IsStale
  <2> QED
    BY <1>3, <2>1, <2>2 DEF Expire, Without
<1>4. ASSUME NEW c \in Conns, ReleaseFailure(c) PROVE OwnFailureSeen'
  <2>1. ent[c] \in Entry /\ entries[Key(c)] = ent[c]
    BY <1>4, InsideAttached DEF ReleaseFailure, Critical
  <2> QED
    BY <1>4, <2>1 DEF ReleaseFailure
<1>5. ASSUME NEW c \in Conns, BeginSnapshot(c) PROVE OwnFailureSeen'
  BY <1>5 DEF BeginSnapshot
<1>6. ASSUME NEW c \in Conns, Visit(c) PROVE OwnFailureSeen'
  <2>1. Key(c) = normalizeKey(RemoteAddr[c])
    BY DEF Key, normalize, normalizeKey
  <2> QED
    BY <1>6, <2>1 DEF Visit
<1>7. ASSUME NEW c \in Conns, EndSnapshot(c) PROVE OwnFailureSeen'
  BY <1>7 DEF EndSnapshot
<1>8. ASSUME NEW c \in Conns, ReleaseSuccess(c) PROVE FALSE
  BY <1>8 DEF ReleaseSuccess, NoneSucceeds
<1>9. CASE Tick
  BY <1>9 DEF Tick, Runnable
<1>10. CASE UNCHANGED vars
  BY <1>10 DEF vars, callback
<1> QED
  BY <1>1, <1>2, <1>3, <1>4, <1>5, <1>6, <1>7, <1>8, <1>9, <1>10 DEF Next, Step, Done

\* With goroutines that run when they can, in a timely behaviour without a
\* success, no auth-fail record announces fewer failures than its own made.
THEOREM LoggedWhenTimely ==
  ASSUME Prompt, Outcomes = {FALSE}
  PROVE  Spec /\ []Timely => LoggedAttemptIncludesOwn
<1>1. Init => OwnFailureSeen
  BY DEF Init, OwnFailureSeen
<1>2. Orderly /\ NoneSucceeds /\ OwnFailureSeen /\ [Next]_vars => OwnFailureSeen'
  BY NextOwnFailureSeen
<1>3. OwnFailureSeen => \A c \in Conns : EndSnapshot(c) => seen[c] >= counted[c]
  BY DEF OwnFailureSeen, EndSnapshot
<1> QED
  BY <1>1, <1>2, <1>3, OrderlyHolds, NoneSucceedsHolds, PTL DEF Spec, LoggedAttemptIncludesOwn

\* However many connections of one client fail, the attempt field of auth-fail
\* is never below the count that failure produced.
THEOREM LoggedAttemptIncludesOwnHolds ==
  ASSUME Prompt, OneClient, Outcomes = {FALSE}
  PROVE  Spec => LoggedAttemptIncludesOwn
BY PromptIsTimely, LoggedWhenTimely, PTL

=============================================================================
