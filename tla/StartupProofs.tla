---------------------------- MODULE StartupProofs ----------------------------
(***************************************************************************)
(* Proofs about Startup, for every set of keys and any number of edits,    *)
(* and about Login: a login is justified, for every interleaving with the  *)
(* reload goroutine.                                                       *)
(***************************************************************************)
EXTENDS Login, TLAPS

\* The parts of the state the order of the steps ties together.
Typed ==
  /\ step \in 1 .. 18
  /\ exit \in -1 .. 4
  /\ password \/ publickey
  /\ banner \in BOOLEAN

\* Past the count of the keys, a server without passwords has one; the banner
\* is printed at step 14, for a server that takes passwords.
Ordered ==
  /\ step > 16 /\ ~password => cur # {}
  /\ reloader # "off" => step > 17
  /\ banner => password /\ step > 14
  /\ banner => exit \notin {1, 2, 3}

Inv == Typed /\ Ordered

-----------------------------------------------------------------------------
\* What the table of steps says, read backwards.
LEMMA StepTable ==
  ASSUME NEW n \in 1 .. 18
  PROVE  /\ Steps[n].at \in Checks \cup {"listen", "secret"} <=> n \leq 14
         /\ Steps[n].at = "listen" <=> n = 13
         /\ Steps[n].at = "secret" <=> n = 14
         /\ Steps[n].at = "load" <=> n = 15
         /\ Steps[n].at = "count" <=> n = 16
         /\ Steps[n].at = "notify" <=> n = 17
         /\ Steps[n].at = "serve" <=> n = 18
         /\ Steps[15].code = 4 /\ Steps[18].code = 0 /\ Steps[n].code \in 0 .. 4
<1> USE DEF Steps, Checks
<1>1. CASE n \in 1 .. 6  BY <1>1
<1>2. CASE n \in 7 .. 12  BY <1>2
<1>3. CASE n \in 13 .. 18  BY <1>3
<1> QED  BY <1>1, <1>2, <1>3

\* The initial states satisfy the inductive invariant.
LEMMA InitInv == Init => Inv
<1> SUFFICES ASSUME Init PROVE Inv
  OBVIOUS
<1>1. password \/ publickey  BY Zenon DEF Init, password, publickey
<1>2. banner \in BOOLEAN  BY Zenon DEF Init
<1>3. step \in 1 .. 18 /\ exit \in -1 .. 4  BY DEF Init
<1>4. Ordered  BY DEF Init, KeysetInit, Ordered
<1> QED  BY <1>1, <1>2, <1>3, <1>4 DEF Inv, Typed

\* Every step keeps the inductive invariant.
LEMMA NextInv == Inv /\ [Next]_vars => Inv'
<1> SUFFICES ASSUME Inv, [Next]_vars PROVE Inv'
  OBVIOUS
<1> USE StepTable DEF Inv, Typed, Ordered, config, keysetVars, Alive, at, password,
          publickey, Continue, Return, Applies
<1>1. CASE Run
  <2>1. CASE Skip
    <3>1. step # 18 /\ (step = 16 => ~publickey)  BY <2>1 DEF Skip
    <3> QED  BY <2>1, <3>1 DEF Skip
  <2>2. CASE Passes  BY <2>2 DEF Passes
  <2>3. CASE Fails  BY <2>3 DEF Fails
  <2>4. CASE Listen  BY <2>4 DEF Listen
  <2>5. CASE Secret  BY <2>5 DEF Secret
  <2>6. CASE LoadKeys  BY <2>6 DEF LoadKeys, Load
  <2>7. CASE LoadKeysFails  BY <2>7 DEF LoadKeysFails
  <2>8. CASE Count  BY <2>8 DEF Count, Unauthenticable
  <2>9. CASE CountFails  BY <2>9 DEF CountFails, Unauthenticable
  <2>10. CASE StartReloader  BY <2>10 DEF StartReloader, Notify
  <2>11. CASE ServeReturns  BY <2>11 DEF ServeReturns
  <2> QED  BY <1>1, <2>1, <2>2, <2>3, <2>4, <2>5, <2>6, <2>7, <2>8, <2>9, <2>10, <2>11
              DEF Run
<1>2. CASE Sighup  BY <1>2 DEF Sighup, Deliver, rest
<1>3. CASE SighupKills  BY <1>3 DEF SighupKills
<1>4. CASE ReloadKeys
  BY <1>4 DEF ReloadKeys, Reload, Receive, Parse, Store, ReloadFails, rest
<1>5. CASE EditFile  BY <1>5 DEF EditFile, Edit, rest
<1>6. CASE Interrupt  BY <1>6 DEF Interrupt
<1>7. CASE ReloaderEnds  BY <1>7 DEF ReloaderEnds, StopReloading, rest
<1>8. CASE UNCHANGED vars  BY <1>8 DEF vars
<1> QED  BY <1>1, <1>2, <1>3, <1>4, <1>5, <1>6, <1>7, <1>8 DEF Next

\* The inductive invariant holds in every reachable state.
THEOREM InvariantHolds == Spec => []Inv
<1> QED  BY InitInv, NextInv, PTL DEF Spec

\* A server that takes only public keys has one for as long as it serves.
THEOREM PublickeyOnlyHasKeysHolds == Spec => []PublickeyOnlyHasKeys
<1>1. Inv => PublickeyOnlyHasKeys
  BY StepTable DEF Inv, Typed, Ordered, PublickeyOnlyHasKeys, at
<1> QED  BY <1>1, InvariantHolds, PTL

\* A process that has printed a password does not exit with 1, 2 or 3.
THEOREM BannerExitHolds == Spec => []BannerExit
<1>1. Inv => BannerExit  BY DEF Inv, Ordered, BannerExit
<1> QED  BY <1>1, InvariantHolds, PTL

-----------------------------------------------------------------------------
\* What a step of run leaves the reload goroutine and the keys with.
LEMMA RunTyped == Inv /\ TypeOK /\ Run => TypeOK'
<1> SUFFICES ASSUME Inv, TypeOK, Run PROVE TypeOK'
  OBVIOUS
<1> USE StepTable DEF Inv, Typed, TypeOK, config, keysetVars, Alive, at, publickey, Continue,
          Return
<1>0. Len(Steps) = 18  BY DEF Steps
<1>1. CASE Skip
  <2>1. step # 18  BY <1>1 DEF Skip, Applies
  <2> QED  BY <1>0, <1>1, <2>1 DEF Skip
<1>2. CASE Passes
  <2>1. step \leq 14  BY <1>2 DEF Passes
  <2> QED  BY <1>0, <1>2, <2>1 DEF Passes
<1>3. CASE Fails \/ LoadKeysFails \/ CountFails \/ ServeReturns
  <2>1. Steps[step].code \in -1 .. 4
    <3>1. Steps[step].code \in 0 .. 4  BY Zenon
    <3> QED  BY <3>1
  <2>2. Return(Steps[step].code)
    BY <1>3 DEF Fails, LoadKeysFails, CountFails, ServeReturns
  <2> QED  BY <2>1, <2>2
<1>4. CASE Listen  BY <1>0, <1>4 DEF Listen
<1>5. CASE Secret
  <2>1. banner' \in BOOLEAN  BY <1>5 DEF Secret, password
  <2> QED  BY <1>0, <1>5, <2>1 DEF Secret
<1>6. CASE LoadKeys
  <2>1. cur' \subseteq Keys  BY <1>6 DEF LoadKeys, Load, Files
  <2> QED  BY <1>0, <1>6, <2>1 DEF LoadKeys, Load
<1>7. CASE Count  BY <1>0, <1>7 DEF Count
<1>8. CASE StartReloader  BY <1>0, <1>8 DEF StartReloader, Notify, Applies
<1> QED  BY <1>1, <1>2, <1>3, <1>4, <1>5, <1>6, <1>7, <1>8 DEF Run

\* Every variable keeps its type, and the reload goroutine runs only in a
\* server that takes public keys.
THEOREM TypeCorrect == Spec => []TypeOK
<1>1. Init => TypeOK
  <2> SUFFICES ASSUME Init PROVE TypeOK
    OBVIOUS
  <2>1. step \in 1 .. Len(Steps) /\ exit \in -1 .. 4  BY DEF Init, Steps
  <2>2. file \in Files /\ parsed \in Files /\ cur \subseteq Keys
    BY DEF Init, KeysetInit, Files
  <2> QED  BY <2>1, <2>2, Zenon DEF Init, KeysetInit, TypeOK
<1>2. Inv /\ TypeOK /\ [Next]_vars => TypeOK'
  <2> SUFFICES ASSUME Inv, TypeOK, [Next]_vars PROVE TypeOK'
    OBVIOUS
  <2> USE DEF TypeOK, config, keysetVars, publickey, rest
  <2>1. CASE Run  BY <2>1, RunTyped
  <2>2. CASE Sighup  BY <2>2 DEF Sighup, Deliver
  <2>3. CASE SighupKills  BY <2>3 DEF SighupKills
  <2>4. CASE ReloadKeys
    <3>1. CASE Receive  BY <2>4, <3>1 DEF ReloadKeys, Receive
    <3>2. CASE Parse  BY <2>4, <3>2 DEF ReloadKeys, Parse
    <3>3. CASE Store
      <4>1. cur' \subseteq Keys  BY <3>3 DEF Store, Files
      <4> QED  BY <2>4, <3>3, <4>1 DEF ReloadKeys, Store
    <3> QED  BY <2>4, <3>1, <3>2, <3>3 DEF ReloadKeys, Reload
  <2>5. CASE EditFile  BY <2>5 DEF EditFile, Edit
  <2>6. CASE Interrupt  BY <2>6 DEF Interrupt
  <2>7. CASE ReloaderEnds  BY <2>7 DEF ReloaderEnds, StopReloading
  <2>8. CASE UNCHANGED vars  BY <2>8 DEF vars
  <2> QED  BY <2>1, <2>2, <2>3, <2>4, <2>5, <2>6, <2>7, <2>8 DEF Next
<1> QED  BY <1>1, <1>2, InvariantHolds, PTL DEF Spec

-----------------------------------------------------------------------------
(***************************************************************************)
(* Logins.                                                                 *)
(***************************************************************************)
\* An answer in the cache is about a key that was in force since the
\* connection began; so are the keys in force now.
LoginInv ==
  /\ cache \in Answers
  /\ login = "none" => ~cache.ok
  /\ login = "callback" => publickey
  /\ login \in {"auth", "callback"} =>
       /\ cur \subseteq seen
       /\ cache.ok => cache.user /\ publickey /\ cache.key \in seen
  /\ LoginJustified

\* No step of run, or beside it, changes the configured methods.
LEMMA MethodsFixed == [Next]_vars => methods' = methods
<1> SUFFICES ASSUME [Next]_vars PROVE methods' = methods
  OBVIOUS
<1> USE DEF config, Continue, Return
<1>1. CASE Run
  BY <1>1 DEF Run, Skip, Passes, Fails, Listen, Secret, LoadKeys, LoadKeysFails, Count,
     CountFails, StartReloader, ServeReturns
<1>2. CASE Sighup \/ SighupKills \/ Interrupt \/ ReloadKeys \/ ReloaderEnds \/ EditFile
  BY <1>2 DEF Sighup, SighupKills, Interrupt, ReloadKeys, ReloaderEnds, EditFile, rest
<1>3. CASE UNCHANGED vars  BY <1>3 DEF vars
<1> QED  BY <1>1, <1>2, <1>3 DEF Next

\* Initially nobody is logged in.
LEMMA InitLoginInv == LoginInit => LoginInv
  BY DEF LoginInit, LoginInv, LoginJustified, NoAnswer, Answers

\* Every step keeps the inductive invariant.
LEMMA NextLoginInv == LoginInv /\ [LoginNext]_<<vars, loginVars>> => LoginInv'
<1> SUFFICES ASSUME LoginInv, [LoginNext]_<<vars, loginVars>> PROVE LoginInv'
  OBVIOUS
<1> USE DEF LoginInv, LoginJustified, loginVars, password, publickey
<1>0. methods' = methods
  <2>1. [Next]_vars
    BY DEF LoginNext, Beside, Connect, passwordCallback, Offer, publickeyCallback, Sign,
       Disconnect, loginVars
  <2> QED  BY <2>1, MethodsFixed
<1>a. cache' \in Answers
  <2>1. CASE Offer  BY <2>1 DEF Offer, Questions, Answers
  <2>2. CASE publickeyCallback
    <3>1. (cache.user /\ cache.key \in Current) \in BOOLEAN  BY DEF Answers
    <3> QED  BY <2>2, <3>1 DEF publickeyCallback, Answers
  <2>3. CASE Disconnect  BY <2>3 DEF Disconnect, NoAnswer, Answers
  <2> QED
    BY <2>1, <2>2, <2>3 DEF LoginNext, Beside, Connect, passwordCallback, Sign
<1> USE <1>a
<1>1. CASE Beside  BY <1>0, <1>1 DEF Beside
<1>2. CASE Connect  BY <1>0, <1>2 DEF Connect, vars, keysetVars
<1>3. CASE passwordCallback
  <2>1. PICK user \in BOOLEAN, pass \in BOOLEAN :
          /\ checkWith(user, pass) = ""
          /\ via' = [user |-> user, method |-> "password", key |-> "none"]
    BY <1>3 DEF passwordCallback
  <2>2. user  BY <2>1 DEF checkWith
  <2> QED  BY <1>0, <1>3, <2>1, <2>2 DEF passwordCallback
<1>4. CASE Offer
  <2>1. PICK q \in Questions : cache' = q  BY <1>4 DEF Offer
  <2>2. ~cache'.ok  BY <2>1 DEF Questions
  <2> QED  BY <1>0, <1>4, <2>2 DEF Offer, vars, keysetVars
<1>5. CASE publickeyCallback
  <2>1. cache' = [cache EXCEPT !.ok = cache.user /\ cache.key \in cur]
    BY <1>5 DEF publickeyCallback, Current
  <2>2. cache'.user = cache.user /\ cache'.key = cache.key
    BY <2>1 DEF Answers
  <2>3. cache'.ok => cache.user /\ cache.key \in cur
    BY <2>1 DEF Answers
  <2> QED  BY <1>0, <1>5, <2>2, <2>3 DEF publickeyCallback, vars, keysetVars
<1>6. CASE Sign  BY <1>0, <1>6 DEF Sign
<1>7. CASE Disconnect  BY <1>0, <1>7 DEF Disconnect
<1>8. CASE UNCHANGED <<vars, loginVars>>  BY <1>0, <1>8 DEF vars, keysetVars
<1> QED  BY <1>1, <1>2, <1>3, <1>4, <1>5, <1>6, <1>7, <1>8 DEF LoginNext

\* Whoever is logged in is the configured user, by a configured method, and by
\* key only with one that was in force during the connection.
THEOREM LoginJustifiedHolds == LoginSpec => []LoginJustified
<1>1. LoginInv => LoginJustified  BY DEF LoginInv
<1> QED  BY <1>1, InitLoginInv, NextLoginInv, PTL DEF LoginSpec

=============================================================================
