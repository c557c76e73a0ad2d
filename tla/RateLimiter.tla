---------------------------- MODULE RateLimiter ----------------------------
(***************************************************************************)
(* The per-IP rate limiter (internal/ratelimit) as the authentication      *)
(* callbacks of internal/server/auth.go drive it.  One process per         *)
(* connection runs, for each attempt,                                      *)
(*                                                                         *)
(*     Acquire ; sleep ; check the credentials ; release ; Snapshot ; log  *)
(*                                                                         *)
(* with Snapshot and the auth-fail record on the failing path only.        *)
(*                                                                         *)
(* Granularity.  The sections of Acquire, loadOrCreate and release that    *)
(* hold the map mutex l.mu contain nothing that blocks, so each is one     *)
(* step; the only holder of l.mu across steps is Snapshot, which waits for *)
(* entry mutexes while it reads the map.  A write section is enabled while *)
(* no Snapshot reads, a read section always.  (Go also keeps new readers   *)
(* out while a writer waits; the model admits them, and so has more        *)
(* interleavings than the program.)  An entry mutex is held across steps   *)
(* from Acquire to release.                                                *)
(*                                                                         *)
(* Time.  Only differences of clock readings are ever used, so the model   *)
(* keeps, in seconds, the time since an entry's last failure (now minus    *)
(* lastFail, saturating one past IdleExpiry) and what is left of a sleep.  *)
(***************************************************************************)
EXTENDS Integers

CONSTANTS
  Conns,        \* the connections that authenticate
  RemoteAddr,   \* the remote address of each connection
  Entry,        \* the memory cells for *entry values; a bound on live ones
  None,         \* the nil entry, the free mutex
  Outcomes,     \* what the credential check may return: a set of Booleans
  MaxAuthTries, \* failures the SSH library tolerates on one connection
  MaxDelay,     \* longest sleep, in seconds
  IdleExpiry,   \* idle seconds after which an entry is dropped
  Prompt        \* TRUE: no second passes while some goroutine can run

ASSUME LimiterAssumption ==
  /\ None \notin Entry \cup Conns
  /\ Outcomes \subseteq BOOLEAN
  /\ MaxAuthTries \in Nat
  /\ MaxDelay \in Nat
  /\ IdleExpiry \in Nat
  /\ MaxDelay <= IdleExpiry
  /\ Prompt \in BOOLEAN

VARIABLES
  entries,    \* l.entries: the entry of each key, or None
  failCount,  \* e.failCount
  age,        \* seconds since e.lastFail
  holder,     \* the connection that holds e.mu, or None
  readers,    \* the connections inside Snapshot, which hold l.mu for reading
  pc,         \* where each connection's callback stands
  ent,        \* the entry its Acquire works with
  expired,    \* Acquire has already been through its expiry branch
  left,       \* what is left of its sleep
  todo,       \* the entries its Snapshot has yet to visit
  seen,       \* the count its Snapshot read under its own key
  counted,    \* the count its own failure brought its entry to
  tries,      \* authentication failures on this connection
  won         \* history: a callback of this connection has succeeded

callback == <<pc, ent, expired, left, todo, seen, counted, tries, won>>
vars == <<entries, failCount, age, holder, readers, callback>>

-----------------------------------------------------------------------------
\* An IPv4-mapped IPv6 address collapses to the IPv4 address it carries.
normalize(ip) == IF ip.family = "mapped" THEN [ip EXCEPT !.family = "v4"] ELSE ip

\* Mutant: the mapped form is not collapsed.
normalizeKeyRaw(ip) == ip

\* The copy of normalize that the callbacks look their count up with.
normalizeKey(ip) == IF ip.family = "mapped" THEN [ip EXCEPT !.family = "v4"] ELSE ip

Key(c) == normalize(RemoteAddr[c])
Keys == {Key(c) : c \in Conns}

(***************************************************************************)
(* The delay after n failures, in seconds.  The product is not reduced     *)
(* modulo 2^64 here: the counts of an instance are small.  Module Backoff  *)
(* has the exact arithmetic.                                               *)
(***************************************************************************)
computeDelay(n) ==
  IF n <= 0 THEN 0
  ELSE LET d == 2 ^ (n - 1)
       IN  IF n - 1 > 62 \/ d > MaxDelay \/ d < 0 THEN MaxDelay ELSE d

IsStale(e) == failCount[e] > 0 /\ age[e] > IdleExpiry

\* A cell no map slot and no callback refers to.
Unused(e) == (\A k \in Keys : entries[k] # e) /\ (\A c \in Conns : ent[c] # e)

\* Mutant: the slot is cleared without looking whose it is.
WithoutLooking(k, e) == [entries EXCEPT ![k] = None]

\* entries with key k removed if, and only if, it still maps to entry e.
Without(k, e) == IF entries[k] = e THEN [entries EXCEPT ![k] = None] ELSE entries

Goto(c, label) == pc' = [pc EXCEPT ![c] = label]

\* Between the return of Acquire and the end of release.
Critical == {"sleep", "succeed", "fail"}

-----------------------------------------------------------------------------
Init ==
  /\ entries = [k \in Keys |-> None]
  /\ failCount = [e \in Entry |-> 0]
  /\ age = [e \in Entry |-> 0]
  /\ holder = [e \in Entry |-> None]
  /\ readers = {}
  /\ pc = [c \in Conns |-> "idle"]
  /\ ent = [c \in Conns |-> None]
  /\ expired = [c \in Conns |-> FALSE]
  /\ left = [c \in Conns |-> 0]
  /\ todo = [c \in Conns |-> {}]
  /\ seen = [c \in Conns |-> 0]
  /\ counted = [c \in Conns |-> 0]
  /\ tries = [c \in Conns |-> 0]
  /\ won = [c \in Conns |-> FALSE]

\* loadOrCreate, the lookup under the read lock: when an attempt begins, and
\* again at the end of the expiry branch.
Lookup(c) ==
  /\ \/ pc[c] = "idle" /\ tries[c] < MaxAuthTries
     \/ pc[c] = "reload"
  /\ expired' = [expired EXCEPT ![c] = (pc[c] = "reload")]
  /\ ent' = [ent EXCEPT ![c] = entries[Key(c)]]
  /\ Goto(c, IF entries[Key(c)] = None THEN "create" ELSE "lock")
  /\ UNCHANGED <<entries, failCount, age, holder, readers, left, todo, seen,
                 counted, tries, won>>

\* Mutant: the second look is missing.
CreateBlind(c) ==
  /\ pc[c] = "create"
  /\ readers = {}
  /\ \E e \in Entry :
       /\ Unused(e)
       /\ entries' = [entries EXCEPT ![Key(c)] = e]
       /\ ent' = [ent EXCEPT ![c] = e]
       /\ failCount' = [failCount EXCEPT ![e] = 0]
       /\ age' = [age EXCEPT ![e] = 0]
  /\ Goto(c, "lock")
  /\ UNCHANGED <<holder, readers, expired, left, todo, seen, counted, tries, won>>

\* loadOrCreate, the second look and the creation under the write lock.
Create(c) ==
  /\ pc[c] = "create"
  /\ readers = {}
  /\ \/ /\ entries[Key(c)] # None
        /\ ent' = [ent EXCEPT ![c] = entries[Key(c)]]
        /\ UNCHANGED <<entries, failCount, age>>
     \/ /\ entries[Key(c)] = None
        /\ \E e \in Entry :
             /\ Unused(e)
             /\ entries' = [entries EXCEPT ![Key(c)] = e]
             /\ ent' = [ent EXCEPT ![c] = e]
             /\ failCount' = [failCount EXCEPT ![e] = 0]
             /\ age' = [age EXCEPT ![e] = 0]
  /\ Goto(c, "lock")
  /\ UNCHANGED <<holder, readers, expired, left, todo, seen, counted, tries, won>>

\* Mutant: the stale entry's mutex is not unlocked.
FindStaleLocked(c) ==
  /\ pc[c] = "lock"
  /\ holder[ent[c]] = None
  /\ ~expired[c] /\ IsStale(ent[c])
  /\ holder' = [holder EXCEPT ![ent[c]] = c]
  /\ Goto(c, "expire")
  /\ UNCHANGED <<entries, failCount, age, readers, ent, expired, left, todo, seen,
                 counted, tries, won>>

\* e.mu.Lock() on an entry found stale: Acquire unlocks it at once.
FindStale(c) ==
  /\ pc[c] = "lock"
  /\ holder[ent[c]] = None
  /\ ~expired[c] /\ IsStale(ent[c])
  /\ Goto(c, "expire")
  /\ UNCHANGED <<entries, failCount, age, holder, readers, ent, expired, left,
                 todo, seen, counted, tries, won>>

\* e.mu.Lock() on any other entry, the delay, and the return of Acquire.
\* After the expiry branch the new entry is not examined for staleness.
Enter(c) ==
  /\ pc[c] = "lock"
  /\ holder[ent[c]] = None
  /\ expired[c] \/ ~IsStale(ent[c])
  /\ holder' = [holder EXCEPT ![ent[c]] = c]
  /\ left' = [left EXCEPT ![c] = computeDelay(failCount[ent[c]])]
  /\ Goto(c, "sleep")
  /\ UNCHANGED <<entries, failCount, age, readers, ent, expired, todo, seen,
                 counted, tries, won>>

\* The expiry branch, after the stale entry's mutex has been released.
Expire(c) ==
  /\ pc[c] = "expire"
  /\ readers = {}
  /\ entries' = Without(Key(c), ent[c])
  /\ ent' = [ent EXCEPT ![c] = None]
  /\ Goto(c, "reload")
  /\ UNCHANGED <<failCount, age, holder, readers, expired, left, todo, seen,
                 counted, tries, won>>

\* Mutant: the delay is not slept.
CheckEarly(c) ==
  /\ pc[c] = "sleep"
  /\ \E ok \in Outcomes : Goto(c, IF ok THEN "succeed" ELSE "fail")
  /\ left' = [left EXCEPT ![c] = 0]
  /\ UNCHANGED <<entries, failCount, age, holder, readers, ent, expired, todo,
                 seen, counted, tries, won>>

\* The sleep is over and the credentials are checked.
Check(c) ==
  /\ pc[c] = "sleep"
  /\ left[c] = 0
  /\ \E ok \in Outcomes : Goto(c, IF ok THEN "succeed" ELSE "fail")
  /\ UNCHANGED <<entries, failCount, age, holder, readers, ent, expired, left,
                 todo, seen, counted, tries, won>>

\* release(true), then the auth-ok record.  The connection is in, unless the
\* key was only probed: then the client may sign, or go on to another attempt.
ReleaseSuccess(c) ==
  /\ pc[c] = "succeed"
  /\ readers = {}
  /\ entries' = Without(Key(c), ent[c])
  /\ holder' = [holder EXCEPT ![ent[c]] = None]
  /\ ent' = [ent EXCEPT ![c] = None]
  /\ won' = [won EXCEPT ![c] = TRUE]
  /\ \E next \in {"authed", "idle"} : Goto(c, next)
  /\ UNCHANGED <<failCount, age, readers, expired, left, todo, seen, counted,
                 tries>>

\* release(false).
ReleaseFailure(c) ==
  /\ pc[c] = "fail"
  /\ failCount' = [failCount EXCEPT ![ent[c]] = @ + 1]
  /\ age' = [age EXCEPT ![ent[c]] = 0]
  /\ holder' = [holder EXCEPT ![ent[c]] = None]
  /\ counted' = [counted EXCEPT ![c] = failCount[ent[c]] + 1]
  /\ ent' = [ent EXCEPT ![c] = None]
  /\ Goto(c, "snapshot")
  /\ UNCHANGED <<entries, readers, expired, left, todo, seen, tries, won>>

\* Snapshot takes l.mu for reading and keeps it until EndSnapshot.
BeginSnapshot(c) ==
  /\ pc[c] = "snapshot"
  /\ readers' = readers \cup {c}
  /\ todo' = [todo EXCEPT ![c] = {entries[k] : k \in Keys} \ {None}]
  /\ Goto(c, "visit")
  /\ UNCHANGED <<entries, failCount, age, holder, ent, expired, left, seen,
                 counted, tries, won>>

\* One iteration of Snapshot's loop, in any order, on an entry whose mutex
\* is free; the callback reads the count under its own key.
Visit(c) ==
  /\ pc[c] = "visit"
  /\ \E e \in todo[c] :
       /\ holder[e] = None
       /\ todo' = [todo EXCEPT ![c] = @ \ {e}]
       /\ seen' = [seen EXCEPT ![c] =
                     IF \E k \in Keys : k = normalizeKey(RemoteAddr[c]) /\ entries[k] = e
                     THEN failCount[e] ELSE @]
  /\ UNCHANGED <<entries, failCount, age, holder, readers, pc, ent, expired,
                 left, counted, tries, won>>

\* Snapshot returns, auth-fail is logged with attempt = seen, the callback
\* returns (its locals go back to zero) and the SSH library counts the failure.
EndSnapshot(c) ==
  /\ pc[c] = "visit"
  /\ todo[c] = {}
  /\ readers' = readers \ {c}
  /\ tries' = [tries EXCEPT ![c] = @ + 1]
  /\ seen' = [seen EXCEPT ![c] = 0]
  /\ counted' = [counted EXCEPT ![c] = 0]
  /\ Goto(c, "idle")
  /\ UNCHANGED <<entries, failCount, age, holder, ent, expired, left, todo, won>>

Step(c) ==
  \/ Lookup(c) \/ Create(c) \/ FindStale(c) \/ Enter(c) \/ Expire(c) \/ Check(c)
  \/ ReleaseSuccess(c) \/ ReleaseFailure(c)
  \/ BeginSnapshot(c) \/ Visit(c) \/ EndSnapshot(c)

\* A goroutine inside a callback that neither sleeps nor waits for a mutex.
Runnable(c) ==
  \/ pc[c] \in {"reload", "fail", "snapshot"}
  \/ pc[c] \in {"create", "expire", "succeed"} /\ readers = {}
  \/ pc[c] = "lock" /\ holder[ent[c]] = None
  \/ pc[c] = "sleep" /\ left[c] = 0
  \/ pc[c] = "visit" /\ (todo[c] = {} \/ \E e \in todo[c] : holder[e] = None)

\* One second passes.  A second that changes nothing is a stuttering step.
Tick ==
  /\ Prompt => \A c \in Conns : ~Runnable(c)
  /\ \/ \E c \in Conns : left[c] > 0
     \/ \E e \in Entry : failCount[e] > 0 /\ age[e] <= IdleExpiry
  /\ left' = [c \in Conns |-> IF left[c] > 0 THEN left[c] - 1 ELSE 0]
  /\ age' = [e \in Entry |-> IF failCount[e] > 0 /\ age[e] <= IdleExpiry
                             THEN age[e] + 1 ELSE age[e]]
  /\ UNCHANGED <<entries, failCount, holder, readers, pc, ent, expired, todo,
                 seen, counted, tries, won>>

\* Every connection has authenticated or used up its attempts.
Finished(c) == pc[c] = "authed" \/ (pc[c] = "idle" /\ tries[c] = MaxAuthTries)
Done == (\A c \in Conns : Finished(c)) /\ UNCHANGED vars

Next == (\E c \in Conns : Step(c)) \/ Tick \/ Done

Spec == Init /\ [][Next]_vars

(***************************************************************************)
(* A goroutine that can run does run, time passes, and a mutex that is     *)
(* released is handed on.  The number of failures is bounded, so weak      *)
(* fairness is enough where nobody succeeds: no waiter is overtaken for    *)
(* ever.                                                                   *)
(***************************************************************************)
FairSpec ==
  Spec /\ WF_vars(Tick) /\ \A c \in Conns : WF_vars(Step(c))

-----------------------------------------------------------------------------
(***************************************************************************)
(* Properties                                                              *)
(***************************************************************************)

Labels == {"idle", "create", "lock", "expire", "reload", "sleep", "succeed",
           "fail", "snapshot", "visit", "authed"}

\* Every variable has its type; a callback has an entry exactly from the end
\* of loadOrCreate to the release (or the expiry) that gives it up.
TypeOK ==
  /\ entries \in [Keys -> Entry \cup {None}]
  /\ failCount \in [Entry -> Nat]
  /\ age \in [Entry -> 0 .. IdleExpiry + 1]
  /\ holder \in [Entry -> Conns \cup {None}]
  /\ readers \subseteq Conns
  /\ pc \in [Conns -> Labels]
  /\ ent \in [Conns -> Entry \cup {None}]
  /\ \A c \in Conns : ent[c] # None <=> pc[c] \in Critical \cup {"lock", "expire"}
  /\ expired \in [Conns -> BOOLEAN]
  /\ left \in [Conns -> 0 .. MaxDelay]
  /\ todo \in [Conns -> SUBSET Entry]
  /\ seen \in [Conns -> Nat]
  /\ counted \in [Conns -> Nat]
  /\ tries \in [Conns -> Nat]
  /\ won \in [Conns -> BOOLEAN]

\* Acquire returns holding the mutex of the very entry its release will
\* update, and no path (expiry, success, failure) leaves a mutex held by a
\* callback that is done with it.
LockDiscipline ==
  \A c \in Conns, e \in Entry :
    holder[e] = c <=> pc[c] \in Critical /\ ent[c] = e

\* When the credentials are checked, the full backoff for the failures
\* recorded in the entry has passed since the last of them.  The delay is
\* computed once, in Acquire: this says that nothing recorded between that
\* and the check makes it too short.
BackoffServed ==
  \A c \in Conns :
    pc[c] \in {"succeed", "fail"} /\ failCount[ent[c]] > 0
      => age[ent[c]] >= computeDelay(failCount[ent[c]])

\* An entry leaves the map only by the hand of an attempt that locked that
\* very entry: a late release(true), or an expiry decided before the slot was
\* refilled, never takes the successor's count with it.
OnlyOwnEntryRemoved ==
  [][\A k \in Keys :
       entries[k] # None /\ entries'[k] # entries[k]
         => /\ entries'[k] = None
            /\ \E c \in Conns : /\ Key(c) = k
                                /\ ent[c] = entries[k]
                                /\ pc[c] \in {"expire", "succeed"}]_vars

\* A recorded failure is forgotten only by a success under that entry's lock
\* or after IdleExpiry (SPEC section 5, Reset and Expiry).
FailuresKept ==
  [][\A k \in Keys :
       entries[k] # None /\ failCount[entries[k]] > 0 /\ entries'[k] # entries[k]
         => \/ IsStale(entries[k])
            \/ \E c \in Conns : holder[entries[k]] = c /\ pc[c] = "succeed"]_vars

\* The compute-delay, sleep, callback, record sequence is a critical section
\* per IP (the comment on Acquire).
MutualExclusionPerIP ==
  \A c, d \in Conns :
    pc[c] \in Critical /\ pc[d] \in Critical /\ Key(c) = Key(d) => c = d

\* The critical section per IP can be shared only after a success: release
\* then takes the entry out of the map while others still wait for its mutex.
\* Neither the creation of an entry nor its expiry lets two attempts in, as
\* long as no goroutine is held up for IdleExpiry between two steps (Prompt).
ExclusiveUntilSuccess ==
  \A c, d \in Conns :
    c # d /\ pc[c] \in Critical /\ pc[d] \in Critical /\ Key(c) = Key(d)
      => \E a \in Conns : Key(a) = Key(c) /\ won[a]

\* auth-fail's attempt field is the count after this failure (SPEC section 9).
LoggedAttemptIsOwn ==
  [][\A c \in Conns : EndSnapshot(c) => seen[c] = counted[c]]_vars

\* While nobody succeeds, auth-fail's attempt field is never below the count
\* this failure produced: Snapshot runs after release, so it sees it.
LoggedAttemptIncludesOwn ==
  [][\A c \in Conns : EndSnapshot(c) => seen[c] >= counted[c]]_vars

\* An authentication callback that has begun returns.
CallbackReturns ==
  \A c \in Conns : pc[c] \notin {"idle", "authed"} ~> pc[c] \in {"idle", "authed"}

\* What the limiter promises for each IP: see AttemptGate.
Gate == INSTANCE AttemptGate WITH
          KeyOf  <- [c \in Conns |-> Key(c)],
          inside <- {c \in Conns : pc[c] \in Critical},
          fails  <- [k \in Keys |-> IF entries[k] = None THEN 0
                                    ELSE failCount[entries[k]]]

GateSpec == Gate!Spec

=============================================================================
