------------------------------- MODULE Login -------------------------------
(***************************************************************************)
(* The authentication of one connection (internal/server/auth.go and       *)
(* internal/auth/credentials.go), beside the reloading of the keys (module *)
(* Startup).  The SSH library asks the publickey callback once per key and *)
(* keeps its last answer for the signature that may follow; a callback     *)
(* that waits its turn in the limiter may run at any later time.           *)
(***************************************************************************)
EXTENDS Startup

VARIABLES
  login,  \* "none", "auth", "callback", "in", "closed"
  cache,  \* the callback's question (and its answer) in the library's cache
  seen,   \* every key that was in force since the connection began
  via     \* what the client got in with

loginVars == <<login, cache, seen, via>>

\* The library's cache holds one user and key.
NoAnswer == [user |-> FALSE, key |-> "none", ok |-> FALSE]
Questions == [user : BOOLEAN, key : Keys, ok : {FALSE}]
Answers == [user : BOOLEAN, key : Keys \cup {"none"}, ok : BOOLEAN]

LoginInit ==
  /\ Init
  /\ login = "none" /\ cache = NoAnswer /\ seen = {}
  /\ via = [user |-> FALSE, method |-> "none", key |-> "none"]

Serving == Alive /\ at = "serve"

-----------------------------------------------------------------------------
\* Both comparisons always run, and both must hold.
checkWith(userMatch, passMatch) ==
  IF userMatch /\ passMatch THEN "" ELSE IF ~userMatch THEN "bad-user" ELSE "bad-password"

\* Mutant: the keys are those of the file.
CurrentUnloaded == file.keys

\* The keyset that publickeyCallback looks in.
Current == cur

-----------------------------------------------------------------------------
Connect ==
  /\ Serving /\ login = "none"
  /\ login' = "auth" /\ seen' = cur
  /\ UNCHANGED <<vars, cache, via>>

\* newServerConfig sets a callback for every method of the configuration.
passwordCallback ==
  /\ Serving /\ login = "auth" /\ password
  /\ \E user, pass \in BOOLEAN :
       /\ checkWith(user, pass) = ""
       /\ via' = [user |-> user, method |-> "password", key |-> "none"]
  /\ login' = "in"
  /\ UNCHANGED <<vars, cache, seen>>

\* A key that is not the cached one: the library calls publickeyCallback.
Offer ==
  /\ Serving /\ login = "auth" /\ publickey
  /\ \E q \in Questions :
       /\ <<q.user, q.key>> # <<cache.user, cache.key>>
       /\ cache' = q
  /\ login' = "callback"
  /\ UNCHANGED <<vars, seen, via>>

\* The callback has had its turn; its answer goes into the cache.
publickeyCallback ==
  /\ Serving /\ login = "callback"
  /\ cache' = [cache EXCEPT !.ok = cache.user /\ cache.key \in Current]
  /\ login' = "auth"
  /\ UNCHANGED <<vars, seen, via>>

\* A valid signature by a key that the cached answer accepts.
Sign ==
  /\ Serving /\ login = "auth" /\ cache.ok
  /\ login' = "in"
  /\ via' = [user |-> cache.user, method |-> "publickey", key |-> cache.key]
  /\ UNCHANGED <<vars, cache, seen>>

\* The client leaves, or has failed MaxAuthTries times.
Disconnect ==
  /\ Serving /\ login \in {"auth", "callback"}
  /\ login' = "closed" /\ cache' = NoAnswer /\ seen' = {}
  /\ UNCHANGED <<vars, via>>

\* A step of run, of the reload goroutine or of the operator.
Beside ==
  /\ Next
  /\ seen' = IF login \in {"auth", "callback"} THEN seen \cup cur' ELSE seen
  /\ UNCHANGED <<login, cache, via>>

LoginNext ==
  \/ Beside \/ Connect \/ passwordCallback \/ Offer \/ publickeyCallback \/ Sign \/ Disconnect

LoginSpec == LoginInit /\ [][LoginNext]_<<vars, loginVars>>

\* The reload goroutine runs whenever it can.
LoginFairSpec == LoginSpec /\ WF_<<vars, loginVars>>(ReloadKeys /\ Beside)

-----------------------------------------------------------------------------
\* Nobody gets in but the configured user, by a configured method and, with a
\* key, by one that was in force at some moment of this very connection: a key
\* that was revoked, and the keys reloaded, before the client connected is
\* refused, whatever the library has cached and however long the callback had
\* to wait ("any callback that starts after the swap sees the new one").
LoginJustified ==
  login = "in" =>
    /\ via.user
    /\ IF via.method = "password" THEN password ELSE publickey /\ via.key \in seen
=============================================================================
