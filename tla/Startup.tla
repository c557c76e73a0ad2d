------------------------------ MODULE Startup ------------------------------
(***************************************************************************)
(* run (cmd/minisshd/main.go): the checks of the configuration in their    *)
(* order, the listener, the password banner, the authorized keys, SIGHUP,  *)
(* and Serve, composed with the keyset (module Keyset).  What a check of a *)
(* flag, the environment or the file system looks at is left open: it      *)
(* passes, or run returns its exit code.                                   *)
(***************************************************************************)
EXTENDS Keyset, Integers, Sequences

VARIABLES
  step,        \* the next step of run
  methods,     \* the resolved --auth
  supplied,    \* a password was given by flag or environment
  hostKeySet,  \* --host-key was given
  listening,   \* the listener is bound
  banner,      \* the generated password was printed
  exit,        \* the exit code, or -1
  hungUp,      \* SIGHUP ended the process
  interrupted  \* SIGINT or SIGTERM has cancelled ctx

config == <<methods, supplied, hostKeySet>>
vars == <<step, config, listening, banner, exit, hungUp, interrupted, keysetVars>>

\* The steps of run in order, each with the exit code it can return.
Steps == <<
  [at |-> "flags", code |-> 2], [at |-> "port", code |-> 2],
  [at |-> "forwardMax", code |-> 2], [at |-> "password", code |-> 2],
  [at |-> "methods", code |-> 2], [at |-> "username", code |-> 2],
  [at |-> "logFormat", code |-> 2], [at |-> "shell", code |-> 2],
  [at |-> "dir", code |-> 4], [at |-> "keysPath", code |-> 2],
  [at |-> "hostKey", code |-> 4], [at |-> "bind", code |-> 2],
  [at |-> "listen", code |-> 3], [at |-> "secret", code |-> 1],
  [at |-> "load", code |-> 4], [at |-> "count", code |-> 2],
  [at |-> "notify", code |-> 0], [at |-> "serve", code |-> 0] >>

at == Steps[step].at
Alive == exit = -1 /\ ~hungUp
publickey == "publickey" \in methods
password == "password" \in methods

Init ==
  /\ step = 1
  /\ methods \in (SUBSET {"password", "publickey"}) \ {{}}
  /\ supplied \in BOOLEAN
  /\ hostKeySet \in BOOLEAN
  /\ listening = FALSE /\ banner = FALSE
  /\ exit = -1 /\ hungUp = FALSE /\ interrupted = FALSE
  /\ KeysetInit

\* run returns: the deferred listener.Close() runs, and so does os.Exit.
Return(code) ==
  /\ exit' = code
  /\ listening' = FALSE
  /\ UNCHANGED <<step, config, banner, hungUp, interrupted, keysetVars>>

Continue == step' = step + 1 /\ UNCHANGED <<config, exit, hungUp, interrupted>>

\* Steps that only some configurations take.
Applies ==
  /\ at = "dir" => ~hostKeySet
  /\ at \in {"keysPath", "load", "count", "notify"} => publickey
  /\ at = "secret" => ~supplied

Skip ==
  /\ Alive /\ ~Applies
  /\ Continue
  /\ UNCHANGED <<listening, banner, keysetVars>>

-----------------------------------------------------------------------------
Checks == {"flags", "port", "forwardMax", "password", "methods", "username",
           "logFormat", "shell", "dir", "keysPath", "hostKey", "bind"}

Passes ==
  /\ Alive /\ Applies /\ at \in Checks
  /\ Continue
  /\ UNCHANGED <<listening, banner, keysetVars>>

\* A check, the bind or the random source fails.
Fails ==
  /\ Alive /\ Applies /\ at \in Checks \cup {"listen", "secret"}
  /\ Return(Steps[step].code)

Listen ==
  /\ Alive /\ at = "listen"
  /\ listening' = TRUE
  /\ Continue
  /\ UNCHANGED <<banner, keysetVars>>

\* Without a password given: a generated one and the banner, or the sentinel
\* of a server that does not take passwords.
Secret ==
  /\ Alive /\ at = "secret" /\ Applies
  /\ banner' = password
  /\ Continue
  /\ UNCHANGED <<listening, keysetVars>>

LoadKeys ==
  /\ Alive /\ at = "load" /\ Applies
  /\ Load
  /\ Continue
  /\ UNCHANGED <<listening, banner>>

LoadKeysFails ==
  /\ Alive /\ at = "load" /\ Applies
  /\ LoadFails
  /\ Return(Steps[step].code)

\* Mutant: the other method is forgotten.
UnauthenticableByKey == cur = {}

\* No keys and no other method: nobody could log in.
Unauthenticable == ~password /\ cur = {}

Count ==
  /\ Alive /\ at = "count" /\ Applies /\ ~Unauthenticable
  /\ Continue
  /\ UNCHANGED <<listening, banner, keysetVars>>

CountFails ==
  /\ Alive /\ at = "count" /\ Applies /\ Unauthenticable
  /\ Return(Steps[step].code)

\* The listening event is logged and signal.Notify captures SIGHUP.
StartReloader ==
  /\ Alive /\ at = "notify" /\ Applies
  /\ Notify
  /\ Continue
  /\ UNCHANGED <<listening, banner>>

\* Serve returns nil, because ctx is cancelled or Accept failed.
ServeReturns ==
  /\ Alive /\ at = "serve"
  /\ Return(Steps[step].code)

Run ==
  \/ Skip \/ Passes \/ Fails \/ Listen \/ Secret \/ LoadKeys \/ LoadKeysFails
  \/ Count \/ CountFails \/ StartReloader \/ ServeReturns

-----------------------------------------------------------------------------
rest == <<step, config, listening, banner, exit, hungUp, interrupted>>

\* SIGHUP: to the channel once signal.Notify has run; until then, and for
\* good without publickey, its default action ends the process.
Sighup ==
  /\ Alive /\ reloader # "off"
  /\ Deliver
  /\ UNCHANGED rest

SighupKills ==
  /\ Alive /\ reloader = "off"
  /\ hungUp' = TRUE /\ listening' = FALSE
  /\ UNCHANGED <<step, config, banner, exit, interrupted, keysetVars>>

ReloadKeys == Alive /\ Reload /\ UNCHANGED rest

\* SIGINT or SIGTERM: captured from the first line of main on.
Interrupt ==
  /\ Alive /\ ~interrupted
  /\ interrupted' = TRUE
  /\ UNCHANGED <<step, config, listening, banner, exit, hungUp, keysetVars>>

\* The SIGHUP goroutine's other case.  SIGHUP stays captured.
ReloaderEnds == Alive /\ interrupted /\ StopReloading /\ UNCHANGED rest

EditFile == Edit /\ UNCHANGED rest

Next ==
  \/ Run \/ Sighup \/ SighupKills \/ Interrupt
  \/ ReloadKeys \/ ReloaderEnds \/ EditFile

Spec == Init /\ [][Next]_vars

\* The goroutine runs whenever it can.
FairSpec == Spec /\ WF_vars(ReloadKeys)

-----------------------------------------------------------------------------
\* The type invariant; the reload goroutine exists only with publickey.
TypeOK ==
  /\ step \in 1 .. Len(Steps)
  /\ methods \in SUBSET {"password", "publickey"}
  /\ supplied \in BOOLEAN /\ hostKeySet \in BOOLEAN
  /\ listening \in BOOLEAN /\ banner \in BOOLEAN
  /\ hungUp \in BOOLEAN /\ interrupted \in BOOLEAN
  /\ exit \in -1 .. 4
  /\ file \in Files /\ parsed \in Files
  /\ cur \subseteq Keys
  /\ sighupCh \in BOOLEAN /\ asked \in BOOLEAN
  /\ reloader \in {"off", "idle", "parse", "store", "ended"}
  /\ reloader # "off" => publickey

\* A server that takes public keys only has one to take for as long as it
\* serves: run refuses an empty keyset at startup, and Reload refuses to
\* replace a keyset by an empty one, whatever happens to the file.
PublickeyOnlyHasKeys ==
  Alive /\ at = "serve" /\ ~password => cur # {}

\* The banner comes after every check that the order of run puts before it: a
\* process that printed a password does not exit for a bad configuration, a
\* failed bind or a failed random source.
BannerExit == banner => exit \notin {1, 2, 3}

\* "The password banner is printed only when the server is guaranteed to
\* actually start" (SPEC section 2): once it is printed, run ends by serving.
BannerMeansServing == banner => exit \in {-1, 0}

\* "SIGHUP is otherwise a no-op" (SPEC section 4): a server that serves is not
\* ended by it.
SighupHarmless == hungUp => at # "serve"

\* No rotation of the keys is lost: after a SIGHUP that follows the last change
\* of the file, the keys in force become those of the file, however many
\* signals coalesced and whatever the goroutine was doing, unless the server
\* is on its way out.
RotationTakesEffect ==
  (Alive /\ asked /\ file.open = "ok" /\ file.keys # {})
    ~> (cur = file.keys \/ ~asked \/ interrupted \/ ~Alive)
=============================================================================
