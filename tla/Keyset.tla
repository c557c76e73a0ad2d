------------------------------- MODULE Keyset -------------------------------
(***************************************************************************)
(* KeysetSource (internal/auth/pubkey.go) and the SIGHUP goroutine that    *)
(* drives it (cmd/minisshd/main.go).  signal.Notify sends to a channel     *)
(* that holds one signal and drops what does not fit, so signals coalesce. *)
(* Current() == nil and an empty keyset are told apart by no caller; both  *)
(* are {} here.  The file is read in one step.                             *)
(***************************************************************************)
EXTENDS Naturals, FiniteSets

CONSTANTS
  Keys,     \* public keys
  MaxEdits  \* bound: how often the operator changes the file

ASSUME KeysetAssumption == MaxEdits \in Nat /\ IsFiniteSet(Keys)

VARIABLES
  file,      \* the authorized-keys file
  edits,     \* how often it has been changed
  cur,       \* the current keyset
  sighupCh,  \* the channel holds a signal
  reloader,  \* the SIGHUP goroutine: "off", "idle", "parse", "store", "ended"
  parsed,    \* what parse() returned
  asked      \* a SIGHUP was sent after the last change of the file

keysetVars == <<file, edits, cur, sighupCh, reloader, parsed, asked>>

\* A file that opens yields the keys of its well-formed lines; "error" is an
\* open or a read that fails otherwise than by the file's absence.
Files ==
  [open : {"ok"}, keys : SUBSET Keys] \cup [open : {"missing", "error"}, keys : {{}}]

KeysetInit ==
  /\ file \in Files
  /\ edits = 0
  /\ cur = {}
  /\ sighupCh = FALSE
  /\ reloader = "off"
  /\ parsed = [open |-> "missing", keys |-> {}]
  /\ asked = FALSE

\* Load fails on an error, and takes a missing file for an empty one.
LoadFails == file.open = "error"

Load ==
  /\ ~LoadFails
  /\ cur' = file.keys
  /\ UNCHANGED <<file, edits, sighupCh, reloader, parsed, asked>>

Notify ==
  /\ reloader' = "idle"
  /\ UNCHANGED <<file, edits, cur, sighupCh, parsed, asked>>

\* Mutant: a channel without a buffer drops what comes during a reload.
DeliverUnbuffered ==
  /\ sighupCh' = (sighupCh \/ reloader = "idle")
  /\ asked' = TRUE
  /\ UNCHANGED <<file, edits, cur, reloader, parsed>>

\* A SIGHUP is delivered.
Deliver ==
  /\ sighupCh' = TRUE
  /\ asked' = TRUE
  /\ UNCHANGED <<file, edits, cur, reloader, parsed>>

Receive ==
  /\ reloader = "idle" /\ sighupCh
  /\ sighupCh' = FALSE
  /\ reloader' = "parse"
  /\ UNCHANGED <<file, edits, cur, parsed, asked>>

Parse ==
  /\ reloader = "parse"
  /\ parsed' = file
  /\ reloader' = "store"
  /\ UNCHANGED <<file, edits, cur, sighupCh, asked>>

\* Mutant: an empty keyset is stored like any other.
ReloadFailsOnError == parsed.open # "ok"

\* The rest of Reload: the previous keyset stays on an error, and when the
\* new one is empty and it is not.
ReloadFails == parsed.open # "ok" \/ (parsed.keys = {} /\ cur # {})

Store ==
  /\ reloader = "store"
  /\ cur' = IF ReloadFails THEN cur ELSE parsed.keys
  /\ reloader' = "idle"
  /\ UNCHANGED <<file, edits, sighupCh, parsed, asked>>

Reload == Receive \/ Parse \/ Store

\* The goroutine's other case: ctx is done.
StopReloading ==
  /\ reloader = "idle"
  /\ reloader' = "ended"
  /\ UNCHANGED <<file, edits, cur, sighupCh, parsed, asked>>

\* The operator changes the file.
Edit ==
  /\ edits < MaxEdits
  /\ file' \in Files \ {file}
  /\ edits' = edits + 1
  /\ asked' = FALSE
  /\ UNCHANGED <<cur, sighupCh, reloader, parsed>>
=============================================================================
