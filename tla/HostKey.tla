------------------------------- MODULE HostKey -------------------------------
(***************************************************************************)
(* LoadOrGenerate (internal/hostkey/hostkey.go): the host key file, its    *)
(* ".pub" sibling, and the processes that start, crash and start again on  *)
(* the same path.  os.WriteFile is two steps, an open that truncates and a *)
(* write, and a crash can fall between them; a failed system call leaves   *)
(* the files as a crash does.                                              *)
(***************************************************************************)
EXTENDS Naturals, FiniteSets

CONSTANTS
  Keys,         \* the Ed25519 keys that can be drawn
  Procs,        \* the minisshd processes given this --host-key path
  InitialFiles, \* what the path may hold at first
  MayDelete     \* the operator may delete the file

\* What a file may hold.  A file that does not parse is "torn".
Contents == Keys \cup {"absent", "torn"}

ASSUME HostKeyAssumption ==
  /\ IsFiniteSet(Keys)
  /\ "absent" \notin Keys /\ "torn" \notin Keys /\ "none" \notin Keys
  /\ InitialFiles \subseteq Contents
  /\ MayDelete \in BOOLEAN

VARIABLES
  key,       \* the contents of the private key file
  wide,      \* its mode has bits beyond 0600
  pub,       \* the contents of the ".pub" file
  fresh,     \* keys never drawn yet: ed25519.GenerateKey does not repeat itself
  pc,        \* where each process is
  mine,      \* the key each process has in memory
  rolled,    \* the file was deleted since the process started
  pubEdited  \* someone else wrote ".pub" since a process last did

files == <<key, wide, pub>>
vars == <<files, fresh, pc, mine, rolled, pubEdited>>

Labels == {"off", "stat", "generate", "create", "write", "chmod", "read",
           "pubCreate", "pubWrite", "serving"}

Init ==
  /\ key \in InitialFiles
  /\ wide \in BOOLEAN /\ (key = "absent" => ~wide)
  /\ pub \in Contents
  /\ fresh = Keys \ {key, pub}
  /\ pc = [p \in Procs |-> "off"]
  /\ mine = [p \in Procs |-> "none"]
  /\ rolled = [p \in Procs |-> FALSE]
  /\ pubEdited = TRUE

Goto(p, label) == pc' = [pc EXCEPT ![p] = label]

-----------------------------------------------------------------------------
Start(p) ==
  /\ pc[p] = "off"
  /\ Goto(p, "stat")
  /\ rolled' = [rolled EXCEPT ![p] = FALSE]
  /\ UNCHANGED <<files, fresh, mine, pubEdited>>

\* Mutant: a file that does not parse is replaced.
StatReplacing(p) ==
  /\ pc[p] = "stat"
  /\ Goto(p, IF key \in {"absent", "torn"} THEN "generate" ELSE IF wide THEN "off" ELSE "read")
  /\ UNCHANGED <<files, fresh, mine, rolled, pubEdited>>

\* os.Stat, after the checks of the parent directory.
Stat(p) ==
  /\ pc[p] = "stat"
  /\ Goto(p, IF key = "absent" THEN "generate" ELSE IF wide THEN "off" ELSE "read")
  /\ UNCHANGED <<files, fresh, mine, rolled, pubEdited>>

Generate(p) ==
  /\ pc[p] = "generate"
  /\ \E k \in fresh :
       /\ fresh' = fresh \ {k}
       /\ mine' = [mine EXCEPT ![p] = k]
  /\ Goto(p, "create")
  /\ UNCHANGED <<files, rolled, pubEdited>>

\* The open of os.WriteFile: created with mode 0600, or truncated as it is.
Create(p) ==
  /\ pc[p] = "create"
  /\ key' = "torn"
  /\ Goto(p, "write")
  /\ UNCHANGED <<wide, pub, fresh, mine, rolled, pubEdited>>

\* Mutant: the error of the write is ignored.
WriteUnchecked(p) ==
  /\ pc[p] = "write"
  /\ key' \in (IF key = "absent" THEN {key} ELSE {"torn", mine[p]})
  /\ Goto(p, "chmod")
  /\ UNCHANGED <<wide, pub, fresh, mine, rolled, pubEdited>>

\* The write goes to the file that was opened, even if it has been deleted.
Write(p) ==
  /\ pc[p] = "write"
  /\ key' = IF key = "absent" THEN key ELSE mine[p]
  /\ Goto(p, "chmod")
  /\ UNCHANGED <<wide, pub, fresh, mine, rolled, pubEdited>>

Chmod(p) ==
  /\ pc[p] = "chmod"
  /\ wide' = FALSE
  /\ Goto(p, IF key = "absent" THEN "off" ELSE "pubCreate")
  /\ UNCHANGED <<key, pub, fresh, mine, rolled, pubEdited>>

\* loadExisting: a file that is gone or does not parse is an error.
Read(p) ==
  /\ pc[p] = "read"
  /\ \/ /\ key \in Keys
        /\ mine' = [mine EXCEPT ![p] = key]
        /\ Goto(p, "pubCreate")
     \/ /\ key \notin Keys
        /\ Goto(p, "off")
        /\ UNCHANGED mine
  /\ UNCHANGED <<files, fresh, rolled, pubEdited>>

\* writePub, in the two steps of os.WriteFile.
PubCreate(p) ==
  /\ pc[p] = "pubCreate"
  /\ pub' = "torn"
  /\ Goto(p, "pubWrite")
  /\ UNCHANGED <<key, wide, fresh, mine, rolled, pubEdited>>

\* Mutant: the error of the write is ignored.
PubWriteUnchecked(p) ==
  /\ pc[p] = "pubWrite"
  /\ pub' \in {pub, mine[p]}
  /\ pubEdited' = FALSE
  /\ Goto(p, "serving")
  /\ UNCHANGED <<key, wide, fresh, mine, rolled>>

PubWrite(p) ==
  /\ pc[p] = "pubWrite"
  /\ pub' = mine[p]
  /\ pubEdited' = FALSE
  /\ Goto(p, "serving")
  /\ UNCHANGED <<key, wide, fresh, mine, rolled>>

\* The process ends, or LoadOrGenerate fails, at any point.
Stop(p) ==
  /\ pc[p] # "off"
  /\ Goto(p, "off")
  /\ pubEdited' = (pubEdited \/ pc[p] = "pubWrite")
  /\ UNCHANGED <<files, fresh, mine, rolled>>

-----------------------------------------------------------------------------
(***************************************************************************)
(* The operator.                                                           *)
(***************************************************************************)
Delete ==
  /\ MayDelete /\ key # "absent"
  /\ key' = "absent" /\ wide' = FALSE
  /\ rolled' = [p \in Procs |-> TRUE]
  /\ UNCHANGED <<pub, fresh, pc, mine, pubEdited>>

ChangeMode ==
  /\ key # "absent"
  /\ wide' = ~wide
  /\ UNCHANGED <<key, pub, fresh, pc, mine, rolled, pubEdited>>

EditPub ==
  /\ pub' \in {"absent", "torn"} /\ pub' # pub
  /\ pubEdited' = TRUE
  /\ UNCHANGED <<key, wide, fresh, pc, mine, rolled>>

LoadOrGenerate(p) ==
  \/ Stat(p) \/ Generate(p) \/ Create(p) \/ Write(p) \/ Chmod(p)
  \/ Read(p) \/ PubCreate(p) \/ PubWrite(p)

Next ==
  \/ \E p \in Procs : Start(p) \/ LoadOrGenerate(p) \/ Stop(p)
  \/ Delete \/ ChangeMode \/ EditPub

Spec == Init /\ [][Next]_vars

-----------------------------------------------------------------------------
\* The type invariant.
TypeOK ==
  /\ key \in Contents /\ pub \in Contents
  /\ wide \in BOOLEAN /\ pubEdited \in BOOLEAN
  /\ fresh \subseteq Keys
  /\ pc \in [Procs -> Labels]
  /\ mine \in [Procs -> Keys \cup {"none"}]
  /\ rolled \in [Procs -> BOOLEAN]

\* "The host key is never regenerated automatically; deleting the file is the
\* only way to roll it" (SPEC section 6): a file that is there, complete or
\* corrupt, is never opened for writing or replaced, except that the process
\* that created it goes on to fill it.  LoadOrGenerate looks first and writes later.
NeverRegenerated ==
  [][/\ \A p \in Procs : pc[p] # "write" /\ pc'[p] = "write" => key = "absent"
     /\ key # "absent" /\ (\A p \in Procs : pc[p] # "write")
          => key' \in {key, "absent"}]_vars

\* The key a process serves is the key in the file, so that a restart keeps
\* the fingerprint, unless the operator has deleted the file meanwhile.
ServedKeyOnFile ==
  \A p \in Procs : pc[p] = "serving" /\ ~rolled[p] => key = mine[p]

\* writePub runs on every start, so while the key is served its ".pub" is the
\* served key's, unless somebody else has touched it or is writing it.
PubIsServedKey ==
  \A p \in Procs :
    /\ pc[p] = "serving" /\ ~rolled[p] /\ ~pubEdited
    /\ \A q \in Procs : pc[q] # "pubWrite"
    => pub = mine[p]
=============================================================================
