---------------------------- MODULE HostKeyProofs ----------------------------
(***************************************************************************)
(* Proofs about HostKey for one process at a time, with any number of      *)
(* crashes and restarts, any keys and any initial files.                   *)
(***************************************************************************)
EXTENDS HostKey, TLAPS

\* One process uses the path.
Alone == \A p, q \in Procs : p = q

\* What the look at the file still means when the process writes.
Placed ==
  \A p \in Procs :
    /\ pc[p] \in {"generate", "create"} => key = "absent"
    /\ pc[p] = "write" => key \in {"torn", "absent"}
    /\ pc[p] \in {"create", "write", "chmod", "pubCreate", "pubWrite", "serving"}
         => mine[p] \in Keys
    /\ pc[p] = "write" /\ ~rolled[p] => key = "torn"
    /\ pc[p] \in {"chmod", "pubCreate", "pubWrite", "serving"} /\ ~rolled[p]
         => key = mine[p]
    /\ pc[p] = "serving" /\ ~pubEdited => pub = mine[p]

Inv == TypeOK /\ Placed

-----------------------------------------------------------------------------
\* The initial states have the types they should.
LEMMA InitInv == Init => Inv
<1> SUFFICES ASSUME Init PROVE Inv
  OBVIOUS
<1>1. TypeOK
  BY HostKeyAssumption DEF Init, TypeOK, Labels, Contents
<1>2. Placed  BY DEF Init, Placed
<1> QED  BY <1>1, <1>2 DEF Inv

\* Every step keeps the types.
LEMMA NextTypeOK == Inv /\ [Next]_vars => TypeOK'
<1> SUFFICES ASSUME Inv, [Next]_vars PROVE TypeOK'
  OBVIOUS
<1> USE HostKeyAssumption DEF Inv, TypeOK, Labels, Contents, Goto, files
<1>1. ASSUME NEW p \in Procs, Start(p) PROVE TypeOK'  BY <1>1 DEF Start
<1>2. ASSUME NEW p \in Procs, LoadOrGenerate(p) PROVE TypeOK'
  <2>1. CASE Stat(p)  BY <2>1 DEF Stat
  <2>2. CASE Generate(p)  BY <2>2 DEF Generate
  <2>3. CASE Create(p)  BY <2>3 DEF Create
  <2>4. CASE Write(p)  BY <2>4 DEF Write, Placed
  <2>5. CASE Chmod(p)  BY <2>5 DEF Chmod
  <2>6. CASE Read(p)  BY <2>6 DEF Read
  <2>7. CASE PubCreate(p)  BY <2>7 DEF PubCreate
  <2>8. CASE PubWrite(p)  BY <2>8 DEF PubWrite, Placed
  <2> QED  BY <1>2, <2>1, <2>2, <2>3, <2>4, <2>5, <2>6, <2>7, <2>8 DEF LoadOrGenerate
<1>3. ASSUME NEW p \in Procs, Stop(p) PROVE TypeOK'  BY <1>3 DEF Stop
<1>4. CASE Delete  BY <1>4 DEF Delete
<1>5. CASE ChangeMode  BY <1>5 DEF ChangeMode
<1>6. CASE EditPub  BY <1>6 DEF EditPub
<1>7. CASE UNCHANGED vars  BY <1>7 DEF vars
<1> QED  BY <1>1, <1>2, <1>3, <1>4, <1>5, <1>6, <1>7 DEF Next

\* Every step of a process that is alone keeps what its look at the file found.
LEMMA NextPlaced == Alone /\ Inv /\ [Next]_vars => Placed'
<1> SUFFICES ASSUME Alone, Inv, [Next]_vars PROVE Placed'
  OBVIOUS
<1> USE HostKeyAssumption DEF Alone, Inv, TypeOK, Labels, Contents, Placed, Goto, files
<1>1. ASSUME NEW p \in Procs, Start(p) PROVE Placed'  BY <1>1 DEF Start
<1>2. ASSUME NEW p \in Procs, LoadOrGenerate(p) PROVE Placed'
  <2>1. CASE Stat(p)  BY <2>1 DEF Stat
  <2>2. CASE Generate(p)  BY <2>2 DEF Generate
  <2>3. CASE Create(p)  BY <2>3 DEF Create
  <2>4. CASE Write(p)  BY <2>4 DEF Write
  <2>5. CASE Chmod(p)  BY <2>5 DEF Chmod
  <2>6. CASE Read(p)  BY <2>6 DEF Read
  <2>7. CASE PubCreate(p)  BY <2>7 DEF PubCreate
  <2>8. CASE PubWrite(p)  BY <2>8 DEF PubWrite
  <2> QED  BY <1>2, <2>1, <2>2, <2>3, <2>4, <2>5, <2>6, <2>7, <2>8 DEF LoadOrGenerate
<1>3. ASSUME NEW p \in Procs, Stop(p) PROVE Placed'  BY <1>3 DEF Stop
<1>4. CASE Delete  BY <1>4 DEF Delete
<1>5. CASE ChangeMode  BY <1>5 DEF ChangeMode
<1>6. CASE EditPub  BY <1>6 DEF EditPub
<1>7. CASE UNCHANGED vars  BY <1>7 DEF vars
<1> QED  BY <1>1, <1>2, <1>3, <1>4, <1>5, <1>6, <1>7 DEF Next

\* The inductive invariant holds in every reachable state.
THEOREM InvariantHolds ==
  ASSUME Alone
  PROVE  Spec => []Inv
<1>1. Inv /\ [Next]_vars => Inv'
  BY Alone, NextTypeOK, NextPlaced DEF Inv
<1> QED  BY <1>1, InitInv, PTL DEF Spec

\* A process that is alone serves the key that is in the file, whatever
\* crashes and restarts came before.
THEOREM ServedKeyOnFileHolds ==
  ASSUME Alone
  PROVE  Spec => []ServedKeyOnFile
<1>1. Inv => ServedKeyOnFile  BY DEF Inv, Placed, ServedKeyOnFile
<1> QED  BY <1>1, Alone, InvariantHolds, PTL

\* While it serves the key, ".pub" is that key's.
THEOREM PubIsServedKeyHolds ==
  ASSUME Alone
  PROVE  Spec => []PubIsServedKey
<1>1. Inv => PubIsServedKey  BY DEF Inv, Placed, PubIsServedKey
<1> QED  BY <1>1, Alone, InvariantHolds, PTL

\* It never replaces a file that is there, complete or corrupt.
THEOREM NeverRegeneratedHolds ==
  ASSUME Alone
  PROVE  Spec => NeverRegenerated
<1> DEFINE Kept == /\ \A p \in Procs : pc[p] # "write" /\ pc'[p] = "write" => key = "absent"
                   /\ key # "absent" /\ (\A p \in Procs : pc[p] # "write")
                        => key' \in {key, "absent"}
<1>1. Inv /\ [Next]_vars => [Kept]_vars
  <2> SUFFICES ASSUME Inv, Next PROVE Kept
    BY DEF vars
  <2> USE DEF Inv, TypeOK, Placed, Goto, files
  <2>1. ASSUME NEW p \in Procs, Start(p) \/ Stop(p) PROVE Kept
    BY <2>1 DEF Start, Stop
  <2>2. ASSUME NEW p \in Procs, LoadOrGenerate(p) PROVE Kept
    <3>1. CASE Create(p)  BY <3>1 DEF Create
    <3>2. CASE Write(p)  BY <3>2 DEF Write
    <3>3. CASE Stat(p) \/ Generate(p) \/ Chmod(p) \/ Read(p)
      BY <3>3 DEF Stat, Generate, Chmod, Read
    <3>4. CASE PubCreate(p) \/ PubWrite(p)  BY <3>4 DEF PubCreate, PubWrite
    <3> QED  BY <2>2, <3>1, <3>2, <3>3, <3>4 DEF LoadOrGenerate
  <2>3. CASE Delete \/ ChangeMode \/ EditPub
    BY <2>3 DEF Delete, ChangeMode, EditPub
  <2> QED  BY <2>1, <2>2, <2>3 DEF Next
<1> QED  BY <1>1, Alone, InvariantHolds, PTL DEF Spec, NeverRegenerated
=============================================================================
