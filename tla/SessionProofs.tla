--------------------------- MODULE SessionProofs ---------------------------
(***************************************************************************)
(* Proofs about Session: the safety of its teardown, for every bound on    *)
(* the output, with or without descendants that leave the group, and with  *)
(* or without processes that the server may not signal.                    *)
(***************************************************************************)
EXTENDS Session, TLAPS

\* Nobody can write to the PTY or the pipes any more, and they are empty.
Quiet == out = 0 /\ ~HeldOpen

\* The labels of runChild before the master is closed.
Attended == {"watch", "grace", "reap", "drain", "clear"}

\* What st.ptyMaster, the descriptor and the requests goroutine have to do
\* with each other.
MasterInv ==
  /\ pc \in {"requests", "done"} => ~serving
  /\ ptyMaster /\ pc # "done" => master = "open"
  /\ pc = "close" => ~ptyMaster
  /\ size # "error"

\* What is known of the child at each label.
ChildInv ==
  /\ pc = "requests" => child = "none" /\ ~waited
  /\ pc \in {"drain", "clear", "close", "exit"} => waited
  /\ waited => child = "reaped"
  /\ exit \in {"status", "signal"}
       => waited /\ ~hup /\ exit = ending /\ pc \in {"settle", "done"}

\* Why the output is complete when the exit request goes out.
OutputInv ==
  /\ pc \in {"requests", "watch", "grace", "reap", "drain", "clear", "close", "exit"}
       => ~chClosed
  /\ pc \in Attended \cup {"close"} => master # "closed"
  /\ pc \in Attended /\ ~copying => Quiet \/ client = "closed"
  /\ pc = "clear" /\ ~drainTimedOut => ~copying
  /\ pc \in {"close", "exit"} /\ ~drainTimedOut
       => ~copying /\ (Quiet \/ client = "closed")
  /\ waited /\ ~pty => ~copying
  /\ exit \in {"status", "signal"} /\ ~drainTimedOut => Quiet /\ ~copying
  /\ pc = "requests" => exit = "none"
  /\ pty /\ pc \in Attended \cup {"requests"} => master = "open"
  /\ pc = "requests" => master # "closed"

\* A session is past its grace period only with SIGKILL sent or with nobody
\* left in its group to send it to.
GroupInv ==
  /\ hup => pc \notin {"requests", "watch", "sftp", "sftpStop"}
  /\ hup /\ pc # "grace" => kill \/ KillFails
  /\ pc = "requests" => child = "none" /\ bg = "none"

\* What the contract of Handle is kept by: where there is a child, who has
\* waited for it, who has hung it up, and which side has closed the channel.
ContractInv ==
  /\ pc \in {"requests", "sftp", "sftpStop"} => child = "none"
  /\ pc \in {"watch", "grace", "reap"} => child # "none"
  /\ pc \in {"drain", "clear", "close", "exit"} => child = "reaped"
  /\ pc = "settle" => child \in {"none", "reaped"}
  /\ waited => child = "reaped"
  /\ child = "none" => "child" \notin foreign
  /\ pc \notin {"requests", "done"} /\ ~serving => client = "closed"
  /\ pc \in {"grace", "reap"} => hup
  /\ hup => pc \notin {"requests", "watch", "sftp", "sftpStop"}
  /\ pc \notin {"settle", "sftpStop", "done"} => ~chClosed
  /\ pc = "sftpStop" => chClosed

\* Who closes which descriptor of the PTY, and when.
PtyInv ==
  /\ pc \notin {"requests", "done"} => kind # "none"
  /\ pc \in {"requests", "sftp", "sftpStop"} => child = "none"
  /\ pc = "requests" => IF pty THEN ptyMaster ELSE ~ptyMaster /\ master = "none" /\ slave = "none"
  /\ pc \in {"clear", "close"} => pty
  /\ child # "none" => slave # "open" /\ (~pty => master = "none")
  /\ pc \in {"exit", "settle", "done"} /\ child # "none" => master # "open"
  /\ pc = "done" /\ kind = "none" => master # "open" /\ slave # "open"

-----------------------------------------------------------------------------
\* The initial state is well typed.
LEMMA InitTypeOK == Init => TypeOK
<1>1. Init => out \in 0 .. MaxOut  BY SessionAssumption DEF Init
<1> QED  BY <1>1, Zenon DEF Init, TypeOK, Labels

\* Every step keeps the types.
LEMMA NextTypeOK == TypeOK /\ [Next]_vars => TypeOK'
<1> SUFFICES ASSUME TypeOK, [Next]_vars PROVE TypeOK'
  OBVIOUS
<1> USE SessionAssumption DEF TypeOK, Labels, fds, procs, output, ended, world
<1>1. CASE Requests
  <2>1. CASE PtyReq  BY <2>1 DEF PtyReq
  <2>2. CASE Spawn  BY <2>2 DEF Spawn
  <2>3. CASE SpawnFails  BY <2>3 DEF SpawnFails
  <2>4. CASE StartSftp  BY <2>4 DEF StartSftp
  <2> QED  BY <1>1, <2>1, <2>2, <2>3, <2>4 DEF Requests
<1>2. CASE Runner
  <2>1. CASE NoSpawn  BY <2>1 DEF NoSpawn
  <2>2. CASE SftpShutdown  BY <2>2 DEF SftpShutdown
  <2>3. CASE SftpReturns  BY <2>3 DEF SftpReturns
  <2>4. CASE OnShutdown  BY <2>4 DEF OnShutdown, Hangup
  <2>5. CASE OnChannelClosed  BY <2>5 DEF OnChannelClosed, Hangup
  <2>6. CASE OnExit  BY <2>6 DEF OnExit
  <2>7. CASE GroupDrained  BY <2>7 DEF GroupDrained
  <2>8. CASE GraceExpires  BY <2>8 DEF GraceExpires
  <2>9. CASE Reaped  BY <2>9 DEF Reaped
  <2>10. CASE Drained  BY <2>10 DEF Drained
  <2>11. CASE DrainExpires  BY <2>11 DEF DrainExpires
  <2>12. CASE ClearMaster
    <3>1. ptyMaster' \in BOOLEAN  BY <2>12, Zenon DEF ClearMaster
    <3> QED  BY <2>12, <3>1 DEF ClearMaster
  <2>13. CASE CloseMaster  BY <2>13 DEF CloseMaster
  <2>14. CASE SendExit  BY <2>14 DEF SendExit
  <2>15. CASE Settle  BY <2>15 DEF Settle
  <2> QED  BY <1>2, <2>1, <2>2, <2>3, <2>4, <2>5, <2>6, <2>7, <2>8, <2>9, <2>10,
        <2>11, <2>12, <2>13, <2>14, <2>15 DEF Runner
<1>3. CASE Copier
  <2>1. CASE Forward  BY <2>1 DEF Forward
  <2>2. CASE CopyEnds
    <3>1. copying' \in BOOLEAN  BY <2>2, Zenon DEF CopyEnds
    <3> QED  BY <2>2, <3>1 DEF CopyEnds
  <2> QED  BY <1>3, <2>1, <2>2 DEF Copier
<1>4. CASE Waiter
  <2>1. CASE Reap  BY <2>1 DEF Reap
  <2>2. CASE WaitReturns  BY <2>2 DEF WaitReturns
  <2> QED  BY <1>4, <2>1, <2>2 DEF Waiter
<1>5. CASE World
  <2>1. CASE WindowChange  BY <2>1 DEF WindowChange
  <2>2. CASE Write  BY <2>2 DEF Write
  <2>3. CASE Fork  BY <2>3 DEF Fork
  <2>4. CASE ChildEnds  BY <2>4 DEF ChildEnds
  <2>5. CASE DescendantEnds  BY <2>5 DEF DescendantEnds
  <2>6. CASE ClientEOF  BY <2>6 DEF ClientEOF
  <2>7. CASE ClientCloses  BY <2>7 DEF ClientCloses
  <2>8. CASE ConnectionDrops
    <3>1. connUp' \in BOOLEAN  BY <2>8, Zenon DEF ConnectionDrops
    <3> QED  BY <2>8, <3>1 DEF ConnectionDrops
  <2>9. CASE CancelConn  BY <2>9 DEF CancelConn
  <2>10. CASE Shutdown  BY <2>10 DEF Shutdown
  <2>11. CASE SftpFails  BY <2>11 DEF SftpFails
  <2>12. ASSUME NEW p \in {"child", "bg"}, ChangeUser(p) PROVE TypeOK'
    BY <2>12 DEF ChangeUser
  <2> QED  BY <1>5, <2>1, <2>2, <2>3, <2>4, <2>5, <2>6, <2>7, <2>8, <2>9, <2>10,
        <2>11, <2>12 DEF World
<1>6. CASE RequestsEnd
  <2>1. serving' \in BOOLEAN  BY <1>6, Zenon DEF RequestsEnd
  <2> QED  BY <1>6, <2>1 DEF RequestsEnd
<1>7. CASE UNCHANGED vars  BY <1>7 DEF vars
<1> QED  BY <1>1, <1>2, <1>3, <1>4, <1>5, <1>6, <1>7 DEF Next

\* Every variable keeps its type.
THEOREM TypeCorrect == Spec => []TypeOK
  BY InitTypeOK, NextTypeOK, PTL DEF Spec

-----------------------------------------------------------------------------
\* Initially there is no PTY.
LEMMA InitMasterInv == Init => MasterInv
  BY DEF Init, MasterInv, Quiet, HeldOpen, KillFails, Attended

\* Every step keeps the master open as long as a resize may reach it.
LEMMA NextMasterInv == TypeOK /\ MasterInv /\ [Next]_vars => MasterInv'
<1> SUFFICES ASSUME TypeOK, MasterInv, [Next]_vars PROVE MasterInv'
  OBVIOUS
<1> USE DEF TypeOK, Labels, fds, procs, output, ended, world, MasterInv
<1>1. CASE Requests
  <2>1. CASE PtyReq  BY <2>1 DEF PtyReq
  <2>2. CASE Spawn  BY <2>2 DEF Spawn
  <2>3. CASE SpawnFails  BY <2>3 DEF SpawnFails
  <2>4. CASE StartSftp  BY <2>4 DEF StartSftp
  <2> QED  BY <1>1, <2>1, <2>2, <2>3, <2>4 DEF Requests
<1>2. CASE Runner
  <2>1. CASE NoSpawn  BY <2>1 DEF NoSpawn
  <2>2. CASE SftpShutdown  BY <2>2 DEF SftpShutdown
  <2>3. CASE SftpReturns  BY <2>3 DEF SftpReturns
  <2>4. CASE OnShutdown  BY <2>4 DEF OnShutdown, Hangup
  <2>5. CASE OnChannelClosed  BY <2>5 DEF OnChannelClosed, Hangup
  <2>6. CASE OnExit  BY <2>6 DEF OnExit
  <2>7. CASE GroupDrained  BY <2>7 DEF GroupDrained
  <2>8. CASE GraceExpires  BY <2>8 DEF GraceExpires
  <2>9. CASE Reaped  BY <2>9 DEF Reaped
  <2>10. CASE Drained  BY <2>10 DEF Drained
  <2>11. CASE DrainExpires  BY <2>11 DEF DrainExpires
  <2>12. CASE ClearMaster  BY <2>12 DEF ClearMaster
  <2>13. CASE CloseMaster  BY <2>13 DEF CloseMaster
  <2>14. CASE SendExit  BY <2>14 DEF SendExit
  <2>15. CASE Settle  BY <2>15 DEF Settle
  <2> QED  BY <1>2, <2>1, <2>2, <2>3, <2>4, <2>5, <2>6, <2>7, <2>8, <2>9, <2>10,
        <2>11, <2>12, <2>13, <2>14, <2>15 DEF Runner
<1>3. CASE Copier
  <2>1. CASE Forward  BY <2>1 DEF Forward
  <2>2. CASE CopyEnds  BY <2>2 DEF CopyEnds
  <2> QED  BY <1>3, <2>1, <2>2 DEF Copier
<1>4. CASE Waiter
  <2>1. CASE Reap  BY <2>1 DEF Reap
  <2>2. CASE WaitReturns  BY <2>2 DEF WaitReturns
  <2> QED  BY <1>4, <2>1, <2>2 DEF Waiter
<1>5. CASE World
  <2>1. CASE WindowChange  BY <2>1 DEF WindowChange
  <2>2. CASE Write  BY <2>2 DEF Write
  <2>3. CASE Fork  BY <2>3 DEF Fork
  <2>4. CASE ChildEnds  BY <2>4 DEF ChildEnds
  <2>5. CASE DescendantEnds  BY <2>5 DEF DescendantEnds
  <2>6. CASE ClientEOF  BY <2>6 DEF ClientEOF
  <2>7. CASE ClientCloses  BY <2>7 DEF ClientCloses
  <2>8. CASE ConnectionDrops  BY <2>8 DEF ConnectionDrops
  <2>9. CASE CancelConn  BY <2>9 DEF CancelConn
  <2>10. CASE Shutdown  BY <2>10 DEF Shutdown
  <2>11. CASE SftpFails  BY <2>11 DEF SftpFails
  <2>12. ASSUME NEW p \in {"child", "bg"}, ChangeUser(p) PROVE MasterInv'
    BY <2>12 DEF ChangeUser
  <2> QED  BY <1>5, <2>1, <2>2, <2>3, <2>4, <2>5, <2>6, <2>7, <2>8, <2>9, <2>10,
        <2>11, <2>12 DEF World
<1>6. CASE RequestsEnd  BY <1>6 DEF RequestsEnd
<1>7. CASE UNCHANGED vars  BY <1>7 DEF vars
<1> QED  BY <1>1, <1>2, <1>3, <1>4, <1>5, <1>6, <1>7 DEF Next

\* A window-change never reaches a master that runChild has closed, however
\* the requests goroutine and the teardown interleave.
THEOREM ResizeHolds == Spec => []ResizeNeverOnClosedMaster
<1>1. Spec => []MasterInv
  BY TypeCorrect, InitMasterInv, NextMasterInv, PTL DEF Spec
<1>2. MasterInv => ResizeNeverOnClosedMaster
  BY DEF MasterInv, ResizeNeverOnClosedMaster
<1> QED  BY <1>1, <1>2, PTL

-----------------------------------------------------------------------------
\* Initially no child has been waited for.
LEMMA InitChildInv == Init => ChildInv
  BY DEF Init, ChildInv, Quiet, HeldOpen, KillFails, Attended

\* Every step keeps what is known of the child.
LEMMA NextChildInv == TypeOK /\ ChildInv /\ [Next]_vars => ChildInv'
<1> SUFFICES ASSUME TypeOK, ChildInv, [Next]_vars PROVE ChildInv'
  OBVIOUS
<1> USE DEF TypeOK, Labels, fds, procs, output, ended, world, ChildInv
<1>1. CASE Requests
  <2>1. CASE PtyReq  BY <2>1 DEF PtyReq
  <2>2. CASE Spawn  BY <2>2 DEF Spawn
  <2>3. CASE SpawnFails  BY <2>3 DEF SpawnFails
  <2>4. CASE StartSftp  BY <2>4 DEF StartSftp
  <2> QED  BY <1>1, <2>1, <2>2, <2>3, <2>4 DEF Requests
<1>2. CASE Runner
  <2>1. CASE NoSpawn  BY <2>1 DEF NoSpawn
  <2>2. CASE SftpShutdown  BY <2>2 DEF SftpShutdown
  <2>3. CASE SftpReturns  BY <2>3 DEF SftpReturns
  <2>4. CASE OnShutdown  BY <2>4 DEF OnShutdown, Hangup
  <2>5. CASE OnChannelClosed  BY <2>5 DEF OnChannelClosed, Hangup
  <2>6. CASE OnExit  BY <2>6 DEF OnExit
  <2>7. CASE GroupDrained  BY <2>7 DEF GroupDrained
  <2>8. CASE GraceExpires  BY <2>8 DEF GraceExpires
  <2>9. CASE Reaped  BY <2>9 DEF Reaped
  <2>10. CASE Drained  BY <2>10 DEF Drained
  <2>11. CASE DrainExpires  BY <2>11 DEF DrainExpires
  <2>12. CASE ClearMaster  BY <2>12 DEF ClearMaster
  <2>13. CASE CloseMaster  BY <2>13 DEF CloseMaster
  <2>14. CASE SendExit  BY <2>14 DEF SendExit
  <2>15. CASE Settle  BY <2>15 DEF Settle
  <2> QED  BY <1>2, <2>1, <2>2, <2>3, <2>4, <2>5, <2>6, <2>7, <2>8, <2>9, <2>10,
        <2>11, <2>12, <2>13, <2>14, <2>15 DEF Runner
<1>3. CASE Copier
  <2>1. CASE Forward  BY <2>1 DEF Forward
  <2>2. CASE CopyEnds  BY <2>2 DEF CopyEnds
  <2> QED  BY <1>3, <2>1, <2>2 DEF Copier
<1>4. CASE Waiter
  <2>1. CASE Reap  BY <2>1 DEF Reap
  <2>2. CASE WaitReturns  BY <2>2 DEF WaitReturns
  <2> QED  BY <1>4, <2>1, <2>2 DEF Waiter
<1>5. CASE World
  <2>1. CASE WindowChange  BY <2>1 DEF WindowChange
  <2>2. CASE Write  BY <2>2 DEF Write
  <2>3. CASE Fork  BY <2>3 DEF Fork
  <2>4. CASE ChildEnds  BY <2>4 DEF ChildEnds
  <2>5. CASE DescendantEnds  BY <2>5 DEF DescendantEnds
  <2>6. CASE ClientEOF  BY <2>6 DEF ClientEOF
  <2>7. CASE ClientCloses  BY <2>7 DEF ClientCloses
  <2>8. CASE ConnectionDrops  BY <2>8 DEF ConnectionDrops
  <2>9. CASE CancelConn  BY <2>9 DEF CancelConn
  <2>10. CASE Shutdown  BY <2>10 DEF Shutdown
  <2>11. CASE SftpFails  BY <2>11 DEF SftpFails
  <2>12. ASSUME NEW p \in {"child", "bg"}, ChangeUser(p) PROVE ChildInv'
    BY <2>12 DEF ChangeUser
  <2> QED  BY <1>5, <2>1, <2>2, <2>3, <2>4, <2>5, <2>6, <2>7, <2>8, <2>9, <2>10,
        <2>11, <2>12 DEF World
<1>6. CASE RequestsEnd  BY <1>6 DEF RequestsEnd
<1>7. CASE UNCHANGED vars  BY <1>7 DEF vars
<1> QED  BY <1>1, <1>2, <1>3, <1>4, <1>5, <1>6, <1>7 DEF Next

\* The exit request is about a child that has been waited for, that the server
\* did not signal, and that ended the way the request says.
THEOREM ExitTruthfulHolds == Spec => []ExitTruthful
<1>1. Spec => []ChildInv
  BY TypeCorrect, InitChildInv, NextChildInv, PTL DEF Spec
<1>2. ChildInv => ExitTruthful  BY DEF ChildInv, ExitTruthful
<1> QED  BY <1>1, <1>2, PTL

-----------------------------------------------------------------------------
\* Initially there is no output.
LEMMA InitOutputInv == Init => OutputInv
  BY DEF Init, OutputInv, Quiet, HeldOpen, KillFails, Attended

\* Every step keeps the output ahead of the exit request.
LEMMA NextOutputInv == TypeOK /\ ChildInv /\ OutputInv /\ [Next]_vars => OutputInv'
<1> SUFFICES ASSUME TypeOK, ChildInv, OutputInv, [Next]_vars PROVE OutputInv'
  OBVIOUS
<1> USE DEF TypeOK, Labels, fds, procs, output, ended, world, OutputInv, ChildInv,
      Quiet, HeldOpen, Writable, Attended
<1>1. CASE Requests
  <2>1. CASE PtyReq  BY <2>1 DEF PtyReq
  <2>2. CASE Spawn  BY <2>2 DEF Spawn
  <2>3. CASE SpawnFails  BY <2>3, SMTT(30) DEF SpawnFails
  <2>4. CASE StartSftp  BY <2>4, SMTT(30) DEF StartSftp
  <2> QED  BY <1>1, <2>1, <2>2, <2>3, <2>4 DEF Requests
<1>2. CASE Runner
  <2>1. CASE NoSpawn  BY <2>1 DEF NoSpawn
  <2>2. CASE SftpShutdown  BY <2>2 DEF SftpShutdown
  <2>3. CASE SftpReturns  BY <2>3 DEF SftpReturns
  <2>4. CASE OnShutdown  BY <2>4 DEF OnShutdown, Hangup
  <2>5. CASE OnChannelClosed  BY <2>5 DEF OnChannelClosed, Hangup
  <2>6. CASE OnExit  BY <2>6 DEF OnExit
  <2>7. CASE GroupDrained  BY <2>7 DEF GroupDrained
  <2>8. CASE GraceExpires  BY <2>8 DEF GraceExpires
  <2>9. CASE Reaped  BY <2>9 DEF Reaped
  <2>10. CASE Drained  BY <2>10 DEF Drained
  <2>11. CASE DrainExpires  BY <2>11 DEF DrainExpires
  <2>12. CASE ClearMaster  BY <2>12 DEF ClearMaster
  <2>13. CASE CloseMaster  BY <2>13 DEF CloseMaster
  <2>14. CASE SendExit  BY <2>14 DEF SendExit
  <2>15. CASE Settle  BY <2>15 DEF Settle
  <2> QED  BY <1>2, <2>1, <2>2, <2>3, <2>4, <2>5, <2>6, <2>7, <2>8, <2>9, <2>10,
        <2>11, <2>12, <2>13, <2>14, <2>15 DEF Runner
<1>3. CASE Copier
  <2>1. CASE Forward  BY <2>1 DEF Forward
  <2>2. CASE CopyEnds  BY <2>2 DEF CopyEnds
  <2> QED  BY <1>3, <2>1, <2>2 DEF Copier
<1>4. CASE Waiter
  <2>1. CASE Reap  BY <2>1 DEF Reap
  <2>2. CASE WaitReturns  BY <2>2, SMTT(30) DEF WaitReturns
  <2> QED  BY <1>4, <2>1, <2>2 DEF Waiter
<1>5. CASE World
  <2>1. CASE WindowChange  BY <2>1 DEF WindowChange
  <2>2. CASE Write  BY <2>2 DEF Write
  <2>3. CASE Fork  BY <2>3 DEF Fork
  <2>4. CASE ChildEnds  BY <2>4 DEF ChildEnds
  <2>5. CASE DescendantEnds  BY <2>5 DEF DescendantEnds
  <2>6. CASE ClientEOF  BY <2>6 DEF ClientEOF
  <2>7. CASE ClientCloses  BY <2>7 DEF ClientCloses
  <2>8. CASE ConnectionDrops  BY <2>8 DEF ConnectionDrops
  <2>9. CASE CancelConn  BY <2>9 DEF CancelConn
  <2>10. CASE Shutdown  BY <2>10 DEF Shutdown
  <2>11. CASE SftpFails  BY <2>11 DEF SftpFails
  <2>12. ASSUME NEW p \in {"child", "bg"}, ChangeUser(p) PROVE OutputInv'
    BY <2>12 DEF ChangeUser
  <2> QED  BY <1>5, <2>1, <2>2, <2>3, <2>4, <2>5, <2>6, <2>7, <2>8, <2>9, <2>10,
        <2>11, <2>12 DEF World
<1>6. CASE RequestsEnd  BY <1>6 DEF RequestsEnd
<1>7. CASE UNCHANGED vars  BY <1>7 DEF vars
<1> QED  BY <1>1, <1>2, <1>3, <1>4, <1>5, <1>6, <1>7 DEF Next

\* Unless drain-timeout was logged, the client has all the output before it is
\* told of the exit, with a PTY and without.
THEOREM OutputBeforeExitHolds == Spec => []OutputBeforeExit
<1>1. Spec => []ChildInv
  BY TypeCorrect, InitChildInv, NextChildInv, PTL DEF Spec
<1>2. Spec => []OutputInv
  BY <1>1, TypeCorrect, InitOutputInv, NextOutputInv, PTL DEF Spec
<1>3. OutputInv => OutputBeforeExit  BY DEF OutputInv, OutputBeforeExit, Quiet
<1> QED  BY <1>2, <1>3, PTL

-----------------------------------------------------------------------------
\* Initially no group has been signalled.
LEMMA InitGroupInv == Init => GroupInv
  BY DEF Init, GroupInv, Quiet, HeldOpen, KillFails, Attended

\* Every step keeps the escalation complete.
LEMMA NextGroupInv == TypeOK /\ GroupInv /\ [Next]_vars => GroupInv'
<1> SUFFICES ASSUME TypeOK, GroupInv, [Next]_vars PROVE GroupInv'
  OBVIOUS
<1> USE DEF TypeOK, Labels, fds, procs, output, ended, world, GroupInv, KillFails
<1>1. CASE Requests
  <2>1. CASE PtyReq  BY <2>1 DEF PtyReq
  <2>2. CASE Spawn  BY <2>2 DEF Spawn
  <2>3. CASE SpawnFails  BY <2>3, SMTT(30) DEF SpawnFails
  <2>4. CASE StartSftp  BY <2>4 DEF StartSftp
  <2> QED  BY <1>1, <2>1, <2>2, <2>3, <2>4 DEF Requests
<1>2. CASE Runner
  <2>1. CASE NoSpawn  BY <2>1 DEF NoSpawn
  <2>2. CASE SftpShutdown  BY <2>2 DEF SftpShutdown
  <2>3. CASE SftpReturns  BY <2>3 DEF SftpReturns
  <2>4. CASE OnShutdown  BY <2>4 DEF OnShutdown, Hangup
  <2>5. CASE OnChannelClosed  BY <2>5 DEF OnChannelClosed, Hangup
  <2>6. CASE OnExit  BY <2>6 DEF OnExit
  <2>7. CASE GroupDrained  BY <2>7 DEF GroupDrained
  <2>8. CASE GraceExpires  BY <2>8 DEF GraceExpires
  <2>9. CASE Reaped  BY <2>9 DEF Reaped
  <2>10. CASE Drained  BY <2>10 DEF Drained
  <2>11. CASE DrainExpires  BY <2>11 DEF DrainExpires
  <2>12. CASE ClearMaster  BY <2>12 DEF ClearMaster
  <2>13. CASE CloseMaster  BY <2>13 DEF CloseMaster
  <2>14. CASE SendExit  BY <2>14 DEF SendExit
  <2>15. CASE Settle  BY <2>15 DEF Settle
  <2> QED  BY <1>2, <2>1, <2>2, <2>3, <2>4, <2>5, <2>6, <2>7, <2>8, <2>9, <2>10,
        <2>11, <2>12, <2>13, <2>14, <2>15 DEF Runner
<1>3. CASE Copier
  <2>1. CASE Forward  BY <2>1 DEF Forward
  <2>2. CASE CopyEnds  BY <2>2 DEF CopyEnds
  <2> QED  BY <1>3, <2>1, <2>2 DEF Copier
<1>4. CASE Waiter
  <2>1. CASE Reap  BY <2>1 DEF Reap
  <2>2. CASE WaitReturns  BY <2>2 DEF WaitReturns
  <2> QED  BY <1>4, <2>1, <2>2 DEF Waiter
<1>5. CASE World
  <2>1. CASE WindowChange  BY <2>1 DEF WindowChange
  <2>2. CASE Write  BY <2>2 DEF Write
  <2>3. CASE Fork  BY <2>3 DEF Fork
  <2>4. CASE ChildEnds  BY <2>4 DEF ChildEnds
  <2>5. CASE DescendantEnds  BY <2>5 DEF DescendantEnds
  <2>6. CASE ClientEOF  BY <2>6 DEF ClientEOF
  <2>7. CASE ClientCloses  BY <2>7 DEF ClientCloses
  <2>8. CASE ConnectionDrops  BY <2>8 DEF ConnectionDrops
  <2>9. CASE CancelConn  BY <2>9 DEF CancelConn
  <2>10. CASE Shutdown  BY <2>10 DEF Shutdown
  <2>11. CASE SftpFails  BY <2>11 DEF SftpFails
  <2>12. ASSUME NEW p \in {"child", "bg"}, ChangeUser(p) PROVE GroupInv'
    BY <2>12 DEF ChangeUser
  <2> QED  BY <1>5, <2>1, <2>2, <2>3, <2>4, <2>5, <2>6, <2>7, <2>8, <2>9, <2>10,
        <2>11, <2>12 DEF World
<1>6. CASE RequestsEnd  BY <1>6 DEF RequestsEnd
<1>7. CASE UNCHANGED vars  BY <1>7 DEF vars
<1> QED  BY <1>1, <1>2, <1>3, <1>4, <1>5, <1>6, <1>7 DEF Next

\* signalAndKill returns only when SIGKILL has been sent to the group or nobody
\* is left in it whom the server may signal, and nobody such joins it later.
THEOREM EscalationCompleteHolds == Spec => []EscalationComplete
<1>1. Spec => []GroupInv
  BY TypeCorrect, InitGroupInv, NextGroupInv, PTL DEF Spec
<1>2. GroupInv => EscalationComplete  BY DEF GroupInv, EscalationComplete
<1> QED  BY <1>1, <1>2, PTL

-----------------------------------------------------------------------------
\* Initially there is no PTY.
LEMMA InitPtyInv == Init => PtyInv
  BY DEF Init, PtyInv

\* Every step keeps track of the PTY's descriptors.
LEMMA NextPtyInv == TypeOK /\ PtyInv /\ [Next]_vars => PtyInv'
<1> SUFFICES ASSUME TypeOK, PtyInv, [Next]_vars PROVE PtyInv'
  OBVIOUS
<1> USE DEF TypeOK, Labels, fds, procs, output, ended, world, PtyInv
<1>1. CASE Requests
  <2>1. CASE PtyReq  BY <2>1 DEF PtyReq
  <2>2. CASE Spawn  BY <2>2 DEF Spawn
  <2>3. CASE SpawnFails  BY <2>3, SMTT(30) DEF SpawnFails
  <2>4. CASE StartSftp  BY <2>4, SMTT(30) DEF StartSftp
  <2> QED  BY <1>1, <2>1, <2>2, <2>3, <2>4 DEF Requests
<1>2. CASE Runner
  <2>1. CASE NoSpawn  BY <2>1 DEF NoSpawn
  <2>2. CASE SftpShutdown  BY <2>2 DEF SftpShutdown
  <2>3. CASE SftpReturns  BY <2>3 DEF SftpReturns
  <2>4. CASE OnShutdown  BY <2>4 DEF OnShutdown, Hangup
  <2>5. CASE OnChannelClosed  BY <2>5 DEF OnChannelClosed, Hangup
  <2>6. CASE OnExit  BY <2>6 DEF OnExit
  <2>7. CASE GroupDrained  BY <2>7 DEF GroupDrained
  <2>8. CASE GraceExpires  BY <2>8 DEF GraceExpires
  <2>9. CASE Reaped  BY <2>9 DEF Reaped
  <2>10. CASE Drained  BY <2>10 DEF Drained
  <2>11. CASE DrainExpires  BY <2>11 DEF DrainExpires
  <2>12. CASE ClearMaster  BY <2>12 DEF ClearMaster
  <2>13. CASE CloseMaster  BY <2>13 DEF CloseMaster
  <2>14. CASE SendExit  BY <2>14 DEF SendExit
  <2>15. CASE Settle  BY <2>15 DEF Settle
  <2> QED  BY <1>2, <2>1, <2>2, <2>3, <2>4, <2>5, <2>6, <2>7, <2>8, <2>9, <2>10,
        <2>11, <2>12, <2>13, <2>14, <2>15 DEF Runner
<1>3. CASE Copier
  <2>1. CASE Forward  BY <2>1 DEF Forward
  <2>2. CASE CopyEnds  BY <2>2 DEF CopyEnds
  <2> QED  BY <1>3, <2>1, <2>2 DEF Copier
<1>4. CASE Waiter
  <2>1. CASE Reap  BY <2>1 DEF Reap
  <2>2. CASE WaitReturns  BY <2>2, SMTT(30) DEF WaitReturns
  <2> QED  BY <1>4, <2>1, <2>2 DEF Waiter
<1>5. CASE World
  <2>1. CASE WindowChange  BY <2>1 DEF WindowChange
  <2>2. CASE Write  BY <2>2 DEF Write
  <2>3. CASE Fork  BY <2>3 DEF Fork
  <2>4. CASE ChildEnds  BY <2>4 DEF ChildEnds
  <2>5. CASE DescendantEnds  BY <2>5 DEF DescendantEnds
  <2>6. CASE ClientEOF  BY <2>6 DEF ClientEOF
  <2>7. CASE ClientCloses  BY <2>7 DEF ClientCloses
  <2>8. CASE ConnectionDrops  BY <2>8 DEF ConnectionDrops
  <2>9. CASE CancelConn  BY <2>9 DEF CancelConn
  <2>10. CASE Shutdown  BY <2>10 DEF Shutdown
  <2>11. CASE SftpFails  BY <2>11 DEF SftpFails
  <2>12. ASSUME NEW p \in {"child", "bg"}, ChangeUser(p) PROVE PtyInv'
    BY <2>12 DEF ChangeUser
  <2> QED  BY <1>5, <2>1, <2>2, <2>3, <2>4, <2>5, <2>6, <2>7, <2>8, <2>9, <2>10,
        <2>11, <2>12 DEF World
<1>6. CASE RequestsEnd  BY <1>6 DEF RequestsEnd
<1>7. CASE UNCHANGED vars  BY <1>7 DEF vars
<1> QED  BY <1>1, <1>2, <1>3, <1>4, <1>5, <1>6, <1>7 DEF Next

\* A session that ran a child, or was closed before it ran anything, has closed
\* both descriptors of its PTY when Handle returns.
THEOREM PtyReleasedHolds == Spec => []PtyReleased
<1>1. Spec => []PtyInv
  BY TypeCorrect, InitPtyInv, NextPtyInv, PTL DEF Spec
<1>2. PtyInv => PtyReleased  BY DEF PtyInv, PtyReleased
<1> QED  BY <1>1, <1>2, PTL

-----------------------------------------------------------------------------
\* Initially nothing has been promised.
LEMMA InitContractInv == Init => ContractInv
  BY DEF Init, ContractInv

\* Every step keeps what the contract rests on.
LEMMA NextContractInv == TypeOK /\ ContractInv /\ [Next]_vars => ContractInv'
<1> SUFFICES ASSUME TypeOK, ContractInv, [Next]_vars PROVE ContractInv'
  OBVIOUS
<1> USE DEF TypeOK, Labels, fds, procs, output, ended, world, ContractInv, KillFails
<1>1. CASE Requests
  <2>1. CASE PtyReq  BY <2>1 DEF PtyReq
  <2>2. CASE Spawn  BY <2>2 DEF Spawn
  <2>3. CASE SpawnFails  BY <2>3 DEF SpawnFails
  <2>4. CASE StartSftp  BY <2>4, SMTT(30) DEF StartSftp
  <2> QED  BY <1>1, <2>1, <2>2, <2>3, <2>4 DEF Requests
<1>2. CASE Runner
  <2>1. CASE NoSpawn  BY <2>1 DEF NoSpawn
  <2>2. CASE SftpShutdown  BY <2>2 DEF SftpShutdown
  <2>3. CASE SftpReturns  BY <2>3 DEF SftpReturns
  <2>4. CASE OnShutdown  BY <2>4 DEF OnShutdown, Hangup
  <2>5. CASE OnChannelClosed  BY <2>5 DEF OnChannelClosed, Hangup
  <2>6. CASE OnExit  BY <2>6 DEF OnExit
  <2>7. CASE GroupDrained  BY <2>7 DEF GroupDrained
  <2>8. CASE GraceExpires  BY <2>8 DEF GraceExpires
  <2>9. CASE Reaped  BY <2>9 DEF Reaped
  <2>10. CASE Drained  BY <2>10 DEF Drained
  <2>11. CASE DrainExpires  BY <2>11 DEF DrainExpires
  <2>12. CASE ClearMaster  BY <2>12 DEF ClearMaster
  <2>13. CASE CloseMaster  BY <2>13 DEF CloseMaster
  <2>14. CASE SendExit  BY <2>14 DEF SendExit
  <2>15. CASE Settle  BY <2>15 DEF Settle
  <2> QED  BY <1>2, <2>1, <2>2, <2>3, <2>4, <2>5, <2>6, <2>7, <2>8, <2>9, <2>10,
        <2>11, <2>12, <2>13, <2>14, <2>15 DEF Runner
<1>3. CASE Copier
  <2>1. CASE Forward  BY <2>1 DEF Forward
  <2>2. CASE CopyEnds  BY <2>2 DEF CopyEnds
  <2> QED  BY <1>3, <2>1, <2>2 DEF Copier
<1>4. CASE Waiter
  <2>1. CASE Reap  BY <2>1 DEF Reap
  <2>2. CASE WaitReturns  BY <2>2, SMTT(30) DEF WaitReturns
  <2> QED  BY <1>4, <2>1, <2>2 DEF Waiter
<1>5. CASE World
  <2>1. CASE WindowChange  BY <2>1 DEF WindowChange
  <2>2. CASE Write  BY <2>2 DEF Write
  <2>3. CASE Fork  BY <2>3 DEF Fork
  <2>4. CASE ChildEnds  BY <2>4 DEF ChildEnds
  <2>5. CASE DescendantEnds  BY <2>5 DEF DescendantEnds
  <2>6. CASE ClientEOF  BY <2>6 DEF ClientEOF
  <2>7. CASE ClientCloses  BY <2>7 DEF ClientCloses
  <2>8. CASE ConnectionDrops  BY <2>8 DEF ConnectionDrops
  <2>9. CASE CancelConn  BY <2>9 DEF CancelConn
  <2>10. CASE Shutdown  BY <2>10, SMTT(30) DEF Shutdown
  <2>11. CASE SftpFails  BY <2>11 DEF SftpFails
  <2>12. ASSUME NEW p \in {"child", "bg"}, ChangeUser(p) PROVE ContractInv'
    BY <2>12 DEF ChangeUser
  <2> QED  BY <1>5, <2>1, <2>2, <2>3, <2>4, <2>5, <2>6, <2>7, <2>8, <2>9, <2>10,
        <2>11, <2>12 DEF World
<1>6. CASE RequestsEnd  BY <1>6 DEF RequestsEnd
<1>7. CASE UNCHANGED vars  BY <1>7 DEF vars
<1> QED  BY <1>1, <1>2, <1>3, <1>4, <1>5, <1>6, <1>7 DEF Next

\* The session is in one of the contract's states.
LEMMA StateTyped == TypeOK => HandleState \in Contract!States
  BY DEF TypeOK, Labels, HandleState, Phase, Contract!States

\* See StateTyped.
LEMMA StateTypedNext == TypeOK' => HandleState' \in Contract!States
  BY DEF TypeOK, Labels, HandleState, Phase, Contract!States

\* Every step of Session is a step that the contract allows, or none.
LEMMA NextContract ==
  TypeOK /\ ContractInv /\ [Next]_vars => [Contract!Next]_<<HandleState, ctxDone>>
<1> SUFFICES ASSUME TypeOK, ContractInv, [Next]_vars
             PROVE  Contract!Next \/ UNCHANGED <<HandleState, ctxDone>>
  OBVIOUS
<1> USE DEF TypeOK, Labels, fds, procs, output, ended, world, ContractInv,
      KillFails, Contract!Next, Contract!Move, Contract!Cancel, Contract!When
<1>0. HandleState \in Contract!States /\ HandleState' \in Contract!States
  BY NextTypeOK, StateTyped, StateTypedNext
<1>1. CASE Requests
  <2>1. CASE PtyReq  BY <2>1 DEF PtyReq, HandleState, Phase
  <2>2. CASE Spawn
    <3>1. HandleState.at = "idle" /\ UNCHANGED ctxDone
      BY <2>2 DEF Spawn, HandleState, Phase
    <3>2. /\ HandleState'.at = "run" /\ HandleState'.child = "alive"
           /\ HandleState'.killed = HandleState.killed /\ HandleState'.closed = HandleState.closed
           /\ HandleState'.gone = HandleState.gone
      BY <2>2 DEF Spawn, HandleState, Phase
    <3>3. HandleState' = [HandleState EXCEPT !.at = "run", !.child = "alive"]
      BY <1>0, <3>2 DEF Contract!States
    <3> QED  BY <3>1, <3>3 DEF Contract!World, Contract!Spawn
  <2>3. CASE SpawnFails
    <3>1. HandleState.at = "idle" /\ UNCHANGED ctxDone
      BY <2>3 DEF SpawnFails, HandleState, Phase
    <3>2. /\ HandleState'.at = "done" /\ HandleState'.child = HandleState.child
           /\ HandleState'.killed = HandleState.killed /\ HandleState'.closed = TRUE
           /\ HandleState'.gone = HandleState.gone
      BY <2>3 DEF SpawnFails, HandleState, Phase
    <3>3. HandleState' = [HandleState EXCEPT !.at = "done", !.closed = TRUE]
      BY <1>0, <3>2 DEF Contract!States
    <3> QED  BY <3>1, <3>3 DEF Contract!World, Contract!SpawnFails
  <2>4. CASE StartSftp
    <3>1. HandleState.at = "idle" /\ UNCHANGED ctxDone
      BY <2>4 DEF StartSftp, HandleState, Phase
    <3>2. /\ HandleState'.at = "run" /\ HandleState'.child = HandleState.child
           /\ HandleState'.killed = HandleState.killed /\ HandleState'.closed = HandleState.closed
           /\ HandleState'.gone = HandleState.gone
      BY <2>4 DEF StartSftp, HandleState, Phase
    <3>3. HandleState' = [HandleState EXCEPT !.at = "run"]
      BY <1>0, <3>2 DEF Contract!States
    <3> QED  BY <3>1, <3>3 DEF Contract!World, Contract!Spawn
  <2> QED  BY <1>1, <2>1, <2>2, <2>3, <2>4 DEF Requests
<1>2. CASE Runner
  <2>1. CASE NoSpawn
    <3>1. HandleState.at = "idle" /\ HandleState.gone /\ UNCHANGED ctxDone
      BY <2>1 DEF NoSpawn, HandleState, Phase
    <3>2. /\ HandleState'.at = "done" /\ HandleState'.child = HandleState.child
           /\ HandleState'.killed = HandleState.killed /\ HandleState'.closed = TRUE
           /\ HandleState'.gone = HandleState.gone
      BY <2>1 DEF NoSpawn, HandleState, Phase
    <3>3. HandleState' = [HandleState EXCEPT !.at = "done", !.closed = TRUE]
      BY <1>0, <3>2 DEF Contract!States
    <3> QED  BY <3>1, <3>3 DEF Contract!Runner, Contract!NoSpawn
  <2>2. CASE SftpShutdown
    <3>1. HandleState.at = "run" /\ HandleState.child = "none" /\ ctxDone /\ UNCHANGED ctxDone
      BY <2>2 DEF SftpShutdown, HandleState, Phase
    <3>2. /\ HandleState'.at = "settle" /\ HandleState'.child = HandleState.child
           /\ HandleState'.killed = HandleState.killed /\ HandleState'.closed = TRUE
           /\ HandleState'.gone = HandleState.gone
      BY <2>2 DEF SftpShutdown, HandleState, Phase
    <3>3. HandleState' = [HandleState EXCEPT !.at = "settle", !.closed = TRUE]
      BY <1>0, <3>2 DEF Contract!States
    <3> QED  BY <3>1, <3>3 DEF Contract!Runner, Contract!SftpStops, Contract!SftpReturns
  <2>3. CASE SftpReturns
    <3>1. CASE pc = "sftp"
      <4>1. HandleState.at = "run" /\ HandleState.child = "none" /\ UNCHANGED ctxDone
        BY <2>3, <3>1 DEF SftpReturns, HandleState, Phase
      <4>2. /\ HandleState'.at = "settle" /\ HandleState'.child = HandleState.child
             /\ HandleState'.killed = HandleState.killed /\ HandleState'.closed = TRUE
             /\ HandleState'.gone = HandleState.gone
        BY <2>3, <3>1 DEF SftpReturns, HandleState, Phase
      <4>3. HandleState' = [HandleState EXCEPT !.at = "settle", !.closed = TRUE]
        BY <1>0, <4>2 DEF Contract!States
      <4> QED  BY <4>1, <4>3 DEF Contract!World, Contract!SftpReturns
    <3>2. CASE pc # "sftp"  BY <2>3, <3>2 DEF SftpReturns, HandleState, Phase
    <3> QED  BY <3>1, <3>2
  <2>4. CASE OnShutdown
    <3>1. HandleState.at = "run" /\ HandleState.child # "none" /\ ctxDone /\ UNCHANGED ctxDone
      BY <2>4 DEF OnShutdown, Hangup, HandleState, Phase
    <3>2. /\ HandleState'.at = "grace" /\ HandleState'.child = HandleState.child
           /\ HandleState'.killed = HandleState.killed /\ HandleState'.closed = HandleState.closed
           /\ HandleState'.gone = HandleState.gone
      BY <2>4 DEF OnShutdown, Hangup, HandleState, Phase
    <3>3. HandleState' = [HandleState EXCEPT !.at = "grace"]
      BY <1>0, <3>2 DEF Contract!States
    <3> QED  BY <3>1, <3>3 DEF Contract!Runner, Contract!Hangup
  <2>5. CASE OnChannelClosed
    <3>1. /\ HandleState.at = "run" /\ HandleState.child # "none" /\ HandleState.gone
          /\ UNCHANGED ctxDone
      BY <2>5 DEF OnChannelClosed, Hangup, HandleState, Phase
    <3>2. /\ HandleState'.at = "grace" /\ HandleState'.child = HandleState.child
           /\ HandleState'.killed = HandleState.killed /\ HandleState'.closed = HandleState.closed
           /\ HandleState'.gone = HandleState.gone
      BY <2>5 DEF OnChannelClosed, Hangup, HandleState, Phase
    <3>3. HandleState' = [HandleState EXCEPT !.at = "grace"]
      BY <1>0, <3>2 DEF Contract!States
    <3> QED  BY <3>1, <3>3 DEF Contract!Runner, Contract!Hangup
  <2>6. CASE OnExit  BY <2>6 DEF OnExit, HandleState, Phase
  <2>7. CASE GroupDrained
    <3>1. HandleState.at = "grace" /\ HandleState.child \in {"dead", "foreign"}
          /\ UNCHANGED ctxDone
      BY <2>7 DEF GroupDrained, HandleState, Phase
    <3>2. /\ HandleState'.at = "settle" /\ HandleState'.child = HandleState.child
           /\ HandleState'.killed = HandleState.killed /\ HandleState'.closed = HandleState.closed
           /\ HandleState'.gone = HandleState.gone
      BY <2>7 DEF GroupDrained, HandleState, Phase
    <3>3. HandleState' = [HandleState EXCEPT !.at = "settle"]
      BY <1>0, <3>2 DEF Contract!States
    <3> QED  BY <3>1, <3>3 DEF Contract!Runner, Contract!GroupDrained
  <2>8. CASE GraceExpires
    <3>1. HandleState.at = "grace" /\ UNCHANGED ctxDone
      BY <2>8 DEF GraceExpires, HandleState, Phase
    <3>2. /\ HandleState'.at = "settle" /\ HandleState'.child = HandleState.child
           /\ HandleState'.killed = TRUE /\ HandleState'.closed = HandleState.closed
           /\ HandleState'.gone = HandleState.gone
      BY <2>8 DEF GraceExpires, HandleState, Phase
    <3>3. HandleState' = [HandleState EXCEPT !.at = "settle", !.killed = TRUE]
      BY <1>0, <3>2 DEF Contract!States
    <3> QED  BY <3>1, <3>3 DEF Contract!Runner, Contract!Kill
  <2>9. CASE Reaped  BY <2>9 DEF Reaped, HandleState, Phase
  <2>10. CASE Drained  BY <2>10 DEF Drained, HandleState, Phase
  <2>11. CASE DrainExpires  BY <2>11 DEF DrainExpires, HandleState, Phase
  <2>12. CASE ClearMaster  BY <2>12 DEF ClearMaster, HandleState, Phase
  <2>13. CASE CloseMaster  BY <2>13 DEF CloseMaster, HandleState, Phase
  <2>14. CASE SendExit
    <3>1. CASE ~hup
      <4>1. HandleState.at = "run" /\ HandleState.child = "dead" /\ UNCHANGED ctxDone
        BY <2>14, <3>1 DEF SendExit, HandleState, Phase
      <4>2. /\ HandleState'.at = "settle" /\ HandleState'.child = HandleState.child
             /\ HandleState'.killed = HandleState.killed /\ HandleState'.closed = TRUE
             /\ HandleState'.gone = HandleState.gone
        BY <2>14, <3>1 DEF SendExit, HandleState, Phase
      <4>3. HandleState' = [HandleState EXCEPT !.at = "settle", !.closed = TRUE]
        BY <1>0, <4>2 DEF Contract!States
      <4> QED  BY <4>1, <4>3 DEF Contract!Runner, Contract!ReportExit
    <3>2. CASE hup  BY <2>14, <3>2 DEF SendExit, HandleState, Phase
    <3> QED  BY <3>1, <3>2
  <2>15. CASE Settle
    <3>1. /\ HandleState.at = "settle" /\ HandleState.child \notin {"alive", "foreign"} /\ HandleState.gone
          /\ UNCHANGED ctxDone
      BY <2>15 DEF Settle, HandleState, Phase
    <3>2. /\ HandleState'.at = "done" /\ HandleState'.child = HandleState.child
           /\ HandleState'.killed = HandleState.killed /\ HandleState'.closed = TRUE
           /\ HandleState'.gone = HandleState.gone
      BY <2>15 DEF Settle, HandleState, Phase
    <3>3. HandleState' = [HandleState EXCEPT !.at = "done", !.closed = TRUE]
      BY <1>0, <3>2 DEF Contract!States
    <3> QED  BY <3>1, <3>3 DEF Contract!Runner, Contract!Settle, Contract!Living
  <2> QED  BY <1>2, <2>1, <2>2, <2>3, <2>4, <2>5, <2>6, <2>7, <2>8, <2>9, <2>10,
        <2>11, <2>12, <2>13, <2>14, <2>15 DEF Runner
<1>3. CASE Copier
  <2>1. CASE Forward  BY <2>1 DEF Forward, HandleState, Phase
  <2>2. CASE CopyEnds  BY <2>2 DEF CopyEnds, HandleState, Phase
  <2> QED  BY <1>3, <2>1, <2>2 DEF Copier
<1>4. CASE Waiter
  <2>1. CASE Reap  BY <2>1 DEF Reap, HandleState, Phase
  <2>2. CASE WaitReturns  BY <2>2 DEF WaitReturns, HandleState, Phase
  <2> QED  BY <1>4, <2>1, <2>2 DEF Waiter
<1>5. CASE World
  <2>1. CASE WindowChange  BY <2>1 DEF WindowChange, HandleState, Phase
  <2>2. CASE Write  BY <2>2 DEF Write, HandleState, Phase
  <2>3. CASE Fork  BY <2>3 DEF Fork, HandleState, Phase
  <2>4. CASE ChildEnds
    <3>1. HandleState.child \in {"alive", "foreign"} /\ UNCHANGED ctxDone
      BY <2>4 DEF ChildEnds, HandleState, Phase
    <3>2. /\ HandleState'.at = HandleState.at /\ HandleState'.child = "dead"
           /\ HandleState'.killed = HandleState.killed /\ HandleState'.closed = HandleState.closed
           /\ HandleState'.gone = HandleState.gone
      BY <2>4 DEF ChildEnds, HandleState, Phase
    <3>3. HandleState' = [HandleState EXCEPT !.child = "dead"]
      BY <1>0, <3>2 DEF Contract!States
    <3> QED  BY <3>1, <3>3 DEF Contract!World, Contract!ChildDies, Contract!Living
  <2>5. CASE DescendantEnds  BY <2>5 DEF DescendantEnds, HandleState, Phase
  <2>6. CASE ClientEOF  BY <2>6 DEF ClientEOF, HandleState, Phase
  <2>7. CASE ClientCloses
    <3>1. ~HandleState.gone /\ UNCHANGED ctxDone
      BY <2>7 DEF ClientCloses, HandleState, Phase
    <3>2. /\ HandleState'.at = HandleState.at /\ HandleState'.child = HandleState.child
           /\ HandleState'.killed = HandleState.killed /\ HandleState'.closed = HandleState.closed
           /\ HandleState'.gone = TRUE
      BY <2>7 DEF ClientCloses, HandleState, Phase
    <3>3. HandleState' = [HandleState EXCEPT !.gone = TRUE]
      BY <1>0, <3>2 DEF Contract!States
    <3> QED  BY <3>1, <3>3 DEF Contract!World, Contract!Leave
  <2>8. CASE ConnectionDrops
    <3>1. CASE client # "closed"
      <4>1. ~HandleState.gone /\ UNCHANGED ctxDone
        BY <2>8, <3>1 DEF ConnectionDrops, HandleState, Phase
      <4>2. /\ HandleState'.at = HandleState.at /\ HandleState'.child = HandleState.child
             /\ HandleState'.killed = HandleState.killed /\ HandleState'.closed = HandleState.closed
             /\ HandleState'.gone = TRUE
        BY <2>8, <3>1 DEF ConnectionDrops, HandleState, Phase
      <4>3. HandleState' = [HandleState EXCEPT !.gone = TRUE]
        BY <1>0, <4>2 DEF Contract!States
      <4> QED  BY <4>1, <4>3 DEF Contract!World, Contract!Leave
    <3>2. CASE client = "closed"  BY <2>8, <3>2 DEF ConnectionDrops, HandleState, Phase
    <3> QED  BY <3>1, <3>2
  <2>9. CASE CancelConn  BY <2>9 DEF CancelConn, HandleState, Phase
  <2>10. CASE Shutdown  BY <2>10 DEF Shutdown, HandleState, Phase
  <2>11. CASE SftpFails
    <3>1. CASE pc = "sftp"
      <4>1. HandleState.at = "run" /\ HandleState.child = "none" /\ UNCHANGED ctxDone
        BY <2>11, <3>1 DEF SftpFails, HandleState, Phase
      <4>2. /\ HandleState'.at = "settle" /\ HandleState'.child = HandleState.child
             /\ HandleState'.killed = HandleState.killed /\ HandleState'.closed = TRUE
             /\ HandleState'.gone = HandleState.gone
        BY <2>11, <3>1 DEF SftpFails, HandleState, Phase
      <4>3. HandleState' = [HandleState EXCEPT !.at = "settle", !.closed = TRUE]
        BY <1>0, <4>2 DEF Contract!States
      <4> QED  BY <4>1, <4>3 DEF Contract!World, Contract!SftpReturns
    <3>2. CASE pc # "sftp"  BY <2>11, <3>2 DEF SftpFails, HandleState, Phase
    <3> QED  BY <3>1, <3>2
  <2>12. CASE ChangeUser("child")
    <3>1. HandleState.child = "alive" /\ ~HandleState.killed /\ UNCHANGED ctxDone
      BY <2>12 DEF ChangeUser, HandleState, Phase
    <3>2. /\ HandleState'.at = HandleState.at /\ HandleState'.child = "foreign"
           /\ HandleState'.killed = HandleState.killed /\ HandleState'.closed = HandleState.closed
           /\ HandleState'.gone = HandleState.gone
      BY <2>12 DEF ChangeUser, HandleState, Phase
    <3>3. HandleState' = [HandleState EXCEPT !.child = "foreign"]
      BY <1>0, <3>2 DEF Contract!States
    <3> QED  BY <3>1, <3>3 DEF Contract!World, Contract!ChangesUser
  <2>13. CASE ChangeUser("bg")  BY <2>13 DEF ChangeUser, HandleState, Phase
  <2> QED  BY <1>5, <2>1, <2>2, <2>3, <2>4, <2>5, <2>6, <2>7, <2>8, <2>9, <2>10,
        <2>11, <2>12, <2>13 DEF World
<1>6. CASE RequestsEnd  BY <1>6 DEF RequestsEnd, HandleState, Phase
<1>7. CASE UNCHANGED vars  BY <1>7 DEF vars, HandleState, Phase
<1> QED  BY <1>1, <1>2, <1>3, <1>4, <1>5, <1>6, <1>7 DEF Next

\* Service.Handle keeps the contract that Server is composed of: it implements
\* module Handle.
THEOREM KeepsContractHolds == Spec => KeepsContract
<1>1. Init => Contract!Init
  BY DEF Init, HandleState, Phase, Contract!Init, Contract!Fresh
<1>2. Spec => []ContractInv
  BY TypeCorrect, InitContractInv, NextContractInv, PTL DEF Spec
<1> QED  BY <1>1, <1>2, TypeCorrect, NextContract, PTL DEF Spec, KeepsContract, Contract!Spec
=============================================================================
