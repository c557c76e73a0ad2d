------------------------------ MODULE Session ------------------------------
(***************************************************************************)
(* One session channel (internal/session/service.go): Service.Handle, the  *)
(* goroutines it starts, the child's processes and the client.             *)
(*                                                                         *)
(* Processes.  The child leads a process group of its own.  It may leave   *)
(* one descendant behind that keeps the child's output open, either in the *)
(* group or, if Escapes, outside it.  If Elevates, a process may come to   *)
(* run as a user whose processes the server may not signal (sudo, for a    *)
(* server that is not root), for good.  A process may end whenever it      *)
(* likes, of itself or on a signal; after SIGKILL every member of the      *)
(* group that the server may signal does.                                  *)
(*                                                                         *)
(* Output.  `out' counts the units that the processes have written to the  *)
(* PTY or the pipes and that no copy goroutine has passed on yet.          *)
(*                                                                         *)
(* Time.  The grace period and the drain cap are timers that may expire at *)
(* any moment, which covers every relation between them and the rest.      *)
(***************************************************************************)
EXTENDS Integers

CONSTANTS
  MaxOut,   \* bound: units of output that wait in the PTY or the pipes
  Escapes,  \* whether a descendant may leave the child's process group
  Elevates  \* whether a process may come to run as another user

ASSUME SessionAssumption ==
  MaxOut \in Nat /\ Escapes \in BOOLEAN /\ Elevates \in BOOLEAN

VARIABLES
  pc,         \* where Handle stands
  kind,       \* what the channel runs: "none", "child" (shell, exec), "sftp"
  pty,        \* st.pty # nil
  ptyMaster,  \* st.ptyMaster # nil
  master,     \* the server's master descriptor
  slave,      \* the server's slave descriptor
  size,       \* the outcome of the Setsize calls
  serving,    \* the goroutine that serves requests after the spawn runs
  child, bg,  \* the child and its descendant
  foreign,    \* which of the two the server may not signal
  ending,     \* how the child ended
  out,        \* output not yet passed on
  copying,    \* the output copy goroutines run
  waited,     \* cmd.Wait() has returned
  hup, kill,  \* the signals sent to the group
  reason,     \* the reason field of shutdown-signal
  drainTimedOut, \* drain-timeout was logged
  exit,       \* the exit request that went out on the channel
  chClosed,   \* the server has closed the channel
  client,     \* the client's side: "open", "eof" or "closed"
  connUp,     \* the SSH connection is up
  shutdown,   \* the server is shutting down
  ctxDone     \* the connection's context is cancelled

fds == <<pty, ptyMaster, master, slave, size>>
procs == <<child, bg, foreign, ending>>
output == <<out, copying, waited>>
ended == <<hup, kill, reason, drainTimedOut, exit>>
world == <<client, connUp, shutdown, ctxDone>>
vars == <<pc, kind, fds, serving, procs, output, ended, chClosed, world>>

Init ==
  /\ pc = "requests" /\ kind = "none"
  /\ pty = FALSE /\ ptyMaster = FALSE /\ master = "none" /\ slave = "none"
  /\ size = "unset"
  /\ serving = FALSE
  /\ child = "none" /\ bg = "none" /\ foreign = {} /\ ending = "none"
  /\ out = 0 /\ copying = FALSE /\ waited = FALSE
  /\ hup = FALSE /\ kill = FALSE /\ reason = "none"
  /\ drainTimedOut = FALSE /\ exit = "none"
  /\ chClosed = FALSE
  /\ client = "open" /\ connUp = TRUE /\ shutdown = FALSE /\ ctxDone = FALSE

-----------------------------------------------------------------------------
(***************************************************************************)
(* Phase 1: requests before the spawn.  Requests that are refused, and env *)
(* requests, leave the state modelled here alone.  A request that waits in *)
(* the stream is still served after the client has closed the channel.     *)
(***************************************************************************)

\* pty-req: only the first one that succeeds counts.
PtyReq ==
  /\ pc = "requests"
  /\ ~pty
  /\ pty' = TRUE /\ ptyMaster' = TRUE
  /\ master' = "open" /\ slave' = "open" /\ size' = "set"
  /\ UNCHANGED <<pc, kind, serving, procs, output, ended, chClosed, world>>

\* window-change, before the spawn and after it: Setsize under st.mu.
WindowChange ==
  /\ pc = "requests" \/ (serving /\ kind = "child")
  /\ ptyMaster
  /\ size' = IF master = "open" THEN "set" ELSE "error"
  /\ UNCHANGED <<pc, kind, pty, ptyMaster, master, slave, serving, procs,
                 output, ended, chClosed, world>>

\* Mutant: the slave is forgotten.
NoSpawnSlaveOpen ==
  /\ pc = "requests" /\ client = "closed"
  /\ master' = IF ptyMaster THEN "closed" ELSE master
  /\ chClosed' = TRUE
  /\ pc' = "done"
  /\ UNCHANGED <<kind, pty, ptyMaster, slave, size, serving, procs, output, ended,
                 world>>

\* The request stream closes before a shell, exec or subsystem: the PTY is
\* released, and Handle returns, which closes the channel.
NoSpawn ==
  /\ pc = "requests" /\ client = "closed"
  /\ master' = IF ptyMaster THEN "closed" ELSE master
  /\ slave' = IF slave = "open" THEN "closed" ELSE slave
  /\ chClosed' = TRUE
  /\ pc' = "done"
  /\ UNCHANGED <<kind, pty, ptyMaster, size, serving, procs, output, ended, world>>

\* shell or exec: startChild succeeds.  runChild's goroutines start with it.
Spawn ==
  /\ pc = "requests"
  /\ kind' = "child" /\ child' = "running"
  /\ slave' = IF pty THEN "closed" ELSE slave
  /\ copying' = TRUE /\ serving' = TRUE
  /\ pc' = "watch"
  /\ UNCHANGED <<pty, ptyMaster, master, size, bg, foreign, ending, out, waited,
                 ended, chClosed, world>>

\* startChild fails: exit-status 127, and Handle returns.  With a PTY the
\* master is closed; the slave is left to the garbage collector.
SpawnFails ==
  /\ pc = "requests"
  /\ kind' = "child"
  /\ master' = IF pty THEN "closed" ELSE master
  /\ exit' = IF client = "closed" THEN exit ELSE "127"
  /\ chClosed' = TRUE
  /\ pc' = "done"
  /\ UNCHANGED <<pty, ptyMaster, slave, size, serving, procs, output, hup, kill,
                 reason, drainTimedOut, world>>

-----------------------------------------------------------------------------
(***************************************************************************)
(* subsystem sftp: runSftp.  A PTY allocated before is left alone.         *)
(***************************************************************************)
StartSftp ==
  /\ pc = "requests"
  /\ kind' = "sftp" /\ serving' = TRUE
  /\ pc' = "sftp"
  /\ UNCHANGED <<fds, procs, output, ended, chClosed, world>>

\* Mutant: the channel is not closed.
SftpShutdownOpen ==
  /\ pc = "sftp" /\ ctxDone
  /\ pc' = "sftpStop"
  /\ UNCHANGED <<kind, fds, serving, procs, output, ended, chClosed, world>>

\* The context is done: the channel is closed under the SFTP server.
SftpShutdown ==
  /\ pc = "sftp" /\ ctxDone
  /\ chClosed' = TRUE
  /\ pc' = "sftpStop"
  /\ UNCHANGED <<kind, fds, serving, procs, output, ended, world>>

\* The SFTP server reads EOF and returns; its own Close closes the channel.
SftpReturns ==
  /\ pc \in {"sftp", "sftpStop"} /\ client # "open"
  /\ chClosed' = TRUE
  /\ pc' = "settle"
  /\ UNCHANGED <<kind, fds, serving, procs, output, ended, world>>

\* A packet that the SFTP server cannot decode makes it return as well.
SftpFails ==
  /\ pc \in {"sftp", "sftpStop"} /\ client = "open"
  /\ chClosed' = TRUE
  /\ pc' = "settle"
  /\ UNCHANGED <<kind, fds, serving, procs, output, ended, world>>

-----------------------------------------------------------------------------
(***************************************************************************)
(* runChild.  When several cases of its select are ready, any one is taken.*)
(***************************************************************************)

\* SIGHUP to the group, at the head of signalAndKill.
Hangup(why) ==
  /\ hup' = TRUE /\ reason' = why
  /\ pc' = "grace"
  /\ UNCHANGED <<kind, fds, serving, procs, output, kill, drainTimedOut, exit,
                 chClosed, world>>

OnShutdown == pc = "watch" /\ ctxDone /\ Hangup("shutdown")

OnChannelClosed == pc = "watch" /\ ~serving /\ Hangup("channel-close")

OnExit ==
  /\ pc = "watch" /\ waited
  /\ pc' = "drain"
  /\ UNCHANGED <<kind, fds, serving, procs, output, ended, chClosed, world>>

\* kill(-pgid, 0) fails: the group has no member (ESRCH), where a zombie that
\* nobody has waited for is one, or none that the server may signal (EPERM).
KillFails ==
  /\ child \in {"none", "reaped"} \/ "child" \in foreign
  /\ bg # "group" \/ "bg" \in foreign

\* Mutant: only the group's leader is looked at.
GroupDrainedLeader ==
  /\ pc = "grace" /\ child = "reaped"
  /\ pc' = "reap"
  /\ UNCHANGED <<kind, fds, serving, procs, output, ended, chClosed, world>>

\* signalAndKill returns at the first error of kill(-pgid, 0), whatever it is.
GroupDrained ==
  /\ pc = "grace" /\ KillFails
  /\ pc' = "reap"
  /\ UNCHANGED <<kind, fds, serving, procs, output, ended, chClosed, world>>

\* Mutant: no SIGKILL.
GraceExpiresIdle ==
  /\ pc = "grace"
  /\ pc' = "reap"
  /\ UNCHANGED <<kind, fds, serving, procs, output, ended, chClosed, world>>

GraceExpires ==
  /\ pc = "grace"
  /\ kill' = TRUE
  /\ pc' = "reap"
  /\ UNCHANGED <<kind, fds, serving, procs, output, hup, reason, drainTimedOut,
                 exit, chClosed, world>>

\* <-waitErr after signalAndKill.
Reaped ==
  /\ pc = "reap" /\ waited
  /\ pc' = "drain"
  /\ UNCHANGED <<kind, fds, serving, procs, output, ended, chClosed, world>>

\* Mutant: the copies are not waited for.
DrainedAtOnce ==
  /\ pc = "drain"
  /\ pc' = IF pty THEN "clear" ELSE "exit"
  /\ UNCHANGED <<kind, fds, serving, procs, output, ended, chClosed, world>>

\* drain: only a PTY has copies to wait for.
Drained ==
  /\ pc = "drain" /\ (~pty \/ ~copying)
  /\ pc' = IF pty THEN "clear" ELSE "exit"
  /\ UNCHANGED <<kind, fds, serving, procs, output, ended, chClosed, world>>

\* Mutant: the drain has no cap.
DrainUncapped == FALSE /\ UNCHANGED vars

DrainExpires ==
  /\ pc = "drain" /\ pty /\ copying
  /\ drainTimedOut' = TRUE
  /\ pc' = "clear"
  /\ UNCHANGED <<kind, fds, serving, procs, output, hup, kill, reason, exit,
                 chClosed, world>>

\* Mutant: st.ptyMaster is not cleared.
ClearMasterNot ==
  /\ pc = "clear"
  /\ pc' = "close"
  /\ UNCHANGED <<kind, fds, serving, procs, output, ended, chClosed, world>>

\* st.ptyMaster = nil under st.mu, and only then master.Close().
ClearMaster ==
  /\ pc = "clear"
  /\ ptyMaster' = FALSE
  /\ pc' = "close"
  /\ UNCHANGED <<kind, pty, master, slave, size, serving, procs, output, ended,
                 chClosed, world>>

CloseMaster ==
  /\ pc = "close"
  /\ master' = "closed"
  /\ pc' = "exit"
  /\ UNCHANGED <<kind, pty, ptyMaster, slave, size, serving, procs, output,
                 ended, chClosed, world>>

\* Mutant: the exit is reported for a signalled group too.
SendExitAlways ==
  /\ pc = "exit"
  /\ exit' = IF client = "closed" THEN exit ELSE ending
  /\ chClosed' = TRUE
  /\ pc' = "settle"
  /\ UNCHANGED <<kind, fds, serving, procs, output, hup, kill, reason,
                 drainTimedOut, world>>

\* sendExit and ch.Close(), unless the group was signalled.  On a channel that
\* the client has closed nothing goes out.
SendExit ==
  /\ pc = "exit"
  /\ exit' = IF hup \/ client = "closed" THEN exit ELSE ending
  /\ chClosed' = (chClosed \/ ~hup)
  /\ pc' = "settle"
  /\ UNCHANGED <<kind, fds, serving, procs, output, hup, kill, reason,
                 drainTimedOut, world>>

\* Mutant: the end of the request stream is not waited for.
SettleAtOnce ==
  /\ pc = "settle"
  /\ chClosed' = TRUE
  /\ pc' = "done"
  /\ UNCHANGED <<kind, fds, serving, procs, output, ended, world>>

\* <-chanClosed (<-done in runSftp), and Handle returns.
Settle ==
  /\ pc = "settle" /\ ~serving
  /\ chClosed' = TRUE
  /\ pc' = "done"
  /\ UNCHANGED <<kind, fds, serving, procs, output, ended, world>>

-----------------------------------------------------------------------------
(***************************************************************************)
(* The other goroutines.                                                   *)
(***************************************************************************)

\* processInflightRequests or rejectExtraRequests sees the stream closed.
RequestsEnd ==
  /\ serving /\ client = "closed"
  /\ serving' = FALSE
  /\ UNCHANGED <<pc, kind, fds, procs, output, ended, chClosed, world>>

Writable == client # "closed" /\ ~chClosed
HeldOpen == child = "running" \/ bg \in {"group", "daemon"}

\* io.Copy to the channel passes one unit on.
Forward ==
  /\ copying /\ out > 0 /\ Writable
  /\ out' = out - 1
  /\ UNCHANGED <<pc, kind, fds, serving, procs, copying, waited, ended, chClosed,
                 world>>

\* io.Copy ends: at EOF, on a write error, or with the master closed under it.
CopyEnds ==
  /\ copying
  /\ \/ out = 0 /\ ~HeldOpen
     \/ out > 0 /\ ~Writable
     \/ master = "closed"
  /\ copying' = FALSE
  /\ UNCHANGED <<pc, kind, fds, serving, procs, out, waited, ended, chClosed, world>>

\* cmd.Wait(): wait for the process, then, without a PTY, for the copies.
Reap ==
  /\ child = "zombie"
  /\ child' = "reaped"
  /\ UNCHANGED <<pc, kind, fds, serving, bg, foreign, ending, output, ended, chClosed,
                 world>>

WaitReturns ==
  /\ child = "reaped" /\ ~waited
  /\ pty \/ ~copying
  /\ waited' = TRUE
  /\ UNCHANGED <<pc, kind, fds, serving, procs, out, copying, ended, chClosed, world>>

-----------------------------------------------------------------------------
(***************************************************************************)
(* The processes and the client.                                           *)
(***************************************************************************)
Write ==
  /\ HeldOpen /\ copying /\ out < MaxOut
  /\ out' = out + 1
  /\ UNCHANGED <<pc, kind, fds, serving, procs, copying, waited, ended, chClosed,
                 world>>

\* A descendant runs as whoever its parent runs as.
Fork ==
  /\ child = "running" /\ bg = "none"
  /\ bg' \in (IF Escapes THEN {"group", "daemon"} ELSE {"group"})
  /\ foreign' = IF "child" \in foreign THEN {"child", "bg"} ELSE foreign
  /\ UNCHANGED <<pc, kind, fds, serving, child, ending, output, ended, chClosed, world>>

\* A process execs a setuid program (sudo): the server may not signal it any more.
ChangeUser(p) ==
  /\ Elevates /\ ~kill /\ p \notin foreign
  /\ IF p = "child" THEN child = "running" ELSE bg = "group"
  /\ foreign' = foreign \cup {p}
  /\ UNCHANGED <<pc, kind, fds, serving, child, bg, ending, output, ended, chClosed,
                 world>>

ChildEnds ==
  /\ child = "running"
  /\ child' = "zombie"
  /\ ending' \in {"status", "signal"}
  /\ UNCHANGED <<pc, kind, fds, serving, bg, foreign, output, ended, chClosed, world>>

DescendantEnds ==
  /\ bg \in {"group", "daemon"}
  /\ bg' = "dead"
  /\ UNCHANGED <<pc, kind, fds, serving, child, foreign, ending, output, ended,
                 chClosed, world>>

ClientEOF ==
  /\ client = "open"
  /\ client' = "eof"
  /\ UNCHANGED <<pc, kind, fds, serving, procs, output, ended, chClosed, connUp,
                 shutdown, ctxDone>>

ClientCloses ==
  /\ client # "closed"
  /\ client' = "closed"
  /\ UNCHANGED <<pc, kind, fds, serving, procs, output, ended, chClosed, connUp,
                 shutdown, ctxDone>>

\* The transport ends: the library closes every channel's request stream, and
\* then the stream of channels, on which handleConn returns and cancels.
ConnectionDrops ==
  /\ connUp
  /\ connUp' = FALSE /\ client' = "closed"
  /\ UNCHANGED <<pc, kind, fds, serving, procs, output, ended, chClosed, shutdown,
                 ctxDone>>

CancelConn ==
  /\ ~connUp /\ ~ctxDone
  /\ ctxDone' = TRUE
  /\ UNCHANGED <<pc, kind, fds, serving, procs, output, ended, chClosed, client,
                 connUp, shutdown>>

\* Serve's shutdown cancels every connection's context.
Shutdown ==
  /\ ~shutdown
  /\ shutdown' = TRUE /\ ctxDone' = TRUE
  /\ UNCHANGED <<pc, kind, fds, serving, procs, output, ended, chClosed, client,
                 connUp>>

-----------------------------------------------------------------------------
Requests == PtyReq \/ Spawn \/ SpawnFails \/ StartSftp
Runner ==
  \/ NoSpawn \/ SftpShutdown \/ SftpReturns
  \/ OnShutdown \/ OnChannelClosed \/ OnExit
  \/ GroupDrained \/ GraceExpires \/ Reaped
  \/ Drained \/ DrainExpires \/ ClearMaster \/ CloseMaster
  \/ SendExit \/ Settle
Copier == Forward \/ CopyEnds
Waiter == Reap \/ WaitReturns
World ==
  \/ WindowChange \/ SftpFails \/ Write \/ Fork
  \/ (\E p \in {"child", "bg"} : ChangeUser(p)) \/ ChildEnds \/ DescendantEnds
  \/ ClientEOF \/ ClientCloses \/ ConnectionDrops \/ CancelConn \/ Shutdown

Next == Requests \/ Runner \/ Copier \/ Waiter \/ RequestsEnd \/ World

Spec == Init /\ [][Next]_vars

(***************************************************************************)
(* Goroutines run and timers expire.  A process that SIGKILL has reached    *)
(* dies, a client reads what it is sent and answers the closing of its     *)
(* channel, as RFC 4254 has it.  No process has to end by itself and no    *)
(* client has to leave.                                                    *)
(***************************************************************************)
FairSpec ==
  /\ Spec
  /\ WF_vars(Runner) /\ WF_vars(Waiter) /\ WF_vars(RequestsEnd)
  /\ WF_vars(Copier) /\ WF_vars(CancelConn)
  /\ WF_vars(kill /\ "child" \notin foreign /\ ChildEnds)
  /\ WF_vars(kill /\ bg = "group" /\ "bg" \notin foreign /\ DescendantEnds)
  /\ WF_vars(chClosed /\ ClientCloses)

-----------------------------------------------------------------------------
(***************************************************************************)
(* Properties                                                              *)
(***************************************************************************)
Labels == {"requests", "sftp", "sftpStop", "watch", "grace", "reap", "drain",
           "clear", "close", "exit", "settle", "done"}

\* Every variable has its type.
TypeOK ==
  /\ pc \in Labels /\ kind \in {"none", "child", "sftp"}
  /\ pty \in BOOLEAN /\ ptyMaster \in BOOLEAN
  /\ master \in {"none", "open", "closed"} /\ slave \in {"none", "open", "closed"}
  /\ size \in {"unset", "set", "error"}
  /\ serving \in BOOLEAN
  /\ child \in {"none", "running", "zombie", "reaped"}
  /\ bg \in {"none", "group", "daemon", "dead"}
  /\ foreign \subseteq {"child", "bg"}
  /\ ending \in {"none", "status", "signal"}
  /\ out \in 0 .. MaxOut /\ copying \in BOOLEAN /\ waited \in BOOLEAN
  /\ hup \in BOOLEAN /\ kill \in BOOLEAN
  /\ reason \in {"none", "shutdown", "channel-close"}
  /\ drainTimedOut \in BOOLEAN
  /\ exit \in {"none", "127", "status", "signal"}
  /\ chClosed \in BOOLEAN
  /\ client \in {"open", "eof", "closed"}
  /\ connUp \in BOOLEAN /\ shutdown \in BOOLEAN /\ ctxDone \in BOOLEAN

\* A window-change never reaches a closed master: runChild clears st.ptyMaster
\* before it closes the descriptor.
ResizeNeverOnClosedMaster == size # "error"

\* The exit request on the wire is the child's own: the child has been waited
\* for, was not signalled by the server, and ended the way the request says.
ExitTruthful ==
  exit \in {"status", "signal"} => waited /\ ~hup /\ exit = ending

\* The client has all the output before it is told of the exit, unless
\* drain-timeout was logged.
OutputBeforeExit ==
  exit \in {"status", "signal"} /\ ~drainTimedOut => out = 0

\* A session that signalled its group goes on only when SIGKILL has been sent
\* to it or it has no member left that the server may signal.  Nobody who may
\* be signalled joins the group later.
EscalationComplete ==
  hup /\ pc # "grace" => kill \/ KillFails

\* An error of kill(-pgid, 0) means "the entire group has gone" (comment in
\* signalAndKill): without SIGKILL no member is left.
GroupGoneOrKilled ==
  hup /\ pc # "grace" => kill \/ (child \in {"none", "reaped"} /\ bg # "group")

\* A session that ran a child, or nothing, leaves no descriptor of its PTY
\* open (SpawnFails and StartSftp leave the slave, or both, behind).
PtyReleased ==
  pc = "done" /\ (kind = "none" \/ child # "none")
    => master # "open" /\ slave # "open"

\* Where the session stands in the phases of its contract.
Phase ==
  CASE pc = "requests" -> "idle"
    [] pc \in {"sftp", "watch"} -> "run"
    [] pc = "grace" -> "grace"
    [] pc \in {"reap", "drain", "clear", "close", "exit"} -> IF hup THEN "settle" ELSE "run"
    [] pc \in {"sftpStop", "settle"} -> "settle"
    [] OTHER -> "done"

HandleState ==
  [at |-> Phase,
   child |-> IF child \in {"zombie", "reaped"} THEN "dead"
             ELSE IF child = "none" THEN "none"
             ELSE IF "child" \in foreign THEN "foreign" ELSE "alive",
   killed |-> kill, closed |-> chClosed, gone |-> client = "closed"]

Contract == INSTANCE Handle WITH s <- HandleState, ctx <- ctxDone

\* Service.Handle keeps the contract that the server relies on (module
\* Handle), whatever the client, the processes and the timers do: it returns
\* only when its child has been waited for and its channel is closed on both
\* sides, hangs up only on a cancelled context or a lost channel, and closes
\* the channel of a session that it has hung up only on returning.
KeepsContract == Contract!Spec

\* Once its client has closed the channel, a session ends and its child with
\* it, unless a descendant has left the group, where no signal finds it, or a
\* process runs as a user whose processes the server may not signal.
ClosedSessionEnds ==
  client = "closed"
    ~> (pc = "done" /\ child # "running") \/ bg = "daemon" \/ foreign # {}

\* With a PTY, the exit of the child ends the session's output: the drain cap
\* sees to it even if a descendant keeps the PTY open.
PtyExitEndsSession == pty /\ child = "zombie" ~> pc \in {"settle", "done"}

\* A shutdown reaches the session whatever it runs: a child is hung up (or has
\* ended), an SFTP server blocked in Read is ended by closing its channel.
ShutdownReachesSession ==
  /\ ctxDone /\ child = "running" ~> hup \/ child # "running"
  /\ ctxDone /\ pc = "sftp" ~> pc = "done"

\* Without a PTY too, the drain after the child's exit is capped: "Cap the
\* drain at 2 seconds as a backstop" (SPEC section 8.2 step 4).
ExitEndsSession == child = "zombie" ~> pc \in {"settle", "done"}

\* reason=shutdown is for the SIGINT/SIGTERM path, reason=channel-close for a
\* client that disconnects (SPEC section 9).
ReasonTruthful == reason = "shutdown" => shutdown

=============================================================================
