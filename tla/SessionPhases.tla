--------------------------- MODULE SessionPhases ---------------------------
(***************************************************************************)
(* What the rest of the server can see of Service.Handle                   *)
(* (internal/session/service.go).  Every operator gives the states that a  *)
(* step of one session leads to from s, none if the step cannot be taken;  *)
(* ctx says whether the context of its connection is cancelled.  Session   *)
(* is shown to take only these steps (module Handle), and Server is        *)
(* composed of them.                                                       *)
(***************************************************************************)

\* at: requests before the spawn, a child or an SFTP server, signalAndKill,
\* the way out, returned.  closed: the server has closed the channel.  gone:
\* the client has, or its connection is lost.  A child that runs as a user
\* whose processes the server may not signal is foreign.
States ==
  [at : {"idle", "run", "grace", "settle", "done"},
   child : {"none", "alive", "foreign", "dead"},
   killed : BOOLEAN, closed : BOOLEAN, gone : BOOLEAN]

Fresh ==
  [at |-> "idle", child |-> "none", killed |-> FALSE, closed |-> FALSE, gone |-> FALSE]

Living == {"alive", "foreign"}

When(guard, t) == IF guard THEN {t} ELSE {}

-----------------------------------------------------------------------------
\* A shell, exec or sftp request commits the session; only sftp has no child.
Spawn(s) ==
  When(s.at = "idle", [s EXCEPT !.at = "run", !.child = "alive"])
    \cup When(s.at = "idle", [s EXCEPT !.at = "run"])

SpawnFails(s) == When(s.at = "idle", [s EXCEPT !.at = "done", !.closed = TRUE])

\* The request stream ends first.  The loop before the spawn looks at nothing
\* else: the context does not end it.
NoSpawn(s) == When(s.at = "idle" /\ s.gone, [s EXCEPT !.at = "done", !.closed = TRUE])

\* SIGHUP to the group.
Hangup(s, ctx) ==
  When(s.at = "run" /\ s.child # "none" /\ (ctx \/ s.gone), [s EXCEPT !.at = "grace"])

\* kill(-pgid, 0) fails: the group is gone, or nobody in it may be signalled.
GroupDrained(s) ==
  When(s.at = "grace" /\ s.child \in {"dead", "foreign"}, [s EXCEPT !.at = "settle"])

\* SIGKILL to what is left of the group when the grace period is over.
Kill(s) == When(s.at = "grace", [s EXCEPT !.at = "settle", !.killed = TRUE])

\* The child ended by itself: drain, exit request, ch.Close().
ReportExit(s) ==
  When(s.at = "run" /\ s.child = "dead", [s EXCEPT !.at = "settle", !.closed = TRUE])

\* The SFTP server returns: at EOF from the client, or because the context is
\* done and the channel was closed under it.
SftpReturns(s) ==
  When(s.at = "run" /\ s.child = "none", [s EXCEPT !.at = "settle", !.closed = TRUE])

SftpStops(s, ctx) == IF ctx \/ s.gone THEN SftpReturns(s) ELSE {}

\* Mutant: the child is not waited for.
SettleUnwaited(s) ==
  When(s.at = "settle" /\ s.gone, [s EXCEPT !.at = "done", !.closed = TRUE])

\* <-waitErr and <-chanClosed are through, and Handle returns.
Settle(s) ==
  When(s.at = "settle" /\ s.child \notin Living /\ s.gone,
       [s EXCEPT !.at = "done", !.closed = TRUE])

-----------------------------------------------------------------------------
ChildDies(s) == When(s.child \in Living, [s EXCEPT !.child = "dead"])

\* The child execs a program of another user; it may not be signalled any more.
ChangesUser(s) ==
  When(s.child = "alive" /\ ~s.killed, [s EXCEPT !.child = "foreign"])

Leave(s) == When(~s.gone, [s EXCEPT !.gone = TRUE])

\* What the session's own goroutines do once they can.
Runner(s, ctx) ==
  NoSpawn(s) \cup Hangup(s, ctx) \cup GroupDrained(s) \cup Kill(s)
    \cup ReportExit(s) \cup SftpStops(s, ctx) \cup Settle(s)

\* What the client's requests and the processes bring about.
World(s) ==
  Spawn(s) \cup SpawnFails(s) \cup SftpReturns(s) \cup ChildDies(s)
    \cup ChangesUser(s) \cup Leave(s)
=============================================================================
