------------------------------- MODULE Server -------------------------------
(***************************************************************************)
(* Server.Serve and handleConn (internal/server/server.go): the accept     *)
(* loop, the shutdown watcher, one handleConn goroutine per connection and *)
(* one goroutine per channel.  A session channel runs Service.Handle, of   *)
(* which only the contract is used here (SessionPhases, which Session is   *)
(* shown to keep); a forward dials and then copies (module Forward).       *)
(*                                                                         *)
(* Time is discrete.  The drain timer of Serve and the grace timers of the *)
(* sessions count ticks; no tick passes while a timer that is due has not  *)
(* been served, so timers that are due at the same tick fire in any order. *)
(***************************************************************************)
EXTENDS SessionPhases, Integers, FiniteSets

CONSTANTS
  Conns,         \* the connections that clients make
  Chans,         \* the channels that they open
  DrainTimeout,  \* Serve's drain timeout, in ticks
  ShutdownGrace  \* signalAndKill's grace period, in ticks

ASSUME ServerAssumption ==
  /\ Conns # {} /\ IsFiniteSet(Conns) /\ IsFiniteSet(Chans)
  /\ DrainTimeout \in Nat
  /\ ShutdownGrace \in Nat

VARIABLES
  cancelled,  \* the ctx passed to Serve is cancelled (SIGINT, SIGTERM)
  listening,  \* the listener is open
  watcher,    \* the shutdown watcher: "waiting", "closing", "done"
  connsCtx,   \* connsCtx is cancelled
  serve,      \* Serve: "accept", "drain", "watch", "returned"
  waiter,     \* the goroutine behind connsDone: "off", "conns", "sessions", "done"
  timedOut,   \* the drain timer fired
  clock,      \* ticks since the drain timer was set
  connsWG, sessionsWG, \* the wait groups' counters
  conn,       \* handleConn: "none", "handshake", "loop", "closed"
  client,     \* the client of the connection is there
  connCtx,    \* the connection's own context is cancelled
  owner,      \* the connection that an opened channel belongs to
  chan,       \* "none", "session", a forward's "dial" or "copy", "ended"
  sess,       \* the state of a session channel
  grace       \* ticks since its SIGHUP, while it is in its grace period

main == <<cancelled, listening, watcher, connsCtx, serve, waiter, timedOut, clock>>
wgs == <<connsWG, sessionsWG>>
conns == <<conn, client, connCtx>>
chans == <<owner, chan, sess, grace>>
vars == <<main, wgs, conns, chans>>

Running == serve # "returned"

Init ==
  /\ cancelled = FALSE /\ listening = TRUE /\ watcher = "waiting"
  /\ connsCtx = FALSE /\ serve = "accept" /\ waiter = "off"
  /\ timedOut = FALSE /\ clock = 0
  /\ connsWG = 0 /\ sessionsWG = 0
  /\ conn = [c \in Conns |-> "none"]
  /\ client = [c \in Conns |-> TRUE]
  /\ connCtx = [c \in Conns |-> FALSE]
  /\ owner = [d \in Chans |-> CHOOSE c \in Conns : TRUE]
  /\ chan = [d \in Chans |-> "none"]
  /\ sess = [d \in Chans |-> Fresh]
  /\ grace = [d \in Chans |-> 0]

-----------------------------------------------------------------------------
(***************************************************************************)
(* Serve.                                                                  *)
(***************************************************************************)
Signal ==
  /\ Running /\ ~cancelled
  /\ cancelled' = TRUE
  /\ UNCHANGED <<listening, watcher, connsCtx, serve, waiter, timedOut, clock,
                 wgs, conns, chans>>

\* The watcher: Listener.Close(), then cancelConns() and close(shutdownDone).
WatcherCloses ==
  /\ Running /\ watcher = "waiting" /\ cancelled
  /\ listening' = FALSE
  /\ watcher' = "closing"
  /\ UNCHANGED <<cancelled, connsCtx, serve, waiter, timedOut, clock, wgs, conns,
                 chans>>

WatcherCancels ==
  /\ Running /\ watcher = "closing"
  /\ connsCtx' = TRUE
  /\ watcher' = "done"
  /\ UNCHANGED <<cancelled, listening, serve, waiter, timedOut, clock, wgs, conns,
                 chans>>

\* Mutant: connsWG.Add(1) is missing.
AcceptUncounted(c) ==
  /\ serve = "accept" /\ listening
  /\ conn[c] = "none" /\ client[c]
  /\ conn' = [conn EXCEPT ![c] = "handshake"]
  /\ UNCHANGED <<main, wgs, client, connCtx, chans>>

\* Accept returns a connection; connsWG.Add(1); its goroutine starts.
Accept(c) ==
  /\ serve = "accept" /\ listening
  /\ conn[c] = "none" /\ client[c]
  /\ conn' = [conn EXCEPT ![c] = "handshake"]
  /\ connsWG' = connsWG + 1
  /\ UNCHANGED <<main, sessionsWG, client, connCtx, chans>>

\* Accept fails, because the listener is closed or with any other error.  The
\* loop ends, cancelConns() runs, the waiter starts and the timer is set.
AcceptEnds ==
  /\ serve = "accept"
  /\ serve' = "drain"
  /\ connsCtx' = TRUE
  /\ waiter' = "conns"
  /\ UNCHANGED <<cancelled, listening, watcher, timedOut, clock, wgs, conns,
                 chans>>

\* connsWG.Wait(), sessionsWG.Wait(), close(connsDone).
WaitConns ==
  /\ Running /\ waiter = "conns" /\ connsWG = 0
  /\ waiter' = "sessions"
  /\ UNCHANGED <<cancelled, listening, watcher, connsCtx, serve, timedOut, clock,
                 wgs, conns, chans>>

WaitSessions ==
  /\ Running /\ waiter = "sessions" /\ sessionsWG = 0
  /\ waiter' = "done"
  /\ UNCHANGED <<cancelled, listening, watcher, connsCtx, serve, timedOut, clock,
                 wgs, conns, chans>>

ConnsDone ==
  /\ serve = "drain" /\ waiter = "done"
  /\ serve' = "watch"
  /\ UNCHANGED <<cancelled, listening, watcher, connsCtx, waiter, timedOut, clock,
                 wgs, conns, chans>>

\* Mutant: the drain has no timeout.
DrainUnbounded == FALSE /\ UNCHANGED vars

DrainExpires ==
  /\ serve = "drain" /\ clock >= DrainTimeout
  /\ timedOut' = TRUE
  /\ serve' = "watch"
  /\ UNCHANGED <<cancelled, listening, watcher, connsCtx, waiter, clock, wgs,
                 conns, chans>>

\* Serve looks at the watcher, gives it 100 ms at most, and returns nil; run
\* returns 0 and the process ends.
Return ==
  /\ serve = "watch"
  /\ serve' = "returned"
  /\ UNCHANGED <<cancelled, listening, watcher, connsCtx, waiter, timedOut, clock,
                 wgs, conns, chans>>

-----------------------------------------------------------------------------
(***************************************************************************)
(* handleConn.                                                             *)
(***************************************************************************)

\* NewServerConn succeeds.
Handshake(c) ==
  /\ Running /\ conn[c] = "handshake" /\ client[c]
  /\ conn' = [conn EXCEPT ![c] = "loop"]
  /\ UNCHANGED <<main, wgs, client, connCtx, chans>>

\* NewServerConn fails: the connection is closed, conn-close is logged, and
\* the goroutine's connsWG.Done() follows.
HandshakeFails(c) ==
  /\ Running /\ conn[c] = "handshake"
  /\ conn' = [conn EXCEPT ![c] = "closed"]
  /\ client' = [client EXCEPT ![c] = FALSE]
  /\ connsWG' = connsWG - 1
  /\ UNCHANGED <<main, sessionsWG, connCtx, chans>>

\* Mutant: the loop first waits for the channels to be joined.
LoopEndsJoined(c) ==
  /\ Running /\ conn[c] = "loop" /\ ~client[c]
  /\ \A d \in Chans : owner[d] = c => chan[d] \in {"none", "ended"}
  /\ conn' = [conn EXCEPT ![c] = "closed"]
  /\ connCtx' = [connCtx EXCEPT ![c] = TRUE]
  /\ connsWG' = connsWG - 1
  /\ UNCHANGED <<main, sessionsWG, client, chans>>

\* Mutant: the connections share one cancel function.
LoopEndsCancelsAll(c) ==
  /\ Running /\ conn[c] = "loop" /\ ~client[c]
  /\ conn' = [conn EXCEPT ![c] = "closed"]
  /\ connsCtx' = TRUE
  /\ connsWG' = connsWG - 1
  /\ UNCHANGED <<cancelled, listening, watcher, serve, waiter, timedOut, clock,
                 sessionsWG, client, connCtx, chans>>

\* The channel stream ends with the transport and nothing else; the deferred
\* calls cancel the connection's context, close it and log conn-close.
LoopEnds(c) ==
  /\ Running /\ conn[c] = "loop" /\ ~client[c]
  /\ conn' = [conn EXCEPT ![c] = "closed"]
  /\ connCtx' = [connCtx EXCEPT ![c] = TRUE]
  /\ connsWG' = connsWG - 1
  /\ UNCHANGED <<main, sessionsWG, client, chans>>

-----------------------------------------------------------------------------
(***************************************************************************)
(* The channel loop.  A session channel whose Accept fails is skipped, a   *)
(* global request is refused; neither leaves anything behind.              *)
(***************************************************************************)
classifyChannel(type) ==
  CASE type = "session" -> "session"
    [] type = "direct-tcpip" -> "dial"
    [] OTHER -> "ended"

\* A channel of the connection: rejected at once, or sessionsWG.Add(1) and a
\* goroutine for it.
OpenChannel(c, d, type) ==
  /\ Running /\ conn[c] = "loop" /\ client[c] /\ chan[d] = "none"
  /\ owner' = [owner EXCEPT ![d] = c]
  /\ chan' = [chan EXCEPT ![d] = classifyChannel(type)]
  /\ sessionsWG' = IF classifyChannel(type) = "ended" THEN sessionsWG ELSE sessionsWG + 1
  /\ UNCHANGED <<main, connsWG, conns, sess, grace>>

ChannelTypes == {"session", "direct-tcpip", "x11"}

\* The channel's goroutine returns, with sessionsWG.Done().
Finish(d) ==
  /\ chan' = [chan EXCEPT ![d] = "ended"]
  /\ sessionsWG' = sessionsWG - 1

\* The context that handleConn derives for its channels is cancelled.
Cancelled(c) == connsCtx \/ connCtx[c]

-----------------------------------------------------------------------------
(***************************************************************************)
(* A session: Service.Handle by its contract, with the grace timer.        *)
(***************************************************************************)
Advance(d, t) ==
  /\ sess' = [sess EXCEPT ![d] = t]
  /\ grace' = [grace EXCEPT ![d] = IF t.at = "grace" THEN @ ELSE 0]
  /\ IF t.at = "done" THEN Finish(d) ELSE UNCHANGED <<chan, sessionsWG>>
  /\ UNCHANGED <<main, connsWG, conns, owner>>

InHandle(d) == Running /\ chan[d] = "session"

SessionRuns(d) ==
  /\ InHandle(d)
  /\ \E t \in Runner(sess[d], Cancelled(owner[d])) :
       /\ t.killed # sess[d].killed => grace[d] >= ShutdownGrace
       /\ Advance(d, t)

SessionWorld(d) == InHandle(d) /\ \E t \in World(sess[d]) : Advance(d, t)

-----------------------------------------------------------------------------
(***************************************************************************)
(* A forward: handleDirectTCPIP.  The dial ends by itself, by its timeout  *)
(* or by the context; the copies end with the client and the destination,  *)
(* and do not look at the context.                                         *)
(***************************************************************************)
DialFails(d) ==
  /\ Running /\ chan[d] = "dial"
  /\ Finish(d)
  /\ UNCHANGED <<main, connsWG, conns, owner, sess, grace>>

DialSucceeds(d) ==
  /\ Running /\ chan[d] = "dial" /\ ~Cancelled(owner[d])
  /\ chan' = [chan EXCEPT ![d] = "copy"]
  /\ UNCHANGED <<main, wgs, conns, owner, sess, grace>>

CopiesEnd(d) ==
  /\ Running /\ chan[d] = "copy"
  /\ Finish(d)
  /\ UNCHANGED <<main, connsWG, conns, owner, sess, grace>>

-----------------------------------------------------------------------------
\* The transport is lost, and with it every channel of the connection.
ClientLeaves(c) ==
  /\ Running /\ client[c] /\ conn[c] # "none"
  /\ client' = [client EXCEPT ![c] = FALSE]
  /\ sess' = [d \in Chans |-> IF owner[d] = c /\ chan[d] = "session"
                              THEN [sess[d] EXCEPT !.gone = TRUE] ELSE sess[d]]
  /\ UNCHANGED <<main, wgs, conn, connCtx, owner, chan, grace>>

InGrace == {d \in Chans : sess[d].at = "grace"}

Tick ==
  /\ Running
  /\ serve = "drain" \/ InGrace # {}
  /\ serve = "drain" => clock < DrainTimeout
  /\ \A d \in InGrace : grace[d] < ShutdownGrace
  /\ clock' = IF serve = "drain" THEN clock + 1 ELSE clock
  /\ grace' = [d \in Chans |-> IF d \in InGrace THEN grace[d] + 1 ELSE grace[d]]
  /\ UNCHANGED <<cancelled, listening, watcher, connsCtx, serve, waiter, timedOut,
                 wgs, conns, owner, chan, sess>>

-----------------------------------------------------------------------------
Serve == AcceptEnds \/ ConnsDone \/ DrainExpires \/ Return
Watcher == WatcherCloses \/ WatcherCancels
Waiter == WaitConns \/ WaitSessions
HandleConn(c) == Accept(c) \/ Handshake(c) \/ HandshakeFails(c) \/ LoopEnds(c)
Session(d) == SessionRuns(d) \/ SessionWorld(d)
Forward(d) == DialFails(d) \/ DialSucceeds(d) \/ CopiesEnd(d)

Next ==
  \/ Signal \/ Serve \/ Watcher \/ Waiter \/ Tick
  \/ \E c \in Conns : HandleConn(c) \/ ClientLeaves(c)
  \/ \E c \in Conns, d \in Chans, type \in ChannelTypes : OpenChannel(c, d, type)
  \/ \E d \in Chans : Session(d) \/ Forward(d)

Spec == Init /\ [][Next]_vars

\* A process that SIGKILL has reached dies; a client answers the closing of its
\* channel (RFC 4254 section 5.3).
Answers(d) ==
  /\ InHandle(d)
  /\ \/ sess[d].killed /\ sess[d].child = "alive" /\ \E t \in ChildDies(sess[d]) : Advance(d, t)
     \/ sess[d].closed /\ \E t \in Leave(sess[d]) : Advance(d, t)

(***************************************************************************)
(* Goroutines run, time passes and a dial ends.  Accept returns an error   *)
(* only if the listener is closed or broken, so the end of the accept loop *)
(* is fair only once the listener is closed.  Clients, children and the    *)
(* destinations of forwards need not leave.  That a session goes on when   *)
(* its child is dead leaves out a descendant that has escaped with the     *)
(* child's output (module Session, ExitEndsSession).                       *)
(***************************************************************************)
FairSpec ==
  /\ Spec
  /\ WF_vars(Tick) /\ WF_vars(Watcher) /\ WF_vars(Waiter)
  /\ WF_vars(~listening /\ AcceptEnds)
  /\ WF_vars(ConnsDone \/ DrainExpires \/ Return)
  /\ \A c \in Conns : WF_vars(LoopEnds(c) \/ (~client[c] /\ HandshakeFails(c)))
  /\ \A d \in Chans :
       /\ WF_vars(SessionRuns(d) \/ DialFails(d) \/ DialSucceeds(d))
       /\ WF_vars(Answers(d))

-----------------------------------------------------------------------------
(***************************************************************************)
(* Properties                                                              *)
(***************************************************************************)
InHandleConn == {c \in Conns : conn[c] \in {"handshake", "loop"}}
InChannel == {d \in Chans : chan[d] \in {"session", "dial", "copy"}}

\* Every variable has its type.
TypeOK ==
  /\ cancelled \in BOOLEAN /\ listening \in BOOLEAN
  /\ watcher \in {"waiting", "closing", "done"}
  /\ connsCtx \in BOOLEAN
  /\ serve \in {"accept", "drain", "watch", "returned"}
  /\ waiter \in {"off", "conns", "sessions", "done"}
  /\ timedOut \in BOOLEAN
  /\ clock \in 0 .. DrainTimeout
  /\ connsWG \in Nat /\ sessionsWG \in Nat
  /\ conn \in [Conns -> {"none", "handshake", "loop", "closed"}]
  /\ client \in [Conns -> BOOLEAN]
  /\ connCtx \in [Conns -> BOOLEAN]
  /\ owner \in [Chans -> Conns]
  /\ chan \in [Chans -> {"none", "session", "dial", "copy", "ended"}]
  /\ sess \in [Chans -> States]
  /\ grace \in [Chans -> 0 .. ShutdownGrace]

\* Once the waiter is past connsWG.Wait(), no goroutine is left that could
\* call sessionsWG.Add: the second Wait never races with an Add from zero.
NoAddDuringWait == waiter \in {"sessions", "done"} => InHandleConn = {}

\* If Serve returns because connsDone closed, nothing runs any more: no
\* handleConn, no session, no forward, and no child of any session.
CleanReturn ==
  serve = "returned" /\ ~timedOut
    => /\ InHandleConn = {}
       /\ InChannel = {}
       /\ \A d \in Chans : sess[d].child \notin Living

\* The end of one connection never reaches another's session: a session is
\* hung up, or killed, only if its own channel is gone, after a signal, or once
\* the accept loop has ended.
HangupIsolated ==
  \A d \in Chans :
    sess[d].at = "grace" \/ sess[d].killed
      => sess[d].gone \/ cancelled \/ serve # "accept"

\* Serve returns after a signal, whatever clients and children do.
ServeReturns == cancelled ~> serve = "returned"

\* When a client is gone, everything that runs for it comes to an end: its
\* handleConn, its sessions (also those that have not started anything) and
\* its dials.  An established forward ends with its destination only, and a
\* session whose child the server may not signal ends with that child.
DisconnectUnwinds ==
  \A c \in Conns :
    conn[c] # "none" /\ ~client[c]
      ~> \/ /\ conn[c] = "closed"
            /\ \A d \in Chans : owner[d] = c => chan[d] \notin {"session", "dial"}
         \/ \E d \in Chans : owner[d] = c /\ sess[d].child = "foreign"
         \/ serve = "returned"

\* After a signal the server "sends SIGKILL to any process groups that didn't
\* exit", and only then "exits with code 0" (SPEC section 8, Signal handling,
\* steps 4 and 5).  Said only of groups that have had their whole grace period.
ExitAfterKill ==
  cancelled /\ serve = "returned"
    => \A d \in InGrace : grace[d] >= ShutdownGrace => sess[d].child = "dead"

\* handleConn "returns when both the channel loop exits and every session
\* goroutine on the connection has joined" (its comment).
ConnCloseAfterSessions ==
  \A d \in InChannel : chan[d] = "session" => conn[owner[d]] # "closed"

\* "Serve runs the accept loop until ctx is cancelled", and exit code 0 is a
\* clean shutdown (SPEC section 11).
ReturnsOnlyOnSignal == serve = "returned" => cancelled

=============================================================================
