------------------------------ MODULE Forward ------------------------------
(***************************************************************************)
(* Local port forwarding (internal/server/forward.go) on one SSH           *)
(* connection: the per-connection forwardCounter and one handleDirectTCPIP *)
(* goroutine, with its two copy goroutines, for each direct-tcpip channel  *)
(* that the client opens.                                                  *)
(*                                                                         *)
(* Granularity.  Acquire and Release run under the counter's mutex and are *)
(* one step each.  The goroutines move data one unit at a time; `up' and   *)
(* `down' count the units that wait in the channel's and in the socket's   *)
(* receive buffer.  A peer is "sending" until it says that it has nothing  *)
(* more to send ("eof": SSH EOF, TCP FIN) or disappears ("gone": SSH CLOSE *)
(* or the loss of the connection, TCP RST).                                *)
(***************************************************************************)
EXTENDS Integers, FiniteSets

CONSTANTS
  Handlers,    \* the direct-tcpip channels opened on this connection
  ForwardMax,  \* forwardCounter.cap (--forward-max)
  MaxData      \* bound: units that wait in one receive buffer

ASSUME ForwardAssumption ==
  /\ IsFiniteSet(Handlers)
  /\ ForwardMax \in Nat
  /\ MaxData \in Nat

VARIABLES
  inflight,  \* forwardCounter.inflight
  pc,        \* where each handleDirectTCPIP stands
  tcp,       \* the socket it dialled
  ch,        \* the channel it accepted
  copyOut,   \* the channel-to-TCP goroutine runs
  copyIn,    \* the TCP-to-channel goroutine runs
  up,        \* data from the client, not yet copied
  down,      \* data from the destination, not yet copied
  lost,      \* data of a destination, alive or at EOF, thrown away unread
  client,    \* the client's side of the channel
  dest,      \* the destination's side of the socket
  connUp,    \* the SSH connection is up
  ctxDone,   \* the connection's context is cancelled
  late       \* the handlers whose dialTimeout has passed

handler == <<inflight, pc, tcp, ch, copyOut, copyIn>>
peers == <<client, dest, connUp, ctxDone, late>>
vars == <<handler, up, down, lost, peers>>

Goto(h, label) == pc' = [pc EXCEPT ![h] = label]

Init ==
  /\ inflight = 0
  /\ pc = [h \in Handlers |-> "unopened"]
  /\ tcp = [h \in Handlers |-> "none"]
  /\ ch = [h \in Handlers |-> "none"]
  /\ copyOut = [h \in Handlers |-> FALSE]
  /\ copyIn = [h \in Handlers |-> FALSE]
  /\ up = [h \in Handlers |-> 0]
  /\ down = [h \in Handlers |-> 0]
  /\ lost = [h \in Handlers |-> 0]
  /\ client = [h \in Handlers |-> "sending"]
  /\ dest = [h \in Handlers |-> "sending"]
  /\ connUp = TRUE
  /\ ctxDone = FALSE
  /\ late = {}

-----------------------------------------------------------------------------
\* forwardCounter.Acquire would hand out a slot.
SlotFree == ~(ForwardMax <= 0 \/ inflight >= ForwardMax)

\* forwardCounter.Release.
ReleaseSlot == inflight' = IF inflight > 0 THEN inflight - 1 ELSE inflight

\* handleConn classifies the channel and starts its goroutine.
Open(h) ==
  /\ pc[h] = "unopened"
  /\ connUp
  /\ Goto(h, "opened")
  /\ UNCHANGED <<inflight, tcp, ch, copyOut, copyIn, up, down, lost, peers>>

\* parseDirectTCPIP fails: forward-reject, Reject.
RejectMalformed(h) ==
  /\ pc[h] = "opened"
  /\ Goto(h, "rejected")
  /\ UNCHANGED <<inflight, tcp, ch, copyOut, copyIn, up, down, lost, peers>>

\* counter.Acquire() fails: forward-reject, Reject.
RejectOverCap(h) ==
  /\ pc[h] = "opened"
  /\ ~SlotFree
  /\ Goto(h, "rejected")
  /\ UNCHANGED <<inflight, tcp, ch, copyOut, copyIn, up, down, lost, peers>>

Acquire(h) ==
  /\ pc[h] = "opened"
  /\ SlotFree
  /\ inflight' = inflight + 1
  /\ Goto(h, "dial")
  /\ UNCHANGED <<tcp, ch, copyOut, copyIn, up, down, lost, peers>>

\* Mutant: the slot is not released.
DialFailsHolding(h) ==
  /\ pc[h] = "dial"
  /\ Goto(h, "rejected")
  /\ UNCHANGED <<inflight, tcp, ch, copyOut, copyIn, up, down, lost, peers>>

\* The dial ends with an error: Release, forward-reject, Reject.
DialFails(h) ==
  /\ pc[h] = "dial"
  /\ ReleaseSlot
  /\ Goto(h, "rejected")
  /\ UNCHANGED <<tcp, ch, copyOut, copyIn, up, down, lost, peers>>

\* Mutant: the dial has no deadline of its own.
dialCtxUntimed(h) == ctxDone

\* dialCtx, derived from ctx with dialTimeout, is done.
dialCtx(h) == ctxDone \/ h \in late

\* The destination refuses, which it need never do.
DialRefused(h) == DialFails(h)

\* DialContext returns because its context is done.
DialAborted(h) == dialCtx(h) /\ DialFails(h)

\* Mutant: the slot is given back with the dialling.
DialSucceedsReleasing(h) ==
  /\ pc[h] = "dial"
  /\ ~dialCtx(h)
  /\ tcp' = [tcp EXCEPT ![h] = "open"]
  /\ ReleaseSlot
  /\ Goto(h, "accept")
  /\ UNCHANGED <<ch, copyOut, copyIn, up, down, lost, peers>>

DialSucceeds(h) ==
  /\ pc[h] = "dial"
  /\ ~dialCtx(h)
  /\ tcp' = [tcp EXCEPT ![h] = "open"]
  /\ Goto(h, "accept")
  /\ UNCHANGED <<inflight, ch, copyOut, copyIn, up, down, lost, peers>>

\* newCh.Accept() fails, which it does only on a dead connection: Release
\* comes first, tcp.Close() second.
AcceptFails(h) ==
  /\ pc[h] = "accept"
  /\ ~connUp
  /\ ReleaseSlot
  /\ Goto(h, "unaccepted")
  /\ UNCHANGED <<tcp, ch, copyOut, copyIn, up, down, lost, peers>>

\* Mutant: the socket is forgotten.
CloseUnacceptedNot(h) ==
  /\ pc[h] = "unaccepted"
  /\ Goto(h, "abandoned")
  /\ UNCHANGED <<inflight, tcp, ch, copyOut, copyIn, up, down, lost, peers>>

CloseUnaccepted(h) ==
  /\ pc[h] = "unaccepted"
  /\ tcp' = [tcp EXCEPT ![h] = "closed"]
  /\ Goto(h, "abandoned")
  /\ UNCHANGED <<inflight, ch, copyOut, copyIn, up, down, lost, peers>>

\* forward-open is logged and both copy goroutines start.
Accept(h) ==
  /\ pc[h] = "accept"
  /\ ch' = [ch EXCEPT ![h] = "open"]
  /\ copyOut' = [copyOut EXCEPT ![h] = TRUE]
  /\ copyIn' = [copyIn EXCEPT ![h] = TRUE]
  /\ Goto(h, "pipe")
  /\ UNCHANGED <<inflight, tcp, up, down, lost, peers>>

\* io.Copy(tcp, ch) moves one unit.
MoveOut(h) ==
  /\ copyOut[h]
  /\ up[h] > 0 /\ dest[h] # "gone"
  /\ up' = [up EXCEPT ![h] = @ - 1]
  /\ UNCHANGED <<handler, down, lost, peers>>

\* Mutant: a write error does not end the copy.
EndOutAtEOF(h) ==
  /\ copyOut[h]
  /\ up[h] = 0 /\ client[h] # "sending"
  /\ copyOut' = [copyOut EXCEPT ![h] = FALSE]
  /\ tcp' = [tcp EXCEPT ![h] = "half"]
  /\ UNCHANGED <<inflight, pc, ch, copyIn, up, down, lost, peers>>

\* io.Copy(tcp, ch) returns, at the channel's EOF or on a write error; then
\* tcp.CloseWrite().
EndOut(h) ==
  /\ copyOut[h]
  /\ \/ up[h] = 0 /\ client[h] # "sending"
     \/ up[h] > 0 /\ dest[h] = "gone"
  /\ copyOut' = [copyOut EXCEPT ![h] = FALSE]
  /\ tcp' = [tcp EXCEPT ![h] = "half"]
  /\ UNCHANGED <<inflight, pc, ch, copyIn, up, down, lost, peers>>

\* io.Copy(ch, tcp) moves one unit.
MoveIn(h) ==
  /\ copyIn[h]
  /\ tcp[h] # "closed"
  /\ down[h] > 0 /\ client[h] # "gone"
  /\ down' = [down EXCEPT ![h] = @ - 1]
  /\ UNCHANGED <<handler, up, lost, peers>>

\* io.Copy(ch, tcp) returns, at the socket's EOF, on a write error, or
\* because the socket has been closed under it; then ch.CloseWrite().
EndIn(h) ==
  /\ copyIn[h]
  /\ \/ down[h] = 0 /\ dest[h] # "sending"
     \/ down[h] > 0 /\ client[h] = "gone"
     \/ tcp[h] = "closed"
  /\ copyIn' = [copyIn EXCEPT ![h] = FALSE]
  /\ ch' = [ch EXCEPT ![h] = "half"]
  /\ UNCHANGED <<inflight, pc, tcp, copyOut, up, down, lost, peers>>

\* Mutant: one copy is enough.
JoinFirst(h) ==
  /\ pc[h] = "pipe"
  /\ ~copyOut[h] \/ ~copyIn[h]
  /\ ch' = [ch EXCEPT ![h] = "closed"]
  /\ tcp' = [tcp EXCEPT ![h] = "closed"]
  /\ lost' = [lost EXCEPT ![h] = down[h]]
  /\ down' = [down EXCEPT ![h] = 0]
  /\ Goto(h, "closed")
  /\ UNCHANGED <<inflight, copyOut, copyIn, up, peers>>

\* wg.Wait() returns; ch.Close() and tcp.Close().  What the kernel still
\* holds for the closed socket is thrown away.
Join(h) ==
  /\ pc[h] = "pipe"
  /\ ~copyOut[h] /\ ~copyIn[h]
  /\ ch' = [ch EXCEPT ![h] = "closed"]
  /\ tcp' = [tcp EXCEPT ![h] = "closed"]
  /\ lost' = [lost EXCEPT ![h] = down[h]]
  /\ down' = [down EXCEPT ![h] = 0]
  /\ Goto(h, "closed")
  /\ UNCHANGED <<inflight, copyOut, copyIn, up, peers>>

\* counter.Release(), then forward-close.
Release(h) ==
  /\ pc[h] = "closed"
  /\ ReleaseSlot
  /\ Goto(h, "done")
  /\ UNCHANGED <<tcp, ch, copyOut, copyIn, up, down, lost, peers>>

-----------------------------------------------------------------------------
\* The peers.  A client speaks on an accepted channel, a destination on a
\* connected socket.
Talking(h) == ch[h] \in {"open", "half"}
Connected(h) == tcp[h] \in {"open", "half"}

ClientSends(h) ==
  /\ Talking(h) /\ client[h] = "sending" /\ up[h] < MaxData
  /\ up' = [up EXCEPT ![h] = @ + 1]
  /\ UNCHANGED <<handler, down, lost, peers>>

ClientEnds(h) ==
  /\ Talking(h)
  /\ \/ client[h] = "sending" /\ client' = [client EXCEPT ![h] = "eof"]
     \/ client[h] # "gone" /\ client' = [client EXCEPT ![h] = "gone"]
  /\ UNCHANGED <<handler, up, down, lost, dest, connUp, ctxDone, late>>

DestSends(h) ==
  /\ Connected(h) /\ dest[h] = "sending" /\ down[h] < MaxData
  /\ down' = [down EXCEPT ![h] = @ + 1]
  /\ UNCHANGED <<handler, up, lost, peers>>

DestEnds(h) ==
  /\ Connected(h) /\ dest[h] = "sending"
  /\ dest' = [dest EXCEPT ![h] = "eof"]
  /\ UNCHANGED <<handler, up, down, lost, client, connUp, ctxDone, late>>

\* A reset also empties the receive buffer.
DestResets(h) ==
  /\ Connected(h) /\ dest[h] # "gone"
  /\ dest' = [dest EXCEPT ![h] = "gone"]
  /\ down' = [down EXCEPT ![h] = 0]
  /\ UNCHANGED <<handler, up, lost, client, connUp, ctxDone, late>>

ConnectionDrops ==
  /\ connUp
  /\ connUp' = FALSE
  /\ client' = [h \in Handlers |-> "gone"]
  /\ UNCHANGED <<handler, up, down, lost, dest, ctxDone, late>>

\* cancelConn at the end of handleConn, or the shutdown of the server.
Cancel ==
  /\ ~ctxDone
  /\ ctxDone' = TRUE
  /\ UNCHANGED <<handler, up, down, lost, client, dest, connUp, late>>

\* dialTimeout passes while the dial is under way.
DeadlinePasses(h) ==
  /\ pc[h] = "dial" /\ h \notin late
  /\ late' = late \cup {h}
  /\ UNCHANGED <<handler, up, down, lost, client, dest, connUp, ctxDone>>

-----------------------------------------------------------------------------
Handle(h) ==
  \/ RejectMalformed(h) \/ RejectOverCap(h) \/ Acquire(h)
  \/ DialAborted(h)
  \/ AcceptFails(h) \/ CloseUnaccepted(h) \/ Accept(h)
  \/ Join(h) \/ Release(h)
Pump(h) == MoveOut(h) \/ EndOut(h) \/ MoveIn(h) \/ EndIn(h)
Peers(h) ==
  \/ Open(h) \/ ClientSends(h) \/ ClientEnds(h)
  \/ DialRefused(h) \/ DialSucceeds(h) \/ DeadlinePasses(h)
  \/ DestSends(h) \/ DestEnds(h) \/ DestResets(h)

Finished(h) ==
  pc[h] \in {"rejected", "abandoned", "done"} \/ (pc[h] = "unopened" /\ ~connUp)

Done == (\A h \in Handlers : Finished(h)) /\ ctxDone /\ UNCHANGED vars

Next ==
  \/ \E h \in Handlers : Handle(h) \/ Pump(h) \/ Peers(h)
  \/ ConnectionDrops \/ Cancel \/ Done

Spec == Init /\ [][Next]_vars

(***************************************************************************)
(* The goroutines run, time passes, and peers read what they are sent.     *)
(* Nothing is assumed about what peers send, that they ever stop, or that  *)
(* a destination answers a dial at all: a dial is sure to end only because *)
(* its context is done.  The two copy goroutines are scheduled separately. *)
(***************************************************************************)
FairSpec ==
  /\ Spec
  /\ \A h \in Handlers : /\ WF_vars(Handle(h)) /\ WF_vars(DeadlinePasses(h))
                         /\ WF_vars(MoveOut(h) \/ EndOut(h))
                         /\ WF_vars(MoveIn(h) \/ EndIn(h))

-----------------------------------------------------------------------------
(***************************************************************************)
(* Properties                                                              *)
(***************************************************************************)

\* The labels between a successful Acquire and its Release.
Holding == {"dial", "accept", "pipe", "closed"}
Holders == {h \in Handlers : pc[h] \in Holding}

Labels == Holding \cup {"unopened", "opened", "rejected", "unaccepted",
                        "abandoned", "done"}

\* Every variable has its type, and the copy goroutines live inside the pipe.
TypeOK ==
  /\ inflight \in Nat
  /\ pc \in [Handlers -> Labels]
  /\ tcp \in [Handlers -> {"none", "open", "half", "closed"}]
  /\ ch \in [Handlers -> {"none", "open", "half", "closed"}]
  /\ copyOut \in [Handlers -> BOOLEAN]
  /\ copyIn \in [Handlers -> BOOLEAN]
  /\ \A h \in Handlers : copyOut[h] \/ copyIn[h] => pc[h] = "pipe"
  /\ up \in [Handlers -> 0 .. MaxData]
  /\ down \in [Handlers -> 0 .. MaxData]
  /\ lost \in [Handlers -> 0 .. MaxData]
  /\ client \in [Handlers -> {"sending", "eof", "gone"}]
  /\ dest \in [Handlers -> {"sending", "eof", "gone"}]
  /\ connUp \in BOOLEAN
  /\ ctxDone \in BOOLEAN
  /\ late \subseteq Handlers

\* Every slot taken is given back exactly once, on every path: "Release
\* happens after Accept fails, after dial fails, or after the pipe goroutines
\* complete - never twice" (the comment in handleDirectTCPIP).
SlotsAccounted == inflight = Cardinality(Holders)

\* The connection never holds more than ForwardMax open forwarded channels
\* (SPEC section 7.1 step 2): a slot is given back only once its channel is
\* closed.
OpenWithinCap == Cardinality({h \in Handlers : Talking(h)}) <= ForwardMax

\* While the connection is up the destination sockets stay within the cap too.
\* (On a dead connection Accept's error path releases the slot before it
\* closes the socket.)
SocketsWithinCap ==
  connUp => Cardinality({h \in Handlers : Connected(h)}) <= ForwardMax

\* A handler that has returned leaves neither its channel nor its socket open.
NothingLeaks ==
  \A h \in Handlers : Finished(h) => ~Talking(h) /\ ~Connected(h)

\* A client that half-closes still gets the whole answer: nothing that the
\* destination sent is thrown away unless the client is gone.
AnswerDelivered == \A h \in Handlers : lost[h] > 0 => client[h] = "gone"

\* Once both sides have ended, the slot is given back.
SlotFreedWhenBothEnd ==
  \A h \in Handlers :
    pc[h] = "pipe" /\ client[h] # "sending" /\ dest[h] # "sending" ~> pc[h] = "done"

\* Destinations that never answer cannot keep the cap exhausted: unless some
\* forward gets established, a slot comes free again.
DialsGiveWay ==
  ForwardMax > 0 /\ ~SlotFree ~> SlotFree \/ \E h \in Handlers : pc[h] = "pipe"

\* Data is piped "until either side closes" (SPEC section 7) and "closed
\* forwards free a slot" (SPEC section 7.1).
SlotFreedWhenClientCloses ==
  \A h \in Handlers : pc[h] = "pipe" /\ client[h] = "gone" ~> pc[h] = "done"

=============================================================================
