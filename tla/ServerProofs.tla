---------------------------- MODULE ServerProofs ----------------------------
(***************************************************************************)
(* Proofs about Server, for all finite sets of connections and channels    *)
(* and all timeouts: the two wait groups count what they should, so a      *)
(* return that did not time out leaves nothing behind.                     *)
(***************************************************************************)
EXTENDS Server, FiniteSetTheorems, TLAPS

\* The counters of the wait groups are the numbers of goroutines.
Counted ==
  /\ connsWG = Cardinality(InHandleConn)
  /\ sessionsWG = Cardinality(InChannel)

\* A session has a child only between its spawn and its return.
Childless(s) ==
  /\ s.at = "idle" => s.child = "none"
  /\ s.at = "done" => s.child \notin Living

\* How far the waiter is says what has ended; the accept loop is over before
\* the waiter starts, and the contexts are cancelled with it.
Phases ==
  /\ serve = "accept" <=> waiter = "off"
  /\ serve # "accept" => connsCtx
  /\ waiter \in {"sessions", "done"} => InHandleConn = {}
  /\ waiter = "done" => InChannel = {}
  /\ serve \in {"watch", "returned"} /\ ~timedOut => waiter = "done"
  /\ \A d \in Chans :
       Childless(sess[d]) /\ (chan[d] # "session" => sess[d].child \notin Living)

\* A session has been hung up.
Hung(s) == s.at = "grace" \/ s.killed

\* Who may have cancelled which context, and that a lost transport takes every
\* session of its connection with it.
Isolation ==
  /\ watcher # "waiting" => cancelled
  /\ connsCtx => cancelled \/ serve # "accept"
  /\ \A c \in Conns : connCtx[c] => ~client[c]
  /\ \A d \in Chans :
       chan[d] = "session" => /\ conn[owner[d]] \in {"loop", "closed"}
                              /\ ~client[owner[d]] => sess[d].gone
  /\ \A d \in Chans : Hung(sess[d]) => sess[d].gone \/ cancelled \/ serve # "accept"

Inv == TypeOK /\ Counted /\ Phases /\ Isolation

-----------------------------------------------------------------------------
\* Adding to a finite set, and taking from it, moves its cardinality by one.
LEMMA CountUp ==
  ASSUME NEW S, NEW T, IsFiniteSet(S), NEW x, x \notin S, T = S \cup {x}
  PROVE  IsFiniteSet(T) /\ Cardinality(T) = Cardinality(S) + 1
  BY FS_AddElement, FS_CardinalityType

\* See CountUp.
LEMMA CountDown ==
  ASSUME NEW S, NEW T, IsFiniteSet(S), NEW x \in S, T = S \ {x}
  PROVE  IsFiniteSet(T) /\ Cardinality(T) = Cardinality(S) - 1
  BY FS_RemoveElement, FS_CardinalityType

\* The goroutines counted are finitely many.
LEMMA Finite ==
  /\ IsFiniteSet(InHandleConn) /\ IsFiniteSet(InChannel)
  /\ Cardinality(InHandleConn) \in Nat /\ Cardinality(InChannel) \in Nat
<1>1. InHandleConn \subseteq Conns /\ InChannel \subseteq Chans
  BY DEF InHandleConn, InChannel
<1>2. IsFiniteSet(InHandleConn) /\ IsFiniteSet(InChannel)
  BY <1>1, FS_Subset, ServerAssumption
<1> QED  BY <1>2, FS_CardinalityType

\* What Service.Handle's contract says of one step: it stays within the states
\* of a session, Handle returns only without a living child, a channel that is
\* gone stays so, and only the context or a lost channel hangs up.
LEMMA SessionStep ==
  ASSUME NEW s \in States, NEW ctx \in BOOLEAN, NEW t \in Runner(s, ctx) \cup World(s)
  PROVE  /\ t \in States /\ (Childless(s) => Childless(t))
         /\ (s.gone => t.gone) /\ (Hung(t) => Hung(s) \/ ctx \/ s.gone)
<1> USE DEF When, States, Childless, Living, Hung
<1>1. CASE t \in NoSpawn(s)  BY <1>1 DEF NoSpawn
<1>2. CASE t \in Hangup(s, ctx)  BY <1>2 DEF Hangup
<1>3. CASE t \in GroupDrained(s)  BY <1>3 DEF GroupDrained
<1>4. CASE t \in Kill(s)  BY <1>4 DEF Kill
<1>5. CASE t \in ReportExit(s)  BY <1>5 DEF ReportExit
<1>6. CASE t \in SftpReturns(s)  BY <1>6 DEF SftpReturns
<1>7. CASE t \in Settle(s)  BY <1>7 DEF Settle
<1>8. CASE t \in Spawn(s)  BY <1>8 DEF Spawn
<1>9. CASE t \in SpawnFails(s)  BY <1>9 DEF SpawnFails
<1>10. CASE t \in ChildDies(s)  BY <1>10 DEF ChildDies
<1>11. CASE t \in Leave(s)  BY <1>11 DEF Leave
<1>12. CASE t \in ChangesUser(s)  BY <1>12 DEF ChangesUser
<1> QED
  BY <1>1, <1>2, <1>3, <1>4, <1>5, <1>6, <1>7, <1>8, <1>9, <1>10, <1>11, <1>12
  DEF Runner, World, SftpStops

\* A step of a session moves that session on, and nothing else.
LEMMA SessionMoves ==
  ASSUME NEW d \in Chans, Session(d), TypeOK
  PROVE  \E t \in Runner(sess[d], Cancelled(owner[d])) \cup World(sess[d]) :
           InHandle(d) /\ t \in States /\ Advance(d, t)
                       /\ (Childless(sess[d]) => Childless(t))
                       /\ (sess[d].gone => t.gone)
                       /\ (Hung(t) => \/ Hung(sess[d]) \/ Cancelled(owner[d])
                                      \/ sess[d].gone)
<1>1. sess[d] \in States /\ Cancelled(owner[d]) \in BOOLEAN
  BY DEF TypeOK, Cancelled
<1>2. \E t \in Runner(sess[d], Cancelled(owner[d])) \cup World(sess[d]) :
        InHandle(d) /\ Advance(d, t)
  BY DEF Session, SessionRuns, SessionWorld
<1> QED  BY <1>1, <1>2, SessionStep

-----------------------------------------------------------------------------
\* The initial state satisfies the inductive invariant.
LEMMA InitInv == Init => Inv
<1> SUFFICES ASSUME Init PROVE Inv
  OBVIOUS
<1>1. InHandleConn = {} /\ InChannel = {}
  BY DEF Init, InHandleConn, InChannel
<1>2. Counted  BY <1>1, FS_EmptySet DEF Init, Counted
<1>3. Phases /\ Isolation
  BY <1>1 DEF Init, Phases, Fresh, Childless, Living, Isolation, Hung
<1>4. Fresh \in States  BY DEF Fresh, States
<1>5. TypeOK
  <2>1. (CHOOSE c \in Conns : TRUE) \in Conns  BY ServerAssumption
  <2>2. owner \in [Chans -> Conns]  BY <2>1 DEF Init
  <2>3. clock \in 0 .. DrainTimeout /\ grace \in [Chans -> 0 .. ShutdownGrace]
    BY ServerAssumption DEF Init
  <2> QED  BY <1>4, <2>2, <2>3 DEF Init, TypeOK
<1> QED  BY <1>2, <1>3, <1>5 DEF Inv

\* Every step keeps the wait groups' counts: each Add comes with a goroutine,
\* each Done with its end.
LEMMA NextCounted == TypeOK /\ Counted /\ [Next]_vars => Counted'
<1> SUFFICES ASSUME TypeOK, Counted, [Next]_vars PROVE Counted'
  OBVIOUS
<1> USE DEF main, wgs, conns, chans
<1>0. ASSUME UNCHANGED <<wgs, conn, chan>> PROVE Counted'
  BY <1>0 DEF Counted, InHandleConn, InChannel
<1>a. ASSUME NEW d \in Chans, Finish(d), d \in InChannel, UNCHANGED <<connsWG, conn>>
      PROVE Counted'
  <2>1. InChannel' = InChannel \ {d}  BY <1>a DEF Finish, TypeOK, InChannel
  <2>2. InHandleConn' = InHandleConn  BY <1>a DEF InHandleConn
  <2>3. Cardinality(InChannel') = Cardinality(InChannel) - 1
    BY <2>1, <1>a, CountDown, Finite
  <2> QED  BY <1>a, <2>2, <2>3 DEF Finish, Counted
<1>1. CASE Signal \/ Serve \/ Watcher \/ Waiter \/ Tick \/ UNCHANGED vars
  BY <1>0, <1>1 DEF Signal, Serve, AcceptEnds, ConnsDone, DrainExpires, Return, Watcher,
     WatcherCloses, WatcherCancels, Waiter, WaitConns, WaitSessions, Tick, vars
<1>2. ASSUME NEW c \in Conns, HandleConn(c) \/ ClientLeaves(c) PROVE Counted'
  <2>1. CASE Accept(c)
    <3>1. InHandleConn' = InHandleConn \cup {c} /\ c \notin InHandleConn
      BY <2>1 DEF Accept, TypeOK, InHandleConn
    <3>2. InChannel' = InChannel  BY <2>1 DEF Accept, InChannel
    <3>3. Cardinality(InHandleConn') = Cardinality(InHandleConn) + 1
      BY <3>1, CountUp, Finite
    <3> QED  BY <2>1, <3>2, <3>3 DEF Accept, Counted
  <2>2. CASE Handshake(c)
    <3>1. InHandleConn' = InHandleConn /\ InChannel' = InChannel
      BY <2>2 DEF Handshake, TypeOK, InHandleConn, InChannel
    <3> QED  BY <2>2, <3>1 DEF Handshake, Counted
  <2>3. CASE HandshakeFails(c) \/ LoopEnds(c)
    <3>1. InHandleConn' = InHandleConn \ {c} /\ c \in InHandleConn
      BY <2>3 DEF HandshakeFails, LoopEnds, TypeOK, InHandleConn
    <3>2. InChannel' = InChannel  BY <2>3 DEF HandshakeFails, LoopEnds, InChannel
    <3>3. Cardinality(InHandleConn') = Cardinality(InHandleConn) - 1
      BY <3>1, CountDown, Finite
    <3> QED  BY <2>3, <3>2, <3>3 DEF HandshakeFails, LoopEnds, Counted
  <2>4. CASE ClientLeaves(c)  BY <1>0, <2>4 DEF ClientLeaves
  <2> QED  BY <1>2, <2>1, <2>2, <2>3, <2>4 DEF HandleConn
<1>3. ASSUME NEW c \in Conns, NEW d \in Chans, NEW type \in ChannelTypes,
             OpenChannel(c, d, type)
      PROVE Counted'
  <2>1. InHandleConn' = InHandleConn  BY <1>3 DEF OpenChannel, InHandleConn
  <2>2. classifyChannel(type) \in {"session", "dial", "ended"}  BY DEF classifyChannel
  <2>3. CASE classifyChannel(type) = "ended"
    <3>1. InChannel' = InChannel  BY <1>3, <2>3 DEF OpenChannel, TypeOK, InChannel
    <3> QED  BY <1>3, <2>1, <2>3, <3>1 DEF OpenChannel, Counted
  <2>4. CASE classifyChannel(type) # "ended"
    <3>1. InChannel' = InChannel \cup {d} /\ d \notin InChannel
      BY <1>3, <2>2, <2>4 DEF OpenChannel, TypeOK, InChannel
    <3>2. Cardinality(InChannel') = Cardinality(InChannel) + 1
      BY <3>1, CountUp, Finite
    <3> QED  BY <1>3, <2>1, <2>4, <3>2 DEF OpenChannel, Counted
  <2> QED  BY <2>3, <2>4
<1>4. ASSUME NEW d \in Chans, Session(d) PROVE Counted'
  <2>1. PICK t : InHandle(d) /\ Advance(d, t)  BY <1>4, SessionMoves
  <2>2. CASE t.at = "done"
    BY <1>a, <2>1, <2>2 DEF Advance, InHandle, InChannel
  <2>3. CASE t.at # "done"  BY <1>0, <2>1, <2>3 DEF Advance
  <2> QED  BY <2>2, <2>3
<1>5. ASSUME NEW d \in Chans, Forward(d) PROVE Counted'
  <2>1. CASE DialFails(d) \/ CopiesEnd(d)
    BY <1>a, <2>1 DEF DialFails, CopiesEnd, InChannel
  <2>2. CASE DialSucceeds(d)
    <3>1. InChannel' = InChannel /\ InHandleConn' = InHandleConn
      BY <2>2 DEF DialSucceeds, TypeOK, InChannel, InHandleConn
    <3> QED  BY <2>2, <3>1 DEF DialSucceeds, Counted
  <2> QED  BY <1>5, <2>1, <2>2 DEF Forward
<1> QED  BY <1>1, <1>2, <1>3, <1>4, <1>5 DEF Next

\* Every step keeps the types; that the counters never go below zero is their
\* being counts.
LEMMA NextTyped == Inv /\ [Next]_vars => TypeOK'
<1> SUFFICES ASSUME Inv, [Next]_vars PROVE TypeOK'
  OBVIOUS
<1>0. connsWG' \in Nat /\ sessionsWG' \in Nat
  <2>1. Counted'  BY NextCounted DEF Inv
  <2>2. IsFiniteSet(InHandleConn') /\ IsFiniteSet(InChannel')
    <3>1. InHandleConn' \subseteq Conns /\ InChannel' \subseteq Chans
      BY DEF InHandleConn, InChannel
    <3> QED  BY <3>1, FS_Subset, ServerAssumption
  <2> QED  BY <2>1, <2>2, FS_CardinalityType DEF Counted
<1> USE ServerAssumption, <1>0 DEF main, wgs, conns, chans, Running, Inv, TypeOK
<1>1. CASE Serve
  BY <1>1 DEF Serve, AcceptEnds, ConnsDone, DrainExpires, Return
<1>2. CASE Watcher \/ Waiter
  BY <1>2 DEF Watcher, WatcherCloses, WatcherCancels, Waiter, WaitConns, WaitSessions
<1>3. CASE Tick
  <2>1. clock' \in 0 .. DrainTimeout  BY <1>3 DEF Tick
  <2>2. grace' \in [Chans -> 0 .. ShutdownGrace]  BY <1>3 DEF Tick, InGrace
  <2> QED  BY <1>3, <2>1, <2>2 DEF Tick
<1>4. CASE Signal \/ UNCHANGED vars  BY <1>4, ZenonT(30) DEF Signal, vars
<1>5. ASSUME NEW c \in Conns, HandleConn(c) PROVE TypeOK'
  <2>1. CASE Accept(c)  BY <2>1 DEF Accept
  <2>2. CASE Handshake(c)  BY <2>2 DEF Handshake
  <2>3. CASE HandshakeFails(c)  BY <2>3 DEF HandshakeFails
  <2>4. CASE LoopEnds(c)  BY <2>4 DEF LoopEnds
  <2> QED  BY <1>5, <2>1, <2>2, <2>3, <2>4 DEF HandleConn
<1>6. ASSUME NEW c \in Conns, ClientLeaves(c) PROVE TypeOK'
  <2>1. sess' \in [Chans -> States]  BY <1>6, ZenonT(30) DEF ClientLeaves, States
  <2> QED  BY <1>6, <2>1 DEF ClientLeaves
<1>7. ASSUME NEW c \in Conns, NEW d \in Chans, NEW type \in ChannelTypes,
             OpenChannel(c, d, type)
      PROVE TypeOK'
  BY <1>7 DEF OpenChannel, classifyChannel
<1>8. ASSUME NEW d \in Chans, Session(d) PROVE TypeOK'
  <2>1. PICK t \in States : Advance(d, t)  BY <1>8, SessionMoves
  <2>2. grace' \in [Chans -> 0 .. ShutdownGrace]  BY <2>1 DEF Advance
  <2> QED  BY <2>1, <2>2 DEF Advance, Finish
<1>9. ASSUME NEW d \in Chans, Forward(d) PROVE TypeOK'
  BY <1>9 DEF Forward, DialFails, DialSucceeds, CopiesEnd, Finish
<1> QED  BY <1>1, <1>2, <1>3, <1>4, <1>5, <1>6, <1>7, <1>8, <1>9 DEF Next

\* Every step keeps the phases in order.
LEMMA NextPhases == Inv /\ [Next]_vars => Phases'
<1> SUFFICES ASSUME Inv, [Next]_vars PROVE Phases'
  OBVIOUS
<1> USE DEF main, wgs, conns, chans, Running, Inv, TypeOK, Phases, InHandleConn, InChannel
<1>1. CASE Serve
  <2>1. CASE AcceptEnds  BY <2>1 DEF AcceptEnds
  <2>2. CASE ConnsDone  BY <2>2 DEF ConnsDone
  <2>3. CASE DrainExpires  BY <2>3 DEF DrainExpires
  <2>4. CASE Return  BY <2>4 DEF Return
  <2> QED  BY <1>1, <2>1, <2>2, <2>3, <2>4 DEF Serve
<1>2. CASE Watcher
  BY <1>2 DEF Watcher, WatcherCloses, WatcherCancels
<1>3. CASE Waiter
  <2>1. CASE WaitConns
    <3>1. InHandleConn = {}
      BY <2>1, Finite, FS_EmptySet DEF WaitConns, Counted
    <3> QED  BY <2>1, <3>1 DEF WaitConns
  <2>2. CASE WaitSessions
    <3>1. InChannel = {}
      BY <2>2, Finite, FS_EmptySet DEF WaitSessions, Counted
    <3> QED  BY <2>2, <3>1 DEF WaitSessions
  <2> QED  BY <1>3, <2>1, <2>2 DEF Waiter
<1>4. CASE Tick \/ Signal \/ UNCHANGED vars  BY <1>4 DEF Tick, Signal, vars
<1>5. ASSUME NEW c \in Conns, HandleConn(c) PROVE Phases'
  <2>1. CASE Accept(c)  BY <2>1 DEF Accept
  <2>2. CASE Handshake(c)  BY <2>2 DEF Handshake
  <2>3. CASE HandshakeFails(c)  BY <2>3 DEF HandshakeFails
  <2>4. CASE LoopEnds(c)  BY <2>4 DEF LoopEnds
  <2> QED  BY <1>5, <2>1, <2>2, <2>3, <2>4 DEF HandleConn
<1>6. ASSUME NEW c \in Conns, ClientLeaves(c) PROVE Phases'
  <2>1. \A d \in Chans : sess'[d].at = sess[d].at /\ sess'[d].child = sess[d].child
    BY <1>6 DEF ClientLeaves, States
  <2> QED  BY <1>6, <2>1 DEF ClientLeaves, Childless
<1>7. ASSUME NEW c \in Conns, NEW d \in Chans, NEW type \in ChannelTypes,
             OpenChannel(c, d, type)
      PROVE Phases'
  BY <1>7 DEF OpenChannel
<1>8. ASSUME NEW d \in Chans, Session(d) PROVE Phases'
  <2>1. PICK t \in States : InHandle(d) /\ Advance(d, t)
                            /\ (Childless(sess[d]) => Childless(t))
    BY <1>8, SessionMoves
  <2>2. sess' = [sess EXCEPT ![d] = t] /\ Childless(t)  BY <2>1 DEF Advance
  <2>3. chan' = IF t.at = "done" THEN [chan EXCEPT ![d] = "ended"] ELSE chan
    BY <2>1 DEF Advance, Finish
  <2>4. chan[d] = "session"  BY <2>1 DEF InHandle
  <2>5. \A e \in Chans :
          Childless(sess'[e]) /\ (chan'[e] # "session" => sess'[e].child \notin Living)
    BY <2>2, <2>3, <2>4, SMTT(30) DEF Childless
  <2> QED  BY <2>1, <2>3, <2>4, <2>5 DEF Advance
<1>9. ASSUME NEW d \in Chans, Forward(d) PROVE Phases'
  <2>1. CASE DialFails(d)  BY <2>1 DEF DialFails, Finish
  <2>2. CASE DialSucceeds(d)  BY <2>2 DEF DialSucceeds
  <2>3. CASE CopiesEnd(d)  BY <2>3, SMTT(30) DEF CopiesEnd, Finish
  <2> QED  BY <1>9, <2>1, <2>2, <2>3 DEF Forward
<1> QED  BY <1>1, <1>2, <1>3, <1>4, <1>5, <1>6, <1>7, <1>8, <1>9 DEF Next

\* Every step keeps the connections apart.
LEMMA NextIsolation == Inv /\ [Next]_vars => Isolation'
<1> SUFFICES ASSUME Inv, [Next]_vars PROVE Isolation'
  OBVIOUS
<1> USE DEF main, wgs, conns, chans, Inv, TypeOK, Isolation
<1>1. CASE Serve
  BY <1>1 DEF Serve, AcceptEnds, ConnsDone, DrainExpires, Return
<1>2. CASE Watcher \/ Waiter
  BY <1>2 DEF Watcher, WatcherCloses, WatcherCancels, Waiter, WaitConns, WaitSessions
<1>3. CASE Tick \/ Signal \/ UNCHANGED vars  BY <1>3, SMTT(30) DEF Tick, Signal, vars
<1>4. ASSUME NEW c \in Conns, HandleConn(c) PROVE Isolation'
  <2>1. CASE Accept(c)  BY <2>1 DEF Accept
  <2>2. CASE Handshake(c)  BY <2>2 DEF Handshake
  <2>3. CASE HandshakeFails(c)  BY <2>3 DEF HandshakeFails
  <2>4. CASE LoopEnds(c)  BY <2>4 DEF LoopEnds
  <2> QED  BY <1>4, <2>1, <2>2, <2>3, <2>4 DEF HandleConn
<1>5. ASSUME NEW c \in Conns, ClientLeaves(c) PROVE Isolation'
  <2>1. \A d \in Chans :
          /\ sess'[d].at = sess[d].at /\ sess'[d].killed = sess[d].killed
          /\ sess[d].gone \/ (owner[d] = c /\ chan[d] = "session") => sess'[d].gone
    BY <1>5 DEF ClientLeaves, States
  <2> QED  BY <1>5, <2>1 DEF ClientLeaves, Hung
<1>6. ASSUME NEW c \in Conns, NEW d \in Chans, NEW type \in ChannelTypes,
             OpenChannel(c, d, type)
      PROVE Isolation'
  BY <1>6 DEF OpenChannel
<1>7. ASSUME NEW d \in Chans, Session(d) PROVE Isolation'
  <2>1. PICK t \in States :
          /\ InHandle(d) /\ Advance(d, t) /\ (sess[d].gone => t.gone)
          /\ Hung(t) => Hung(sess[d]) \/ Cancelled(owner[d]) \/ sess[d].gone
    BY <1>7, SessionMoves
  <2>2. sess' = [sess EXCEPT ![d] = t]  BY <2>1 DEF Advance
  <2>3. Hung(t) => t.gone \/ cancelled \/ serve # "accept"
    BY <2>1 DEF InHandle, Cancelled
  <2>4. \A e \in Chans : chan'[e] = "session" => chan[e] = "session"
    BY <2>1 DEF Advance, Finish
  <2> QED  BY <2>1, <2>2, <2>3, <2>4 DEF Advance
<1>8. ASSUME NEW d \in Chans, Forward(d) PROVE Isolation'
  BY <1>8 DEF Forward, DialFails, DialSucceeds, CopiesEnd, Finish
<1> QED  BY <1>1, <1>2, <1>3, <1>4, <1>5, <1>6, <1>7, <1>8 DEF Next

\* The inductive invariant holds in every reachable state.
THEOREM InvariantHolds == Spec => []Inv
<1>1. Inv /\ [Next]_vars => Inv'
  BY NextTyped, NextCounted, NextPhases, NextIsolation DEF Inv
<1> QED  BY <1>1, InitInv, PTL DEF Spec

\* Every variable keeps its type; in particular no timer overruns and no wait
\* group goes negative, which would panic.
THEOREM TypeCorrect == Spec => []TypeOK
<1>1. Inv => TypeOK  BY DEF Inv
<1> QED  BY <1>1, InvariantHolds, PTL

\* No handleConn can call sessionsWG.Add once the waiter is at the second Wait.
THEOREM NoAddDuringWaitHolds == Spec => []NoAddDuringWait
<1>1. Inv => NoAddDuringWait  BY DEF Inv, Phases, NoAddDuringWait
<1> QED  BY <1>1, InvariantHolds, PTL

\* A Serve that returns without a drain timeout leaves no handleConn, no
\* session, no forward and no child behind.
THEOREM CleanReturnHolds == Spec => []CleanReturn
<1>1. Inv => CleanReturn
  BY DEF Inv, Phases, CleanReturn, InHandleConn, InChannel
<1> QED  BY <1>1, InvariantHolds, PTL

\* Whatever the connections and their sessions do, none hangs up another's
\* session: connsCtx is cancelled only after a signal or with the accept loop,
\* and a connection's own context only with its transport.
THEOREM HangupIsolatedHolds == Spec => []HangupIsolated
<1>1. Inv => HangupIsolated  BY DEF Inv, Isolation, Hung, HangupIsolated
<1> QED  BY <1>1, InvariantHolds, PTL
=============================================================================
