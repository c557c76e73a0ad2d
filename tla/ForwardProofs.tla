--------------------------- MODULE ForwardProofs ---------------------------
(***************************************************************************)
(* Proofs about Forward, for every finite set of channels and every cap.   *)
(***************************************************************************)
EXTENDS Forward, FiniteSetTheorems, TLAPS

\* Where a handler's channel and socket may be open, and when its slot may
\* have gone before its socket.
Placed ==
  \A h \in Handlers :
    /\ Talking(h) => pc[h] = "pipe"
    /\ Connected(h) => pc[h] \in {"accept", "pipe", "unaccepted"}
    /\ pc[h] = "unaccepted" => ~connUp

Inv ==
  /\ TypeOK
  /\ SlotsAccounted
  /\ inflight <= ForwardMax
  /\ Placed

-----------------------------------------------------------------------------
\* The initial state is well typed.
LEMMA InitTypeOK == Init => TypeOK
<1> SUFFICES ASSUME Init PROVE TypeOK
  OBVIOUS
<1>1. 0 \in 0 .. MaxData  BY ForwardAssumption
<1>2. /\ up \in [Handlers -> 0 .. MaxData]
      /\ down \in [Handlers -> 0 .. MaxData]
      /\ lost \in [Handlers -> 0 .. MaxData]
  BY <1>1 DEF Init
<1> QED  BY <1>2 DEF Init, TypeOK, Labels, Holding

\* Every step keeps the types.
LEMMA NextTypeOK == TypeOK /\ [Next]_vars => TypeOK'
<1> SUFFICES ASSUME TypeOK, [Next]_vars PROVE TypeOK'
  OBVIOUS
<1> USE ForwardAssumption
    DEF TypeOK, Labels, Holding, Goto, handler, peers, ReleaseSlot
<1>1. ASSUME NEW h \in Handlers, Handle(h) PROVE TypeOK'
  <2>1. CASE RejectMalformed(h)  BY <2>1 DEF RejectMalformed
  <2>2. CASE RejectOverCap(h)    BY <2>2 DEF RejectOverCap
  <2>3. CASE Acquire(h)          BY <2>3 DEF Acquire
  <2>4. CASE DialAborted(h)      BY <2>4 DEF DialAborted, DialFails
  <2>5. CASE AcceptFails(h)      BY <2>5 DEF AcceptFails
  <2>6. CASE CloseUnaccepted(h)  BY <2>6 DEF CloseUnaccepted
  <2>7. CASE Accept(h)           BY <2>7 DEF Accept
  <2>8. CASE Join(h)             BY <2>8 DEF Join
  <2>9. CASE Release(h)          BY <2>9 DEF Release
  <2> QED  BY <1>1, <2>1, <2>2, <2>3, <2>4, <2>5, <2>6, <2>7, <2>8, <2>9 DEF Handle
<1>2. ASSUME NEW h \in Handlers, Pump(h) PROVE TypeOK'
  <2>1. CASE MoveOut(h)  BY <2>1 DEF MoveOut
  <2>2. CASE EndOut(h)   BY <2>2 DEF EndOut
  <2>3. CASE MoveIn(h)   BY <2>3 DEF MoveIn
  <2>4. CASE EndIn(h)    BY <2>4 DEF EndIn
  <2> QED  BY <1>2, <2>1, <2>2, <2>3, <2>4 DEF Pump
<1>3. ASSUME NEW h \in Handlers, Peers(h) PROVE TypeOK'
  <2>1. CASE DialRefused(h)     BY <2>1 DEF DialRefused, DialFails
  <2>2. CASE DialSucceeds(h)    BY <2>2 DEF DialSucceeds
  <2>3. CASE DeadlinePasses(h)  BY <2>3 DEF DeadlinePasses
  <2>4. CASE ~DialRefused(h) /\ ~DialSucceeds(h) /\ ~DeadlinePasses(h)
    BY <1>3, <2>4 DEF Peers, Open, ClientSends, ClientEnds, DestSends, DestEnds, DestResets
  <2> QED  BY <2>1, <2>2, <2>3, <2>4
<1>4. CASE ConnectionDrops \/ Cancel \/ Done \/ UNCHANGED vars
  BY <1>4 DEF ConnectionDrops, Cancel, Done, vars
<1> QED  BY <1>1, <1>2, <1>3, <1>4 DEF Next

-----------------------------------------------------------------------------
\* The holders are finitely many, so counting them is meaningful.
LEMMA HoldersFinite ==
  IsFiniteSet(Holders) /\ Cardinality(Holders) \in Nat
<1>1. Holders \subseteq Handlers  BY DEF Holders
<1>2. IsFiniteSet(Holders)  BY <1>1, FS_Subset, ForwardAssumption
<1> QED  BY <1>2, FS_CardinalityType

\* A handler that enters the holding labels adds one to their number.
LEMMA HoldersGrow ==
  ASSUME TypeOK, NEW h \in Handlers, NEW l \in Holding, pc[h] \notin Holding,
         pc' = [pc EXCEPT ![h] = l]
  PROVE  Cardinality(Holders') = Cardinality(Holders) + 1
<1>1. Holders' = Holders \cup {h}  BY DEF TypeOK, Holders
<1>2. h \notin Holders  BY DEF Holders
<1> QED  BY <1>1, <1>2, HoldersFinite, FS_AddElement

\* A handler that leaves the holding labels takes one off their number.
LEMMA HoldersShrink ==
  ASSUME TypeOK, NEW h \in Handlers, NEW l, l \notin Holding, pc[h] \in Holding,
         pc' = [pc EXCEPT ![h] = l]
  PROVE  /\ Cardinality(Holders') = Cardinality(Holders) - 1
         /\ Cardinality(Holders) > 0
<1>1. Holders' = Holders \ {h}  BY DEF TypeOK, Holders
<1>2. h \in Holders  BY DEF Holders
<1>3. Cardinality(Holders') = Cardinality(Holders) - 1
  BY <1>1, <1>2, HoldersFinite, FS_RemoveElement
<1>4. Cardinality(Holders) # 0  BY <1>2, HoldersFinite, FS_EmptySet
<1> QED  BY <1>3, <1>4, HoldersFinite

\* A handler that stays on its side of the boundary leaves them as they are.
LEMMA HoldersKept ==
  ASSUME TypeOK, NEW h \in Handlers, NEW l, (l \in Holding) <=> (pc[h] \in Holding),
         pc' = [pc EXCEPT ![h] = l]
  PROVE  Holders' = Holders
  BY DEF TypeOK, Holders

-----------------------------------------------------------------------------
\* The initial state satisfies the inductive invariant.
LEMMA InitInv == Init => Inv
<1> SUFFICES ASSUME Init PROVE Inv
  OBVIOUS
<1>1. Holders = {}  BY DEF Init, Holders, Holding
<1>2. SlotsAccounted  BY <1>1, FS_EmptySet DEF SlotsAccounted, Init
<1>3. Placed  BY DEF Init, Placed, Talking, Connected
<1> QED  BY <1>2, <1>3, InitTypeOK, ForwardAssumption DEF Inv, Init

\* Every step keeps the count of the slots and the cap.
LEMMA NextSlots ==
  Inv /\ [Next]_vars => SlotsAccounted' /\ inflight' <= ForwardMax
<1> SUFFICES ASSUME Inv, [Next]_vars
             PROVE  SlotsAccounted' /\ inflight' <= ForwardMax
  OBVIOUS
<1> USE ForwardAssumption DEF Inv, SlotsAccounted
<1>0. inflight \in Nat /\ pc \in [Handlers -> Labels]  BY DEF TypeOK
<1>1. ASSUME NEW h \in Handlers, Acquire(h)
      PROVE  SlotsAccounted' /\ inflight' <= ForwardMax
  <2>1. "dial" \in Holding /\ pc[h] \notin Holding
    BY <1>1 DEF Acquire, Holding
  <2>2. Cardinality(Holders') = Cardinality(Holders) + 1
    BY <1>1, <2>1, HoldersGrow DEF Acquire, Goto
  <2> QED  BY <1>1, <2>2, <1>0 DEF Acquire, SlotFree
<1>2. ASSUME NEW h \in Handlers, DialFails(h) \/ AcceptFails(h) \/ Release(h)
      PROVE  SlotsAccounted' /\ inflight' <= ForwardMax
  <2>1. PICK l \in {"rejected", "unaccepted", "done"} : pc' = [pc EXCEPT ![h] = l]
    BY <1>2 DEF DialFails, AcceptFails, Release, Goto
  <2>2. l \notin Holding /\ pc[h] \in Holding
    BY <1>2, <2>1 DEF DialFails, AcceptFails, Release, Holding
  <2>3. /\ Cardinality(Holders') = Cardinality(Holders) - 1
        /\ Cardinality(Holders) > 0
    BY <2>1, <2>2, HoldersShrink
  <2>4. ReleaseSlot  BY <1>2 DEF DialFails, AcceptFails, Release
  <2> QED  BY <2>3, <2>4, <1>0 DEF ReleaseSlot
<1>3. ASSUME NEW h \in Handlers, DialSucceeds(h) \/ Accept(h) \/ Join(h)
      PROVE  SlotsAccounted' /\ inflight' <= ForwardMax
  <2>1. PICK l \in {"accept", "pipe", "closed"} : pc' = [pc EXCEPT ![h] = l]
    BY <1>3 DEF DialSucceeds, Accept, Join, Goto
  <2>2. l \in Holding /\ pc[h] \in Holding /\ inflight' = inflight
    BY <1>3, <2>1 DEF DialSucceeds, Accept, Join, Holding
  <2> QED  BY <2>1, <2>2, HoldersKept
<1>4. ASSUME NEW h \in Handlers,
             Open(h) \/ RejectMalformed(h) \/ RejectOverCap(h) \/ CloseUnaccepted(h)
      PROVE  SlotsAccounted' /\ inflight' <= ForwardMax
  BY <1>4, HoldersKept
  DEF Open, RejectMalformed, RejectOverCap, CloseUnaccepted, Goto, Holding
<1>5. CASE UNCHANGED <<inflight, pc>>
  BY <1>5 DEF Holders
<1>6. ASSUME NEW h \in Handlers,
             \/ Pump(h) \/ DeadlinePasses(h) \/ ClientSends(h) \/ ClientEnds(h)
             \/ DestSends(h) \/ DestEnds(h) \/ DestResets(h)
      PROVE  UNCHANGED <<inflight, pc>>
  BY <1>6 DEF Pump, MoveOut, EndOut, MoveIn, EndIn, DeadlinePasses, ClientSends,
              ClientEnds, DestSends, DestEnds, DestResets, handler
<1>7. CASE ConnectionDrops \/ Cancel \/ Done \/ UNCHANGED vars
  BY <1>5, <1>7 DEF ConnectionDrops, Cancel, Done, vars, handler
<1> QED  BY <1>1, <1>2, <1>3, <1>4, <1>5, <1>6, <1>7
         DEF Next, Handle, Peers, DialRefused, DialAborted

\* Every step keeps channels and sockets where they belong.
LEMMA NextPlaced == Inv /\ [Next]_vars => Placed'
<1> SUFFICES ASSUME Inv, [Next]_vars PROVE Placed'
  OBVIOUS
<1> USE DEF Inv, TypeOK, Placed, Talking, Connected, Goto, handler, peers
<1>1. ASSUME NEW h \in Handlers, Handle(h) PROVE Placed'
  <2>1. CASE RejectMalformed(h)  BY <2>1 DEF RejectMalformed
  <2>2. CASE RejectOverCap(h)    BY <2>2 DEF RejectOverCap
  <2>3. CASE Acquire(h)          BY <2>3 DEF Acquire
  <2>4. CASE DialAborted(h)      BY <2>4 DEF DialAborted, DialFails
  <2>5. CASE AcceptFails(h)      BY <2>5 DEF AcceptFails
  <2>6. CASE CloseUnaccepted(h)  BY <2>6 DEF CloseUnaccepted
  <2>7. CASE Accept(h)           BY <2>7 DEF Accept
  <2>8. CASE Join(h)             BY <2>8 DEF Join
  <2>9. CASE Release(h)          BY <2>9 DEF Release
  <2> QED  BY <1>1, <2>1, <2>2, <2>3, <2>4, <2>5, <2>6, <2>7, <2>8, <2>9 DEF Handle
<1>2. ASSUME NEW h \in Handlers, Pump(h) PROVE Placed'
  BY <1>2 DEF Pump, MoveOut, EndOut, MoveIn, EndIn
<1>3. ASSUME NEW h \in Handlers, Peers(h) PROVE Placed'
  <2>1. CASE DialRefused(h)     BY <2>1 DEF DialRefused, DialFails
  <2>2. CASE DialSucceeds(h)    BY <2>2 DEF DialSucceeds
  <2>3. CASE DeadlinePasses(h)  BY <2>3 DEF DeadlinePasses
  <2>4. CASE ~DialRefused(h) /\ ~DialSucceeds(h) /\ ~DeadlinePasses(h)
    BY <1>3, <2>4 DEF Peers, Open, ClientSends, ClientEnds, DestSends, DestEnds, DestResets
  <2> QED  BY <2>1, <2>2, <2>3, <2>4
<1>4. CASE ConnectionDrops \/ Cancel \/ Done \/ UNCHANGED vars
  BY <1>4 DEF ConnectionDrops, Cancel, Done, vars
<1> QED  BY <1>1, <1>2, <1>3, <1>4 DEF Next

\* The inductive invariant holds in every reachable state.
THEOREM InvariantHolds == Spec => []Inv
<1>1. Inv /\ [Next]_vars => Inv'
  BY NextTypeOK, NextSlots, NextPlaced DEF Inv
<1> QED  BY <1>1, InitInv, PTL DEF Spec

\* Every slot is given back exactly once, whichever way handleDirectTCPIP
\* ends, so the counter is always the number of its holders.
THEOREM SlotsAccountedHolds == Spec => []SlotsAccounted
<1>1. Inv => SlotsAccounted  BY DEF Inv
<1> QED  BY <1>1, InvariantHolds, PTL

\* No connection ever has more than ForwardMax open forwarded channels.
THEOREM OpenWithinCapHolds == Spec => []OpenWithinCap
<1>1. Inv => OpenWithinCap
  <2> SUFFICES ASSUME Inv PROVE OpenWithinCap
    OBVIOUS
  <2> DEFINE Open_ == {h \in Handlers : Talking(h)}
  <2>1. Open_ \subseteq Holders  BY DEF Inv, Placed, Holders, Holding
  <2>2. Cardinality(Open_) <= Cardinality(Holders) /\ Cardinality(Open_) \in Nat
    BY <2>1, HoldersFinite, FS_Subset, FS_CardinalityType
  <2> QED  BY <2>2, HoldersFinite, ForwardAssumption
           DEF Inv, SlotsAccounted, OpenWithinCap
<1> QED  BY <1>1, InvariantHolds, PTL

\* While the connection is up its destination sockets stay within the cap.
THEOREM SocketsWithinCapHolds == Spec => []SocketsWithinCap
<1>1. Inv => SocketsWithinCap
  <2> SUFFICES ASSUME Inv, connUp
               PROVE  Cardinality({h \in Handlers : Connected(h)}) <= ForwardMax
    BY DEF SocketsWithinCap
  <2> DEFINE Sockets == {h \in Handlers : Connected(h)}
  <2>1. Sockets \subseteq Holders  BY DEF Inv, Placed, Holders, Holding
  <2>2. Cardinality(Sockets) <= Cardinality(Holders) /\ Cardinality(Sockets) \in Nat
    BY <2>1, HoldersFinite, FS_Subset, FS_CardinalityType
  <2> QED  BY <2>2, HoldersFinite, ForwardAssumption DEF Inv, SlotsAccounted
<1> QED  BY <1>1, InvariantHolds, PTL

\* A handler that has returned leaves neither a channel nor a socket open.
THEOREM NothingLeaksHolds == Spec => []NothingLeaks
<1>1. Inv => NothingLeaks
  BY DEF Inv, Placed, NothingLeaks, Finished
<1> QED  BY <1>1, InvariantHolds, PTL

-----------------------------------------------------------------------------
\* Why no answer is lost: the socket stays open for reading as long as the
\* pipe lasts, and the copy that reads it stops only at its end or when
\* nobody is left to read the answer.
Answered ==
  \A h \in Handlers :
    /\ pc[h] = "accept" \/ pc[h] = "pipe" => tcp[h] \in {"open", "half"}
    /\ pc[h] = "pipe" /\ ~copyIn[h]
         => client[h] = "gone" \/ (down[h] = 0 /\ dest[h] # "sending")
    /\ lost[h] > 0 => client[h] = "gone"

\* Initially nothing is lost.
LEMMA InitAnswered == Init => Answered
  BY DEF Init, Answered

\* No step loses an answer.
LEMMA NextAnswered == TypeOK /\ Answered /\ [Next]_vars => Answered'
<1> SUFFICES ASSUME TypeOK, Answered, [Next]_vars PROVE Answered'
  OBVIOUS
<1> USE DEF TypeOK, Answered, Goto, handler, peers
<1>1. ASSUME NEW h \in Handlers, Handle(h) PROVE Answered'
  <2>1. CASE RejectMalformed(h)  BY <2>1 DEF RejectMalformed
  <2>2. CASE RejectOverCap(h)    BY <2>2 DEF RejectOverCap
  <2>3. CASE Acquire(h)          BY <2>3 DEF Acquire
  <2>4. CASE DialAborted(h)      BY <2>4 DEF DialAborted, DialFails
  <2>5. CASE AcceptFails(h)      BY <2>5 DEF AcceptFails
  <2>6. CASE CloseUnaccepted(h)  BY <2>6 DEF CloseUnaccepted
  <2>7. CASE Accept(h)           BY <2>7 DEF Accept
  <2>8. CASE Join(h)             BY <2>8, ForwardAssumption DEF Join
  <2>9. CASE Release(h)          BY <2>9 DEF Release
  <2> QED  BY <1>1, <2>1, <2>2, <2>3, <2>4, <2>5, <2>6, <2>7, <2>8, <2>9 DEF Handle
<1>2. ASSUME NEW h \in Handlers, Pump(h) PROVE Answered'
  <2>1. CASE MoveOut(h)  BY <2>1 DEF MoveOut
  <2>2. CASE EndOut(h)   BY <2>2 DEF EndOut
  <2>3. CASE MoveIn(h)   BY <2>3 DEF MoveIn
  <2>4. CASE EndIn(h)    BY <2>4, ForwardAssumption DEF EndIn
  <2> QED  BY <1>2, <2>1, <2>2, <2>3, <2>4 DEF Pump
<1>3. ASSUME NEW h \in Handlers, Peers(h) PROVE Answered'
  <2>1. CASE Open(h)         BY <2>1 DEF Open
  <2>2. CASE ClientSends(h)  BY <2>2 DEF ClientSends
  <2>3. CASE ClientEnds(h)   BY <2>3 DEF ClientEnds
  <2>4. CASE DestSends(h)    BY <2>4 DEF DestSends
  <2>5. CASE DestEnds(h)     BY <2>5 DEF DestEnds
  <2>6. CASE DestResets(h)   BY <2>6 DEF DestResets
  <2>7. CASE DialRefused(h)  BY <2>7 DEF DialRefused, DialFails
  <2>8. CASE DialSucceeds(h)    BY <2>8 DEF DialSucceeds
  <2>9. CASE DeadlinePasses(h)  BY <2>9 DEF DeadlinePasses
  <2> QED  BY <1>3, <2>1, <2>2, <2>3, <2>4, <2>5, <2>6, <2>7, <2>8, <2>9 DEF Peers
<1>4. CASE ConnectionDrops \/ Cancel \/ Done \/ UNCHANGED vars
  BY <1>4 DEF ConnectionDrops, Cancel, Done, vars
<1> QED  BY <1>1, <1>2, <1>3, <1>4 DEF Next

\* A client that half-closes its side still gets all that the destination
\* sent: handleDirectTCPIP only half-closes the socket and joins both copies.
THEOREM AnswerDeliveredHolds == Spec => []AnswerDelivered
<1>1. Spec => []TypeOK
  BY InitTypeOK, NextTypeOK, PTL DEF Spec
<1>2. Spec => []Answered
  BY <1>1, InitAnswered, NextAnswered, PTL DEF Spec
<1>3. Answered => AnswerDelivered  BY DEF Answered, AnswerDelivered
<1> QED  BY <1>2, <1>3, PTL
=============================================================================
