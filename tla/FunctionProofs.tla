--------------------------- MODULE FunctionProofs ---------------------------
(***************************************************************************)
(* Proofs about the pure functions, for inputs of any size: the backoff    *)
(* formula (DelayAnnouncedHolds), the parsers and the requests of sendExit *)
(* (WireExactHolds), what a child is started with (ChildPreparedHolds) and *)
(* the settings that are looked up (SettingsLookedUp).  The invariant that *)
(* all of them rest on, Answered, says that what a call has returned is    *)
(* what its function gives for that call's arguments.                      *)
(***************************************************************************)
EXTENDS PureFunctions, OperatorProofs, TLAPS

(***************************************************************************)
(* The backoff formula.  Up to 32 s the product is exact; from 64 s on it  *)
(* exceeds 60 s or has run into the sign bit, whatever it has lost to the  *)
(* wrap, until all its bits are lost.                                      *)
(***************************************************************************)
\* The first six delays are the powers of two, unclamped.
LEMMA ExactDelays ==
  \A e \in 0 .. 5 : ShiftedSecond(e) = Seconds(PowerOfTwo(e))
BY SMT DEF ShiftedSecond, PowerOfTwo, Second, Limb, Seconds

\* None of them exceeds 60 s.
LEMMA ExactDelaysKept ==
  \A e \in 0 .. 5 : ~Negative(ShiftedSecond(e)) /\ ~Greater(ShiftedSecond(e), MaxDelay)
BY SMT DEF ShiftedSecond, PowerOfTwo, Second, Limb, Negative, Greater, MaxDelay

\* From 64 s on the product is negative or too large, though it wraps.
LEMMA LongDelaysClamped ==
  \A e \in 6 .. 54 : Negative(ShiftedSecond(e)) \/ Greater(ShiftedSecond(e), MaxDelay)
BY SMT DEF ShiftedSecond, PowerOfTwo, Second, Limb, Negative, Greater, MaxDelay

\* computeDelay follows the documented table for every count but the eight at
\* which the product is zero.
THEOREM DelayExact ==
  ASSUME NEW n \in Nat, n \notin WrapsToZero
  PROVE  computeDelay(n) = Documented(n)
<1>1. CASE n = 0
  BY <1>1, SMT DEF computeDelay, Documented, Zero, Seconds, Second, Limb
<1>2. CASE n \in 1 .. 6
  BY <1>2, ExactDelays, ExactDelaysKept, SMT DEF computeDelay, Documented, Clamp
<1>3. Seconds(60) = MaxDelay
  BY SMT DEF Seconds, Second, Limb, MaxDelay
<1>4. CASE n \in 7 .. 55
  BY <1>3, <1>4, LongDelaysClamped, SMT DEF computeDelay, Documented, Clamp
<1>5. CASE n > 63
  BY <1>3, <1>5, SMT DEF computeDelay, Documented
<1> QED
  BY <1>1, <1>2, <1>4, <1>5, SMT DEF WrapsToZero

\* The eight counts of DelayExact are real: (1 << exp) * time.Second has lost all
\* its bits there, no clamp of computeDelay catches a zero, and there is no delay.
THEOREM DelayWraps ==
  ASSUME NEW n \in WrapsToZero
  PROVE  computeDelay(n) = Zero
<1>1. \A e \in 55 .. 62 : ShiftedSecond(e) = Zero
  BY SMT DEF ShiftedSecond, PowerOfTwo, Second, Limb, Zero
<1>2. ~Negative(Zero) /\ ~Greater(Zero, MaxDelay)
  BY SMT DEF Negative, Greater, Zero, MaxDelay, Limb
<1>3. n - 1 \in 55 .. 62 /\ ~(n <= 0) /\ ~(n - 1 > 62)
  BY SMT DEF WrapsToZero
<1> QED
  BY <1>1, <1>2, <1>3, SMT DEF computeDelay, Clamp

-----------------------------------------------------------------------------
(***************************************************************************)
(* What a client sends to a parser.                                        *)
(***************************************************************************)
\* What the instances send are fields and bytes.
LEMMA ValuesFields ==
  ASSUME NEW req \in ReqTypes, NEW v \in Values(req)
  PROVE  HasFields(req, v)
<1>0. Strings \subseteq SSHStrings /\ Ports \subseteq Uint32s /\ 0 \in Uint32s
  BY InputAssumption DEF SSHStrings, Uint32s
<1>1. \A z \in Sizes :
        /\ z[1] \in Uint32s /\ z[2] \in Uint32s /\ z[3] \in Uint32s /\ z[4] \in Uint32s
        /\ z = <<z[1], z[2], z[3], z[4]>>
  BY InputAssumption
<1>2. CASE req = "pty-req"
  <2>1. PICK s \in Strings, z \in Sizes, t \in Strings : v = <<s, z[1], z[2], z[3], z[4], t>>
    BY <1>2 DEF Values
  <2>2. /\ s \in SSHStrings /\ t \in SSHStrings
        /\ z[1] \in Uint32s /\ z[2] \in Uint32s /\ z[3] \in Uint32s /\ z[4] \in Uint32s
    BY <1>0, <1>1
  <2> QED
    BY <1>2, <2>1, <2>2 DEF HasFields
<1>3. CASE req = "window-change"
  <2>1. v \in Sizes
    BY <1>3 DEF Values
  <2> QED
    BY <1>1, <1>3, <2>1 DEF HasFields
<1>4. CASE req = "env"
  BY <1>0, <1>4 DEF Values, HasFields
<1>5. CASE req = "direct-tcpip"
  <2>1. PICK s \in Strings, n \in Ports, t \in Strings : v = <<s, n, t, 0>>
    BY <1>5 DEF Values
  <2> QED
    BY <1>0, <1>5, <2>1 DEF HasFields
<1>6. CASE req \in {"exec", "subsystem"}
  <2>1. Values(req) = {<<s>> : s \in Strings}
    BY <1>6 DEF Values
  <2>2. HasFields(req, v) <=> \E s \in SSHStrings : v = <<s>>
    BY <1>6 DEF HasFields
  <2> QED
    BY <1>0, <2>1, <2>2
<1> QED
  BY <1>2, <1>3, <1>4, <1>5, <1>6 DEF ReqTypes

\* A payload of the run: a marshalled request and what is after it, cut or changed.
LEMMA PayloadSent ==
  ASSUME NEW c, IsPayload(c)
  PROVE  /\ c.fn = "parse" /\ c.req \in ReqTypes /\ HasFields(c.req, c.values)
         /\ c.tail \in Bytes /\ Sent(c) \in Bytes /\ Marshal(c.req, c.values) \in Bytes
         /\ c.at = 0 => /\ c.cut \in 0 .. Len(Whole(c))
                        /\ Sent(c) = SubSeq(Whole(c), 1, Len(Whole(c)) - c.cut)
         /\ Whole(c) = Join(Marshal(c.req, c.values), c.tail)
<1>1. PICK req \in ReqTypes : \E v \in Values(req), tail \in Tails :
        \E i \in 0 .. Len(Marshal(req, v) \o tail) :
          \/ c = Payload(req, v, tail, i, 0, 0)
          \/ \E byte \in Flips : c = Payload(req, v, tail, 0, i, byte)
  BY DEF IsPayload, ReqTypes
<1>2. PICK v \in Values(req), tail \in Tails : \E i \in 0 .. Len(Marshal(req, v) \o tail) :
          \/ c = Payload(req, v, tail, i, 0, 0)
          \/ \E byte \in Flips : c = Payload(req, v, tail, 0, i, byte)
  BY <1>1, Zenon
<1>3. c.fn = "parse" /\ c.req = req /\ c.values = v /\ c.tail = tail
  BY <1>2 DEF Payload
<1>4. HasFields(req, v) /\ tail \in Bytes
  BY ValuesFields, InputAssumption DEF Bytes
<1>5. Marshal(req, v) \in Bytes
  BY <1>4, AllExact DEF Exact
<1> DEFINE w == Whole(c)
           kept == SubSeq(w, 1, Len(w) - c.cut)
<1>6. w = Join(Marshal(req, v), tail) /\ w = Marshal(req, v) \o tail
  BY <1>3 DEF Whole, Join
<1>7. w \in Bytes
  BY <1>4, <1>5, <1>6, Regroup
<1>8. \/ c.cut \in 0 .. Len(w) /\ c.at = 0
      \/ c.cut = 0 /\ c.byte \in Byte
  BY <1>2, <1>6, InputAssumption DEF Payload
<1>9. Sent(c) = IF c.at \in DOMAIN kept THEN [kept EXCEPT ![c.at] = c.byte] ELSE kept
  BY DEF Sent
<1>10. Len(w) - 0 = Len(w) /\ SubSeq(w, 1, Len(w)) = w /\ Len(w) \in Nat
  BY <1>7, SubSeqFull DEF Bytes
<1> HIDE DEF w
<1>11. CASE c.cut \in 0 .. Len(w) /\ c.at = 0
  <2>1. kept \in Seq(Byte) /\ DOMAIN kept = 1 .. Len(w) - c.cut
    BY <1>7, <1>10, <1>11 DEF Bytes
  <2>2. Sent(c) = kept
    BY <1>9, <1>11, <2>1
  <2> QED
    BY <1>3, <1>4, <1>5, <1>6, <1>11, <2>1, <2>2 DEF w, Bytes
<1>12. CASE c.cut = 0 /\ c.byte \in Byte
  <2>1. kept = w
    BY <1>10, <1>12
  <2>2. Sent(c) \in Bytes
    BY <1>7, <1>9, <1>12, <2>1 DEF Bytes
  <2>3. c.at = 0 => Sent(c) = kept
    <3>1. c.at = 0 => c.at \notin DOMAIN w
      BY <1>7 DEF Bytes
    <3> QED
      BY <1>9, <2>1, <3>1
  <2> QED
    BY <1>3, <1>4, <1>5, <1>6, <1>10, <1>12, <2>1, <2>2, <2>3 DEF w
<1> QED
  BY <1>8, <1>11, <1>12

-----------------------------------------------------------------------------
(***************************************************************************)
(* The calls.  A call is answered by the function it names.                *)
(***************************************************************************)
\* A call keeps its input, and once it has returned its answer is what the
\* function gives for that input.
Answered ==
  /\ IsInput(call)
  /\ Returned("delay") =>
       answer = [imposed |-> computeDelay(call.n), announced |-> nextDelay(call.n)]
  /\ Returned("parse") => answer = Parsed(call.req, Sent(call))
  /\ Returned("exit") => answer = sendExit(call)
  /\ Returned("child") => answer = Prepared(call)
  /\ Returned("lookup") => answer = LookedUp(call)
  /\ Returned("forwardMax") =>
       answer = resolveForwardMax(call.flag.val, call.flag.set, call.env)

\* Nothing has been answered at first.
LEMMA InitAnswered == Init => Answered
BY DEF Init, Answered, Returned

\* Every return is the function's own.
LEMMA NextAnswered == Answered /\ [Next]_vars => Answered'
<1> SUFFICES ASSUME Answered, [Next]_vars
             PROVE  Answered'
  OBVIOUS
<1>0. CASE UNCHANGED vars
  BY <1>0 DEF vars, Answered, Returned, IsInput
<1>1. ASSUME NEW fn, Calls(fn)
      PROVE  /\ IsInput(call)' /\ call.fn = fn
             /\ \A g : Returned(g)' => g = fn
  BY <1>1 DEF Calls, Returned, Answered, IsInput
<1>2. CASE Delay
  <2>1. call' = call
    BY <1>2 DEF Delay, Calls
  <2> QED
    BY <1>1, <1>2, <2>1 DEF Delay, Answered
<1>3. CASE ParsePayload
  <2>1. call' = call
    BY <1>3 DEF ParsePayload, Calls
  <2> QED
    BY <1>1, <1>3, <2>1 DEF ParsePayload, Answered
<1>4. CASE SendExit
  <2>1. call' = call
    BY <1>4 DEF SendExit, Calls
  <2> QED
    BY <1>1, <1>4, <2>1 DEF SendExit, Answered
<1>5. CASE Prepare
  <2>1. call' = call
    BY <1>5 DEF Prepare, Calls
  <2> QED
    BY <1>1, <1>5, <2>1 DEF Prepare, Answered
<1>6. CASE Methods
  BY <1>1, <1>6 DEF Methods, Answered
<1>7. CASE Lookup
  <2>1. call' = call
    BY <1>7 DEF Lookup, Calls
  <2> QED
    BY <1>1, <1>7, <2>1 DEF Lookup, Answered
<1>8. CASE ForwardMax
  <2>1. call' = call
    BY <1>8 DEF ForwardMax, Calls
  <2> QED
    BY <1>1, <1>8, <2>1 DEF ForwardMax, Answered
<1>9. CASE Log
  BY <1>1, <1>9 DEF Log, Answered
<1> QED
  BY <1>0, <1>2, <1>3, <1>4, <1>5, <1>6, <1>7, <1>8, <1>9 DEF Next

\* So every answer is what the function gives for the input of the call.
LEMMA AnsweredHolds == Spec => []Answered
BY InitAnswered, NextAnswered, PTL DEF Spec

\* The input of a call says which function it is for.
LEMMA InputKinds ==
  ASSUME NEW c, IsInput(c)
  PROVE  /\ c.fn = "delay" => c.n \in 0 .. MaxCount
         /\ c.fn = "parse" => IsPayload(c)
         /\ c.fn = "exit" => c \in Endings
         /\ c.fn = "child" => c \in Children
         /\ c.fn = "lookup" => c \in Lookups
         /\ c.fn = "forwardMax" => c \in Caps
<1>1. IsPayload(c) => c.fn = "parse"
  BY PayloadSent, Zenon
<1>2. /\ c \in [fn : {"delay"}, n : 0 .. MaxCount] => c.fn = "delay" /\ c.n \in 0 .. MaxCount
      /\ c \in Endings => c.fn = "exit"
      /\ c \in Children => c.fn = "child"
      /\ c \in MethodLists => c.fn = "methods"
      /\ c \in Lookups => c.fn = "lookup"
      /\ c \in Caps => c.fn = "forwardMax"
      /\ c \in Lines => c.fn = "log"
  <2>1. c \in [fn : {"delay"}, n : 0 .. MaxCount] => c.fn = "delay" /\ c.n \in 0 .. MaxCount
    OBVIOUS
  <2>2. c \in Endings => c.fn = "exit"
    BY DEF Endings
  <2>3. c \in Children => c.fn = "child"
    BY DEF Children
  <2>4. c \in MethodLists => c.fn = "methods"
    BY DEF MethodLists
  <2>5. c \in Lookups => c.fn = "lookup"
    BY DEF Lookups
  <2>6. c \in Caps => c.fn = "forwardMax"
    BY DEF Caps
  <2>7. c \in Lines => c.fn = "log"
    BY DEF Lines
  <2> QED
    BY <2>1, <2>2, <2>3, <2>4, <2>5, <2>6, <2>7
<1> QED
  BY <1>1, <1>2 DEF IsInput

\* DelayAnnounced, for every count: the delay that auth-fail announces (nextDelay)
\* is the one the next Acquire imposes (computeDelay), and but for the eight
\* counts at which the product is zero it is the documented one.
THEOREM DelayAnnouncedHolds == Spec => []DelayAnnounced
<1>1. Answered => DelayAnnounced
  <2> SUFFICES ASSUME Answered, Returned("delay")
               PROVE  /\ answer.announced = answer.imposed
                      /\ call.n \notin WrapsToZero => answer.imposed = Documented(call.n)
    BY DEF DelayAnnounced
  <2>1. call.n \in Nat
    BY InputKinds, InputAssumption DEF Answered, Returned
  <2>2. \A n : nextDelay(n) = computeDelay(n)
    BY Zenon DEF nextDelay, computeDelay
  <2>3. answer = [imposed |-> computeDelay(call.n), announced |-> nextDelay(call.n)]
    BY DEF Answered
  <2>4. answer.imposed = computeDelay(call.n) /\ answer.announced = nextDelay(call.n)
    BY <2>3
  <2> QED
    BY <2>1, <2>2, <2>4, DelayExact, Zenon
<1> QED
  BY <1>1, AnsweredHolds, PTL

-----------------------------------------------------------------------------
(***************************************************************************)
(* What the parsers and sendExit answer.                                   *)
(***************************************************************************)
\* The request parsers, on a payload that was cut or changed.
LEMMA ParseAnswered ==
  ASSUME Answered, Returned("parse")
  PROVE  /\ answer.ok => IsPrefix(Marshal(call.req, answer.values), Sent(call))
         /\ call.at = 0 =>
              /\ answer.ok <=> IF call.req = "direct-tcpip"
                               THEN call.cut = Len(call.tail) /\ call.values[2] \in PortNumbers
                               ELSE call.cut <= Len(call.tail)
              /\ answer.ok => answer.values = call.values
<1>1. IsPayload(call) /\ answer = Parsed(call.req, Sent(call))
  BY InputKinds DEF Answered, Returned
<1>2. /\ call.req \in ReqTypes /\ HasFields(call.req, call.values)
      /\ call.tail \in Bytes /\ Sent(call) \in Bytes
      /\ call.at = 0 => /\ call.cut \in 0 .. Len(Whole(call))
                        /\ Sent(call) = SubSeq(Whole(call), 1, Len(Whole(call)) - call.cut)
      /\ Whole(call) = Join(Marshal(call.req, call.values), call.tail)
  BY <1>1, PayloadSent, Zenon
<1>3. answer.ok => IsPrefix(Marshal(call.req, answer.values), Sent(call))
  <2>1. HAVE answer.ok
  <2> DEFINE m == Marshal(call.req, answer.values)
  <2>2. Len(m) <= Len(Sent(call)) /\ SubSeq(m, 1, Len(m)) = SubSeq(Sent(call), 1, Len(m))
    BY <1>1, <1>2, <2>1, ReadsOnlySent, Zenon
  <2> QED
    BY <2>2, Zenon DEF IsPrefix
<1>4. ASSUME call.at = 0
      PROVE  /\ answer.ok <=> IF call.req = "direct-tcpip"
                               THEN call.cut = Len(call.tail) /\ call.values[2] \in PortNumbers
                               ELSE call.cut <= Len(call.tail)
             /\ answer.ok => answer.values = call.values
  <2> DEFINE req == call.req
             v == call.values
             tail == call.tail
             cut == call.cut
             w == Join(Marshal(req, v), tail)
  <2>1. answer = Parsed(req, SubSeq(w, 1, Len(w) - cut)) /\ cut \in 0 .. Len(w)
    BY <1>1, <1>2, <1>4, Zenon
  <2>2. req \in ReqTypes /\ HasFields(req, v) /\ tail \in Bytes
    BY <1>2
  <2> HIDE DEF req, v, tail, cut
  <2>3. /\ answer.ok <=> Acceptable(req, v, tail, cut)
        /\ answer.ok => answer.values = v
    BY <2>1, <2>2, CutPayload
  <2> QED
    BY <2>3 DEF req, v, tail, cut, Acceptable
<1> QED
  BY <1>3, <1>4

\* sendExit, for a child that exited or was stopped.
LEMMA StatusAnswered ==
  ASSUME Answered, Returned("exit"), answer.type = "exit-status"
  PROVE  /\ call.how # "signaled"
         /\ TakeUint32(Start(answer.payload)) =
              [ok |-> TRUE, rest |-> <<>>,
               values |-> <<IF call.how = "exited" THEN call.code ELSE 0>>]
<1>1. call \in Endings /\ answer = sendExit(call)
  BY InputKinds DEF Answered, Returned
<1>2. call.how # "signaled"
  BY <1>1 DEF sendExit
<1> DEFINE n == IF call.how = "exited" THEN call.code ELSE 0
<1>3. n \in Uint32s
  <2>1. 0 \in Uint32s
    BY SMT DEF Uint32s
  <2>2. call.how = "exited" => call.code \in Statuses
    BY <1>1 DEF Endings
  <2> QED
    BY <2>1, <2>2, InputAssumption, Zenon
<1>4. answer.payload = exitStatusPayload(n)
  BY <1>1, <1>2 DEF sendExit
<1> HIDE DEF n
<1>5. TakeUint32(Start(answer.payload)) = [ok |-> TRUE, rest |-> <<>>, values |-> <<n>>]
  BY <1>3, <1>4, StatusRead, Zenon
<1> QED
  BY <1>2, <1>5 DEF n

\* sendExit, for a child that a signal has killed.
LEMMA SignalAnswered ==
  ASSUME Answered, Returned("exit"), answer.type = "exit-signal"
  PROVE  LET name == readSSHString(answer.payload)
             after == Message(answer.payload)
         IN  /\ call.how = "signaled"
             /\ name.ok /\ after.ok /\ after.rest = <<>>
             /\ name.rest[1] = (IF call.core THEN 1 ELSE 0)
             /\ call.code = IF after.values[1] = <<>> THEN name.value[1] ELSE after.values[1][2]
<1>1. call \in Endings /\ answer = sendExit(call)
  BY InputKinds DEF Answered, Returned
<1>2. call.how = "signaled"
  BY <1>1 DEF sendExit
<1>3. call.code \in 1 .. 31 /\ call.core \in BOOLEAN
  BY <1>1, <1>2 DEF Endings
<1> DEFINE sn == signalName(call.code).name
           sm == signalName(call.code).errorMessage
           r == readSSHString(answer.payload)
           after == Message(answer.payload)
<1>4. /\ sn \in SSHStrings /\ sm \in SSHStrings
      /\ call.code = IF sm = <<>> THEN sn[1] ELSE sm[2]
  <2>1. CASE call.code \in Named
    <3>1. sn = <<call.code>> /\ sm = <<>>
      BY <2>1 DEF signalName
    <3> HIDE DEF sn, sm
    <3>2. sn \in Seq(Byte) /\ Len(sn) = 1 /\ sm \in Seq(Byte) /\ Len(sm) = 0 /\ sn[1] = call.code
      BY <1>3, <3>1 DEF Byte
    <3> QED
      BY <3>1, <3>2 DEF SSHStrings, Uint32s
  <2>2. CASE call.code \notin Named
    <3>1. sn = <<SIGTERM>> /\ sm = <<0, call.code>>
      BY <2>2 DEF signalName
    <3> HIDE DEF sn, sm
    <3>2. /\ sn \in Seq(Byte) /\ Len(sn) = 1 /\ sm \in Seq(Byte) /\ Len(sm) = 2
          /\ sm[2] = call.code /\ sm # <<>>
      BY <1>3, <3>1 DEF Byte, SIGTERM
    <3> QED
      BY <3>2 DEF SSHStrings, Uint32s
  <2> QED
    BY <2>1, <2>2
<1>5. answer.payload = exitSignalPayload(sn, call.core, sm)
  BY <1>1, <1>2 DEF sendExit
<1> HIDE DEF sn, sm
<1>6. /\ r.ok /\ r.value = sn
      /\ r.rest[1] = CoreFlag(call.core)
      /\ after = Read(<<sm, <<>>>>, <<>>)
  BY <1>3, <1>4, <1>5, SignalRead
<1> HIDE DEF r, after
<1>7. after.ok /\ after.rest = <<>> /\ after.values = <<sm, <<>>>>
  BY <1>6 DEF Read
<1>8. after.values[1] = sm
  BY <1>7
<1>9. /\ call.how = "signaled"
      /\ r.ok /\ after.ok /\ after.rest = <<>>
      /\ r.rest[1] = (IF call.core THEN 1 ELSE 0)
      /\ call.code = IF after.values[1] = <<>> THEN r.value[1] ELSE after.values[1][2]
  BY <1>2, <1>4, <1>6, <1>7, <1>8, Zenon DEF CoreFlag
<1> QED
  BY <1>9, Zenon DEF r, after

\* WireExact, for payloads of any length with any byte changed: the parsers of
\* helpers.go and parseDirectTCPIP accept exactly the payloads that hold all their
\* fields and give those back, and a client reads from what sendExit sends how the
\* child ended.
THEOREM WireExactHolds == Spec => []WireExact
<1>1. Answered => WireExact
  BY ParseAnswered, StatusAnswered, SignalAnswered, Zenon DEF WireExact
<1> QED
  BY <1>1, AnsweredHolds, PTL

-----------------------------------------------------------------------------
(***************************************************************************)
(* What a child is started with.                                           *)
(***************************************************************************)
\* A bounded sequence is a sequence.
LEMMA BoundedIsSeq ==
  ASSUME NEW S, NEW n \in Nat, NEW s \in BoundedSeq(S, n)
  PROVE  s \in Seq(S)
<1>1. PICK m \in 0 .. n : s \in [1 .. m -> S]
  BY DEF BoundedSeq, SeqOf
<1> QED
  BY <1>1

\* prepareShell and prepareExec, whatever the channel asked for.
LEMMA ChildAnswered ==
  ASSUME call \in Children, answer = Prepared(call)
  PROVE  ChildPrepared
<1> DEFINE reqs == call.reqs
           host == call.host
           st == Received(reqs)
           P == PtyRequests
           term == IF P = {} THEN <<>> ELSE call.reqs[Min(P)].term
<1>1. /\ reqs \in Seq(Requests) /\ host \in Seq(HostLines) /\ call.kind \in {"shell", "exec"}
      /\ DOMAIN reqs = 1 .. Len(reqs) /\ DOMAIN host = 1 .. Len(host)
  <2>1. /\ reqs \in BoundedSeq(Requests, MaxChild) /\ host \in BoundedSeq(HostLines, MaxChild)
        /\ call.kind \in {"shell", "exec"}
    BY DEF Children
  <2>2. reqs \in Seq(Requests) /\ host \in Seq(HostLines)
    BY <2>1, BoundedIsSeq, InputAssumption
  <2> QED
    BY <2>1, <2>2
<1>2. \A k : Asked(k) = AskedBy(reqs, k, Len(reqs)) /\ Inherited(k) = GivenBy(host, k, Len(host))
  BY <1>1 DEF Asked, AskedBy, Inherited, GivenBy
<1>3. P = PtyBy(reqs, Len(reqs))
  BY <1>1 DEF PtyRequests, PtyBy
<1>4. answer.env = buildEnv(st, host)
  BY DEF Prepared, prepareShell, prepareExec
<1>5. /\ call.kind = "shell" => answer.args = <<"-shell">>
      /\ call.kind # "shell" =>
           answer.args = <<"shell">> \o (IF st.pty # Nil THEN <<"-i">> ELSE <<>>)
                                        \o <<"-c", "command">>
  BY DEF Prepared, prepareShell, prepareExec
<1>6. st.pty = Nil <=> P = {}
  <2> HIDE DEF P, st, reqs
  <2> QED
    BY <1>1, <1>3, ReceivedInv, TermFromPty DEF st
<1> HIDE DEF P, st, reqs, host
<1>7. /\ (answer.args[1] = "-shell") <=> call.kind = "shell"
      /\ Contains(answer.args, "-i") <=> (call.kind = "exec" /\ P # {})
  <2>1. CASE call.kind = "shell"
    <3>1. answer.args = <<"-shell">>
      BY <1>5, <2>1
    <3> QED
      BY <2>1, <3>1 DEF Contains
  <2>2. CASE call.kind = "exec" /\ P = {}
    <3>1. answer.args = <<"shell", "-c", "command">>
      BY <1>5, <1>6, <2>2
    <3> QED
      BY <2>2, <3>1 DEF Contains
  <2>3. CASE call.kind = "exec" /\ P # {}
    <3>1. answer.args = <<"shell", "-i", "-c", "command">>
      BY <1>5, <1>6, <2>3
    <3> QED
      BY <2>3, <3>1 DEF Contains
  <2> QED
    BY <1>1, <2>1, <2>2, <2>3
<1>8. EnvIs(answer.env, reqs, host, term)
  <2> DEFINE env == answer.env
  <2>1. env = buildEnv(st, host) /\ term = IF P = {} THEN <<>> ELSE reqs[Min(P)].term
    BY <1>4 DEF reqs
  <2> HIDE DEF env, term
  <2>2. EnvIs(env, reqs, host, term)
    BY <1>1, <1>3, <2>1, EnvBuilt DEF st
  <2> QED
    BY <2>2 DEF env
<1> HIDE DEF term
<1> DEFINE T == <<"TERM">>
           listed == {k \in Variables : Asked(k) \cup Inherited(k) # {}}
<1>9. T \notin listed
  <2>1. \A k \in listed : FromHost(k)
    BY DEF Asked, Inherited, Gives, FromHost
  <2> HIDE DEF T, listed
  <2> QED
    BY <2>1, TermNotOnList DEF T
<1> HIDE DEF T
<1>10. DOMAIN answer.env = listed \cup (IF term = <<>> THEN {} ELSE {T})
  BY <1>2, <1>8 DEF EnvIs, T
<1>11. /\ DOMAIN answer.env \ {T} = listed
       /\ T \in DOMAIN answer.env <=> term # <<>>
  BY <1>9, <1>10, Zenon
<1>12. \A k \in DOMAIN answer.env \ {T} :
         answer.env[k] =
           IF Asked(k) # {} THEN call.reqs[Max(Asked(k))].value
           ELSE LET kv == call.host[Max(Inherited(k))]
                IN  SubSeq(kv, Len(k) + 2, Len(kv))
  BY <1>2, <1>8 DEF EnvIs, Rest, reqs, host, T
<1>13. T \in DOMAIN answer.env => answer.env[T] = term
  BY <1>8 DEF EnvIs, T
<1>14. ~(P # {} /\ call.reqs[Min(P)].term = <<>>) => TermIffPty
  <2> SUFFICES ASSUME ~(P # {} /\ call.reqs[Min(P)].term = <<>>) PROVE TermIffPty
    OBVIOUS
  <2>1. /\ T \in DOMAIN answer.env <=> P # {}
        /\ P # {} => answer.env[T] = call.reqs[Min(P)].term
    BY <1>11, <1>13 DEF term
  <2> QED
    BY <2>1 DEF TermIffPty, T, P
<1> QED
  BY <1>7, <1>11, <1>12, <1>14 DEF ChildPrepared, P, T

\* ChildPrepared, for any requests and any host environment of any length: the
\* last admitted env request for a name wins over the last line of the host for it,
\* TERM comes from the first PTY alone, and only an exec with a PTY is interactive.
THEOREM ChildPreparedHolds == Spec => []ChildPrepared
<1>1. ASSUME Answered, Returned("child") PROVE ChildPrepared
  <2>1. call \in Children /\ answer = Prepared(call)
    BY <1>1, InputKinds DEF Answered, Returned
  <2> QED
    BY <2>1, ChildAnswered
<1>2. Answered => ChildPrepared
  BY <1>1, Zenon DEF ChildPrepared
<1> QED
  BY <1>2, AnsweredHolds, PTL

-----------------------------------------------------------------------------
(***************************************************************************)
(* What the settings resolve to.                                           *)
(***************************************************************************)
\* A flag or a variable is given or has the empty value.
LEMMA SourceGiven ==
  ASSUME NEW V, NEW empty, NEW x \in Sources(V, empty)
  PROVE  x.set \in BOOLEAN /\ (x.set => x.val \in V) /\ (~x.set => x.val = empty)
<1>1. CASE x = Unset(empty)
  <2>1. x.set = FALSE /\ x.val = empty
    BY <1>1 DEF Unset
  <2> QED
    BY <2>1, Zenon
<1>2. CASE \E v \in V : x = Set(v)
  <2>1. PICK v \in V : x = Set(v)
    BY <1>2
  <2>2. x.set = TRUE /\ x.val = v
    BY <2>1 DEF Set
  <2> QED
    BY <2>2, Zenon
<1> QED
  BY <1>1, <1>2 DEF Sources

\* ResolvePasswordStrict, ResolveUsername, ResolveAuthorizedKeysPath, ParseFormat.
LEMMA LookupAnswered ==
  ASSUME Answered, Returned("lookup")
  PROVE  LookupsResolved
<1>1. call \in Lookups /\ answer = LookedUp(call)
  BY InputKinds DEF Answered, Returned
<1>2. /\ call.of \in {"password", "username", "keys", "format"}
      /\ call.flag \in Sources(Words, "") /\ call.env \in Sources(Words, "")
  BY <1>1, Zenon DEF Lookups
<1>3. /\ call.flag.set \in BOOLEAN /\ (~call.flag.set => call.flag.val = "")
      /\ call.env.set \in BOOLEAN /\ (~call.env.set => call.env.val = "")
  BY <1>2, SourceGiven, Zenon
<1>4. CASE call.flag.set
  <2>1. Given = {call.flag.val} /\ Used = call.flag.val
    BY <1>4 DEF Given, Used
  <2> QED
    BY <1>1, <1>2, <1>3, <1>4, <2>1, Zenon
       DEF LookedUp, ResolvePasswordStrict, ResolveUsername, ResolveAuthorizedKeysPath,
           ParseFormat, parseFormatString, OK, Err, LookupsResolved, GivenDecides,
           EmptyIgnored, Valid
<1>5. CASE ~call.flag.set /\ call.env.set
  <2>1. Given = {call.env.val} /\ Used = call.env.val
    BY <1>5 DEF Given, Used
  <2> QED
    BY <1>1, <1>2, <1>3, <1>5, <2>1, Zenon
       DEF LookedUp, ResolvePasswordStrict, ResolveUsername, ResolveAuthorizedKeysPath,
           ParseFormat, parseFormatString, OK, Err, LookupsResolved, GivenDecides,
           EmptyIgnored, Valid
<1>6. CASE ~call.flag.set /\ ~call.env.set
  <2>1. Given = {} /\ Used = Fallback
    BY <1>6 DEF Given, Used
  <2> QED
    BY <1>1, <1>2, <1>3, <1>6, <2>1, Zenon
       DEF LookedUp, ResolvePasswordStrict, ResolveUsername, ResolveAuthorizedKeysPath,
           ParseFormat, parseFormatString, OK, Err, LookupsResolved, GivenDecides, Fallback,
           Valid
<1> QED
  BY <1>3, <1>4, <1>5, <1>6, Zenon

\* resolveForwardMax.
LEMMA CapAnswered ==
  ASSUME Answered, Returned("forwardMax")
  PROVE  CapResolved
<1>1. call \in Caps /\ answer = resolveForwardMax(call.flag.val, call.flag.set, call.env)
  BY InputKinds DEF Answered, Returned
<1>2. call.flag \in Sources(Limits, -1) /\ call.env \in Sources(Limits, 0)
  BY <1>1 DEF Caps
<1>3. /\ call.flag.set \in BOOLEAN
      /\ call.flag.set => call.flag.val \in Limits
      /\ ~call.flag.set => call.flag.val = -1
  BY <1>2, SourceGiven, Zenon
<1>4. /\ call.env.set \in BOOLEAN
      /\ call.env.set => call.env.val \in Limits
      /\ ~call.env.set => call.env.val = 0
  BY <1>2, SourceGiven, Zenon
<1> DEFINE given == IF call.flag.set THEN call.flag.val
                    ELSE IF call.env.set THEN call.env.val ELSE 32
<1>5. given \in Int
  <2>1. given \in Limits \/ given = 32
    BY <1>3, <1>4, Zenon
  <2> HIDE DEF given
  <2>2. Limits \subseteq Int
    BY InputAssumption, Zenon
  <2>3. 32 \in Int
    OBVIOUS
  <2> QED
    BY <2>1, <2>2, <2>3, Zenon
<1>6. answer = IF given < 0 THEN [err |-> "range", val |-> 0] ELSE [err |-> "", val |-> given]
  <2>1. ~(32 < 0)
    OBVIOUS
  <2> QED
    BY <1>1, <1>3, <1>4, <2>1, Zenon DEF resolveForwardMax
<1> HIDE DEF given
<1>7. answer = [err |-> IF given < 0 THEN "range" ELSE "", val |-> IF given < 0 THEN 0 ELSE given]
  BY <1>5, <1>6
<1> QED
  BY <1>7, Zenon DEF CapResolved, given

\* The part of SettingsResolved about the settings that are looked up and about the
\* forward cap, for any words and numbers: the flag decides over the variable and
\* the variable over the default, but for the empty values that the code passes over.
THEOREM SettingsLookedUp == Spec => [](LookupsResolved /\ CapResolved)
<1>1. Answered => LookupsResolved /\ CapResolved
  BY LookupAnswered, CapAnswered, Zenon DEF LookupsResolved, CapResolved
<1> QED
  BY <1>1, AnsweredHolds, PTL

=============================================================================
