-------------------------------- MODULE Wire --------------------------------
(***************************************************************************)
(* The payloads of channel requests (internal/session/helpers.go) and of   *)
(* direct-tcpip channels (internal/server/forward.go).  A byte is a        *)
(* number, a payload and an SSH string are sequences of bytes, and a       *)
(* uint32 is a number: inputs stay below 2^31, the range of TLC's own      *)
(* integers.                                                               *)
(***************************************************************************)
EXTENDS Integers, Sequences

Byte == 0 .. 255
Uint32s == {n \in Nat : n \div 16777216 < 256}

\* binary.BigEndian.Uint32 and PutUint32.
Uint32(b) == 16777216 * b[1] + 65536 * b[2] + 256 * b[3] + b[4]
PutUint32(n) ==
  <<(n \div 16777216) % 256, (n \div 65536) % 256, (n \div 256) % 256, n % 256>>

Malformed(b) == [ok |-> FALSE, value |-> <<>>, rest |-> b]

\* Mutant: the length prefix is compared with the whole remaining payload.
readSSHStringLoose(b) ==
  IF Len(b) < 4 \/ Len(b) < Uint32(b) THEN Malformed(b)
  ELSE LET end == 4 + Uint32(b)
       IN  [ok |-> TRUE, value |-> SubSeq(b, 5, IF end > Len(b) THEN Len(b) ELSE end),
            rest |-> SubSeq(b, end + 1, Len(b))]

\* A length-prefixed string and what follows it.
readSSHString(b) ==
  IF Len(b) < 4 \/ Len(b) - 4 < Uint32(b) THEN Malformed(b)
  ELSE LET end == 4 + Uint32(b)
       IN  [ok |-> TRUE, value |-> SubSeq(b, 5, end), rest |-> SubSeq(b, end + 1, Len(b))]

\* A big-endian uint32 and what follows it.
readUint32(b) ==
  IF Len(b) < 4 THEN Malformed(b)
  ELSE [ok |-> TRUE, value |-> Uint32(b), rest |-> SubSeq(b, 5, Len(b))]

\* A parser reads field after field, up to the first malformed one.
Start(payload) == [ok |-> TRUE, values |-> <<>>, rest |-> payload]
Taken(r, f) == [ok |-> f.ok, values |-> Append(r.values, f.value), rest |-> f.rest]
TakeString(r) == IF r.ok THEN Taken(r, readSSHString(r.rest)) ELSE r
TakeUint32(r) == IF r.ok THEN Taken(r, readUint32(r.rest)) ELSE r
TakeSize(r) == TakeUint32(TakeUint32(TakeUint32(TakeUint32(r))))

parsePtyReq(payload) == TakeString(TakeSize(TakeString(Start(payload))))
parseWindowChange(payload) == TakeSize(Start(payload))
parseEnvReq(payload) == TakeString(TakeString(Start(payload)))
parseExecCommand(payload) == TakeString(Start(payload))
parseSubsystemName(payload) == TakeString(Start(payload))

PortNumbers == 1 .. 65535

\* parseDirectTCPIP: ssh.Unmarshal leaves nothing over, and the port is one.
parseDirectTCPIP(data) ==
  LET p == TakeUint32(TakeString(TakeUint32(TakeString(Start(data)))))
  IN  [p EXCEPT !.ok = p.ok /\ p.rest = <<>> /\ p.values[2] \in PortNumbers]

-----------------------------------------------------------------------------
appendSSHString(dst, s) == dst \o PutUint32(Len(s)) \o s

exitStatusPayload(code) == PutUint32(code)

exitSignalPayload(sigName, coreDumped, errMsg) ==
  LET name == appendSSHString(<<>>, sigName)
      core == Append(name, IF coreDumped THEN 1 ELSE 0)
  IN  appendSSHString(appendSSHString(core, errMsg), <<>>)

\* The signals with an SSH name, HUP to USR2, by their Linux numbers.  A name
\* is one byte here, the number of its signal, and the message of an unmapped
\* signal is that number after a zero byte.
Named == {1, 2, 3, 4, 6, 8, 9, 10, 11, 12, 13, 14, 15}
SIGTERM == 15

signalName(sig) ==
  IF sig \in Named THEN [name |-> <<sig>>, errorMessage |-> <<>>]
  ELSE [name |-> <<SIGTERM>>, errorMessage |-> <<0, sig>>]

\* sendExit: the request that tells the client how the child ended.  A child
\* that was stopped, or has no ProcessState, is reported as status 0.
sendExit(ps) ==
  IF ps.how = "signaled"
  THEN LET s == signalName(ps.code)
       IN  [type |-> "exit-signal",
            payload |-> exitSignalPayload(s.name, ps.core, s.errorMessage)]
  ELSE [type |-> "exit-status",
        payload |-> exitStatusPayload(IF ps.how = "exited" THEN ps.code ELSE 0)]

=============================================================================
