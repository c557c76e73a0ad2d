------------------------------ MODULE Payloads ------------------------------
(***************************************************************************)
(* The other side of the wire: how a client writes the payloads that the   *)
(* parsers of Wire read, and how it reads the ones that sendExit writes.   *)
(***************************************************************************)
EXTENDS Wire

String(s) == PutUint32(Len(s)) \o s
Size(a, b, c, d) == PutUint32(a) \o PutUint32(b) \o PutUint32(c) \o PutUint32(d)

Marshal(req, v) ==
  CASE req = "pty-req" -> String(v[1]) \o Size(v[2], v[3], v[4], v[5]) \o String(v[6])
    [] req = "window-change" -> Size(v[1], v[2], v[3], v[4])
    [] req = "env" -> String(v[1]) \o String(v[2])
    [] req = "direct-tcpip" ->
         String(v[1]) \o PutUint32(v[2]) \o String(v[3]) \o PutUint32(v[4])
    [] req \in {"exec", "subsystem"} -> String(v[1])

\* What the server makes of a payload.
Parsed(req, payload) ==
  CASE req = "pty-req" -> parsePtyReq(payload)
    [] req = "window-change" -> parseWindowChange(payload)
    [] req = "env" -> parseEnvReq(payload)
    [] req = "exec" -> parseExecCommand(payload)
    [] req = "subsystem" -> parseSubsystemName(payload)
    [] req = "direct-tcpip" -> parseDirectTCPIP(payload)

\* What is left of an exit-signal payload after the name and the core flag.
Message(payload) ==
  LET name == readSSHString(payload) IN TakeString(TakeString(Start(Tail(name.rest))))

=============================================================================
