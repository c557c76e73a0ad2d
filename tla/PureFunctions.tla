--------------------------- MODULE PureFunctions ----------------------------
(***************************************************************************)
(* The program's pure functions, each run on every input of a given set    *)
(* and compared with a reference definition.  A behaviour is one call: the *)
(* initial states enumerate the inputs and the one step is the return.     *)
(***************************************************************************)
EXTENDS Backoff, Payloads, Child, Settings, Logging

CONSTANTS
  Fns,       \* the functions of this run
  MaxCount,  \* bound: the largest fail count
  Strings,   \* SSH strings in a payload
  Sizes,     \* the four numbers of a window size
  Ports,     \* ports in a direct-tcpip payload
  Tails,     \* what a client sends after the last field
  Flips,     \* what a changed byte of a payload is changed to
  Statuses,  \* exit statuses of a child
  MaxChild,  \* bound: requests of a channel, and lines of the host's environment
  Words,     \* values of a flag or a variable
  Limits,    \* numbers given as the forward cap
  MaxRaw,    \* bound: lexemes in the value of --auth
  MaxText    \* bound: symbols in a logged value and in the password

ASSUME InputAssumption ==
  /\ MaxCount \in Nat
  /\ Strings \subseteq Seq(Byte) /\ \A s \in Strings : Len(s) \in Uint32s
  /\ Sizes \subseteq Uint32s \X Uint32s \X Uint32s \X Uint32s
  /\ Ports \subseteq Uint32s
  /\ Tails \subseteq Seq(Byte)
  /\ Flips \subseteq Byte
  /\ Statuses \subseteq Uint32s
  /\ MaxChild \in Nat
  /\ Words \subseteq STRING
  /\ Limits \subseteq Int

VARIABLES call, returned, answer

vars == <<call, returned, answer>>

-----------------------------------------------------------------------------
(***************************************************************************)
(* The inputs.                                                             *)
(***************************************************************************)
\* What a client sends: a well-formed payload and bytes after it, of which the
\* last `cut' are missing and the one at position `at' has another value.
Whole(c) == Marshal(c.req, c.values) \o c.tail

Sent(c) ==
  LET kept == SubSeq(Whole(c), 1, Len(Whole(c)) - c.cut)
  IN  IF c.at \in DOMAIN kept THEN [kept EXCEPT ![c.at] = c.byte] ELSE kept

Values(req) ==
  CASE req = "pty-req" ->
         {<<s, d[1], d[2], d[3], d[4], t>> : s \in Strings, d \in Sizes, t \in Strings}
    [] req = "window-change" -> Sizes
    [] req = "env" -> {<<s, t>> : s \in Strings, t \in Strings}
    [] req = "direct-tcpip" -> {<<s, n, t, 0>> : s \in Strings, n \in Ports, t \in Strings}
    [] req \in {"exec", "subsystem"} -> {<<s>> : s \in Strings}

Payload(req, v, tail, cut, at, byte) ==
  [fn |-> "parse", req |-> req, values |-> v, tail |-> tail, cut |-> cut, at |-> at,
   byte |-> byte]

\* A payload is cut or changed, not both.
IsPayload(c) ==
  \E req \in {"pty-req", "window-change", "env", "exec", "subsystem", "direct-tcpip"} :
    \E v \in Values(req), tail \in Tails :
      \E i \in 0 .. Len(Marshal(req, v) \o tail) :
        \/ c = Payload(req, v, tail, i, 0, 0)
        \/ \E byte \in Flips : c = Payload(req, v, tail, 0, i, byte)

Endings ==
  [fn : {"exit"}, how : {"signaled"}, code : 1 .. 31, core : BOOLEAN]
    \cup [fn : {"exit"}, how : {"exited"}, code : Statuses, core : {FALSE}]
    \cup [fn : {"exit"}, how : {"stopped"}, code : {19}, core : {FALSE}]

Children ==
  [fn : {"child"}, kind : {"shell", "exec"}, reqs : BoundedSeq(Requests, MaxChild),
   host : BoundedSeq(HostLines, MaxChild)]

Unset(v) == [set |-> FALSE, val |-> v]
Set(v) == [set |-> TRUE, val |-> v]
Sources(V, empty) == {Unset(empty)} \cup {Set(v) : v \in V}

Raws == BoundedSeq({" ", ",", "password", "publickey", "x"}, MaxRaw)
MethodLists ==
  [fn : {"methods"}, flag : Sources(Raws, <<>>), env : {Unset(<<>>), Set(<<"publickey">>)}]
    \cup [fn : {"methods"}, flag : {Unset(<<>>)}, env : Sources(Raws, <<>>)]

Lookups ==
  [fn : {"lookup"}, of : {"password", "username", "keys", "format"},
   flag : Sources(Words, ""), env : Sources(Words, ""), third : Words, fourth : Words]

Caps == [fn : {"forwardMax"}, flag : Sources(Limits, -1), env : Sources(Limits, 0)]

Lines ==
  [fn : {"log"}, format : {"logfmt", "json"}, event : DOMAIN Events,
   text : BoundedSeq({"a", " ", "=", "<", "\"", "\\", Newline, Bad}, MaxText),
   password : BoundedSeq({"a", "<", "\"", "\\", Newline, Bad}, MaxText),
   seconds : {<<"7">>, <<"7", ".", "5">>}]

IsInput(c) ==
  \/ "delay" \in Fns /\ c \in [fn : {"delay"}, n : 0 .. MaxCount]
  \/ "parse" \in Fns /\ IsPayload(c)
  \/ "exit" \in Fns /\ c \in Endings
  \/ "child" \in Fns /\ c \in Children
  \/ "methods" \in Fns /\ c \in MethodLists
  \/ "lookup" \in Fns /\ c \in Lookups
  \/ "forwardMax" \in Fns /\ c \in Caps
  \/ "log" \in Fns /\ c \in Lines

Init == returned = FALSE /\ answer = <<>> /\ IsInput(call)

-----------------------------------------------------------------------------
Calls(fn) == ~returned /\ call.fn = fn /\ returned' = TRUE /\ UNCHANGED call

Delay ==
  Calls("delay") /\ answer' = [imposed |-> computeDelay(call.n), announced |-> nextDelay(call.n)]

ParsePayload == Calls("parse") /\ answer' = Parsed(call.req, Sent(call))

SendExit == Calls("exit") /\ answer' = sendExit(call)

Prepared(c) ==
  LET st == Received(c.reqs)
  IN  IF c.kind = "shell" THEN prepareShell(st, c.host) ELSE prepareExec(st, "command", c.host)

Prepare == Calls("child") /\ answer' = Prepared(call)

Methods == Calls("methods") /\ answer' = ResolveMethods(call.flag, call.env)

LookedUp(c) ==
  CASE c.of = "password" -> ResolvePasswordStrict(c.flag, c.env)
    [] c.of = "username" -> ResolveUsername(c.flag.val, c.env.val, c.third)
    [] c.of = "keys" -> ResolveAuthorizedKeysPath(c.flag, c.env, c.third, c.fourth)
    [] c.of = "format" -> ParseFormat(c.flag, c.env)

Lookup == Calls("lookup") /\ answer' = LookedUp(call)

ForwardMax ==
  Calls("forwardMax") /\ answer' = resolveForwardMax(call.flag.val, call.flag.set, call.env)

Logged(c) == Fields(c.event, c.text, "7", c.seconds)

Log ==
  Calls("log") /\ answer' = emit(call.format, call.password, call.event, Logged(call))

Next ==
  \/ Delay \/ ParsePayload \/ SendExit \/ Prepare
  \/ Methods \/ Lookup \/ ForwardMax \/ Log

Spec == Init /\ [][Next]_vars

Returned(fn) == returned /\ call.fn = fn

-----------------------------------------------------------------------------
(***************************************************************************)
(* The backoff formula.                                                    *)
(***************************************************************************)
\* k seconds in nanoseconds, for a small k.
Seconds(k) ==
  LET low == k * Second[1]
      high == k * Second[2] + (low \div Limb)
  IN  <<low % Limb, high % Limb, high \div Limb, 0>>

\* SPEC section 5: 0 for no failures, then min(60 s, 2^(n-1) s).
Documented(n) == Seconds(IF n = 0 THEN 0 ELSE IF n > 6 THEN 60 ELSE PowerOfTwo(n - 1))

\* The counts whose product is a multiple of 2^64: 10^9 has nine factors of
\* two, so (1 << 55) * 10^9 and its doubles wrap to zero.
WrapsToZero == 56 .. 63

\* computeDelay saturates: once at 60 s it stays there ("60s, 60s, ...").
DelayAsDocumented == Returned("delay") => answer.imposed = Documented(call.n)

\* The delay auth-fail announces (nextDelay) is the one the next Acquire
\* imposes (computeDelay), for every count; and it follows the documented
\* table for every count before the product wraps to zero and past the
\* exponent cap, though the product overflows int64 from count 35 on.
DelayAnnounced ==
  Returned("delay") =>
    /\ answer.announced = answer.imposed
    /\ call.n \notin WrapsToZero => answer.imposed = Documented(call.n)

-----------------------------------------------------------------------------
(***************************************************************************)
(* Payloads.                                                               *)
(***************************************************************************)
\* The request parsers of helpers.go accept a payload exactly when it holds all
\* its fields, give those fields back, and read nothing that was not sent, also
\* when a length prefix is wrong; bytes after the last field are ignored.
\* parseDirectTCPIP takes no bytes after it and no port outside 1 .. 65535.  From
\* the request sendExit makes, a client that reads it field by field gets the
\* child's status, or its signal, an unnamed one included.
WireExact ==
  /\ Returned("parse") =>
       /\ answer.ok => IsPrefix(Marshal(call.req, answer.values), Sent(call))
       /\ call.at = 0 =>
            /\ answer.ok <=> IF call.req = "direct-tcpip"
                             THEN call.cut = Len(call.tail) /\ call.values[2] \in PortNumbers
                             ELSE call.cut <= Len(call.tail)
            /\ answer.ok => answer.values = call.values
  /\ Returned("exit") /\ answer.type = "exit-status" =>
       /\ call.how # "signaled"
       /\ TakeUint32(Start(answer.payload)) =
            [ok |-> TRUE, rest |-> <<>>,
             values |-> <<IF call.how = "exited" THEN call.code ELSE 0>>]
  /\ Returned("exit") /\ answer.type = "exit-signal" =>
       LET name == readSSHString(answer.payload)
           after == Message(answer.payload)
       IN  /\ call.how = "signaled"
           /\ name.ok /\ after.ok /\ after.rest = <<>>
           /\ name.rest[1] = (IF call.core THEN 1 ELSE 0)
           /\ call.code = IF after.values[1] = <<>> THEN name.value[1] ELSE after.values[1][2]

-----------------------------------------------------------------------------
(***************************************************************************)
(* The child.                                                              *)
(***************************************************************************)
\* The requests for a name, and the host's lines for it, that count.
Asked(k) ==
  {i \in DOMAIN call.reqs : LET r == call.reqs[i]
                            IN  FromChannel(k) /\ r.type = "env" /\ r.ok /\ r.name = k}
Inherited(k) == {i \in DOMAIN call.host : Gives(call.host[i], k)}

PtyRequests == {i \in DOMAIN call.reqs : call.reqs[i].type = "pty-req" /\ call.reqs[i].ok}

\* The child has TERM, and with the value of its pty-req, exactly when it has a
\* PTY (SPEC section 8.1).
TermIffPty ==
  Returned("child") =>
    /\ <<"TERM">> \in DOMAIN answer.env <=> PtyRequests # {}
    /\ PtyRequests # {} => answer.env[<<"TERM">>] = call.reqs[Min(PtyRequests)].term

\* The child's environment has the host's variables on the list, the last line
\* for a name winning, the channel's last value over them for LANG and LC_*,
\* and nothing else but TERM.  If the first PTY names a terminal TERM is that, and
\* without a PTY there is none: neither the host's TERM nor one sent as an env
\* request gets through.  The command line makes a shell a login shell and an
\* exec interactive exactly when there is a PTY (buildEnv, prepareShell,
\* prepareExec).
ChildPrepared ==
  Returned("child") =>
    LET rest == DOMAIN answer.env \ {<<"TERM">>}
        unnamed == PtyRequests # {} /\ call.reqs[Min(PtyRequests)].term = <<>>
    IN  /\ ~unnamed => TermIffPty
        /\ rest = {k \in Variables : Asked(k) \cup Inherited(k) # {}}
        /\ \A k \in rest :
             answer.env[k] =
               IF Asked(k) # {} THEN call.reqs[Max(Asked(k))].value
               ELSE LET kv == call.host[Max(Inherited(k))]
                    IN  SubSeq(kv, Len(k) + 2, Len(kv))
        /\ (answer.args[1] = "-shell") <=> call.kind = "shell"
        /\ Contains(answer.args, "-i") <=> (call.kind = "exec" /\ PtyRequests # {})

-----------------------------------------------------------------------------
(***************************************************************************)
(* Settings.                                                               *)
(***************************************************************************)
Lists ==
  {<<MethodPassword>>, <<MethodPublickey>>, <<MethodPassword, MethodPublickey>>,
   <<MethodPublickey, MethodPassword>>}

\* The list of methods.
MethodsResolved ==
  Returned("methods") =>
    LET raw == IF call.flag.set THEN call.flag.val ELSE call.env.val
        bare == SelectSeq(raw, LAMBDA c : c # " ")
        meant == {m \in Lists : MethodsString(m) = bare}
    IN  IF ~call.flag.set /\ ~call.env.set THEN answer.val = <<MethodPassword>>
        ELSE /\ answer.err = "" <=> meant # {}
             /\ answer.err = "" => answer.val \in meant

\* The value that was given, if one was.
Given ==
  IF call.flag.set THEN {call.flag.val} ELSE IF call.env.set THEN {call.env.val} ELSE {}

\* What is used when none was; a password is generated then.
Fallback ==
  CASE call.of = "password" -> ""
    [] call.of = "username" -> call.third
    [] call.of = "keys" -> IF call.third # "" THEN call.third ELSE call.fourth
    [] call.of = "format" -> "logfmt"

\* The value in use, and whether it will do.
Used == IF Given = {} THEN Fallback ELSE CHOOSE v \in Given : TRUE
Valid ==
  CASE call.of = "password" -> Given # {""}
    [] call.of = "format" -> Used \in {"logfmt", "json"}
    [] OTHER -> Used # ""

\* The password, the username, the keys path and the log format: a value that was
\* given decides, an empty one included (SPEC section 2, steps 2 to 3a).
GivenDecides ==
  Returned("lookup") =>
    (answer.err = "" <=> Valid) /\ (answer.err = "" => answer.val = Used)

\* An empty value that the code takes for none at all.
EmptyIgnored ==
  Given = {""} /\ (call.of \in {"username", "keys"} \/ (call.of = "format" /\ ~call.flag.set))

LookupsResolved == Returned("lookup") /\ ~EmptyIgnored => GivenDecides

\* The forward cap.
CapResolved ==
  Returned("forwardMax") =>
    LET given == IF call.flag.set THEN call.flag.val
                 ELSE IF call.env.set THEN call.env.val ELSE 32
    IN  answer = [err |-> IF given < 0 THEN "range" ELSE "",
                  val |-> IF given < 0 THEN 0 ELSE given]

\* A flag that was given decides, whatever the environment says, and so does an
\* environment variable over the default; an empty --user, --authorized-keys or
\* variable of theirs and an empty MINISSHD_LOG_FORMAT, which the code passes over,
\* are left out.  A list of methods is accepted exactly when it is, but for spaces,
\* one of the four documented lists, and its order is kept.  An empty value is an
\* error for the password, the methods and --log-format.
SettingsResolved == MethodsResolved /\ LookupsResolved /\ CapResolved

-----------------------------------------------------------------------------
(***************************************************************************)
(* Log lines, read back.                                                   *)
(***************************************************************************)
Occurs(s, line) ==
  \E i \in 0 .. Len(line) - Len(s) : SubSeq(line, i + 1, i + Len(s)) = s

Token(kind, text) == [kind |-> kind, text |-> text]

\* The tokens of a line: quoted strings, separators and what is bare.
Lex(line, separators, bareKind, Unescape(_)) ==
  LET Flush(r) == IF r.text = <<>> THEN r.tokens ELSE Append(r.tokens, Token(bareKind, r.text))
      Read(r, c) ==
        CASE r.mode = "bare" /\ c = "\"" -> [r EXCEPT !.mode = "string"]
          [] r.mode = "bare" /\ c \in separators ->
               [mode |-> "bare", text |-> <<>>, tokens |-> Append(Flush(r), Token("sep", <<c>>))]
          [] r.mode = "string" /\ c = "\"" ->
               [mode |-> "bare", text |-> <<>>,
                tokens |-> Append(r.tokens, Token("string", r.text))]
          [] r.mode = "string" /\ c = "\\" -> [r EXCEPT !.mode = "escape"]
          [] r.mode = "escape" -> [r EXCEPT !.mode = "string", !.text = Append(@, Unescape(c))]
          [] OTHER -> [r EXCEPT !.text = Append(@, c)]
      scan[st \in [i : Nat, r : [mode : STRING, text : Seq(STRING),
                                 tokens : Seq([kind : STRING, text : Seq(STRING)])]]] ==
        IF st.i > Len(line) THEN st.r.tokens
        ELSE scan[[i |-> st.i + 1, r |-> Read(st.r, line[st.i])]]
  IN  scan[[i |-> 1, r |-> [mode |-> "bare", text |-> <<>>, tokens |-> <<>>]]]

ReadLogfmt(line) == Lex(line, {" ", "=", Newline}, "string", LAMBDA c : c)
ReadJSON(line) ==
  Lex(line, {"{", "}", ",", ":", Newline}, "number",
      LAMBDA c : CASE c = "n" -> Newline
                   [] c = "u003c" -> "<"
                   [] c = "ufffd" -> Replacement
                   [] OTHER -> c)

Text(s) == Token("string", s)
Sep(c) == Token("sep", <<c>>)

LogfmtTokens(c, fields) ==
  <<Text(<<"ts">>), Sep(" "), Text(<<Events[c.event].level>>), Sep(" "), Text(<<c.event>>)>>
    \o FlattenSeq([i \in DOMAIN fields |->
         <<Sep(" "), Text(<<fields[i].key>>), Sep("="), Text(fields[i].value)>>])
    \o <<Sep(Newline)>>

\* The members of the JSON object after the three of the envelope.
JSONValue(f) ==
  CASE f.kind = "str" -> Text([i \in DOMAIN f.value |->
                                 IF f.value[i] = Bad THEN Replacement ELSE f.value[i]])
    [] f.kind = "int" -> Token("number", f.value)
    [] f.kind = "dur" -> Token("number", IF Len(f.seconds) = 1 THEN f.seconds \o <<".", "0">>
                                         ELSE f.seconds)

JSONTokens(fields) ==
  {<<Text(<<f.key>>), Sep(":"), JSONValue(f), Sep(",")>> : f \in ToSet(fields)}

Envelope(c) ==
  <<Sep("{"), Text(<<"ts">>), Sep(":"), Text(<<"ts">>), Sep(","),
    Text(<<"level">>), Sep(":"), Text(<<Events[c.event].level>>), Sep(","),
    Text(<<"event">>), Sep(":"), Text(<<c.event>>), Sep(",")>>

\* A newline ends the line and occurs nowhere else in it.
OneLine(line) == \A i \in DOMAIN line : line[i] = Newline <=> i = Len(line)

\* Every event is one line, terminated by a single newline (SPEC section 9).
OneEventPerLine == Returned("log") /\ call.password = <<>> => OneLine(answer)

\* An event from which nothing was scrubbed is one line, which reads back as
\* exactly the fields of the event, the members of a JSON object in the order of
\* their keys and with U+FFFD for a byte that is not UTF-8; in logfmt, which
\* writes a newline as it is, as long as no value holds one.  No line holds the
\* password, as it is or JSON-escaped; and no string read from a JSON line holds
\* it either, however the scrub has cut the line (encodeLogfmt, encodeJSON, emit).
LineFaithful ==
  Returned("log") =>
    LET fields == Logged(call)
        encoded == Encode(call.format, call.event, fields)
        forms == ToSet(Scrubs(call.password))
        json == ReadJSON(answer)
        members == [i \in DOMAIN fields |->
                      SubSeq(json, 14 + 4 * (i - 1), 17 + 4 * (i - 1))]
    IN  /\ \A s \in forms : ~Occurs(s, answer)
        /\ call.format = "json" /\ call.password # <<>> =>
             \A i \in DOMAIN json : ~Occurs(call.password, json[i].text)
        /\ (\A s \in forms : ~Occurs(s, encoded)) =>
             IF call.format = "logfmt"
             THEN ~Contains(call.text, Newline)
                    => OneLine(answer) /\ ReadLogfmt(answer) = LogfmtTokens(call, fields)
             ELSE /\ OneLine(answer)
                  /\ IsPrefix(Envelope(call), json)
                  /\ Len(json) = 13 + 4 * Len(fields) + 1
                  /\ json[Len(json)] = Sep(Newline) /\ json[Len(json) - 1] = Sep("}")
                  /\ {[m EXCEPT ![4] = Sep(",")] : m \in ToSet(members)} = JSONTokens(fields)
                  /\ \A i, j \in DOMAIN fields :
                       i < j => Rank(members[i][1].text[1]) < Rank(members[j][1].text[1])

=============================================================================
