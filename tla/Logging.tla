------------------------------ MODULE Logging -------------------------------
(***************************************************************************)
(* The log lines (internal/logging).  A line and a value are sequences of  *)
(* symbols: a key, a level, the name of an event, the timestamp, a run of  *)
(* plain characters and [REDACTED] are one symbol each, the characters     *)
(* that the encoders treat specially are symbols of their own.  "<" stands *)
(* for every character that JSON escapes by its code and logfmt leaves     *)
(* alone (<, >, & and control characters), Bad for a byte that is not      *)
(* UTF-8.  A tab and a carriage return are to logfmt what a space is, and  *)
(* to JSON what a newline is.  That [REDACTED] is one symbol leaves out    *)
(* passwords that share characters with it.                                *)
(***************************************************************************)
EXTENDS Integers, SequencesExt, TLC

Redacted == "[REDACTED]"
Newline == "\n"
Bad == "bad"
Replacement == "U+FFFD"

E(level, keys) == [level |-> level, keys |-> keys]

\* The event methods: the level and the fields of each event.
Events ==
  [listening |-> E("INFO", <<"bind", "port", "fingerprint", "user", "pid", "auth_methods",
                             "pubkey_count">>),
   connOpen |-> E("INFO", <<"remote">>),
   connClose |-> E("INFO", <<"remote", "duration">>),
   authOK |-> E("INFO", <<"remote", "user", "method", "fingerprint">>),
   authFail |-> E("WARN", <<"remote", "user", "method", "reason", "attempt", "next_delay",
                            "fingerprint">>),
   session |-> E("INFO", <<"remote", "kind">>),
   reject |-> E("WARN", <<"remote", "what">>),
   shutdownSignal |-> E("INFO", <<"pgid", "sig", "reason">>),
   drainTimeout |-> E("WARN", <<"remote", "kind", "bytes_dropped">>),
   error |-> E("ERROR", <<"message", "remote">>),
   pubkeyParseError |-> E("WARN", <<"path", "line", "error">>),
   pubkeyOptionIgnored |-> E("WARN", <<"path", "line", "option">>),
   pubkeyKeysMissing |-> E("WARN", <<"path">>),
   pubkeyReloadOK |-> E("INFO", <<"path", "pubkey_count">>),
   pubkeyReloadFailed |-> E("WARN", <<"path", "error">>),
   forwardOpen |-> E("INFO", <<"remote", "dest_host", "dest_port", "originator_host",
                               "originator_port">>),
   forwardClose |-> E("INFO", <<"remote", "dest_host", "dest_port", "bytes_in", "bytes_out",
                                "duration">>),
   forwardReject |-> E("WARN", <<"remote", "dest_host", "dest_port", "reason">>)]

\* The field an event leaves out when it is empty.
Optional == {<<"authOK", "fingerprint">>, <<"authFail", "fingerprint">>, <<"error", "remote">>}

\* strField, intField and durField.  A string is `text'; a number is one symbol,
\* and a duration has its logfmt form and its seconds.
Field(key, text, number, seconds) ==
  CASE key \in {"port", "pid", "pubkey_count", "attempt", "pgid", "bytes_dropped", "line",
                "dest_port", "originator_port", "bytes_in", "bytes_out"}
         -> [key |-> key, kind |-> "int", value |-> <<number>>, seconds |-> <<>>]
    [] key \in {"duration", "next_delay"}
         -> [key |-> key, kind |-> "dur", value |-> <<number, "s">>, seconds |-> seconds]
    [] OTHER
         -> [key |-> key, kind |-> "str", value |-> text, seconds |-> <<>>]

Fields(event, text, number, seconds) ==
  LET keys == SelectSeq(Events[event].keys,
                        LAMBDA k : ~(text = <<>> /\ <<event, k>> \in Optional))
  IN  [i \in DOMAIN keys |-> Field(keys[i], text, number, seconds)]

-----------------------------------------------------------------------------
(***************************************************************************)
(* The two encodings.                                                      *)
(***************************************************************************)
\* What json.Marshal makes of one symbol of a string: a byte that is not UTF-8
\* is lost, the replacement character is written for it.
Escape(c) ==
  CASE c \in {"\"", "\\"} -> <<"\\", c>>
    [] c = Newline -> <<"\\", "n">>
    [] c = "<" -> <<"\\", "u003c">>
    [] c = Bad -> <<"\\", "ufffd">>
    [] OTHER -> <<c>>

Escaped(s) == FlattenSeq([i \in DOMAIN s |-> Escape(s[i])])

needsQuoting(value) ==
  value = <<>> \/ \E i \in DOMAIN value : value[i] \in {" ", Newline, "=", "\""}

\* Mutant: only the quote is escaped.
writeValueQuoteOnly(value) ==
  IF needsQuoting(value)
  THEN <<"\"">> \o FlattenSeq([i \in DOMAIN value |->
         IF value[i] = "\"" THEN <<"\\", value[i]>> ELSE <<value[i]>>]) \o <<"\"">>
  ELSE value

writeValue(value) ==
  IF needsQuoting(value)
  THEN <<"\"">> \o FlattenSeq([i \in DOMAIN value |->
         IF value[i] \in {"\"", "\\"} THEN <<"\\", value[i]>> ELSE <<value[i]>>]) \o <<"\"">>
  ELSE value

encodeLogfmt(level, event, fields) ==
  <<"ts", " ", level, " ", event>>
    \o FlattenSeq([i \in DOMAIN fields |->
         <<" ", fields[i].key, "=">> \o writeValue(fields[i].value)])
    \o <<Newline>>

writeJSONString(s) == <<"\"">> \o Escaped(s) \o <<"\"">>

\* A number is bare; a duration is written in seconds, with a fraction.
writeJSONField(f) ==
  writeJSONString(<<f.key>>) \o <<":">>
    \o CASE f.kind = "str" -> writeJSONString(f.value)
         [] f.kind = "int" -> f.value
         [] f.kind = "dur" -> f.seconds \o (IF Contains(f.seconds, ".") THEN <<>> ELSE <<".", "0">>)

\* The keys in alphabetical order.
Alphabetical ==
  <<"attempt", "auth_methods", "bind", "bytes_dropped", "bytes_in", "bytes_out",
    "dest_host", "dest_port", "duration", "error", "fingerprint", "kind", "line",
    "message", "method", "next_delay", "option", "originator_host",
    "originator_port", "path", "pgid", "pid", "port", "pubkey_count", "reason",
    "remote", "sig", "user", "what">>

Rank(key) == CHOOSE i \in DOMAIN Alphabetical : Alphabetical[i] = key

Sorted(fields) == SortSeq(fields, LAMBDA f, g : Rank(f.key) < Rank(g.key))

encodeJSON(level, event, fields) ==
  LET envelope == [i \in 1 .. 3 |->
        [key |-> <<"ts", "level", "event">>[i], kind |-> "str",
         value |-> <<<<"ts">>, <<level>>, <<event>>>>[i]]]
      all == envelope \o Sorted(fields)
  IN  <<"{">> \o FlattenSeq([i \in DOMAIN all |->
                   (IF i > 1 THEN <<",">> ELSE <<>>) \o writeJSONField(all[i])])
        \o <<"}", Newline>>

Encode(format, event, fields) ==
  IF format = "json" THEN encodeJSON(Events[event].level, event, fields)
  ELSE encodeLogfmt(Events[event].level, event, fields)

-----------------------------------------------------------------------------
(***************************************************************************)
(* The scrub.                                                              *)
(***************************************************************************)
\* New: the password as it is, and as it looks inside a JSON string.
Scrubs(password) ==
  IF password = <<>> THEN <<>>
  ELSE IF Escaped(password) = password THEN <<password>>
  ELSE <<password, Escaped(password)>>

\* bytes.ReplaceAll, from the left and without overlaps.
Replaced(line, s) ==
  LET scan[st \in [rest : Seq(STRING), out : Seq(STRING)]] ==
        IF st.rest = <<>> THEN st.out
        ELSE IF IsPrefix(s, st.rest)
        THEN scan[[rest |-> SubSeq(st.rest, Len(s) + 1, Len(st.rest)),
                   out |-> Append(st.out, Redacted)]]
        ELSE scan[[rest |-> Tail(st.rest), out |-> Append(st.out, Head(st.rest))]]
  IN  scan[[rest |-> line, out |-> <<>>]]

\* emit: the line that is written, in one Write under the logger's mutex.
emit(format, password, event, fields) ==
  FoldLeft(Replaced, Encode(format, event, fields), Scrubs(password))

=============================================================================
