------------------------------ MODULE Settings ------------------------------
(***************************************************************************)
(* How a setting is resolved from its flag and its environment variable    *)
(* (internal/auth/resolve.go, internal/logging/format.go and               *)
(* resolveForwardMax in cmd/minisshd/main.go).  A source is a record       *)
(* [set, val]; what is not set has the empty value, as flag.String and     *)
(* os.LookupEnv give it.  An answer is a record [err, val].                *)
(***************************************************************************)
EXTENDS Integers, SequencesExt, FiniteSetsExt

OK(v) == [err |-> "", val |-> v]
Err(e) == [err |-> e, val |-> ""]

-----------------------------------------------------------------------------
\* strings.TrimSpace and strings.Split on ",", on a sequence of lexemes.
TrimSpace(s) ==
  LET kept == {i \in DOMAIN s : s[i] # " "}
  IN  IF kept = {} THEN <<>> ELSE SubSeq(s, Min(kept), Max(kept))

Split(s) ==
  FoldLeft(LAMBDA toks, c : IF c = "," THEN Append(toks, <<>>)
                            ELSE [toks EXCEPT ![Len(toks)] = Append(@, c)],
           << <<>> >>, s)

MethodPassword == <<"password">>
MethodPublickey == <<"publickey">>

\* One token of the list: an error ends the loop, a method is appended.
AddMethod(r, token) ==
  LET tok == TrimSpace(token)
  IN  IF r.err # "" THEN r
      ELSE IF tok = <<>> THEN [r EXCEPT !.err = "empty"]
      ELSE IF tok \notin {MethodPassword, MethodPublickey} THEN [r EXCEPT !.err = "unknown"]
      ELSE IF tok \in Range(r.val) THEN [r EXCEPT !.err = "duplicate"]
      ELSE [r EXCEPT !.val = Append(@, tok)]

\* Mutant: an empty --auth falls through to the environment.
ResolveMethodsLenient(flag, env) ==
  IF ~flag.set /\ ~env.set THEN [err |-> "", val |-> <<MethodPassword>>]
  ELSE LET raw == TrimSpace(IF flag.set /\ flag.val # <<>> THEN flag.val ELSE env.val)
       IN  IF raw = <<>> THEN [err |-> "empty", val |-> <<>>]
           ELSE FoldLeft(AddMethod, [err |-> "", val |-> <<>>], Split(raw))

\* ResolveMethods.  On an error the caller discards the list.
ResolveMethods(flag, env) ==
  IF ~flag.set /\ ~env.set THEN [err |-> "", val |-> <<MethodPassword>>]
  ELSE LET raw == TrimSpace(IF flag.set THEN flag.val ELSE env.val)
       IN  IF raw = <<>> THEN [err |-> "empty", val |-> <<>>]
           ELSE FoldLeft(AddMethod, [err |-> "", val |-> <<>>], Split(raw))

\* Methods.String.
MethodsString(methods) ==
  FoldLeft(LAMBDA s, m : IF s = <<>> THEN m ELSE s \o <<",">> \o m, <<>>, methods)

-----------------------------------------------------------------------------
\* ResolveAuthorizedKeysPath; `home' is "" when the home directory is unknown.
ResolveAuthorizedKeysPath(flag, env, xdg, home) ==
  IF flag.set /\ flag.val # "" THEN OK(flag.val)
  ELSE IF env.set /\ env.val # "" THEN OK(env.val)
  ELSE IF xdg # "" THEN OK(xdg)
  ELSE IF home # "" THEN OK(home)
  ELSE Err("home")

\* ResolvePasswordStrict; OK("") makes the caller generate a password.
ResolvePasswordStrict(flag, env) ==
  IF flag.set THEN IF flag.val = "" THEN Err("empty") ELSE OK(flag.val)
  ELSE IF env.set THEN IF env.val = "" THEN Err("empty") ELSE OK(env.val)
  ELSE OK("")

\* ResolveUsername: the first that is not empty.
ResolveUsername(flagUser, envUser, osUser) ==
  IF flagUser # "" THEN OK(flagUser)
  ELSE IF envUser # "" THEN OK(envUser)
  ELSE IF osUser # "" THEN OK(osUser)
  ELSE Err("empty")

parseFormatString(s) == IF s \in {"logfmt", "json"} THEN OK(s) ELSE Err("unknown")

\* ParseFormat: the flag counts even if empty, the variable only if not.
ParseFormat(flag, env) ==
  IF flag.set THEN parseFormatString(flag.val)
  ELSE IF env.set /\ env.val # "" THEN parseFormatString(env.val)
  ELSE OK("logfmt")

\* resolveForwardMax.  The variable is set when it is not empty, and its value
\* is what strconv.Atoi makes of it, -1 if it is no number.
resolveForwardMax(flagValue, flagSet, env) ==
  IF flagSet THEN IF flagValue < 0 THEN [err |-> "range", val |-> 0]
                  ELSE [err |-> "", val |-> flagValue]
  ELSE IF env.set THEN IF env.val < 0 THEN [err |-> "range", val |-> 0]
                       ELSE [err |-> "", val |-> env.val]
  ELSE [err |-> "", val |-> 32]

=============================================================================
