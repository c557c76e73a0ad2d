------------------------------- MODULE Child --------------------------------
(***************************************************************************)
(* What a shell or exec child is started with (internal/session): the      *)
(* requests before the spawn leave a sessionState behind, and prepareShell *)
(* and prepareExec make the command line and the environment from it.      *)
(*                                                                         *)
(* A name is a sequence of pieces and a line of the host's environment a   *)
(* sequence of pieces in which "=" may occur anywhere, so that <<"LC_">>   *)
(* is the bare prefix and <<"LC_", "ALL">> a name that has it.             *)
(***************************************************************************)
EXTENDS Integers, Sequences, FiniteSetsExt

CONSTANTS
  Names,      \* names in an env request
  EnvValues,  \* values in an env request
  Terms,      \* values of TERM in a pty-req
  HostLines   \* lines of the host's environment

Nil == <<"nil">>              \* no PTY
EmptyMap == [k \in {} |-> <<>>]

ASSUME ChildAssumption ==
  Names \subseteq Seq(STRING) /\ HostLines \subseteq Seq(STRING) /\ Nil \notin Terms

\* The requests of a channel that leave something behind for its child.
Requests ==
  [type : {"pty-req"}, ok : BOOLEAN, term : Terms]
    \cup [type : {"env"}, ok : BOOLEAN, name : Names, value : EnvValues]

\* Mutant: the prefix alone counts as a name.
filterEnvPrefix(name) == name = <<"LANG">> \/ (Len(name) > 0 /\ name[1] = "LC_")

\* LANG, or LC_ and something after it.
filterEnv(name) == name = <<"LANG">> \/ (Len(name) > 1 /\ name[1] = "LC_")

\* The position of the first "=", 0 if there is none.
indexEqual(s) ==
  LET at == {i \in DOMAIN s : s[i] = "="} IN IF at = {} THEN 0 ELSE Min(at)

\* m[k] = v on a Go map.
Assign(m, k, v) == [x \in DOMAIN m \cup {k} |-> IF x = k THEN v ELSE m[x]]

-----------------------------------------------------------------------------
\* handlePtyReq: the first pty-req that parses and gets a PTY is kept.
handlePtyReq(st, req) ==
  IF st.pty = Nil /\ req.ok THEN [st EXCEPT !.pty = req.term] ELSE st

\* handleEnv: a well-formed request with an admitted name is stored.
handleEnv(st, req) ==
  IF req.ok /\ filterEnv(req.name)
  THEN [st EXCEPT !.envFromCh = Assign(@, req.name, req.value)]
  ELSE st

\* preSpawnDispatch, for the requests that leave something behind, and the
\* requests a channel gets before its shell or exec.
preSpawnDispatch(st, req) ==
  IF req.type = "pty-req" THEN handlePtyReq(st, req) ELSE handleEnv(st, req)

Received(reqs) ==
  LET after[i \in 0 .. Len(reqs)] ==
        IF i = 0 THEN [pty |-> Nil, envFromCh |-> EmptyMap]
        ELSE preSpawnDispatch(after[i - 1], reqs[i])
  IN  after[Len(reqs)]

Picked == {<<"HOME">>, <<"USER">>, <<"LOGNAME">>, <<"SHELL">>, <<"PATH">>}

\* buildEnv: what the host's environment contributes.  A line with no name
\* before "=" is skipped.
pickLine(env, kv) ==
  LET eq == indexEqual(kv)
      k == SubSeq(kv, 1, eq - 1)
  IN  IF eq > 1 /\ (k \in Picked \/ filterEnv(k))
      THEN Assign(env, k, SubSeq(kv, eq + 1, Len(kv)))
      ELSE env

picked(host) ==
  LET after[i \in 0 .. Len(host)] ==
        IF i = 0 THEN EmptyMap ELSE pickLine(after[i - 1], host[i])
  IN  after[Len(host)]

\* buildEnv: the host's own variables, the channel's over them, and TERM from
\* the PTY.
buildEnv(st, host) ==
  LET both == [k \in DOMAIN picked(host) \cup DOMAIN st.envFromCh |->
                 IF k \in DOMAIN st.envFromCh THEN st.envFromCh[k] ELSE picked(host)[k]]
  IN  IF st.pty # Nil /\ st.pty # <<>> THEN Assign(both, <<"TERM">>, st.pty) ELSE both

\* prepareShell: a login shell, its name behind a hyphen.
prepareShell(st, host) == [args |-> <<"-shell">>, env |-> buildEnv(st, host)]

\* prepareExec: the shell runs the command, interactively if there is a PTY.
prepareExec(st, command, host) ==
  [args |-> <<"shell">> \o (IF st.pty # Nil THEN <<"-i">> ELSE <<>>) \o <<"-c", command>>,
   env |-> buildEnv(st, host)]

-----------------------------------------------------------------------------
\* The names a child may get from the channel, and from the host (SPEC section
\* 8.1 step 4).
FromChannel(k) == k = <<"LANG">> \/ (Len(k) > 1 /\ k[1] = "LC_")
FromHost(k) == FromChannel(k) \/ k \in Picked

\* A line of the host's for the variable k.
Gives(kv, k) ==
  /\ FromHost(k) /\ "=" \notin Range(k)
  /\ Len(k) < Len(kv) /\ SubSeq(kv, 1, Len(k) + 1) = Append(k, "=")

\* Every name that a request or a line may give.
Variables == Names \cup UNION {{SubSeq(kv, 1, i) : i \in DOMAIN kv} : kv \in HostLines}

=============================================================================
