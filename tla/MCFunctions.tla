---------------------------- MODULE MCFunctions -----------------------------
(***************************************************************************)
(* The inputs on which TLC runs the pure functions.                        *)
(***************************************************************************)
EXTENDS PureFunctions

SomeStrings == {<<>>, <<5>>, <<0, 0, 0, 1>>}
SomeSizes == {<<0, 0, 0, 0>>, <<80, 24, 258, 2130706433>>}
SomeTails == {<<>>, <<9>>}
SomeNames == {<<"LANG">>, <<"LC_">>, <<"LC_", "ALL">>, <<"TERM">>, <<"PATH">>}
SomeValues == {<<>>, <<"v">>}
SomeHostLines ==
  {<<"LANG", "=", "h">>, <<"LANG">>, <<"=", "LANG", "=", "h">>, <<"LC_", "=", "h">>,
   <<"LC_", "ALL", "=", "h", "=", "i">>, <<"TERM", "=", "h">>, <<"PATH", "=">>}
SomeTerms == {<<>>, <<"xterm">>}
SomeLimits == {-1, 0, 7, 9}

=============================================================================
