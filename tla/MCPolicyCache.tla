--------------------------- MODULE MCPolicyCache ---------------------------
(***************************************************************************)
(* Small instances of PolicyCache: a rule for one target, and a wildcard   *)
(* rule over every key that allows or denies.                              *)
(***************************************************************************)
EXTENDS PolicyCache

Key(target) == [caller |-> <<"c">>, target |-> target, method |-> <<"m">>]
OneKey == {Key(<<"a">>)}
TwoKeys == OneKey \cup {Key(<<"a", "b">>)}

TwoRules == {Compiled("r1", TRUE, <<"*">>, <<"a">>, << >>, Keys),
             Compiled("r2", TRUE, <<"c", "*">>, <<"a", "*">>, <<"m">>, Keys),
             Compiled("r2", FALSE, <<"c", "*">>, <<"a", "*">>, <<"m">>, Keys)}
=============================================================================
