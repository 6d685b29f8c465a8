---------------------------- MODULE MCHostFormat ----------------------------
(***************************************************************************)
(* The instance of HostFormat for TLC: every address made of these parts.  *)
(***************************************************************************)
EXTENDS HostFormat

MCUsers == {<<>>, <<"name", "@">>, <<"name", ":", "1", "@">>}

\* Full(Groups + 1) is no address.
Full(n) == [i \in 1..(2 * n - 1) |-> IF i % 2 = 0 THEN ":" ELSE IF i = 1 THEN "X" ELSE "1"]

MCHosts == {<<"name">>, <<"v4">>, <<"x", ":", ":", "1">>, <<":", ":", "1">>,
            <<"x", ":", ":">>, Full(Groups), Full(Groups + 1), <<"name", ":", "name">>}

MCTails == {<<>>, <<"/">>, <<"/", "name", "@", "name">>,
            <<"?", "name", "#", "name", "?">>, <<"#", "/", "name", ":", "1">>,
            <<"/", "name", "?", "name", ":", "/", "/", "name", ":", "name">>,
            <<"/", "/", "name">>}
=============================================================================
