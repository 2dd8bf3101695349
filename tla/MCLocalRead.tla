---------------------------- MODULE MCLocalRead -----------------------------
(***************************************************************************)
(* LocalRead for TLC: the entry r/d/n, a second root, a second directory   *)
(* on another device or on the same, and a second file.                    *)
(***************************************************************************)
EXTENDS LocalRead, TLC

CONSTANTS R, S, D, E, f, g

MCDirs == {Slash, R, S, D, E}
MCPlaces == {<<Slash, "r">>, <<Slash, "s">>, <<R, "d">>, <<S, "d">>,
             <<D, "n">>, <<D, "m">>, <<E, "n">>}
MCRootPath == <<"r">>
MCParts == <<"d", "n">>

Whole == <<Slash, "r">> :> R @@ <<Slash, "s">> :> S @@ <<R, "d">> :> D @@ <<S, "d">> :> E
         @@ <<D, "n">> :> f @@ <<D, "m">> :> None @@ <<E, "n">> :> g
MCLayouts == {Whole,
              [Whole EXCEPT ![<<D, "n">>] = Link],
              [Whole EXCEPT ![<<R, "d">>] = E, ![<<S, "d">>] = D],
              [Whole EXCEPT ![<<Slash, "r">>] = S, ![<<Slash, "s">>] = R,
                            ![<<R, "d">>] = E, ![<<S, "d">>] = D],
              [Whole EXCEPT ![<<D, "m">>] = f]}

MCContents == {<<"a", "a">>, <<"b", "b">>, <<"a", "a", "a">>, <<"c">>}
=============================================================================
