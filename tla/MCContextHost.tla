--------------------------- MODULE MCContextHost ----------------------------
(***************************************************************************)
(* ContextHost for TLC.                                                    *)
(***************************************************************************)
EXTENDS ContextHost

\* An empty text, one within all limits, one above the lower request's and one that
\* only the higher request allows.
MCContents == {<<>>, <<"x">>, <<"x", "y">>, <<"x", "y", "z">>}
MCLimits == {1, 3}

\* When all is loaded no step and no property looks at the files again.
View ==
  IF Loading THEN vars ELSE <<now, call, ever, during, disturbed>>
=============================================================================
