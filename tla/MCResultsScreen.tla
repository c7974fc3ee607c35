--------------------------- MODULE MCResultsScreen ---------------------------
(* Two pull requests, the second with a long text, one feature, and nobody  *)
(* to rank.                                                                 *)
EXTENDS ResultsScreen

FewRows(view) == CASE view = "prs" -> 2 [] view = "features" -> 1 [] OTHER -> 0

SomeLines(view, row, width) ==
    CASE view = "features" -> 2
      [] view = "prs" /\ row = 1 -> 1
      [] OTHER -> IF width = 1 THEN 4 ELSE 3
=============================================================================
