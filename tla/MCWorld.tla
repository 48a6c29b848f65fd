------------------------------ MODULE MCWorld ------------------------------
(* Small worlds for World: a tower of chunks in one column, and a plain of  *)
(* two columns that touch.                                                  *)
EXTENDS World

\* One column: ground at the bottom, air above.
TowerGenerated == [p \in {"x"} \X (0 .. 2) |-> IF p[2] = 0 THEN "stone" ELSE "air"]
TowerEstimate == [c \in {"x"} |-> 1]

\* Two columns; the estimate of the second one is a chunk too high, as an
\* estimate may be.
PlainAdj == {<<"x", "y">>, <<"y", "x">>}
PlainGenerated ==
    [p \in {"x", "y"} \X (0 .. 1) |-> IF p[2] = 0 THEN "stone" ELSE "air"]
PlainEstimate == [c \in {"x", "y"} |-> IF c = "x" THEN 1 ELSE 2]
=============================================================================
