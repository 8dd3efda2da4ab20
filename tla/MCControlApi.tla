---- MODULE MCControlApi ----
EXTENDS ControlApi, TLC
CONSTANTS r1, r2
\* Run r2 is never admitted: it takes a place and gives it up again.
MCDepth == r1 :> 4 @@ r2 :> 0
====
