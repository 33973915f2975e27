--------------------------- MODULE MCFireMission ---------------------------
(* Constants of the FireMission runs that a .cfg cannot write.             *)
EXTENDS FireMission

\* Stage 1 aligns the hull first, as in tank_scenario2.launch.py; it has a
\* fallback fire point, the last stage has none.
FirstStage   == {1}
OneFallback  == [s \in Stages |-> IF s = 1 THEN 1 ELSE 0]
=============================================================================
