----------------------------- MODULE ReconRoutes -----------------------------
(***************************************************************************)
(* run_recon_scenario.py drives route A, then route B, and collects what   *)
(* two other processes leave in files: local_path_node (report, discovered *)
(* map), which lives with the stack of its route, and                      *)
(* terrain_record_finalize_node, which outlives it.  Services may be late  *)
(* or lost, nodes may die, a file may resist its removal.                  *)
(***************************************************************************)
EXTENDS Naturals, FiniteSets

Routes == {1, 2}
Nothing == 0            \* no file, or no stack
Old == 3                \* left by an earlier mission
Resisted == 4           \* a copy, an earlier mission's or half a file, whose removal failed

VARIABLES
    leg, pc,            \* the manager: route and step
    tank,               \* start, away, goal
    stack,              \* route of the autonomous stack that runs
    mapper,             \* its local_path_node is alive
    report,             \* route_<r>.json with reached = true: Nothing, Old or its route
    disc, discFresh,    \* discovered_objects_latest.map; written since t_start
    terr, terrFresh,    \* terrain_map_latest.npz: the routes of its points; written since t_start
    up, on, points,     \* the recorder: alive, _recording_enable, routes of the recorded points
    saving,             \* it is writing terrain_map_latest.npz
    reset, finalize,    \* service requests it has not taken yet
    out,                \* per route: the copies [disc, terr]
    cleared             \* history: the recorder was cleared after the route's files were prepared and before its end

files == <<report, disc, discFresh, terr, terrFresh>>
recorder == <<up, on, points, saving, reset, finalize>>
routes == <<leg, pc, tank, stack, mapper, files, recorder, out, cleared>>

RoutesInit ==
    /\ leg = 1 /\ pc = "prepare" /\ tank = "start" /\ stack = Nothing /\ mapper = FALSE
    /\ report \in [Routes -> {Nothing, Old}]
    /\ disc \in {Nothing, Old} /\ terr \in {{}, {Old}} /\ discFresh = FALSE /\ terrFresh = FALSE
    /\ up \in BOOLEAN /\ on \in BOOLEAN /\ points \in (IF up THEN {{}, {Old}} ELSE {{}}) /\ saving = FALSE /\ reset = 0 /\ finalize = 0
    /\ (\E o \in {Nothing, Old} : out = [r \in Routes |-> [disc |-> o, terr |-> {o} \ {Nothing}]])
    /\ cleared = FALSE

\* os.remove(report_path), prepare_route_runtime_files: a latest file may resist its removal
\* (_safe_remove), the report may not.
Prepare ==
    /\ pc = "prepare" /\ pc' = "reset" /\ report' = [report EXCEPT ![leg] = Nothing]
    /\ disc' \in {Nothing, disc} /\ terr' \in {{}, terr} /\ cleared' = FALSE
    /\ UNCHANGED <<leg, tank, stack, mapper, discFresh, terrFresh, recorder, out>>

\* reset_terrain_recording and launch_route; the service call may not get through.
Launch ==
    /\ pc = "reset" /\ pc' = "drive" /\ stack' = leg /\ mapper' = TRUE
    /\ reset' \in IF up THEN {reset, 1} ELSE {reset}
    /\ UNCHANGED <<leg, tank, files, up, on, points, saving, finalize, out, cleared>>

\* The wait for route_<r>.json or for a tank that stands at its goal; t_start of
\* finalize_recon_artifacts is taken.
Arrive ==
    /\ pc = "drive" /\ (report[leg] # Nothing \/ tank = "goal")
    /\ pc' = "save" /\ discFresh' = FALSE /\ terrFresh' = FALSE
    /\ UNCHANGED <<leg, tank, stack, mapper, report, disc, terr, recorder, out, cleared>>

\* ARRIVE_TIMEOUT; RESTART_TIMEOUT; a report that cannot be removed or a file that cannot be
\* copied ends the script.
GiveUp ==
    /\ pc \in {"prepare", "drive", "copy", "copy_terrain", "back"} /\ pc' = "aborted" /\ stack' = Nothing /\ mapper' = FALSE
    /\ UNCHANGED <<leg, tank, files, recorder, out, cleared>>

\* /tank/map/discovered/save: save_service_cb writes the map and asks for a terrain finalize; or
\* the call times out without.
Save ==
    /\ pc = "save" /\ pc' = "finalize"
    /\ \/ /\ mapper /\ disc' = stack /\ discFresh' = TRUE
          /\ finalize' = IF up /\ finalize < 2 THEN finalize + 1 ELSE finalize
       \/ UNCHANGED <<disc, discFresh, finalize>>
    /\ UNCHANGED <<leg, tank, stack, mapper, report, terr, terrFresh, up, on, points, saving, reset, out, cleared>>

\* /tank/terrain/finalize_map, if the service is there; the answer, or 90 s without one, comes later.
CallFinalize ==
    /\ pc = "finalize" /\ pc' = "copy"
    /\ finalize' = IF up /\ finalize < 2 THEN finalize + 1 ELSE finalize
    /\ UNCHANGED <<leg, tank, stack, mapper, files, up, on, points, saving, reset, out, cleared>>

AnyDisc == disc # Nothing
GoodDisc == disc # Nothing /\ discFresh

\* _safe_remove of a copy, if there is one: it goes, or resists and stays.
RemoveDisc ==
    \/ out' = [out EXCEPT ![leg].disc = Nothing]
    \/ out[leg].disc # Nothing /\ out' = [out EXCEPT ![leg].disc = Resisted]

RemoveTerrain(there) ==
    \/ out' = [out EXCEPT ![leg].terr = {}]
    \/ there /\ out' = [out EXCEPT ![leg].terr = {Resisted}]

CopyDisc ==
    /\ pc = "copy" /\ pc' = "check"
    /\ IF GoodDisc THEN out' = [out EXCEPT ![leg].disc = disc] ELSE RemoveDisc
    /\ UNCHANGED <<leg, tank, stack, mapper, files, recorder, cleared>>

\* _validate_npz and the freshness of the terrain: a copy goes on, or an old copy is removed.
CheckTerrain ==
    /\ pc = "check"
    /\ IF terr # {} /\ ~saving /\ terrFresh THEN pc' = "copy_terrain" /\ UNCHANGED out
       ELSE pc' = "kill" /\ RemoveTerrain(out[leg].terr # {})
    /\ UNCHANGED <<leg, tank, stack, mapper, files, recorder, cleared>>

\* _atomic_copy and the validation of the copy: a recorder that writes again in the meantime
\* leaves a broken one, which is to be removed.
CopyTerrain ==
    /\ pc = "copy_terrain" /\ pc' = "kill"
    /\ IF saving THEN RemoveTerrain(TRUE) ELSE out' = [out EXCEPT ![leg].terr = terr]
    /\ UNCHANGED <<leg, tank, stack, mapper, files, recorder, cleared>>

\* kill_stack, cleanup_stack: the recorder is not among what they kill.
Kill ==
    /\ pc = "kill" /\ pc' = (IF leg = 2 THEN "done" ELSE "back") /\ stack' = Nothing /\ mapper' = FALSE
    /\ UNCHANGED <<leg, tank, files, recorder, out, cleared>>

\* The tank is seen at START again.
Back ==
    /\ pc = "back" /\ tank = "start" /\ pc' = "prepare" /\ leg' = 2
    /\ UNCHANGED <<tank, stack, mapper, files, recorder, out, cleared>>

Manager == Prepare \/ Launch \/ Arrive \/ GiveUp \/ Save \/ CallFinalize \/ CopyDisc \/ CheckTerrain
           \/ CopyTerrain \/ Kill \/ Back

Drive ==
    /\ stack # Nothing
    /\ tank' = CASE tank = "start" -> "away" [] tank = "away" -> "goal" [] tank = "goal" -> "goal"
    /\ UNCHANGED <<leg, pc, stack, mapper, files, recorder, out, cleared>>

\* The simulator's reset, asked for by the manager or by hand.
Restart ==
    /\ pc = "back" /\ tank' = "start"
    /\ UNCHANGED <<leg, pc, stack, mapper, files, recorder, out, cleared>>

\* local_path_node's timer at the goal; its death.
Report ==
    /\ mapper /\ tank = "goal" /\ report' = [report EXCEPT ![stack] = stack]
    /\ UNCHANGED <<leg, pc, tank, stack, mapper, disc, discFresh, terr, terrFresh, recorder, out, cleared>>

MapperDies == mapper /\ mapper' = FALSE
              /\ UNCHANGED <<leg, pc, tank, stack, files, recorder, out, cleared>>

\* _record_pc2_points
Record ==
    /\ up /\ on /\ ~saving /\ stack # Nothing /\ tank # "start" /\ points' = points \cup {stack}
    /\ UNCHANGED <<leg, pc, tank, stack, mapper, files, up, on, saving, reset, finalize, out, cleared>>

\* on_reset_service
ResetService ==
    /\ up /\ ~saving /\ reset = 1 /\ reset' = 0 /\ points' = {} /\ on' = TRUE /\ cleared' = (cleared \/ pc \in {"reset", "drive"})
    /\ UNCHANGED <<leg, pc, tank, stack, mapper, files, up, saving, finalize, out>>

\* finalize_map: with too few points nothing happens, else recording ends and np.savez starts.
FinalizeService ==
    /\ up /\ ~saving /\ finalize > 0 /\ finalize' = finalize - 1
    /\ \/ UNCHANGED <<on, saving, terr, terrFresh>>
       \/ points # {} /\ on' = FALSE /\ saving' = TRUE /\ terr' = points /\ terrFresh' = TRUE
    /\ UNCHANGED <<leg, pc, tank, stack, mapper, report, disc, discFresh, up, points, reset, out, cleared>>

\* save_outputs has written its file.
Saved ==
    /\ up /\ saving /\ saving' = FALSE /\ terrFresh' = TRUE
    /\ UNCHANGED <<leg, pc, tank, stack, mapper, report, disc, discFresh, terr, up, on, points, reset, finalize, out, cleared>>

\* The recorder dies, perhaps in the middle of a file, or starts (empty, recording).
RecorderFails ==
    /\ up /\ up' = FALSE /\ points' = {} /\ on' = TRUE /\ reset' = 0 /\ finalize' = 0 /\ cleared' = (cleared \/ pc \in {"reset", "drive"})
    /\ saving' = FALSE /\ terr' = IF saving THEN {} ELSE terr
    /\ UNCHANGED <<leg, pc, tank, stack, mapper, report, disc, discFresh, terrFresh, out>>

RecorderStarts ==
    /\ ~up /\ up' = TRUE /\ on' = TRUE
    /\ points' = {} /\ UNCHANGED <<leg, pc, tank, stack, mapper, files, saving, reset, finalize, out, cleared>>

RoutesStep ==
    \/ Manager \/ Drive \/ Restart \/ Report \/ MapperDies \/ Record \/ ResetService \/ FinalizeService
    \/ Saved \/ RecorderFails \/ RecorderStarts

-----------------------------------------------------------------------------
RoutesTypeOK ==
    /\ leg \in Routes /\ stack \in {Nothing, leg} /\ (mapper => stack # Nothing)
    /\ pc \in {"prepare", "reset", "drive", "save", "finalize", "copy", "check", "copy_terrain", "kill",
               "back", "done", "aborted"}
    /\ {disc} \cup {report[r] : r \in Routes} \subseteq 0 .. Old /\ terr \cup points \subseteq 1 .. Old
    /\ reset \in 0 .. 1 /\ finalize \in 0 .. 2

Finished(r) == r < leg \/ (r = leg /\ pc \in {"kill", "back", "done"})
Own(r)      == {Nothing, r}

\* What scenario 2 is built from is of its route: a finished route has its own report, its own
\* discovered map and (if the recorder was cleared for it) its own terrain, or none at all;
\* never the other route's, whichever call was late, whichever node died and whichever file
\* stayed.  An earlier mission's copy, or half a file, is left only where its removal failed,
\* which _safe_remove (130) does not report.
ArtifactsAreOwn ==
    \A r \in Routes : Finished(r) =>
        /\ report[r] \in Own(r) /\ out[r].disc \in Own(r) \cup {Resisted}
        /\ r = leg /\ cleared => out[r].terr \subseteq {r} \/ out[r].terr = {Resisted}
=============================================================================
