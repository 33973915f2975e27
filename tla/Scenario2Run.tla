---------------------------- MODULE Scenario2Run -----------------------------
(***************************************************************************)
(* run_scenario2_scenario.py, which starts the stack of scenario 2 once    *)
(* and judges the mission by what it hears and by a file of the stack.     *)
(* Nodes of an earlier run may still be alive when it starts, and its      *)
(* watcher listens before they are killed.                                 *)
(***************************************************************************)
EXTENDS Naturals

CONSTANT Stable     \* STABLE_SEC, in polls of the loop

VARIABLES
    step,           \* clean, remove, launch, watch, done
    nodes,          \* whose stack is alive: none, old or own
    deciding,       \* state of its decision_node
    place,          \* where the tank is
    reached,        \* route_A.json with reached = true: none, or whose it is
    seenAt, heard,  \* MissionWatcher: pos, fsm_state
    enteredReturn,
    near,           \* polls since near_since
    outcome

world   == <<nodes, deciding, place, reached>>
watcher == <<seenAt, heard, enteredReturn>>
judge   == <<step, near, outcome>>

Ways == {<<"start", "between">>, <<"between", "goal">>, <<"goal", "between">>, <<"between", "start">>}

MissionInit ==
    /\ step = "clean" /\ nodes \in {"none", "old"} /\ deciding \in {"FORWARD", "RETURN"}
    /\ place \in {"start", "between", "goal"} /\ reached \in {"none", "old"}
    /\ seenAt = "none" /\ heard = "none" /\ enteredReturn = FALSE
    /\ near = 0 /\ outcome = "none"

\* cleanup_stack, then the removal of the results of an earlier run, which can only
\* fail by ending the program.
CleanUp(at) ==
    /\ step = at /\ nodes' = "none" /\ UNCHANGED <<deciding, place, reached, watcher, near, outcome>>
RemoveResults(at) ==
    /\ step = at /\ reached' = "none" /\ UNCHANGED <<nodes, deciding, place, watcher, near, outcome>>

Prepare ==
    \/ CleanUp("clean") /\ step' = "remove"
    \/ RemoveResults("remove") /\ step' = "launch"

LaunchStack ==
    /\ step = "launch" /\ step' = "watch" /\ nodes' = "own" /\ deciding' = "FORWARD"
    /\ UNCHANGED <<place, reached, watcher, near, outcome>>

End(result) ==
    /\ step' = "done" /\ outcome' = result /\ nodes' = "none"
    /\ UNCHANGED <<deciding, place, reached, watcher>>

\* One turn of the loop: the report, then the time at the goal, then the way back.
Poll ==
    /\ step = "watch" /\ near' = (IF seenAt # "goal" THEN 0 ELSE IF near <= Stable THEN near + 1 ELSE near)
    /\ \/ reached # "none" /\ End("success")
       \/ reached = "none" /\ near' > Stable /\ End("success")
       \/ reached = "none" /\ near' <= Stable /\ enteredReturn /\ seenAt = "start" /\ End("aborted")
       \/ /\ reached = "none" /\ near' <= Stable /\ ~(enteredReturn /\ seenAt = "start")
          /\ UNCHANGED <<step, outcome, world, watcher>>

\* ARRIVE_TIMEOUT
TimeOut == step = "watch" /\ End("timeout") /\ UNCHANGED near

Pose   == seenAt' = place /\ UNCHANGED <<world, judge, heard, enteredReturn>>
Status ==
    /\ nodes # "none" /\ heard' = deciding
    /\ enteredReturn' = (enteredReturn \/ (deciding = "RETURN" /\ heard # "RETURN"))
    /\ UNCHANGED <<world, judge, seenAt>>

\* The stack that runs.
Move   == nodes # "none" /\ (\E w \in Ways : w[1] = place /\ place' = w[2])
          /\ UNCHANGED <<nodes, deciding, reached, watcher, judge>>
Retreat == nodes # "none" /\ deciding' = "RETURN"
          /\ UNCHANGED <<nodes, place, reached, watcher, judge>>
Arrived == nodes # "none" /\ place = "goal" /\ reached' = nodes
          /\ UNCHANGED <<nodes, deciding, place, watcher, judge>>

MissionStep == Prepare \/ LaunchStack \/ Poll \/ TimeOut \/ Pose \/ Status \/ Move \/ Retreat \/ Arrived

-----------------------------------------------------------------------------
MissionTypeOK ==
    /\ step \in {"clean", "remove", "launch", "watch", "done"} /\ nodes \in {"none", "old", "own"}
    /\ reached \in {"none", "old", "own"} /\ near \in 0 .. Stable + 1
    /\ outcome \in {"none", "success", "aborted", "timeout"} /\ (outcome = "none" <=> step # "done")

\* A mission is not called a success because of the report an earlier one left, or wrote
\* while it was being killed.
SuccessIsOwn == outcome = "success" => reached # "old"
=============================================================================
