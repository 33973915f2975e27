---------------------------- MODULE RouteDecision ----------------------------
(***************************************************************************)
(* How the choice between route A and B reaches the screen.  The bridge    *)
(* analyses route_comparison.json in a thread of its own (started by hand  *)
(* or by the dashboard), the ROS risk node does the same beside it; both   *)
(* write route_risk_result.json, and the node also publishes.  A refresher *)
(* thread builds what the browser polls and stops when nobody asks.        *)
(*                                                                         *)
(* A report is its kind and the comparison it is about: "ok" has passed    *)
(* the validation, "bad" has not (a language model that cannot be reached  *)
(* yields one too), "interim" says only that the analysis runs, "torn" is  *)
(* a file under way or mixed from two writers.                             *)
(***************************************************************************)
EXTENDS Naturals

CONSTANTS
    MaxRounds,                  \* comparisons that are made
    LiveView                    \* LIVE_VIEW_ENABLED

VARIABLES
    comparison,                 \* the round route_comparison.json is of, 0 for none
    file, memory, latest,       \* the result file, _ROUTE_RISK_RUNTIME.report, the topic's last
    attempted, running,         \* _ROUTE_RISK_RUNTIME
    thread, node,               \* the two analysts: where they are and their report
    ask,                        \* a run request between its read and the lock
    refresher, alive, polled,   \* the refresh loop, its running flag, a poll within the idle time
    built, shown,               \* the payload under construction and the cached one
    forced                      \* a forced route is configured

files   == <<comparison, file, memory, latest>>
analyst == <<attempted, running, thread>>
screen  == <<refresher, alive, polled, built, shown>>
vars    == <<files, analyst, node, ask, screen, forced>>

Nothing == [kind |-> "none", of |-> 0]
NoChoice == [kind |-> "open", of |-> 0]   \* the screen shows both routes, none chosen
Off == [at |-> "off", report |-> Nothing]
At(place, r) == [at |-> place, report |-> r]
Report(k) == [kind |-> k, of |-> comparison]

DecisionInit ==
    /\ comparison = 0 /\ file = Nothing /\ memory = Nothing /\ latest = Nothing
    /\ attempted = FALSE /\ running = FALSE /\ thread = Off /\ node = Off
    /\ ask = "none"
    /\ refresher = "off" /\ alive = FALSE /\ polled = FALSE
    /\ built = Nothing /\ shown = Nothing /\ forced \in BOOLEAN

-----------------------------------------------------------------------------
(* The analysis in the bridge. *)

\* The recon pipeline writes the comparison of another round.
Compare ==
    /\ comparison < MaxRounds /\ comparison' = comparison + 1
    /\ UNCHANGED <<file, memory, latest, analyst, node, ask, screen, forced>>

Start == attempted' = TRUE /\ running' = TRUE /\ thread' = At("load", Nothing)
Finish == running' = FALSE /\ thread' = Off /\ UNCHANGED attempted

\* A request looks at the file first ...
Ask ==
    /\ ask = "none"
    /\ ask' \in {"force", IF file.kind = "ok" THEN "valid" ELSE "needed"}
    /\ UNCHANGED <<files, analyst, node, screen, forced>>

\* ... and decides under the lock.
Answer ==
    /\ ask # "none" /\ ask' = "none"
    /\ IF running \/ (file # Nothing /\ ask = "valid") THEN UNCHANGED analyst ELSE Start
    /\ UNCHANGED <<files, node, screen, forced>>

Load ==
    /\ thread.at = "load"
    /\ IF comparison = 0
          THEN Finish
          ELSE thread' = At("think", Report("none")) /\ UNCHANGED <<attempted, running>>
    /\ UNCHANGED <<files, node, ask, screen, forced>>

\* generate_route_decision: a valid answer at the first or second try, or the fallback.
Verdict(who) == \E k \in {"ok", "bad"} : who' = At("open", [who.report EXCEPT !.kind = k])

Think ==
    /\ thread.at = "think" /\ Verdict(thread)
    /\ UNCHANGED <<files, attempted, running, node, ask, screen, forced>>

\* Opening the file for writing empties it.
Open ==
    /\ thread.at = "open" /\ thread' = At("write", thread.report)
    /\ file' = [kind |-> "torn", of |-> 0]
    /\ UNCHANGED <<comparison, memory, latest, attempted, running, node, ask, screen, forced>>

\* What a writer leaves: its report, or a mix when the other has the file open as well.
Left(r, other) ==
    {r} \union (IF other.at = "write" THEN {[kind |-> "torn", of |-> 0]} ELSE {})

Write ==
    /\ thread.at = "write" /\ Finish
    /\ \/ file' \in Left(thread.report, node) /\ memory' = thread.report
       \/ UNCHANGED <<file, memory>>            \* the write fails
    /\ UNCHANGED <<comparison, latest, node, ask, screen, forced>>

-----------------------------------------------------------------------------
(* The ROS node. *)

NodeStart ==
    /\ node.at = "off" /\ comparison > 0
    /\ node' = At("think", Report("none"))
    /\ latest' \in {latest, Report("interim")}  \* announced from a file, not from the topic
    /\ UNCHANGED <<comparison, file, memory, analyst, ask, screen, forced>>

NodeThink ==
    /\ node.at = "think" /\ Verdict(node)
    /\ UNCHANGED <<files, analyst, ask, screen, forced>>

NodeOpen ==
    /\ node.at = "open" /\ node' = At("write", node.report)
    /\ file' = [kind |-> "torn", of |-> 0]
    /\ UNCHANGED <<comparison, memory, latest, analyst, ask, screen, forced>>

NodeWrite ==
    /\ node.at = "write" /\ node' = At("publish", node.report)
    /\ file' \in Left(node.report, thread)
    /\ UNCHANGED <<comparison, memory, latest, analyst, ask, screen, forced>>

\* on_route_risk_report stores whatever arrives, ready or not.
NodePublish ==
    /\ node.at = "publish" /\ node' = Off /\ latest' = node.report
    /\ UNCHANGED <<comparison, file, memory, analyst, ask, screen, forced>>

\* A user who takes the long analysis for a hang stops the node.
NodeStops ==
    /\ node.at # "off" /\ node' = Off
    /\ UNCHANGED <<files, analyst, ask, screen, forced>>

-----------------------------------------------------------------------------
(* The dashboard. *)

\* _load_saved_route_risk_report: the file, or the thread's copy while there is none.
Saved ==
    IF file.kind = "ok" THEN file
    ELSE IF file = Nothing /\ memory.kind = "ok" THEN memory
    ELSE NoChoice

\* The topic's report comes first, unless it is not ready.
Chosen == IF latest.kind = "ok" THEN latest ELSE Saved

\* A forced route is never given away as the choice of the analysis.
Display(r) == IF forced /\ r.kind = "ok" THEN [r EXCEPT !.kind = "masked"] ELSE r

\* Building the payload starts the analysis once, when there is nothing valid to show.
AutoRun ==
    IF /\ latest.kind # "ok" /\ Saved = NoChoice /\ file.kind # "torn"
       /\ ~attempted /\ ~running
        THEN Start ELSE UNCHANGED analyst

\* A poll wakes the refresher if the live view is on, and builds in line while the cache is empty;
\* a payload that cannot be built, before or after the analysis is started, is not answered.
Poll ==
    /\ polled' = TRUE
    /\ IF alive \/ ~LiveView THEN UNCHANGED <<alive, refresher>> ELSE alive' = TRUE /\ refresher' = "build"
    /\ IF shown # Nothing THEN UNCHANGED <<shown, analyst>>
       ELSE (shown' = Display(Chosen) /\ AutoRun) \/ (UNCHANGED shown /\ (AutoRun \/ UNCHANGED analyst))
    /\ UNCHANGED <<files, node, ask, built, forced>>

Build ==
    /\ refresher = "build" /\ refresher' = "swap"
    /\ built' = Display(Chosen) /\ AutoRun
    /\ UNCHANGED <<files, node, ask, alive, polled, shown, forced>>

\* An exception on the way leaves the old payload where it is.
BuildFails ==
    /\ refresher = "build" /\ refresher' = IF polled THEN "build" ELSE "stop"
    /\ AutoRun \/ UNCHANGED analyst
    /\ UNCHANGED <<files, node, ask, alive, polled, built, shown, forced>>

Swap ==
    /\ refresher = "swap" /\ shown' = built /\ built' = Nothing
    /\ refresher' = IF polled THEN "build" ELSE "stop"
    /\ UNCHANGED <<files, analyst, node, ask, alive, polled, forced>>

\* As Stop, without the finally clause that lets the next poll start a new loop.
StopAlive ==
    /\ refresher = "stop" /\ refresher' = "off" /\ UNCHANGED alive
    /\ UNCHANGED <<files, analyst, node, ask, polled, built, shown, forced>>

\* The finally clause of the loop; a poll since the idle check has found it alive.
Stop ==
    /\ refresher = "stop" /\ refresher' = "off" /\ alive' = FALSE
    /\ UNCHANGED <<files, analyst, node, ask, polled, built, shown, forced>>

Idle ==
    /\ polled /\ polled' = FALSE
    /\ UNCHANGED <<files, analyst, node, ask, refresher, alive, built, shown, forced>>

DecisionNext ==
    \/ Compare \/ Ask \/ Answer \/ Load \/ Think \/ Open \/ Write
    \/ NodeStart \/ NodeThink \/ NodeOpen \/ NodeWrite \/ NodePublish \/ NodeStops
    \/ Poll \/ Build \/ BuildFails \/ Swap \/ Stop \/ Idle

\* The threads run on; whether a payload can be built, they do not promise.
DecisionFairness == WF_vars(Build \/ Swap \/ Stop)
DecisionSpec == DecisionInit /\ [][DecisionNext]_vars /\ DecisionFairness

-----------------------------------------------------------------------------
\* Type invariant; the running flag is up exactly while an analysis runs.
DecisionTypeOK ==
    /\ file.kind \in {"none", "torn", "bad", "ok"} /\ memory.kind \in {"none", "bad", "ok"}
    /\ latest.kind \in {"none", "interim", "bad", "ok"} /\ latest.of <= comparison
    /\ thread.at \in {"off", "load", "think", "open", "write"}
    /\ node.at \in {"off", "think", "open", "write", "publish"}
    /\ running <=> thread.at # "off"

\* A route is marked as chosen only by a validated report, and never the forced one.
ShownIsValidated == shown.kind \in {"none", "open", "masked"} \/ (shown.kind = "ok" /\ ~forced)
=============================================================================
