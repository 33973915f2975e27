-------------------------- MODULE ReconObservation --------------------------
(***************************************************************************)
(* apply_recon_observation of tank_controller_node.py: while the recon     *)
(* mission drives, candidates that the logger cannot classify slow it      *)
(* down, stop it once (dwell) or turn the turret; a clear sector sends the *)
(* turret home.                                                            *)
(***************************************************************************)
EXTENDS Integers

CONSTANTS
    Spots,          \* places along the road, further apart than the dwell radius
    Stale, Dwell, Cool, HomeDelay, ReverseHold      \* intervals, in ticks

VARIABLES
    due,            \* the timer has expired
    spot,           \* where the hull is
    seen, seenAge,  \* _observe_payload and its age
    dwell,          \* _recon_dwell_until - now, -1 when it is 0
    cool,           \* _recon_dwell_cooldown_until - now
    dwelled,        \* _dwelled_spots
    clearAge,       \* now - _recon_last_pending_wall
    qe, qeAge,      \* _recon_turret_last_cmd and its age
    ws, turret,     \* what the tick makes of W; the Q/E it commands
    why,            \* which branch the turret's command is from
    stops, owner    \* history: dwell STOPs at each spot, the spot of the dwell

vars == <<due, spot, seen, seenAge, dwell, cool, dwelled, clearAge, qe, qeAge, ws, turret, why, stops, owner>>

\* None yet; all clear; candidates to the side; ahead, far or worth a dwell.
Payloads == {"none", "clear", "side", "ahead", "strong"}
Sides    == {"Q", "E"}
Up(n, last) == IF n >= last THEN last ELSE n + 1

Init ==
    /\ due = FALSE /\ spot \in Spots /\ seen = "none" /\ seenAge = 0
    /\ dwell = -1 /\ cool = 0 /\ dwelled = {} /\ clearAge = HomeDelay
    /\ qe = "none" /\ qeAge = 0 /\ ws = "W" /\ turret = "none" /\ why = "none"
    /\ stops = [s \in Spots |-> 0] /\ owner = spot

\* observe_request_cb; the hull drives on.
Observe(p) ==
    /\ seen' = p /\ seenAge' = 0
    /\ UNCHANGED <<due, spot, dwell, cool, dwelled, clearAge, qe, qeAge, ws, turret, why, stops, owner>>

Move(s) ==
    /\ s # spot /\ spot' = s
    /\ UNCHANGED <<due, seen, seenAge, dwell, cool, dwelled, clearAge, qe, qeAge, ws, turret, why, stops, owner>>

Fresh == seen # "none" /\ seenAge <= Stale

\* A dwell starts only for a strong candidate, after the cooldown, at a new place.
MayDwell == seen = "strong" /\ dwell <= 0 /\ cool = 0 /\ spot \notin dwelled

Dwelling ==
    \/ /\ MayDwell /\ dwell' = Dwell /\ dwelled' = dwelled \cup {spot} /\ owner' = spot
       /\ ws' = "STOP" /\ cool' = cool
    \/ /\ ~MayDwell /\ dwell > 0 /\ ws' = "STOP" /\ UNCHANGED <<dwell, dwelled, owner, cool>>
    \/ /\ ~MayDwell /\ dwell <= 0 /\ ws' = "slow" /\ dwell' = -1
       /\ cool' = IF dwell = 0 THEN Cool ELSE cool
       /\ UNCHANGED <<dwelled, owner>>

\* _recon_turret_home_action; "err" is on which side of the hull the turret points.
Home(err) == turret' = err /\ why' = "home"

Still == turret' = "none" /\ why' = "none"

NoPayload(err) ==
    /\ ~Fresh
    /\ IF clearAge >= HomeDelay THEN Home(err) ELSE Still
    /\ ws' = "W" /\ UNCHANGED <<dwell, cool, dwelled, owner, clearAge, qe, qeAge, stops>>

Ahead ==
    /\ Fresh /\ seen \in {"ahead", "strong"}
    /\ Dwelling /\ Still
    /\ stops' = IF ws' = "STOP" THEN [stops EXCEPT ![owner'] = Up(@, Dwell + 1)] ELSE stops
    /\ clearAge' = 0 /\ UNCHANGED <<qe, qeAge>>

\* The turret follows the candidate; near it, a reversal waits.
Side(err, near) ==
    /\ Fresh /\ seen = "side"
    /\ \/ err = "none" /\ Still /\ ws' = "W" /\ UNCHANGED <<qe, qeAge>>
       \/ /\ err # "none" /\ near /\ qe \notin {"none", err} /\ qeAge < ReverseHold
          /\ Still /\ ws' = "W" /\ UNCHANGED <<qe, qeAge>>
       \/ /\ err # "none" /\ (~near \/ qe \in {"none", err} \/ qeAge >= ReverseHold)
          /\ turret' = err /\ why' = "track" /\ qe' = err /\ qeAge' = 0 /\ ws' = "slow"
    /\ clearAge' = 0 /\ UNCHANGED <<dwell, cool, dwelled, owner, stops>>

Clear(err) ==
    /\ Fresh /\ seen = "clear"
    /\ dwell' = IF dwell = 0 THEN -1 ELSE dwell
    /\ cool' = IF dwell = 0 THEN Cool ELSE cool
    /\ IF dwell <= 0 /\ clearAge >= HomeDelay THEN Home(err) ELSE Still
    /\ ws' = "W" /\ UNCHANGED <<dwelled, owner, clearAge, qe, qeAge, stops>>

Tick(err, near) ==
    /\ due /\ due' = FALSE
    /\ NoPayload(err) \/ Ahead \/ Side(err, near) \/ Clear(err)
    /\ UNCHANGED <<spot, seen, seenAge>>

\* A tenth of a second.
Clock ==
    /\ ~due /\ due' = TRUE
    /\ seenAge' = Up(seenAge, Stale + 1) /\ clearAge' = Up(clearAge, HomeDelay)
    /\ dwell' = IF dwell > 0 THEN dwell - 1 ELSE dwell
    /\ cool' = IF cool > 0 THEN cool - 1 ELSE 0
    /\ qeAge' = Up(qeAge, ReverseHold)
    /\ UNCHANGED <<spot, seen, dwelled, qe, ws, turret, why, stops, owner>>

Next ==
    \/ \E p \in Payloads \ {"none"} : Observe(p)
    \/ \E s \in Spots : Move(s)
    \/ \E err \in Sides \cup {"none"}, near \in BOOLEAN : Tick(err, near)
    \/ Clock

Spec == Init /\ [][Next]_vars

-----------------------------------------------------------------------------
\* Type invariant.
TypeOK ==
    /\ due \in BOOLEAN /\ {spot, owner} \subseteq Spots /\ seen \in Payloads
    /\ dwell \in -1 .. Dwell /\ cool \in 0 .. Cool /\ dwelled \subseteq Spots
    /\ {qe, turret} \subseteq Sides \cup {"none"} /\ ws \in {"W", "slow", "STOP"}
    /\ why \in {"none", "home", "track"}

\* A place is observed standing once: however candidates flicker, messages are lost and
\* the hull moves back and forth, the STOPs of its dwell add up to one dwell.
DwelledOnce == \A s \in Spots : stops[s] <= Dwell
=============================================================================
