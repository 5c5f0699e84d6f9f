-------------------------- MODULE AcknowledgedState --------------------------
(***************************************************************************)
(* What the local hub promises of its state ("Durable restart boundary",   *)
(* docs/M1_LOCAL_MONITORING.md): a change is acknowledged only once it is  *)
(* durable, so a restart shows the state last acknowledged or one that was *)
(* requested after it, never an older one and never an empty fleet.  It    *)
(* promises nothing of a restart once a file has been damaged.             *)
(***************************************************************************)
CONSTANTS Values, Fresh

VARIABLES
    up,        \* the process runs
    visible,   \* the state it shows
    possible,  \* the states a restart may show
    intact     \* no file has been damaged

vars == <<up, visible, possible, intact>>

Init == up = TRUE /\ visible = Fresh /\ possible = {Fresh} /\ intact = TRUE

\* A handler has computed the state v and asks for it to be kept.
Request(v) ==
    /\ up
    /\ possible' = possible \cup {v}
    /\ UNCHANGED <<up, visible, intact>>

\* The handler answers: v is shown, and nothing older can come back.
Acknowledge(v) ==
    /\ up /\ v \in possible
    /\ visible' = v /\ possible' = {v}
    /\ UNCHANGED <<up, intact>>

Stop == up /\ up' = FALSE /\ UNCHANGED <<visible, possible, intact>>

Damage == intact' = FALSE /\ UNCHANGED <<up, visible, possible>>

Start ==
    /\ ~up /\ up' = TRUE
    /\ visible' \in IF intact THEN possible ELSE Values
    /\ UNCHANGED <<possible, intact>>

Next == (\E v \in Values : Request(v) \/ Acknowledge(v)) \/ Stop \/ Damage \/ Start

Spec == Init /\ [][Next]_vars
=============================================================================
