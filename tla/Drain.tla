-------------------------------- MODULE Drain --------------------------------
(***************************************************************************)
(* What a component of the service promises of its stop, whatever it       *)
(* drains: work joins while the component is open, nothing but stragglers  *)
(* joins once it closes, and it reports an empty drain only when no work   *)
(* is left, the stragglers that joined so far included.  A component with  *)
(* a fence may give up on the work that remains.  Cron promises this of    *)
(* its runs, HttpServer, which has no stragglers, of its connections.      *)
(***************************************************************************)
CONSTANTS
    Members,     \* the pieces of work that may join
    Stragglers,  \* those that may join at any time
    MayGiveUp    \* whether the drain is fenced

VARIABLES
    inside,  \* the work in flight
    stage    \* open, closing, or how the drain ended

drainVars == <<inside, stage>>

Init == inside = {} /\ stage = "open"

Join(m) ==
    /\ stage = "open" \/ m \in Stragglers
    /\ m \notin inside
    /\ inside' = inside \cup {m}
    /\ UNCHANGED stage

Leave(m) ==
    /\ m \in inside
    /\ inside' = inside \ {m}
    /\ UNCHANGED stage

Close ==
    /\ stage = "open"
    /\ stage' = "closing"
    /\ UNCHANGED inside

Finish ==
    /\ stage = "closing" /\ inside = {}
    /\ stage' = "empty"
    /\ UNCHANGED inside

GiveUp ==
    /\ MayGiveUp /\ stage = "closing" /\ inside # {}
    /\ stage' = "gaveup"
    /\ UNCHANGED inside

Next ==
    \/ \E m \in Members : Join(m) \/ Leave(m)
    \/ Close \/ Finish \/ GiveUp

Spec == Init /\ [][Next]_drainVars

=============================================================================
