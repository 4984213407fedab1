--------------------------- MODULE TelemetryStream ---------------------------
(****************************************************************************)
(* What a telemetry pipeline promises, whichever threads and queues it is   *)
(* made of.  A source offers the items 1, 2, ... and the pipeline wants     *)
(* some of them (all of them in the firmware, the well-formed ones in the   *)
(* host).  It delivers wanted items to its sink, each at most once and in   *)
(* source order; it may lose items, but it concludes with a success only    *)
(* when every wanted item was delivered, and concludes last.                *)
(****************************************************************************)
EXTENDS Naturals, Sequences

VARIABLES
    wanted,     \* the items the sink is to receive
    delivered,  \* the items the sink received, in order
    outcome     \* "open" until the pipeline concludes

streamVars == <<wanted, delivered, outcome>>

Outcomes == {"open", "success", "failure"}

\* The last item delivered, 0 when there is none.
Latest == IF delivered = <<>> THEN 0 ELSE delivered[Len(delivered)]

Init ==
    /\ wanted \subseteq Nat \ {0}
    /\ delivered = <<>>
    /\ outcome = "open"

\* Items between the latest and the one delivered are lost for good.
Deliver ==
    /\ outcome = "open"
    /\ \E item \in wanted :
           /\ item > Latest
           /\ delivered' = Append(delivered, item)
    /\ UNCHANGED <<wanted, outcome>>

Complete == {delivered[k] : k \in DOMAIN delivered} = wanted

Conclude ==
    /\ outcome = "open"
    /\ outcome' \in {"success", "failure"}
    /\ outcome' = "success" => Complete
    /\ UNCHANGED <<wanted, delivered>>

Next == Deliver \/ Conclude

Spec == Init /\ [][Next]_streamVars
=============================================================================
