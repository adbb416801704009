------------------------------ MODULE DebugCalls ------------------------------
(***************************************************************************)
(* What a call of the debug link promises the tool that makes it: it       *)
(* returns once, with ok only while the link is up; after a failure the    *)
(* link is closed for good.  DebugLink implements this; AvFormat makes its *)
(* calls by it.                                                            *)
(***************************************************************************)
VARIABLES
    link,       \* "none" before dbg_init, "up", or "closed"
    calling,    \* whether a call with something to do is in progress
    result      \* what the last call returned, "none" during a call

vars == <<link, calling, result>>

Init == link = "none" /\ ~calling /\ result = "none"

\* dbg_init connects or not.
Open ==
    /\ link = "none"
    /\ link' \in {"up", "closed"}
    /\ UNCHANGED <<calling, result>>

\* dbg_deinit.
Close ==
    /\ link # "none" /\ ~calling
    /\ link' = "closed"
    /\ UNCHANGED <<calling, result>>

\* A call of no cells returns at once and tells nothing of the link.
Nothing ==
    /\ link # "none" /\ ~calling
    /\ result' \in {"ok", "failed"}
    /\ UNCHANGED <<link, calling>>

Begin ==
    /\ link # "none" /\ ~calling
    /\ calling' = TRUE /\ result' = "none"
    /\ UNCHANGED link

Succeed ==
    /\ calling /\ link = "up"
    /\ calling' = FALSE /\ result' = "ok"
    /\ UNCHANGED link

Fails ==
    /\ calling
    /\ calling' = FALSE /\ result' = "failed"
    /\ link' = "closed"

Next == Open \/ Close \/ Nothing \/ Begin \/ Succeed \/ Fails

Spec == Init /\ [][Next]_vars
=============================================================================
