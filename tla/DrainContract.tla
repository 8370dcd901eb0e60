---------------------------- MODULE DrainContract ----------------------------
(***************************************************************************)
(* What the asynchronous writers of the gateway promise, whatever their    *)
(* buffers and goroutines look like: an item that was accepted is settled  *)
(* exactly once, and the destination is shut only when no accepted item is *)
(* left.  AsyncLogger and CacheWriter are shown to implement it.           *)
(***************************************************************************)
CONSTANT Items

VARIABLES
    held,      \* accepted, not settled yet
    settled,   \* handed to the destination, or reported as failed
    shut       \* the destination was closed

vars == <<held, settled, shut>>

Init == held = {} /\ settled = {} /\ shut = FALSE

Accept(i) ==
    /\ ~shut
    /\ i \notin held \cup settled
    /\ held' = held \cup {i}
    /\ UNCHANGED <<settled, shut>>

Settle(S) ==
    /\ ~shut
    /\ S # {}
    /\ held' = held \ S
    /\ settled' = settled \cup S
    /\ UNCHANGED shut

Shut ==
    /\ ~shut
    /\ held = {}
    /\ shut' = TRUE
    /\ UNCHANGED <<held, settled>>

Next ==
    \/ \E i \in Items : Accept(i)
    \/ \E S \in SUBSET held : Settle(S)
    \/ Shut

Spec == Init /\ [][Next]_vars
=============================================================================
