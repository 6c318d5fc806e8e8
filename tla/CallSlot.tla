------------------------------ MODULE CallSlot ------------------------------
(***************************************************************************)
(* What the table of calls promises (SIPCore::calls, setupCall,            *)
(* removeCall, processPendingCallRemove): one slot per account, taken only *)
(* while it is empty and emptied only when its call is over, never         *)
(* started, or swept away by the shutdown, after which the engine goes.    *)
(***************************************************************************)
CONSTANTS Users, Calls, NoCall

VARIABLES
    slot,   \* the call of each account, NoCall when the account is free
    over,   \* calls whose dialog has ended
    used,   \* calls that have been in a slot
    open,   \* no shutdown yet
    gone    \* the engine has gone

vars == <<slot, over, used, open, gone>>

Init ==
    /\ slot = [u \in Users |-> NoCall]
    /\ over = {}
    /\ used = {}
    /\ open = TRUE
    /\ gone = FALSE

\* An account is busy with at most one call, and a call comes only once.  It
\* may still come between the sweep and the engine's end.
Occupy(u, c) ==
    /\ ~gone
    /\ slot[u] = NoCall
    /\ c \notin used \cup over
    /\ slot' = [slot EXCEPT ![u] = c]
    /\ used' = used \cup {c}
    /\ UNCHANGED <<over, open, gone>>

\* A call ends, in a slot or turned away at the door.
End(c) ==
    /\ c \notin over
    /\ over' = over \cup {c}
    /\ UNCHANGED <<slot, used, open, gone>>

Vacate(u) ==
    /\ slot[u] \in over
    /\ slot' = [slot EXCEPT ![u] = NoCall]
    /\ UNCHANGED <<over, used, open, gone>>

\* The call could not be started: it ends and leaves in one step.
Abandon(u) ==
    /\ slot[u] # NoCall
    /\ slot[u] \notin over
    /\ slot' = [slot EXCEPT ![u] = NoCall]
    /\ over' = over \cup {slot[u]}
    /\ UNCHANGED <<used, open, gone>>

\* The shutdown empties every slot, once.
Sweep ==
    /\ open
    /\ open' = FALSE
    /\ slot' = [u \in Users |-> NoCall]
    /\ UNCHANGED <<over, used, gone>>

Leave ==
    /\ ~open /\ ~gone
    /\ gone' = TRUE
    /\ UNCHANGED <<slot, over, used, open>>

Next ==
    \/ \E u \in Users, c \in Calls : Occupy(u, c)
    \/ \E c \in Calls : End(c)
    \/ \E u \in Users : Vacate(u) \/ Abandon(u)
    \/ Sweep
    \/ Leave

Spec == Init /\ [][Next]_vars

=============================================================================
