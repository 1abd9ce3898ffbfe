------------------------------ MODULE PeerList ------------------------------
(***************************************************************************)
(* What the peering manager promises about the peers it is asked to keep:  *)
(* the list that Core.GetPeers shows.  A peer is listed from the moment it *)
(* is added; a persistent one stays listed, up or down, until somebody     *)
(* removes it or the node is stopped; no peer leaves while it is up, unless *)
(* the process dies.                                                        *)
(***************************************************************************)
CONSTANT Peers

VARIABLES
    listed,   \* the peers in the list
    kept,     \* the persistent ones among them
    up,       \* the ones that have a connection
    leaving,  \* the ones RemovePeer was called for
    halted    \* the node was stopped, or its process is gone

vars == <<listed, kept, up, leaving, halted>>

TypeOK ==
    /\ listed \subseteq Peers
    /\ kept \subseteq listed
    /\ up \subseteq listed
    /\ leaving \subseteq listed
    /\ halted \in BOOLEAN

Init ==
    /\ listed = {}
    /\ kept = {}
    /\ up = {}
    /\ leaving = {}
    /\ halted = FALSE

Add(i, persistent) ==
    /\ i \notin listed
    /\ listed' = listed \cup {i}
    /\ kept' = IF persistent THEN kept \cup {i} ELSE kept
    /\ UNCHANGED <<up, leaving, halted>>

Connect(i) ==
    /\ i \in listed \ up
    /\ up' = up \cup {i}
    /\ UNCHANGED <<listed, kept, leaving, halted>>

Disconnect(i) ==
    /\ i \in up
    /\ up' = up \ {i}
    /\ UNCHANGED <<listed, kept, leaving, halted>>

Remove(i) ==
    /\ i \in listed
    /\ leaving' = leaving \cup {i}
    /\ UNCHANGED <<listed, kept, up, halted>>

Leave(i) ==
    /\ i \in listed \ up
    /\ i \in kept => i \in leaving \/ halted
    /\ listed' = listed \ {i}
    /\ kept' = kept \ {i}
    /\ leaving' = leaving \ {i}
    /\ UNCHANGED <<up, halted>>

Halt ==
    /\ ~halted
    /\ halted' = TRUE
    /\ UNCHANGED <<listed, kept, up, leaving>>

\* The process dies.
Crash ==
    /\ listed' = {}
    /\ kept' = {}
    /\ up' = {}
    /\ leaving' = {}
    /\ halted' = TRUE

Next ==
    \/ \E i \in Peers :
         \/ \E persistent \in BOOLEAN : Add(i, persistent)
         \/ Connect(i)
         \/ Disconnect(i)
         \/ Remove(i)
         \/ Leave(i)
    \/ Halt
    \/ Crash

Spec == Init /\ [][Next]_vars
=============================================================================
