------------------------------ MODULE MCTurtle ------------------------------
EXTENDS Turtle, TLC

CONSTANTS s, m, d, h

\* Three friends, so that there are two routes from s to d.
Triangle == (s :> {m, d}) @@ (m :> {s, d}) @@ (d :> {s, m})

\* s and d both serve the hash and monitor it, as rsgxsnettunnel does; m passes on.
ServedByEnds == (s :> {h}) @@ (m :> {}) @@ (d :> {h})
WantedByEnds == (s :> {h}) @@ (m :> {}) @@ (d :> {h})

\* Bounds: of the two, only s stops to monitor the hash.
KeepsMonitoring == toRemove[d] = {}
=============================================================================
