---------------------------- MODULE MCTcpStream ----------------------------
EXTENDS TcpStream, TLC

CONSTANTS a, b

\* The bytes to write: b writes first, as the end does that opens the SSL session.
TotalOne == (a :> 0) @@ (b :> 2)

\* The numbers of b wrap around.
Isns == (a :> <<3, 5>>) @@ (b :> <<SeqSpace - 2, 1>>)

\* The data goes to a, and may be reordered.
Capacities == (a :> 2) @@ (b :> 1)
\* Bounds: the reader does not end its own half before it has read something.
ReadsFirst == Connected(stream[a]) /\ ~stream[a].outStreamActive => got[a] # <<>>
=============================================================================
