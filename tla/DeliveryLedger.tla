--------------------------- MODULE DeliveryLedger ---------------------------
(***************************************************************************)
(* At-most-once delivery, whatever threads, queues and tables lie between  *)
(* the one who hands something over and the one who gets it.  What was     *)
(* accepted is pending, then either taken, once, or lost; nothing taken or *)
(* lost comes back.  The scheduler promises this for the occurrences of    *)
(* scheduled tasks, the native picker for its results.                     *)
(***************************************************************************)
EXTENDS Integers

VARIABLES
    accepted,   \* number of things accepted so far; the n-th is called n
    pending,    \* accepted and neither taken nor lost
    taken,
    lost

ledger == <<accepted, pending, taken, lost>>

Init ==
    /\ accepted = 0
    /\ pending = {}
    /\ taken = {}
    /\ lost = {}

\* Each step may lose some of what is pending.
Accept(L) ==
    /\ L \subseteq pending
    /\ accepted' = accepted + 1
    /\ pending' = (pending \ L) \cup {accepted + 1}
    /\ lost' = lost \cup L
    /\ UNCHANGED taken

Take(n, L) ==
    /\ n \in pending \ L
    /\ L \subseteq pending
    /\ pending' = pending \ (L \cup {n})
    /\ taken' = taken \cup {n}
    /\ lost' = lost \cup L
    /\ UNCHANGED accepted

Lose(L) ==
    /\ L \subseteq pending
    /\ pending' = pending \ L
    /\ lost' = lost \cup L
    /\ UNCHANGED <<accepted, taken>>

Next == \E L \in SUBSET pending :
            Accept(L) \/ Lose(L) \/ \E n \in pending \ L : Take(n, L)

Spec == Init /\ [][Next]_ledger
=============================================================================
