----------------------------- MODULE HttpService -----------------------------
(***************************************************************************)
(* What a client may rely on, whichever server it talks to: requests are   *)
(* answered at most once and in order, the pieces of the answers arrive in *)
(* order without a gap, and nothing is answered after the connection       *)
(* ended.  A request may stay without an answer.                           *)
(***************************************************************************)
EXTENDS Naturals, Sequences

CONSTANTS Conns, PiecesPerAnswer

VARIABLES
    sent,       \* requests begun on each connection
    answered,   \* the requests answered, in order
    delivered,  \* pieces the client has
    ended       \* the server gave the connection up

vars == <<sent, answered, delivered, ended>>

LastAnswered(c) == IF answered[c] = <<>> THEN 0 ELSE answered[c][Len(answered[c])]

Init ==
    /\ sent = [c \in Conns |-> 0]
    /\ answered = [c \in Conns |-> <<>>]
    /\ delivered = [c \in Conns |-> <<>>]
    /\ ended = [c \in Conns |-> FALSE]

Ask(c) ==
    /\ ~ended[c]
    /\ sent' = [sent EXCEPT ![c] = @ + 1]
    /\ UNCHANGED <<answered, delivered, ended>>

Answer(c, n) ==
    /\ ~ended[c] /\ LastAnswered(c) < n /\ n <= sent[c]
    /\ answered' = [answered EXCEPT ![c] = Append(@, n)]
    /\ UNCHANGED <<sent, delivered, ended>>

Deliver(c) ==
    /\ Len(delivered[c]) < PiecesPerAnswer * Len(answered[c])
    /\ delivered' = [delivered EXCEPT ![c] = Append(@, Len(@) + 1)]
    /\ UNCHANGED <<sent, answered, ended>>

End(c) ==
    /\ ~ended[c]
    /\ ended' = [ended EXCEPT ![c] = TRUE]
    /\ UNCHANGED <<sent, answered, delivered>>

Next ==
    \E c \in Conns :
        \/ Ask(c)
        \/ \E n \in 1..sent[c] : Answer(c, n)
        \/ Deliver(c)
        \/ End(c)

Spec == Init /\ [][Next]_vars
==============================================================================
