------------------------------ MODULE ConnTable ------------------------------
(***************************************************************************)
(* What the reactor's table promises its callers: a number for every       *)
(* connection it tracks, at most room of them, handed out and advanced.    *)
(* room is 0 while there is no table.                                      *)
(***************************************************************************)
EXTENDS Integers, FiniteSets

CONSTANT Conns      \* connection ids

VARIABLES room,     \* the connections that fit
          counter,  \* the tracked connections and their next request number
          reply     \* the result of the last call

NoCounters == [c \in {} |-> 0]

Init == room = 0 /\ counter = NoCounters /\ reply = 0

New == room = 0 /\ room' \in Nat \ {0} /\ counter' = NoCounters /\ reply' = 1

Refuse == room = 0 /\ reply' = 0 /\ UNCHANGED <<room, counter>>

Free == room > 0 /\ room' = 0 /\ counter' = NoCounters /\ reply' = 0

Accept(c) ==
    /\ \/ c \in DOMAIN counter /\ reply' = 1 /\ UNCHANGED counter
       \/ /\ c \notin DOMAIN counter /\ Cardinality(DOMAIN counter) < room
          /\ counter' = [d \in DOMAIN counter \cup {c} |-> IF d = c THEN 0 ELSE counter[d]]
          /\ reply' = 1
       \/ /\ c \notin DOMAIN counter /\ Cardinality(DOMAIN counter) = room
          /\ reply' = 0 /\ UNCHANGED counter
    /\ UNCHANGED room

NextReq(c) ==
    /\ \/ /\ c \in DOMAIN counter
          /\ reply' = counter[c] /\ counter' = [counter EXCEPT ![c] = @ + 1]
       \/ c \notin DOMAIN counter /\ reply' = -1 /\ UNCHANGED counter
    /\ UNCHANGED room

Close(c) ==
    /\ reply' = IF c \in DOMAIN counter THEN 1 ELSE 0
    /\ counter' = [d \in DOMAIN counter \ {c} |-> counter[d]]
    /\ UNCHANGED room

Next ==
    \/ New \/ Refuse \/ Free
    \/ room > 0 /\ \E c \in Conns : Accept(c) \/ NextReq(c) \/ Close(c)

Spec == Init /\ [][Next]_<<room, counter, reply>>
=============================================================================
