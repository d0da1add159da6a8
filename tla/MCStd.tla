------------------------------- MODULE MCStd -------------------------------
(***************************************************************************)
(* Five modules of the standard library that share nothing: each is        *)
(* explored with the others at rest.                                       *)
(***************************************************************************)
EXTENDS Reactor, ByteRing, Arena, Senders, Containers

VARIABLE library    \* the one that is called

Init ==
    /\ ReactorInit /\ RingInit /\ ArenaInit /\ SendersInit /\ ContainersInit
    /\ library \in {"reactor", "ring", "arena", "async", "containers"}

Next ==
    \/ /\ library = "reactor" /\ ReactorNext
       /\ UNCHANGED <<ringVars, arenaVars, senderVars, containerVars, library>>
    \/ /\ library = "ring" /\ RingBulkNext
       /\ UNCHANGED <<reactorVars, arenaVars, senderVars, containerVars, library>>
    \/ /\ library = "arena" /\ ArenaNext
       /\ UNCHANGED <<reactorVars, ringVars, senderVars, containerVars, library>>
    \/ /\ library = "async" /\ SendersNext
       /\ UNCHANGED <<reactorVars, ringVars, arenaVars, containerVars, library>>
    \/ /\ library = "containers" /\ ContainersNext
       /\ UNCHANGED <<reactorVars, ringVars, arenaVars, senderVars, library>>

Spec ==
    Init /\ [][Next]_<<reactorVars, ringVars, arenaVars, senderVars, containerVars, library>>
=============================================================================
