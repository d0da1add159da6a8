------------------------------ MODULE HandleMap ------------------------------
(***************************************************************************)
(* What generation-checked references promise (RFC 0010, Tier 3): a handle *)
(* is a name that is given out once, for ever; while its allocation lives, *)
(* it leads to that allocation and to no other; afterwards it leads to     *)
(* nothing, whatever has been allocated since.                             *)
(***************************************************************************)
CONSTANTS Addrs,    \* heap addresses
          Handles,  \* the names there are
          Asked,    \* the handles a caller may pass, names or not
          Null      \* the answer of a failed dereference

VARIABLES live,     \* handle -> address of its live allocation
          issued,   \* every handle given out so far
          answer    \* the last call: <<operation, argument, result>>

InUse == {live[h] : h \in DOMAIN live}

Init == live = [h \in {} |-> Null] /\ issued = {} /\ answer = <<"none", Null, Null>>

\* A handle never given out before, for an address no live handle leads to.
Alloc ==
  \E h \in Handles \ issued, a \in Addrs \ InUse :
    /\ live' = [g \in DOMAIN live \cup {h} |-> IF g = h THEN a ELSE live[g]]
    /\ issued' = issued \cup {h}
    /\ answer' = <<"alloc", Null, h>>

Deref(h) ==
  /\ answer' = <<"deref", h, IF h \in DOMAIN live THEN live[h] ELSE Null>>
  /\ UNCHANGED <<live, issued>>

\* Freeing a dead handle does nothing.
Free(h) ==
  /\ live' = [g \in DOMAIN live \ {h} |-> live[g]]
  /\ answer' = <<"free", h, Null>>
  /\ UNCHANGED issued

\* A request for no bytes.
Refuse == answer' = <<"alloc", Null, Null>> /\ UNCHANGED <<live, issued>>

Next == Alloc \/ Refuse \/ \E h \in Asked : Deref(h) \/ Free(h)

Spec == Init /\ [][Next]_<<live, issued, answer>>
=============================================================================
