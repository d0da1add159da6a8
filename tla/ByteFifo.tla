------------------------------ MODULE ByteFifo ------------------------------
(***************************************************************************)
(* What a byte ring promises: a queue of at most `room` bytes.  room is 0  *)
(* while no ring exists; answer holds the results of the last call.        *)
(***************************************************************************)
EXTENDS Integers, Sequences

CONSTANTS ByteBase, \* the number of byte values
          Inputs,   \* the integers callers push
          MaxBulk   \* the bytes of one bulk call

VARIABLES queue, room, answer

Init == queue = <<>> /\ room = 0 /\ answer = <<>>

New == room = 0 /\ room' \in Nat \ {0} /\ queue' = <<>> /\ answer' = <<1>>

Refuse == room = 0 /\ answer' = <<0>> /\ UNCHANGED <<queue, room>>

Push(v) ==
    /\ room > 0
    /\ IF Len(queue) < room
       THEN queue' = Append(queue, v % ByteBase) /\ answer' = <<1>>
       ELSE queue' = queue /\ answer' = <<0>>
    /\ UNCHANGED room

Pop ==
    /\ room > 0
    /\ IF queue # <<>>
       THEN queue' = Tail(queue) /\ answer' = <<Head(queue)>>
       ELSE queue' = queue /\ answer' = <<-1>>
    /\ UNCHANGED room

Clear == room > 0 /\ queue' = <<>> /\ answer' = <<0>> /\ UNCHANGED room

Free == room > 0 /\ queue' = <<>> /\ room' = 0 /\ answer' = <<0>>

\* The first bytes of vs that there is room for; the answer is their number.
Write(vs) ==
    /\ room > 0
    /\ LET n == IF Len(vs) < room - Len(queue) THEN Len(vs) ELSE room - Len(queue)
       IN  /\ queue' = queue \o [k \in 1 .. n |-> vs[k] % ByteBase]
           /\ answer' = <<n>>
    /\ UNCHANGED room

\* Up to n bytes leave the queue; the answer is the bytes.
Read(n) ==
    /\ room > 0
    /\ LET m == IF n < Len(queue) THEN n ELSE Len(queue)
       IN  /\ queue' = SubSeq(queue, m + 1, Len(queue))
           /\ answer' = SubSeq(queue, 1, m)
    /\ UNCHANGED room

Next == New \/ Refuse \/ (\E v \in Inputs : Push(v)) \/ Pop \/ Clear \/ Free

BulkNext ==
    \/ Next
    \/ \E n \in 0 .. MaxBulk : Read(n) \/ \E vs \in [1 .. n -> Inputs] : Write(vs)

Spec == Init /\ [][BulkNext]_<<queue, room, answer>>
=============================================================================
