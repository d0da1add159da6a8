------------------------------- MODULE Reactor -------------------------------
(***************************************************************************)
(* The connection table and the canonical completion batch of the          *)
(* deterministic reactor (src/std/reactor.mind, src/std/io_canon.mind),    *)
(* between callers that submit operations and hardware that completes them *)
(* in any order.  One action per library call; an operation in flight and  *)
(* its completion are external.                                            *)
(***************************************************************************)
EXTENDS Integers, Sequences, FiniteSets, SequencesExt, Bags

CONSTANTS
    Conns,      \* connection ids, integers
    MaxConns,   \* reactor_max_conns
    Sizes,      \* the table sizes callers ask for
    Batch,      \* canon_new's cap
    Ops,        \* operation codes, integers
    Results,    \* results of operations, integers
    MaxReq,     \* bound: requests per connection while it is tracked
    MaxFlight   \* bound: operations in flight

ASSUME ReactorAssumption ==
    /\ Conns \subseteq Int /\ Ops \subseteq Int /\ Results \subseteq Int
    /\ MaxConns \in Nat /\ Sizes \subseteq Int /\ Batch \in Nat \ {0}
    /\ MaxReq \in Nat /\ MaxFlight \in Nat

VARIABLES
    cap,        \* the slots there are, 0 while there is no table
    slots,      \* the table: [conn, next] for the tracked connections, dense
    reply,      \* the result of the last call on the table
    flight,     \* bag of submitted operations <<conn, req, op>>
    buf, len,   \* the batch: its records, and how many of them count
    pushed,     \* history: bag of the events pushed since the last clear
    drained,    \* what canon_drain wrote since the last push, or <<>>
    reopened    \* history: a connection was closed with operations in flight
                \*   or completions in the batch

reactorVars == <<cap, slots, reply, flight, buf, len, pushed, drained, reopened>>

ReactorInit ==
    /\ cap = 0 /\ slots = <<>> /\ reply = 0
    /\ flight = EmptyBag
    /\ buf = <<>> /\ len = 0
    /\ pushed = EmptyBag
    /\ drained = <<>>
    /\ reopened = FALSE

-----------------------------------------------------------------------------
\* reactor_index_of: the first slot of a connection, or 0.
IndexOf(c) == SelectInSeq(slots, LAMBDA s : s.conn = c)

\* Operations in flight and completions not yet cleared.
Pending == BagToSet(flight) \cup BagToSet(pushed)

ReactorNew(n) ==
    /\ cap = 0
    /\ \/ 0 < n /\ n <= MaxConns /\ cap' = n /\ reply' = 1
       \/ reply' = 0 /\ UNCHANGED cap
    /\ UNCHANGED <<slots, flight, buf, len, pushed, drained, reopened>>

ReactorFree ==
    /\ cap > 0 /\ cap' = 0 /\ slots' = <<>> /\ reply' = 0
    /\ reopened' = (reopened \/ Pending # {})
    /\ UNCHANGED <<flight, buf, len, pushed, drained>>

ReactorAccept(c) ==
    /\ cap > 0
    /\ IF IndexOf(c) > 0 \/ Len(slots) >= cap
       THEN reply' = (IF IndexOf(c) > 0 THEN 1 ELSE 0) /\ UNCHANGED slots
       ELSE reply' = 1 /\ slots' = Append(slots, [conn |-> c, next |-> 0])
    /\ UNCHANGED <<cap, flight, buf, len, pushed, drained, reopened>>

\* reactor_next_req; the caller submits an operation under the number it got.
ReactorNextReq(c, op) ==
    LET i == IndexOf(c) IN
    /\ cap > 0 /\ BagCardinality(flight) < MaxFlight
    /\ IF i = 0
       THEN reply' = -1 /\ UNCHANGED <<slots, flight>>
       ELSE /\ slots[i].next < MaxReq
            /\ reply' = slots[i].next
            /\ slots' = [slots EXCEPT ![i].next = @ + 1]
            /\ flight' = flight (+) SetToBag({<<c, slots[i].next, op>>})
    /\ UNCHANGED <<cap, buf, len, pushed, drained, reopened>>

\* Mutant: the slot moved into the gap starts counting anew.
WithoutResetting(i) ==
    LET last == slots[Len(slots)]
    IN  Front(IF i = Len(slots) THEN slots ELSE [slots EXCEPT ![i] = [last EXCEPT !.next = 0]])

\* The table without slot i: the last slot takes its place.
Without(i) == Front([slots EXCEPT ![i] = slots[Len(slots)]])

ReactorClose(c) ==
    LET i == IndexOf(c) IN
    /\ cap > 0
    /\ reply' = (IF i = 0 THEN 0 ELSE 1)
    /\ slots' = IF i = 0 THEN slots ELSE Without(i)
    /\ reopened' = (reopened \/ (i > 0 /\ \E o \in Pending : o[1] = c))
    /\ UNCHANGED <<cap, flight, buf, len, pushed, drained>>

-----------------------------------------------------------------------------
\* The hardware completes an operation and canon_push records it.  When the
\* batch is full the completion stays with the hardware.
Complete(o, result) ==
    /\ BagIn(o, flight) /\ len < Batch
    /\ flight' = flight (-) SetToBag({o})
    /\ buf' = [k \in 1 .. (IF Len(buf) > len THEN Len(buf) ELSE len + 1) |->
                 IF k = len + 1 THEN Append(o, result) ELSE buf[k]]
    /\ len' = len + 1
    /\ pushed' = pushed (+) SetToBag({Append(o, result)})
    /\ drained' = <<>>
    /\ UNCHANGED <<cap, slots, reply, reopened>>

\* Mutant: only the key (conn_id, req_id) is compared.
KeyLess(e, f) == \E k \in 1 .. 2 : e[k] < f[k] /\ \A m \in 1 .. k - 1 : e[m] = f[m]

\* canon_less: all four fields, in order.
CanonLess(e, f) == \E k \in 1 .. 4 : e[k] < f[k] /\ \A m \in 1 .. k - 1 : e[m] = f[m]

Swapped(b, i, k) == [b EXCEPT ![i] = b[k], ![k] = b[i]]

\* The first least event of positions i .. n.
MinFrom(b, i, n) ==
    LET Least[k \in 0 .. n - i] ==
            IF k = 0 THEN i
            ELSE IF CanonLess(b[i + k], b[Least[k - 1]]) THEN i + k ELSE Least[k - 1]
    IN  Least[n - i]

\* canon_sort: selection sort of the events that count.
CanonSort(b, n) ==
    LET After[i \in 0 .. n] ==
            IF i = 0 THEN b
            ELSE Swapped(After[i - 1], i, MinFrom(After[i - 1], i, n))
    IN  After[n]

\* The records canon_drain writes.
Written(b, n) == SubSeq(b, 1, n)

\* canon_drain into room for `room` events, and canon_anchor, whose scratch
\* buffer has room for all.  The batch is sorted even when it does not fit.
CanonDrain(room) ==
    /\ buf' = CanonSort(buf, len)
    /\ drained' = IF room < len THEN <<>> ELSE Written(buf', len)
    /\ UNCHANGED <<cap, slots, reply, flight, len, pushed, reopened>>

CanonClear ==
    /\ len' = 0 /\ pushed' = EmptyBag /\ drained' = <<>>
    /\ UNCHANGED <<cap, slots, reply, flight, buf, reopened>>

ReactorNext ==
    \/ \E n \in Sizes : ReactorNew(n)
    \/ ReactorFree
    \/ \E c \in Conns :
         ReactorAccept(c) \/ ReactorClose(c) \/ \E op \in Ops : ReactorNextReq(c, op)
    \/ \E o \in BagToSet(flight), r \in Results : Complete(o, r)
    \/ \E room \in 0 .. Batch : CanonDrain(room)
    \/ CanonClear

ReactorSpec == ReactorInit /\ [][ReactorNext]_reactorVars

-----------------------------------------------------------------------------
Counters == [c \in {slots[i].conn : i \in DOMAIN slots} |-> slots[IndexOf(c)].next]

Table == INSTANCE ConnTable WITH counter <- Counters, room <- cap

\* How often an element is in a bag.
Copies(e, B) == IF BagIn(e, B) THEN B[e] ELSE 0

Events == Conns \X (0 .. MaxReq) \X Ops \X Results

\* Closing one connection, which moves another's slot, never loses or changes
\* the counter of any other: the table behaves as a map (reactor_accept,
\* reactor_next_req, reactor_close).
ImplementsTable == Table!Spec

\* The drained sequence is a function of the multiset of completions: it holds
\* each event pushed since the last clear as often as it was pushed, none of
\* an earlier tick, in the one order of all four fields, also when two events
\* share their key (canon_drain).
DrainCanonical ==
    drained # <<>> =>
        /\ \A e \in Events :
             Cardinality({k \in DOMAIN drained : drained[k] = e}) = Copies(e, pushed)
        /\ \A k \in 1 .. Len(drained) - 1 :
             LET e == drained[k]
                 f == drained[k + 1]
                 differ == {m \in 1 .. 4 : e[m] # f[m]}
             IN  \A m \in differ : (\A n \in differ : m <= n) => e[m] < f[m]

\* As long as no connection is closed with operations pending, the key
\* (conn_id, req_id) is unique among those in flight and in the batch.  It is
\* not when one is: the counter starts at 0 again (reactor_next_req).
KeysUnique ==
    ~reopened =>
        \A o1, o2 \in Pending :
            <<o1[1], o1[2]>> = <<o2[1], o2[2]>> =>
                o1 = o2 /\ Copies(o1, flight (+) pushed) = 1
=============================================================================
