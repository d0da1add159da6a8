------------------------------ MODULE Senders ------------------------------
(***************************************************************************)
(* Senders and the replay scheduler (src/std/async.mind).  A sender is a   *)
(* record with a start value and an array of stages; `then` returns a new  *)
(* record and writes the new stage into the same array as long as there is *)
(* room.  Nothing is ever freed.                                           *)
(***************************************************************************)
EXTENDS Integers, Sequences

CONSTANTS
    MinCap,     \* entries of a first allocation, 4
    Works,      \* the integers callers submit and chain
    MaxSenders, \* bound: senders made
    MaxTrace,   \* bound: events recorded
    Unset       \* an entry that was never written

ASSUME SendersAssumption ==
    /\ MinCap \in Nat \ {0} /\ Works \subseteq Int /\ MaxSenders \in Nat /\ MaxTrace \in Nat
    /\ Unset \notin Int

VARIABLES
    arrays,     \* the arrays of stages, by address
    senders,    \* the records [thunk, chain, len, cap], by handle
    trace,      \* the log of the replay scheduler: [mem, cap, len]
    lineage,    \* history: for each sender [line, stages], itself with those
                \*   it was made from, and the stages it stands for
    ran         \* history: the events of all runs

senderVars == <<arrays, senders, trace, lineage, ran>>

SendersInit ==
    /\ arrays = <<>> /\ senders = <<>> /\ lineage = <<>>
    /\ trace = [mem |-> <<>>, cap |-> 0, len |-> 0] /\ ran = <<>>

-----------------------------------------------------------------------------
\* The capacity after one more entry.
NewCap(len, cap) ==
    IF cap = 0 THEN MinCap ELSE IF len < cap THEN cap ELSE cap * 2

\* Mutant: the old entries are not copied.
MovedEmpty(old, len, cap) == [i \in 1 .. cap |-> Unset]

\* A new array of cap entries with the first len of the old one.
Moved(old, len, cap) == [i \in 1 .. cap |-> IF i <= len THEN old[i] ELSE Unset]

\* The array behind an append to the first len entries of old.  A write past
\* the end is kept, to be seen.
Appended(old, len, cap, v) ==
    LET mem == IF NewCap(len, cap) = cap THEN old ELSE Moved(old, len, NewCap(len, cap))
    IN  [i \in DOMAIN mem \cup {len + 1} |-> IF i = len + 1 THEN v ELSE mem[i]]

Submit(work) ==
    /\ Len(senders) < MaxSenders
    /\ senders' = Append(senders, [thunk |-> work, chain |-> 0, len |-> 0, cap |-> 0])
    /\ lineage' = Append(lineage, [line |-> {Len(senders) + 1}, stages |-> <<>>])
    /\ UNCHANGED <<arrays, trace, ran>>

\* then, that is snd_chain_append.
Then(s, delta) ==
    LET o   == senders[s]
        cap == NewCap(o.len, o.cap)
        old == IF o.chain = 0 THEN <<>> ELSE arrays[o.chain]
        mem == Appended(old, o.len, o.cap, delta)
        at  == IF cap = o.cap THEN o.chain ELSE Len(arrays) + 1
    IN  /\ Len(senders) < MaxSenders
        /\ arrays' = IF at = o.chain THEN [arrays EXCEPT ![at] = mem] ELSE Append(arrays, mem)
        /\ senders' = Append(senders, [thunk |-> o.thunk, chain |-> at, len |-> o.len + 1, cap |-> cap])
        /\ lineage' = Append(lineage, [line |-> lineage[s].line \cup {Len(senders) + 1},
                                       stages |-> Append(lineage[s].stages, delta)])
        /\ UNCHANGED <<trace, ran>>

\* The stages a sender reads.
Stages(s) == [i \in 1 .. senders[s].len |-> arrays[senders[s].chain][i]]

TraceAppend(t, e) ==
    [mem |-> Appended(t.mem, t.len, t.cap, e), cap |-> NewCap(t.len, t.cap), len |-> t.len + 1]

\* The log after some events, one after the other.
Recorded(events) ==
    LET After[n \in 0 .. Len(events)] ==
            IF n = 0 THEN trace ELSE TraceAppend(After[n - 1], events[n])
    IN  After[Len(events)]

\* run under the replay scheduler; the value it returns is the sum of the
\* events.  Under the other scheduler nothing changes.
Run(s) ==
    LET events == <<senders[s].thunk>> \o Stages(s)
    IN  /\ trace.len + Len(events) <= MaxTrace
        /\ trace' = Recorded(events)
        /\ ran' = ran \o events
        /\ UNCHANGED <<arrays, senders, lineage>>

SendersNext ==
    \/ \E v \in Works : Submit(v) \/ \E s \in DOMAIN senders : Then(s, v)
    \/ \E s \in DOMAIN senders : Run(s)

SendersSpec == SendersInit /\ [][SendersNext]_senderVars

-----------------------------------------------------------------------------
\* A later `then` wrote its stage where a has its last one: both are that many
\* entries into the same array.
Overwritten(a) ==
    \E b \in DOMAIN senders : /\ b > a /\ senders[b].chain > 0
                              /\ senders[b].chain = senders[a].chain
                              /\ senders[b].len = senders[a].len

\* A sender keeps the stages it was made with, whatever is chained to it or
\* to others later, unless a `then` took the place of a stage of its line:
\* the second one on some sender, or a later one on what came of the first
\* two, which share an array (then: "The Sender is treated as a value
\* (immutable)").
PipelinesKept ==
    \A s \in DOMAIN senders :
        (\A a \in lineage[s].line : ~Overwritten(a)) => Stages(s) = lineage[s].stages

\* The log of the replay scheduler is the events of all runs, in order, over
\* any number of reallocations (trace_append).
TraceExact == [i \in 1 .. trace.len |-> trace.mem[i]] = ran
=============================================================================
