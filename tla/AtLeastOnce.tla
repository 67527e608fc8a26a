------------------------------ MODULE AtLeastOnce ------------------------------
(***************************************************************************)
(* What a consumer that commits after the outcome promises, and nothing     *)
(* about how it is done: every record of a partition gets an outcome in     *)
(* offset order, and an offset is committed only when every record below it *)
(* has one.  A record may get its outcome again after a restart.            *)
(***************************************************************************)
EXTENDS Integers, Sequences

CONSTANTS Partitions,
          Log          \* [Partitions -> sequence of records]

VARIABLES resolved,    \* records that have had an outcome
          committed    \* [Partitions -> offset of the next record to deliver]

vars == <<resolved, committed>>

PrefixResolved(p, n) == \A i \in 1 .. n : Log[p][i] \in resolved

Init == resolved = {} /\ committed = [p \in Partitions |-> 0]

Resolve(p, i) ==
    /\ PrefixResolved(p, i - 1)
    /\ resolved' = resolved \cup {Log[p][i]}
    /\ UNCHANGED committed

Commit(upto) ==
    /\ \A p \in Partitions : committed[p] <= upto[p] /\ PrefixResolved(p, upto[p])
    /\ committed' = upto
    /\ UNCHANGED resolved

Offsets == {c \in [Partitions -> UNION {0 .. Len(Log[p]) : p \in Partitions}] :
              \A p \in Partitions : c[p] <= Len(Log[p])}

Next == \/ \E p \in Partitions : \E i \in 1 .. Len(Log[p]) : Resolve(p, i)
        \/ \E upto \in Offsets : Commit(upto)

Spec == Init /\ [][Next]_vars
=============================================================================
