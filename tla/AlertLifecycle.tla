---------------------------- MODULE AlertLifecycle ----------------------------
(***************************************************************************)
(* The life of an alert in the collector: what one sweep makes of the table  *)
(* of alerts (state.Reconcile) and what a progress snapshot makes of it in   *)
(* the middle of a sweep (Runner.writeProgressSnapshot).  Pure operators;    *)
(* CollectorCycle gives them a behaviour.                                    *)
(*                                                                          *)
(* An alert is one item of one source.  Its publication date is the time of  *)
(* the sweep that reads it, as normalize gives it to an undated item.  Left  *)
(* out: the statuses `updated` and `removed`, which only dedicated feeds     *)
(* use, and suppression of duplicates of one alert by another.               *)
(***************************************************************************)
EXTENDS Integers

CONSTANTS Sources,       \* sources of alerts, in the registry or not
          Alerts,        \* alert ids
          Owner,         \* source of each alert
          Accumulating,  \* sources whose alerts carry forward (paginated APIs)
          Weak,          \* alerts that FilterActive refuses
          Cooldown,      \* AlertCooldownHours
          Stale,         \* AlertStaleDays
          Archive        \* AlertArchiveDays

ASSUME LifecycleTyped ==
    /\ Owner \in [Alerts -> Sources]
    /\ Accumulating \subseteq Sources
    /\ Weak \subseteq Alerts
    /\ Cooldown \in Nat /\ Stale \in Nat /\ Archive \in Nat

Statuses == {"none", "active", "filtered", "cooldown", "stale", "archived"}
Shown    == {"active", "cooldown", "stale"}   \* what Reconcile returns as currentActive

Rows   == [status : Statuses, first : Nat, last : Nat]
Tables == [Alerts -> Rows]
Gone   == [status |-> "none", first |-> 0, last |-> 0]
Empty  == [a \in Alerts |-> Gone]

\* Alerts of a batch that was fetched in the sweep that began at t.
Batch(fetched, t) ==
    [a \in Alerts |->
        IF a \in fetched THEN [status |-> "active", first |-> t, last |-> t] ELSE Gone]

-----------------------------------------------------------------------------
\* The switch over the three horizons; they are compared in this order and
\* nothing checks that they grow.
StatusAtAge(n) ==
    CASE n <= Cooldown -> "cooldown"
      [] n > Cooldown /\ n <= Stale -> "stale"
      [] n > Cooldown /\ n > Stale /\ n <= Archive -> "archived"
      [] OTHER -> "none"

\* An alert of the current batch: active or filtered, with the date it was seen first.
Sighted(a, row, prev, t) ==
    [status |-> IF a \in Weak THEN "filtered" ELSE "active",
     first  |-> IF prev = Gone THEN row.first ELSE prev.first,
     last   |-> t]

\* Mutant of Missing: ageing an alert touches last_seen.
MissingTouched(a, prev, t) ==
    LET status == StatusAtAge(t - prev.last) IN
    IF prev = Gone \/ (Owner[a] \in Accumulating /\ prev.status = "active") THEN prev
    ELSE IF status = "none" THEN Gone
    ELSE [prev EXCEPT !.status = status, !.last = t]

\* A known alert that is not in the current batch.
Missing(a, prev, t) ==
    LET status == StatusAtAge(t - prev.last) IN
    IF prev = Gone \/ (Owner[a] \in Accumulating /\ prev.status = "active") THEN prev
    ELSE IF status = "none" THEN Gone
    ELSE [prev EXCEPT !.status = status]

Reconcile(batch, prev, t) ==
    [a \in Alerts |->
        IF batch[a] # Gone THEN Sighted(a, batch[a], prev[a], t) ELSE Missing(a, prev[a], t)]

\* currentActive of a reconciled table.
Visible(table) == [a \in Alerts |-> IF table[a].status \in Shown THEN table[a] ELSE Gone]

\* Sources with an alert in a batch.
Owners(batch) == {Owner[a] : a \in {b \in Alerts : batch[b] # Gone}}

\* Mutant of Purged: nothing is purged.
PurgedNever(table, kept) == table

\* purgeOrphanAlerts.
Purged(table, kept) == [a \in Alerts |-> IF Owner[a] \in kept THEN table[a] ELSE Gone]

-----------------------------------------------------------------------------
\* Old rows go as soon as their source has fresh ones; filtered alerts of
\* either kind are not stored.
Snapshot(batch, prev) ==
    LET carried == {a \in Alerts : Owner[a] \notin Owners(batch) /\ prev[a].status # "filtered"}
    IN [a \in Alerts |->
            CASE a \in Weak -> Gone
              [] a \notin Weak /\ batch[a] # Gone -> batch[a]
              [] a \notin Weak /\ batch[a] = Gone /\ a \in carried -> prev[a]
              [] OTHER -> Gone]
=============================================================================
