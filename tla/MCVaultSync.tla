----------------------------- MODULE MCVaultSync -----------------------------
(***************************************************************************)
(* Model checking of VaultSync: which device each worker serves, and what  *)
(* the users do.                                                            *)
(***************************************************************************)
EXTENDS VaultSync

CONSTANTS d1, d2, w1, w2, w3, r1, r2, r3

\* One synchronization at a time on each of two devices.
Serial == (w1 :> d1) @@ (w2 :> d2)

\* Two at a time on the first device, as its polls and its saves do.
Overlapping == (w1 :> d1) @@ (w2 :> d1) @@ (w3 :> d2)

\* Requests open their transactions as soon as they have read the clock, ...
Case(host, first, second, ids, time) ==
    [host |-> host, does |-> (d1 :> first) @@ (d2 :> second), ids |-> ids,
     time |-> time, lag |-> 0]

\* ... or at any time after.
Waiting(case) == [case EXCEPT !.lag = case.time]

\* One device makes and trashes what the other edits and reconciles.
Reconciles ==
    Case(Serial, {"create", "delete"}, {"edit", "resolve"}, RevId, MaxTime)

\* Both devices empty the trash, where one restores and the other edits.
Discards ==
    Case(Serial, {"create", "restore", "purge"}, {"edit", "delete", "purge"}, RevId, MaxTime)

\* The trash expires and the log is pruned by clocks that were read before the last
\* transaction.
Delays ==
    Waiting(Case(Serial, {"create", "delete"}, {"edit", "delete", "purge"}, {r1, r2, r3}, MaxTime))

\* One device makes and empties the trash, two requests at a time; the other
\* reads along.
Trims ==
    Case(Overlapping, {"create", "delete", "purge"}, {}, {r1, r2, r3}, 0)

\* The first device deletes for good what the second edits and then resolves.
Disagrees ==
    Case(Serial, {"create", "delete", "purge"}, {"edit", "resolve"}, RevId, MaxTime)

Safety   == {Reconciles, Discards, Trims, Delays}
Edits    == {Case(Serial, {"create", "edit"}, {"create", "edit"}, RevId, MaxTime)}
Wedges   == {Case(Serial, {"create", "delete", "purge"}, {"create", "delete", "purge"},
                  RevId, MaxTime)}
Overlaps == {Case(Overlapping, {"create", "edit"}, {"create", "edit"}, RevId, MaxTime)}
Scrubs   == {Disagrees}
=============================================================================
