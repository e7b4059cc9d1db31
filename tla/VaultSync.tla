------------------------------ MODULE VaultSync ------------------------------
(***************************************************************************)
(* Devices synchronizing the encrypted cache of one account with the       *)
(* server of VaultServer: client.Cache, client.SyncCache, and what the     *)
(* terminal interface offers its user to do with the items it shows.       *)
(*                                                                         *)
(* A device has one cache file, used under an exclusive file lock, and any *)
(* number of workers that synchronize it: every terminal polls every 30 s, *)
(* a save synchronizes again without waiting for the poll, and terminals   *)
(* share the file.  A request carries a snapshot of the cache; its reply   *)
(* is applied to whatever the cache holds by then.                         *)
(*                                                                         *)
(* Requests and replies get lost, and a request whose client has given up  *)
(* may still be executed.  Between Receive and Reply only the server moves:*)
(* its transaction touches nothing a client sees, so this loses no         *)
(* behaviour of the clients.                                               *)
(***************************************************************************)
EXTENDS VaultServer, Sequences, SequencesExt

CONSTANTS
    Device,      \* one cache file each
    Worker,      \* concurrent synchronizations
    Scenarios,   \* what happens in a behaviour, for model checking
    MaxBatch,    \* maximumSyncMutations, 100 in the code
    MaxFailures  \* bound on lost messages and server errors, for model checking

ASSUME WorkerAssumption ==
    /\ \A s \in Scenarios :
        /\ DOMAIN s.host \subseteq Worker /\ DOMAIN s.does = Device
        /\ \A w \in DOMAIN s.host : s.host[w] \in Device
        /\ s.ids \subseteq RevId /\ s.time \in 0 .. MaxTime
    /\ MaxBatch \in Nat
    /\ MaxFailures \in Nat

VARIABLES
    scenario,  \* who works for which device, what its user does, and the bounds
    issued,    \* every revision a device has made
    cache,     \* the cache file of each device
    view,      \* the heads its interface last listed, of the items
    trash,     \* and of the trash, which is listed apart
    sync,      \* the request each worker is waiting for
    serving,   \* the request of the open transaction: at most one
    orphans,   \* requests whose client has given up
    failures   \* lost messages and server errors so far

clientVars == <<scenario, issued, cache, view, trash>>
syncVars == <<serverVars, clientVars, sync, serving, orphans, failures>>

Workers   == DOMAIN scenario.host
HostOf(w) == scenario.host[w]
Offered(d) == scenario.does[d]

Request == [cursor : Nat, mutations : Seq(Mutation)]
Idle    == [stage |-> "idle"]

Pending(d)   == ToSet(cache[d].queue)
Ids(revs)    == {r.id : r \in revs}
Of(revs, i)  == {r \in revs : r.item = i}
Used         == Ids(issued) \cup work.accepted
Unused       == scenario.ids \ Used
FreshId      == CHOOSE id \in Unused : TRUE
HighestOf(R) == CHOOSE n \in {r.revision : r \in R} : \A r \in R : r.revision <= n

\* revisionHeads: what no cached revision names as a parent.
Heads(revs) == {r \in revs : \A q \in revs : r.id \notin q.parents}

SyncInit ==
    /\ ServerInit
    /\ scenario \in Scenarios
    /\ issued = {}
    /\ cache = [d \in Device |-> [revs |-> {}, queue |-> <<>>, cursor |-> 0]]
    /\ view = [d \in Device |-> {}]
    /\ trash = [d \in Device |-> {}]
    /\ sync = [w \in Worker |-> Idle]
    /\ serving = {}
    /\ orphans = {}
    /\ failures = 0

-----------------------------------------------------------------------------
(* The user.  A keystroke acts on what the interface shows, which may be    *)
(* older than the cache, and saving does not disable the next keystroke.    *)

\* ItemHeads and TrashHeads: an item is in the trash while all its versions are
\* deleted and some could be restored.
InTrash_TombstonesToo(d, i) == \A r \in Of(Heads(cache[d].revs), i) : r.deleted

InTrash(d, i) ==
    /\ \A r \in Of(Heads(cache[d].revs), i) : r.deleted
    /\ \E r \in Of(Heads(cache[d].revs), i) : ~r.purged

\* cachedItemStore.List and Trash, for a user who has a use for them.
List(d) ==
    /\ tx = {}
    /\ Offered(d) \cap {"edit", "delete", "resolve"} # {}
    /\ view' = [view EXCEPT ![d] =
            {r \in Heads(cache[d].revs) :
                \E s \in Of(Heads(cache[d].revs), r.item) : ~s.deleted}]
    /\ UNCHANGED <<serverVars, scenario, issued, cache, trash, sync, serving, orphans, failures>>

Trash(d) ==
    /\ tx = {}
    /\ Offered(d) \cap {"restore", "purge"} # {}
    /\ trash' = [trash EXCEPT ![d] =
            {r \in Heads(cache[d].revs) : InTrash(d, r.item)}]
    /\ UNCHANGED <<serverVars, scenario, issued, cache, view, sync, serving, orphans, failures>>

QueueMutation_NewestFirst(d, m) ==
    LET known == Of(cache[d].revs, m.item) IN
    /\ IF m.revision = 1
       THEN known = {}
       ELSE /\ m.parents \subseteq Ids(known)
            /\ HighestOf({p \in known : p.id \in m.parents}) + 1 = m.revision
    /\ cache' = [cache EXCEPT
            ![d].revs = (IF m.purged THEN @ \ known ELSE @) \cup {m},
            ![d].queue = <<m>> \o @]

\* QueueMutation: the parents are cached, and a purge forgets the item.
QueueMutation(d, m) ==
    LET known == Of(cache[d].revs, m.item) IN
    /\ IF m.revision = 1
       THEN known = {}
       ELSE /\ m.parents \subseteq Ids(known)
            /\ HighestOf({p \in known : p.id \in m.parents}) + 1 = m.revision
    /\ cache' = [cache EXCEPT
            ![d].revs = (IF m.purged THEN @ \ known ELSE @) \cup {m},
            ![d].queue = Append(@, m)]

Save(d, op, m) ==
    /\ tx = {}
    /\ op \in Offered(d)
    /\ Unused # {}
    /\ m.revision <= MaxRevision
    /\ QueueMutation(d, m)
    /\ issued' = issued \cup {m}
    /\ UNCHANGED <<serverVars, scenario, view, trash, sync, serving, orphans, failures>>

Child(parents, item, deleted, purged) ==
    [id       |-> FreshId,
     item     |-> item,
     revision |-> HighestOf(parents) + 1,
     parents  |-> Ids(parents),
     deleted  |-> deleted,
     purged   |-> purged]

\* Items are new when nobody has used their UUID.
Create(d, i) ==
    /\ Of(issued, i) = {}
    /\ Save(d, "create", [id |-> FreshId, item |-> i, revision |-> 1,
                          parents |-> {}, deleted |-> FALSE, purged |-> FALSE])

Edit(d, r) ==
    /\ Of(view[d], r.item) = {r}
    /\ ~r.deleted
    /\ Save(d, "edit", Child({r}, r.item, FALSE, FALSE))

Delete(d, r) ==
    /\ Of(view[d], r.item) = {r}
    /\ ~r.deleted
    /\ Save(d, "delete", Child({r}, r.item, TRUE, FALSE))

\* restoreItem and purgeItem act on the one version openItemGroups displays:
\* the first in the order of the random UUIDs, a tombstone only for want of
\* anything else.
Displayed(d, r) == r.purged => \A s \in Of(trash[d], r.item) : s.purged

Restore(d, r) ==
    /\ Displayed(d, r)
    /\ Save(d, "restore", Child({r}, r.item, FALSE, FALSE))

Purge(d, r) ==
    /\ Displayed(d, r)
    /\ Save(d, "purge", Child({r}, r.item, TRUE, TRUE))

\* resolveConflict: keep version r, descending from every version shown.
Resolve(d, r) ==
    /\ Cardinality(Of(view[d], r.item)) > 1
    /\ Save(d, "resolve", Child(Of(view[d], r.item), r.item, r.deleted, r.purged))

UserStep(d) ==
    \/ List(d) \/ Trash(d)
    \/ \E i \in Item : Create(d, i)
    \/ \E r \in view[d] : Edit(d, r) \/ Delete(d, r) \/ Resolve(d, r)
    \/ \E r \in trash[d] : Restore(d, r) \/ Purge(d, r)

-----------------------------------------------------------------------------
(* A synchronization *)

Send(w) ==
    /\ tx = {}
    /\ sync[w] = Idle
    /\ sync' = [sync EXCEPT ![w] =
            [stage   |-> "sent",
             request |-> [cursor    |-> cache[HostOf(w)].cursor,
                          mutations |-> cache[HostOf(w)].queue]]]
    /\ UNCHANGED <<serverVars, clientVars, serving, orphans, failures>>

\* The handler reads the clock and waits for the transaction, for as long as the
\* scenario's lag at most, which it opens for a worker or for nobody any more.
Open(request, to) ==
    /\ Len(request.mutations) <= MaxBatch
    /\ \E at \in 0 .. now : now - at <= scenario.lag /\ Begin(at)
    /\ serving' = {[to |-> to, request |-> request, todo |-> request.mutations]}

Receive(w) ==
    /\ sync[w].stage = "sent"
    /\ Open(sync[w].request, {w})
    /\ UNCHANGED <<clientVars, sync, orphans, failures>>

ReceiveLate ==
    \E request \in orphans :
        /\ Open(request, {})
        /\ orphans' = orphans \ {request}
        /\ UNCHANGED <<clientVars, sync, failures>>

\* A batch over the limit is answered with 400 before anything is read.
RefuseBatch(w) ==
    /\ tx = {}
    /\ sync[w].stage = "sent"
    /\ Len(sync[w].request.mutations) > MaxBatch
    /\ sync' = [sync EXCEPT ![w] = Idle]
    /\ UNCHANGED <<serverVars, clientVars, serving, orphans, failures>>

ServeExpiry ==
    /\ Unused # {}
    /\ \E h \in RevId : ExpireTrash(h, FreshId)
    /\ UNCHANGED <<clientVars, sync, serving, orphans, failures>>

ServeMutation ==
    \E s \in serving :
        /\ s.todo # <<>>
        /\ Mutate(Head(s.todo))
        /\ serving' = {[s EXCEPT !.todo = Tail(@)]}
        /\ UNCHANGED <<clientVars, sync, orphans, failures>>

\* One refused mutation aborts the batch, and so does any database error.  An
\* error answer leaves the cache as it was.
Refused(s) ==
    /\ s.todo # <<>>
    /\ ~Recorded(work, Head(s.todo))
    /\ ~Accepts(work, Head(s.todo))

Abort ==
    \E s \in serving :
        /\ \/ Refused(s) /\ UNCHANGED failures
           \/ failures < MaxFailures /\ failures' = failures + 1
        /\ Fail
        /\ serving' = {}
        /\ sync' = [w \in Worker |-> IF w \in s.to THEN Idle ELSE sync[w]]
        /\ UNCHANGED <<clientVars, orphans>>

Reply ==
    \E s \in serving :
        /\ s.todo = <<>>
        /\ Commit(s.request.cursor)
        /\ serving' = {}
        /\ sync' = [w \in Worker |->
               IF w \in s.to
               THEN LET answer == Answer(work, s.request.cursor) IN
                    [stage   |-> "replied",
                     full    |-> answer.full,
                     cursor  |-> answer.cursor,
                     changes |-> {work.row[r] : r \in answer.changes},
                     applied |-> Ids(ToSet(s.request.mutations))]
               ELSE sync[w]]
        /\ UNCHANGED <<clientVars, orphans, failures>>

\* The client stops waiting, after 10 s or on a broken connection.  The server
\* may have answered, or may execute the request later, or never.
GiveUp(w) ==
    /\ tx = {}
    /\ sync[w] # Idle
    /\ failures < MaxFailures
    /\ failures' = failures + 1
    /\ orphans' = orphans \cup
           (IF sync[w].stage = "sent" THEN {sync[w].request} ELSE {})
    /\ sync' = [sync EXCEPT ![w] = Idle]
    /\ UNCHANGED <<serverVars, clientVars, serving>>

\* What a reply makes of the cached revisions.  A tombstone keeps, of its item,
\* the live heads known when its turn comes and the pending revisions; "before"
\* is what the reply lists ahead of the tombstone of the same item.
Merged(revs, changes, before, pending) ==
    LET tombstoned == {t.item : t \in {c \in changes : c.purged}}
        known      == revs \cup before
    IN  {r \in known : r.item \notin tombstoned \/ (r \in Heads(known) /\ ~r.deleted)}
            \cup (changes \ before)
            \cup {r \in pending : r.item \in tombstoned}

\* An incremental reply lists a tombstone first, since it removes the earlier
\* changes of its item; a snapshot is in the order of the random UUIDs.
MayPrecede(reply) ==
    IF reply.full
    THEN {c \in reply.changes : ~c.purged /\ \E t \in Of(reply.changes, c.item) : t.purged}
    ELSE {}

StillPending_None(queue, reply) == <<>>

\* The mutations a reply leaves in the queue, in their order.
StillPending(queue, reply) ==
    LET left   == {j \in DOMAIN queue : queue[j].id \notin reply.applied}
        nth(i) == CHOOSE j \in left : Cardinality({k \in left : k <= j}) = i
    IN  [i \in 1 .. Cardinality(left) |-> queue[nth(i)]]

Retaken_Wholesale(revs, queue, reply) == IF reply.full THEN {} ELSE revs

\* A snapshot replaces the cached graph, but not what is still to be sent.
Retaken(revs, queue, reply) == IF reply.full THEN ToSet(queue) ELSE revs

\* ApplySyncResult
Apply(w) ==
    /\ tx = {}
    /\ sync[w].stage = "replied"
    /\ LET d     == HostOf(w)
           reply == sync[w]
           queue == StillPending(cache[d].queue, reply)
           revs  == Retaken(cache[d].revs, queue, reply)
       IN  \E before \in SUBSET MayPrecede(reply) :
            cache' = [cache EXCEPT ![d] =
                [revs   |-> Merged(revs, reply.changes, before, ToSet(queue)),
                 queue  |-> queue,
                 cursor |-> reply.cursor]]
    /\ sync' = [sync EXCEPT ![w] = Idle]
    /\ UNCHANGED <<serverVars, scenario, issued, view, trash, serving, orphans, failures>>

TimePasses ==
    /\ now < scenario.time
    /\ Tick
    /\ UNCHANGED <<clientVars, sync, serving, orphans, failures>>

ServerStep == ServeExpiry \/ ServeMutation \/ Abort \/ Reply

SyncNext ==
    \/ \E d \in Device : UserStep(d)
    \/ \E w \in Workers :
        Send(w) \/ Receive(w) \/ RefuseBatch(w) \/ GiveUp(w) \/ Apply(w)
    \/ ReceiveLate
    \/ ServerStep
    \/ TimePasses

SyncSpec == SyncInit /\ [][SyncNext]_syncVars

\* A connected device keeps synchronizing, and the server answers.  Strong
\* fairness, because a transaction pauses the workers.
FairSyncSpec ==
    /\ SyncSpec
    /\ WF_syncVars(ServerStep)
    /\ \A w \in Worker : SF_syncVars(w \in Workers /\ (Send(w) \/ Receive(w) \/ RefuseBatch(w) \/ Apply(w)))

-----------------------------------------------------------------------------

\* The type invariant of the client side.
SyncTypeOK ==
    /\ issued \subseteq Mutation
    /\ \A d \in Device :
        /\ cache[d].revs \subseteq Mutation
        /\ Pending(d) \subseteq issued
        /\ cache[d].cursor \in Nat
        /\ view[d] \cup trash[d] \subseteq Mutation
    /\ \A w \in Worker : sync[w].stage \in {"idle", "sent", "replied"}
    /\ (serving = {}) = (tx = {})
    /\ failures \in 0 .. MaxFailures

\* A saved change survives every loss, retry, rollback and snapshot: until the
\* server has accepted it, it is in the queue of the device that made it.
NothingSavedIsLost ==
    \A m \in issued :
        \/ m.id \in db.accepted /\ db.row[m.id] = m
        \/ \E d \in Device : m \in Pending(d)

\* Conversely nothing leaves a queue on the strength of a lost transaction: a
\* revision no longer pending anywhere it is cached was accepted.
CachedIsPendingOrAccepted ==
    \A d \in Device : \A r \in cache[d].revs :
        r \in Pending(d) \/ (r.id \in db.accepted /\ db.row[r.id] = r)

\* What the user saved offline stays visible until it is synchronized, except
\* for what the user purged afterwards.
PendingStaysCached ==
    \A d \in Device : \A j \in DOMAIN cache[d].queue :
        LET m == cache[d].queue[j] IN
        \/ m \in cache[d].revs
        \/ \E k \in j + 1 .. Len(cache[d].queue) :
            cache[d].queue[k].purged /\ cache[d].queue[k].item = m.item

\* A queue replays in an order the server can accept: whatever a pending
\* revision descends from was accepted before or is ahead of it in the queue.
QueueInOrder ==
    \A d \in Device : \A j \in DOMAIN cache[d].queue :
        \A p \in cache[d].queue[j].parents :
            \/ p \in db.accepted
            \/ \E k \in 1 .. j - 1 : cache[d].queue[k].id = p

\* A tombstone is never simply edited back to life, even by a device that does
\* not know of it: whatever live revision descends from it merges a rival.
NoSilentRevival ==
    \A r \in issued : \A t \in issued \cup {db.row[q] : q \in db.accepted} :
        t.purged /\ t.id \in r.parents /\ ~r.deleted => Cardinality(r.parents) > 1

\* A device that waits for one answer at a time.
OneAtATime(d) == \A v, w \in Workers : HostOf(v) = d /\ HostOf(w) = d => v = w

\* A device that has nothing to send and has read every change shows exactly
\* the current versions of the server, conflicts included, of every item that
\* was never deleted for good.
SyncedCacheIsReplica ==
    \A d \in Device : \A i \in Item :
        /\ OneAtATime(d)
        /\ cache[d].queue = <<>> /\ cache[d].cursor = db.cursor
        /\ \A q \in db.accepted : db.row[q].item = i => ~db.row[q].purged
        => Of(Heads(cache[d].revs), i) = Of({db.row[h] : h \in db.heads}, i)

\* A device holds every live current version of the server up to its cursor,
\* which is all it will ever be sent again, or has superseded it.
HoldsEveryHead(d) ==
    \A h \in db.heads :
        ~db.row[h].deleted /\ db.cursorOf[h] <= cache[d].cursor =>
            \/ db.row[h] \in cache[d].revs
            \/ \E m \in Pending(d) : h \in m.parents \/ (m.purged /\ m.item = db.row[h].item)

CacheHoldsEveryHead == \A d \in Device : HoldsEveryHead(d)

\* It does so as long as it waits for one answer at a time.
SerialCacheHoldsEveryHead == \A d \in Device : OneAtATime(d) => HoldsEveryHead(d)

\* Synchronized devices scrub what the server has scrubbed.
SyncedCacheIsScrubbed ==
    \A d \in Device :
        cache[d].queue = <<>> /\ cache[d].cursor = db.cursor =>
            \A r \in cache[d].revs : r.purged \/ r.id \in db.content

\* Saved changes reach the server eventually.
QueueDrains ==
    \A d \in Device : cache[d].queue # <<>> ~> cache[d].queue = <<>>

=============================================================================
