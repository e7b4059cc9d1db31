----------------------------- MODULE VaultServer -----------------------------
(***************************************************************************)
(* The synchronization half of the server: DBStore.Sync and the SQL it     *)
(* runs against the vault tables of one account.  The server never sees    *)
(* plaintext; what it keeps is a graph of immutable encrypted revisions.   *)
(*                                                                         *)
(* Sync is one serializable transaction.  It is modelled by its steps on a *)
(* working copy: Begin (prune old changes), ExpireTrash (once per expired  *)
(* item), Mutate (once per mutation of the batch), then Commit, or Fail at *)
(* any step.  Transactions are serializable, so one is open at a time.     *)
(*                                                                         *)
(* A mutation's UUID is its revision's UUID and its base is one less than  *)
(* its revision number (validMutations insists on both), so a mutation and *)
(* the revision it appends are the same record here.                       *)
(*                                                                         *)
(* A definition named X_Y is X with a mistake in it, and no part of the    *)
(* model: it shows that some property would notice the mistake.            *)
(***************************************************************************)
EXTENDS Naturals, FiniteSets

CONSTANTS
    RevId,            \* revision UUIDs, which are also the mutation UUIDs
    Item,             \* item UUIDs of the account
    MaxRevision,      \* maximumItemRevision, 2^63 - 1 in the code
    ChangeRetention,  \* syncChangeRetention, in clock ticks
    TrashRetention,   \* trashRetention, in clock ticks
    PageSize,         \* the LIMIT of the incremental query, 500 in the code
    MaxTime           \* bound on the clock, for model checking

ASSUME RetentionAssumption ==
    /\ ChangeRetention \in Nat
    /\ TrashRetention \in Nat \ {0}
    /\ PageSize \in Nat \ {0}
    /\ MaxRevision \in Nat
    /\ MaxTime \in Nat

\* The metadata of a revision.  Whether its envelope (the ciphertext) is still
\* stored is kept apart, because a purge removes it; see "content" below.
Revision == [id       : RevId,
             item     : Item,
             revision : 1 .. MaxRevision,
             parents  : SUBSET RevId,
             deleted  : BOOLEAN,
             purged   : BOOLEAN]

\* What the handler lets through to the store: validMutations.
ValidMutation(m) ==
    /\ m.revision = 1 <=> m.parents = {}
    /\ m.purged => m.deleted

Mutation == {m \in Revision : ValidMutation(m)}

(***************************************************************************)
(* The tables of one account:                                              *)
(*   accepted    the rows of vault_revisions; vault_mutations has a row    *)
(*               for exactly the same UUIDs, inserted beside it            *)
(*   row         the metadata of each accepted revision                    *)
(*   content     the revisions whose envelope is not NULL                  *)
(*   heads       vault_item_heads                                          *)
(*   items       vault_items, by the revision it was projected from        *)
(*   changes     the rows of vault_changes still retained                  *)
(*   cursorOf    the change cursor given to each revision                  *)
(*   acceptedAt  created_at (and tombstoned_at, when deleted)              *)
(*   cursor      vault_sync_state                                          *)
(***************************************************************************)
IsDb(d) ==
    /\ DOMAIN d = {"accepted", "row", "content", "heads", "items", "changes",
                   "cursorOf", "acceptedAt", "cursor"}
    /\ d.accepted \subseteq RevId
    /\ d.row \in [d.accepted -> Revision]
    /\ d.content \subseteq d.accepted
    /\ d.heads \subseteq d.accepted
    /\ d.items \subseteq d.accepted
    /\ d.changes \subseteq d.accepted
    /\ d.cursorOf \in [d.accepted -> Nat]
    /\ d.acceptedAt \in [d.accepted -> Nat]
    /\ d.cursor \in Nat

EmptyDb == [accepted   |-> {},
            row        |-> [r \in {} |-> {}],
            content    |-> {},
            heads      |-> {},
            items      |-> {},
            changes    |-> {},
            cursorOf   |-> [r \in {} |-> 0],
            acceptedAt |-> [r \in {} |-> 0],
            cursor     |-> 0]

OfItem(d, i)  == {r \in d.accepted : d.row[r].item = i}
HeadsOf(d, i) == {r \in d.heads : d.row[r].item = i}

-----------------------------------------------------------------------------
(* applyVaultMutation *)

Recorded_Never(d, m) == FALSE

\* The ledger already has this mutation with the same digest: a retry.
Recorded(d, m) ==
    /\ m.id \in d.accepted
    /\ d.row[m.id] = m

\* A first revision needs an item nobody has used.
OpensItem(d, m) == OfItem(d, m.item) = {}

\* A later one needs all its parents, the highest of them its base.
ExtendsItem(d, m) ==
    /\ m.parents \subseteq OfItem(d, m.item)
    /\ \A p \in m.parents : d.row[p].revision < m.revision
    /\ \E p \in m.parents : d.row[p].revision + 1 = m.revision

\* Without this check a tombstone may destroy a head its author never saw.
CoversHeads_Unchecked(d, m) == TRUE

\* A tombstone descends from every current head of its item ...
CoversHeads(d, m) == m.purged => HeadsOf(d, m.item) \subseteq m.parents

RevivesTombstone_Unchecked(d, m) == FALSE

\* ... and a live revision is never the plain child of a tombstone head.
RevivesTombstone(d, m) ==
    /\ ~m.deleted
    /\ \E p \in d.heads : m.parents = {p} /\ d.row[p].purged

Accepts(d, m) ==
    /\ m.id \notin d.accepted
    /\ IF m.revision = 1
       THEN OpensItem(d, m)
       ELSE /\ ExtendsItem(d, m)
            /\ CoversHeads(d, m)
            /\ ~RevivesTombstone(d, m)

Scrubbed_ParentsOnly(d, m) == IF m.purged THEN m.parents ELSE {}
Scrubbed_Nothing(d, m) == {}

\* What a tombstone scrubs: every other revision of its item.
Scrubbed(d, m) == IF m.purged THEN OfItem(d, m.item) ELSE {}

\* Last write wins, as if the item had one current revision.
NextHeads_LastWriteWins(d, m) == (d.heads \ HeadsOf(d, m.item)) \cup {m.id}

NextHeads(d, m) == (d.heads \ m.parents) \cup {m.id}

NextChanges_KeepingPurged(d, m) == d.changes \cup {m.id}

\* vault_changes forgets what a tombstone scrubs, and gains the revision.
NextChanges(d, m) == (d.changes \ Scrubbed(d, m)) \cup {m.id}

NextItems_InsertOnly(d, m) ==
    IF OfItem(d, m.item) = {} THEN d.items \cup {m.id} ELSE d.items

\* vault_items follows the item only while it has a single head.
NextItems(d, m) ==
    IF HeadsOf(d, m.item) \subseteq m.parents
    THEN (d.items \ OfItem(d, m.item)) \cup {m.id}
    ELSE d.items

Extended_InPlace(f, id, value) ==
    [r \in DOMAIN f |-> IF r = id THEN value ELSE f[r]]

Extended(f, id, value) ==
    [r \in DOMAIN f \cup {id} |-> IF r = id THEN value ELSE f[r]]

Accept(d, m, at) ==
    [accepted   |-> d.accepted \cup {m.id},
     row        |-> Extended(d.row, m.id, m),
     content    |-> (d.content \ Scrubbed(d, m))
                        \cup (IF m.purged THEN {} ELSE {m.id}),
     heads      |-> NextHeads(d, m),
     items      |-> NextItems(d, m),
     changes    |-> NextChanges(d, m),
     cursorOf   |-> Extended(d.cursorOf, m.id, d.cursor + 1),
     acceptedAt |-> Extended(d.acceptedAt, m.id, at),
     cursor     |-> d.cursor + 1]

-----------------------------------------------------------------------------
(* Housekeeping at the start of every synchronization *)

\* Changes older than the retention are deleted.
Prune(d, at) ==
    [d EXCEPT !.changes =
        {r \in d.changes : d.acceptedAt[r] + ChangeRetention >= at}]

Expired_ConflictsToo(d, at) ==
    {h \in d.heads : /\ d.row[h].deleted
                     /\ ~d.row[h].purged
                     /\ d.acceptedAt[h] + TrashRetention <= at}

\* Trash past its deadline, unless the item has a second head.
Expired(d, at) ==
    {h \in d.heads : /\ d.row[h].deleted
                     /\ ~d.row[h].purged
                     /\ d.acceptedAt[h] + TrashRetention <= at
                     /\ HeadsOf(d, d.row[h].item) = {h}}

\* The tombstone the server makes for an expired head.
TombstoneOf(d, h, id) ==
    [id       |-> id,
     item     |-> d.row[h].item,
     revision |-> d.row[h].revision + 1,
     parents  |-> {h},
     deleted  |-> TRUE,
     purged   |-> TRUE]

-----------------------------------------------------------------------------
(* The answer to a client at cursor c *)

Retained(d, c) == {r \in d.changes : d.cursorOf[r] > c}

HasGap_NextOnly(d, c) ==
    c # d.cursor /\ \A r \in Retained(d, c) : d.cursorOf[r] # c + 1

\* Some change the client has not seen is no longer retained.
HasGap(d, c) == Cardinality(Retained(d, c)) # d.cursor - c

\* The first PageSize retained changes.
Page(d, c) ==
    {r \in Retained(d, c) :
        Cardinality({q \in Retained(d, c) : d.cursorOf[q] < d.cursorOf[r]})
            < PageSize}

PageEnd(d, c) ==
    IF Page(d, c) = {} THEN c
    ELSE CHOOSE n \in {d.cursorOf[r] : r \in Page(d, c)} :
            \A r \in Page(d, c) : d.cursorOf[r] <= n

\* A page that claims to end where the table does.
Answer_ToTheEnd(d, c) ==
    IF HasGap(d, c)
    THEN [full |-> TRUE,  cursor |-> d.cursor, changes |-> d.heads]
    ELSE [full |-> FALSE, cursor |-> d.cursor, changes |-> Page(d, c)]

\* A snapshot carries every head, an incremental answer one page of changes.
Answer(d, c) ==
    IF HasGap(d, c)
    THEN [full |-> TRUE,  cursor |-> d.cursor,      changes |-> d.heads]
    ELSE [full |-> FALSE, cursor |-> PageEnd(d, c), changes |-> Page(d, c)]

-----------------------------------------------------------------------------
VARIABLES
    db,    \* the committed tables
    work,  \* the tables as the open transaction sees them
    tx,    \* the time of acceptance of the open transaction: at most one
    now    \* the server's clock

serverVars == <<db, work, tx, now>>

ServerInit ==
    /\ db = EmptyDb
    /\ work = EmptyDb
    /\ tx = {}
    /\ now = 0

\* Sync starts.  The time of acceptance is read once, before the transaction is
\* granted, so it may already be in the past.
Begin(at) ==
    /\ tx = {}
    /\ tx' = {at}
    /\ work' = Prune(db, at)
    /\ UNCHANGED <<db, now>>

\* purgeExpiredVaultItems, one expired item at a time.
ExpireTrash(h, id) ==
    \E at \in tx :
        /\ h \in Expired(work, at)
        /\ work.row[h].revision < MaxRevision
        /\ Accepts(work, TombstoneOf(work, h, id))
        /\ work' = Accept(work, TombstoneOf(work, h, id), at)
        /\ UNCHANGED <<db, tx, now>>

\* A mutation the ledger knows is reported applied and changes nothing.
Retry(m) ==
    \E at \in tx :
        /\ Expired(work, at) = {}
        /\ Recorded(work, m)
        /\ UNCHANGED serverVars

AppendRevision(m) ==
    \E at \in tx :
        /\ Expired(work, at) = {}
        /\ Accepts(work, m)
        /\ work' = Accept(work, m, at)
        /\ UNCHANGED <<db, tx, now>>

Mutate(m) == Retry(m) \/ AppendRevision(m)

\* An error return without the deferred rollback.
Fail_LeftOpen ==
    /\ tx # {}
    /\ work' = db
    /\ UNCHANGED <<db, tx, now>>

\* Any error rolls the whole batch back.
Fail ==
    /\ tx # {}
    /\ tx' = {}
    /\ work' = db
    /\ UNCHANGED <<db, now>>

\* The answer leaves before the transaction is durable, which then fails.
Commit_AnswerFirst(c) ==
    /\ tx # {}
    /\ \A at \in tx : Expired(work, at) = {}
    /\ c <= work.cursor
    /\ tx' = {}
    /\ work' = db
    /\ UNCHANGED <<db, now>>

\* The batch is done, and the cursor c of the client is one the server has given.
Commit(c) ==
    /\ tx # {}
    /\ \A at \in tx : Expired(work, at) = {}
    /\ c <= work.cursor
    /\ tx' = {}
    /\ db' = work
    /\ UNCHANGED <<work, now>>

Tick ==
    /\ tx = {}
    /\ now < MaxTime
    /\ now' = now + 1
    /\ UNCHANGED <<db, work, tx>>

ServerNext ==
    \/ \E at \in 0 .. now : Begin(at)
    \/ \E h, id \in RevId : ExpireTrash(h, id)
    \/ \E m \in Mutation : Mutate(m)
    \/ Fail
    \/ \E c \in 0 .. db.cursor + 1 : Commit(c)
    \/ Tick

ServerSpec == ServerInit /\ [][ServerNext]_serverVars

-----------------------------------------------------------------------------
(* Properties.  Those over a parameter d hold of the committed tables and of *)
(* the tables every open transaction sees.                                   *)

\* The type invariant of the four variables.
TypeOK ==
    /\ IsDb(db)
    /\ IsDb(work)
    /\ tx \subseteq 0 .. now
    /\ \A s, t \in tx : s = t
    /\ now \in 0 .. MaxTime

\* Every accepted revision has its row under its own UUID, a place in the
\* change order, and parents that are earlier revisions of the same item.
GraphIsOrdered(d) ==
    \A r \in d.accepted :
        /\ d.row[r].id = r
        /\ \A p \in d.row[r].parents :
            /\ p \in OfItem(d, d.row[r].item)
            /\ d.row[p].revision < d.row[r].revision
            /\ d.cursorOf[p] < d.cursorOf[r]

\* vault_item_heads, maintained by deleting and inserting rows, is the set of
\* revisions no accepted revision descends from: no valid concurrent edit is
\* ever dropped from the heads, and no superseded one lingers there.
HeadsAreLeaves(d) ==
    d.heads = {r \in d.accepted : \A q \in d.accepted : r \notin d.row[q].parents}

\* The server holds the envelope of exactly the revisions accepted since the
\* last tombstone of their item: scrubbing reaches everything before it and
\* nothing after it, whatever order the batches of several clients commit in.
ContentOutlivesTombstone(d) ==
    d.content = {r \in d.accepted :
        /\ ~d.row[r].purged
        /\ \A t \in OfItem(d, d.row[r].item) :
            d.row[t].purged => d.cursorOf[t] < d.cursorOf[r]}

\* A head is never left without its envelope, so a snapshot can always be read.
HeadContentKept(d) ==
    \A h \in d.heads : d.row[h].purged \/ h \in d.content

\* No change that carries purged content is ever served again.
PurgedChangesDropped(d) ==
    \A r \in d.changes : d.row[r].purged \/ r \in d.content

\* Change cursors number the accepted revisions 1, 2, ... without a hole or a
\* repetition, though batches abort and retry.
CursorsDense(d) ==
    /\ \A r \in d.accepted : d.cursorOf[r] \in 1 .. d.cursor
    /\ \A n \in 1 .. d.cursor : \E r \in d.accepted : d.cursorOf[r] = n
    /\ \A q, r \in d.accepted : d.cursorOf[q] = d.cursorOf[r] => q = r

\* Counting retained rows is enough to notice a hole: an incremental answer is
\* only given to a client that misses nothing, and a page ends where it says.
IncrementalComplete(d) ==
    \A c \in 0 .. d.cursor :
        LET answer == Answer(d, c) IN
        ~answer.full =>
            answer.changes = {r \in d.accepted :
                d.cursorOf[r] > c /\ d.cursorOf[r] <= answer.cursor}

\* vault_items shows an item by its head whenever it has only one.
ProjectionFollows(d) ==
    \A h \in d.heads :
        HeadsOf(d, d.row[h].item) = {h} =>
            d.items \cap OfItem(d, d.row[h].item) = {h}

\* A tombstone that was a head is never simply edited back to life: the first
\* revision to descend from it is deleted or merges it with another revision.
TombstoneNotRevived(d) ==
    \A t, r \in d.accepted :
        d.row[t].purged /\ d.row[r].parents = {t} /\ ~d.row[r].deleted =>
            \E q \in d.accepted :
                t \in d.row[q].parents /\ d.cursorOf[q] < d.cursorOf[r]

\* A tombstone descends from every revision its item had: none of them was a
\* head the client had not seen, whose content would have been destroyed.
TombstoneCoversEarlier(d) ==
    \A t \in {r \in d.accepted : d.row[r].purged} :
        \A r \in OfItem(d, d.row[t].item) :
            d.cursorOf[r] < d.cursorOf[t] =>
                \E q \in OfItem(d, d.row[t].item) :
                    r \in d.row[q].parents /\ d.cursorOf[q] <= d.cursorOf[t]

DbInvariant(d) ==
    /\ GraphIsOrdered(d)
    /\ HeadsAreLeaves(d)
    /\ ContentOutlivesTombstone(d)
    /\ HeadContentKept(d)
    /\ PurgedChangesDropped(d)
    /\ CursorsDense(d)
    /\ IncrementalComplete(d)
    /\ ProjectionFollows(d)
    /\ TombstoneCoversEarlier(d)
    /\ TombstoneNotRevived(d)

Both(P(_)) == P(db) /\ P(work)

GraphIsOrderedInv           == Both(GraphIsOrdered)
HeadsAreLeavesInv           == Both(HeadsAreLeaves)
ContentOutlivesTombstoneInv == Both(ContentOutlivesTombstone)
HeadContentKeptInv          == Both(HeadContentKept)
PurgedChangesDroppedInv     == Both(PurgedChangesDropped)
CursorsDenseInv             == Both(CursorsDense)
IncrementalCompleteInv      == Both(IncrementalComplete)
ProjectionFollowsInv        == Both(ProjectionFollows)
TombstoneCoversEarlierInv   == Both(TombstoneCoversEarlier)
TombstoneNotRevivedInv      == Both(TombstoneNotRevived)

\* The automatic purge of expired trash is never refused as a conflict, which
\* would make every later synchronization of the account fail.
ExpiryNeverConflicts ==
    \A at \in tx : \A h \in Expired(work, at) : \A id \in RevId \ work.accepted :
        work.row[h].revision < MaxRevision => Accepts(work, TombstoneOf(work, h, id))

\* The committed tables keep the promise of RevisionGraph: whatever batches,
\* retries, expirations and rollbacks happen, committed history is immutable
\* and loses content to tombstones only.
Promise == INSTANCE RevisionGraph WITH
    graph    <- {db.row[r] : r \in db.accepted},
    readable <- {db.row[r] : r \in db.content}

KeepsRevisionGraph == Promise!Spec

=============================================================================
