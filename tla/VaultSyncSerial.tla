--------------------------- MODULE VaultSyncSerial ---------------------------
(***************************************************************************)
(* Proof that a device that waits for one answer at a time misses no       *)
(* current version of the server: neither the pages and snapshots it is    *)
(* answered with, nor what it saves, loses, gives up or purges meanwhile,  *)
(* leaves a live head behind its cursor that its cache lacks.              *)
(*                                                                         *)
(* The run sync_overlap shows why the device has to wait.                  *)
(***************************************************************************)
EXTENDS VaultSyncProofs

-----------------------------------------------------------------------------
(* The invariant *)

\* No cursor is ahead of the server.
CursorsAreGiven == \A d \in Device : cache[d].cursor <= db.cursor

\* Only the device that made a revision queues and sends it.
QueuesAreOwn ==
    \A d \in Device :
        /\ \A e \in Device : e # d => Pending(d) \cap Pending(e) = {}
        /\ \A w \in Workers :
            HostOf(w) # d /\ sync[w].stage = "sent" =>
                Pending(d) \cap ToSet(sync[w].request.mutations) = {}

\* The server has taken a revision, or may take it without being sent it again.
Acceptable(m) ==
    \/ m.id \in work.accepted
    \/ \E s \in serving : m \in ToSet(s.todo)
    \/ \E q \in orphans : m \in ToSet(q.mutations)

\* What is queued and was sent before is in the request the worker waits for.
AsksAll(d, w) ==
    \A m \in Pending(d) : sync[w] # Idle /\ Acceptable(m) => m.id \in AskedIds(w)

\* The request carries the cursor the cache still has.
AsksFromCursor(d, w) == sync[w].stage = "sent" => sync[w].request.cursor = cache[d].cursor

\* The reply holds the current versions, or all the changes, up to its cursor.
ReplyIsComplete(d, w) ==
    sync[w].stage = "replied" =>
        IF sync[w].full
        THEN \A h \in db.heads :
                db.cursorOf[h] <= sync[w].cursor => db.row[h] \in sync[w].changes
        ELSE \A q \in db.accepted :
                cache[d].cursor < db.cursorOf[q] /\ db.cursorOf[q] <= sync[w].cursor =>
                    db.row[q] \in sync[w].changes

\* Nor does a snapshot hold anything superseded by then, or a page anything the
\* cache has read.
ReplyIsCurrent(d, w) ==
    sync[w].stage = "replied" =>
        \A c \in sync[w].changes :
            IF sync[w].full
            THEN \A r \in db.accepted :
                    db.cursorOf[r] <= sync[w].cursor => c.id \notin db.row[r].parents
            ELSE cache[d].cursor < db.cursorOf[c.id]

\* No version of the item was ever deleted for good.
NeverPurged(i) == \A t \in db.accepted : db.row[t].purged => db.row[t].item # i

\* A current version is in a cache, or something queued supersedes it.
Holds(d, h) ==
    \/ db.row[h] \in cache[d].revs
    \/ \E m \in Pending(d) : h \in m.parents \/ (m.purged /\ m.item = db.row[h].item)

\* A tombstone takes from the caches the deleted versions of its item.
Kept(h) == ~db.row[h].deleted \/ NeverPurged(db.row[h].item)

HoldsEveryKept(d) ==
    \A h \in db.heads : Kept(h) /\ db.cursorOf[h] <= cache[d].cursor => Holds(d, h)

\* What the cache has been told of descends from nothing it takes for a head.
HeadsAreCurrent(d) ==
    \A q \in cache[d].revs : NeverPurged(q.item) =>
        \A r \in db.accepted :
            db.cursorOf[r] <= cache[d].cursor /\ q.id \in db.row[r].parents =>
                \E s \in db.accepted : db.row[s] \in cache[d].revs /\ q.id \in db.row[s].parents

\* What is queued was not accepted before the cursor.
QueueIsAhead(d) ==
    \A m \in Pending(d) : m.id \in db.accepted => cache[d].cursor < db.cursorOf[m.id]

SerialInv ==
    /\ CursorsAreGiven
    /\ QueuesAreOwn
    /\ \A d \in Device : OneAtATime(d) =>
        /\ \A w \in Workers : HostOf(w) = d =>
            /\ AsksAll(d, w) /\ AsksFromCursor(d, w)
            /\ ReplyIsComplete(d, w) /\ ReplyIsCurrent(d, w)
        /\ QueueIsAhead(d)
        /\ HoldsEveryKept(d)
        /\ HeadsAreCurrent(d)

-----------------------------------------------------------------------------
(* How a step moves a worker, a cursor and the tables *)

Sends(w) ==
    /\ sync[w] = Idle
    /\ sync'[w] = [stage   |-> "sent",
                   request |-> [cursor    |-> cache[HostOf(w)].cursor,
                                mutations |-> cache[HostOf(w)].queue]]
    /\ UNCHANGED <<db, work, issued, cache, serving, orphans>>

Answers(w) ==
    \E s \in serving :
        /\ sync[w] = [stage |-> "sent", request |-> s.request]
        /\ s.todo = <<>> /\ s.request.cursor <= work.cursor
        /\ sync'[w] = ReplyTo(s)
        /\ db' = work /\ work' = work /\ UNCHANGED <<issued, cache, orphans>>

\* A step leaves a worker alone, makes it idle, sends its request or answers it.
LEMMA WorkerAfter ==
    ASSUME BaseInv, [SyncNext]_syncVars, NEW w \in Workers
    PROVE  sync'[w] = sync[w] \/ sync'[w] = Idle \/ Sends(w) \/ Answers(w)
<1> USE DEF BaseInv
<1>1. w \in Worker
  BY WorkersServe
<1>2. CASE \/ Quiet
           \/ \E v \in Workers : Receive(v)
           \/ ReceiveLate
           \/ ServeMutation
  BY <1>2, QuietKeeps DEF Receive, ReceiveLate, ServeMutation
<1>3. ASSUME NEW v \in Workers, Send(v)
      PROVE  sync'[w] = sync[w] \/ Sends(w)
  <2> DEFINE new == [stage   |-> "sent",
                     request |-> [cursor    |-> cache[HostOf(v)].cursor,
                                  mutations |-> cache[HostOf(v)].queue]]
  <2>1. /\ sync' = [sync EXCEPT ![v] = new] /\ sync[v] = Idle
        /\ UNCHANGED <<db, work, issued, cache, serving, orphans>>
    BY <1>3 DEF Send, clientVars, serverVars
  <2>2. w = v => Sends(w)
    <3>1. w = v => sync'[w] = new
      BY <1>1, <2>1 DEF MessageTypes
    <3> QED
      BY <2>1, <3>1 DEF Sends
  <2> HIDE DEF new
  <2> QED
    BY <1>1, <2>1, <2>2 DEF MessageTypes
<1>4. ASSUME NEW v \in Workers, RefuseBatch(v) \/ GiveUp(v) \/ Apply(v)
      PROVE  sync'[w] = sync[w] \/ sync'[w] = Idle
  <2>1. sync' = [sync EXCEPT ![v] = Idle]
    BY <1>4 DEF RefuseBatch, GiveUp, Apply
  <2> QED
    BY <1>1, <2>1 DEF MessageTypes
<1>5. CASE Abort
  BY <1>1, <1>5 DEF Abort
<1>6. CASE Reply
  <2>1. PICK s \in serving :
            /\ s.todo = <<>>
            /\ Commit(s.request.cursor)
            /\ sync' = [v \in Worker |-> IF v \in s.to THEN ReplyTo(s) ELSE sync[v]]
            /\ UNCHANGED <<clientVars, orphans, failures>>
    BY <1>6, ReplySync
  <2>2. CASE w \notin s.to
    BY <1>1, <2>1, <2>2
  <2>3. CASE w \in s.to
    <3>1. sync[w] = [stage |-> "sent", request |-> s.request]
      BY <2>3 DEF OneTransaction
    <3>2. sync'[w] = ReplyTo(s)
      BY <1>1, <2>1, <2>3
    <3>3. s.request.cursor <= work.cursor /\ db' = work /\ work' = work
      BY <2>1 DEF Commit
    <3>4. UNCHANGED <<issued, cache, orphans>>
      BY <2>1 DEF clientVars
    <3> QED
      BY <2>1, <3>1, <3>2, <3>3, <3>4 DEF Answers
  <2> QED
    BY <2>2, <2>3
<1> QED
  BY Steps, <1>2, <1>3, <1>4, <1>5, <1>6 DEF Quiet

\* Only an applied answer moves a cursor, and it comes from the server.
LEMMA CursorAfter ==
    ASSUME BaseInv, [SyncNext]_syncVars, NEW d \in Device
    PROVE  \/ cache'[d].cursor = cache[d].cursor
           \/ \E w \in Workers :
                /\ HostOf(w) = d /\ Apply(w) /\ sync'[w] = Idle
                /\ cache'[d].cursor <= db.cursor
<1> USE DEF BaseInv
<1>1. ASSUME NEW e \in Device, NEW m, Made(e, m)
      PROVE  cache'[d].cursor = cache[d].cursor
  BY <1>1, MadeCache
<1>2. ASSUME NEW w \in Workers, Apply(w), HostOf(w) # d
      PROVE  cache'[d].cursor = cache[d].cursor
  BY <1>2, ApplyFacts
<1>3. ASSUME NEW w \in Workers, Apply(w), HostOf(w) = d
      PROVE  sync'[w] = Idle /\ cache'[d].cursor <= db.cursor
  <2>1. w \in Worker
    BY WorkersServe
  <2>2. sync'[w] = Idle
    BY <1>3, <2>1, ApplyCache DEF MessageTypes
  <2>3. cache'[d].cursor = sync[w].cursor /\ sync[w].stage = "replied"
    BY <1>3, ApplyFacts
  <2> QED
    BY <2>1, <2>2, <2>3 DEF RepliesAreTrue
<1> QED
  BY CacheSteps, <1>1, <1>2, <1>3

\* A revision accepted later comes after the cursor, and supersedes but never
\* restores a head.
LEMMA TablesAfter ==
    ASSUME BaseInv, BaseInv', [SyncNext]_syncVars
    PROVE  /\ db.cursor \in Nat /\ db'.cursor \in Nat /\ db.cursor <= db'.cursor
           /\ \A q \in db.accepted :
                /\ q \in db'.accepted /\ db.cursorOf[q] \in Nat
                /\ db'.row[q] = db.row[q] /\ db'.cursorOf[q] = db.cursorOf[q]
           /\ \A q \in db'.accepted :
                /\ db'.cursorOf[q] \in Nat
                /\ q \notin db.accepted => db.cursor < db'.cursorOf[q]
           /\ \A h \in db'.heads : h \in db'.accepted /\ (h \in db.accepted => h \in db.heads)
<1>1. Grown(db, db')
  BY GrownStep
<1>2. IsDb(db) /\ HeadsAreLeaves(db)
  BY DEF BaseInv, Inv, Good
<1>3. (IsDb(db) /\ HeadsAreLeaves(db))'
  BY DEF BaseInv, Inv, Good
<1>4. /\ db.cursor \in Nat /\ db.cursorOf \in [db.accepted -> Nat]
      /\ db'.cursor \in Nat /\ db'.cursorOf \in [db'.accepted -> Nat]
  BY <1>2, <1>3 DEF IsDb
<1>5. /\ db.heads = {r \in db.accepted : \A q \in db.accepted : r \notin db.row[q].parents}
      /\ db'.heads = {r \in db'.accepted : \A q \in db'.accepted : r \notin db'.row[q].parents}
  BY <1>2, <1>3 DEF HeadsAreLeaves
<1> QED
  BY <1>1, <1>4, <1>5 DEF Grown

-----------------------------------------------------------------------------
(* The parts that hold of every device *)

(* Every step keeps cursors behind the server's. *)
LEMMA GivenStep ==
    ASSUME BaseInv, BaseInv', CursorsAreGiven, [SyncNext]_syncVars
    PROVE  CursorsAreGiven'
<1> SUFFICES ASSUME NEW d \in Device
             PROVE  cache'[d].cursor <= db'.cursor
  BY DEF CursorsAreGiven
<1>1. db.cursor \in Nat /\ db'.cursor \in Nat /\ db.cursor <= db'.cursor
  BY TablesAfter
<1>2. cache[d].cursor \in Nat /\ cache'[d].cursor \in Nat
  <2>1. ClientTypes /\ ClientTypes'
    BY DEF BaseInv
  <2>2. cache[d] \in Cached /\ cache'[d] \in Cached
    BY <2>1 DEF ClientTypes
  <2> QED
    BY <2>2 DEF Cached
<1>3. cache[d].cursor <= db.cursor
  BY DEF CursorsAreGiven
<1>4. cache'[d].cursor <= db.cursor
  BY <1>3, CursorAfter
<1> QED
  BY <1>1, <1>2, <1>4

\* What is queued after a step was queued before, or is new to everyone.
LEMMA PendingAfter ==
    ASSUME BaseInv, [SyncNext]_syncVars, NEW d \in Device, NEW m \in Pending(d)'
    PROVE  \/ m \in Pending(d)
           \/ (Made(d, m) /\ m \notin issued)
<1> USE DEF BaseInv
<1>1. CASE UNCHANGED <<issued, cache>>
  BY <1>1 DEF Pending
<1>2. ASSUME NEW e \in Device, NEW n, Made(e, n)
      PROVE  m \in Pending(d) \/ (Made(d, m) /\ m \notin issued)
  <2>1. n \notin issued
    BY <1>2 DEF Made, Ids
  <2>2. CASE e = d
    <3>1. Pending(d)' = Pending(d) \cup {n}
      BY <1>2, <2>2, MadePending
    <3> QED
      BY <1>2, <2>1, <2>2, <3>1
  <2>3. CASE e # d
    BY <1>2, <2>3, MadePending
  <2> QED
    BY <2>2, <2>3
<1>3. ASSUME NEW w \in Workers, Apply(w)
      PROVE  m \in Pending(d)
  <2>1. ToSet(cache'[d].queue) \subseteq Pending(d)
    <3>1. CASE d = HostOf(w)
      BY <1>3, <3>1, ApplyFacts
    <3>2. CASE d # HostOf(w)
      BY <1>3, <3>2, ApplyFacts DEF Pending
    <3> QED
      BY <3>1, <3>2
  <2> QED
    BY <2>1 DEF Pending
<1> QED
  BY CacheSteps, <1>1, <1>2, <1>3

(* Every step keeps a revision with the device that made it. *)
LEMMA OwnStep ==
    ASSUME BaseInv, BaseInv', QueuesAreOwn, [SyncNext]_syncVars
    PROVE  QueuesAreOwn'
<1> USE DEF BaseInv
<1>1. \A d \in Device : Pending(d) \subseteq issued
  BY DEF OnlyIssuedTravels
<1>2. ASSUME NEW d \in Device, NEW e \in Device, e # d
      PROVE  Pending(d)' \cap Pending(e)' = {}
  <2> SUFFICES ASSUME NEW m \in Pending(d)', m \in Pending(e)'
               PROVE  FALSE
    OBVIOUS
  <2>1. ~(Made(d, m) /\ m \notin issued /\ m \in Pending(e)')
    BY <1>1, <1>2, MadePending
  <2>2. ~(Made(e, m) /\ m \notin issued /\ m \in Pending(d)')
    BY <1>1, <1>2, MadePending
  <2>3. ~(m \in Pending(d) /\ m \in Pending(e))
    BY <1>2 DEF QueuesAreOwn
  <2> QED
    BY <1>1, <2>1, <2>2, <2>3, PendingAfter
<1>3. ASSUME NEW d \in Device, NEW w \in Workers, HostOf(w) # d, sync'[w].stage = "sent"
      PROVE  Pending(d)' \cap ToSet(sync'[w].request.mutations) = {}
  <2> SUFFICES ASSUME NEW m \in Pending(d)', m \in ToSet(sync'[w].request.mutations)
               PROVE  FALSE
    OBVIOUS
  <2>0. w \in Worker /\ HostOf(w) \in Device
    BY WorkersServe
  <2>1. CASE sync'[w] = sync[w]
    <3>1. m \in issued
      BY <1>3, <2>0, <2>1 DEF OnlyIssuedTravels
    <3>2. m \in Pending(d)
      BY <3>1, PendingAfter
    <3> QED
      BY <1>3, <2>1, <3>2 DEF QueuesAreOwn
  <2>2. CASE Sends(w)
    <3>1. m \in Pending(d)
      BY <2>2 DEF Sends, Pending
    <3>2. m \in ToSet(cache[HostOf(w)].queue)
      BY <2>2 DEF Sends
    <3> QED
      BY <1>3, <2>0, <3>1, <3>2 DEF QueuesAreOwn, Pending
  <2>3. sync'[w] # Idle /\ ~Answers(w)
    <3>1. Idle.stage = "idle" /\ \A s : ReplyTo(s).stage = "replied"
      BY DEF Idle, ReplyTo
    <3> QED
      BY <1>3, <3>1 DEF Answers
  <2> QED
    BY <2>1, <2>2, <2>3, WorkerAfter
<1>4. Workers' = Workers /\ \A w \in Workers : HostOf(w)' = HostOf(w)
  BY ScenarioKept
<1> QED
  BY <1>2, <1>3, <1>4 DEF QueuesAreOwn

-----------------------------------------------------------------------------
(* The parts that hold of a device that waits for one answer at a time *)

\* What a step makes acceptable was sent by a worker.
LEMMA AcceptableAfter ==
    ASSUME BaseInv, [SyncNext]_syncVars, NEW m \in issued, Acceptable(m)'
    PROVE  \/ Acceptable(m)
           \/ \E v \in Workers :
                sync[v].stage = "sent" /\ m \in ToSet(sync[v].request.mutations)
<1> USE DEF BaseInv
<1> DEFINE IsSent == \E v \in Workers :
               sync[v].stage = "sent" /\ m \in ToSet(sync[v].request.mutations)
<1>1. CASE UNCHANGED <<work, serving, orphans>>
  BY <1>1 DEF Acceptable
<1>2. CASE \/ UNCHANGED syncVars
           \/ \E d \in Device : List(d)
           \/ \E d \in Device : Trash(d)
           \/ \E d \in Device : \E n : Made(d, n)
           \/ \E w \in Workers : Send(w)
           \/ \E w \in Workers : RefuseBatch(w)
           \/ \E w \in Workers : Apply(w)
           \/ TimePasses
  BY <1>1, <1>2 DEF syncVars, serverVars, List, Trash, Made, Send, RefuseBatch, Apply,
                    TimePasses, Tick
<1>3. ASSUME NEW request, Open(request, {}) \/ \E w : Open(request, {w}),
             orphans' \subseteq orphans
      PROVE  Acceptable(m) \/ m \in ToSet(request.mutations)
  <2>1. work'.accepted = work.accepted
    <3>1. work = db
      BY <1>3 DEF Open, Begin, OneTransaction
    <3>2. \E at : work' = Prune(work, at)
      BY <1>3, <3>1 DEF Open, Begin
    <3> QED
      BY <3>2 DEF Prune, Inv, TypeOK, IsDb
  <2>2. \E to : serving' = {[to |-> to, request |-> request, todo |-> request.mutations]}
    BY <1>3 DEF Open
  <2>3. \A s \in serving' : s.todo = request.mutations
    BY <2>2
  <2> QED
    BY <1>3, <2>1, <2>3 DEF Acceptable
<1>4. ASSUME NEW w \in Workers, Receive(w)
      PROVE  Acceptable(m) \/ IsSent
  BY <1>3, <1>4 DEF Receive
<1>5. CASE ReceiveLate
  <2>1. PICK request \in orphans : Open(request, {}) /\ orphans' \subseteq orphans
    BY <1>5 DEF ReceiveLate
  <2> QED
    BY <1>3, <2>1 DEF Acceptable
<1>6. ASSUME NEW w \in Workers, GiveUp(w)
      PROVE  Acceptable(m) \/ IsSent
  <2>1. /\ UNCHANGED <<work, serving>>
        /\ orphans' = orphans \cup (IF sync[w].stage = "sent" THEN {sync[w].request} ELSE {})
    BY <1>6 DEF GiveUp, serverVars
  <2> QED
    BY <2>1 DEF Acceptable
<1>7. CASE ServeExpiry
  <2>1. PICK h, at : work' = Accept(work, TombstoneOf(work, h, FreshId), at)
    BY <1>7 DEF ServeExpiry, ExpireTrash
  <2>2. work'.accepted = work.accepted \cup {FreshId}
    BY <2>1 DEF Accept, TombstoneOf
  <2>3. FreshId # m.id
    BY <1>7, FreshIsUnused DEF ServeExpiry, Ids
  <2>4. UNCHANGED <<serving, orphans>>
    BY <1>7 DEF ServeExpiry
  <2> QED
    BY <2>2, <2>3, <2>4 DEF Acceptable
<1>8. CASE ServeMutation
  <2>1. PICK s \in serving : \E t :
            /\ s.todo # <<>>
            /\ Mutate(Head(s.todo))
            /\ serving' = {t} /\ t.todo = Tail(s.todo)
            /\ UNCHANGED orphans
    BY <1>8, ServeTakes
  <2>2. /\ Head(s.todo) \in issued /\ Head(s.todo) \in ToSet(s.todo)
        /\ ToSet(Tail(s.todo)) \subseteq ToSet(s.todo)
    BY <2>1, NextIsIssued
  <2>3. work'.accepted \subseteq work.accepted \cup {Head(s.todo).id}
    <3>1. CASE Retry(Head(s.todo))
      BY <3>1 DEF Retry, serverVars
    <3>2. CASE AppendRevision(Head(s.todo))
      <4>1. \E at : work' = Accept(work, Head(s.todo), at)
        BY <3>2 DEF AppendRevision
      <4> QED
        BY <4>1 DEF Accept
    <3> QED
      BY <2>1, <3>1, <3>2 DEF Mutate
  <2>4. m.id \in work'.accepted => m.id \in work.accepted \/ m = Head(s.todo)
    BY <2>2, <2>3 DEF IdsAreSpent
  <2>5. (\E t \in serving' : m \in ToSet(t.todo)) => m \in ToSet(s.todo)
    BY <2>1, <2>2
  <2> QED
    BY <2>1, <2>2, <2>4, <2>5 DEF Acceptable
<1>9. CASE Abort
  <2>1. work' = db /\ serving' = {} /\ orphans' = orphans
    BY <1>9 DEF Abort, Fail
  <2>2. db.accepted \subseteq work.accepted
    BY DEF OneTransaction, Grown
  <2> QED
    BY <2>1, <2>2 DEF Acceptable
<1>10. CASE Reply
  <2>1. work' = work /\ serving' = {} /\ orphans' = orphans
    BY <1>10 DEF Reply, Commit
  <2> QED
    BY <2>1 DEF Acceptable
<1> QED
  BY Steps, <1>2, <1>4, <1>5, <1>6, <1>7, <1>8, <1>9, <1>10

(* Every step keeps what was sent before in the request that is waited for. *)
LEMMA AsksStep ==
    ASSUME BaseInv, BaseInv', QueuesAreOwn, [SyncNext]_syncVars,
           NEW d \in Device, OneAtATime(d), NEW w \in Workers, HostOf(w) = d, AsksAll(d, w)
    PROVE  AsksAll(d, w)'
<1> USE DEF BaseInv
<1>1. SUFFICES ASSUME NEW m \in Pending(d)', sync'[w] # Idle, Acceptable(m)'
               PROVE  m.id \in AskedIds(w)'
  BY DEF AsksAll
<1>2. Pending(d) \subseteq issued
  BY DEF OnlyIssuedTravels
<1>3. m \in Pending(d)
  <2>1. SUFFICES ASSUME Made(d, m), m \notin issued
                 PROVE  FALSE
    BY PendingAfter
  <2>2. m.id \notin work.accepted /\ UNCHANGED <<work, serving, orphans>>
    BY <2>1 DEF Made, serverVars
  <2> QED
    BY <1>1, <2>1, <2>2 DEF Acceptable, OnlyIssuedTravels
<1>4. CASE Sends(w)
  <2>1. AskedIds(w)' = Ids(Pending(d))
    <3>1. /\ sync'[w].stage = "sent"
          /\ sync'[w].request.mutations = cache[d].queue
      BY <1>4 DEF Sends
    <3> QED
      BY <3>1 DEF AskedIds, Pending
  <2> QED
    BY <1>3, <2>1 DEF Ids
<1>5. CASE sync'[w] = sync[w] \/ Answers(w)
  <2>1. AskedIds(w)' = AskedIds(w) /\ sync[w] # Idle
    <3>1. CASE sync'[w] = sync[w]
      BY <1>1, <3>1 DEF AskedIds
    <3>2. CASE Answers(w)
      <4>1. PICK s \in serving :
                /\ sync[w] = [stage |-> "sent", request |-> s.request]
                /\ sync'[w] = ReplyTo(s)
        BY <3>2 DEF Answers
      <4>2. AskedIds(w) = Ids(ToSet(s.request.mutations))
        BY <4>1 DEF AskedIds
      <4>3. ReplyTo(s).stage = "replied" /\ ReplyTo(s).applied = Ids(ToSet(s.request.mutations))
        BY DEF ReplyTo
      <4>4. AskedIds(w)' = Ids(ToSet(s.request.mutations))
        BY <4>1, <4>3 DEF AskedIds
      <4>5. sync[w].stage = "sent" /\ Idle.stage = "idle"
        BY <4>1 DEF Idle
      <4> QED
        BY <4>2, <4>4, <4>5
    <3> QED
      BY <1>5, <3>1, <3>2
  <2>2. CASE Acceptable(m)
    BY <1>3, <2>1, <2>2 DEF AsksAll
  <2>3. ASSUME NEW v \in Workers, sync[v].stage = "sent", m \in ToSet(sync[v].request.mutations)
        PROVE  m.id \in AskedIds(w)
    <3>1. HostOf(v) = d
      BY <1>3, <2>3 DEF QueuesAreOwn
    <3>2. v = w
      BY <3>1 DEF OneAtATime
    <3> QED
      BY <2>3, <3>2 DEF AskedIds, Ids
  <2> QED
    BY <1>1, <1>2, <1>3, <2>1, <2>2, <2>3, AcceptableAfter
<1> QED
  BY <1>1, <1>4, <1>5, WorkerAfter

\* While its worker waits or holds an answer, the device's cursor stands still.
LEMMA CursorStands ==
    ASSUME BaseInv, [SyncNext]_syncVars,
           NEW d \in Device, OneAtATime(d), NEW w \in Workers, HostOf(w) = d, sync'[w] # Idle
    PROVE  cache'[d].cursor = cache[d].cursor
  BY CursorAfter DEF OneAtATime

(* Every step keeps the cursor of a request the cache's own. *)
LEMMA AsksFromStep ==
    ASSUME BaseInv, [SyncNext]_syncVars,
           NEW d \in Device, OneAtATime(d), NEW w \in Workers, HostOf(w) = d,
           AsksFromCursor(d, w)
    PROVE  AsksFromCursor(d, w)'
<1> SUFFICES ASSUME sync'[w].stage = "sent"
             PROVE  sync'[w].request.cursor = cache'[d].cursor
  BY DEF AsksFromCursor
<1>1. Idle.stage = "idle" /\ \A s : ReplyTo(s).stage = "replied"
  BY DEF Idle, ReplyTo
<1>2. cache'[d].cursor = cache[d].cursor
  BY <1>1, CursorStands
<1>3. CASE sync'[w] = sync[w]
  BY <1>2, <1>3 DEF AsksFromCursor
<1>4. CASE Sends(w)
  BY <1>2, <1>4 DEF Sends
<1>5. ~Answers(w)
  BY <1>1 DEF Answers
<1> QED
  BY <1>1, <1>3, <1>4, <1>5, WorkerAfter

(* Every step keeps a reply complete up to its cursor. *)
LEMMA ReplyStep ==
    ASSUME BaseInv, BaseInv', [SyncNext]_syncVars,
           NEW d \in Device, OneAtATime(d), NEW w \in Workers, HostOf(w) = d,
           AsksFromCursor(d, w), ReplyIsComplete(d, w)
    PROVE  ReplyIsComplete(d, w)'
<1> USE DEF BaseInv
<1>1. SUFFICES ASSUME sync'[w].stage = "replied"
               PROVE  IF sync'[w].full
                      THEN \A h \in db'.heads : db'.cursorOf[h] <= sync'[w].cursor =>
                              db'.row[h] \in sync'[w].changes
                      ELSE \A q \in db'.accepted :
                              /\ cache'[d].cursor < db'.cursorOf[q]
                              /\ db'.cursorOf[q] <= sync'[w].cursor
                              => db'.row[q] \in sync'[w].changes
  BY DEF ReplyIsComplete
<1>2. Idle.stage = "idle"
  BY DEF Idle
<1>3. cache'[d].cursor = cache[d].cursor
  BY <1>1, <1>2, CursorStands
<1>4. w \in Worker
  BY WorkersServe
<1>5. CASE sync'[w] = sync[w]
  <2>1. sync[w].cursor \in Nat /\ sync[w].cursor <= db.cursor
    <3>1. sync[w] \in Replied
      BY <1>1, <1>4, <1>5, Stages
    <3> QED
      BY <1>1, <1>4, <1>5, <3>1 DEF Replied, RepliesAreTrue
  <2>2. \A q \in db'.accepted : db'.cursorOf[q] <= sync[w].cursor =>
            /\ q \in db.accepted /\ db'.row[q] = db.row[q] /\ db'.cursorOf[q] = db.cursorOf[q]
            /\ q \in db'.heads => q \in db.heads
    BY <2>1, TablesAfter
  <2>3. db'.heads \subseteq db'.accepted
    BY TablesAfter
  <2> QED
    BY <1>1, <1>3, <1>5, <2>2, <2>3 DEF ReplyIsComplete
<1>6. CASE Answers(w)
  <2>1. PICK s \in serving :
            /\ sync[w] = [stage |-> "sent", request |-> s.request]
            /\ s.todo = <<>> /\ s.request.cursor <= work.cursor
            /\ sync'[w] = ReplyTo(s)
            /\ db' = work
    BY <1>6 DEF Answers
  <2> DEFINE c == s.request.cursor
             a == Answer(work, c)
  <2>2. /\ sync'[w].full = a.full /\ sync'[w].cursor = a.cursor
        /\ sync'[w].changes = {work.row[r] : r \in a.changes}
    BY <2>1 DEF ReplyTo
  <2>3. c = cache[d].cursor
    BY <2>1 DEF AsksFromCursor
  <2>4. IsDb(work) /\ CursorsDense(work)
    BY DEF Inv, Good
  <2>5. c \in Nat /\ c <= work.cursor
    BY <2>1 DEF MessageTypes, Served, Request
  <2>6. /\ a.full <=> HasGap(work, c)
        /\ HasGap(work, c) => a.changes = work.heads
        /\ ~HasGap(work, c) => a.changes = Numbered(work, c, a.cursor)
    BY <2>4, <2>5, AnswerForm
  <2> HIDE DEF a
  <2> QED
    BY <1>3, <2>1, <2>2, <2>3, <2>6 DEF Numbered
<1>7. ~Sends(w)
  BY <1>1 DEF Sends
<1> QED
  BY <1>1, <1>2, <1>5, <1>6, <1>7, WorkerAfter

\* What an applied reply leaves in the queue, the server has not accepted.
LEMMA RemainingIsNew ==
    ASSUME BaseInv, NEW w \in Workers, Apply(w), AsksAll(HostOf(w), w),
           NEW m \in ToSet(cache'[HostOf(w)].queue)
    PROVE  m.id \notin db.accepted
<1>1. m \in Pending(HostOf(w)) /\ m.id \notin sync[w].applied /\ sync[w].stage = "replied"
  BY ApplyFacts
<1>2. SUFFICES ASSUME m.id \in db.accepted
               PROVE  FALSE
  OBVIOUS
<1>3. m.id \in work.accepted
  BY <1>2 DEF BaseInv, OneTransaction, Grown
<1>4. Idle.stage = "idle"
  BY DEF Idle
<1> QED
  BY <1>1, <1>3, <1>4 DEF AsksAll, Acceptable, AskedIds

(* Every step keeps the accepted part of a queue after the cursor. *)
LEMMA AheadStep ==
    ASSUME BaseInv, BaseInv', CursorsAreGiven, [SyncNext]_syncVars,
           NEW d \in Device, QueueIsAhead(d),
           \A w \in Workers : HostOf(w) = d => AsksAll(d, w)
    PROVE  QueueIsAhead(d)'
<1> USE DEF BaseInv
<1>1. SUFFICES ASSUME NEW m \in Pending(d)', m.id \in db'.accepted
               PROVE  cache'[d].cursor < db'.cursorOf[m.id]
  BY DEF QueueIsAhead
<1>2. cache[d].cursor \in Nat /\ cache[d].cursor <= db.cursor
  BY DEF ClientTypes, Cached, CursorsAreGiven
<1>3. m \in Pending(d)
  <2>1. SUFFICES ASSUME Made(d, m), m \notin issued
                 PROVE  FALSE
    BY PendingAfter
  <2>2. m.id \notin work.accepted /\ db' = db /\ tx = {}
    BY <2>1 DEF Made, serverVars
  <2> QED
    BY <1>1, <2>2 DEF OneTransaction
<1>4. CASE cache'[d].cursor = cache[d].cursor
  <2>1. CASE m.id \in db.accepted
    BY <1>3, <1>4, <2>1, TablesAfter DEF QueueIsAhead
  <2>2. CASE m.id \notin db.accepted
    BY <1>1, <1>2, <1>4, <2>2, TablesAfter
  <2> QED
    BY <2>1, <2>2
<1>5. ASSUME NEW w \in Workers, HostOf(w) = d, Apply(w)
      PROVE  FALSE
  <2>1. m \in ToSet(cache'[d].queue)
    BY DEF Pending
  <2>2. db' = db
    BY <1>5, ApplyCache DEF serverVars
  <2> QED
    BY <1>1, <1>5, <2>1, <2>2, RemainingIsNew
<1> QED
  BY <1>4, <1>5, CursorAfter

\* Nothing accepted descends from a current version, and no tombstone of its
\* item is later.
LEMMA HeadFacts ==
    ASSUME BaseInv, NEW h \in db.heads, Kept(h)
    PROVE  /\ h \in db.accepted
           /\ \A q \in db.accepted : h \notin db.row[q].parents
           /\ \A t \in db.accepted :
                db.row[t].purged /\ db.row[t].item = db.row[h].item =>
                    db.cursorOf[t] < db.cursorOf[h]
<1> USE DEF BaseInv, Inv, Good
<1>1. h \in db.accepted /\ \A q \in db.accepted : h \notin db.row[q].parents
  BY DEF HeadsAreLeaves
<1>2. ASSUME NEW t \in db.accepted, db.row[t].purged, db.row[t].item = db.row[h].item
      PROVE  db.cursorOf[t] < db.cursorOf[h]
  <2>1. ~(db.cursorOf[h] < db.cursorOf[t])
    BY <1>1, <1>2 DEF TombstoneCoversEarlier, OfItem
  <2>2. db.row[t].deleted /\ ~db.row[h].deleted
    <3>1. db.row[t] \in Mutation
      BY DbRows
    <3> QED
      BY <1>2, <3>1 DEF Mutation, ValidMutation, Kept, NeverPurged
  <2>3. db.cursorOf[t] # db.cursorOf[h]
    BY <1>1, <2>2 DEF CursorsDistinct
  <2>4. db.cursorOf[t] \in Nat /\ db.cursorOf[h] \in Nat
    BY <1>1 DEF IsDb
  <2> QED
    BY <2>1, <2>3, <2>4
<1> QED
  BY <1>1, <1>2

\* What a reply leaves of the cached revisions.
LEMMA MergedHolds ==
    ASSUME NEW w, NEW before
    PROVE  LET known == Retaken(cache[HostOf(w)].revs, Remaining(w), sync[w]) \cup before
               after == MergedCache(w, before).revs
           IN  /\ sync[w].changes \ before \subseteq after
               /\ \A r \in known :
                    (\A t \in sync[w].changes : t.purged => t.item # r.item) => r \in after
               /\ \A r \in known :
                    ~r.deleted /\ (\A q \in known : r.id \notin q.parents) => r \in after
  BY DEF MergedCache, Merged, Heads

\* A snapshot brings every current version.
LEMMA SnapshotHolds ==
    ASSUME BaseInv, NEW w \in Workers, Apply(w), sync[w].full,
           ReplyIsComplete(HostOf(w), w),
           NEW h \in db.heads, Kept(h),
           db.cursorOf[h] <= cache'[HostOf(w)].cursor
    PROVE  \/ db.row[h] \in cache'[HostOf(w)].revs
           \/ \E m \in ToSet(cache'[HostOf(w)].queue) : h \in m.parents
<1> DEFINE d == HostOf(w)
           r == db.row[h]
<1>1. PICK before \in SUBSET MayPrecede(sync[w]) : cache'[d] = MergedCache(w, before)
  BY ApplyFacts
<1>2. /\ cache'[d].queue = Remaining(w) /\ cache'[d].cursor = sync[w].cursor
      /\ sync[w].stage = "replied"
  BY ApplyFacts
<1>3. r \in sync[w].changes
  BY <1>2 DEF ReplyIsComplete
<1>4. r \notin before => r \in cache'[d].revs
  BY <1>1, <1>3, MergedHolds
<1>5. SUFFICES ASSUME r \in before, \A m \in ToSet(Remaining(w)) : h \notin m.parents
               PROVE  r \in cache'[d].revs
  BY <1>2, <1>4
<1>6. h \in db.accepted /\ \A q \in db.accepted : h \notin db.row[q].parents
  BY HeadFacts
<1>7. \A q \in before : h \notin q.parents
  <2>1. w \in Worker
    BY WorkersServe DEF BaseInv
  <2>2. before \subseteq {db.row[q] : q \in db.accepted}
    BY <1>2, <2>1 DEF MayPrecede, BaseInv, RepliesAreTrue
  <2> QED
    BY <1>6, <2>2
<1>8. r.id = h
  BY <1>6, DbRows
<1>9. Retaken(cache[d].revs, Remaining(w), sync[w]) = ToSet(Remaining(w))
  BY DEF Retaken
<1>10. ~r.deleted
  <2>1. PICK t \in sync[w].changes : t.purged /\ t.item = r.item
    BY <1>5 DEF MayPrecede, Of
  <2>2. sync[w].changes \subseteq {db.row[q] : q \in db.accepted}
    BY <1>2, WorkersServe DEF BaseInv, RepliesAreTrue
  <2> QED
    BY <2>1, <2>2 DEF Kept, NeverPurged
<1> QED
  BY <1>1, <1>5, <1>7, <1>8, <1>9, <1>10, MergedHolds

\* A page brings every current version after the cursor, and spares the others.
LEMMA PageHolds ==
    ASSUME BaseInv, CachedIsPendingOrAccepted, NEW w \in Workers, Apply(w), ~sync[w].full,
           ReplyIsComplete(HostOf(w), w), QueueIsAhead(HostOf(w)), HoldsEveryKept(HostOf(w)),
           NEW h \in db.heads, Kept(h),
           db.cursorOf[h] <= cache'[HostOf(w)].cursor
    PROVE  \/ db.row[h] \in cache'[HostOf(w)].revs
           \/ \E m \in ToSet(cache'[HostOf(w)].queue) :
                h \in m.parents \/ (m.purged /\ m.item = db.row[h].item)
<1> DEFINE d == HostOf(w)
           r == db.row[h]
<1>1. PICK before \in SUBSET MayPrecede(sync[w]) : cache'[d] = MergedCache(w, before)
  BY ApplyFacts
<1>2. /\ cache'[d].queue = Remaining(w) /\ cache'[d].cursor = sync[w].cursor
      /\ sync[w].stage = "replied" /\ sync[w] \in Replied
      /\ ToSet(cache'[d].queue) = {m \in Pending(d) : m.id \notin sync[w].applied}
  BY ApplyFacts
<1>3. before = {}
  BY DEF MayPrecede
<1>4. /\ h \in db.accepted
      /\ \A q \in db.accepted : h \notin db.row[q].parents
      /\ \A t \in db.accepted :
            db.row[t].purged /\ db.row[t].item = r.item => db.cursorOf[t] < db.cursorOf[h]
  BY HeadFacts
<1>5. w \in Worker /\ d \in Device
  BY WorkersServe DEF BaseInv
<1>6. /\ cache[d].cursor \in Nat
      /\ \A q \in db.accepted : db.cursorOf[q] \in Nat
  <2>1. cache[d] \in Cached /\ IsDb(db)
    BY <1>5 DEF BaseInv, Inv, Good, ClientTypes
  <2> QED
    BY <2>1 DEF Cached, IsDb
<1>7. CASE cache[d].cursor < db.cursorOf[h]
  <2>1. r \in sync[w].changes
    BY <1>2, <1>4, <1>7 DEF ReplyIsComplete
  <2> QED
    BY <1>1, <1>3, <2>1, MergedHolds
<1>8. CASE db.cursorOf[h] <= cache[d].cursor
  <2>1. SUFFICES ASSUME \A m \in ToSet(cache'[d].queue) :
                            h \notin m.parents /\ ~(m.purged /\ m.item = r.item)
                 PROVE  r \in cache'[d].revs
    OBVIOUS
  <2>2. ASSUME NEW m \in Pending(d), m.id \in sync[w].applied
        PROVE  m.id \in db.accepted /\ db.row[m.id] = m /\ cache[d].cursor < db.cursorOf[m.id]
    <3>1. m \in issued
      BY <1>5 DEF BaseInv, OnlyIssuedTravels
    <3>2. m.id \in db.accepted /\ db.row[m.id] = m
      BY <1>2, <1>5, <2>2, <3>1, AppliedIsSaved
    <3> QED
      BY <3>2 DEF QueueIsAhead
  <2>3. ASSUME NEW m \in Pending(d)
        PROVE  h \notin m.parents /\ ~(m.purged /\ m.item = r.item)
    <3>1. CASE m.id \notin sync[w].applied
      BY <1>2, <2>1, <3>1
    <3>2. CASE m.id \in sync[w].applied
      <4>1. m.id \in db.accepted /\ db.row[m.id] = m /\ cache[d].cursor < db.cursorOf[m.id]
        BY <2>2, <3>2
      <4>2. ~(db.cursorOf[m.id] < db.cursorOf[h])
        BY <1>4, <1>6, <1>8, <4>1
      <4> QED
        BY <1>4, <4>1, <4>2
    <3> QED
      BY <3>1, <3>2
  <2>4. r \in cache[d].revs
    BY <1>8, <2>3 DEF HoldsEveryKept, Holds
  <2>5. \A q \in cache[d].revs : h \notin q.parents
    <3> SUFFICES ASSUME NEW q \in cache[d].revs
                 PROVE  h \notin q.parents
      OBVIOUS
    <3>1. q \in Pending(d) \/ (q.id \in db.accepted /\ db.row[q.id] = q)
      BY <1>5 DEF CachedIsPendingOrAccepted
    <3> QED
      BY <1>4, <2>3, <3>1
  <2>6. r.id = h
    BY <1>4, DbRows
  <2>7. Retaken(cache[d].revs, Remaining(w), sync[w]) = cache[d].revs
    BY DEF Retaken
  <2>8. CASE ~r.deleted
    BY <1>1, <1>3, <2>4, <2>5, <2>6, <2>7, <2>8, MergedHolds
  <2>9. CASE NeverPurged(r.item)
    <3>1. sync[w].changes \subseteq {db.row[q] : q \in db.accepted}
      BY <1>2, <1>5 DEF BaseInv, RepliesAreTrue
    <3>2. \A t \in sync[w].changes : t.purged => t.item # r.item
      BY <2>9, <3>1 DEF NeverPurged
    <3> QED
      BY <1>1, <1>3, <2>4, <2>7, <3>2, MergedHolds
  <2> QED
    BY <2>8, <2>9 DEF Kept
<1> QED
  BY <1>4, <1>6, <1>7, <1>8

(* Every step keeps every current version up to the cursor in the cache. *)
LEMMA HoldsStep ==
    ASSUME BaseInv, BaseInv', CachedIsPendingOrAccepted, CursorsAreGiven, [SyncNext]_syncVars,
           NEW d \in Device, QueueIsAhead(d), HoldsEveryKept(d),
           \A w \in Workers : HostOf(w) = d => ReplyIsComplete(d, w)
    PROVE  HoldsEveryKept(d)'
<1> DEFINE Held(h) ==
               \/ db'.row[h] \in cache'[d].revs
               \/ \E m \in Pending(d)' :
                    h \in m.parents \/ (m.purged /\ m.item = db'.row[h].item)
<1> SUFFICES ASSUME NEW h \in db'.heads, Kept(h)',
                    db'.cursorOf[h] <= cache'[d].cursor
             PROVE  Held(h)
  BY DEF HoldsEveryKept, Holds
<1>1. cache[d].cursor \in Nat /\ cache[d].cursor <= db.cursor
  <2>1. cache[d] \in Cached
    BY DEF BaseInv, ClientTypes
  <2> QED
    BY <2>1 DEF Cached, CursorsAreGiven
<1>2. ASSUME cache'[d].cursor = cache[d].cursor
      PROVE  Holds(d, h) /\ db'.row[h] = db.row[h]
  <2>1. /\ h \in db.heads /\ h \in db.accepted
        /\ db'.row[h] = db.row[h] /\ db'.cursorOf[h] = db.cursorOf[h]
    BY <1>1, <1>2, TablesAfter
  <2>2. Kept(h)
    BY <2>1, TablesAfter DEF Kept, NeverPurged
  <2> QED
    BY <1>2, <2>1, <2>2 DEF HoldsEveryKept
<1>3. CASE cache'[d] = cache[d]
  BY <1>2, <1>3 DEF Holds, Pending
<1>4. ASSUME NEW m, Made(d, m)
      PROVE  Held(h)
  <2>1. /\ cache'[d].revs =
             (IF m.purged THEN cache[d].revs \ Of(cache[d].revs, m.item)
                          ELSE cache[d].revs) \cup {m}
        /\ cache'[d].cursor = cache[d].cursor
        /\ Pending(d)' = Pending(d) \cup {m}
    BY <1>4, MadeCache, MadePending DEF BaseInv
  <2>2. Holds(d, h) /\ db'.row[h] = db.row[h]
    BY <1>2, <2>1
  <2>3. CASE \E n \in Pending(d) : h \in n.parents \/ (n.purged /\ n.item = db.row[h].item)
    BY <2>1, <2>2, <2>3
  <2>4. CASE db.row[h] \in cache[d].revs
    <3>1. CASE m.purged /\ m.item = db.row[h].item
      BY <2>1, <2>2, <3>1
    <3>2. CASE ~(m.purged /\ m.item = db.row[h].item)
      BY <2>1, <2>2, <2>4, <3>2 DEF Of
    <3> QED
      BY <3>1, <3>2
  <2> QED
    BY <2>2, <2>3, <2>4 DEF Holds
<1>5. ASSUME NEW w \in Workers, Apply(w), HostOf(w) = d
      PROVE  Held(h)
  <2>1. db' = db
    BY <1>5, ApplyCache DEF serverVars
  <2>2. \/ db.row[h] \in cache'[d].revs
        \/ \E m \in ToSet(cache'[d].queue) :
             h \in m.parents \/ (m.purged /\ m.item = db.row[h].item)
    <3>1. Kept(h) /\ h \in db.heads
      BY <2>1 DEF Kept, NeverPurged
    <3> QED
      BY <1>5, <2>1, <3>1, SnapshotHolds, PageHolds
  <2> QED
    BY <2>1, <2>2 DEF Pending
<1>6. ASSUME NEW e \in Device, e # d, NEW m, Made(e, m)
      PROVE  cache'[d] = cache[d]
  BY <1>6, MadeCache DEF BaseInv
<1>7. ASSUME NEW w \in Workers, Apply(w), HostOf(w) # d
      PROVE  cache'[d] = cache[d]
  BY <1>7, ApplyFacts
<1> QED
  BY CacheSteps, <1>3, <1>4, <1>5, <1>6, <1>7

(* Every step keeps a reply free of what is superseded or read already. *)
LEMMA ReplyCurrentStep ==
    ASSUME BaseInv, BaseInv', [SyncNext]_syncVars,
           NEW d \in Device, OneAtATime(d), NEW w \in Workers, HostOf(w) = d,
           AsksFromCursor(d, w), ReplyIsCurrent(d, w)
    PROVE  ReplyIsCurrent(d, w)'
<1>1. SUFFICES ASSUME sync'[w].stage = "replied", NEW c \in sync'[w].changes
               PROVE  IF sync'[w].full
                      THEN \A r \in db'.accepted :
                              db'.cursorOf[r] <= sync'[w].cursor => c.id \notin db'.row[r].parents
                      ELSE cache'[d].cursor < db'.cursorOf[c.id]
  BY DEF ReplyIsCurrent
<1>2. Idle.stage = "idle"
  BY DEF Idle
<1>3. cache'[d].cursor = cache[d].cursor
  BY <1>1, <1>2, CursorStands
<1>4. w \in Worker
  BY WorkersServe DEF BaseInv
<1>5. CASE sync'[w] = sync[w]
  <2>1. sync[w].cursor \in Nat /\ sync[w].cursor <= db.cursor
    <3>1. sync[w] \in Replied
      BY <1>1, <1>4, <1>5, Stages DEF BaseInv
    <3> QED
      BY <1>1, <1>4, <1>5, <3>1 DEF Replied, BaseInv, RepliesAreTrue
  <2>2. c.id \in db.accepted
    BY <1>1, <1>4, <1>5, DbRows DEF BaseInv, RepliesAreTrue
  <2>3. \A q \in db'.accepted : db'.cursorOf[q] <= sync[w].cursor =>
            q \in db.accepted /\ db'.row[q] = db.row[q] /\ db'.cursorOf[q] = db.cursorOf[q]
    BY <2>1, TablesAfter
  <2>4. db'.cursorOf[c.id] = db.cursorOf[c.id]
    BY <2>2, TablesAfter
  <2> QED
    BY <1>1, <1>3, <1>5, <2>3, <2>4 DEF ReplyIsCurrent
<1>6. CASE Answers(w)
  <2>1. PICK s \in serving :
            /\ sync[w] = [stage |-> "sent", request |-> s.request]
            /\ s.todo = <<>> /\ s.request.cursor <= work.cursor
            /\ sync'[w] = ReplyTo(s)
            /\ db' = work
    BY <1>6 DEF Answers
  <2> DEFINE k == s.request.cursor
             a == Answer(work, k)
  <2>2. /\ sync'[w].full = a.full /\ sync'[w].cursor = a.cursor
        /\ sync'[w].changes = {work.row[r] : r \in a.changes}
    BY <2>1 DEF ReplyTo
  <2>3. k = cache[d].cursor
    BY <2>1 DEF AsksFromCursor
  <2>4. IsDb(work) /\ CursorsDense(work) /\ HeadsAreLeaves(work) /\ GraphIsOrdered(work)
    BY DEF BaseInv, Inv, Good
  <2>5. k \in Nat /\ k <= work.cursor
    BY <2>1 DEF BaseInv, MessageTypes, Served, Request
  <2>6. /\ a.full <=> HasGap(work, k)
        /\ HasGap(work, k) => a.changes = work.heads
        /\ ~HasGap(work, k) => a.changes = Numbered(work, k, a.cursor)
        /\ a.changes \subseteq work.accepted
    BY <2>4, <2>5, AnswerForm
  <2> HIDE DEF a
  <2>7. PICK q \in a.changes : c = work.row[q]
    BY <1>1, <2>2
  <2>8. q \in work.accepted /\ c.id = q
    BY <2>4, <2>6, <2>7 DEF GraphIsOrdered
  <2>9. CASE HasGap(work, k)
    BY <2>1, <2>2, <2>4, <2>6, <2>7, <2>8, <2>9 DEF HeadsAreLeaves
  <2>10. CASE ~HasGap(work, k)
    BY <1>3, <2>1, <2>2, <2>3, <2>6, <2>7, <2>8, <2>10 DEF Numbered
  <2> QED
    BY <2>9, <2>10
<1>7. ~Sends(w)
  BY <1>1 DEF Sends
<1> QED
  BY <1>1, <1>2, <1>5, <1>6, <1>7, WorkerAfter

\* What a cached revision is, if the server has accepted a child of it.
LEMMA ParentFacts ==
    ASSUME BaseInv, CachedIsPendingOrAccepted, NEW d \in Device, NEW q \in cache[d].revs,
           NEW r \in db.accepted, q.id \in db.row[r].parents
    PROVE  /\ q.id \in db.accepted /\ db.row[q.id] = q
           /\ db.row[r].item = q.item
           /\ db.cursorOf[q.id] < db.cursorOf[r]
<1>1. q.id \in OfItem(db, db.row[r].item) /\ db.cursorOf[q.id] < db.cursorOf[r]
  BY DEF BaseInv, Inv, Good, GraphIsOrdered
<1>2. q.id \in db.accepted /\ db.row[q.id].item = db.row[r].item
  BY <1>1 DEF OfItem
<1>3. db.row[q.id] = q
  <2>1. CASE q \in Pending(d)
    BY <1>2, <2>1, DbRows DEF BaseInv, OnlyIssuedTravels
  <2> QED
    BY <2>1 DEF CachedIsPendingOrAccepted
<1> QED
  BY <1>1, <1>2, <1>3

\* A reply brings what supersedes the versions it leaves or brings.
LEMMA AppliedIsCurrent ==
    ASSUME BaseInv, CachedIsPendingOrAccepted, NEW w \in Workers, Apply(w),
           AsksAll(HostOf(w), w), ReplyIsComplete(HostOf(w), w), ReplyIsCurrent(HostOf(w), w),
           HeadsAreCurrent(HostOf(w)),
           NEW q \in cache'[HostOf(w)].revs, NeverPurged(q.item),
           NEW r \in db.accepted, db.cursorOf[r] <= cache'[HostOf(w)].cursor,
           q.id \in db.row[r].parents
    PROVE  \E s \in db.accepted :
                db.row[s] \in cache'[HostOf(w)].revs /\ q.id \in db.row[s].parents
<1> DEFINE d == HostOf(w)
<1>1. PICK before \in SUBSET MayPrecede(sync[w]) : cache'[d] = MergedCache(w, before)
  BY ApplyFacts
<1>2. /\ cache'[d].queue = Remaining(w) /\ cache'[d].cursor = sync[w].cursor
      /\ sync[w].stage = "replied"
  BY ApplyFacts
<1>3. w \in Worker /\ d \in Device
  BY WorkersServe DEF BaseInv
<1>4. q.id \in db.accepted /\ db.cursorOf[q.id] < db.cursorOf[r]
  BY DEF BaseInv, Inv, Good, GraphIsOrdered, OfItem
<1>5. q \notin ToSet(Remaining(w))
  BY <1>2, <1>4, RemainingIsNew
<1>6. before \subseteq sync[w].changes
  BY DEF MayPrecede
<1>7. q \in Retaken(cache[d].revs, Remaining(w), sync[w]) \/ q \in sync[w].changes
  BY <1>1, <1>5, <1>6 DEF MergedCache, Merged
<1>8. CASE sync[w].full
  <2>1. q \in sync[w].changes
    BY <1>5, <1>7, <1>8 DEF Retaken
  <2> QED
    BY <1>2, <1>8, <2>1 DEF ReplyIsCurrent
<1>9. CASE ~sync[w].full
  <2>1. before = {} /\ Retaken(cache[d].revs, Remaining(w), sync[w]) = cache[d].revs
    BY <1>9 DEF MayPrecede, Retaken
  <2>2. /\ cache[d].cursor \in Nat
        /\ \A n \in db.accepted : db.cursorOf[n] \in Nat
    <3>1. cache[d] \in Cached /\ IsDb(db)
      BY <1>3 DEF BaseInv, Inv, Good, ClientTypes
    <3> QED
      BY <3>1 DEF Cached, IsDb
  <2>3. CASE cache[d].cursor < db.cursorOf[r]
    <3>1. db.row[r] \in sync[w].changes
      BY <1>2, <1>9, <2>3 DEF ReplyIsComplete
    <3>2. db.row[r] \in cache'[d].revs
      BY <1>1, <2>1, <3>1, MergedHolds
    <3> QED
      BY <3>2
  <2>4. CASE db.cursorOf[r] <= cache[d].cursor
    <3>1. q \notin sync[w].changes
      BY <1>2, <1>4, <1>9, <2>2, <2>4 DEF ReplyIsCurrent
    <3>2. q \in cache[d].revs
      BY <1>7, <2>1, <3>1
    <3>3. PICK s \in db.accepted : db.row[s] \in cache[d].revs /\ q.id \in db.row[s].parents
      BY <1>3, <2>4, <3>2 DEF HeadsAreCurrent
    <3>4. db.row[s].item = q.item
      BY <1>3, <3>2, <3>3, ParentFacts
    <3>5. \A t \in sync[w].changes : t.purged => t.item # db.row[s].item
      <4>1. sync[w].changes \subseteq {db.row[n] : n \in db.accepted}
        BY <1>2, <1>3 DEF BaseInv, RepliesAreTrue
      <4> QED
        BY <3>4, <4>1 DEF NeverPurged
    <3>6. db.row[s] \in cache'[d].revs
      BY <1>1, <2>1, <3>3, <3>5, MergedHolds
    <3> QED
      BY <3>3, <3>6
  <2> QED
    BY <2>2, <2>3, <2>4
<1> QED
  BY <1>8, <1>9

(* Every step keeps what supersedes a cached version in the cache. *)
LEMMA CurrentStep ==
    ASSUME BaseInv, BaseInv', CachedIsPendingOrAccepted, CursorsAreGiven, [SyncNext]_syncVars,
           NEW d \in Device, HeadsAreCurrent(d),
           \A w \in Workers : HostOf(w) = d =>
                AsksAll(d, w) /\ ReplyIsComplete(d, w) /\ ReplyIsCurrent(d, w)
    PROVE  HeadsAreCurrent(d)'
<1> SUFFICES ASSUME NEW q \in cache'[d].revs, NeverPurged(q.item)',
                    NEW r \in db'.accepted, db'.cursorOf[r] <= cache'[d].cursor,
                    q.id \in db'.row[r].parents
             PROVE  \E s \in db'.accepted :
                        db'.row[s] \in cache'[d].revs /\ q.id \in db'.row[s].parents
  BY DEF HeadsAreCurrent
<1>1. cache[d].cursor \in Nat /\ cache[d].cursor <= db.cursor
  <2>1. cache[d] \in Cached
    BY DEF BaseInv, ClientTypes
  <2> QED
    BY <2>1 DEF Cached, CursorsAreGiven
<1>2. NeverPurged(q.item)
  BY TablesAfter DEF NeverPurged
<1>3. ASSUME cache'[d].cursor = cache[d].cursor, q \in cache[d].revs
      PROVE  /\ r \in db.accepted /\ q.id \in db.row[r].parents
             /\ \E s \in db.accepted :
                  db.row[s] \in cache[d].revs /\ q.id \in db.row[s].parents
  <2>1. r \in db.accepted /\ db'.row[r] = db.row[r] /\ db'.cursorOf[r] = db.cursorOf[r]
    BY <1>1, <1>3, TablesAfter
  <2> QED
    BY <1>2, <1>3, <2>1 DEF HeadsAreCurrent
<1>4. CASE cache'[d] = cache[d]
  <2>1. PICK s \in db.accepted : db.row[s] \in cache[d].revs /\ q.id \in db.row[s].parents
    BY <1>3, <1>4
  <2>2. s \in db'.accepted /\ db'.row[s] = db.row[s]
    BY TablesAfter
  <2> QED
    BY <1>4, <2>1, <2>2
<1>5. ASSUME NEW m, Made(d, m)
      PROVE  \E s \in db'.accepted :
                 db'.row[s] \in cache'[d].revs /\ q.id \in db'.row[s].parents
  <2>1. /\ cache'[d].revs =
             (IF m.purged THEN cache[d].revs \ Of(cache[d].revs, m.item)
                          ELSE cache[d].revs) \cup {m}
        /\ cache'[d].cursor = cache[d].cursor
    BY <1>5, MadeCache DEF BaseInv
  <2>2. db' = db /\ m.id \notin db.accepted
    BY <1>5 DEF Made, serverVars, BaseInv, OneTransaction
  <2>3. q.id \in db.accepted
    BY <2>2 DEF BaseInv, Inv, Good, GraphIsOrdered, OfItem
  <2>4. q # m /\ q \in cache[d].revs /\ ~(m.purged /\ q.item = m.item)
    BY <2>1, <2>2, <2>3 DEF Of
  <2>5. PICK s \in db.accepted : db.row[s] \in cache[d].revs /\ q.id \in db.row[s].parents
    BY <1>3, <2>1, <2>4
  <2>6. db.row[s].item = q.item
    BY <2>4, <2>5, ParentFacts
  <2>7. db.row[s] \in cache'[d].revs
    BY <2>1, <2>4, <2>5, <2>6 DEF Of
  <2> QED
    BY <2>2, <2>5, <2>7
<1>6. ASSUME NEW w \in Workers, Apply(w), HostOf(w) = d
      PROVE  \E s \in db'.accepted :
                 db'.row[s] \in cache'[d].revs /\ q.id \in db'.row[s].parents
  <2>1. db' = db
    BY <1>6, ApplyCache DEF serverVars
  <2> QED
    BY <1>2, <1>6, <2>1, AppliedIsCurrent
<1>7. ASSUME NEW e \in Device, e # d, NEW m, Made(e, m)
      PROVE  cache'[d] = cache[d]
  BY <1>7, MadeCache DEF BaseInv
<1>8. ASSUME NEW w \in Workers, Apply(w), HostOf(w) # d
      PROVE  cache'[d] = cache[d]
  BY <1>8, ApplyFacts
<1> QED
  BY CacheSteps, <1>4, <1>5, <1>6, <1>7, <1>8



-----------------------------------------------------------------------------
(* The invariant and the theorem *)

(* The serial invariant holds initially. *)
LEMMA SerialInit == SyncInit => SerialInv
<1> SUFFICES ASSUME SyncInit PROVE SerialInv
  OBVIOUS
<1>1. /\ db = EmptyDb /\ db.heads = {} /\ db.accepted = {} /\ db.cursor = 0
      /\ \A d \in Device : cache[d].queue = <<>> /\ cache[d].cursor = 0
  BY DEF SyncInit, ServerInit, EmptyDb
<1>2. \A d \in Device : cache[d].revs = {}
  BY DEF SyncInit
<1>3. \A d \in Device : Pending(d) = {}
  BY <1>1 DEF Pending, ToSet
<1>4. \A w \in Workers : sync[w].stage = "idle"
  <2>1. BaseInv
    BY BaseInit
  <2>2. Workers \subseteq Worker
    BY <2>1, WorkersServe DEF BaseInv
  <2> QED
    BY <2>2 DEF SyncInit, Idle
<1> QED
  BY <1>1, <1>2, <1>3, <1>4 DEF SerialInv, CursorsAreGiven, QueuesAreOwn, AsksAll, AsksFromCursor,
        ReplyIsComplete, ReplyIsCurrent, QueueIsAhead, HoldsEveryKept, HeadsAreCurrent

(* Every step keeps the serial invariant. *)
LEMMA SerialStep ==
    ASSUME BaseInv, BaseInv', QueueInv, SerialInv, [SyncNext]_syncVars
    PROVE  SerialInv'
<1>1. CursorsAreGiven' /\ QueuesAreOwn'
  BY GivenStep, OwnStep DEF SerialInv
<1>2. ASSUME NEW d \in Device, OneAtATime(d)
      PROVE  /\ \A w \in Workers : HostOf(w) = d =>
                    /\ AsksAll(d, w)' /\ AsksFromCursor(d, w)'
                    /\ ReplyIsComplete(d, w)' /\ ReplyIsCurrent(d, w)'
             /\ QueueIsAhead(d)'
             /\ HoldsEveryKept(d)'
             /\ HeadsAreCurrent(d)'
  <2>1. /\ QueuesAreOwn /\ CursorsAreGiven
        /\ QueueIsAhead(d) /\ HoldsEveryKept(d) /\ HeadsAreCurrent(d)
        /\ \A w \in Workers : HostOf(w) = d =>
            /\ AsksAll(d, w) /\ AsksFromCursor(d, w)
            /\ ReplyIsComplete(d, w) /\ ReplyIsCurrent(d, w)
    BY <1>2 DEF SerialInv
  <2>2. ASSUME NEW w \in Workers, HostOf(w) = d
        PROVE  /\ AsksAll(d, w)' /\ AsksFromCursor(d, w)'
               /\ ReplyIsComplete(d, w)' /\ ReplyIsCurrent(d, w)'
    BY <1>2, <2>1, <2>2, AsksStep, AsksFromStep, ReplyStep, ReplyCurrentStep
  <2>3. QueueIsAhead(d)'
    BY <1>2, <2>1, AheadStep
  <2>4. HoldsEveryKept(d)'
    BY <2>1, HoldsStep DEF QueueInv
  <2>5. HeadsAreCurrent(d)'
    BY <2>1, CurrentStep DEF QueueInv
  <2> QED
    BY <2>2, <2>3, <2>4, <2>5
<1>3. /\ Workers' = Workers /\ \A w \in Workers : HostOf(w)' = HostOf(w)
      /\ \A d : OneAtATime(d)' = OneAtATime(d)
  BY ScenarioKept
<1> QED
  BY <1>1, <1>2, <1>3 DEF SerialInv

(* The serial invariant holds throughout. *)
LEMMA Serially == SyncSpec => []SerialInv
<1>1. SyncInit => SerialInv
  BY SerialInit
<1>2. BaseInv /\ BaseInv' /\ QueueInv /\ SerialInv /\ [SyncNext]_syncVars => SerialInv'
  BY SerialStep
<1> QED
  BY Basics, Queues, <1>1, <1>2, PTL DEF SyncSpec

(* A device with a single worker holds, up to its cursor, every live current *)
(* version of the server that nothing in its queue supersedes: however       *)
(* answers are paged or replaced by snapshots, tombstones merged, requests   *)
(* lost and executed late, it never skips a version it will not be sent      *)
(* again (ApplySyncResult and Sync together).                                *)
THEOREM SerialDevicesMissNothing == SyncSpec => []SerialCacheHoldsEveryHead
<1>1. SerialInv => SerialCacheHoldsEveryHead
  BY DEF SerialInv, SerialCacheHoldsEveryHead, HoldsEveryHead, HoldsEveryKept, Kept, Holds
<1> QED
  BY Serially, <1>1, PTL

\* A cache with nothing to send and nothing to read shows what the server has.
LEMMA ReplicaFollows ==
    ASSUME BaseInv, QueueInv, SerialInv
    PROVE  SyncedCacheIsReplica
<1>1. SUFFICES ASSUME NEW d \in Device, NEW i \in Item, OneAtATime(d),
                      cache[d].queue = <<>>, cache[d].cursor = db.cursor,
                      \A q \in db.accepted : db.row[q].item = i => ~db.row[q].purged
               PROVE  Of(Heads(cache[d].revs), i) = Of({db.row[h] : h \in db.heads}, i)
  BY DEF SyncedCacheIsReplica
<1> DEFINE revs == cache[d].revs
<1>2. NeverPurged(i)
  BY <1>1 DEF NeverPurged
<1>3. Pending(d) = {}
  BY <1>1 DEF Pending, ToSet
<1>4. \A q \in revs : q.id \in db.accepted /\ db.row[q.id] = q
  BY <1>3 DEF QueueInv, CachedIsPendingOrAccepted
<1>5. /\ \A h \in db.accepted : db.cursorOf[h] <= db.cursor /\ db.row[h].id = h
      /\ db.heads = {r \in db.accepted : \A q \in db.accepted : r \notin db.row[q].parents}
  BY DEF BaseInv, Inv, Good, CursorsDistinct, HeadsAreLeaves, GraphIsOrdered
<1>6. HoldsEveryKept(d) /\ HeadsAreCurrent(d)
  BY <1>1 DEF SerialInv
<1>7. ASSUME NEW q \in Heads(revs), q.item = i
      PROVE  q \in {db.row[h] : h \in db.heads}
  <2>1. q \in revs /\ \A s \in revs : q.id \notin s.parents
    BY DEF Heads
  <2>2. \A r \in db.accepted : q.id \notin db.row[r].parents
    <3> SUFFICES ASSUME NEW r \in db.accepted, q.id \in db.row[r].parents
                 PROVE  FALSE
      OBVIOUS
    <3>1. db.cursorOf[r] <= cache[d].cursor
      BY <1>1, <1>5
    <3> QED
      BY <1>2, <1>6, <1>7, <2>1, <3>1 DEF HeadsAreCurrent
  <2> QED
    BY <1>4, <1>5, <2>1, <2>2
<1>8. ASSUME NEW h \in db.heads, db.row[h].item = i
      PROVE  db.row[h] \in Heads(revs)
  <2>1. h \in db.accepted /\ \A q \in db.accepted : h \notin db.row[q].parents
    BY <1>5
  <2>2. db.row[h] \in revs
    <3>1. Kept(h) /\ db.cursorOf[h] <= cache[d].cursor
      BY <1>1, <1>2, <1>5, <1>8, <2>1 DEF Kept
    <3> QED
      BY <1>3, <1>6, <3>1 DEF HoldsEveryKept, Holds
  <2>3. \A q \in revs : db.row[h].id \notin q.parents
    BY <1>4, <1>5, <2>1
  <2> QED
    BY <2>2, <2>3 DEF Heads
<1> QED
  BY <1>7, <1>8 DEF Of

(* Once a device with a single worker has sent and read everything, it shows *)
(* exactly the current versions the server has of every item never deleted   *)
(* for good, conflicts included: synchronization converges on the server's   *)
(* revision graph (ApplySyncResult, ItemHeads).                              *)
THEOREM SerialDevicesConverge == SyncSpec => []SyncedCacheIsReplica
  BY Basics, Queues, Serially, ReplicaFollows, PTL

===============================================================================
