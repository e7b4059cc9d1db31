--------------------------- MODULE VaultSyncProofs ---------------------------
(***************************************************************************)
(* Proofs about VaultSync, for any number of devices, workers, revisions   *)
(* and items, any page and batch size, and any interleaving of users,      *)
(* synchronizations, lost messages and rollbacks.                          *)
(***************************************************************************)
EXTENDS VaultSync, VaultServerProofs

-----------------------------------------------------------------------------
(* Ranks in a bounded set of numbers *)

UpTo(K, k) == {j \in K : j <= k}

\* A bounded set of numbers is counted by the ranks of its members, in order.
LEMMA Ranks ==
    ASSUME NEW K \in SUBSET Nat, NEW n \in Nat, \A k \in K : k <= n
    PROVE  /\ IsFiniteSet(K)
           /\ Cardinality(K) \in Nat
           /\ \A k \in K : Cardinality(UpTo(K, k)) \in 1 .. Cardinality(K)
           /\ \A j, k \in K : j < k => Cardinality(UpTo(K, j)) < Cardinality(UpTo(K, k))
           /\ \A i \in 1 .. Cardinality(K) : \E k \in K : Cardinality(UpTo(K, k)) = i
<1> DEFINE rank == [k \in K |-> Cardinality(UpTo(K, k))]
           size == Cardinality(K)
<1>1. IsFiniteSet(K) /\ size \in Nat
  BY FS_BoundedSetOfNaturals, FS_CardinalityType
<1>2. ASSUME NEW k \in K
      PROVE  /\ IsFiniteSet(UpTo(K, k))
             /\ Cardinality(UpTo(K, k)) \in Nat
             /\ Cardinality(UpTo(K, k)) <= size
             /\ Cardinality(UpTo(K, k)) # 0
  <2>1. UpTo(K, k) \in SUBSET K /\ k \in UpTo(K, k)
    BY DEF UpTo
  <2>2. IsFiniteSet(UpTo(K, k)) /\ Cardinality(UpTo(K, k)) <= size
    BY <1>1, <2>1, FS_Subset
  <2> QED
    BY <2>1, <2>2, FS_CardinalityType, FS_EmptySet
<1>3. ASSUME NEW j \in K, NEW k \in K, j < k
      PROVE  Cardinality(UpTo(K, j)) < Cardinality(UpTo(K, k))
  <2>1. UpTo(K, j) \in SUBSET UpTo(K, k) /\ k \in UpTo(K, k) /\ k \notin UpTo(K, j)
    <3>1. j \in Nat /\ k \in Nat /\ \A i \in K : i \in Nat
      OBVIOUS
    <3>2. \A i \in K : i <= j => i <= k
      BY <1>3, <3>1
    <3>3. k <= k /\ ~(k <= j)
      BY <1>3, <3>1
    <3> HIDE DEF rank, size
    <3> QED
      BY <3>2, <3>3 DEF UpTo
  <2>2. /\ Cardinality(UpTo(K, j)) <= Cardinality(UpTo(K, k))
        /\ Cardinality(UpTo(K, k)) = Cardinality(UpTo(K, j)) => UpTo(K, k) = UpTo(K, j)
    BY <1>2, <2>1, FS_Subset
  <2> QED
    BY <1>2, <2>1, <2>2
<1>4. rank \in [K -> 1 .. size]
  BY <1>1, <1>2
<1>5. \A j, k \in K : rank[j] = rank[k] => j = k
  <2>1. \A j, k \in K : j < k => rank[j] < rank[k]
    BY <1>3
  <2>2. \A k \in K : rank[k] \in Nat
    BY <1>2
  <2> QED
    BY <2>1, <2>2
<1>6. rank \in Injection(K, 1 .. size)
  <2> HIDE DEF rank, size
  <2> QED
    BY <1>4, <1>5, Fun_IsInj
<1>7. IsFiniteSet(1 .. size) /\ Cardinality(1 .. size) = size
  <2>1. 1 \in Int /\ size \in Int
    BY <1>1
  <2>2. /\ IsFiniteSet(1 .. size)
        /\ Cardinality(1 .. size) = IF 1 > size THEN 0 ELSE size - 1 + 1
    BY <2>1, FS_Interval
  <2> HIDE DEF size
  <2> QED
    BY <1>1, <2>2
<1>8. rank \in Surjection(K, 1 .. size)
  <2> HIDE DEF rank
  <2> QED
    BY <1>6, <1>7, FS_Injection
<1>9. \A i \in 1 .. size : \E k \in K : rank[k] = i
  <2> HIDE DEF rank, size
  <2> QED
    BY <1>8, Fun_SurjectionProperties
<1> QED
  BY <1>1, <1>2, <1>3, <1>9

\* Such a set has a greatest member.
LEMMA Greatest ==
    ASSUME NEW K \in SUBSET Nat, NEW n \in Nat, \A k \in K : k <= n, K # {}
    PROVE  \E k \in K : \A j \in K : j <= k
<1>1. IsFiniteSet(K) /\ Cardinality(K) \in Nat /\ Cardinality(K) # 0
  BY Ranks, FS_EmptySet
<1>2. Cardinality(K) \in 1 .. Cardinality(K)
  BY <1>1
<1>3. PICK k \in K : Cardinality(UpTo(K, k)) = Cardinality(K)
  BY <1>2, Ranks
<1>4. UpTo(K, k) \in SUBSET K
  BY DEF UpTo
<1>5. UpTo(K, k) = K
  BY <1>1, <1>3, <1>4, FS_Subset
<1> QED
  BY <1>5 DEF UpTo

\* HighestOf finds it among the numbers of some revisions.
LEMMA HighestIsThere ==
    ASSUME NEW R \in SUBSET Mutation, R # {}
    PROVE  /\ HighestOf(R) \in 1 .. MaxRevision
           /\ \E r \in R : r.revision = HighestOf(R)
           /\ \A r \in R : r.revision <= HighestOf(R)
<1> DEFINE K == {r.revision : r \in R}
<1>1. \A r \in R : r.revision \in 1 .. MaxRevision
  BY DEF Mutation, Revision
<1>2. MaxRevision \in Nat
  BY RetentionAssumption DEF RetentionAssumption
<1>3. K \in SUBSET Nat /\ K # {} /\ \A k \in K : k <= MaxRevision
  BY <1>1, <1>2
<1>4. \E k \in K : \A j \in K : j <= k
  <2> HIDE DEF K
  <2> QED
    BY <1>2, <1>3, Greatest
<1>5. \E n \in K : \A r \in R : r.revision <= n
  BY <1>4
<1>6. HighestOf(R) \in K /\ \A r \in R : r.revision <= HighestOf(R)
  BY <1>5 DEF HighestOf
<1> QED
  BY <1>1, <1>6

-----------------------------------------------------------------------------
(* What a reply leaves in a queue *)

\* A queue without some of its mutations, in the same order.
Thinned(queue, left, applied) ==
    /\ left \in Seq(Mutation)
    /\ \E from \in [DOMAIN left -> DOMAIN queue] :
        /\ \A i \in DOMAIN left : left[i] = queue[from[i]]
        /\ \A i, j \in DOMAIN left : i < j => from[i] < from[j]
        /\ \A i \in DOMAIN left : queue[from[i]].id \notin applied
        /\ \A k \in DOMAIN queue :
            queue[k].id \notin applied => \E i \in DOMAIN left : from[i] = k

\* StillPending keeps, in their order, exactly the mutations not reported applied.
LEMMA StillPendingFacts ==
    ASSUME NEW queue \in Seq(Mutation), NEW reply
    PROVE  Thinned(queue, StillPending(queue, reply), reply.applied)
<1> DEFINE K == {j \in DOMAIN queue : queue[j].id \notin reply.applied}
           size == Cardinality(K)
           nth(i) == CHOOSE j \in K : Cardinality({k \in K : k <= j}) = i
           from == [i \in 1 .. size |-> nth(i)]
           left == StillPending(queue, reply)
<1>1. Len(queue) \in Nat /\ DOMAIN queue = 1 .. Len(queue)
  OBVIOUS
<1>2. K \in SUBSET Nat /\ \A k \in K : k <= Len(queue)
  BY <1>1
<1>3. left = [i \in 1 .. size |-> queue[nth(i)]]
  BY DEF StillPending
<1>4. \A j : UpTo(K, j) = {k \in K : k <= j}
  BY DEF UpTo
<1> HIDE DEF K
<1>5. /\ size \in Nat
      /\ \A k \in K : Cardinality(UpTo(K, k)) \in 1 .. size
      /\ \A j, k \in K : j < k => Cardinality(UpTo(K, j)) < Cardinality(UpTo(K, k))
      /\ \A i \in 1 .. size : \E k \in K : Cardinality(UpTo(K, k)) = i
  BY <1>1, <1>2, Ranks
<1> HIDE DEF size
<1>6. ASSUME NEW i \in 1 .. size
      PROVE  nth(i) \in K /\ Cardinality(UpTo(K, nth(i))) = i
  BY <1>4, <1>5
<1> HIDE DEF nth
<1>7. \A j, k \in K : Cardinality(UpTo(K, j)) = Cardinality(UpTo(K, k)) => j = k
  BY <1>1, <1>2, <1>5
<1>8. DOMAIN left = 1 .. size /\ \A i \in 1 .. size : left[i] = queue[from[i]] /\ from[i] \in K
  BY <1>3, <1>6
<1>9. K \subseteq DOMAIN queue /\ \A k \in K : queue[k].id \notin reply.applied
  BY DEF K
<1>10. left \in Seq(Mutation)
  <2>1. \A i \in 1 .. size : queue[nth(i)] \in Mutation
    BY <1>6, <1>9
  <2>2. [i \in 1 .. size |-> queue[nth(i)]] \in Seq(Mutation)
    BY <1>5, <2>1
  <2> QED
    BY <1>3, <2>2
<1>11. \A i, j \in 1 .. size : i < j => from[i] < from[j]
  <2> SUFFICES ASSUME NEW i \in 1 .. size, NEW j \in 1 .. size, i < j
               PROVE  nth(i) < nth(j)
    OBVIOUS
  <2>1. nth(i) \in Nat /\ nth(j) \in Nat
    BY <1>2, <1>6
  <2>2. nth(j) < nth(i) => j < i
    BY <1>5, <1>6
  <2>3. nth(j) = nth(i) => j = i
    BY <1>6
  <2> QED
    BY <2>1, <2>2, <2>3
<1>12. \A k \in K : \E i \in 1 .. size : from[i] = k
  <2> SUFFICES ASSUME NEW k \in K PROVE \E i \in 1 .. size : from[i] = k
    OBVIOUS
  <2> DEFINE i == Cardinality(UpTo(K, k))
  <2>1. i \in 1 .. size
    BY <1>5
  <2>2. nth(i) = k
    BY <1>6, <1>7, <2>1
  <2> HIDE DEF i
  <2> QED
    BY <2>1, <2>2
<1>13. \A k \in DOMAIN queue : queue[k].id \notin reply.applied => k \in K
  BY DEF K
<1>14. from \in [1 .. size -> DOMAIN queue]
  BY <1>8, <1>9
<1> HIDE DEF from, left
<1>15. \E f \in [DOMAIN left -> DOMAIN queue] :
        /\ \A i \in DOMAIN left : left[i] = queue[f[i]]
        /\ \A i, j \in DOMAIN left : i < j => f[i] < f[j]
        /\ \A i \in DOMAIN left : queue[f[i]].id \notin reply.applied
        /\ \A k \in DOMAIN queue :
            queue[k].id \notin reply.applied => \E i \in DOMAIN left : f[i] = k
  <2>1. from \in [DOMAIN left -> DOMAIN queue]
    BY <1>8, <1>14
  <2>2. \A i \in DOMAIN left : left[i] = queue[from[i]] /\ queue[from[i]].id \notin reply.applied
    BY <1>8, <1>9
  <2>3. \A i, j \in DOMAIN left : i < j => from[i] < from[j]
    BY <1>8, <1>11
  <2>4. \A k \in DOMAIN queue :
            queue[k].id \notin reply.applied => \E i \in DOMAIN left : from[i] = k
    BY <1>8, <1>12, <1>13
  <2> WITNESS from \in [DOMAIN left -> DOMAIN queue]
  <2> QED
    BY <2>2, <2>3, <2>4
<1> QED
  BY <1>10, <1>15 DEF Thinned, left

-----------------------------------------------------------------------------
(* The basic invariant: what travels, and what the open transaction sees *)

Sent    == [stage : {"sent"}, request : Request]
Replied == [stage : {"replied"}, full : BOOLEAN, cursor : Nat,
            changes : SUBSET Mutation, applied : SUBSET RevId]
Served  == [to : SUBSET Worker, request : Request, todo : Seq(Mutation)]
Cached  == [revs : SUBSET Mutation, queue : Seq(Mutation), cursor : Nat]

ClientTypes ==
    /\ scenario \in Scenarios
    /\ issued \subseteq Mutation
    /\ cache \in [Device -> Cached]
    /\ view \in [Device -> SUBSET Mutation]
    /\ trash \in [Device -> SUBSET Mutation]

MessageTypes ==
    /\ sync \in [Worker -> {Idle} \cup Sent \cup Replied]
    /\ serving \subseteq Served
    /\ orphans \subseteq Request
    /\ failures \in 0 .. MaxFailures

\* The tables only grow: rows and cursors stay, new cursors are higher.
Grown(d, e) ==
    /\ d.accepted \subseteq e.accepted
    /\ d.cursor <= e.cursor
    /\ \A r \in d.accepted : e.row[r] = d.row[r] /\ e.cursorOf[r] = d.cursorOf[r]
    /\ \A r \in e.accepted \ d.accepted : d.cursor < e.cursorOf[r]

OneTransaction ==
    /\ (serving = {}) = (tx = {})
    /\ \A s, t \in serving : s = t
    /\ tx = {} => work = db
    /\ Grown(db, work)
    /\ \A s \in serving : \A w \in s.to : sync[w] = [stage |-> "sent", request |-> s.request]

\* Nothing is queued or sent that no device has made.
OnlyIssuedTravels ==
    /\ \A d \in Device : Pending(d) \subseteq issued
    /\ \A w \in Worker :
        sync[w].stage = "sent" => ToSet(sync[w].request.mutations) \subseteq issued
    /\ \A s \in serving :
        ToSet(s.request.mutations) \subseteq issued /\ ToSet(s.todo) \subseteq issued
    /\ \A q \in orphans : ToSet(q.mutations) \subseteq issued

\* A UUID stands for one revision, on the devices and in the tables.
IdsAreSpent ==
    /\ \A q \in work.accepted : work.row[q] \in Mutation
    /\ \A m \in issued : m.id \in work.accepted => work.row[m.id] = m
    /\ \A m, n \in issued : m.id = n.id => m = n

\* What a reply reports is committed: the transaction has taken all of the batch.
RepliesAreTrue ==
    /\ \A s \in serving : \A m \in ToSet(s.request.mutations) :
        m \in ToSet(s.todo) \/ m.id \in work.accepted
    /\ \A w \in Worker :
        sync[w].stage = "replied" =>
            /\ sync[w].applied \subseteq db.accepted
            /\ sync[w].changes \subseteq {db.row[q] : q \in db.accepted}
            /\ sync[w].cursor <= db.cursor

BaseInv ==
    /\ Inv
    /\ ClientTypes
    /\ MessageTypes
    /\ OneTransaction
    /\ OnlyIssuedTravels
    /\ IdsAreSpent
    /\ RepliesAreTrue

\* What a saved revision may descend from: a live version shown alone, what the
\* trash displays of an item, or all the versions of a conflict.
Descends(d, m) ==
    \/ m.deleted
    \/ m.parents = {}
    \/ \E r \in view[d] : ~r.deleted /\ m.parents = {r.id}
    \/ \E r \in trash[d] : Displayed(d, r) /\ m.parents = {r.id}
    \/ \E i \in Item : /\ Cardinality(Of(view[d], i)) > 1
                       /\ m.parents = Ids(Of(view[d], i))

\* Whatever its user saves, a device makes one well-formed revision with a UUID
\* of its own, and queues it.
Made(d, m) ==
    /\ Descends(d, m)
    /\ tx = {}
    /\ m \in Mutation
    /\ m.id \notin Ids(issued) /\ m.id \notin work.accepted
    /\ QueueMutation(d, m)
    /\ issued' = issued \cup {m}
    /\ UNCHANGED <<serverVars, scenario, view, trash, sync, serving, orphans, failures>>

\* A fresh UUID is nobody's.
LEMMA FreshIsUnused ==
    ASSUME ClientTypes, Unused # {}
    PROVE  FreshId \in RevId /\ FreshId \notin Ids(issued) /\ FreshId \notin work.accepted
  BY WorkerAssumption DEF ClientTypes, WorkerAssumption, Unused, Used, FreshId

\* What descends from some revisions is well-formed.
LEMMA ChildForm ==
    ASSUME ClientTypes, Unused # {}, NEW parents \in SUBSET Mutation, parents # {},
           NEW item \in Item, NEW deleted \in BOOLEAN, NEW purged \in BOOLEAN,
           purged => deleted, Child(parents, item, deleted, purged).revision <= MaxRevision
    PROVE  Child(parents, item, deleted, purged) \in Mutation
<1> DEFINE m == Child(parents, item, deleted, purged)
<1>1. /\ m.id = FreshId /\ m.item = item /\ m.revision = HighestOf(parents) + 1
      /\ m.parents = Ids(parents) /\ m.deleted = deleted /\ m.purged = purged
  BY DEF Child
<1>2. HighestOf(parents) \in 1 .. MaxRevision
  BY HighestIsThere
<1>3. MaxRevision \in Nat
  BY RetentionAssumption DEF RetentionAssumption
<1>4. m.revision \in 1 .. MaxRevision /\ m.revision # 1
  BY <1>1, <1>2, <1>3
<1>5. \A p \in parents : p.id \in RevId
  BY DEF Mutation, Revision
<1>6. m.parents \in SUBSET RevId /\ m.parents # {}
  BY <1>1, <1>5 DEF Ids
<1>7. m.id \in RevId
  BY <1>1, FreshIsUnused
<1>8. m = [id |-> m.id, item |-> m.item, revision |-> m.revision, parents |-> m.parents,
           deleted |-> m.deleted, purged |-> m.purged]
  BY DEF Child
<1> HIDE DEF m
<1>9. m \in Revision
  BY <1>1, <1>4, <1>6, <1>7, <1>8 DEF Revision
<1>10. ValidMutation(m)
  BY <1>1, <1>4, <1>6 DEF ValidMutation
<1>11. m \in Mutation
  BY <1>9, <1>10 DEF Mutation
<1> QED
  BY <1>11 DEF m

\* Saving a well-formed revision under a fresh UUID makes it.
LEMMA SaveMakes ==
    ASSUME ClientTypes, NEW d, NEW op, NEW m, m.id = FreshId, Save(d, op, m), Descends(d, m),
           m.revision <= MaxRevision /\ Unused # {} => m \in Mutation
    PROVE  Made(d, m)
  BY FreshIsUnused DEF Save, Made

\* Every step of a user lists something or makes a revision.
LEMMA UserSteps ==
    ASSUME ClientTypes, NEW d \in Device, UserStep(d)
    PROVE  List(d) \/ Trash(d) \/ \E m : Made(d, m)
<1>1. ASSUME NEW i \in Item, Create(d, i)
      PROVE  \E m : Made(d, m)
  <2> DEFINE m == [id |-> FreshId, item |-> i, revision |-> 1, parents |-> {},
                   deleted |-> FALSE, purged |-> FALSE]
  <2>1. Save(d, "create", m)
    BY <1>1 DEF Create
  <2>2. ASSUME m.revision <= MaxRevision, Unused # {}
        PROVE  m \in Mutation
    <3>1. FreshId \in RevId
      BY <2>2, FreshIsUnused
    <3>2. 1 \in 1 .. MaxRevision
      BY <2>2, RetentionAssumption DEF RetentionAssumption
    <3> QED
      BY <3>1, <3>2 DEF Mutation, Revision, ValidMutation
  <2>3. m.id = FreshId /\ Descends(d, m)
    BY DEF Descends
  <2> HIDE DEF m
  <2> QED
    BY <2>1, <2>2, <2>3, SaveMakes
<1>2. \A r \in view[d] \cup trash[d] :
        r \in Mutation /\ r.item \in Item /\ r.deleted \in BOOLEAN
        /\ r.purged \in BOOLEAN /\ (r.purged => r.deleted)
  <2>1. view[d] \cup trash[d] \subseteq Mutation
    BY DEF ClientTypes
  <2> QED
    BY <2>1 DEF Mutation, Revision, ValidMutation
<1>3. ASSUME NEW parents \in SUBSET Mutation, parents # {}, NEW op,
             NEW item \in Item, NEW deleted \in BOOLEAN, NEW purged \in BOOLEAN,
             purged => deleted, Save(d, op, Child(parents, item, deleted, purged)),
             Descends(d, Child(parents, item, deleted, purged))
      PROVE  \E m : Made(d, m)
  <2> DEFINE m == Child(parents, item, deleted, purged)
  <2>1. m.id = FreshId
    BY DEF Child
  <2>2. m.revision <= MaxRevision /\ Unused # {} => m \in Mutation
    BY <1>3, ChildForm
  <2>3. Save(d, op, m) /\ Descends(d, m)
    BY <1>3
  <2> HIDE DEF m
  <2> QED
    BY <2>1, <2>2, <2>3, SaveMakes
<1>4. ASSUME NEW r \in view[d], Edit(d, r) \/ Delete(d, r)
      PROVE  \E m : Made(d, m)
  <2>1. \E op : \E b \in BOOLEAN :
            Save(d, op, Child({r}, r.item, b, FALSE)) /\ Descends(d, Child({r}, r.item, b, FALSE))
    <3>1. /\ ~r.deleted
          /\ \E op : \E b \in BOOLEAN : Save(d, op, Child({r}, r.item, b, FALSE))
      BY <1>4 DEF Edit, Delete
    <3>2. \A b : Child({r}, r.item, b, FALSE).parents = {r.id}
      BY DEF Child, Ids
    <3> QED
      BY <3>1, <3>2 DEF Descends
  <2>2. {r} \in SUBSET Mutation /\ {r} # {} /\ FALSE \in BOOLEAN
    BY <1>2
  <2> QED
    BY <1>2, <1>3, <2>1, <2>2
<1>5. ASSUME NEW r \in view[d], Resolve(d, r)
      PROVE  \E m : Made(d, m)
  <2> DEFINE parents == Of(view[d], r.item)
  <2>1. parents \in SUBSET Mutation
    BY <1>2 DEF Of
  <2>2. r \in parents
    BY DEF Of
  <2>3. /\ Save(d, "resolve", Child(parents, r.item, r.deleted, r.purged))
        /\ Cardinality(parents) > 1
    BY <1>5 DEF Resolve
  <2>4. Descends(d, Child(parents, r.item, r.deleted, r.purged))
    <3>1. Child(parents, r.item, r.deleted, r.purged).parents = Ids(parents) /\ r.item \in Item
      BY <1>2 DEF Child
    <3> QED
      BY <2>3, <3>1 DEF Descends
  <2> HIDE DEF parents
  <2> QED
    BY <1>2, <1>3, <2>1, <2>2, <2>3, <2>4
<1>6. ASSUME NEW r \in trash[d], Restore(d, r) \/ Purge(d, r)
      PROVE  \E m : Made(d, m)
  <2>1. \E op : \E b \in BOOLEAN :
            Save(d, op, Child({r}, r.item, b, b)) /\ Descends(d, Child({r}, r.item, b, b))
    <3>1. /\ Displayed(d, r)
          /\ \E op : \E b \in BOOLEAN : Save(d, op, Child({r}, r.item, b, b))
      BY <1>6 DEF Restore, Purge
    <3>2. \A b : Child({r}, r.item, b, b).parents = {r.id}
      BY DEF Child, Ids
    <3> QED
      BY <3>1, <3>2 DEF Descends
  <2>2. {r} \in SUBSET Mutation /\ {r} # {}
    BY <1>2
  <2> QED
    BY <1>2, <1>3, <2>1, <2>2
<1> QED
  BY <1>1, <1>4, <1>5, <1>6 DEF UserStep

\* The steps, with the users' saves reduced to what they make.
LEMMA Steps ==
    ASSUME ClientTypes, [SyncNext]_syncVars
    PROVE  \/ UNCHANGED syncVars
           \/ \E d \in Device : List(d)
           \/ \E d \in Device : Trash(d)
           \/ \E d \in Device : \E m : Made(d, m)
           \/ \E w \in Workers : Send(w)
           \/ \E w \in Workers : Receive(w)
           \/ \E w \in Workers : RefuseBatch(w)
           \/ \E w \in Workers : GiveUp(w)
           \/ \E w \in Workers : Apply(w)
           \/ ReceiveLate
           \/ ServeExpiry
           \/ ServeMutation
           \/ Abort
           \/ Reply
           \/ TimePasses
  BY UserSteps DEF SyncNext, ServerStep

\* Workers serve devices.
LEMMA WorkersServe ==
    ASSUME ClientTypes
    PROVE  Workers \subseteq Worker /\ \A w \in Workers : HostOf(w) \in Device
  BY WorkerAssumption DEF ClientTypes, WorkerAssumption, Workers, HostOf

\* The next mutation of a batch is one that some device has made.
LEMMA NextIsIssued ==
    ASSUME MessageTypes, OnlyIssuedTravels, NEW s \in serving, s.todo # <<>>
    PROVE  /\ Head(s.todo) \in issued
           /\ Head(s.todo) \in ToSet(s.todo)
           /\ Tail(s.todo) \in Seq(Mutation)
           /\ ToSet(s.todo) = {Head(s.todo)} \cup ToSet(Tail(s.todo))
<1>1. s.todo \in Seq(Mutation)
  BY DEF MessageTypes, Served
<1>2. Len(s.todo) \in Nat /\ Len(s.todo) # 0 /\ DOMAIN s.todo = 1 .. Len(s.todo)
  BY <1>1
<1>3. Head(s.todo) = s.todo[1] /\ 1 \in DOMAIN s.todo
  BY <1>1, <1>2
<1>4. /\ Tail(s.todo) \in Seq(Mutation)
      /\ DOMAIN Tail(s.todo) = 1 .. Len(s.todo) - 1
      /\ \A i \in 1 .. Len(s.todo) - 1 : Tail(s.todo)[i] = s.todo[i + 1]
  BY <1>1, <1>2
<1>5. ToSet(s.todo) \subseteq {Head(s.todo)} \cup ToSet(Tail(s.todo))
  <2> SUFFICES ASSUME NEW i \in DOMAIN s.todo, i # 1
               PROVE  s.todo[i] \in ToSet(Tail(s.todo))
    BY <1>3 DEF ToSet
  <2>1. i - 1 \in 1 .. Len(s.todo) - 1 /\ (i - 1) + 1 = i
    BY <1>2
  <2>2. i - 1 \in DOMAIN Tail(s.todo) /\ Tail(s.todo)[i - 1] = s.todo[i]
    BY <1>4, <2>1
  <2> QED
    BY <2>2 DEF ToSet
<1>6. ToSet(Tail(s.todo)) \subseteq ToSet(s.todo)
  <2>1. \A i \in 1 .. Len(s.todo) - 1 : i + 1 \in DOMAIN s.todo
    BY <1>2
  <2> QED
    BY <1>4, <2>1 DEF ToSet
<1>7. Head(s.todo) \in ToSet(s.todo)
  BY <1>3 DEF ToSet
<1> QED
  BY <1>4, <1>5, <1>6, <1>7 DEF OnlyIssuedTravels

\* Whatever the devices do, the server only takes steps of its own.
LEMMA ServerSteps ==
    ASSUME BaseInv, [SyncNext]_syncVars
    PROVE  [ServerNext]_serverVars
<1> USE DEF BaseInv
<1>1. now \in Nat /\ now \in 0 .. now
  BY RetentionAssumption DEF Inv, TypeOK, RetentionAssumption
<1>2. CASE \E w \in Workers : Receive(w)
  BY <1>1, <1>2 DEF Receive, Open, ServerNext
<1>3. CASE ReceiveLate
  BY <1>1, <1>3 DEF ReceiveLate, Open, ServerNext
<1>4. CASE ServeExpiry
  BY <1>4, FreshIsUnused DEF ServeExpiry, ServerNext
<1>5. CASE ServeMutation
  <2>1. PICK s \in serving : s.todo # <<>> /\ Mutate(Head(s.todo))
    BY <1>5 DEF ServeMutation
  <2>2. Head(s.todo) \in Mutation
    BY <2>1, NextIsIssued DEF ClientTypes
  <2> QED
    BY <2>1, <2>2 DEF ServerNext
<1>6. CASE Abort
  BY <1>6 DEF Abort, ServerNext
<1>7. CASE Reply
  <2>1. PICK s \in serving : Commit(s.request.cursor)
    BY <1>7 DEF Reply
  <2>2. db.cursor \in Nat /\ work.cursor \in Nat
    BY DEF Inv, TypeOK, IsDb
  <2>3. Commit(0) /\ 0 \in 0 .. db.cursor + 1
    BY <2>1, <2>2 DEF Commit
  <2> QED
    BY <2>3 DEF ServerNext
<1>8. CASE TimePasses
  BY <1>8 DEF TimePasses, ServerNext
<1>9. CASE \/ UNCHANGED syncVars
           \/ \E d \in Device : List(d)
           \/ \E d \in Device : Trash(d)
           \/ \E d \in Device : \E m : Made(d, m)
           \/ \E w \in Workers : Send(w)
           \/ \E w \in Workers : RefuseBatch(w)
           \/ \E w \in Workers : GiveUp(w)
           \/ \E w \in Workers : Apply(w)
  BY <1>9 DEF syncVars, List, Trash, Made, Send, RefuseBatch, GiveUp, Apply
<1> QED
  BY Steps, <1>2, <1>3, <1>4, <1>5, <1>6, <1>7, <1>8, <1>9

-----------------------------------------------------------------------------
(* How the tables grow *)

(* Nothing happening to a table keeps what was accepted. *)
LEMMA GrownOnItself ==
    ASSUME NEW d, d.cursor \in Nat
    PROVE  Grown(d, d)
  BY DEF Grown

(* Pruning deletes no accepted revision and no change row. *)
LEMMA GrownByPruning ==
    ASSUME NEW d, IsDb(d), NEW at
    PROVE  Grown(d, Prune(d, at))
<1> DEFINE e == Prune(d, at)
<1>1. e.accepted = d.accepted /\ e.row = d.row /\ e.cursorOf = d.cursorOf /\ e.cursor = d.cursor
  BY DEF Prune, IsDb
<1>2. d.cursor \in Nat
  BY DEF IsDb
<1> HIDE DEF e
<1>3. Grown(d, e)
  BY <1>1, <1>2 DEF Grown
<1> QED
  BY <1>3 DEF e

(* Accepting one revision adds it with a cursor above all others. *)
LEMMA GrownByAccepting ==
    ASSUME NEW d, NEW e, IsDb(d), IsDb(e), Grown(d, e),
           NEW m \in Mutation, NEW at \in Nat, Accepts(e, m)
    PROVE  Grown(d, Accept(e, m, at))
<1> DEFINE f == Accept(e, m, at)
<1>1. m \in Revision
  BY DEF Mutation
<1>2. /\ f.accepted = e.accepted \cup {m.id}
      /\ f.cursor = e.cursor + 1
      /\ f.cursorOf[m.id] = e.cursor + 1
      /\ \A r \in e.accepted : f.row[r] = e.row[r] /\ f.cursorOf[r] = e.cursorOf[r]
      /\ m.id \notin e.accepted
  BY <1>1, AcceptFields
<1>3. d.cursor \in Nat /\ e.cursor \in Nat /\ \A r \in e.accepted : e.cursorOf[r] \in Nat
  BY DEF IsDb
<1> HIDE DEF f
<1>4. d.accepted \subseteq f.accepted /\ d.cursor <= f.cursor
  BY <1>2, <1>3 DEF Grown
<1>5. \A r \in d.accepted : f.row[r] = d.row[r] /\ f.cursorOf[r] = d.cursorOf[r]
  BY <1>2 DEF Grown
<1>6. \A r \in f.accepted \ d.accepted : d.cursor < f.cursorOf[r]
  <2>1. d.cursor < e.cursor + 1
    BY <1>3 DEF Grown
  <2> QED
    BY <1>2, <2>1 DEF Grown
<1>7. Grown(d, f)
  BY <1>4, <1>5, <1>6 DEF Grown
<1> QED
  BY <1>7 DEF f

\* What a step may do to the tables.
TablesKept   == UNCHANGED <<db, work>>
TablesPruned == \E at : tx = {} /\ work' = Prune(db, at) /\ UNCHANGED <<db, issued>>
TablesRolled == work' = db /\ UNCHANGED <<db, issued>>
TablesSaved  == db' = work /\ UNCHANGED <<work, issued>>
TablesGained(m) ==
    /\ m \in Mutation /\ Accepts(work, m)
    /\ m \in issued \/ m.id \notin Ids(issued)
    /\ \E at \in Nat : work' = Accept(work, m, at)
    /\ UNCHANGED <<db, issued>>

(* What a step does to the tables: opens and prunes a transaction, rolls it back,
   commits it, accepts one issued revision, or leaves them alone. *)
LEMMA TableSteps ==
    ASSUME BaseInv, [SyncNext]_syncVars
    PROVE  \/ TablesKept \/ TablesPruned \/ TablesRolled \/ TablesSaved
           \/ \E m : TablesGained(m)
<1> USE DEF BaseInv
<1>1. \A at \in tx : at \in Nat
  BY RetentionAssumption DEF Inv, TypeOK, RetentionAssumption
<1>2. CASE \/ UNCHANGED syncVars
           \/ \E d \in Device : List(d)
           \/ \E d \in Device : Trash(d)
           \/ \E d \in Device : \E m : Made(d, m)
           \/ \E w \in Workers : Send(w)
           \/ \E w \in Workers : RefuseBatch(w)
           \/ \E w \in Workers : GiveUp(w)
           \/ \E w \in Workers : Apply(w)
           \/ TimePasses
  BY <1>2 DEF syncVars, serverVars, List, Trash, Made, Send, RefuseBatch, GiveUp, Apply,
              TimePasses, Tick, TablesKept
<1>3. CASE (\E w \in Workers : Receive(w)) \/ ReceiveLate
  <2>1. \E at : Begin(at) /\ UNCHANGED clientVars
    BY <1>3 DEF Receive, ReceiveLate, Open
  <2> QED
    BY <2>1 DEF Begin, clientVars, TablesPruned
<1>4. CASE ServeExpiry
  <2>1. PICK h \in RevId : ExpireTrash(h, FreshId)
    BY <1>4 DEF ServeExpiry
  <2>2. UNCHANGED issued /\ Unused # {}
    BY <1>4 DEF ServeExpiry, clientVars
  <2>3. PICK at \in tx :
            /\ h \in Expired(work, at)
            /\ work.row[h].revision < MaxRevision
            /\ Accepts(work, TombstoneOf(work, h, FreshId))
            /\ work' = Accept(work, TombstoneOf(work, h, FreshId), at)
            /\ UNCHANGED db
    BY <2>1 DEF ExpireTrash
  <2> DEFINE m == TombstoneOf(work, h, FreshId)
  <2>4. FreshId \in RevId /\ FreshId \notin Ids(issued)
    BY <2>2, FreshIsUnused
  <2>5. m \in Revision /\ ValidMutation(m)
    BY <1>1, <2>3, <2>4, TombstoneForm DEF Inv
  <2>6. m.id = FreshId
    BY DEF TombstoneOf
  <2>7. m \in Mutation
    BY <2>5 DEF Mutation
  <2>8. Accepts(work, m) /\ work' = Accept(work, m, at) /\ at \in Nat
    BY <1>1, <2>3
  <2> HIDE DEF m
  <2>9. TablesGained(m)
    BY <2>2, <2>3, <2>4, <2>6, <2>7, <2>8 DEF TablesGained
  <2> QED
    BY <2>9
<1>5. CASE ServeMutation
  <2>1. PICK s \in serving : s.todo # <<>> /\ Mutate(Head(s.todo)) /\ UNCHANGED clientVars
    BY <1>5 DEF ServeMutation
  <2> DEFINE m == Head(s.todo)
  <2>2. m \in issued /\ m \in Mutation /\ UNCHANGED issued
    BY <2>1, NextIsIssued DEF ClientTypes, clientVars
  <2>3. CASE Retry(m)
    BY <2>3 DEF Retry, serverVars, TablesKept
  <2>4. CASE AppendRevision(m)
    <3>1. PICK at \in tx : Accepts(work, m) /\ work' = Accept(work, m, at) /\ UNCHANGED db
      BY <2>4 DEF AppendRevision
    <3>2. at \in Nat
      BY <1>1
    <3> HIDE DEF m
    <3> QED
      BY <2>2, <3>1, <3>2 DEF TablesGained
  <2> QED
    BY <2>1, <2>3, <2>4 DEF Mutate
<1>6. CASE Abort
  BY <1>6 DEF Abort, Fail, clientVars, TablesRolled
<1>7. CASE Reply
  BY <1>7 DEF Reply, Commit, clientVars, TablesSaved
<1> QED
  BY Steps, <1>2, <1>3, <1>4, <1>5, <1>6, <1>7

\* The tables that are committed never lose anything, nor do those a transaction
\* sees, compared with them.
LEMMA GrownStep ==
    ASSUME BaseInv, [SyncNext]_syncVars
    PROVE  Grown(db, work)' /\ Grown(db, db')
<1> USE DEF BaseInv
<1>1. IsDb(db) /\ IsDb(work) /\ Grown(db, work)
  BY DEF Inv, TypeOK, OneTransaction
<1>2. db.cursor \in Nat /\ work.cursor \in Nat
  BY <1>1 DEF IsDb
<1>3. Grown(db, db) /\ Grown(work, work)
  BY <1>2, GrownOnItself
<1>4. CASE TablesKept
  BY <1>1, <1>3, <1>4 DEF TablesKept
<1>5. CASE TablesPruned
  BY <1>1, <1>3, <1>5, GrownByPruning DEF TablesPruned
<1>6. CASE TablesRolled
  BY <1>3, <1>6 DEF TablesRolled
<1>7. CASE TablesSaved
  BY <1>1, <1>3, <1>7 DEF TablesSaved
<1>8. ASSUME NEW m, TablesGained(m)
      PROVE  Grown(db, work)' /\ Grown(db, db')
  BY <1>1, <1>3, <1>8, GrownByAccepting DEF TablesGained
<1> QED
  BY TableSteps, <1>4, <1>5, <1>6, <1>7, <1>8

\* UUIDs stay spent.
LEMMA IdsStep ==
    ASSUME BaseInv, [SyncNext]_syncVars
    PROVE  IdsAreSpent'
<1> USE DEF BaseInv
<1>1. IsDb(db) /\ Grown(db, work)
  BY DEF Inv, TypeOK, OneTransaction
<1>2. /\ \A q \in db.accepted : db.row[q] \in Mutation
      /\ \A m \in issued : m.id \in db.accepted => db.row[m.id] = m
  BY <1>1 DEF IdsAreSpent, Grown
<1>3. CASE \E d \in Device : \E m : Made(d, m)
  <2>1. PICK m : /\ m.id \notin Ids(issued) /\ m.id \notin work.accepted
                 /\ issued' = issued \cup {m} /\ UNCHANGED work
    BY <1>3 DEF Made, serverVars
  <2>2. \A n \in issued : n.id # m.id
    BY <2>1 DEF Ids
  <2> QED
    BY <2>1, <2>2 DEF IdsAreSpent
<1>4. CASE UNCHANGED issued /\ TablesKept
  BY <1>4 DEF TablesKept, IdsAreSpent
<1>5. CASE TablesPruned
  <2>1. PICK at : work' = Prune(db, at) /\ UNCHANGED issued
    BY <1>5 DEF TablesPruned
  <2>2. work'.accepted = db.accepted /\ work'.row = db.row
    BY <1>1, <2>1 DEF Prune, IsDb
  <2> QED
    BY <1>2, <2>1, <2>2 DEF IdsAreSpent
<1>6. CASE TablesRolled
  BY <1>2, <1>6 DEF TablesRolled, IdsAreSpent
<1>7. CASE TablesSaved
  BY <1>7 DEF TablesSaved, IdsAreSpent
<1>8. ASSUME NEW m, TablesGained(m)
      PROVE  IdsAreSpent'
  <2>1. PICK at \in Nat : work' = Accept(work, m, at)
    BY <1>8 DEF TablesGained
  <2>2. /\ work'.accepted = work.accepted \cup {m.id}
        /\ work'.row[m.id] = m
        /\ \A r \in work.accepted : work'.row[r] = work.row[r]
    BY <1>8, <2>1, AcceptFields DEF TablesGained, Mutation, Inv, TypeOK
  <2>3. \A n \in issued : n.id = m.id => n = m
    BY <1>8 DEF TablesGained, IdsAreSpent, Ids
  <2>4. m \in Mutation /\ issued' = issued
    BY <1>8 DEF TablesGained
  <2> QED
    BY <2>2, <2>3, <2>4 DEF IdsAreSpent
<1>9. TablesKept => UNCHANGED issued \/ \E d \in Device : \E m : Made(d, m)
  BY Steps DEF syncVars, clientVars, List, Trash, Send, Receive, RefuseBatch, GiveUp, Apply,
     ReceiveLate, ServeExpiry, ServeMutation, Abort, Reply, TimePasses
<1> QED
  BY TableSteps, <1>3, <1>4, <1>5, <1>6, <1>7, <1>8, <1>9

-----------------------------------------------------------------------------
(* Messages *)

\* A worker waits for nothing, for a reply, or has one.
LEMMA Stages ==
    ASSUME MessageTypes, NEW w \in Worker
    PROVE  /\ sync[w].stage = "idle" => sync[w] = Idle
           /\ sync[w].stage = "sent" =>
                /\ sync[w] \in Sent
                /\ sync[w].request \in Request
                /\ sync[w] = [stage |-> "sent", request |-> sync[w].request]
           /\ sync[w].stage = "replied" => sync[w] \in Replied
           /\ sync[w].stage \in {"idle", "sent", "replied"}
           /\ Idle.stage = "idle"
<1>1. sync[w] \in {Idle} \cup Sent \cup Replied
  BY DEF MessageTypes
<1>2. CASE sync[w] = Idle
  BY <1>2 DEF Idle
<1>3. CASE sync[w] \in Sent
  BY <1>3 DEF Sent, Idle
<1>4. CASE sync[w] \in Replied
  BY <1>4 DEF Replied, Idle
<1> QED
  BY <1>1, <1>2, <1>3, <1>4

\* The answer the server gives.
LEMMA AnswerForm ==
    ASSUME NEW d, IsDb(d), CursorsDense(d), NEW c \in Nat, c <= d.cursor
    PROVE  /\ Answer(d, c).full \in BOOLEAN
           /\ Answer(d, c).full <=> HasGap(d, c)
           /\ Answer(d, c).cursor \in Nat
           /\ Answer(d, c).cursor <= d.cursor
           /\ Answer(d, c).changes \subseteq d.accepted
           /\ HasGap(d, c) => Answer(d, c).changes = d.heads /\ Answer(d, c).cursor = d.cursor
           /\ ~HasGap(d, c) => Answer(d, c).changes = Numbered(d, c, Answer(d, c).cursor)
<1>1. d.cursor \in Nat /\ PageSize \in Nat /\ c \in 0 .. d.cursor
  BY RetentionAssumption DEF IsDb, RetentionAssumption
<1>2. CASE HasGap(d, c)
  <2>1. Answer(d, c) = [full |-> TRUE, cursor |-> d.cursor, changes |-> d.heads]
    BY <1>2 DEF Answer
  <2>2. d.heads \subseteq d.accepted
    BY DEF IsDb
  <2> QED
    BY <1>1, <1>2, <2>1, <2>2
<1>3. CASE ~HasGap(d, c)
  <2>1. /\ Answer(d, c).full = FALSE
        /\ Answer(d, c).cursor = LastOf(d, c)
        /\ Answer(d, c).changes = Numbered(d, c, LastOf(d, c))
    BY <1>1, <1>3, PageFollows, PageEndsThere DEF Answer
  <2>2. LastOf(d, c) \in Nat /\ LastOf(d, c) <= d.cursor
    BY <1>1 DEF LastOf
  <2>3. Numbered(d, c, LastOf(d, c)) \subseteq d.accepted
    BY DEF Numbered
  <2> QED
    BY <1>3, <2>1, <2>2, <2>3
<1> QED
  BY <1>2, <1>3

\* What a worker gets when its transaction commits.
ReplyTo(s) ==
    [stage   |-> "replied",
     full    |-> Answer(work, s.request.cursor).full,
     cursor  |-> Answer(work, s.request.cursor).cursor,
     changes |-> {work.row[r] : r \in Answer(work, s.request.cursor).changes},
     applied |-> Ids(ToSet(s.request.mutations))]

(* A reply is the worker's answer to the request it was sent for, from the work
   tables of the transaction. *)
LEMMA ReplyForm ==
    ASSUME BaseInv, NEW s \in serving, s.todo = <<>>, s.request.cursor <= work.cursor
    PROVE  /\ ReplyTo(s) \in Replied
           /\ ReplyTo(s).stage = "replied"
           /\ ReplyTo(s).applied \subseteq work.accepted
           /\ ReplyTo(s).changes \subseteq {work.row[q] : q \in work.accepted}
           /\ ReplyTo(s).cursor <= work.cursor
<1> USE DEF BaseInv
<1>1. s.request \in Request /\ s.request.cursor \in Nat
  BY DEF MessageTypes, Served, Request
<1>2. IsDb(work) /\ CursorsDense(work)
  BY DEF Inv, Good
<1> DEFINE a == Answer(work, s.request.cursor)
           applied == Ids(ToSet(s.request.mutations))
           changes == {work.row[r] : r \in a.changes}
<1>3. /\ a.full \in BOOLEAN /\ a.cursor \in Nat /\ a.cursor <= work.cursor
      /\ a.changes \subseteq work.accepted
  BY <1>1, <1>2, AnswerForm
<1>4. applied \subseteq work.accepted
  <2>1. ToSet(s.todo) = {}
    BY DEF ToSet
  <2> QED
    BY <2>1 DEF RepliesAreTrue, Ids
<1>5. applied \subseteq RevId
  BY <1>2, <1>4 DEF IsDb
<1>6. changes \subseteq {work.row[q] : q \in work.accepted} /\ changes \subseteq Mutation
  BY <1>3 DEF IdsAreSpent
<1>7. ReplyTo(s) = [stage |-> "replied", full |-> a.full, cursor |-> a.cursor,
                    changes |-> changes, applied |-> applied]
  BY DEF ReplyTo
<1> HIDE DEF a, applied, changes
<1>8. ReplyTo(s) \in Replied
  BY <1>3, <1>5, <1>6, <1>7 DEF Replied
<1> QED
  BY <1>3, <1>4, <1>6, <1>7, <1>8

\* Workers are answered one by one.
LEMMA ReplySync ==
    ASSUME Reply
    PROVE  \E s \in serving :
             /\ s.todo = <<>>
             /\ Commit(s.request.cursor)
             /\ serving' = {}
             /\ sync' = [w \in Worker |-> IF w \in s.to THEN ReplyTo(s) ELSE sync[w]]
             /\ UNCHANGED <<clientVars, orphans, failures>>
  BY DEF Reply, ReplyTo

\* Messages keep their types.
LEMMA MessagesStep ==
    ASSUME BaseInv, [SyncNext]_syncVars
    PROVE  MessageTypes'
<1> USE DEF BaseInv
<1>1. CASE \/ UNCHANGED syncVars
           \/ \E d \in Device : List(d)
           \/ \E d \in Device : Trash(d)
           \/ \E d \in Device : \E m : Made(d, m)
           \/ ServeExpiry
           \/ TimePasses
  BY <1>1 DEF syncVars, List, Trash, Made, ServeExpiry, TimePasses, MessageTypes
<1>2. ASSUME NEW w \in Workers, Send(w)
      PROVE  MessageTypes'
  <2>1. w \in Worker /\ HostOf(w) \in Device
    BY WorkersServe
  <2> DEFINE request == [cursor |-> cache[HostOf(w)].cursor,
                         mutations |-> cache[HostOf(w)].queue]
  <2>2. request \in Request
    BY <2>1 DEF ClientTypes, Cached, Request
  <2>3. sync' = [sync EXCEPT ![w] = [stage |-> "sent", request |-> request]]
    BY <1>2 DEF Send
  <2> HIDE DEF request
  <2>4. [stage |-> "sent", request |-> request] \in Sent
    BY <2>2 DEF Sent
  <2> QED
    BY <1>2, <2>1, <2>3, <2>4 DEF Send, MessageTypes
<1>3. ASSUME NEW w \in Workers, Receive(w)
      PROVE  MessageTypes'
  <2>1. w \in Worker /\ sync[w].request \in Request
    BY <1>3, WorkersServe, Stages DEF Receive
  <2>2. serving' = {[to |-> {w}, request |-> sync[w].request, todo |-> sync[w].request.mutations]}
    BY <1>3 DEF Receive, Open
  <2>3. serving' \subseteq Served
    BY <2>1, <2>2 DEF Served, Request
  <2> QED
    BY <1>3, <2>3 DEF Receive, MessageTypes
<1>4. ASSUME NEW w \in Workers, RefuseBatch(w) \/ Apply(w)
      PROVE  MessageTypes'
  <2>1. sync' = [sync EXCEPT ![w] = Idle] /\ UNCHANGED <<serving, orphans, failures>>
    BY <1>4 DEF RefuseBatch, Apply
  <2> QED
    BY <2>1 DEF MessageTypes
<1>5. ASSUME NEW w \in Workers, GiveUp(w)
      PROVE  MessageTypes'
  <2>1. w \in Worker
    BY WorkersServe
  <2>2. sync[w].stage = "sent" => sync[w].request \in Request
    BY <2>1, Stages
  <2>3. orphans' \subseteq Request
    BY <1>5, <2>2 DEF GiveUp, MessageTypes
  <2>4. failures' \in 0 .. MaxFailures
    BY <1>5, WorkerAssumption DEF GiveUp, MessageTypes, WorkerAssumption
  <2>5. sync' = [sync EXCEPT ![w] = Idle] /\ UNCHANGED serving
    BY <1>5 DEF GiveUp
  <2> QED
    BY <2>3, <2>4, <2>5 DEF MessageTypes
<1>6. CASE ReceiveLate
  <2>1. PICK request \in orphans :
            /\ serving' = {[to |-> {}, request |-> request, todo |-> request.mutations]}
            /\ orphans' = orphans \ {request}
            /\ UNCHANGED <<sync, failures>>
    BY <1>6 DEF ReceiveLate, Open
  <2>2. request \in Request
    BY DEF MessageTypes
  <2>3. serving' \subseteq Served
    BY <2>1, <2>2 DEF Served, Request
  <2> QED
    BY <2>1, <2>3 DEF MessageTypes
<1>7. CASE ServeMutation
  <2>1. PICK s \in serving :
            /\ s.todo # <<>>
            /\ serving' = {[s EXCEPT !.todo = Tail(@)]}
            /\ UNCHANGED <<sync, orphans, failures>>
    BY <1>7 DEF ServeMutation
  <2>2. s \in Served /\ Tail(s.todo) \in Seq(Mutation)
    BY <2>1, NextIsIssued DEF MessageTypes
  <2>3. serving' \subseteq Served
    BY <2>1, <2>2 DEF Served
  <2> QED
    BY <2>1, <2>3 DEF MessageTypes
<1>8. CASE Abort
  <2>1. PICK s \in serving :
            /\ serving' = {}
            /\ sync' = [w \in Worker |-> IF w \in s.to THEN Idle ELSE sync[w]]
            /\ UNCHANGED orphans
    BY <1>8 DEF Abort
  <2>2. failures \in 0 .. MaxFailures /\ MaxFailures \in Nat
    BY WorkerAssumption DEF MessageTypes, WorkerAssumption
  <2>3. \/ failures' = failures
        \/ failures < MaxFailures /\ failures' = failures + 1
    <3>1. \E t \in serving :
            \/ Refused(t) /\ UNCHANGED failures
            \/ failures < MaxFailures /\ failures' = failures + 1
      BY <1>8 DEF Abort
    <3> QED
      BY <3>1
  <2>4. failures' \in 0 .. MaxFailures
    BY <2>2, <2>3
  <2> QED
    BY <2>1, <2>4 DEF MessageTypes
<1>9. CASE Reply
  <2>1. PICK s \in serving :
            /\ s.todo = <<>>
            /\ s.request.cursor <= work.cursor
            /\ serving' = {}
            /\ sync' = [w \in Worker |-> IF w \in s.to THEN ReplyTo(s) ELSE sync[w]]
            /\ UNCHANGED <<orphans, failures>>
    BY <1>9, ReplySync DEF Commit
  <2>2. ReplyTo(s) \in Replied
    BY <2>1, ReplyForm
  <2> QED
    BY <2>1, <2>2 DEF MessageTypes
<1> QED
  BY Steps, <1>1, <1>2, <1>3, <1>4, <1>5, <1>6, <1>7, <1>8, <1>9

-----------------------------------------------------------------------------
(* The cache *)

\* What applying a reply leaves in the cache of its device.
Remaining(w) == StillPending(cache[HostOf(w)].queue, sync[w])
MergedCache(w, before) ==
    [revs   |-> Merged(Retaken(cache[HostOf(w)].revs, Remaining(w), sync[w]),
                       sync[w].changes, before, ToSet(Remaining(w))),
     queue  |-> Remaining(w),
     cursor |-> sync[w].cursor]

(* Apply replaces the cache with what the answer merges into it. *)
LEMMA ApplyCache ==
    ASSUME NEW w, Apply(w)
    PROVE  /\ tx = {} /\ sync[w].stage = "replied"
           /\ \E before \in SUBSET MayPrecede(sync[w]) :
                cache' = [cache EXCEPT ![HostOf(w)] = MergedCache(w, before)]
           /\ sync' = [sync EXCEPT ![w] = Idle]
           /\ UNCHANGED <<serverVars, scenario, issued, view, trash, serving, orphans, failures>>
  BY DEF Apply, MergedCache, Remaining

\* What remains of a queue was in it.
LEMMA RemainingFacts ==
    ASSUME ClientTypes, NEW w \in Workers
    PROVE  /\ Remaining(w) \in Seq(Mutation)
           /\ ToSet(Remaining(w)) =
                {m \in Pending(HostOf(w)) : m.id \notin sync[w].applied}
<1> DEFINE queue == cache[HostOf(w)].queue
           left  == Remaining(w)
<1>1. HostOf(w) \in Device
  BY WorkersServe
<1>2. queue \in Seq(Mutation)
  BY <1>1 DEF ClientTypes, Cached
<1>3. Thinned(queue, left, sync[w].applied)
  BY <1>2, StillPendingFacts DEF Remaining
<1> HIDE DEF queue, left
<1>4. PICK from \in [DOMAIN left -> DOMAIN queue] :
        /\ \A i \in DOMAIN left : left[i] = queue[from[i]]
        /\ \A i \in DOMAIN left : queue[from[i]].id \notin sync[w].applied
        /\ \A k \in DOMAIN queue :
            queue[k].id \notin sync[w].applied => \E i \in DOMAIN left : from[i] = k
  BY <1>3 DEF Thinned
<1>5. ToSet(left) = {m \in ToSet(queue) : m.id \notin sync[w].applied}
  BY <1>4 DEF ToSet
<1> QED
  BY <1>3, <1>5 DEF Thinned, Pending, queue, left

\* The cache after a reply.
LEMMA MergedFacts ==
    ASSUME ClientTypes, MessageTypes, NEW w \in Workers, sync[w].stage = "replied",
           NEW before \in SUBSET MayPrecede(sync[w])
    PROVE  /\ MergedCache(w, before) \in Cached
           /\ before \subseteq sync[w].changes
           /\ MergedCache(w, before).queue = Remaining(w)
           /\ MergedCache(w, before).cursor = sync[w].cursor
           /\ MergedCache(w, before).revs \subseteq
                cache[HostOf(w)].revs \cup sync[w].changes \cup ToSet(Remaining(w))
<1> DEFINE revs == MergedCache(w, before).revs
<1>1. HostOf(w) \in Device /\ w \in Worker
  BY WorkersServe
<1>2. sync[w] \in Replied
  BY <1>1, Stages
<1>3. sync[w].changes \subseteq Mutation /\ sync[w].cursor \in Nat
  BY <1>2 DEF Replied
<1>4. before \subseteq sync[w].changes
  BY DEF MayPrecede
<1>5. Remaining(w) \in Seq(Mutation) /\ ToSet(Remaining(w)) \subseteq Mutation
  BY RemainingFacts DEF ToSet
<1>6. cache[HostOf(w)].revs \subseteq Mutation
  BY <1>1 DEF ClientTypes, Cached
<1>7. revs \subseteq cache[HostOf(w)].revs \cup sync[w].changes \cup ToSet(Remaining(w))
  BY <1>4 DEF MergedCache, Merged, Retaken
<1>8. MergedCache(w, before) = [revs |-> revs, queue |-> Remaining(w), cursor |-> sync[w].cursor]
  BY DEF MergedCache
<1> HIDE DEF revs
<1>9. MergedCache(w, before) \in Cached
  BY <1>3, <1>5, <1>6, <1>7, <1>8 DEF Cached
<1> QED
  BY <1>4, <1>7, <1>8, <1>9 DEF revs

\* What a save leaves there.
LEMMA MadeCache ==
    ASSUME ClientTypes, NEW d \in Device, NEW m, Made(d, m)
    PROVE  /\ cache' \in [Device -> Cached]
           /\ \A e \in Device : e # d => cache'[e] = cache[e]
           /\ cache'[d].revs =
                (IF m.purged THEN cache[d].revs \ Of(cache[d].revs, m.item)
                             ELSE cache[d].revs) \cup {m}
           /\ cache'[d].queue = Append(cache[d].queue, m)
           /\ cache'[d].cursor = cache[d].cursor
<1>1. m \in Mutation /\ cache[d] \in Cached
  BY DEF Made, ClientTypes
<1>2. cache' = [cache EXCEPT
            ![d].revs = (IF m.purged THEN @ \ Of(cache[d].revs, m.item) ELSE @) \cup {m},
            ![d].queue = Append(@, m)]
  BY DEF Made, QueueMutation
<1>3. Append(cache[d].queue, m) \in Seq(Mutation)
  BY <1>1 DEF Cached
<1>4. /\ \A e \in Device : e # d => cache'[e] = cache[e]
      /\ cache'[d] = [cache[d] EXCEPT
            !.revs = (IF m.purged THEN @ \ Of(cache[d].revs, m.item) ELSE @) \cup {m},
            !.queue = Append(@, m)]
      /\ DOMAIN cache' = Device /\ cache' = [e \in Device |-> cache'[e]]
  BY <1>2 DEF ClientTypes
<1>5. /\ cache'[d].revs =
                (IF m.purged THEN cache[d].revs \ Of(cache[d].revs, m.item)
                             ELSE cache[d].revs) \cup {m}
      /\ cache'[d].queue = Append(cache[d].queue, m)
      /\ cache'[d].cursor = cache[d].cursor
      /\ cache'[d] \in Cached
  <2> DEFINE revs == (IF m.purged THEN cache[d].revs \ Of(cache[d].revs, m.item)
                                  ELSE cache[d].revs) \cup {m}
             queue == Append(cache[d].queue, m)
  <2>1. cache[d].revs \subseteq Mutation /\ cache[d].cursor \in Nat
    BY <1>1 DEF Cached
  <2>2. revs \in SUBSET Mutation
    BY <1>1, <2>1
  <2>3. cache'[d] = [cache[d] EXCEPT !.revs = revs, !.queue = queue]
    BY <1>4
  <2>4. queue \in Seq(Mutation)
    BY <1>3
  <2> HIDE DEF revs, queue
  <2>5. /\ cache'[d].revs = revs /\ cache'[d].queue = queue
        /\ cache'[d].cursor = cache[d].cursor
        /\ cache'[d] \in Cached
    BY <1>1, <2>2, <2>3, <2>4 DEF Cached
  <2> QED
    BY <2>5 DEF revs, queue
<1>6. cache' \in [Device -> Cached]
  BY <1>4, <1>5 DEF ClientTypes
<1> QED
  BY <1>4, <1>5, <1>6

\* A save adds one mutation at the end of the queue.
LEMMA MadePending ==
    ASSUME ClientTypes, NEW d \in Device, NEW m, Made(d, m)
    PROVE  /\ Len(cache[d].queue) \in Nat
           /\ DOMAIN cache[d].queue = 1 .. Len(cache[d].queue)
           /\ Len(cache'[d].queue) = Len(cache[d].queue) + 1
           /\ DOMAIN cache'[d].queue = 1 .. Len(cache[d].queue) + 1
           /\ \A j \in 1 .. Len(cache[d].queue) : cache'[d].queue[j] = cache[d].queue[j]
           /\ cache'[d].queue[Len(cache[d].queue) + 1] = m
           /\ Pending(d)' = Pending(d) \cup {m}
           /\ \A e \in Device : e # d => Pending(e)' = Pending(e)
<1> DEFINE q == cache[d].queue
           p == cache'[d].queue
<1>1. q \in Seq(Mutation) /\ m \in Mutation
  BY DEF Made, ClientTypes, Cached
<1>2. p = Append(q, m)
  BY MadeCache
<1> HIDE DEF q, p
<1>3. /\ Len(q) \in Nat /\ DOMAIN q = 1 .. Len(q)
      /\ Len(p) = Len(q) + 1
      /\ DOMAIN p = 1 .. Len(q) + 1
      /\ \A j \in 1 .. Len(q) : p[j] = q[j]
      /\ p[Len(q) + 1] = m
  BY <1>1, <1>2
<1>4. ToSet(p) = ToSet(q) \cup {m}
  <2>1. 1 .. Len(q) + 1 = 1 .. Len(q) \cup {Len(q) + 1}
    BY <1>3
  <2> QED
    BY <1>3, <2>1 DEF ToSet
<1>5. \A e \in Device : e # d => cache'[e] = cache[e]
  BY MadeCache
<1> QED
  BY <1>3, <1>4, <1>5 DEF Pending, p, q

\* The clients keep their types.
LEMMA ClientsStep ==
    ASSUME BaseInv, [SyncNext]_syncVars
    PROVE  ClientTypes'
<1> USE DEF BaseInv
<1>1. CASE \/ UNCHANGED syncVars
           \/ \E w \in Workers : Send(w)
           \/ \E w \in Workers : Receive(w)
           \/ \E w \in Workers : RefuseBatch(w)
           \/ \E w \in Workers : GiveUp(w)
           \/ ReceiveLate \/ ServeExpiry \/ ServeMutation \/ Abort \/ Reply \/ TimePasses
  BY <1>1 DEF syncVars, clientVars, Send, Receive, RefuseBatch, GiveUp, ReceiveLate,
              ServeExpiry, ServeMutation, Abort, Reply, TimePasses, ClientTypes
<1>2. ASSUME NEW d \in Device, List(d) \/ Trash(d)
      PROVE  ClientTypes'
  <2>1. Heads(cache[d].revs) \subseteq Mutation
    BY DEF ClientTypes, Cached, Heads
  <2>2. view' \in [Device -> SUBSET Mutation] /\ trash' \in [Device -> SUBSET Mutation]
    BY <1>2, <2>1 DEF List, Trash, ClientTypes
  <2> QED
    BY <1>2, <2>2 DEF List, Trash, ClientTypes
<1>3. ASSUME NEW d \in Device, NEW m, Made(d, m)
      PROVE  ClientTypes'
  BY <1>3, MadeCache DEF Made, ClientTypes
<1>4. ASSUME NEW w \in Workers, Apply(w)
      PROVE  ClientTypes'
  <2>1. PICK before \in SUBSET MayPrecede(sync[w]) :
            cache' = [cache EXCEPT ![HostOf(w)] = MergedCache(w, before)]
    BY <1>4, ApplyCache
  <2>2. MergedCache(w, before) \in Cached
    BY <1>4, MergedFacts, ApplyCache
  <2>3. cache' \in [Device -> Cached]
    BY <2>1, <2>2 DEF ClientTypes
  <2> QED
    BY <1>4, <2>3, ApplyCache DEF ClientTypes
<1> QED
  BY Steps, <1>1, <1>2, <1>3, <1>4

-----------------------------------------------------------------------------
(* The basic invariant holds *)

\* Quiet steps send and receive nothing.
Quiet ==
    \/ UNCHANGED syncVars
    \/ \E d \in Device : List(d)
    \/ \E d \in Device : Trash(d)
    \/ \E d \in Device : \E m : Made(d, m)
    \/ ServeExpiry
    \/ TimePasses

(* A step that touches neither server nor workers keeps their stages. *)
LEMMA QuietKeeps ==
    ASSUME Quiet
    PROVE  UNCHANGED <<sync, serving, orphans, failures>>
  BY DEF Quiet, syncVars, List, Trash, Made, ServeExpiry, TimePasses

(* Every step keeps at most one worker served, and exactly while a transaction is open. *)
LEMMA TransactionStep ==
    ASSUME BaseInv, [SyncNext]_syncVars
    PROVE  OneTransaction'
<1> USE DEF BaseInv
<1> DEFINE Served1 == \A s, t \in serving : s = t
           Awaited == \A s \in serving : \A w \in s.to :
                        sync[w] = [stage |-> "sent", request |-> s.request]
           Open1   == (serving = {}) = (tx = {})
           Rest    == tx = {} => work = db
<1>0. Grown(db, work)'
  BY GrownStep
<1> SUFFICES Served1' /\ Awaited' /\ Open1' /\ Rest'
  BY <1>0 DEF OneTransaction
<1>1. Served1 /\ Awaited /\ Open1 /\ Rest /\ (tx = {} => serving = {})
  BY DEF OneTransaction
<1>2. CASE Quiet
  <2>1. UNCHANGED <<sync, serving>>
    BY <1>2, QuietKeeps
  <2>2. (tx' = {}) = (tx = {}) /\ (tx' = {} => work' = work /\ db' = db)
    BY <1>2 DEF Quiet, syncVars, serverVars, List, Trash, Made, ServeExpiry, ExpireTrash,
                TimePasses, Tick
  <2> QED
    BY <1>1, <2>1, <2>2
<1>3. CASE \/ \E w \in Workers : Send(w)
           \/ \E w \in Workers : RefuseBatch(w)
           \/ \E w \in Workers : GiveUp(w)
           \/ \E w \in Workers : Apply(w)
  <2>1. tx = {} /\ UNCHANGED <<db, work, tx, serving>>
    BY <1>3 DEF serverVars, Send, RefuseBatch, GiveUp, Apply
  <2> QED
    BY <1>1, <2>1
<1>4. ASSUME NEW w \in Workers, Receive(w)
      PROVE  Served1' /\ Awaited' /\ Open1' /\ Rest'
  <2>1. w \in Worker /\ sync[w] = [stage |-> "sent", request |-> sync[w].request]
    BY <1>4, WorkersServe, Stages DEF Receive
  <2> DEFINE s == [to |-> {w}, request |-> sync[w].request, todo |-> sync[w].request.mutations]
  <2>2. serving' = {s} /\ tx' # {} /\ UNCHANGED sync
    BY <1>4 DEF Receive, Open, Begin
  <2>3. s.to = {w} /\ s.request = sync[w].request
    OBVIOUS
  <2> HIDE DEF s
  <2> QED
    BY <2>1, <2>2, <2>3
<1>5. CASE ReceiveLate
  <2>1. PICK request \in orphans :
            /\ serving' = {[to |-> {}, request |-> request, todo |-> request.mutations]}
            /\ tx' # {} /\ UNCHANGED sync
    BY <1>5 DEF ReceiveLate, Open, Begin
  <2> DEFINE s == [to |-> {}, request |-> request, todo |-> request.mutations]
  <2>2. serving' = {s} /\ s.to = {}
    BY <2>1
  <2> HIDE DEF s
  <2> QED
    BY <2>1, <2>2
<1>6. CASE ServeMutation
  <2>1. PICK s \in serving :
            /\ s.todo # <<>>
            /\ Mutate(Head(s.todo))
            /\ serving' = {[s EXCEPT !.todo = Tail(@)]}
            /\ UNCHANGED sync
    BY <1>6 DEF ServeMutation
  <2>2. s \in Served
    BY DEF MessageTypes
  <2> DEFINE t == [s EXCEPT !.todo = Tail(@)]
  <2>3. t.to = s.to /\ t.request = s.request /\ serving' = {t}
    BY <2>1, <2>2 DEF Served
  <2>4. tx # {} /\ UNCHANGED tx
    BY <2>1 DEF Mutate, Retry, AppendRevision, serverVars
  <2>5. UNCHANGED sync
    BY <2>1
  <2> HIDE DEF t
  <2>6. Served1' /\ Awaited'
    BY <1>1, <2>3, <2>5
  <2>7. Open1' /\ Rest'
    BY <1>1, <2>3, <2>4
  <2> QED
    BY <2>6, <2>7
<1>7. CASE Abort
  BY <1>7 DEF Abort, Fail
<1>8. CASE Reply
  BY <1>8 DEF Reply, Commit
<1> QED
  BY Steps, <1>2, <1>3, <1>4, <1>5, <1>6, <1>7, <1>8 DEF Quiet

(* Every step puts on the road only revisions that some device made. *)
LEMMA TravelsStep ==
    ASSUME BaseInv, [SyncNext]_syncVars
    PROVE  OnlyIssuedTravels'
<1> USE DEF BaseInv
<1> DEFINE Queued == \A d \in Device : Pending(d) \subseteq issued
           Asked1 == \A w \in Worker :
                sync[w].stage = "sent" => ToSet(sync[w].request.mutations) \subseteq issued
           Taken  == \A s \in serving :
                ToSet(s.request.mutations) \subseteq issued /\ ToSet(s.todo) \subseteq issued
           Late   == \A q \in orphans : ToSet(q.mutations) \subseteq issued
<1> SUFFICES Queued' /\ Asked1' /\ Taken' /\ Late'
  BY DEF OnlyIssuedTravels
<1>1. Queued /\ Asked1 /\ Taken /\ Late
  BY DEF OnlyIssuedTravels
<1>2. sync' \in [Worker -> {Idle} \cup Sent \cup Replied]
  BY MessagesStep DEF MessageTypes
<1>3. Idle.stage # "sent" /\ \A r \in Replied : r.stage # "sent"
  BY DEF Idle, Replied
<1>4. ASSUME UNCHANGED <<issued, cache>>
      PROVE  Queued'
  BY <1>1, <1>4 DEF Pending
<1>5. ASSUME NEW d \in Device, NEW m, Made(d, m)
      PROVE  Queued' /\ Asked1' /\ Taken' /\ Late'
  <2>1. issued' = issued \cup {m} /\ UNCHANGED <<sync, serving, orphans>>
    BY <1>5 DEF Made
  <2>2. Pending(d)' = Pending(d) \cup {m} /\ \A e \in Device : e # d => Pending(e)' = Pending(e)
    BY <1>5, MadePending
  <2>3. Queued'
    BY <1>1, <2>1, <2>2
  <2> QED
    BY <1>1, <2>1, <2>3
<1>6. CASE Quiet /\ ~\E d \in Device : \E m : Made(d, m)
  <2>1. UNCHANGED <<sync, serving, orphans>>
    BY <1>6, QuietKeeps
  <2>2. UNCHANGED <<issued, cache>>
    BY <1>6 DEF Quiet, syncVars, clientVars, List, Trash, ServeExpiry, TimePasses
  <2> QED
    BY <1>1, <1>4, <2>1, <2>2
<1>7. ASSUME NEW w \in Workers, Send(w)
      PROVE  Queued' /\ Asked1' /\ Taken' /\ Late'
  <2>1. w \in Worker /\ HostOf(w) \in Device
    BY WorkersServe
  <2>2. sync' = [sync EXCEPT ![w] =
            [stage |-> "sent", request |-> [cursor    |-> cache[HostOf(w)].cursor,
                                            mutations |-> cache[HostOf(w)].queue]]]
    BY <1>7 DEF Send
  <2>3. UNCHANGED <<issued, cache, serving, orphans>>
    BY <1>7 DEF Send, clientVars
  <2>4. sync'[w].request.mutations = cache[HostOf(w)].queue
    BY <2>1, <2>2 DEF MessageTypes
  <2>5. \A v \in Worker : v # w => sync'[v] = sync[v]
    BY <2>2 DEF MessageTypes
  <2>6. ToSet(cache[HostOf(w)].queue) \subseteq issued
    BY <1>1, <2>1 DEF Pending
  <2> QED
    BY <1>1, <1>4, <2>3, <2>4, <2>5, <2>6
<1>8. ASSUME NEW w \in Workers, Receive(w)
      PROVE  Queued' /\ Asked1' /\ Taken' /\ Late'
  <2>1. w \in Worker /\ sync[w].stage = "sent"
    BY <1>8, WorkersServe DEF Receive
  <2> DEFINE s == [to |-> {w}, request |-> sync[w].request, todo |-> sync[w].request.mutations]
  <2>2. serving' = {s} /\ UNCHANGED <<sync, issued, cache, orphans>>
    BY <1>8 DEF Receive, Open, clientVars
  <2>3. s.request = sync[w].request /\ s.todo = sync[w].request.mutations
    OBVIOUS
  <2> HIDE DEF s
  <2> QED
    BY <1>1, <1>4, <2>1, <2>2, <2>3
<1>9. ASSUME NEW w \in Workers, RefuseBatch(w) \/ GiveUp(w)
      PROVE  Queued' /\ Asked1' /\ Taken' /\ Late'
  <2>1. w \in Worker
    BY WorkersServe
  <2>2. sync' = [sync EXCEPT ![w] = Idle] /\ UNCHANGED <<issued, cache, serving>>
    BY <1>9 DEF RefuseBatch, GiveUp, clientVars
  <2>3. \A v \in Worker : sync'[v].stage = "sent" => sync'[v] = sync[v]
    BY <1>3, <2>1, <2>2 DEF MessageTypes
  <2>4. Late'
    BY <1>1, <1>9, <2>1, <2>2 DEF RefuseBatch, GiveUp
  <2> QED
    BY <1>1, <1>4, <2>2, <2>3, <2>4
<1>10. ASSUME NEW w \in Workers, Apply(w)
       PROVE  Queued' /\ Asked1' /\ Taken' /\ Late'
  <2>1. w \in Worker /\ HostOf(w) \in Device
    BY WorkersServe
  <2>2. /\ sync' = [sync EXCEPT ![w] = Idle]
        /\ UNCHANGED <<issued, serving, orphans>>
        /\ sync[w].stage = "replied"
    BY <1>10, ApplyCache
  <2>3. \A v \in Worker : sync'[v].stage = "sent" => sync'[v] = sync[v]
    BY <1>3, <2>1, <2>2 DEF MessageTypes
  <2>4. PICK before \in SUBSET MayPrecede(sync[w]) :
            cache' = [cache EXCEPT ![HostOf(w)] = MergedCache(w, before)]
    BY <1>10, ApplyCache
  <2>5. \A e \in Device : Pending(e)' \subseteq Pending(e)
    <3>1. MergedCache(w, before).queue = Remaining(w)
      BY <2>2, MergedFacts
    <3>2. ToSet(Remaining(w)) \subseteq Pending(HostOf(w))
      BY RemainingFacts
    <3>3. \A e \in Device : cache'[e] = IF e = HostOf(w) THEN MergedCache(w, before) ELSE cache[e]
      BY <2>4 DEF ClientTypes
    <3> QED
      BY <3>1, <3>2, <3>3 DEF Pending
  <2> QED
    BY <1>1, <2>2, <2>3, <2>5
<1>11. CASE ReceiveLate
  <2>1. PICK request \in orphans :
            /\ serving' = {[to |-> {}, request |-> request, todo |-> request.mutations]}
            /\ orphans' = orphans \ {request}
            /\ UNCHANGED <<sync, issued, cache>>
    BY <1>11 DEF ReceiveLate, Open, clientVars
  <2> QED
    BY <1>1, <1>4, <2>1
<1>12. CASE ServeMutation
  <2>1. PICK s \in serving :
            /\ s.todo # <<>>
            /\ serving' = {[s EXCEPT !.todo = Tail(@)]}
            /\ UNCHANGED <<sync, issued, cache, orphans>>
    BY <1>12 DEF ServeMutation, clientVars
  <2>2. s \in Served
    BY DEF MessageTypes
  <2>3. /\ [s EXCEPT !.todo = Tail(@)].todo = Tail(s.todo)
        /\ [s EXCEPT !.todo = Tail(@)].request = s.request
    BY <2>2 DEF Served
  <2>4. ToSet(Tail(s.todo)) \subseteq ToSet(s.todo)
    BY <2>1, NextIsIssued
  <2> QED
    BY <1>1, <1>4, <2>1, <2>3, <2>4
<1>13. CASE Abort
  <2>1. PICK s \in serving :
            /\ serving' = {}
            /\ sync' = [w \in Worker |-> IF w \in s.to THEN Idle ELSE sync[w]]
            /\ UNCHANGED <<issued, cache, orphans>>
    BY <1>13 DEF Abort, clientVars
  <2>2. \A v \in Worker : sync'[v].stage = "sent" => sync'[v] = sync[v]
    BY <1>3, <2>1
  <2> QED
    BY <1>1, <1>4, <2>1, <2>2
<1>14. CASE Reply
  <2>1. PICK s \in serving :
            /\ serving' = {}
            /\ sync' = [w \in Worker |-> IF w \in s.to THEN ReplyTo(s) ELSE sync[w]]
            /\ UNCHANGED <<issued, cache, orphans>>
    BY <1>14, ReplySync DEF clientVars
  <2>2. ReplyTo(s).stage = "replied"
    BY DEF ReplyTo
  <2>3. \A v \in Worker : sync'[v].stage = "sent" => sync'[v] = sync[v]
    BY <2>1, <2>2
  <2> QED
    BY <1>1, <1>4, <2>1, <2>3
<1> QED
  BY Steps, <1>5, <1>6, <1>7, <1>8, <1>9, <1>10, <1>11, <1>12, <1>13, <1>14 DEF Quiet

\* The server takes the mutation at the head of a batch, and no other.
LEMMA ServeTakes ==
    ASSUME BaseInv, ServeMutation
    PROVE  \E s \in serving : \E t :
            /\ s.todo # <<>>
            /\ Mutate(Head(s.todo))
            /\ serving' = {t}
            /\ t.to = s.to /\ t.request = s.request /\ t.todo = Tail(s.todo)
            /\ Head(s.todo).id \in work'.accepted
            /\ work.accepted \subseteq work'.accepted
            /\ UNCHANGED <<db, sync, orphans, failures, clientVars>>
<1> USE DEF BaseInv
<1>1. PICK s \in serving :
        /\ s.todo # <<>>
        /\ Mutate(Head(s.todo))
        /\ serving' = {[s EXCEPT !.todo = Tail(@)]}
        /\ UNCHANGED <<sync, orphans, failures, clientVars>>
  BY DEF ServeMutation
<1> DEFINE t == [s EXCEPT !.todo = Tail(@)]
           m == Head(s.todo)
<1>2. s \in Served
  BY DEF MessageTypes
<1>3. serving' = {t} /\ t.to = s.to /\ t.request = s.request /\ t.todo = Tail(s.todo)
  BY <1>1, <1>2 DEF Served
<1>4. m.id \in work'.accepted /\ work.accepted \subseteq work'.accepted /\ UNCHANGED db
  <2>1. CASE Retry(m)
    BY <2>1 DEF Retry, Recorded, serverVars
  <2>2. CASE AppendRevision(m)
    <3>1. \E at : work' = Accept(work, m, at) /\ UNCHANGED db
      BY <2>2 DEF AppendRevision
    <3> HIDE DEF m
    <3> QED
      BY <3>1 DEF Accept
  <2> QED
    BY <1>1, <2>1, <2>2 DEF Mutate
<1> HIDE DEF t
<1> QED
  BY <1>1, <1>3, <1>4

(* Every step keeps what a reply says true of the accepted revisions. *)
LEMMA RepliesStep ==
    ASSUME BaseInv, [SyncNext]_syncVars
    PROVE  RepliesAreTrue'
<1> USE DEF BaseInv
<1> DEFINE Taken == \A s \in serving : \A m \in ToSet(s.request.mutations) :
                        m \in ToSet(s.todo) \/ m.id \in work.accepted
           True1(reply, d) ==
                /\ reply.applied \subseteq d.accepted
                /\ reply.changes \subseteq {d.row[q] : q \in d.accepted}
                /\ reply.cursor <= d.cursor
           Told  == \A w \in Worker : sync[w].stage = "replied" => True1(sync[w], db)
<1> SUFFICES Taken' /\ Told'
  BY DEF RepliesAreTrue
<1>1. Taken /\ Told
  BY DEF RepliesAreTrue
<1>2. Grown(db, db')
  BY GrownStep
<1>3. IsDb(db) /\ IsDb(db') /\ db.cursor \in Nat /\ db'.cursor \in Nat
  BY ServerSteps, InvStep DEF Inv, TypeOK, IsDb
\* What was told stays true.
<1>4. ASSUME NEW reply \in Replied, True1(reply, db)
      PROVE  True1(reply, db')
  <2>1. reply.cursor \in Nat
    BY DEF Replied
  <2>2. reply.cursor <= db'.cursor
    BY <1>2, <1>3, <1>4, <2>1 DEF Grown
  <2>3. reply.changes \subseteq {db'.row[q] : q \in db'.accepted}
    BY <1>2, <1>4 DEF Grown
  <2> QED
    BY <1>2, <1>4, <2>2, <2>3 DEF Grown
<1>5. ASSUME NEW v \in Worker, sync'[v] = sync[v], sync[v].stage = "replied"
      PROVE  True1(sync'[v], db')
  BY <1>1, <1>4, <1>5, Stages
<1>6. Idle.stage # "replied" /\ \A r \in Sent : r.stage # "replied"
  BY DEF Idle, Sent
<1> HIDE DEF True1
<1>7. ASSUME \A v \in Worker : sync'[v].stage = "replied" => sync'[v] = sync[v]
      PROVE  Told'
  BY <1>5, <1>7
<1>8. CASE Quiet
  <2>1. UNCHANGED <<sync, serving>>
    BY <1>8, QuietKeeps
  <2>2. work.accepted \subseteq work'.accepted
    <3>1. CASE ServeExpiry
      <4>1. \E m, at : work' = Accept(work, m, at)
        BY <3>1 DEF ServeExpiry, ExpireTrash
      <4> QED
        BY <4>1 DEF Accept
    <3>2. ~ServeExpiry => UNCHANGED work
      BY <1>8 DEF Quiet, syncVars, serverVars, List, Trash, Made, TimePasses, Tick
    <3> QED
      BY <3>1, <3>2
  <2>3. Taken'
    BY <1>1, <2>1, <2>2
  <2> QED
    BY <1>7, <2>1, <2>3
<1>9. ASSUME NEW w \in Workers, Send(w)
      PROVE  Taken' /\ Told'
  <2>1. w \in Worker
    BY WorkersServe
  <2> DEFINE new == [stage |-> "sent", request |-> [cursor    |-> cache[HostOf(w)].cursor,
                                                    mutations |-> cache[HostOf(w)].queue]]
  <2>2. sync' = [sync EXCEPT ![w] = new] /\ new.stage = "sent"
    BY <1>9 DEF Send
  <2>3. UNCHANGED <<serving, work>>
    BY <1>9 DEF Send, serverVars
  <2> HIDE DEF new
  <2>4. \A v \in Worker : sync'[v].stage = "replied" => sync'[v] = sync[v]
    BY <2>1, <2>2 DEF MessageTypes
  <2>5. Taken'
    BY <1>1, <2>3
  <2> QED
    BY <1>7, <2>4, <2>5
<1>10. ASSUME NEW w \in Workers, RefuseBatch(w) \/ GiveUp(w) \/ Apply(w)
       PROVE  Taken' /\ Told'
  <2>1. w \in Worker
    BY WorkersServe
  <2>2. sync' = [sync EXCEPT ![w] = Idle] /\ UNCHANGED <<serving, work>>
    BY <1>10 DEF RefuseBatch, GiveUp, Apply, serverVars
  <2>3. \A v \in Worker : sync'[v].stage = "replied" => sync'[v] = sync[v]
    BY <1>6, <2>1, <2>2 DEF MessageTypes
  <2>4. Taken'
    BY <1>1, <2>2
  <2> QED
    BY <1>7, <2>3, <2>4
<1>11. CASE (\E w \in Workers : Receive(w)) \/ ReceiveLate
  <2>1. UNCHANGED sync
    BY <1>11 DEF Receive, ReceiveLate
  <2>2. \E request, to :
            serving' = {[to |-> to, request |-> request, todo |-> request.mutations]}
    BY <1>11 DEF Receive, ReceiveLate, Open
  <2>3. Taken'
    BY <2>2
  <2> QED
    BY <1>7, <2>1, <2>3
<1>12. CASE ServeMutation
  <2>1. PICK s \in serving : \E t :
            /\ s.todo # <<>>
            /\ serving' = {t}
            /\ t.request = s.request /\ t.todo = Tail(s.todo)
            /\ Head(s.todo).id \in work'.accepted
            /\ work.accepted \subseteq work'.accepted
            /\ UNCHANGED sync
    BY <1>12, ServeTakes
  <2>2. ToSet(s.todo) = {Head(s.todo)} \cup ToSet(Tail(s.todo))
    BY <2>1, NextIsIssued
  <2>3. Taken'
    BY <1>1, <2>1, <2>2
  <2> QED
    BY <1>7, <2>1, <2>3
<1>13. CASE Abort
  <2>1. PICK s \in serving :
            /\ serving' = {}
            /\ sync' = [w \in Worker |-> IF w \in s.to THEN Idle ELSE sync[w]]
    BY <1>13 DEF Abort
  <2>2. \A v \in Worker : sync'[v].stage = "replied" => sync'[v] = sync[v]
    BY <1>6, <2>1
  <2> QED
    BY <1>7, <2>1, <2>2
<1>14. CASE Reply
  <2>1. PICK s \in serving :
            /\ s.todo = <<>>
            /\ Commit(s.request.cursor)
            /\ serving' = {}
            /\ sync' = [w \in Worker |-> IF w \in s.to THEN ReplyTo(s) ELSE sync[w]]
    BY <1>14, ReplySync
  <2>2. db' = work /\ s.request.cursor <= work.cursor
    BY <2>1 DEF Commit
  <2>3. True1(ReplyTo(s), db')
    BY <2>1, <2>2, ReplyForm DEF True1
  <2>4. \A v \in Worker : sync'[v].stage = "replied" => True1(sync'[v], db')
    BY <1>5, <2>1, <2>3
  <2> QED
    BY <2>1, <2>4
<1> QED
  BY Steps, <1>8, <1>9, <1>10, <1>11, <1>12, <1>13, <1>14 DEF Quiet

(* The invariant of travel holds initially. *)
LEMMA BaseInit == SyncInit => BaseInv
<1> SUFFICES ASSUME SyncInit PROVE BaseInv
  OBVIOUS
<1>1. Inv
  BY InvInit DEF SyncInit
<1>2. db = EmptyDb /\ work = EmptyDb /\ tx = {}
  BY DEF SyncInit, ServerInit
<1>3. ClientTypes
  BY DEF SyncInit, ClientTypes, Cached
<1>4. MessageTypes
  BY WorkerAssumption DEF SyncInit, MessageTypes, WorkerAssumption
<1>5. \A w \in Worker : sync[w].stage = "idle"
  BY DEF SyncInit, Idle
<1>6. OneTransaction
  <2>1. Grown(db, work)
    BY <1>1, <1>2, GrownOnItself DEF Inv, TypeOK, IsDb
  <2> QED
    BY <1>2, <2>1 DEF SyncInit, OneTransaction
<1>7. OnlyIssuedTravels
  <2>1. \A d \in Device : Pending(d) = {}
    BY DEF SyncInit, Pending, ToSet
  <2> QED
    BY <1>5, <2>1 DEF SyncInit, OnlyIssuedTravels
<1>8. IdsAreSpent
  BY <1>2 DEF SyncInit, IdsAreSpent, EmptyDb
<1>9. RepliesAreTrue
  BY <1>5 DEF SyncInit, RepliesAreTrue
<1> QED
  BY <1>1, <1>3, <1>4, <1>6, <1>7, <1>8, <1>9 DEF BaseInv

(* Every step keeps the invariant of travel. *)
LEMMA BaseStep == BaseInv /\ [SyncNext]_syncVars => BaseInv'
<1> SUFFICES ASSUME BaseInv, [SyncNext]_syncVars PROVE BaseInv'
  OBVIOUS
<1>1. Inv'
  BY ServerSteps, InvStep DEF BaseInv
<1> QED
  BY <1>1, ClientsStep, MessagesStep, TransactionStep, TravelsStep, IdsStep, RepliesStep
  DEF BaseInv

(* The invariant of travel holds throughout. *)
LEMMA Basics == SyncSpec => []BaseInv
  BY BaseInit, BaseStep, PTL DEF SyncSpec

\* Devices, workers and messages only ever make the server take steps of its own:
\* every theorem about the server holds of the system.
THEOREM DevicesDriveTheServer == SyncSpec => ServerSpec
<1>1. SyncInit => ServerInit
  BY DEF SyncInit
<1>2. BaseInv /\ [SyncNext]_syncVars => [ServerNext]_serverVars
  BY ServerSteps
<1> QED
  BY <1>1, <1>2, Basics, PTL DEF SyncSpec, ServerSpec

\* The client side keeps its types, and what is queued was made by a device.
THEOREM SyncTypeCorrect == SyncSpec => []SyncTypeOK
<1>1. BaseInv => SyncTypeOK
  <2> SUFFICES ASSUME BaseInv PROVE SyncTypeOK
    OBVIOUS
  <2>1. \A d \in Device : cache[d].revs \subseteq Mutation /\ cache[d].cursor \in Nat
    BY DEF BaseInv, ClientTypes, Cached
  <2>2. \A d \in Device : view[d] \cup trash[d] \subseteq Mutation
    BY DEF BaseInv, ClientTypes
  <2>3. \A w \in Worker : sync[w].stage \in {"idle", "sent", "replied"}
    BY Stages DEF BaseInv
  <2> QED
    BY <2>1, <2>2, <2>3
    DEF SyncTypeOK, BaseInv, ClientTypes, MessageTypes, OneTransaction, OnlyIssuedTravels
<1> QED
  BY Basics, <1>1, PTL

-----------------------------------------------------------------------------
(* Queues *)

\* The UUIDs a worker has asked the server to take.
AskedIds(w) ==
    IF sync[w].stage = "sent" THEN Ids(ToSet(sync[w].request.mutations))
    ELSE IF sync[w].stage = "replied" THEN sync[w].applied
    ELSE {}

\* A request carries its queue from the front: what it leaves out comes after it.
AskedInOrder ==
    \A w \in Workers :
        LET queue == cache[HostOf(w)].queue IN
        \A k \in DOMAIN queue : \A j \in 1 .. k - 1 :
            queue[k].id \in AskedIds(w) => queue[j].id \in AskedIds(w)

QueueInv ==
    /\ NothingSavedIsLost
    /\ CachedIsPendingOrAccepted
    /\ QueueInOrder
    /\ AskedInOrder
    /\ PendingStaysCached

\* Only saves and replies touch a cache.
LEMMA CacheSteps ==
    ASSUME BaseInv, [SyncNext]_syncVars
    PROVE  \/ UNCHANGED <<issued, cache>>
           \/ \E d \in Device : \E m : Made(d, m)
           \/ \E w \in Workers : Apply(w)
  BY Steps DEF BaseInv, syncVars, clientVars, List, Trash, Send, Receive, RefuseBatch, GiveUp,
     ReceiveLate, ServeExpiry, ServeMutation, Abort, Reply, TimePasses

\* The rows of the committed tables.
LEMMA DbRows ==
    ASSUME BaseInv
    PROVE  /\ \A m \in issued : m.id \in db.accepted => db.row[m.id] = m
           /\ \A q \in db.accepted : db.row[q] \in Mutation /\ db.row[q].id = q
<1>1. Grown(db, work)
  BY DEF BaseInv, OneTransaction
<1>2. GraphIsOrdered(db)
  BY DEF BaseInv, Inv, Good
<1> QED
  BY <1>1, <1>2 DEF BaseInv, IdsAreSpent, Grown, GraphIsOrdered

\* The cache after a reply, in terms of the reply.
LEMMA ApplyFacts ==
    ASSUME BaseInv, NEW w \in Workers, Apply(w)
    PROVE  LET d == HostOf(w) IN
           /\ \A e \in Device : e # d => cache'[e] = cache[e]
           /\ \E before \in SUBSET MayPrecede(sync[w]) : cache'[d] = MergedCache(w, before)
           /\ cache'[d].queue = Remaining(w)
           /\ cache'[d].cursor = sync[w].cursor
           /\ Thinned(cache[d].queue, cache'[d].queue, sync[w].applied)
           /\ ToSet(cache'[d].queue) = {m \in Pending(d) : m.id \notin sync[w].applied}
           /\ sync[w] \in Replied /\ sync[w].stage = "replied"
<1> DEFINE d == HostOf(w)
<1> USE DEF BaseInv
<1>1. d \in Device /\ w \in Worker
  BY WorkersServe
<1>2. sync[w].stage = "replied" /\ sync[w] \in Replied
  BY <1>1, ApplyCache, Stages
<1>3. PICK before \in SUBSET MayPrecede(sync[w]) :
        cache' = [cache EXCEPT ![d] = MergedCache(w, before)]
  BY ApplyCache
<1>4. cache'[d] = MergedCache(w, before) /\ \A e \in Device : e # d => cache'[e] = cache[e]
  BY <1>1, <1>3 DEF ClientTypes
<1>5. cache'[d].queue = Remaining(w) /\ cache'[d].cursor = sync[w].cursor
  BY <1>2, <1>4, MergedFacts
<1>6. cache[d].queue \in Seq(Mutation)
  BY <1>1 DEF ClientTypes, Cached
<1>7. Thinned(cache[d].queue, Remaining(w), sync[w].applied)
  BY <1>6, StillPendingFacts DEF Remaining
<1>8. ToSet(cache'[d].queue) = {m \in Pending(d) : m.id \notin sync[w].applied}
  BY <1>5, RemainingFacts
<1> QED
  BY <1>2, <1>4, <1>5, <1>7, <1>8

\* What a reply reports applied is committed.
LEMMA AppliedIsSaved ==
    ASSUME BaseInv, NEW w \in Worker, sync[w].stage = "replied",
           NEW m \in issued, m.id \in sync[w].applied
    PROVE  m.id \in db.accepted /\ db.row[m.id] = m
  BY DbRows DEF BaseInv, RepliesAreTrue

(* Every step keeps a saved revision in its queue or in the server's tables. *)
LEMMA NothingLostStep ==
    ASSUME BaseInv, BaseInv', NothingSavedIsLost, [SyncNext]_syncVars
    PROVE  NothingSavedIsLost'
<1>1. Grown(db, db')
  BY GrownStep
<1>2. SUFFICES ASSUME NEW m \in issued'
               PROVE  m.id \in db'.accepted \/ \E d \in Device : m \in Pending(d)'
  <2>1. \A m \in issued' : m.id \in db'.accepted => db'.row[m.id] = m
    <3>1. (\A m \in issued : m.id \in db.accepted => db.row[m.id] = m)'
      BY DbRows, PTL
    <3> QED
      BY <3>1
  <2> QED
    BY <1>2, <2>1 DEF NothingSavedIsLost
<1>3. ASSUME m \in issued
      PROVE  m.id \in db.accepted \/ \E d \in Device : m \in Pending(d)
  BY <1>3 DEF NothingSavedIsLost
<1>4. CASE UNCHANGED <<issued, cache>>
  BY <1>1, <1>3, <1>4 DEF Pending, Grown
<1>5. ASSUME NEW d \in Device, NEW n, Made(d, n)
      PROVE  m.id \in db'.accepted \/ \E e \in Device : m \in Pending(e)'
  <2>1. /\ Pending(d)' = Pending(d) \cup {n}
        /\ \A e \in Device : e # d => Pending(e)' = Pending(e)
    BY <1>5, MadePending DEF BaseInv
  <2>2. issued' = issued \cup {n}
    BY <1>5 DEF Made
  <2> QED
    BY <1>1, <1>3, <2>1, <2>2 DEF Grown
<1>6. ASSUME NEW w \in Workers, Apply(w)
      PROVE  m.id \in db'.accepted \/ \E e \in Device : m \in Pending(e)'
  <2>1. \A e \in Device : Pending(e)' = IF e = HostOf(w)
                                        THEN {n \in Pending(e) : n.id \notin sync[w].applied}
                                        ELSE Pending(e)
    BY <1>6, ApplyFacts DEF Pending
  <2>2. m \in issued
    BY <1>6, ApplyCache
  <2>3. m.id \in sync[w].applied => m.id \in db.accepted
    BY <1>6, <2>2, ApplyFacts, AppliedIsSaved, WorkersServe DEF BaseInv
  <2> QED
    BY <1>1, <1>3, <2>1, <2>2, <2>3 DEF Grown
<1> QED
  BY CacheSteps, <1>4, <1>5, <1>6

(* Every step keeps a cached revision pending or accepted. *)
LEMMA CachedStep ==
    ASSUME BaseInv, BaseInv', CachedIsPendingOrAccepted, [SyncNext]_syncVars
    PROVE  CachedIsPendingOrAccepted'
<1>1. Grown(db, db')
  BY GrownStep
<1> SUFFICES ASSUME NEW d \in Device, NEW r \in cache'[d].revs
             PROVE  r \in Pending(d)' \/ (r.id \in db'.accepted /\ db'.row[r.id] = r)
  BY DEF CachedIsPendingOrAccepted
<1>2. ASSUME NEW q, q \in cache[d].revs
      PROVE  q \in Pending(d) \/ (q.id \in db.accepted /\ db.row[q.id] = q)
  BY <1>2 DEF CachedIsPendingOrAccepted
<1>3. CASE UNCHANGED <<issued, cache>>
  BY <1>1, <1>2, <1>3 DEF Pending, Grown
<1>4. ASSUME NEW e \in Device, NEW m, Made(e, m)
      PROVE  r \in Pending(d)' \/ (r.id \in db'.accepted /\ db'.row[r.id] = r)
  <2>1. /\ Pending(e)' = Pending(e) \cup {m}
        /\ \A f \in Device : f # e => Pending(f)' = Pending(f) /\ cache'[f] = cache[f]
        /\ cache'[e].revs \subseteq cache[e].revs \cup {m}
    BY <1>4, MadePending, MadeCache DEF BaseInv
  <2>2. CASE r \in cache[d].revs
    BY <1>1, <1>2, <2>1, <2>2 DEF Grown
  <2>3. CASE r \notin cache[d].revs
    <3>1. d = e
      BY <2>1, <2>3
    <3>2. r = m
      BY <2>1, <2>3, <3>1
    <3> QED
      BY <2>1, <3>1, <3>2
  <2> QED
    BY <2>2, <2>3
<1>5. ASSUME NEW w \in Workers, Apply(w)
      PROVE  r \in Pending(d)' \/ (r.id \in db'.accepted /\ db'.row[r.id] = r)
  <2>1. w \in Worker /\ HostOf(w) \in Device
    BY WorkersServe DEF BaseInv
  <2>2. CASE d # HostOf(w)
    BY <1>1, <1>2, <1>5, <2>2, ApplyFacts DEF Pending, Grown
  <2>3. CASE d = HostOf(w)
    <3>1. PICK before \in SUBSET MayPrecede(sync[w]) : cache'[d] = MergedCache(w, before)
      BY <1>5, <2>3, ApplyFacts
    <3>2. /\ sync[w].stage = "replied"
          /\ cache'[d].queue = Remaining(w)
          /\ Pending(d)' = {m \in Pending(d) : m.id \notin sync[w].applied}
      BY <1>5, <2>3, ApplyFacts DEF Pending
    <3>3. r \in cache[d].revs \cup sync[w].changes \cup ToSet(Remaining(w))
      BY <2>3, <3>1, <3>2, MergedFacts DEF BaseInv
    <3>4. CASE r \in ToSet(Remaining(w))
      BY <3>2, <3>4 DEF Pending
    <3>5. CASE r \in sync[w].changes
      <4>1. r \in {db.row[q] : q \in db.accepted}
        BY <2>1, <3>2, <3>5 DEF BaseInv, RepliesAreTrue
      <4>2. r.id \in db.accepted /\ db.row[r.id] = r
        BY <4>1, DbRows
      <4> QED
        BY <1>1, <4>2 DEF Grown
    <3>6. CASE r \in cache[d].revs
      <4>1. CASE r.id \in db.accepted /\ db.row[r.id] = r
        BY <1>1, <4>1 DEF Grown
      <4>2. CASE r \in Pending(d) /\ r.id \in sync[w].applied
        <5>1. r \in issued
          BY <4>2 DEF BaseInv, OnlyIssuedTravels
        <5> QED
          BY <1>1, <2>1, <3>2, <4>2, <5>1, AppliedIsSaved DEF Grown
      <4> QED
        BY <1>2, <3>2, <3>6, <4>1, <4>2
    <3> QED
      BY <3>3, <3>4, <3>5, <3>6
  <2> QED
    BY <2>2, <2>3
<1> QED
  BY CacheSteps, <1>3, <1>4, <1>5

(* Every step keeps the parents of a queued revision before it. *)
LEMMA OrderStep ==
    ASSUME BaseInv, BaseInv', CachedIsPendingOrAccepted, QueueInOrder, [SyncNext]_syncVars
    PROVE  QueueInOrder'
<1>1. Grown(db, db')
  BY GrownStep
<1> SUFFICES ASSUME NEW d \in Device, NEW j \in DOMAIN cache'[d].queue,
                    NEW p \in cache'[d].queue[j].parents, p \notin db'.accepted
             PROVE  \E k \in 1 .. j - 1 : cache'[d].queue[k].id = p
  BY DEF QueueInOrder
<1>2. p \notin db.accepted
  BY <1>1 DEF Grown
<1>3. \A i \in DOMAIN cache[d].queue : p \in cache[d].queue[i].parents =>
        \E k \in 1 .. i - 1 : cache[d].queue[k].id = p
  BY <1>2 DEF QueueInOrder
<1>4. CASE UNCHANGED <<issued, cache>>
  BY <1>3, <1>4
<1>5. ASSUME NEW e \in Device, NEW m, Made(e, m)
      PROVE  \E k \in 1 .. j - 1 : cache'[d].queue[k].id = p
  <2>1. CASE d # e
    BY <1>3, <1>5, <2>1, MadeCache DEF BaseInv
  <2>2. CASE d = e
    <3> DEFINE n == Len(cache[d].queue)
    <3>1. /\ n \in Nat
          /\ DOMAIN cache[d].queue = 1 .. n
          /\ DOMAIN cache'[d].queue = 1 .. n + 1
          /\ \A i \in 1 .. n : cache'[d].queue[i] = cache[d].queue[i]
          /\ cache'[d].queue[n + 1] = m
      BY <1>5, <2>2, MadePending DEF BaseInv
    <3> HIDE DEF n
    <3>2. CASE j \in 1 .. n
      <4>1. PICK k \in 1 .. j - 1 : cache[d].queue[k].id = p
        BY <1>3, <3>1, <3>2
      <4>2. k \in 1 .. n
        BY <3>1, <3>2
      <4> QED
        BY <3>1, <4>1, <4>2
    <3>3. CASE j = n + 1
      <4>1. p \in m.parents
        BY <3>1, <3>3
      <4>2. PICK r \in cache[d].revs : r.id = p
        <5>1. p \in Ids(Of(cache[d].revs, m.item))
          <6>1. m \in Mutation /\ QueueMutation(d, m)
            BY <1>5, <2>2 DEF Made
          <6>2. m.revision # 1
            BY <4>1, <6>1 DEF Mutation, ValidMutation
          <6> QED
            BY <4>1, <6>1, <6>2 DEF QueueMutation
        <5> QED
          BY <5>1 DEF Ids, Of
      <4>3. r \in Pending(d)
        BY <1>2, <4>2 DEF CachedIsPendingOrAccepted
      <4>4. PICK k \in DOMAIN cache[d].queue : cache[d].queue[k] = r
        BY <4>3 DEF Pending, ToSet
      <4>5. k \in 1 .. j - 1
        BY <3>1, <3>3, <4>4
      <4> QED
        BY <3>1, <4>2, <4>4, <4>5
    <3> QED
      BY <3>1, <3>2, <3>3
  <2> QED
    BY <2>1, <2>2
<1>6. ASSUME NEW w \in Workers, Apply(w)
      PROVE  \E k \in 1 .. j - 1 : cache'[d].queue[k].id = p
  <2>1. w \in Worker /\ HostOf(w) \in Device
    BY WorkersServe DEF BaseInv
  <2>2. CASE d # HostOf(w)
    BY <1>3, <1>6, <2>2, ApplyFacts
  <2>3. CASE d = HostOf(w)
    <3> DEFINE queue == cache[d].queue
               left  == cache'[d].queue
    <3>1. Thinned(queue, left, sync[w].applied) /\ sync[w].stage = "replied"
      BY <1>6, <2>3, ApplyFacts
    <3>2. sync[w].applied \subseteq db.accepted
      BY <2>1, <3>1 DEF BaseInv, RepliesAreTrue
    <3>3. queue \in Seq(Mutation)
      BY DEF BaseInv, ClientTypes, Cached
    <3>4. \A i \in DOMAIN queue : p \in queue[i].parents => \E k \in 1 .. i - 1 : queue[k].id = p
      BY <1>3
    <3>5. j \in DOMAIN left /\ p \in left[j].parents
      OBVIOUS
    <3> HIDE DEF queue, left
    <3>6. left \in Seq(Mutation)
      BY <3>1 DEF Thinned
    <3>7. PICK from \in [DOMAIN left -> DOMAIN queue] :
            /\ \A i \in DOMAIN left : left[i] = queue[from[i]]
            /\ \A g, h \in DOMAIN left : g < h => from[g] < from[h]
            /\ \A k \in DOMAIN queue :
                queue[k].id \notin sync[w].applied => \E i \in DOMAIN left : from[i] = k
      BY <3>1 DEF Thinned
    <3>8. from[j] \in DOMAIN queue /\ left[j] = queue[from[j]]
      BY <3>5, <3>7
    <3>9. PICK k \in 1 .. from[j] - 1 : queue[k].id = p
      BY <3>4, <3>5, <3>8
    <3>10. DOMAIN queue = 1 .. Len(queue) /\ Len(queue) \in Nat
      BY <3>3
    <3>11. k \in DOMAIN queue /\ k < from[j] /\ from[j] \in Nat /\ k \in Nat
      BY <3>8, <3>9, <3>10
    <3>12. queue[k].id \notin sync[w].applied
      BY <1>2, <3>2, <3>9
    <3>13. PICK i \in DOMAIN left : from[i] = k
      BY <3>7, <3>11, <3>12
    <3>14. DOMAIN left = 1 .. Len(left) /\ Len(left) \in Nat
      BY <3>6
    <3>15. i \in Nat /\ j \in Nat /\ 1 <= i
      BY <3>5, <3>13, <3>14
    <3>16. ~(j < i) /\ j # i
      BY <3>5, <3>7, <3>11, <3>13
    <3>17. i \in 1 .. j - 1
      BY <3>15, <3>16
    <3>18. left[i].id = p
      BY <3>7, <3>9, <3>13
    <3> QED
      BY <3>17, <3>18 DEF left
  <2> QED
    BY <2>2, <2>3
<1> QED
  BY CacheSteps, <1>4, <1>5, <1>6

\* Workers keep their devices, and devices their workers.
LEMMA ScenarioKept ==
    ASSUME BaseInv, [SyncNext]_syncVars
    PROVE  /\ scenario' = scenario
           /\ Workers' = Workers
           /\ \A w \in Workers : HostOf(w)' = HostOf(w)
           /\ \A d : OneAtATime(d)' = OneAtATime(d)
<1>1. scenario' = scenario
  BY Steps DEF BaseInv, syncVars, clientVars, List, Trash, Made, Send, Receive, RefuseBatch,
     GiveUp, Apply, ReceiveLate, ServeExpiry, ServeMutation, Abort, Reply, TimePasses
<1> QED
  BY <1>1 DEF Workers, HostOf, OneAtATime

\* A worker asks with the whole queue, and forgets what it asked or is answered.
LEMMA AskedAfter ==
    ASSUME BaseInv, [SyncNext]_syncVars, NEW w \in Workers
    PROVE  \/ AskedIds(w)' = AskedIds(w)
           \/ AskedIds(w)' = {}
           \/ AskedIds(w)' = Ids(Pending(HostOf(w))) /\ UNCHANGED <<issued, cache>>
<1> USE DEF BaseInv
<1>1. w \in Worker
  BY WorkersServe
<1>2. sync'[w] = sync[w] => AskedIds(w)' = AskedIds(w)
  BY DEF AskedIds
<1>3. sync'[w] = Idle => AskedIds(w)' = {}
  BY DEF AskedIds, Idle
<1>4. CASE Quiet
  BY <1>2, <1>4, QuietKeeps
<1>5. ASSUME NEW v \in Workers, Send(v)
      PROVE  \/ AskedIds(w)' = AskedIds(w)
             \/ AskedIds(w)' = Ids(Pending(HostOf(w))) /\ UNCHANGED <<issued, cache>>
  <2> DEFINE request == [cursor    |-> cache[HostOf(v)].cursor,
                         mutations |-> cache[HostOf(v)].queue]
             new == [stage |-> "sent", request |-> request]
  <2>1. sync' = [sync EXCEPT ![v] = new] /\ UNCHANGED <<issued, cache>>
    BY <1>5 DEF Send, clientVars
  <2>2. new.stage = "sent" /\ new.request.mutations = cache[HostOf(v)].queue
    OBVIOUS
  <2> HIDE DEF new
  <2>3. CASE w = v
    <3>1. sync'[w] = new
      BY <1>1, <2>1, <2>3 DEF MessageTypes
    <3>2. AskedIds(w)' = Ids(ToSet(new.request.mutations))
      BY <2>2, <3>1 DEF AskedIds
    <3> QED
      BY <2>1, <2>2, <2>3, <3>2 DEF Pending
  <2>4. CASE w # v
    BY <1>1, <1>2, <2>1, <2>4 DEF MessageTypes
  <2> QED
    BY <2>3, <2>4
<1>6. CASE \/ \E v \in Workers : Receive(v)
           \/ ReceiveLate
           \/ ServeMutation
  BY <1>2, <1>6 DEF Receive, ReceiveLate, ServeMutation
<1>7. ASSUME NEW v \in Workers, RefuseBatch(v) \/ GiveUp(v) \/ Apply(v)
      PROVE  AskedIds(w)' = AskedIds(w) \/ AskedIds(w)' = {}
  <2>1. sync' = [sync EXCEPT ![v] = Idle]
    BY <1>7 DEF RefuseBatch, GiveUp, Apply
  <2>2. sync'[w] = sync[w] \/ sync'[w] = Idle
    BY <1>1, <2>1 DEF MessageTypes
  <2> QED
    BY <1>2, <1>3, <2>2
<1>8. CASE Abort
  <2>1. sync'[w] = sync[w] \/ sync'[w] = Idle
    BY <1>1, <1>8 DEF Abort
  <2> QED
    BY <1>2, <1>3, <2>1
<1>9. CASE Reply
  <2>1. PICK s \in serving :
            sync' = [v \in Worker |-> IF v \in s.to THEN ReplyTo(s) ELSE sync[v]]
    BY <1>9, ReplySync
  <2>2. CASE w \notin s.to
    BY <1>1, <1>2, <2>1, <2>2
  <2>3. CASE w \in s.to
    <3>1. sync[w] = [stage |-> "sent", request |-> s.request]
      BY <2>3 DEF OneTransaction
    <3>2. AskedIds(w) = Ids(ToSet(s.request.mutations))
      BY <3>1 DEF AskedIds
    <3>3. sync'[w] = ReplyTo(s)
      BY <1>1, <2>1, <2>3
    <3>4. ReplyTo(s).stage = "replied" /\ ReplyTo(s).applied = Ids(ToSet(s.request.mutations))
      BY DEF ReplyTo
    <3>5. AskedIds(w)' = Ids(ToSet(s.request.mutations))
      BY <3>3, <3>4 DEF AskedIds
    <3> QED
      BY <3>2, <3>5
  <2> QED
    BY <2>2, <2>3
<1> QED
  BY Steps, <1>4, <1>5, <1>6, <1>7, <1>8, <1>9 DEF Quiet

\* What was asked is spent.
LEMMA AskedIsSpent ==
    ASSUME BaseInv, NEW w \in Workers
    PROVE  AskedIds(w) \subseteq Ids(issued) \cup work.accepted
<1>1. w \in Worker
  BY WorkersServe DEF BaseInv
<1>2. CASE sync[w].stage = "sent"
  BY <1>1, <1>2 DEF AskedIds, BaseInv, OnlyIssuedTravels, Ids
<1>3. CASE sync[w].stage = "replied"
  BY <1>1, <1>3 DEF AskedIds, BaseInv, RepliesAreTrue, OneTransaction, Grown
<1> QED
  BY <1>2, <1>3 DEF AskedIds

(* Every step keeps a request in the order of the queue it was read from. *)
LEMMA AskedStep ==
    ASSUME BaseInv, AskedInOrder, [SyncNext]_syncVars
    PROVE  AskedInOrder'
<1> SUFFICES ASSUME NEW w \in Workers,
                    NEW k \in DOMAIN cache'[HostOf(w)].queue, NEW j \in 1 .. k - 1,
                    cache'[HostOf(w)].queue[k].id \in AskedIds(w)'
             PROVE  cache'[HostOf(w)].queue[j].id \in AskedIds(w)'
  BY ScenarioKept DEF AskedInOrder
<1> DEFINE d == HostOf(w)
           queue == cache[d].queue
           left  == cache'[d].queue
<1>1. w \in Worker /\ d \in Device
  BY WorkersServe DEF BaseInv
<1>2. queue \in Seq(Mutation)
  BY <1>1 DEF BaseInv, ClientTypes, Cached
<1>3. DOMAIN queue = 1 .. Len(queue) /\ Len(queue) \in Nat
  BY <1>2
<1>4. \A g \in DOMAIN queue : \A h \in 1 .. g - 1 :
        queue[g].id \in AskedIds(w) => queue[h].id \in AskedIds(w)
  BY DEF AskedInOrder
<1>5. \A g \in DOMAIN queue : \A h \in 1 .. g - 1 : h \in DOMAIN queue
  BY <1>3
<1>6. AskedIds(w)' # {}
  OBVIOUS
<1>7. CASE AskedIds(w)' = Ids(Pending(d)) /\ UNCHANGED <<issued, cache>>
  <2>1. left = queue
    BY <1>7
  <2>2. j \in DOMAIN queue
    BY <1>5, <2>1
  <2>3. queue[j] \in Pending(d)
    BY <2>2 DEF Pending, ToSet
  <2> QED
    BY <1>7, <2>1, <2>3 DEF Ids
<1>8. CASE AskedIds(w)' = AskedIds(w)
  <2>1. CASE UNCHANGED <<issued, cache>>
    BY <1>4, <1>8, <2>1
  <2>2. ASSUME NEW e \in Device, NEW m, Made(e, m)
        PROVE  left[j].id \in AskedIds(w)
    <3>1. CASE d # e
      <4>1. left = queue
        BY <1>1, <2>2, <3>1, MadeCache DEF BaseInv
      <4> QED
        BY <1>4, <1>8, <4>1
    <3>2. CASE d = e
      <4>1. m.id \notin AskedIds(w)
        BY <2>2, AskedIsSpent DEF Made
      <4>2. /\ DOMAIN left = 1 .. Len(queue) + 1
            /\ \A i \in 1 .. Len(queue) : left[i] = queue[i]
            /\ left[Len(queue) + 1] = m
        BY <1>1, <2>2, <3>2, MadePending DEF BaseInv
      <4>3. k \in 1 .. Len(queue) + 1 /\ left[k].id \in AskedIds(w)
        BY <1>8, <4>2
      <4> HIDE DEF queue, left
      <4>4. k # Len(queue) + 1
        BY <4>1, <4>2, <4>3
      <4>5. k \in 1 .. Len(queue)
        BY <1>3, <4>3, <4>4
      <4>6. j \in 1 .. Len(queue)
        BY <1>3, <4>5
      <4> QED
        BY <1>3, <1>4, <4>2, <4>3, <4>5, <4>6
    <3> QED
      BY <3>1, <3>2
  <2>3. ASSUME NEW v \in Workers, Apply(v)
        PROVE  left[j].id \in AskedIds(w)
    <3>1. CASE d # HostOf(v)
      <4>1. left = queue
        BY <1>1, <2>3, <3>1, ApplyFacts
      <4> QED
        BY <1>4, <1>8, <4>1
    <3>2. CASE d = HostOf(v)
      <4>1. Thinned(queue, left, sync[v].applied)
        BY <2>3, <3>2, ApplyFacts
      <4>2. k \in DOMAIN left /\ left[k].id \in AskedIds(w) /\ j \in 1 .. k - 1
        BY <1>8
      <4> HIDE DEF queue, left
      <4>3. left \in Seq(Mutation)
        BY <4>1 DEF Thinned
      <4>4. PICK from \in [DOMAIN left -> DOMAIN queue] :
                /\ \A i \in DOMAIN left : left[i] = queue[from[i]]
                /\ \A g, h \in DOMAIN left : g < h => from[g] < from[h]
        BY <4>1 DEF Thinned
      <4>5. DOMAIN left = 1 .. Len(left) /\ Len(left) \in Nat
        BY <4>3
      <4>6. j \in DOMAIN left /\ j < k
        BY <4>2, <4>5
      <4>7. from[j] \in DOMAIN queue /\ from[k] \in DOMAIN queue /\ from[j] < from[k]
        BY <4>2, <4>4, <4>6
      <4>8. from[j] \in 1 .. from[k] - 1
        BY <1>3, <4>7
      <4> QED
        BY <1>4, <4>2, <4>4, <4>6, <4>7, <4>8
    <3> QED
      BY <3>1, <3>2
  <2> QED
    BY CacheSteps, <1>8, <2>1, <2>2, <2>3
<1> QED
  BY AskedAfter, <1>6, <1>7, <1>8

(* Every step keeps a pending revision in the cache, or one that supersedes it. *)
LEMMA StaysCachedStep ==
    ASSUME BaseInv, AskedInOrder, PendingStaysCached, [SyncNext]_syncVars
    PROVE  PendingStaysCached'
<1> SUFFICES ASSUME NEW d \in Device, NEW j \in DOMAIN cache'[d].queue,
                    cache'[d].queue[j] \notin cache'[d].revs
             PROVE  \E k \in j + 1 .. Len(cache'[d].queue) :
                        /\ cache'[d].queue[k].purged
                        /\ cache'[d].queue[k].item = cache'[d].queue[j].item
  BY DEF PendingStaysCached
<1> DEFINE queue == cache[d].queue
           left  == cache'[d].queue
<1>1. queue \in Seq(Mutation)
  BY DEF BaseInv, ClientTypes, Cached
<1>2. DOMAIN queue = 1 .. Len(queue) /\ Len(queue) \in Nat
  BY <1>1
<1>3. \A i \in DOMAIN queue : queue[i] \notin cache[d].revs =>
        \E k \in i + 1 .. Len(queue) : queue[k].purged /\ queue[k].item = queue[i].item
  BY DEF PendingStaysCached
<1>4. CASE cache'[d] = cache[d]
  BY <1>3, <1>4
<1>5. ASSUME NEW m, Made(d, m)
      PROVE  \E k \in j + 1 .. Len(left) : left[k].purged /\ left[k].item = left[j].item
  <2>1. /\ Len(left) = Len(queue) + 1
        /\ DOMAIN left = 1 .. Len(queue) + 1
        /\ \A i \in 1 .. Len(queue) : left[i] = queue[i]
        /\ left[Len(queue) + 1] = m
    BY <1>5, MadePending DEF BaseInv
  <2>2. cache'[d].revs = (IF m.purged THEN cache[d].revs \ Of(cache[d].revs, m.item)
                                      ELSE cache[d].revs) \cup {m}
    BY <1>5, MadeCache DEF BaseInv
  <2>3. j \in DOMAIN left /\ left[j] \notin cache'[d].revs
    OBVIOUS
  <2> HIDE DEF queue, left
  <2>4. j \in 1 .. Len(queue)
    BY <1>2, <2>1, <2>2, <2>3
  <2>5. CASE left[j] \in cache[d].revs
    <3>1. m.purged /\ left[j].item = m.item
      BY <2>2, <2>3, <2>5 DEF Of
    <3>2. Len(queue) + 1 \in j + 1 .. Len(left)
      BY <1>2, <2>1, <2>4
    <3> QED
      BY <2>1, <3>1, <3>2
  <2>6. CASE left[j] \notin cache[d].revs
    <3>1. PICK k \in j + 1 .. Len(queue) : queue[k].purged /\ queue[k].item = queue[j].item
      BY <1>2, <1>3, <2>1, <2>4, <2>6
    <3>2. k \in 1 .. Len(queue) /\ k \in j + 1 .. Len(left)
      BY <1>2, <2>1, <2>4
    <3> QED
      BY <2>1, <2>4, <3>1, <3>2
  <2> QED
    BY <2>5, <2>6
<1>6. ASSUME NEW w \in Workers, Apply(w), d = HostOf(w)
      PROVE  \E k \in j + 1 .. Len(left) : left[k].purged /\ left[k].item = left[j].item
  <2>1. w \in Worker
    BY WorkersServe DEF BaseInv
  <2>2. /\ Thinned(queue, left, sync[w].applied)
        /\ left = Remaining(w)
        /\ sync[w].stage = "replied"
    BY <1>6, ApplyFacts
  <2>3. PICK before \in SUBSET MayPrecede(sync[w]) : cache'[d] = MergedCache(w, before)
    BY <1>6, ApplyFacts
  <2>4. left[j] \in ToSet(Remaining(w))
    BY <2>2 DEF ToSet
\* A mutation that remains stays cached if it was cached.
  <2>5. left[j] \notin Retaken(cache[d].revs, Remaining(w), sync[w])
    BY <1>6, <2>3, <2>4 DEF MergedCache, Merged
  <2>6. left[j] \notin cache[d].revs
    BY <2>4, <2>5 DEF Retaken
  <2>7. \A g \in DOMAIN queue : \A h \in 1 .. g - 1 :
            queue[g].id \in sync[w].applied => queue[h].id \in sync[w].applied
    <3>1. AskedIds(w) = sync[w].applied
      BY <2>2 DEF AskedIds
    <3> QED
      BY <1>6, <3>1 DEF AskedInOrder
  <2>8. j \in DOMAIN left
    OBVIOUS
  <2> HIDE DEF queue, left
  <2>9. left \in Seq(Mutation)
    BY <2>2 DEF Thinned
  <2>10. PICK from \in [DOMAIN left -> DOMAIN queue] :
            /\ \A i \in DOMAIN left : left[i] = queue[from[i]]
            /\ \A g, h \in DOMAIN left : g < h => from[g] < from[h]
            /\ \A i \in DOMAIN left : queue[from[i]].id \notin sync[w].applied
            /\ \A k \in DOMAIN queue :
                queue[k].id \notin sync[w].applied => \E i \in DOMAIN left : from[i] = k
    BY <2>2 DEF Thinned
  <2>11. from[j] \in DOMAIN queue /\ left[j] = queue[from[j]]
    BY <2>8, <2>10
  <2>12. PICK k \in from[j] + 1 .. Len(queue) :
            queue[k].purged /\ queue[k].item = queue[from[j]].item
    BY <1>3, <2>6, <2>11
  <2>13. k \in DOMAIN queue /\ from[j] \in 1 .. k - 1 /\ from[j] < k /\ from[j] \in Nat /\ k \in Nat
    BY <1>2, <2>11, <2>12
  <2>14. queue[k].id \notin sync[w].applied
    BY <2>7, <2>8, <2>10, <2>13
  <2>15. PICK i \in DOMAIN left : from[i] = k
    BY <2>10, <2>13, <2>14
  <2>16. DOMAIN left = 1 .. Len(left) /\ Len(left) \in Nat
    BY <2>9
  <2>17. ~(i < j) /\ i # j
    BY <2>8, <2>10, <2>13, <2>15
  <2>18. i \in j + 1 .. Len(left)
    BY <2>8, <2>15, <2>16, <2>17
  <2> QED
    BY <2>10, <2>11, <2>12, <2>15, <2>18
<1>7. ASSUME NEW e \in Device, NEW m, Made(e, m), d # e
      PROVE  cache'[d] = cache[d]
  BY <1>7, MadeCache DEF BaseInv
<1>8. ASSUME NEW w \in Workers, Apply(w), d # HostOf(w)
      PROVE  cache'[d] = cache[d]
  BY <1>8, ApplyFacts
<1> QED
  BY CacheSteps, <1>4, <1>5, <1>6, <1>7, <1>8

(* The invariant of the queues holds initially. *)
LEMMA QueueInit == SyncInit => QueueInv
<1> SUFFICES ASSUME SyncInit PROVE QueueInv
  OBVIOUS
<1>1. /\ issued = {}
      /\ \A d \in Device : cache[d].revs = {} /\ cache[d].queue = <<>>
      /\ sync = [w \in Worker |-> Idle]
  BY DEF SyncInit
<1>2. \A d \in Device : DOMAIN cache[d].queue = {}
  BY <1>1
<1>3. BaseInv
  BY BaseInit
<1>4. \A w \in Workers : HostOf(w) \in Device
  BY <1>3, WorkersServe DEF BaseInv
<1>5. AskedInOrder
  BY <1>2, <1>4 DEF AskedInOrder
<1> QED
  BY <1>1, <1>2, <1>5
  DEF QueueInv, NothingSavedIsLost, CachedIsPendingOrAccepted, QueueInOrder, PendingStaysCached

(* The invariant of the queues holds throughout. *)
LEMMA Queues == SyncSpec => []QueueInv
<1>1. BaseInv /\ BaseInv' /\ QueueInv /\ [SyncNext]_syncVars => QueueInv'
  BY NothingLostStep, CachedStep, OrderStep, AskedStep, StaysCachedStep DEF QueueInv
<1> QED
  BY QueueInit, <1>1, Basics, PTL DEF SyncSpec

\* A saved change survives every loss, retry, rollback and snapshot: until it is
\* committed, some device still has it queued (QueueMutation, ApplySyncResult).
THEOREM SavesSurvive == SyncSpec => []NothingSavedIsLost
  BY Queues, PTL DEF QueueInv

\* Nothing leaves a queue on the strength of a transaction that was rolled back.
THEOREM CachesAreBacked == SyncSpec => []CachedIsPendingOrAccepted
  BY Queues, PTL DEF QueueInv

\* A queue replays in an order the server can accept.
THEOREM QueuesStayInOrder == SyncSpec => []QueueInOrder
  BY Queues, PTL DEF QueueInv

\* What the user saved offline stays visible until it is synchronized.
THEOREM SavesStayVisible == SyncSpec => []PendingStaysCached
  BY Queues, PTL DEF QueueInv

-----------------------------------------------------------------------------
(* No silent revival *)

RowsOf(d) == {d.row[q] : q \in d.accepted}

\* The trash is listed by items, each with a version that can be restored.
TrashCanBeRestored ==
    \A d \in Device : \A r \in trash[d] : \E s \in Of(trash[d], r.item) : ~s.purged

ShownIsKnown == \A d \in Device : view[d] \cup trash[d] \subseteq issued \cup RowsOf(db)

ParentsAreKnown == \A r \in issued : r.parents \subseteq Ids(issued) \cup db.accepted

\* NoSilentRevival, for what the open transaction has accepted as well.
RevivalsMerge ==
    \A r \in issued : \A t \in issued \cup RowsOf(work) :
        t.purged /\ t.id \in r.parents /\ ~r.deleted => Cardinality(r.parents) > 1

RevivalInv ==
    /\ TrashCanBeRestored
    /\ ShownIsKnown
    /\ ParentsAreKnown
    /\ RevivalsMerge
    /\ IsFiniteSet(issued)

\* An account has finitely many revisions, since their cursors are dense.
LEMMA RowsAreFinite ==
    ASSUME NEW d, IsDb(d), CursorsDense(d)
    PROVE  IsFiniteSet(RowsOf(d))
<1> DEFINE f == [q \in d.accepted |-> d.row[q]]
<1>1. d.cursor \in Nat /\ \A r \in d.accepted : d.cursorOf[r] \in 1 .. d.cursor
  BY DEF IsDb, CursorsDense
<1>2. Numbered(d, 0, d.cursor) = d.accepted
  BY <1>1 DEF Numbered
<1>3. IsFiniteSet(d.accepted)
  <2>1. 0 \in Nat /\ 0 <= d.cursor /\ d.cursor <= d.cursor
    BY <1>1
  <2> QED
    BY <1>1, <1>2, <2>1, Counting
<1>4. f \in [d.accepted -> RowsOf(d)]
  BY DEF RowsOf
<1>5. \A r \in RowsOf(d) : \E q \in d.accepted : f[q] = r
  BY DEF RowsOf
<1>6. f \in Surjection(d.accepted, RowsOf(d))
  <2> HIDE DEF f
  <2> QED
    BY <1>4, <1>5, Fun_IsSurj
<1> QED
  <2> HIDE DEF f
  <2> QED
    BY <1>3, <1>6, FS_Surjection

\* What is known has distinct UUIDs.
LEMMA KnownIds ==
    ASSUME BaseInv, NEW r \in issued \cup RowsOf(db), NEW s \in issued \cup RowsOf(db),
           r.id = s.id
    PROVE  r = s
  BY DbRows DEF BaseInv, IdsAreSpent, RowsOf

\* As many UUIDs as revisions.
LEMMA IdsCount ==
    ASSUME BaseInv, RevivalInv, NEW S \in SUBSET (issued \cup RowsOf(db))
    PROVE  IsFiniteSet(S) /\ Cardinality(Ids(S)) = Cardinality(S)
<1> DEFINE f == [r \in S |-> r.id]
<1>1. IsFiniteSet(RowsOf(db)) /\ IsFiniteSet(issued)
  BY RowsAreFinite DEF BaseInv, Inv, Good, RevivalInv
<1>2. IsFiniteSet(issued \cup RowsOf(db))
  BY <1>1, FS_Union
<1>3. IsFiniteSet(S)
  BY <1>2, FS_Subset
<1>4. f \in [S -> Ids(S)]
  BY DEF Ids
<1>5. \A r, s \in S : f[r] = f[s] => r = s
  BY KnownIds
<1>6. \A i \in Ids(S) : \E r \in S : f[r] = i
  BY DEF Ids
<1>7. f \in Bijection(S, Ids(S))
  <2> HIDE DEF f
  <2> QED
    BY <1>4, <1>5, <1>6, Fun_IsInj, Fun_IsSurj, Fun_IsBij
<1>8. ExistsBijection(S, Ids(S))
  BY <1>7 DEF ExistsBijection
<1> QED
  BY <1>3, <1>8, FS_Bijection

\* Everything cached is known.
LEMMA CachedIsKnown ==
    ASSUME BaseInv, QueueInv, NEW d \in Device
    PROVE  /\ cache[d].revs \subseteq issued \cup RowsOf(db)
           /\ Ids(cache[d].revs) \subseteq Ids(issued) \cup db.accepted
  BY DEF BaseInv, OnlyIssuedTravels, QueueInv, CachedIsPendingOrAccepted, RowsOf, Ids

\* A save never revives a tombstone without merging.
LEMMA MadeMerges ==
    ASSUME BaseInv, QueueInv, RevivalInv, NEW d \in Device, NEW m, Made(d, m),
           NEW t \in issued \cup RowsOf(db), t.purged, t.id \in m.parents, ~m.deleted
    PROVE  Cardinality(m.parents) > 1
<1>1. view[d] \cup trash[d] \subseteq issued \cup RowsOf(db)
  BY DEF RevivalInv, ShownIsKnown
<1>2. \A r \in view[d] \cup trash[d] : r.id = t.id => r = t
  BY <1>1, KnownIds
<1>3. view[d] \subseteq Mutation /\ trash[d] \subseteq Mutation
  BY DEF BaseInv, ClientTypes
<1>4. ASSUME NEW r \in view[d], ~r.deleted, m.parents = {r.id}
      PROVE  FALSE
  BY <1>2, <1>3, <1>4 DEF Mutation, ValidMutation
<1>5. ASSUME NEW r \in trash[d], Displayed(d, r), m.parents = {r.id}
      PROVE  FALSE
  <2>1. r.purged
    BY <1>2, <1>5
  <2> QED
    BY <1>5, <2>1 DEF Displayed, RevivalInv, TrashCanBeRestored
<1>6. ASSUME NEW i \in Item, Cardinality(Of(view[d], i)) > 1, m.parents = Ids(Of(view[d], i))
      PROVE  Cardinality(m.parents) > 1
  <2>1. Of(view[d], i) \in SUBSET (issued \cup RowsOf(db))
    BY <1>1 DEF Of
  <2> QED
    BY <1>6, <2>1, IdsCount
<1> QED
  BY <1>4, <1>5, <1>6 DEF Made, Descends

\* The parents of a new revision are known, and it is nobody's parent.
LEMMA MadeParents ==
    ASSUME BaseInv, QueueInv, NEW d \in Device, NEW m, Made(d, m)
    PROVE  m.parents \subseteq Ids(issued) \cup db.accepted
<1>1. m \in Mutation /\ QueueMutation(d, m)
  BY DEF Made
<1>2. m.parents \subseteq Ids(cache[d].revs)
  BY <1>1 DEF QueueMutation, Mutation, ValidMutation, Ids, Of
<1> QED
  BY <1>2, CachedIsKnown

\* Only saves make revisions.
LEMMA IssuedSteps ==
    ASSUME BaseInv, [SyncNext]_syncVars
    PROVE  issued' = issued \/ \E d \in Device : \E m : Made(d, m)
  BY CacheSteps, ApplyCache

(* Every step keeps what a screen shows among the revisions made or accepted. *)
LEMMA ShownStep ==
    ASSUME BaseInv, QueueInv, TrashCanBeRestored, ShownIsKnown, [SyncNext]_syncVars
    PROVE  TrashCanBeRestored' /\ ShownIsKnown'
<1>1. issued \cup RowsOf(db) \subseteq issued' \cup RowsOf(db')
  <2>1. issued \subseteq issued'
    BY IssuedSteps DEF Made
  <2>2. RowsOf(db) \subseteq RowsOf(db')
    BY GrownStep DEF Grown, RowsOf
  <2> QED
    BY <2>1, <2>2
<1>2. RowsOf(db)' = RowsOf(db')
  BY DEF RowsOf
<1>3. CASE UNCHANGED <<view, trash>>
  <2>1. ShownIsKnown'
    BY <1>1, <1>2, <1>3 DEF ShownIsKnown
  <2>2. TrashCanBeRestored'
    BY <1>3 DEF TrashCanBeRestored
  <2> QED
    BY <2>1, <2>2
<1>4. ASSUME NEW d \in Device, List(d)
      PROVE  TrashCanBeRestored' /\ ShownIsKnown'
  <2>1. /\ view' = [view EXCEPT ![d] = {r \in Heads(cache[d].revs) :
                        \E s \in Of(Heads(cache[d].revs), r.item) : ~s.deleted}]
        /\ UNCHANGED trash
    BY <1>4 DEF List
  <2>2. \A e \in Device : view'[e] \subseteq view[e] \cup cache[e].revs
    BY <2>1 DEF BaseInv, ClientTypes, Heads
  <2>3. ShownIsKnown'
    BY <1>1, <1>2, <2>1, <2>2, CachedIsKnown DEF ShownIsKnown
  <2>4. TrashCanBeRestored'
    BY <2>1 DEF TrashCanBeRestored
  <2> QED
    BY <2>3, <2>4
<1>5. ASSUME NEW d \in Device, Trash(d)
      PROVE  TrashCanBeRestored' /\ ShownIsKnown'
  <2>1. /\ trash' = [trash EXCEPT ![d] = {r \in Heads(cache[d].revs) : InTrash(d, r.item)}]
        /\ UNCHANGED view
    BY <1>5 DEF Trash
  <2>2. \A e \in Device : trash'[e] \subseteq trash[e] \cup cache[e].revs
    BY <2>1 DEF BaseInv, ClientTypes, Heads
  <2>3. ShownIsKnown'
    BY <1>1, <1>2, <2>1, <2>2, CachedIsKnown DEF ShownIsKnown
  <2>4. trash'[d] = {r \in Heads(cache[d].revs) : InTrash(d, r.item)}
    BY <2>1 DEF BaseInv, ClientTypes
  <2>5. \A r \in trash'[d] : \E s \in Of(trash'[d], r.item) : ~s.purged
    BY <2>4 DEF InTrash, Of
  <2>6. \A e \in Device : e # d => trash'[e] = trash[e]
    BY <2>1 DEF BaseInv, ClientTypes
  <2>7. TrashCanBeRestored'
    BY <2>5, <2>6 DEF TrashCanBeRestored
  <2> QED
    BY <2>3, <2>7
<1>6. \/ UNCHANGED <<view, trash>>
      \/ \E d \in Device : List(d)
      \/ \E d \in Device : Trash(d)
  BY Steps DEF BaseInv, syncVars, clientVars, Made, Send, Receive, RefuseBatch, GiveUp, Apply,
     ReceiveLate, ServeExpiry, ServeMutation, Abort, Reply, TimePasses
<1> QED
  BY <1>3, <1>4, <1>5, <1>6

(* Every step keeps the parents of a made revision made or accepted. *)
LEMMA ParentsStep ==
    ASSUME BaseInv, QueueInv, ParentsAreKnown, IsFiniteSet(issued), [SyncNext]_syncVars
    PROVE  ParentsAreKnown' /\ IsFiniteSet(issued)'
<1>1. Grown(db, db')
  BY GrownStep
<1>2. CASE issued' = issued
  <2>1. ParentsAreKnown'
    BY <1>1, <1>2 DEF ParentsAreKnown, Grown
  <2> QED
    BY <1>2, <2>1
<1>3. ASSUME NEW d \in Device, NEW m, Made(d, m)
      PROVE  ParentsAreKnown' /\ IsFiniteSet(issued)'
  <2>1. issued' = issued \cup {m}
    BY <1>3 DEF Made
  <2>2. Ids(issued) \cup db.accepted \subseteq Ids(issued') \cup db'.accepted
    BY <1>1, <2>1 DEF Grown, Ids
  <2>3. m.parents \subseteq Ids(issued) \cup db.accepted
    BY <1>3, MadeParents
  <2>4. \A r \in issued' : r.parents \subseteq Ids(issued') \cup db'.accepted
    BY <2>1, <2>2, <2>3 DEF ParentsAreKnown
  <2>5. ParentsAreKnown'
    BY <2>4 DEF ParentsAreKnown, Ids
  <2>6. IsFiniteSet(issued')
    BY <2>1, FS_AddElement
  <2> QED
    BY <2>5, <2>6
<1> QED
  BY IssuedSteps, <1>2, <1>3

(* Every step keeps a revision made on a tombstone a deletion or a merge of it. *)
LEMMA RevivalsStep ==
    ASSUME BaseInv, QueueInv, RevivalInv, [SyncNext]_syncVars
    PROVE  RevivalsMerge'
<1> DEFINE Merges(r, t) ==
        t.purged /\ t.id \in r.parents /\ ~r.deleted => Cardinality(r.parents) > 1
<1>1. \A r \in issued : \A t \in issued \cup RowsOf(work) : Merges(r, t)
  BY DEF RevivalInv, RevivalsMerge
<1>2. Grown(db, work)
  BY DEF BaseInv, OneTransaction
<1>3. RowsOf(db) \subseteq RowsOf(work)
  BY <1>2 DEF Grown, RowsOf
\* A revision that nobody has seen is nobody's parent.
<1>4. ASSUME NEW m, m.id \notin Ids(issued), m.id \notin work.accepted, NEW r \in issued
      PROVE  Merges(r, m)
  BY <1>2, <1>4 DEF RevivalInv, ParentsAreKnown, Grown
<1> SUFFICES \A r \in issued' : \A t \in issued' \cup RowsOf(work') : Merges(r, t)
  BY DEF RevivalsMerge, RowsOf
<1>5. ASSUME issued' = issued, RowsOf(work') \subseteq RowsOf(work)
      PROVE  \A r \in issued' : \A t \in issued' \cup RowsOf(work') : Merges(r, t)
  <2> HIDE DEF Merges
  <2> QED
    BY <1>1, <1>5
<1>6. ASSUME NEW d \in Device, NEW m, Made(d, m)
      PROVE  \A r \in issued' : \A t \in issued' \cup RowsOf(work') : Merges(r, t)
  <2>1. /\ issued' = issued \cup {m} /\ work' = work /\ work = db
        /\ m.id \notin Ids(issued) /\ m.id \notin work.accepted
    BY <1>6 DEF Made, serverVars, BaseInv, OneTransaction
  <2>2. \A t \in issued \cup RowsOf(db) : Merges(m, t)
    BY <1>6, MadeMerges
  <2>3. Merges(m, m)
    <3>1. m.id \notin m.parents
      BY <1>6, <2>1, MadeParents
    <3> QED
      BY <3>1
  <2>4. \A r \in issued : Merges(r, m)
    BY <1>4, <2>1
  <2> HIDE DEF Merges
  <2> QED
    BY <1>1, <2>1, <2>2, <2>3, <2>4
<1>7. CASE issued' = issued
  <2>1. CASE TablesKept
    BY <1>5, <1>7, <2>1 DEF TablesKept
  <2>2. CASE TablesPruned
    <3>1. PICK at : work' = Prune(db, at)
      BY <2>2 DEF TablesPruned
    <3>2. work'.accepted = db.accepted /\ work'.row = db.row
      BY <3>1 DEF Prune, BaseInv, Inv, TypeOK, IsDb
    <3>3. RowsOf(work') = RowsOf(db)
      BY <3>2 DEF RowsOf
    <3> QED
      BY <1>3, <1>5, <1>7, <3>3
  <2>3. CASE TablesRolled
    BY <1>3, <1>5, <1>7, <2>3 DEF TablesRolled
  <2>4. CASE TablesSaved
    BY <1>5, <1>7, <2>4 DEF TablesSaved
  <2>5. ASSUME NEW m, TablesGained(m)
        PROVE  \A r \in issued' : \A t \in issued' \cup RowsOf(work') : Merges(r, t)
    <3>1. PICK at \in Nat : work' = Accept(work, m, at)
      BY <2>5 DEF TablesGained
    <3>2. /\ work'.accepted = work.accepted \cup {m.id}
          /\ work'.row[m.id] = m
          /\ \A r \in work.accepted : work'.row[r] = work.row[r]
          /\ m.id \notin work.accepted
      BY <2>5, <3>1, AcceptFields DEF TablesGained, Mutation, BaseInv, Inv, TypeOK
    <3>3. RowsOf(work') = RowsOf(work) \cup {m}
      BY <3>2 DEF RowsOf
    <3>4. \A r \in issued : Merges(r, m)
      <4>1. CASE m \in issued
        BY <1>1, <4>1
      <4>2. CASE m.id \notin Ids(issued)
        BY <1>4, <3>2, <4>2
      <4> QED
        BY <2>5, <4>1, <4>2 DEF TablesGained
    <3> HIDE DEF Merges
    <3> QED
      BY <1>1, <1>7, <3>3, <3>4
  <2> QED
    BY TableSteps, <2>1, <2>2, <2>3, <2>4, <2>5
<1> QED
  BY IssuedSteps, <1>6, <1>7

(* The invariant of revivals holds initially. *)
LEMMA RevivalInit == SyncInit => RevivalInv
<1> SUFFICES ASSUME SyncInit PROVE RevivalInv
  OBVIOUS
<1>1. issued = {} /\ \A d \in Device : view[d] = {} /\ trash[d] = {}
  BY DEF SyncInit
<1>2. IsFiniteSet(issued)
  BY <1>1, FS_EmptySet
<1> QED
  BY <1>1, <1>2
  DEF RevivalInv, TrashCanBeRestored, ShownIsKnown, ParentsAreKnown, RevivalsMerge

(* The invariant of revivals holds throughout. *)
LEMMA Revivals == SyncSpec => []RevivalInv
<1>1. BaseInv /\ QueueInv /\ RevivalInv /\ [SyncNext]_syncVars => RevivalInv'
  BY ShownStep, ParentsStep, RevivalsStep DEF RevivalInv
<1> QED
  BY RevivalInit, <1>1, Basics, Queues, PTL DEF SyncSpec

\* A tombstone is never simply edited back to life, even by a device that does not
\* know of it (restoreItem, resolveConflict, QueueMutation).
THEOREM NoDeviceRevives == SyncSpec => []NoSilentRevival
<1>1. BaseInv /\ RevivalInv => NoSilentRevival
  <2> SUFFICES ASSUME BaseInv, RevivalInv PROVE NoSilentRevival
    OBVIOUS
  <2>1. RowsOf(db) \subseteq RowsOf(work)
    BY DEF BaseInv, OneTransaction, Grown, RowsOf
  <2> QED
    BY <2>1 DEF RevivalInv, RevivalsMerge, NoSilentRevival, RowsOf
<1> QED
  BY <1>1, Basics, Revivals, PTL
=============================================================================
