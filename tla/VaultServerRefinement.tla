------------------------ MODULE VaultServerRefinement ------------------------
(***************************************************************************)
(* VaultServer implements RevisionGraph: seen from outside, a whole batch, *)
(* its housekeeping included, is one step of the abstract graph.           *)
(***************************************************************************)
EXTENDS VaultServerProofs

Fresh(d, e)     == e.accepted \ d.accepted
Dooms(e, t, r)  == e.row[t].purged /\ e.row[t].item = e.row[r].item

\* What an open transaction has made of the committed tables d.
Grown(d, e) ==
    /\ d.accepted \subseteq e.accepted
    /\ \A r \in d.accepted : e.row[r] = d.row[r]
    /\ e.content \subseteq d.content \cup Fresh(d, e)
    /\ \A r \in (d.content \cup Fresh(d, e)) \ e.content :
          e.row[r].purged \/ \E t \in Fresh(d, e) : Dooms(e, t, r)
    /\ \A r \in d.content \cap e.content : \A t \in Fresh(d, e) : ~Dooms(e, t, r)

LEMMA GrownSame ==
    ASSUME NEW d, NEW e, e.accepted = d.accepted, e.row = d.row, e.content = d.content
    PROVE  Grown(d, e)
  BY DEF Grown, Fresh

LEMMA GrownAccept ==
    ASSUME NEW d, NEW e, NEW m \in Revision, NEW at \in Nat,
           IsDb(d), IsDb(e), Grown(d, e), Accepts(e, m)
    PROVE  Grown(d, Accept(e, m, at))
<1> DEFINE f == Accept(e, m, at)
<1>1. /\ \A q \in e.accepted : f.row[q] = e.row[q]
      /\ f.row[m.id] = m
      /\ f.accepted = e.accepted \cup {m.id}
      /\ f.content = (e.content \ Scrubbed(e, m))
                        \cup (IF m.purged THEN {} ELSE {m.id})
      /\ m.id \notin e.accepted
  BY AcceptFields
<1>2. /\ d.accepted \subseteq e.accepted
      /\ d.content \subseteq d.accepted
      /\ e.content \subseteq e.accepted
  BY DEF Grown, IsDb
<1> HIDE DEF f
<1>3. Fresh(d, f) = Fresh(d, e) \cup {m.id}
  BY <1>1, <1>2 DEF Fresh
<1>4. \A r \in Scrubbed(e, m) : r \in e.accepted /\ m.purged /\ e.row[r].item = m.item
  BY DEF Scrubbed, OfItem
<1>5. \A r \in e.accepted : r \notin Scrubbed(e, m) => ~Dooms(f, m.id, r)
  BY <1>1 DEF Scrubbed, OfItem, Dooms
<1>6. \A t, r \in e.accepted : Dooms(f, t, r) <=> Dooms(e, t, r)
  BY <1>1 DEF Dooms
<1>7. ASSUME NEW r \in (d.content \cup Fresh(d, f)) \ f.content
      PROVE  f.row[r].purged \/ \E t \in Fresh(d, f) : Dooms(f, t, r)
  <2>1. CASE r = m.id
    BY <1>1, <1>7, <2>1
  <2>2. CASE r \in Scrubbed(e, m)
    BY <1>1, <1>3, <1>4, <2>2 DEF Dooms
  <2>3. CASE r # m.id /\ r \notin Scrubbed(e, m)
    <3>1. r \in (d.content \cup Fresh(d, e)) \ e.content /\ r \in e.accepted
      BY <1>1, <1>2, <1>3, <1>7, <2>3 DEF Fresh
    <3>2. e.row[r].purged \/ \E t \in Fresh(d, e) : Dooms(e, t, r)
      BY <3>1 DEF Grown
    <3>3. \A t \in Fresh(d, e) : t \in e.accepted /\ t \in Fresh(d, f)
      BY <1>3 DEF Fresh
    <3> QED
      BY <1>1, <1>6, <3>1, <3>2, <3>3
  <2> QED
    BY <2>1, <2>2, <2>3
<1>8. ASSUME NEW r \in d.content \cap f.content, NEW t \in Fresh(d, f)
      PROVE  ~Dooms(f, t, r)
  <2>1. r \in e.accepted /\ r # m.id /\ r \in e.content /\ r \notin Scrubbed(e, m)
    BY <1>1, <1>2, <1>8
  <2>2. CASE t = m.id
    BY <1>5, <2>1, <2>2
  <2>3. CASE t \in Fresh(d, e)
    BY <1>6, <1>8, <2>1, <2>3 DEF Grown, Fresh
  <2> QED
    BY <1>3, <1>8, <2>2, <2>3
<1>9. f.content \subseteq d.content \cup Fresh(d, f)
  BY <1>1, <1>3 DEF Grown
<1>10. \A r \in d.accepted : f.row[r] = d.row[r]
  BY <1>1, <1>2 DEF Grown
<1>11. Grown(d, f)
  BY <1>1, <1>2, <1>7, <1>8, <1>9, <1>10 DEF Grown
<1> QED
  BY <1>11 DEF f

-----------------------------------------------------------------------------
(* From the tables to the abstract graph *)

Graph(d)    == {d.row[r] : r \in d.accepted}
Readable(d) == {d.row[r] : r \in d.content}

\* A row is known by its UUID, so rows and UUIDs correspond one to one.
LEMMA RowsByUUID ==
    ASSUME NEW d, NEW e, Good(d), Good(e), Grown(d, e)
    PROVE  /\ \A r \in e.accepted : e.row[r].id = r
           /\ Graph(d) = {e.row[r] : r \in d.accepted}
           /\ Readable(d) = {e.row[r] : r \in d.content}
           /\ Graph(e) \ Graph(d) = {e.row[r] : r \in Fresh(d, e)}
           /\ d.accepted \subseteq e.accepted /\ d.content \subseteq d.accepted
           /\ e.content \subseteq e.accepted
<1>1. \A r \in e.accepted : e.row[r].id = r
  BY DEF Good, GraphIsOrdered
<1>2. /\ d.accepted \subseteq e.accepted /\ d.content \subseteq d.accepted
      /\ e.content \subseteq e.accepted
      /\ \A r \in d.accepted : e.row[r] = d.row[r]
  BY DEF Good, IsDb, Grown
<1>3. /\ Graph(d) = {e.row[r] : r \in d.accepted}
      /\ Readable(d) = {e.row[r] : r \in d.content}
  BY <1>2 DEF Graph, Readable
<1>4. Graph(e) \ Graph(d) = {e.row[r] : r \in Fresh(d, e)}
  BY <1>1, <1>2, <1>3 DEF Graph, Fresh
<1> QED
  BY <1>1, <1>2, <1>3, <1>4

\* The abstract step, stated of the tables before and after.
LEMMA GraphGrows ==
    ASSUME NEW d, NEW e, Good(d), Good(e), Grown(d, e)
    PROVE  LET new == Graph(e) \ Graph(d) IN
           /\ Graph(d) \subseteq Graph(e)
           /\ \A r \in new : \A q \in Graph(e) : q.id = r.id => q = r
           /\ \A r \in new : \A p \in r.parents :
                \E q \in Graph(e) :
                    q.id = p /\ q.item = r.item /\ q.revision < r.revision
<1>1. ASSUME NEW x \in Graph(d) PROVE x \in Graph(e)
  <2>1. PICK r \in d.accepted : x = e.row[r]
    BY RowsByUUID
  <2> QED
    BY <2>1, RowsByUUID DEF Graph
<1>2. \A r, q \in Graph(e) : q.id = r.id => q = r
  BY RowsByUUID DEF Graph
<1>3. ASSUME NEW r \in Graph(e), NEW p \in r.parents
      PROVE  \E q \in Graph(e) : q.id = p /\ q.item = r.item /\ q.revision < r.revision
  <2>1. PICK x \in e.accepted : r = e.row[x]
    BY DEF Graph
  <2>2. /\ p \in e.accepted /\ e.row[p].item = r.item
        /\ e.row[p].revision < r.revision /\ e.row[p].id = p
    BY <1>3, <2>1 DEF Good, GraphIsOrdered, OfItem
  <2> QED
    BY <2>2 DEF Graph
<1> QED
  BY <1>1, <1>2, <1>3

LEMMA ContentForgotten ==
    ASSUME NEW d, NEW e, Good(d), Good(e), Grown(d, e)
    PROVE  LET new == Graph(e) \ Graph(d) IN
           /\ Readable(e) \subseteq Readable(d) \cup new
           /\ \A r \in (Readable(d) \cup new) \ Readable(e) :
                r.purged \/ \E t \in new : t.purged /\ t.item = r.item
           /\ \A r \in Readable(e) :
                ~r.purged /\ (r \in new \/ ~\E t \in new : t.purged /\ t.item = r.item)
           /\ \A r \in Graph(e) :
                (\A q \in Graph(e) : r.id \notin q.parents) =>
                    (r.purged <=> r \notin Readable(e))
<1> DEFINE new == Graph(e) \ Graph(d)
<1>0. /\ \A r \in e.accepted : e.row[r].id = r
      /\ Readable(d) = {e.row[r] : r \in d.content}
      /\ new = {e.row[r] : r \in Fresh(d, e)}
      /\ d.accepted \subseteq e.accepted /\ d.content \subseteq d.accepted
      /\ e.content \subseteq e.accepted
  BY RowsByUUID
<1>1. Readable(e) \subseteq Readable(d) \cup new
  BY <1>0 DEF Grown, Readable
<1>2. ASSUME NEW r \in (Readable(d) \cup new) \ Readable(e)
      PROVE  r.purged \/ \E t \in new : t.purged /\ t.item = r.item
  <2>1. PICK x \in d.content \cup Fresh(d, e) : r = e.row[x]
    BY <1>0, <1>2
  <2>2. x \notin e.content
    BY <1>2, <2>1 DEF Readable
  <2>3. e.row[x].purged \/ \E t \in Fresh(d, e) : Dooms(e, t, x)
    BY <2>1, <2>2 DEF Grown
  <2> QED
    BY <1>0, <2>1, <2>3 DEF Dooms
<1>3. ASSUME NEW r \in Readable(e)
      PROVE  ~r.purged /\ (r \in new \/ \A t \in new : ~(t.purged /\ t.item = r.item))
  <2>1. PICK x \in e.content : r = e.row[x]
    BY DEF Readable
  <2>2. ~r.purged
    BY <2>1 DEF Good, ContentOutlivesTombstone
  <2>3. CASE x \in Fresh(d, e)
    BY <1>0, <2>1, <2>2, <2>3
  <2>4. CASE x \in d.content
    <3>1. \A t \in Fresh(d, e) : ~Dooms(e, t, x)
      BY <2>1, <2>4 DEF Grown
    <3> QED
      BY <1>0, <2>1, <2>2, <3>1 DEF Dooms
  <2> QED
    BY <2>1, <2>3, <2>4 DEF Grown
<1>4. ASSUME NEW r \in Graph(e), \A q \in Graph(e) : r.id \notin q.parents
      PROVE  r.purged <=> r \notin Readable(e)
  <2>1. PICK x \in e.accepted : r = e.row[x]
    BY DEF Graph
  <2>2. x \in e.heads
    BY <1>0, <1>4, <2>1 DEF Good, HeadsAreLeaves, Graph
  <2>3. r.purged \/ x \in e.content
    BY <2>1, <2>2, GoodHeads DEF HeadContentKept
  <2>4. x \in e.content => ~r.purged
    BY <2>1 DEF Good, ContentOutlivesTombstone
  <2>5. r \in Readable(e) <=> x \in e.content
    BY <1>0, <2>1 DEF Readable
  <2> QED
    BY <2>3, <2>4, <2>5
<1> QED
  BY <1>1, <1>2, <1>3, <1>4

-----------------------------------------------------------------------------
(* The specification *)

\* What the proof needs of a state besides Inv: the working copy has grown out
\* of the committed tables.
RefinementInv == Inv /\ Grown(db, work)

LEMMA RefinementInvariance == ServerSpec => []RefinementInv
<1>1. ServerInit => Grown(db, work)
  BY GrownSame DEF ServerInit
<1>2. Inv /\ Grown(db, work) /\ [ServerNext]_serverVars => Grown(db, work)'
  <2> SUFFICES ASSUME Inv, Grown(db, work), [ServerNext]_serverVars
               PROVE  Grown(db', work')
    BY DEF Grown, Fresh, Dooms
  <2>0. IsDb(db) /\ IsDb(work)
    BY DEF Inv, TypeOK
  <2>1. ASSUME NEW at \in 0 .. now, Begin(at)
        PROVE  Grown(db', work')
    <3>1. db' = db /\ work'.accepted = db.accepted /\ work'.row = db.row
          /\ work'.content = db.content
      BY <2>0, <2>1 DEF Begin, Prune, IsDb
    <3> QED
      BY <3>1, GrownSame
  <2>2. ASSUME NEW h \in RevId, NEW id \in RevId, ExpireTrash(h, id)
        PROVE  Grown(db', work')
    <3>1. PICK at \in tx :
            /\ h \in Expired(work, at)
            /\ work.row[h].revision < MaxRevision
            /\ Accepts(work, TombstoneOf(work, h, id))
            /\ work' = Accept(work, TombstoneOf(work, h, id), at)
            /\ UNCHANGED <<db, tx, now>>
      BY <2>2 DEF ExpireTrash
    <3>2. at \in Nat
      BY <3>1, RetentionAssumption DEF Inv, TypeOK, RetentionAssumption
    <3>3. TombstoneOf(work, h, id) \in Revision
      BY <3>1, <3>2, TombstoneForm DEF Inv
    <3> QED
      BY <2>0, <3>1, <3>2, <3>3, GrownAccept
  <2>3. ASSUME NEW m \in Mutation, AppendRevision(m)
        PROVE  Grown(db', work')
    <3>1. PICK at \in tx :
            /\ Accepts(work, m)
            /\ work' = Accept(work, m, at)
            /\ UNCHANGED <<db, tx, now>>
      BY <2>3 DEF AppendRevision
    <3>2. at \in Nat
      BY <3>1, RetentionAssumption DEF Inv, TypeOK, RetentionAssumption
    <3> QED
      BY <2>0, <3>1, <3>2, GrownAccept DEF Mutation
  <2>4. CASE Fail
    BY <2>4, GrownSame DEF Fail
  <2>5. ASSUME NEW c \in 0 .. db.cursor + 1, Commit(c)
        PROVE  Grown(db', work')
    BY <2>5, GrownSame DEF Commit
  <2>6. CASE UNCHANGED <<db, work>>
    BY <2>6
  <2> QED
    BY <2>1, <2>2, <2>3, <2>4, <2>5, <2>6
    DEF ServerNext, Mutate, Retry, Tick, serverVars
<1> QED
  BY <1>1, <1>2, Invariance, PTL DEF ServerSpec, RefinementInv

\* VaultServer implements RevisionGraph: the committed history is immutable and
\* loses content to tombstones only, in batches that happen entirely or not at all.
THEOREM ServerKeepsRevisionGraph == ServerSpec => KeepsRevisionGraph
<1>1. ServerInit => Promise!Init
  BY DEF ServerInit, EmptyDb, Promise!Init
<1>2. RefinementInv /\ [ServerNext]_serverVars => [Promise!Next]_(Promise!vars)
  <2> SUFFICES ASSUME RefinementInv, [ServerNext]_serverVars
               PROVE  [Promise!Next]_(Promise!vars)
    OBVIOUS
  <2>1. ASSUME NEW c \in 0 .. db.cursor + 1, Commit(c)
        PROVE  [Promise!Next]_(Promise!vars)
    <3>1. db' = work
      BY <2>1 DEF Commit
    <3>2. Good(db) /\ Good(work) /\ Grown(db, work)
      BY DEF RefinementInv, Inv
    <3>3. Promise!GrowsByDescent
      <4>1. Promise!New = Graph(work) \ Graph(db)
        BY <3>1 DEF Promise!New, Graph
      <4>2. /\ Graph(db) \subseteq Graph(work)
            /\ \A r \in Promise!New : \A q \in Graph(work) : q.id = r.id => q = r
            /\ \A r \in Promise!New : \A p \in r.parents :
                 \E q \in Graph(work) :
                     q.id = p /\ q.item = r.item /\ q.revision < r.revision
        BY <3>2, <4>1, GraphGrows
      <4>3. Graph(db)' = Graph(work)
        BY <3>1 DEF Graph
      <4>4. /\ Graph(db) \subseteq Graph(db)'
            /\ \A r \in Promise!New : \A q \in Graph(db)' : q.id = r.id => q = r
            /\ \A r \in Promise!New : \A p \in r.parents :
                 \E q \in Graph(db)' :
                     q.id = p /\ q.item = r.item /\ q.revision < r.revision
        BY <4>2, <4>3
      <4> QED
        BY <4>4, Zenon DEF Promise!GrowsByDescent, Graph
    <3>4. Promise!ForgetsByTombstone
      <4> DEFINE new == Graph(work) \ Graph(db)
      <4>1. Promise!New = new
        BY <3>1 DEF Promise!New, Graph
      <4>2. /\ Readable(work) \subseteq Readable(db) \cup Promise!New
            /\ \A r \in (Readable(db) \cup Promise!New) \ Readable(work) :
                  r.purged \/ Promise!Doomed(r)
            /\ \A r \in Readable(work) :
                  ~r.purged /\ (r \in Promise!New \/ ~Promise!Doomed(r))
        BY <3>2, <4>1, ContentForgotten DEF Promise!Doomed
      <4>3. \A r \in Promise!Leaves(Graph(work)) :
                  r.purged <=> r \notin Readable(work)
        BY <3>2, ContentForgotten DEF Promise!Leaves
      <4> QED
        BY <3>1, <4>2, <4>3 DEF Promise!ForgetsByTombstone, Graph, Readable
    <3> QED
      BY <3>3, <3>4 DEF Promise!Next
  <2>2. CASE UNCHANGED db
    BY <2>2 DEF Promise!vars
  <2> QED
    BY <2>1, <2>2
    DEF ServerNext, Begin, ExpireTrash, Mutate, Retry, AppendRevision, Fail, Tick, serverVars
<1> QED
  BY <1>1, <1>2, RefinementInvariance, PTL DEF ServerSpec, KeepsRevisionGraph, Promise!Spec
=============================================================================
