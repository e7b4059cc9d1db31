-------------------------- MODULE VaultServerProofs --------------------------
(***************************************************************************)
(* Proofs about VaultServer, for any number of revisions and items, any    *)
(* retention and any interleaving of batches, retries and rollbacks.       *)
(***************************************************************************)
EXTENDS VaultServer, FunctionTheorems, FiniteSetTheorems, TLAPS

\* Change cursors do not exceed the account's and never repeat.
CursorsDistinct(d) ==
    /\ \A r \in d.accepted : d.cursorOf[r] <= d.cursor
    /\ \A q, r \in d.accepted : d.cursorOf[q] = d.cursorOf[r] => q = r

\* The inductive strengthening: what each table needs to know of the others.
Good(d) ==
    /\ IsDb(d)
    /\ CursorsDistinct(d)
    /\ GraphIsOrdered(d)
    /\ HeadsAreLeaves(d)
    /\ TombstoneCoversEarlier(d)
    /\ ContentOutlivesTombstone(d)
    /\ PurgedChangesDropped(d)
    /\ CursorsDense(d)
    /\ ProjectionFollows(d)
    /\ TombstoneNotRevived(d)

-----------------------------------------------------------------------------
(* Accepting a revision *)

\* The tables after Accept, field by field.
LEMMA AcceptFields ==
    ASSUME NEW d, NEW m \in Revision, NEW at \in Nat, IsDb(d), Accepts(d, m)
    PROVE  LET e == Accept(d, m, at) IN
           /\ e.accepted = d.accepted \cup {m.id}
           /\ e.heads = (d.heads \ m.parents) \cup {m.id}
           /\ e.cursor = d.cursor + 1
           /\ e.content = (d.content \ Scrubbed(d, m))
                            \cup (IF m.purged THEN {} ELSE {m.id})
           /\ e.changes = (d.changes \ Scrubbed(d, m)) \cup {m.id}
           /\ e.row[m.id] = m
           /\ e.cursorOf[m.id] = d.cursor + 1
           /\ \A r \in d.accepted : e.row[r] = d.row[r] /\ e.cursorOf[r] = d.cursorOf[r]
           /\ m.id \in RevId /\ m.id \notin d.accepted
  BY DEF Accept, Accepts, IsDb, Extended, Revision, NextHeads, NextChanges

\* The tables keep their types.
LEMMA AcceptType ==
    ASSUME NEW d, NEW m \in Revision, NEW at \in Nat, IsDb(d), Accepts(d, m)
    PROVE  IsDb(Accept(d, m, at))
<1> DEFINE e == Accept(d, m, at)
<1>1. m.id \in RevId
  BY DEF Revision
<1>2. DOMAIN e = {"accepted", "row", "content", "heads", "items", "changes",
                  "cursorOf", "acceptedAt", "cursor"}
  BY DEF Accept
<1>3. e.accepted \subseteq RevId
  BY <1>1 DEF Accept, IsDb
<1>4. /\ e.row \in [e.accepted -> Revision]
      /\ e.cursorOf \in [e.accepted -> Nat]
      /\ e.acceptedAt \in [e.accepted -> Nat]
      /\ e.cursor \in Nat
  BY DEF Accept, IsDb, Extended
<1>5. /\ e.content \subseteq e.accepted
      /\ e.heads \subseteq e.accepted
      /\ e.items \subseteq e.accepted
      /\ e.changes \subseteq e.accepted
  BY DEF Accept, IsDb, NextHeads, NextItems, NextChanges
<1> QED
  BY <1>2, <1>3, <1>4, <1>5 DEF IsDb

\* Items are told apart by the rows, which never change.
LEMMA AcceptOfItem ==
    ASSUME NEW d, NEW m \in Revision, NEW at \in Nat, IsDb(d), Accepts(d, m), NEW i
    PROVE  OfItem(Accept(d, m, at), i)
             = OfItem(d, i) \cup (IF m.item = i THEN {m.id} ELSE {})
  BY AcceptFields DEF OfItem

(* Accepting a revision gives it the next cursor. *)
LEMMA AcceptCursors ==
    ASSUME NEW d, NEW m \in Revision, NEW at \in Nat,
           IsDb(d), CursorsDistinct(d), Accepts(d, m)
    PROVE  CursorsDistinct(Accept(d, m, at))
<1> DEFINE e == Accept(d, m, at)
<1>1. \A r \in d.accepted : d.cursorOf[r] \in Nat /\ d.cursor \in Nat
  BY DEF IsDb
<1>2. \A r \in e.accepted : e.cursorOf[r] <= e.cursor
  <2>1. \A r \in d.accepted : d.cursorOf[r] <= d.cursor
    BY DEF CursorsDistinct
  <2>2. e.cursor = d.cursor + 1 /\ d.cursor \in Nat
    BY AcceptFields DEF IsDb
  <2>3. \A r \in d.accepted : e.cursorOf[r] = d.cursorOf[r]
    BY AcceptFields
  <2>4. e.accepted = d.accepted \cup {m.id} /\ e.cursorOf[m.id] = e.cursor
    BY AcceptFields
  <2> HIDE DEF e
  <2> QED
    BY <1>1, <2>1, <2>2, <2>3, <2>4
<1>3. \A q, r \in e.accepted : e.cursorOf[q] = e.cursorOf[r] => q = r
  <2> SUFFICES ASSUME NEW q \in e.accepted, NEW r \in e.accepted,
                      e.cursorOf[q] = e.cursorOf[r]
               PROVE  q = r
    OBVIOUS
  <2>1. CASE q \in d.accepted /\ r \in d.accepted
    BY <2>1, AcceptFields DEF CursorsDistinct
  <2>2. CASE q = m.id \/ r = m.id
    BY <2>2, <1>1, AcceptFields DEF CursorsDistinct
  <2> QED
    BY <2>1, <2>2, AcceptFields
<1> QED
  BY <1>2, <1>3 DEF CursorsDistinct

\* The parents of an accepted revision are older revisions of its item.
LEMMA AcceptedParents ==
    ASSUME NEW d, NEW m \in Revision, ValidMutation(m), Accepts(d, m)
    PROVE  m.parents \subseteq OfItem(d, m.item)
  BY DEF Accepts, ValidMutation, ExtendsItem

(* Accepting a revision puts it after its parents. *)
LEMMA AcceptOrder ==
    ASSUME NEW d, NEW m \in Revision, NEW at \in Nat, ValidMutation(m),
           IsDb(d), CursorsDistinct(d), GraphIsOrdered(d), Accepts(d, m)
    PROVE  GraphIsOrdered(Accept(d, m, at))
<1> DEFINE e == Accept(d, m, at)
<1> SUFFICES ASSUME NEW r \in e.accepted
             PROVE  /\ e.row[r].id = r
                    /\ \A p \in e.row[r].parents :
                        /\ p \in OfItem(e, e.row[r].item)
                        /\ e.row[p].revision < e.row[r].revision
                        /\ e.cursorOf[p] < e.cursorOf[r]
  BY DEF GraphIsOrdered
<1>1. CASE r = m.id
  <2>1. e.row[r] = m /\ e.cursorOf[r] = d.cursor + 1
    BY <1>1, AcceptFields
  <2>2. \A p \in m.parents : p \in d.accepted /\ p \in OfItem(e, m.item)
    BY AcceptedParents, AcceptOfItem DEF OfItem
  <2>3. \A p \in m.parents : e.cursorOf[p] < d.cursor + 1
    BY <2>2, AcceptFields DEF CursorsDistinct, IsDb
  <2>4. \A p \in m.parents : e.row[p].revision < m.revision
    BY <2>2, AcceptFields DEF Accepts, ExtendsItem, ValidMutation
  <2> QED
    BY <1>1, <2>1, <2>2, <2>3, <2>4
<1>2. CASE r \in d.accepted
  <2>1. e.row[r] = d.row[r] /\ e.cursorOf[r] = d.cursorOf[r]
    BY <1>2, AcceptFields
  <2>2. \A p \in d.row[r].parents :
            /\ p \in OfItem(d, d.row[r].item)
            /\ p \in d.accepted
            /\ d.row[p].revision < d.row[r].revision
            /\ d.cursorOf[p] < d.cursorOf[r]
    BY <1>2 DEF GraphIsOrdered, OfItem
  <2>3. \A p \in d.row[r].parents :
            e.cursorOf[p] < e.cursorOf[r] /\ e.row[p].revision < e.row[r].revision
    BY <2>1, <2>2, AcceptFields
  <2>4. \A p \in d.row[r].parents : p \in OfItem(e, d.row[r].item)
    BY <2>2, AcceptOfItem
  <2>5. d.row[r].id = r
    BY <1>2 DEF GraphIsOrdered
  <2> QED
    BY <2>1, <2>3, <2>4, <2>5
<1> QED
  BY <1>1, <1>2, AcceptFields

\* Nobody descends from a revision that is not there yet.
LEMMA AcceptHeads ==
    ASSUME NEW d, NEW m \in Revision, NEW at \in Nat, ValidMutation(m),
           IsDb(d), GraphIsOrdered(d), HeadsAreLeaves(d), Accepts(d, m)
    PROVE  HeadsAreLeaves(Accept(d, m, at))
<1> DEFINE e == Accept(d, m, at)
<1> DEFINE Leaf(x, r) == \A q \in x.accepted : r \notin x.row[q].parents
<1>1. m.id \notin m.parents /\ \A q \in d.accepted : m.id \notin d.row[q].parents
  <2>1. m.parents \subseteq d.accepted
    BY AcceptedParents DEF OfItem
  <2>2. \A q \in d.accepted : d.row[q].parents \subseteq d.accepted
    BY DEF GraphIsOrdered, OfItem
  <2> QED
    BY <2>1, <2>2 DEF Accepts
<1>2. Leaf(e, m.id)
  BY <1>1, AcceptFields
<1>3. \A r \in d.accepted : Leaf(e, r) <=> Leaf(d, r) /\ r \notin m.parents
  BY AcceptFields
<1>4. d.heads = {r \in d.accepted : Leaf(d, r)}
  BY DEF HeadsAreLeaves
<1>5. e.heads = {r \in e.accepted : Leaf(e, r)}
  <2> HIDE DEF Leaf
  <2> QED
    BY <1>1, <1>2, <1>3, <1>4, AcceptFields
<1> QED
  BY <1>5 DEF HeadsAreLeaves

(* Accepting a tombstone makes it descend from all its item had. *)
LEMMA AcceptTombstones ==
    ASSUME NEW d, NEW m \in Revision, NEW at \in Nat, ValidMutation(m), IsDb(d),
           CursorsDistinct(d), HeadsAreLeaves(d), GraphIsOrdered(d),
           TombstoneCoversEarlier(d), Accepts(d, m)
    PROVE  TombstoneCoversEarlier(Accept(d, m, at))
<1> DEFINE e == Accept(d, m, at)
<1> SUFFICES ASSUME NEW t \in e.accepted, e.row[t].purged,
                    NEW r \in OfItem(e, e.row[t].item), e.cursorOf[r] < e.cursorOf[t]
             PROVE  \E q \in OfItem(e, e.row[t].item) :
                        r \in e.row[q].parents /\ e.cursorOf[q] <= e.cursorOf[t]
  BY DEF TombstoneCoversEarlier
<1>1. /\ \A q \in d.accepted : e.row[q] = d.row[q] /\ e.cursorOf[q] = d.cursorOf[q]
      /\ \A q \in d.accepted : d.cursorOf[q] \in Nat /\ d.cursorOf[q] < d.cursor + 1
      /\ e.row[m.id] = m /\ e.cursorOf[m.id] = d.cursor + 1
      /\ e.accepted = d.accepted \cup {m.id}
      /\ d.cursor \in Nat
      /\ m.id \notin d.accepted
  BY AcceptFields DEF CursorsDistinct, IsDb
<1>2. r \in e.accepted
  BY DEF OfItem
<1> HIDE DEF e
\* An old tombstone: the new revision comes after it.
<1>3. CASE t \in d.accepted
  <2>1. r \in d.accepted /\ d.cursorOf[r] < d.cursorOf[t]
    BY <1>1, <1>2, <1>3
  <2>2. r \in OfItem(d, d.row[t].item) /\ d.row[t].purged
    BY <1>1, <1>3, <2>1 DEF OfItem
  <2>3. PICK q \in OfItem(d, d.row[t].item) :
            r \in d.row[q].parents /\ d.cursorOf[q] <= d.cursorOf[t]
    BY <1>3, <2>1, <2>2 DEF TombstoneCoversEarlier
  <2> QED
    BY <1>1, <1>3, <2>3 DEF OfItem
\* A new one: an earlier revision is a head, thus a parent, or has a child.
<1>4. CASE t = m.id
  <2>1. r \in d.accepted /\ r \in OfItem(d, m.item) /\ m.purged
    BY <1>1, <1>2, <1>4 DEF OfItem
  <2>2. CASE r \in d.heads
    <3>1. m.revision # 1
      BY <2>1 DEF Accepts, OpensItem
    <3>2. r \in m.parents
      BY <2>1, <2>2, <3>1 DEF Accepts, CoversHeads, HeadsOf, OfItem
    <3> QED
      BY <1>1, <1>4, <3>2 DEF OfItem
  <2>3. CASE r \notin d.heads
    <3>1. PICK q \in d.accepted : r \in d.row[q].parents
      BY <2>1, <2>3 DEF HeadsAreLeaves
    <3>2. d.row[q].item = m.item
      BY <2>1, <3>1 DEF GraphIsOrdered, OfItem
    <3> QED
      BY <1>1, <1>4, <3>1, <3>2 DEF OfItem
  <2> QED
    BY <2>2, <2>3
<1> QED
  BY <1>1, <1>3, <1>4

(* Accepting a revision keeps the envelopes since the last tombstone. *)
LEMMA AcceptContent ==
    ASSUME NEW d, NEW m \in Revision, NEW at \in Nat, IsDb(d), CursorsDistinct(d),
           ContentOutlivesTombstone(d), Accepts(d, m)
    PROVE  ContentOutlivesTombstone(Accept(d, m, at))
<1> DEFINE e == Accept(d, m, at)
<1> DEFINE Outlives(x, r) ==
        /\ ~x.row[r].purged
        /\ \A t \in OfItem(x, x.row[r].item) :
              x.row[t].purged => x.cursorOf[t] < x.cursorOf[r]
<1>1. /\ \A q \in d.accepted : e.row[q] = d.row[q] /\ e.cursorOf[q] = d.cursorOf[q]
      /\ \A q \in d.accepted : d.cursorOf[q] \in Nat /\ d.cursorOf[q] < d.cursor + 1
      /\ e.row[m.id] = m /\ e.cursorOf[m.id] = d.cursor + 1
      /\ e.accepted = d.accepted \cup {m.id}
      /\ e.content = (d.content \ Scrubbed(d, m))
                        \cup (IF m.purged THEN {} ELSE {m.id})
      /\ d.cursor \in Nat
      /\ m.id \notin d.accepted
  BY AcceptFields DEF CursorsDistinct, IsDb
<1>2. \A i : OfItem(e, i) = OfItem(d, i) \cup (IF m.item = i THEN {m.id} ELSE {})
  BY AcceptOfItem
<1>3. \A i : \A q \in OfItem(d, i) : q \in d.accepted
  BY DEF OfItem
<1> HIDE DEF e
<1>4. ASSUME NEW r \in d.accepted
      PROVE  Outlives(e, r) <=> Outlives(d, r) /\ r \notin Scrubbed(d, m)
  <2>1. CASE m.purged /\ d.row[r].item = m.item
    <3>1. r \in Scrubbed(d, m)
      BY <2>1 DEF Scrubbed, OfItem
    <3>2. m.id \in OfItem(e, e.row[r].item)
      BY <1>1, <1>2, <2>1
    <3>3. e.row[m.id].purged /\ ~(e.cursorOf[m.id] < e.cursorOf[r])
      BY <1>1, <2>1
    <3> QED
      BY <3>1, <3>2, <3>3
  <2>2. CASE ~(m.purged /\ d.row[r].item = m.item)
    <3>1. r \notin Scrubbed(d, m)
      BY <2>2 DEF Scrubbed, OfItem
    <3>2. \A t \in OfItem(e, d.row[r].item) :
              e.row[t].purged => t \in OfItem(d, d.row[r].item)
      BY <1>1, <1>2, <2>2
    <3>3. \A t \in OfItem(d, d.row[r].item) : t \in OfItem(e, d.row[r].item)
      BY <1>2
    <3> QED
      BY <1>1, <1>3, <3>1, <3>2, <3>3
  <2> QED
    BY <2>1, <2>2
<1>5. Outlives(e, m.id) <=> ~m.purged
  <2>1. \A t \in OfItem(e, m.item) : t # m.id => e.cursorOf[t] < e.cursorOf[m.id]
    BY <1>1, <1>2, <1>3
  <2> QED
    BY <1>1, <2>1
<1>6. d.content = {r \in d.accepted : Outlives(d, r)}
  BY DEF ContentOutlivesTombstone
<1>7. e.content = {r \in e.accepted : Outlives(e, r)}
  <2> HIDE DEF Outlives
  <2> QED
    BY <1>1, <1>4, <1>5, <1>6
<1> QED
  BY <1>7 DEF ContentOutlivesTombstone, e

(* Accepting a revision leaves no content of a purged one in the change log. *)
LEMMA AcceptChanges ==
    ASSUME NEW d, NEW m \in Revision, NEW at \in Nat, IsDb(d),
           PurgedChangesDropped(d), Accepts(d, m)
    PROVE  PurgedChangesDropped(Accept(d, m, at))
<1> DEFINE e == Accept(d, m, at)
<1>1. /\ \A q \in d.accepted : e.row[q] = d.row[q]
      /\ e.row[m.id] = m
      /\ e.changes = (d.changes \ Scrubbed(d, m)) \cup {m.id}
      /\ e.content = (d.content \ Scrubbed(d, m))
                        \cup (IF m.purged THEN {} ELSE {m.id})
      /\ d.changes \subseteq d.accepted
  BY AcceptFields DEF IsDb
<1> HIDE DEF e
<1>2. \A r \in e.changes : e.row[r].purged \/ r \in e.content
  BY <1>1 DEF PurgedChangesDropped
<1> QED
  BY <1>2 DEF PurgedChangesDropped, e

(* Accepting a revision leaves no hole in the cursors. *)
LEMMA AcceptDense ==
    ASSUME NEW d, NEW m \in Revision, NEW at \in Nat, IsDb(d),
           CursorsDistinct(d), CursorsDense(d), Accepts(d, m)
    PROVE  CursorsDense(Accept(d, m, at))
<1> DEFINE e == Accept(d, m, at)
<1>1. /\ \A q \in d.accepted : e.cursorOf[q] = d.cursorOf[q]
      /\ e.cursorOf[m.id] = d.cursor + 1
      /\ e.cursor = d.cursor + 1
      /\ e.accepted = d.accepted \cup {m.id}
      /\ d.cursor \in Nat
  BY AcceptFields DEF IsDb
<1>2. CursorsDistinct(e)
  BY AcceptCursors
<1> HIDE DEF e
<1>3. \A r \in e.accepted : e.cursorOf[r] \in 1 .. e.cursor
  BY <1>1 DEF CursorsDense
<1>4. ASSUME NEW n \in 1 .. e.cursor
      PROVE  \E r \in e.accepted : e.cursorOf[r] = n
  <2>1. CASE n \in 1 .. d.cursor
    BY <1>1, <2>1 DEF CursorsDense
  <2>2. CASE n = d.cursor + 1
    BY <1>1, <2>2
  <2> QED
    BY <1>1, <2>1, <2>2
<1>5. CursorsDense(e)
  BY <1>2, <1>3, <1>4 DEF CursorsDense, CursorsDistinct
<1> QED
  BY <1>5 DEF e

(* Accepting a revision projects the item's head when it is alone. *)
LEMMA AcceptProjection ==
    ASSUME NEW d, NEW m \in Revision, NEW at \in Nat, ValidMutation(m), IsDb(d),
           GraphIsOrdered(d), ProjectionFollows(d), Accepts(d, m)
    PROVE  ProjectionFollows(Accept(d, m, at))
<1> DEFINE e == Accept(d, m, at)
<1>1. /\ \A q \in d.accepted : e.row[q] = d.row[q]
      /\ e.row[m.id] = m
      /\ e.heads = (d.heads \ m.parents) \cup {m.id}
      /\ e.items = NextItems(d, m)
      /\ d.heads \subseteq d.accepted
      /\ d.items \subseteq d.accepted
      /\ m.id \notin d.accepted
  BY AcceptFields DEF IsDb, Accept
<1>2. \A i : OfItem(e, i) = OfItem(d, i) \cup (IF m.item = i THEN {m.id} ELSE {})
  BY AcceptOfItem
<1>3. m.parents \subseteq OfItem(d, m.item)
  BY AcceptedParents
<1> HIDE DEF e
<1> SUFFICES ASSUME NEW h \in e.heads, HeadsOf(e, e.row[h].item) = {h}
             PROVE  e.items \cap OfItem(e, e.row[h].item) = {h}
  BY DEF ProjectionFollows, e
\* The item of the new revision: the new revision is its only head.
<1>4. CASE e.row[h].item = m.item
  <2>1. h = m.id
    BY <1>1, <1>4 DEF HeadsOf
  <2>2. HeadsOf(d, m.item) \subseteq m.parents
    <3>1. \A q \in HeadsOf(d, m.item) : q \in d.accepted /\ q # m.id
      BY <1>1 DEF HeadsOf
    <3>2. \A q \in HeadsOf(d, m.item) : q \notin m.parents => q \in HeadsOf(e, m.item)
      BY <1>1, <3>1 DEF HeadsOf
    <3> QED
      BY <1>4, <2>1, <3>1, <3>2
  <2>3. e.items = (d.items \ OfItem(d, m.item)) \cup {m.id}
    BY <1>1, <2>2 DEF NextItems
  <2>4. OfItem(e, m.item) = OfItem(d, m.item) \cup {m.id}
    BY <1>2
  <2> QED
    BY <1>1, <1>4, <2>1, <2>3, <2>4
\* Any other item: nothing of it has changed.
<1>5. CASE e.row[h].item # m.item
  <2> DEFINE i == e.row[h].item
  <2>1. h \in d.heads /\ h \in d.accepted /\ d.row[h].item = i
    BY <1>1, <1>5
  <2>2. \A q \in m.parents : q \in d.accepted /\ d.row[q].item # i
    BY <1>3, <1>5 DEF OfItem
  <2>3. HeadsOf(d, i) = {h}
    <3>1. \A q \in HeadsOf(d, i) : q \in HeadsOf(e, i)
      BY <1>1, <2>2 DEF HeadsOf
    <3> QED
      BY <2>1, <3>1 DEF HeadsOf
  <2>4. d.items \cap OfItem(d, i) = {h}
    BY <2>1, <2>3 DEF ProjectionFollows
  <2>5. OfItem(e, i) = OfItem(d, i)
    BY <1>2, <1>5
  <2>6. \A q \in OfItem(d, i) : q # m.id /\ q \notin OfItem(d, m.item)
    BY <1>1, <1>5 DEF OfItem
  <2>7. \A q \in OfItem(d, i) : q \in e.items <=> q \in d.items
    BY <1>1, <2>6 DEF NextItems
  <2> QED
    BY <2>4, <2>5, <2>7
<1> QED
  BY <1>4, <1>5

(* Accepting a revision makes no tombstone's first child live unless it merges. *)
LEMMA AcceptRevival ==
    ASSUME NEW d, NEW m \in Revision, NEW at \in Nat, ValidMutation(m), IsDb(d),
           CursorsDistinct(d), GraphIsOrdered(d), HeadsAreLeaves(d),
           TombstoneNotRevived(d), Accepts(d, m)
    PROVE  TombstoneNotRevived(Accept(d, m, at))
<1> DEFINE e == Accept(d, m, at)
<1>1. /\ \A q \in d.accepted : e.row[q] = d.row[q] /\ e.cursorOf[q] = d.cursorOf[q]
      /\ \A q \in d.accepted : d.cursorOf[q] \in Nat /\ d.cursorOf[q] < d.cursor + 1
      /\ e.row[m.id] = m /\ e.cursorOf[m.id] = d.cursor + 1
      /\ e.accepted = d.accepted \cup {m.id}
      /\ m.id \notin d.accepted
  BY AcceptFields DEF CursorsDistinct, IsDb
<1>2. m.parents \subseteq d.accepted
  BY AcceptedParents DEF OfItem
<1> HIDE DEF e
<1> SUFFICES ASSUME NEW t \in e.accepted, NEW r \in e.accepted, e.row[t].purged,
                    e.row[r].parents = {t}, ~e.row[r].deleted
             PROVE  \E q \in e.accepted :
                        t \in e.row[q].parents /\ e.cursorOf[q] < e.cursorOf[r]
  BY DEF TombstoneNotRevived, e
<1>3. CASE r \in d.accepted
  <2>1. d.row[r].parents = {t} /\ t \in d.accepted
    BY <1>1, <1>3 DEF GraphIsOrdered, OfItem
  <2> QED
    BY <1>1, <1>3, <2>1 DEF TombstoneNotRevived
<1>4. CASE r = m.id
  <2>1. m.parents = {t} /\ ~m.deleted /\ t \in d.accepted /\ d.row[t].purged
    BY <1>1, <1>2, <1>4
  <2>2. t \notin d.heads
    BY <2>1 DEF Accepts, RevivesTombstone, ValidMutation
  <2>3. PICK q \in d.accepted : t \in d.row[q].parents
    BY <2>1, <2>2 DEF HeadsAreLeaves
  <2> QED
    BY <1>1, <1>4, <2>3
<1> QED
  BY <1>1, <1>3, <1>4

(* Accepting a revision keeps all of the above. *)
LEMMA AcceptGood ==
    ASSUME NEW d, NEW m \in Revision, NEW at \in Nat,
           ValidMutation(m), Good(d), Accepts(d, m)
    PROVE  Good(Accept(d, m, at))
  BY AcceptType, AcceptCursors, AcceptOrder, AcceptHeads, AcceptTombstones,
     AcceptContent, AcceptChanges, AcceptDense, AcceptProjection, AcceptRevival
  DEF Good

-----------------------------------------------------------------------------
(* The other changes of the tables *)

(* The empty database satisfies all of the above. *)
LEMMA EmptyGood == Good(EmptyDb)
<1>1. /\ EmptyDb.accepted = {} /\ EmptyDb.heads = {} /\ EmptyDb.content = {}
      /\ EmptyDb.changes = {} /\ EmptyDb.cursor = 0
  BY DEF EmptyDb
<1>2. IsDb(EmptyDb)
  BY DEF IsDb, EmptyDb
<1>3. CursorsDense(EmptyDb)
  BY <1>1 DEF CursorsDense
<1> QED
  BY <1>1, <1>2, <1>3
  DEF Good, CursorsDistinct, GraphIsOrdered, HeadsAreLeaves, TombstoneCoversEarlier,
      ContentOutlivesTombstone, PurgedChangesDropped, ProjectionFollows,
      TombstoneNotRevived

\* Pruning forgets changes and nothing else.
LEMMA PruneGood ==
    ASSUME NEW d, NEW at \in Nat, Good(d)
    PROVE  Good(Prune(d, at))
<1> DEFINE e == Prune(d, at)
<1>1. IsDb(d)
  BY DEF Good
<1>2. /\ e.accepted = d.accepted /\ e.row = d.row /\ e.content = d.content
      /\ e.heads = d.heads /\ e.items = d.items /\ e.cursorOf = d.cursorOf
      /\ e.acceptedAt = d.acceptedAt /\ e.cursor = d.cursor
      /\ e.changes \subseteq d.changes /\ DOMAIN e = DOMAIN d
  BY <1>1 DEF Prune, IsDb
<1> HIDE DEF e
<1>3. IsDb(e)
  BY <1>1, <1>2 DEF IsDb
<1>4. \A i : OfItem(e, i) = OfItem(d, i) /\ HeadsOf(e, i) = HeadsOf(d, i)
  BY <1>2 DEF OfItem, HeadsOf
<1>5. CursorsDistinct(e) /\ CursorsDense(e) /\ HeadsAreLeaves(e) /\ TombstoneNotRevived(e)
  BY <1>2 DEF Good, CursorsDistinct, CursorsDense, HeadsAreLeaves, TombstoneNotRevived
<1>6. GraphIsOrdered(e) /\ TombstoneCoversEarlier(e)
  BY <1>2, <1>4 DEF Good, GraphIsOrdered, TombstoneCoversEarlier
<1>7. ContentOutlivesTombstone(e)
  BY <1>2, <1>4 DEF Good, ContentOutlivesTombstone
<1>8. PurgedChangesDropped(e) /\ ProjectionFollows(e)
  BY <1>2, <1>4 DEF Good, PurgedChangesDropped, ProjectionFollows
<1> QED
  BY <1>3, <1>5, <1>6, <1>7, <1>8 DEF Good, e

\* The tombstone of an expired head is a well-formed mutation ...
LEMMA TombstoneForm ==
    ASSUME NEW d, Good(d), NEW at \in Nat, NEW h \in Expired(d, at), NEW id \in RevId,
           d.row[h].revision < MaxRevision
    PROVE  /\ TombstoneOf(d, h, id) \in Revision
           /\ ValidMutation(TombstoneOf(d, h, id))
<1>1. h \in d.accepted /\ d.row[h] \in Revision /\ h \in RevId
  BY DEF Expired, Good, IsDb
<1>2. d.row[h].item \in Item /\ d.row[h].revision \in 1 .. MaxRevision
  BY <1>1 DEF Revision
<1>3. d.row[h].revision + 1 \in 1 .. MaxRevision /\ d.row[h].revision + 1 # 1
  BY <1>2, RetentionAssumption DEF RetentionAssumption
<1> QED
  BY <1>1, <1>2, <1>3 DEF TombstoneOf, Revision, ValidMutation

\* ... that the store never refuses.
LEMMA TombstoneAccepted ==
    ASSUME NEW d, Good(d), NEW at \in Nat, NEW h \in Expired(d, at),
           NEW id \in RevId \ d.accepted, d.row[h].revision < MaxRevision
    PROVE  Accepts(d, TombstoneOf(d, h, id))
<1> DEFINE m == TombstoneOf(d, h, id)
<1>1. h \in d.accepted /\ d.row[h] \in Revision
  BY DEF Expired, Good, IsDb
<1>2. d.row[h].revision \in Nat /\ d.row[h].revision + 1 # 1
  BY <1>1, RetentionAssumption DEF Revision, RetentionAssumption
<1>3. /\ m.id = id /\ m.item = d.row[h].item /\ m.parents = {h}
      /\ m.revision = d.row[h].revision + 1 /\ m.deleted
  BY DEF TombstoneOf
<1> HIDE DEF m
<1>4. ExtendsItem(d, m)
  BY <1>1, <1>2, <1>3 DEF ExtendsItem, OfItem
<1>5. CoversHeads(d, m)
  BY <1>3 DEF CoversHeads, Expired
<1>6. ~RevivesTombstone(d, m)
  BY <1>3 DEF RevivesTombstone
<1>7. Accepts(d, m)
  BY <1>2, <1>3, <1>4, <1>5, <1>6 DEF Accepts
<1> QED
  BY <1>7 DEF m

-----------------------------------------------------------------------------
(* The specification *)

Inv ==
    /\ TypeOK
    /\ Good(db)
    /\ Good(work)

\* Every step keeps it, whatever takes the step.
LEMMA InvStep == Inv /\ [ServerNext]_serverVars => Inv'
<1> SUFFICES ASSUME Inv, [ServerNext]_serverVars PROVE Inv'
  OBVIOUS
<1> USE DEF Inv
<1>1. ASSUME NEW at \in 0 .. now, Begin(at)
      PROVE  Inv'
  <2>1. at \in Nat /\ now \in Nat
    BY <1>1, RetentionAssumption DEF TypeOK, RetentionAssumption
  <2>2. Good(work')
    BY <1>1, <2>1, PruneGood DEF Begin
  <2>3. TypeOK'
    BY <1>1, <2>1, <2>2 DEF Begin, TypeOK, Good
  <2> QED
    BY <1>1, <2>2, <2>3 DEF Begin
<1>2. ASSUME NEW h \in RevId, NEW id \in RevId, ExpireTrash(h, id)
      PROVE  Inv'
  <2>1. PICK at \in tx :
          /\ h \in Expired(work, at)
          /\ work.row[h].revision < MaxRevision
          /\ Accepts(work, TombstoneOf(work, h, id))
          /\ work' = Accept(work, TombstoneOf(work, h, id), at)
          /\ UNCHANGED <<db, tx, now>>
    BY <1>2 DEF ExpireTrash
  <2>2. at \in Nat
    BY <2>1, RetentionAssumption DEF TypeOK, RetentionAssumption
  <2>3. Good(work')
    BY <2>1, <2>2, TombstoneForm, AcceptGood
  <2> QED
    BY <2>1, <2>3 DEF TypeOK, Good
<1>3. ASSUME NEW m \in Mutation, AppendRevision(m)
      PROVE  Inv'
  <2>1. PICK at \in tx :
          /\ Accepts(work, m)
          /\ work' = Accept(work, m, at)
          /\ UNCHANGED <<db, tx, now>>
    BY <1>3 DEF AppendRevision
  <2>2. at \in Nat
    BY <2>1, RetentionAssumption DEF TypeOK, RetentionAssumption
  <2>3. Good(work')
    BY <2>1, <2>2, AcceptGood DEF Mutation
  <2> QED
    BY <2>1, <2>3 DEF TypeOK, Good
<1>4. ASSUME NEW m \in Mutation, Retry(m)
      PROVE  Inv'
  BY <1>4 DEF Retry, serverVars, TypeOK
<1>5. CASE Fail
  BY <1>5 DEF Fail, TypeOK
<1>6. ASSUME NEW c \in 0 .. db.cursor + 1, Commit(c)
      PROVE  Inv'
  BY <1>6 DEF Commit, TypeOK
<1>7. CASE Tick
  <2>1. now' \in 0 .. MaxTime
    BY <1>7, RetentionAssumption DEF Tick, TypeOK, RetentionAssumption
  <2> QED
    BY <1>7, <2>1 DEF Tick, TypeOK
<1>8. CASE UNCHANGED serverVars
  BY <1>8 DEF serverVars, TypeOK
<1> QED
  BY <1>1, <1>2, <1>3, <1>4, <1>5, <1>6, <1>7, <1>8 DEF ServerNext, Mutate

\* It holds to begin with.
LEMMA InvInit == ServerInit => Inv
  BY EmptyGood, RetentionAssumption
  DEF ServerInit, Inv, TypeOK, Good, RetentionAssumption

\* What every reachable state satisfies.
LEMMA Invariance == ServerSpec => []Inv
  BY InvInit, InvStep, PTL DEF ServerSpec

-----------------------------------------------------------------------------
(* Theorems *)

\* The variables keep their types.
THEOREM TypeCorrect == ServerSpec => []TypeOK
  BY Invariance, PTL DEF Inv

\* The graph of revisions is acyclic and stays within its items: applyVaultMutation
\* accepts a revision only after all its parents.
THEOREM GraphStaysOrdered == ServerSpec => []GraphIsOrderedInv
<1>1. Inv => GraphIsOrderedInv
  BY DEF Inv, Good, GraphIsOrderedInv, Both
<1> QED
  BY Invariance, <1>1, PTL

\* vault_item_heads, kept up to date by deletes and inserts, is exactly the set of
\* leaves of the graph, whatever batches commit or roll back.
THEOREM HeadsStayLeaves == ServerSpec => []HeadsAreLeavesInv
<1>1. Inv => HeadsAreLeavesInv
  BY DEF Inv, Good, HeadsAreLeavesInv, Both
<1> QED
  BY Invariance, <1>1, PTL

\* A tombstone is accepted only over everything its item had.
THEOREM TombstonesCoverEarlier == ServerSpec => []TombstoneCoversEarlierInv
<1>1. Inv => TombstoneCoversEarlierInv
  BY DEF Inv, Good, TombstoneCoversEarlierInv, Both
<1> QED
  BY Invariance, <1>1, PTL

\* The envelopes stored are those of the revisions accepted since the last
\* tombstone of their item.
THEOREM ContentStaysScrubbed == ServerSpec => []ContentOutlivesTombstoneInv
<1>1. Inv => ContentOutlivesTombstoneInv
  BY DEF Inv, Good, ContentOutlivesTombstoneInv, Both
<1> QED
  BY Invariance, <1>1, PTL

\* No retained change carries purged content.
THEOREM ChangesStayScrubbed == ServerSpec => []PurgedChangesDroppedInv
<1>1. Inv => PurgedChangesDroppedInv
  BY DEF Inv, Good, PurgedChangesDroppedInv, Both
<1> QED
  BY Invariance, <1>1, PTL

\* A head that is not a tombstone has its envelope: a tombstone accepted after
\* it would have been its descendant, and it would not be a head.
LEMMA GoodHeads == ASSUME NEW d, Good(d) PROVE HeadContentKept(d)
<1> SUFFICES ASSUME NEW h \in d.heads, ~d.row[h].purged PROVE h \in d.content
  BY DEF HeadContentKept
<1>1. h \in d.accepted /\ \A q \in d.accepted : h \notin d.row[q].parents
  BY DEF Good, HeadsAreLeaves
<1>2. ASSUME NEW t \in OfItem(d, d.row[h].item), d.row[t].purged
      PROVE  d.cursorOf[t] < d.cursorOf[h]
  <2>1. t \in d.accepted /\ d.row[t].item = d.row[h].item
    BY <1>2 DEF OfItem
  <2>2. d.cursorOf[t] \in Nat /\ d.cursorOf[h] \in Nat
    BY <1>1, <2>1 DEF Good, IsDb
  <2>3. d.cursorOf[t] # d.cursorOf[h]
    BY <1>1, <1>2, <2>1 DEF Good, CursorsDistinct
  <2>4. ~(d.cursorOf[h] < d.cursorOf[t])
    BY <1>1, <1>2, <2>1 DEF Good, TombstoneCoversEarlier, OfItem
  <2> QED
    BY <2>2, <2>3, <2>4
<1> QED
  BY <1>1, <1>2 DEF Good, ContentOutlivesTombstone

\* A snapshot can always be read: no head loses its envelope.
THEOREM HeadsStayReadable == ServerSpec => []HeadContentKeptInv
<1>1. Inv => HeadContentKeptInv
  BY GoodHeads DEF Inv, HeadContentKeptInv, Both
<1> QED
  BY Invariance, <1>1, PTL

\* Change cursors number the accepted revisions without a hole or a repetition.
THEOREM CursorsStayDense == ServerSpec => []CursorsDenseInv
<1>1. Inv => CursorsDenseInv
  BY DEF Inv, Good, CursorsDenseInv, Both
<1> QED
  BY Invariance, <1>1, PTL

\* vault_items shows every item that has a single head by that head.
THEOREM ProjectionStaysCurrent == ServerSpec => []ProjectionFollowsInv
<1>1. Inv => ProjectionFollowsInv
  BY DEF Inv, Good, ProjectionFollowsInv, Both
<1> QED
  BY Invariance, <1>1, PTL

\* No live revision is accepted as the plain child of a tombstone head.
THEOREM TombstonesStayDead == ServerSpec => []TombstoneNotRevivedInv
<1>1. Inv => TombstoneNotRevivedInv
  BY DEF Inv, Good, TombstoneNotRevivedInv, Both
<1> QED
  BY Invariance, <1>1, PTL

\* purgeExpiredVaultItems never fails on a conflict, so expired trash cannot make
\* the synchronizations of its account fail for ever.
THEOREM ExpiryStaysPossible == ServerSpec => []ExpiryNeverConflicts
<1>1. Inv => ExpiryNeverConflicts
  <2> SUFFICES ASSUME Inv, NEW at \in tx, NEW h \in Expired(work, at),
                      NEW id \in RevId \ work.accepted, work.row[h].revision < MaxRevision
               PROVE  Accepts(work, TombstoneOf(work, h, id))
    BY DEF ExpiryNeverConflicts
  <2>1. at \in Nat
    BY RetentionAssumption DEF Inv, TypeOK, RetentionAssumption
  <2> QED
    BY <2>1, TombstoneAccepted DEF Inv
<1> QED
  BY Invariance, <1>1, PTL

-----------------------------------------------------------------------------
(* Incremental answers are complete: the server compares the number of      *)
(* retained changes after the client's cursor with the distance to its own, *)
(* and this notices every change that is missing.                           *)

\* The revisions whose cursors lie between two.
Numbered(d, low, high) ==
    {r \in d.accepted : low < d.cursorOf[r] /\ d.cursorOf[r] <= high}

\* Cursors are dense, so there are as many revisions as cursors.
LEMMA Counting ==
    ASSUME NEW d, IsDb(d), CursorsDense(d),
           NEW low \in Nat, NEW high \in Nat, low <= high, high <= d.cursor
    PROVE  /\ IsFiniteSet(Numbered(d, low, high))
           /\ Cardinality(Numbered(d, low, high)) = high - low
<1> DEFINE S == low + 1 .. high
           T == Numbered(d, low, high)
           f == [n \in S |-> CHOOSE r \in d.accepted : d.cursorOf[r] = n]
<1>1. \A r \in d.accepted : d.cursorOf[r] \in Nat
  BY DEF IsDb
<1>2. d.cursor \in Nat
  BY DEF IsDb
<1>3. ASSUME NEW n \in S
      PROVE  f[n] \in d.accepted /\ d.cursorOf[f[n]] = n
  <2>1. n \in 1 .. d.cursor
    BY <1>2
  <2>2. \E r \in d.accepted : d.cursorOf[r] = n
    BY <2>1 DEF CursorsDense
  <2> QED
    BY <2>2
<1>4. f \in [S -> T]
  <2>1. ASSUME NEW n \in S
        PROVE  f[n] \in T
    <3>1. low < n /\ n <= high
      OBVIOUS
    <3> QED
      BY <1>3, <3>1 DEF Numbered
  <2>2. f = [n \in S |-> f[n]]
    OBVIOUS
  <2> HIDE DEF f, S, T
  <2> QED
    BY <2>1, <2>2
<1>5. \A m, n \in S : f[m] = f[n] => m = n
  BY <1>3
<1>6. ASSUME NEW r \in T
      PROVE  \E n \in S : f[n] = r
  <2>1. r \in d.accepted /\ d.cursorOf[r] \in S
    BY <1>1 DEF Numbered
  <2>2. f[d.cursorOf[r]] \in d.accepted /\ d.cursorOf[f[d.cursorOf[r]]] = d.cursorOf[r]
    BY <1>3, <2>1
  <2> QED
    BY <2>1, <2>2 DEF CursorsDense
<1>7. f \in Bijection(S, T)
  <2> HIDE DEF f, S, T
  <2> QED
    BY <1>4, <1>5, <1>6, Fun_IsInj, Fun_IsSurj, Fun_IsBij
<1>8. IsFiniteSet(S) /\ Cardinality(S) = high - low
  <2>1. low + 1 \in Int /\ high \in Int
    OBVIOUS
  <2>2. /\ IsFiniteSet(S)
        /\ Cardinality(S) = IF low + 1 > high THEN 0 ELSE high - (low + 1) + 1
    BY <2>1, FS_Interval
  <2> HIDE DEF S
  <2> QED
    BY <2>2
<1> QED
  <2> HIDE DEF f, S
  <2>1. ExistsBijection(S, T)
    BY <1>7 DEF ExistsBijection
  <2> QED
    BY <2>1, <1>8, FS_Bijection

\* Where a page without a gap ends.
LastOf(d, c) == IF c + PageSize <= d.cursor THEN c + PageSize ELSE d.cursor

\* Counting the retained changes after a cursor tells whether any is missing.
LEMMA NothingMissing ==
    ASSUME NEW d, IsDb(d), CursorsDense(d), NEW c \in 0 .. d.cursor, ~HasGap(d, c)
    PROVE  Retained(d, c) = Numbered(d, c, d.cursor)
<1>1. d.cursor \in Nat /\ c \in Nat /\ c <= d.cursor
  BY DEF IsDb
<1>2. /\ IsFiniteSet(Numbered(d, c, d.cursor))
      /\ Cardinality(Numbered(d, c, d.cursor)) = d.cursor - c
  BY <1>1, Counting
<1>3. Retained(d, c) \subseteq Numbered(d, c, d.cursor)
  BY <1>1 DEF Retained, Numbered, IsDb, CursorsDense
<1>4. Cardinality(Retained(d, c)) = d.cursor - c
  BY DEF HasGap
<1> QED
  BY <1>2, <1>3, <1>4, FS_Subset

\* A page holds the changes that follow the cursor, up to where it ends.
LEMMA PageFollows ==
    ASSUME NEW d, IsDb(d), CursorsDense(d), NEW c \in 0 .. d.cursor, ~HasGap(d, c)
    PROVE  Page(d, c) = Numbered(d, c, LastOf(d, c))
<1>1. d.cursor \in Nat /\ c \in Nat /\ c <= d.cursor /\ PageSize \in Nat
  BY RetentionAssumption DEF IsDb, RetentionAssumption
<1>2. Retained(d, c) = Numbered(d, c, d.cursor)
  BY NothingMissing
<1>3. ASSUME NEW r \in Numbered(d, c, d.cursor)
      PROVE  Cardinality({q \in Numbered(d, c, d.cursor) : d.cursorOf[q] < d.cursorOf[r]})
                 = d.cursorOf[r] - 1 - c
  <2>1. d.cursorOf[r] \in Nat /\ c < d.cursorOf[r] /\ d.cursorOf[r] <= d.cursor
    BY DEF Numbered, IsDb
  <2>2. \A q \in d.accepted : d.cursorOf[q] \in Nat
    BY DEF IsDb
  <2>3. {q \in Numbered(d, c, d.cursor) : d.cursorOf[q] < d.cursorOf[r]}
            = Numbered(d, c, d.cursorOf[r] - 1)
    BY <1>1, <2>1, <2>2 DEF Numbered
  <2>4. Cardinality(Numbered(d, c, d.cursorOf[r] - 1)) = d.cursorOf[r] - 1 - c
    BY <1>1, <2>1, Counting
  <2> QED
    BY <2>3, <2>4
<1>4. Page(d, c) = {r \in Numbered(d, c, d.cursor) : d.cursorOf[r] - 1 - c < PageSize}
  BY <1>2, <1>3 DEF Page
<1>5. \A r \in d.accepted : d.cursorOf[r] \in Nat
  BY DEF IsDb
<1> QED
  BY <1>1, <1>4, <1>5 DEF Numbered, LastOf

\* The cursor answered is the one the page ends with.
LEMMA PageEndsThere ==
    ASSUME NEW d, IsDb(d), CursorsDense(d), NEW c \in 0 .. d.cursor, ~HasGap(d, c)
    PROVE  PageEnd(d, c) = LastOf(d, c)
<1> DEFINE last == LastOf(d, c)
           cursors == {d.cursorOf[r] : r \in Page(d, c)}
<1>1. /\ d.cursor \in Nat /\ c \in Nat /\ c <= d.cursor
      /\ PageSize \in Nat /\ PageSize > 0
  BY RetentionAssumption DEF IsDb, RetentionAssumption
<1>2. last \in Nat /\ c <= last /\ last <= d.cursor /\ (c = last => c = d.cursor)
  BY <1>1 DEF LastOf
<1>3. \A r \in d.accepted : d.cursorOf[r] \in Nat /\ d.cursorOf[r] <= d.cursor
  BY <1>1 DEF IsDb, CursorsDense
<1>4. Page(d, c) = Numbered(d, c, last)
  BY PageFollows
<1>5. CASE c = last
  <2>1. Page(d, c) = {}
    BY <1>1, <1>2, <1>3, <1>4, <1>5 DEF Numbered
  <2> QED
    BY <2>1, <1>5 DEF PageEnd
<1>6. CASE c # last
  <2>1. last \in 1 .. d.cursor
    BY <1>1, <1>2, <1>6
  <2>2. PICK r \in d.accepted : d.cursorOf[r] = last
    BY <2>1 DEF CursorsDense
  <2>3. r \in Page(d, c)
    BY <1>1, <1>2, <1>4, <1>6, <2>2 DEF Numbered
  <2>4. last \in cursors
    BY <2>2, <2>3
  <2>5. \A n \in cursors : n \in Nat /\ n <= last
    BY <1>3, <1>4 DEF Numbered
  <2>6. PageEnd(d, c) = CHOOSE n \in cursors : \A q \in Page(d, c) : d.cursorOf[q] <= n
    BY <2>3 DEF PageEnd
  <2>7. \A q \in Page(d, c) : d.cursorOf[q] <= last
    BY <2>5
  <2>8. \A n \in cursors : (\A q \in Page(d, c) : d.cursorOf[q] <= n) => n = last
    BY <1>2, <2>2, <2>3, <2>5
  <2>9. PageEnd(d, c) = last
    <3> HIDE DEF cursors, last
    <3> QED
      BY <2>4, <2>6, <2>7, <2>8
  <2> QED
    BY <2>9
<1> QED
  BY <1>5, <1>6

\* So an answer without a gap carries every change up to where it ends.
LEMMA AnswersComplete ==
    ASSUME NEW d, IsDb(d), CursorsDense(d)
    PROVE  IncrementalComplete(d)
<1> SUFFICES ASSUME NEW c \in 0 .. d.cursor, ~Answer(d, c).full
             PROVE  Answer(d, c).changes = Numbered(d, c, Answer(d, c).cursor)
  BY DEF IncrementalComplete, Numbered
<1>1. ~HasGap(d, c)
  BY DEF Answer
<1>2. Answer(d, c).changes = Page(d, c) /\ Answer(d, c).cursor = PageEnd(d, c)
  BY <1>1 DEF Answer
<1> QED
  BY <1>1, <1>2, PageFollows, PageEndsThere

\* An incremental answer brings every change between the cursor it is asked for
\* and the one it gives, whatever was pruned or scrubbed: a client that follows
\* its cursor misses nothing (DBStore.Sync: the comparison of counts, the LIMIT).
THEOREM AnswersStayComplete == ServerSpec => []IncrementalCompleteInv
<1>1. Inv => IncrementalCompleteInv
  BY AnswersComplete DEF Inv, Good, IncrementalCompleteInv, Both
<1> QED
  BY Invariance, <1>1, PTL

==============================================================================
