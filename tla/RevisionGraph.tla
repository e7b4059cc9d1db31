---------------------------- MODULE RevisionGraph ----------------------------
(***************************************************************************)
(* What an encrypted vault promises about the history of its items, with   *)
(* no account of how: a graph of immutable revisions that only grows, and  *)
(* the set of revisions whose content can still be read.  Content is lost  *)
(* to one thing only, a tombstone of its item.                             *)
(***************************************************************************)
EXTENDS FiniteSets, Naturals

VARIABLES
    graph,    \* the revisions accepted so far
    readable  \* those whose encrypted content is still kept

vars == <<graph, readable>>

New == graph' \ graph

\* A new tombstone of its item takes the content of an older revision.
Doomed(r) == \E t \in New : t.purged /\ t.item = r.item

\* The current versions of every item: nothing descends from them.
Leaves(revisions) ==
    {r \in revisions : \A q \in revisions : r.id \notin q.parents}

Init == graph = {} /\ readable = {}

\* Every new revision descends from earlier revisions of its own item.
GrowsByDescent ==
    /\ graph \subseteq graph'
    /\ \A r \in New : \A q \in graph' : q.id = r.id => q = r
    /\ \A r \in New : \A p \in r.parents :
          \E q \in graph' :
              q.id = p /\ q.item = r.item /\ q.revision < r.revision

\* Content is neither lost nor kept but by a tombstone, and whatever happens
\* every current version keeps its own.
ForgetsByTombstone ==
    /\ readable' \subseteq readable \cup New
    /\ \A r \in (readable \cup New) \ readable' :
          r.purged \/ Doomed(r)
    /\ \A r \in readable' :
          ~r.purged /\ (r \in New \/ ~Doomed(r))
    /\ \A r \in Leaves(graph') : r.purged <=> r \notin readable'

Next == GrowsByDescent /\ ForgetsByTombstone

Spec == Init /\ [][Next]_vars
=============================================================================
