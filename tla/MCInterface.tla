----------------------------- MODULE MCInterface -----------------------------
(***************************************************************************)
(* Model checking of Interface: what the user sets out to do.              *)
(***************************************************************************)
EXTENDS Interface

CONSTANTS s1, s2

Rev(id, item, kind, parents, folder, state) ==
    [id |-> id, item |-> item, kind |-> kind, parents |-> parents, text |-> 1,
     folder |-> folder, favorite |-> FALSE, past |-> FALSE, state |-> state]

\* Without a server nobody else does anything (-1).
Errand(cache, keys, more, fail, do, file) ==
    [cache |-> cache, keys |-> keys, online |-> do >= 0, others |-> IF do < 0 THEN 0 ELSE do,
     file |-> file, revisions |-> Cardinality(cache) + more, failures |-> fail]

Login(id, item, folder) == Rev(id, item, "login", {}, folder, "live")
Binned(id, item)        == Rev(id, item, "login", {}, 0, "trashed")
Folder(id, item)        == Rev(id, item, "folder", {}, 0, "live")

\* The trash is emptied while another device fills it.
Discarding ==
    Errand({Login(1, 1, 0), Binned(2, 2)}, {"t", "x", "j"}, 2, 0, 1, <<>>)

\* Or while something is restored from it.
Restoring ==
    Errand({Login(1, 1, 0), Binned(2, 2)}, {"t", "x", "j", "r"}, 1, 0, 1, <<>>)

\* A folder with two items is removed.
Removing ==
    Errand({Login(1, 1, 3), Rev(2, 2, "note", {}, 3, "live"), Folder(3, 3)},
           {"o", "d"}, 4, 1, 1, <<>>)

\* An item is made, and another is organized meanwhile.
Creating ==
    Errand({Login(1, 1, 0)}, {"c", "enter", "f", "esc", "v"}, 3, 1, -1, <<>>)

\* Notes and folders are made, renamed and filled.
Filing ==
    Errand({Login(1, 1, 2), Folder(2, 2)}, {"n", "c", "o", "e", "enter", "j", "esc", "k"},
           2, 0, -1, <<>>)

\* An item and a folder are in conflict.
Reconciling ==
    Errand({Login(1, 1, 0), Rev(2, 1, "login", {1}, 0, "live"),
            Rev(3, 1, "login", {1}, 4, "live"),
            Folder(4, 4), Rev(5, 4, "folder", {4}, 0, "live"),
            Rev(6, 4, "folder", {4}, 0, "live")},
           {"enter", "j", "k", "m", "o", "esc"}, 2, 0, -1, <<>>)

\* One-time codes and the password history.
Securing ==
    Errand({[Login(1, 1, 0) EXCEPT !.past = TRUE]}, {"enter", "t", "h", "x", "esc", "b", "d"},
           2, 0, -1, <<>>)

Generating == Errand({}, {"g", "b", "enter", "esc"}, 0, 0, -1, <<>>)

Importing ==
    Errand({}, {"i", "enter", "y", "esc"}, 4, 1, -1,
           <<Folder(0, 0), Login(0, 0, 0)>>)

\* Filters over a list that changes, of an item of each sort that can be imported;
\* the history of one is open when another takes its place.
Browsing ==
    Errand({Login(1, 1, 3), Rev(2, 2, "generic", {}, 0, "live"), Folder(3, 3)},
           {"o", "a", "u", "enter", "f", "/", "j", "v", "esc", "h"}, 1, 0, 1, <<>>)

Watching == Errand({Login(1, 1, 0)}, {"y", "r", "q"}, 1, 1, 1, <<>>)

Everything == {Discarding, Restoring, Removing, Creating, Filing, Reconciling, Securing,
               Generating, Importing, Browsing, Watching}
\* Folders that another device deletes and adds.
Cursory == {Errand({Folder(1, 1), Folder(2, 2)}, {"o", "d"}, 1, 0, 1, <<>>)}

=============================================================================
