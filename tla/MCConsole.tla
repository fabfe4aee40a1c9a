----------------------------- MODULE MCConsole -----------------------------
(* Two pages of accounts, two projects.  The accounts of the first page    *)
(* are alike, and so are cells, tabs, components and texts: no page tells  *)
(* one from another, nor picks one.                                        *)
EXTENDS Console, TLC

CONSTANTS first, dev1, dev2, p1, p2, x, y, v1, v2, web, api, t1, t2

AccountPages == <<{dev1, dev2}, {first}>>

Moves(f) == \E m \in DOMAIN f : f[m] # m

\* All pairs are swapped, or none: a page has hardly more than one of them.
Swaps == {f \in Permutations({dev1, dev2}) \X Permutations({x, y}) \X Permutations({v1, v2})
                  \X Permutations({web, api}) \X Permutations({t1, t2}) :
            \A i \in 2 .. 5 : Moves(f[i]) = Moves(f[1])}

Alike == {f[1] @@ f[2] @@ f[3] @@ f[4] @@ f[5] : f \in Swaps}

ListedProjects == <<p1, p2>>

\* Two incidents reach past what a visitor is shown, two announcements or keys past
\* what their page lists.
ListLimits == [status |-> 2, announcements |-> 1, keys |-> 1, visitor |-> 1]
=============================================================================
