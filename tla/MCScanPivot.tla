----------------------------- MODULE MCScanPivot -----------------------------
(***************************************************************************)
(* ScanPivot on small instances for TLC.                                   *)
(***************************************************************************)
EXTENDS ScanPivot, TLC

CONSTANTS x, y, q1, q2, t1, ann, ben, m1, m2

\* "Frieren 2 . 5": "Frieren" is the query q1, every longer prefix is q2.
Word(from, to, int, edge) == [from |-> from, to |-> to, int |-> int, edge |-> edge]
MCTitleOf == [t \in Titles |-> <<Word(1, 7, None, FALSE), Word(9, 9, 2, FALSE),
                                 Word(11, 11, None, TRUE), Word(13, 13, 5, FALSE)>>]
MCQueryOf == [t \in Titles |-> [k \in 1..4 |-> IF k = 1 THEN q1 ELSE q2]]

MCNotices == {None,
              [original |-> q1, series |-> FALSE, title |-> None, authors |-> {ann}],
              [original |-> None, series |-> TRUE, title |-> q1, authors |-> {ben}]}
MCInfos == {[title |-> t1, authors |-> {}]}

\* Nobody; two works of one title; a work of another title by ben.
Work1(title, exact, name) == [title |-> title, exact |-> exact, names |-> {name}, mal |-> None]
MCLists == {<<>>, <<Work1(1000, TRUE, ann), Work1(1000, FALSE, ben)>>, <<Work1(600, FALSE, ben)>>}
\* Taken for the second notice, whose author it bears, refused for the first.
MCMalLists == {<<[title |-> 600, names |-> {ben}, manga |-> TRUE]>>}

\* A variant, then a work: near or exact titles, by ann or ben, linked to MAL or not.
Shelf(links) == {[id |-> None, title |-> t.title, exact |-> t.exact, names |-> {n}, mal |-> l] :
                   t \in {[title |-> 900, exact |-> FALSE], [title |-> 1000, exact |-> TRUE]},
                   n \in {ann, ben}, l \in links}
MCCoverLists == {<<[v EXCEPT !.id = m1], [w EXCEPT !.id = m2]>> :
                   v \in Shelf({None}), w \in Shelf({None, m1})}

Symmetry == Permutations(Requests)
=============================================================================
