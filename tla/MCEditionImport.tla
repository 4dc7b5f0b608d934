--------------------------- MODULE MCEditionImport ---------------------------
(***************************************************************************)
(* EditionImport on a small instance for TLC.                              *)
(***************************************************************************)
EXTENDS EditionImport

CONSTANTS std, art, i1, mal, title, a, b

\* Two pages; the first volume of the standard edition is catalogued twice.
Volume(e, n, i) == [edition |-> e, volume |-> n, isbn |-> i]
MCCatalogue == << <<Volume(std, 1, i1), Volume(art, 1, i1)>>,
                  <<Volume(std, 1, None), Volume(std, 2, None)>> >>

\* One edition is imported in a behaviour, and the series is cached under one
\* of its keys at a time: the other only matters to who reads it. The second client
\* races with the first for the art edition's job, with the same clue, while nothing
\* crashes and the pages are what they should be.
OneEdition ==
  /\ \E e \in Editions : \A f \in Editions \ {e} :
       job[f] = None /\ \A c \in Clients : client[c].pc # "idle" => client[c].edition # f
  /\ series[mal] = None \/ series[title] = None
  /\ client[b].pc # "idle" => /\ client[b].edition = art /\ crashes = 0
                             /\ client[b].clue = mal /\ client[a].clue = mal
                             /\ \A p \in PageNumbers : page[p] # "junk"
=============================================================================
