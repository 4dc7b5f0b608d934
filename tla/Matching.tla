------------------------------ MODULE Matching -------------------------------
(***************************************************************************)
(* The pure choices behind a scan and a series' covers: which candidate of *)
(* MangaDex or MAL is the manga asked for, and which prefixes of a         *)
(* commercial title are tried (common/sources/manga-matching.ts,           *)
(* title-ladder.ts, the choosers of mangadex.resolver.ts and               *)
(* mal.adapter.ts).                                                        *)
(*                                                                         *)
(* A similarity is a number of thousandths; the weights are scaled so that *)
(* every score is an integer. A set of authors is a set of name tokens.    *)
(***************************************************************************)
EXTENDS Search, Integers, Sequences

\* PIVOT_TITLE_STRONG and IDENTIFY_TITLE_FLOOR.
TitleStrong == 850
TitleFloor == 500

\* matchesAuthor: one common token is enough; nobody matches an unknown author.
MatchesAuthor(authors, names) == authors \cap names # {}

Flag(b) == IF b THEN 1 ELSE 0
AtLeastZero(n) == IF n < 0 THEN 0 ELSE n

\* The index a loop with "if better than the best" ends on: the first of the
\* best ones; 0 when no index qualifies.
FirstBest(score) ==
  IF DOMAIN score = {} THEN 0
  ELSE CHOOSE i \in DOMAIN score :
         \A j \in DOMAIN score : score[j] < score[i] \/ (score[j] = score[i] /\ i <= j)

-----------------------------------------------------------------------------
(* MangaDex: [title, exact, names, mal].                                   *)

\* A page of answers: no longer than asked for, similarities from 0 to 1.
MangaSearchLimit == 30
IsPage(cands) ==
  /\ \E n \in 0..MangaSearchLimit : DOMAIN cands = 1..n
  /\ \A i \in DOMAIN cands : cands[i].title \in 0..1000 /\ cands[i].exact \in BOOLEAN

\* Title 0.50, author 0.40, exact 0.10, minus 0.001 per rank (times 2000).
TitleScore(cands, authors, i) ==               \* mutant of IdentityScore
  AtLeastZero(cands[i].title + 200 * Flag(cands[i].exact) - 2 * (i - 1))
IdentityScore(cands, authors, i) ==
  AtLeastZero(cands[i].title + 800 * Flag(MatchesAuthor(authors, cands[i].names))
              + 200 * Flag(cands[i].exact) - 2 * (i - 1))

\* chooseIdentity: the best score, then the gate, which looks at the best only.
ChooseIdentity(cands, authors) ==
  LET b == FirstBest([i \in DOMAIN cands |-> IdentityScore(cands, authors, i)])
      byAuthor == MatchesAuthor(authors, cands[b].names)
  IN IF b = 0 \/ cands[b].title < (IF byAuthor THEN TitleFloor ELSE TitleStrong) THEN None
     ELSE [cand |-> b, byAuthor |-> byAuthor,
           ambiguous |-> \E j \in DOMAIN cands \ {b} : cands[j].title = cands[b].title]

\* chooseCoverCandidate: title 0.6, exact 0.2, a link to MAL 0.2 (times 5000);
\* the author is required.
CoverScoreUnlinked(cands, i) ==                \* mutant of CoverScore
  3 * cands[i].title + 1000 * Flag(cands[i].exact) - 5 * (i - 1)
CoverScore(cands, i) ==
  3 * cands[i].title + 1000 * Flag(cands[i].exact) + 1000 * Flag(cands[i].mal # None) - 5 * (i - 1)
ChooseCover(cands, authors) ==
  LET fit == {i \in DOMAIN cands : MatchesAuthor(authors, cands[i].names)
                                   /\ cands[i].title >= TitleFloor}
  IN FirstBest([i \in fit |-> CoverScore(cands, i)])

\* findManga: a known id, else the candidate linked to the malId, else the
\* author's.
FindManga(cands, mangaId, malId, authors) ==
  IF mangaId # None THEN mangaId
  ELSE LET linked == {i \in DOMAIN cands : cands[i].mal = malId}
           i == IF malId # None THEN FirstBest([j \in linked |-> -j]) ELSE ChooseCover(cands, authors)
       IN IF i = 0 THEN None ELSE cands[i].id

-----------------------------------------------------------------------------
(* MAL: [title, names, manga].                                             *)

\* choosePivotCandidate: title 0.45, author 0.40, type 0.15 (times 20000).
ChoosePivot(cands, authors, requireAuthor) ==
  LET byAuthor(i) == MatchesAuthor(authors, cands[i].names)
      Score(i) == AtLeastZero(9 * cands[i].title + 8000 * Flag(byAuthor(i))
                              + 3000 * Flag(cands[i].manga) - 20 * (i - 1))
      b == FirstBest([i \in DOMAIN cands |-> Score(i)])
  IN IF \/ b = 0
        \/ requireAuthor /\ ~byAuthor(b)
        \/ ~requireAuthor /\ ~byAuthor(b) /\ ~(cands[b].manga /\ cands[b].title >= TitleStrong)
     THEN 0 ELSE b

-----------------------------------------------------------------------------
(* The ladder of a title: a sequence of tokens [from, to, int, edge], the  *)
(* first and last position of the token in the title (one blank between    *)
(* two), its last integer or None, whether it is punctuation only.         *)
Token == [from : Nat, to : Nat, int : Nat \cup {None}, edge : BOOLEAN]

MaxCut == 6
MinPrefixLength == 4

\* trimEdges of the first k tokens: they end on the last that is not an edge.
Words(title, k) == {i \in 1..k : ~title[i].edge}
LastToken(title, k)  == FirstBest([i \in Words(title, k) |-> i])
FirstToken(title, k) == FirstBest([i \in Words(title, k) |-> -i])

\* The last integer of what a cut takes off.
TailVolume(title, cut) ==
  LET numbers == {j \in (Len(title) - cut + 1)..Len(title) : title[j].int # None}
      i == FirstBest([j \in numbers |-> j])
  IN IF i = 0 THEN None ELSE title[i].int

PrefixOf(title, cut) == LastToken(title, Len(title) - cut)

Admissible(title, cut) ==
  LET b == PrefixOf(title, cut) IN
  /\ b # 0
  /\ cut > 0 => /\ TailVolume(title, cut) # None
                /\ title[b].to - title[FirstToken(title, b)].from + 1 >= MinPrefixLength

\* titleLadder: the cuts tried, the whole title first; of two cuts that leave
\* the same prefix the smaller is kept.
Rungs(title) ==
  {c \in 0..MaxCut : /\ c < Len(title) /\ Admissible(title, c)
                     /\ \A d \in 0..(c - 1) : Admissible(title, d) => PrefixOf(title, d) # PrefixOf(title, c)}
=============================================================================
