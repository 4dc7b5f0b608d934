---------------------------- MODULE SearchProofs ----------------------------
(***************************************************************************)
(* Theorems about the searches of src/search: ScanPivot and the choices of *)
(* Matching, for any number of scans, ISBNs and titles, whatever the       *)
(* sources hold; then EditionImport, for any catalogue, pool and number of *)
(* editions, clients and crashes.                                          *)
(***************************************************************************)
EXTENDS ScanPivot, EditionImport, FiniteSetTheorems, WellFoundedInduction, TLAPS

-----------------------------------------------------------------------------
(* The best of some candidates.                                            *)

\* i is worse than j: less, or as good and later.
Beats(score, j, i) == score[j] > score[i] \/ (score[j] = score[i] /\ j < i)

\* Among finitely many there is one none beats: the least set of those that
\* beat a candidate is empty.
LEMMA BestExists ==
  ASSUME NEW D, D \subseteq Nat, IsFiniteSet(D), D # {}, NEW score \in [D -> Int]
  PROVE  \E i \in D : \A j \in D : ~Beats(score, j, i)
<1> DEFINE Betters(i) == {j \in D : Beats(score, j, i)}
           R == StrictSubsetOrdering(D)
           B == {Betters(i) : i \in D}
<1>1. IsWellFoundedOn(R, SUBSET D)
  BY FS_StrictSubsetOrderingWellFounded, FS_FiniteSubsetsOfFinite
<1>2. \A T, U \in SUBSET D : U \subseteq T /\ U # T => <<U, T>> \in R
  BY DEF StrictSubsetOrdering
<1>3. B \subseteq SUBSET D /\ B # {}
  OBVIOUS
<1> HIDE DEF R
<1>4. PICK T \in B : \A U \in B : ~(<<U, T>> \in R)
  <2> HIDE DEF B
  <2> QED BY <1>1, <1>3, WFMin
<1>5. PICK i \in D : T = Betters(i)
  OBVIOUS
<1>6. ASSUME NEW j \in D, Beats(score, j, i) PROVE FALSE
  <2>1. \A k \in D : Beats(score, k, j) => Beats(score, k, i)
    BY <1>6 DEF Beats
  <2>2. ~Beats(score, j, j)
    BY DEF Beats
  <2>3. Betters(j) \subseteq T /\ Betters(j) # T
    BY <1>5, <1>6, <2>1, <2>2
  <2>4. Betters(j) \in B /\ Betters(j) \in SUBSET D /\ T \in SUBSET D
    BY <1>3, <1>4
  <2> HIDE DEF B, Betters
  <2> QED BY <1>2, <1>4, <2>3, <2>4
<1> QED BY <1>6

\* What the loop "if better than the best" ends on.
LEMMA FirstBestIsBest ==
  ASSUME NEW D, D \subseteq Nat, IsFiniteSet(D), NEW score \in [D -> Int]
  PROVE  /\ D = {} => FirstBest(score) = 0
         /\ D # {} => FirstBest(score) \in D /\ \A j \in D : ~Beats(score, j, FirstBest(score))
<1>1. CASE D = {}
  BY <1>1 DEF FirstBest
<1>2. CASE D # {}
  <2>1. \A i, j \in D : ~Beats(score, j, i) <=>
                          score[j] < score[i] \/ (score[j] = score[i] /\ i <= j)
    BY DEF Beats
  <2>2. \E i \in DOMAIN score :
          \A j \in DOMAIN score : score[j] < score[i] \/ (score[j] = score[i] /\ i <= j)
    BY <1>2, <2>1, BestExists
  <2>3. FirstBest(score) \in D /\ \A j \in D : \/ score[j] < score[FirstBest(score)]
                                               \/ score[j] = score[FirstBest(score)] /\ FirstBest(score) <= j
    BY <1>2, <2>2 DEF FirstBest
  <2> QED BY <1>2, <2>1, <2>3
<1> QED BY <1>1, <1>2

LEMMA LeastExists ==
  ASSUME NEW D, D \subseteq Nat, IsFiniteSet(D), D # {}
  PROVE  \E i \in D : \A j \in D : i <= j
<1> DEFINE score == [j \in D |-> 0]
<1>1. score \in [D -> Int]
  OBVIOUS
<1>2. PICK i \in D : \A j \in D : ~Beats(score, j, i)
  <2> HIDE DEF score
  <2> QED BY <1>1, BestExists
<1>3. \A j \in D : i <= j
  BY <1>2 DEF Beats
<1> QED BY <1>3

-----------------------------------------------------------------------------
(* Choosing among MangaDex's candidates.                                   *)

LEMMA PageDomain ==
  ASSUME NEW cands, IsPage(cands)
  PROVE  /\ DOMAIN cands \subseteq 1..30 /\ DOMAIN cands \subseteq Nat
         /\ IsFiniteSet(DOMAIN cands)
<1>1. PICK n \in 0..30 : DOMAIN cands = 1..n
  BY DEF IsPage, MangaSearchLimit
<1>2. IsFiniteSet(1..n)
  BY FS_Interval
<1>3. 1..n \subseteq 1..30
  OBVIOUS
<1> QED BY <1>1, <1>2, <1>3

LEMMA PageMember ==
  ASSUME NEW cands, IsPage(cands), NEW i \in DOMAIN cands
  PROVE  /\ cands[i].title \in 0..1000 /\ cands[i].title \in Nat
         /\ cands[i].exact \in BOOLEAN
         /\ i \in 1..30 /\ i \in Nat
<1>1. cands[i].title \in 0..1000 /\ cands[i].exact \in BOOLEAN
  BY DEF IsPage
<1>2. i \in 1..30
  BY PageDomain
<1> QED BY SMTT(30), <1>1, <1>2

LEMMA IdentityScoreIsNat ==
  ASSUME NEW cands, IsPage(cands), NEW authors, NEW i \in DOMAIN cands
  PROVE  IdentityScore(cands, authors, i) \in Nat
<1>1. cands[i].title \in Nat /\ i \in Nat
  BY PageMember
<1> QED BY <1>1 DEF IdentityScore, AtLeastZero, Flag

\* The candidate chosen is the best, and passes the gate.
LEMMA ChosenIdentity ==
  ASSUME NEW cands, IsPage(cands), NEW authors, ChooseIdentity(cands, authors) # None
  PROVE  \E b \in DOMAIN cands :
           /\ ChooseIdentity(cands, authors) =
                [cand |-> b, byAuthor |-> MatchesAuthor(authors, cands[b].names),
                 ambiguous |-> \E j \in DOMAIN cands \ {b} : cands[j].title = cands[b].title]
           /\ ~MatchesAuthor(authors, cands[b].names) => cands[b].title >= TitleStrong
           /\ \A j \in DOMAIN cands :
                IdentityScore(cands, authors, j) <= IdentityScore(cands, authors, b)
<1> DEFINE score == [i \in DOMAIN cands |-> IdentityScore(cands, authors, i)]
           b == FirstBest(score)
<1>1. score \in [DOMAIN cands -> Int]
  BY IdentityScoreIsNat
<1>2. /\ DOMAIN cands = {} => b = 0
      /\ DOMAIN cands # {} => b \in DOMAIN cands /\ \A j \in DOMAIN cands : ~Beats(score, j, b)
  <2> HIDE DEF score
  <2> QED BY <1>1, PageDomain, FirstBestIsBest
<1>3. b # 0
  BY DEF ChooseIdentity
<1>4. b \in DOMAIN cands /\ \A j \in DOMAIN cands : ~Beats(score, j, b)
  BY <1>2, <1>3
<1>5. \A j \in DOMAIN cands : score[j] <= score[b]
  <2> HIDE DEF b, score
  <2> QED BY <1>1, <1>4 DEF Beats
<1>6. \A j \in DOMAIN cands : IdentityScore(cands, authors, j) <= IdentityScore(cands, authors, b)
  BY <1>4, <1>5
<1>7. /\ ChooseIdentity(cands, authors) =
           [cand |-> b, byAuthor |-> MatchesAuthor(authors, cands[b].names),
            ambiguous |-> \E j \in DOMAIN cands \ {b} : cands[j].title = cands[b].title]
      /\ ~(cands[b].title < (IF MatchesAuthor(authors, cands[b].names)
                             THEN TitleFloor ELSE TitleStrong))
  BY DEF ChooseIdentity
<1>8. cands[b].title \in Int
  BY <1>4, PageMember
<1>9. ASSUME ~MatchesAuthor(authors, cands[b].names) PROVE cands[b].title >= TitleStrong
  <2>1. ~(cands[b].title < TitleStrong)
    BY <1>7, <1>9
  <2> HIDE DEF b
  <2> QED BY <2>1, <1>8 DEF TitleStrong
<1> HIDE DEF b
<1> QED BY <1>4, <1>6, <1>7, <1>9

LEMMA IdentityIsTyped ==
  ASSUME NEW cands, IsPage(cands), NEW authors
  PROVE  ChooseIdentity(cands, authors) \in Identity \cup {None}
<1> SUFFICES ASSUME ChooseIdentity(cands, authors) # None
             PROVE  ChooseIdentity(cands, authors) \in Identity
  OBVIOUS
<1>1. PICK b \in DOMAIN cands :
        ChooseIdentity(cands, authors) =
                [cand |-> b, byAuthor |-> MatchesAuthor(authors, cands[b].names),
                 ambiguous |-> \E j \in DOMAIN cands \ {b} : cands[j].title = cands[b].title]
  BY ChosenIdentity
<1>2. b \in Nat
  BY PageDomain
<1>3. MatchesAuthor(authors, cands[b].names) \in BOOLEAN
  BY DEF MatchesAuthor
<1> QED BY <1>1, <1>2, <1>3 DEF Identity

\* Of candidates that tie on the title the author's wins: his weight is more
\* than an exact match and the ranks of a page together.
LEMMA AuthorBreaksTies ==
  ASSUME NEW cands, IsPage(cands), NEW authors,
         NEW id, id = ChooseIdentity(cands, authors), id # None,
         NEW j \in DOMAIN cands, cands[j].title = cands[id.cand].title,
         MatchesAuthor(authors, cands[j].names)
  PROVE  MatchesAuthor(authors, cands[id.cand].names)
<1>1. PICK b \in DOMAIN cands :
        /\ id = [cand |-> b, byAuthor |-> MatchesAuthor(authors, cands[b].names),
                 ambiguous |-> \E k \in DOMAIN cands \ {b} : cands[k].title = cands[b].title]
        /\ ~MatchesAuthor(authors, cands[b].names) => cands[b].title >= TitleStrong
        /\ \A k \in DOMAIN cands :
             IdentityScore(cands, authors, k) <= IdentityScore(cands, authors, b)
  BY ChosenIdentity
<1>2. id.cand = b
  BY <1>1
<1> SUFFICES ASSUME ~MatchesAuthor(authors, cands[b].names) PROVE FALSE
  BY <1>2
<1>3. cands[b].title \in 850..1000 /\ b \in 1..30 /\ j \in 1..30
  <2>1. cands[b].title \in 0..1000 /\ b \in 1..30 /\ j \in 1..30
    BY PageMember
  <2>2. cands[b].title >= 850
    BY <1>1 DEF TitleStrong
  <2> QED BY <2>1, <2>2, SMTT(30)
<1>4. IdentityScore(cands, authors, b) <= cands[b].title + 200
  BY <1>3, SMTT(30) DEF IdentityScore, AtLeastZero, Flag
<1>5. IdentityScore(cands, authors, j) >= cands[b].title + 800 - 58
  <2>1. cands[j].title = cands[b].title
    BY <1>2
  <2>2. IdentityScore(cands, authors, j) =
          AtLeastZero(cands[b].title + 800 + 200 * Flag(cands[j].exact) - 2 * (j - 1))
    BY <2>1, <1>3 DEF IdentityScore, Flag
  <2>3. ASSUME NEW t \in 850..1000, NEW f \in 0..1, NEW k \in 1..30
        PROVE  AtLeastZero(t + 800 + 200 * f - 2 * (k - 1)) >= t + 800 - 58
    <3>1. t + 800 + 200 * f - 2 * (k - 1) >= t + 800 - 58
      OBVIOUS
    <3>2. t + 800 + 200 * f - 2 * (k - 1) >= 0 /\ t + 800 + 200 * f - 2 * (k - 1) \in Int
      OBVIOUS
    <3> QED BY <3>1, <3>2 DEF AtLeastZero
  <2>4. Flag(cands[j].exact) \in 0..1
    BY DEF Flag
  <2>5. AtLeastZero(cands[b].title + 800 + 200 * Flag(cands[j].exact) - 2 * (j - 1))
          >= cands[b].title + 800 - 58
    BY <1>3, <2>3, <2>4, SMTT(30)
  <2> QED BY <2>2, <2>5
<1>6. /\ IdentityScore(cands, authors, b) \in Nat /\ IdentityScore(cands, authors, j) \in Nat
      /\ IdentityScore(cands, authors, j) <= IdentityScore(cands, authors, b)
  BY <1>1, IdentityScoreIsNat
<1> QED BY <1>3, <1>4, <1>5, <1>6

-----------------------------------------------------------------------------
(* Choosing whose covers to take.                                          *)

LEMMA CoverScoreIsInt ==
  ASSUME NEW cands, IsPage(cands), NEW i \in DOMAIN cands
  PROVE  CoverScore(cands, i) \in Int
<1>1. cands[i].title \in Int /\ i \in Int
  BY PageMember
<1> QED BY <1>1 DEF CoverScore, Flag

\* The cover chosen is of a candidate by an author, which no other beats.
LEMMA ChosenCover ==
  ASSUME NEW cands, IsPage(cands), NEW authors, ChooseCover(cands, authors) # 0
  PROVE  LET i == ChooseCover(cands, authors) IN
         /\ i \in DOMAIN cands /\ MatchesAuthor(authors, cands[i].names)
         /\ cands[i].title >= TitleFloor
         /\ \A j \in DOMAIN cands :
              MatchesAuthor(authors, cands[j].names) /\ cands[j].title >= TitleFloor =>
                CoverScore(cands, j) <= CoverScore(cands, i)
<1> DEFINE fit == {k \in DOMAIN cands : MatchesAuthor(authors, cands[k].names)
                                        /\ cands[k].title >= TitleFloor}
           score == [k \in fit |-> CoverScore(cands, k)]
           i == FirstBest(score)
<1>1. ChooseCover(cands, authors) = i
  BY DEF ChooseCover
<1>2. score \in [fit -> Int]
  BY CoverScoreIsInt
<1>3. fit \subseteq Nat /\ IsFiniteSet(fit)
  BY PageDomain, FS_Subset
<1>4. /\ fit = {} => i = 0
      /\ fit # {} => i \in fit /\ \A j \in fit : ~Beats(score, j, i)
  <2> HIDE DEF score, fit
  <2> QED BY <1>2, <1>3, FirstBestIsBest
<1>5. i \in fit /\ \A j \in fit : ~Beats(score, j, i)
  BY <1>1, <1>4
<1>6. \A j \in fit : score[j] <= score[i]
  <2> HIDE DEF score, fit, i
  <2> QED BY <1>2, <1>5 DEF Beats
<1>7. \A j \in fit : CoverScore(cands, j) <= CoverScore(cands, i)
  BY <1>5, <1>6
<1> HIDE DEF i
<1> QED BY <1>1, <1>5, <1>7

\* A link to MAL weighs more than the ranks of a page.
LEMMA LinkedWorkWins ==
  ASSUME NEW cands, IsPage(cands), NEW authors, NEW i, i = ChooseCover(cands, authors), i # 0,
         cands[i].mal = None, NEW j \in DOMAIN cands, cands[j].mal # None,
         MatchesAuthor(authors, cands[j].names),
         cands[j].title = cands[i].title, cands[j].exact = cands[i].exact
  PROVE  FALSE
<1>1. /\ i \in DOMAIN cands /\ cands[i].title >= TitleFloor
      /\ \A k \in DOMAIN cands :
           MatchesAuthor(authors, cands[k].names) /\ cands[k].title >= TitleFloor =>
             CoverScore(cands, k) <= CoverScore(cands, i)
  BY ChosenCover
<1>2. CoverScore(cands, j) <= CoverScore(cands, i)
  BY <1>1
<1>3. cands[i].title \in Int /\ i \in 1..30 /\ j \in 1..30
  BY <1>1, PageMember
<1> DEFINE common == 3 * cands[i].title + 1000 * Flag(cands[i].exact)
<1>4. common \in Int
  BY <1>3 DEF Flag
<1>5. CoverScore(cands, i) = common - 5 * (i - 1)
  BY <1>3 DEF CoverScore, Flag
<1>6. CoverScore(cands, j) = common + 1000 - 5 * (j - 1)
  BY <1>3 DEF CoverScore, Flag
<1> HIDE DEF common
<1> QED BY <1>2, <1>3, <1>4, <1>5, <1>6

-----------------------------------------------------------------------------
(* The ladder of a title.                                                  *)

LEMMA RungsAreCuts ==
  ASSUME NEW title \in Seq(Token)
  PROVE  /\ Rungs(title) \subseteq Nat /\ IsFiniteSet(Rungs(title))
         /\ \A c \in Rungs(title) : c \in 0..6 /\ c < Len(title) /\ Admissible(title, c)
<1>1. Rungs(title) \subseteq 0..6 /\ Rungs(title) \subseteq 0..Len(title) /\ Len(title) \in Nat
  BY DEF Rungs, MaxCut
<1>2. IsFiniteSet(0..Len(title))
  BY <1>1, FS_Interval
<1>3. IsFiniteSet(Rungs(title))
  BY <1>1, <1>2, FS_Subset
<1>4. \A c \in Rungs(title) : c < Len(title) /\ Admissible(title, c)
  BY DEF Rungs
<1> QED BY <1>1, <1>3, <1>4

\* A rung's prefix is one of the title's.
LEMMA PrefixInTitle ==
  ASSUME NEW title \in Seq(Token), NEW c \in Rungs(title)
  PROVE  PrefixOf(title, c) \in DOMAIN title
<1> DEFINE W == Words(title, Len(title) - c)
           score == [i \in W |-> i]
<1>1. Len(title) - c \in 1..Len(title)
  <2>1. c \in 0..6 /\ c < Len(title) /\ Len(title) \in Nat
    BY RungsAreCuts
  <2> QED BY <2>1
<1>2. W \subseteq 1..Len(title)
  BY <1>1 DEF Words
<1>3. W \subseteq Nat /\ IsFiniteSet(W)
  <2>0. Len(title) \in Nat
    OBVIOUS
  <2>1. IsFiniteSet(1..Len(title))
    BY <2>0, FS_Interval
  <2> QED BY <1>2, <2>1, FS_Subset
<1>4. PrefixOf(title, c) = FirstBest(score) /\ FirstBest(score) # 0
  BY RungsAreCuts DEF Admissible, PrefixOf, LastToken
<1>5. score \in [W -> Int]
  BY <1>3
<1>6. FirstBest(score) \in W
  <2> HIDE DEF score, W
  <2> QED BY <1>3, <1>4, <1>5, FirstBestIsBest
<1> QED BY <1>2, <1>4, <1>6

LEMMA TailVolumeIsTyped ==
  ASSUME NEW title \in Seq(Token), NEW c \in Rungs(title)
  PROVE  TailVolume(title, c) \in Nat \cup {None}
<1> DEFINE N == {j \in (Len(title) - c + 1)..Len(title) : title[j].int # None}
           score == [j \in N |-> j]
           i == FirstBest(score)
<1>1. Len(title) \in Nat /\ Len(title) - c + 1 \in 1..(Len(title) + 1)
  <2>1. c \in 0..6 /\ c < Len(title) /\ Len(title) \in Nat
    BY RungsAreCuts
  <2> QED BY <2>1
<1>2. N \subseteq 1..Len(title)
  BY <1>1
<1>3. N \subseteq Nat /\ IsFiniteSet(N)
  <2>1. IsFiniteSet(1..Len(title))
    BY <1>1, FS_Interval
  <2>2. N \in SUBSET (1..Len(title)) /\ N \subseteq Nat
    BY <1>1, <1>2
  <2> HIDE DEF N
  <2> QED BY <2>1, <2>2, FS_Subset
<1>4. score \in [N -> Int]
  BY <1>3
<1>5. i = 0 \/ i \in N
  <2> HIDE DEF score, N
  <2> QED BY <1>3, <1>4, FirstBestIsBest
<1>6. \A j \in N : title[j].int \in Nat \cup {None}
  <2>1. \A j \in 1..Len(title) : title[j] \in Token
    OBVIOUS
  <2> QED BY <1>2, <2>1 DEF Token
<1>7. TailVolume(title, c) = IF i = 0 THEN None ELSE title[i].int
  BY DEF TailVolume
<1> HIDE DEF i, N
<1> QED BY <1>5, <1>6, <1>7

-----------------------------------------------------------------------------
(* The inductive invariant.                                                *)

\* The sources hold what they were given, for good.
World ==
  /\ notice \in [Isbns -> Notices] /\ info \in [Isbns -> Infos]
  /\ list \in [Queries -> Lists]

\* A notice with a title to search with.
Searchable(i) == notice[i] # None /\ Query(notice[i]) # None

\* Where a scan stands says what the sources hold of its ISBN.
Fits(w) ==
  /\ w.step = "google" => notice[w.isbn] = None
  /\ w.step = "climb" => notice[w.isbn] = None /\ info[w.isbn] # None
  /\ w.step \in {"identify", "token", "mal"} => Searchable(w.isbn)
  /\ w.step = "done" =>
       /\ w.path \in {"gbooks+mangadex", "gbooks_only"} => notice[w.isbn] = None
       /\ w.path = "gbooks+mangadex" => (w.identity.ambiguous => w.identity.byAuthor)
       /\ w.path = "nothing" => notice[w.isbn] = None \/ ~Shown(notice[w.isbn])
ScansFit == \A r \in Requests : Fits(req[r])

\* An identity cached is the one found with the authors noted beside it.
IdentitiesFound ==
  \A q \in Queries : identified[q] # None =>
    identified[q].identity \in {None, ChooseIdentity(list[q], identified[q].authors)}

Inv == TypeOK /\ World /\ ScansFit /\ IdentitiesFound

LEMMA WorldIsTyped ==
  ASSUME World
  PROVE  /\ notice \in [Isbns -> Notice \cup {None}] /\ info \in [Isbns -> Info \cup {None}]
         /\ \A q \in Queries : IsPage(list[q])
BY SourcesAssumption DEF World

LEMMA InitInv == Init => Inv
<1> SUFFICES ASSUME Init PROVE Inv
  OBVIOUS
<1>1. World
  BY DEF Init, World
<1>2. PICK i \in Isbns :
        req = [r \in Requests |-> [step |-> "idle", isbn |-> i, cut |-> 0, path |-> "nothing",
                                   identity |-> None, volume |-> None]]
  BY DEF Init
<1>3. \A r \in Requests : req[r] \in Request /\ req[r].step = "idle"
  BY <1>2 DEF Request, Steps, Paths
<1>4. ScansFit
  BY <1>3 DEF ScansFit, Fits
<1>5. req \in [Requests -> Request]
  BY <1>2, <1>3
<1>6. TypeOK
  BY <1>1, <1>5, WorldIsTyped DEF Init, TypeOK
<1>7. IdentitiesFound
  BY DEF Init, IdentitiesFound
<1> QED BY <1>1, <1>4, <1>6, <1>7 DEF Inv

\* The scan r becomes w, the others stay.
Becomes(r, w) ==
  /\ req' \in [Requests -> Request] /\ req'[r] = w
  /\ \A x \in Requests \ {r} : req'[x] = req[x]

CachesKept ==
  /\ UNCHANGED world
  /\ bnfCache' \in [Isbns -> {None, "absent", "notice"}] /\ malCache' \in [Queries -> BOOLEAN]
  /\ identified' \in [Queries -> {None} \cup [identity : Identity \cup {None}, authors : SUBSET Authors]]
  /\ IdentitiesFound'

LEMMA ScanMoves ==
  ASSUME Inv, CachesKept, NEW r \in Requests, NEW w, Becomes(r, w), Fits(w)
  PROVE  Inv'
<1> USE DEF Inv, CachesKept, world
<1>1. TypeOK' /\ World'
  BY DEF TypeOK, World, Becomes
<1>2. ASSUME NEW x \in Requests PROVE Fits(req[x])'
  <2>1. CASE x = r
    BY <2>1 DEF Becomes, Fits, Searchable
  <2>2. CASE x # r
    <3>1. req'[x] = req[x] /\ Fits(req[x])
      BY <2>2 DEF Becomes, ScansFit
    <3> QED BY <3>1 DEF Fits, Searchable
  <2> QED BY <2>1, <2>2
<1> QED BY <1>1, <1>2 DEF ScansFit

LEMMA SameIdentities ==
  ASSUME Inv, UNCHANGED <<world, identified>>
  PROVE  /\ IdentitiesFound'
         /\ identified' \in [Queries -> {None} \cup [identity : Identity \cup {None}, authors : SUBSET Authors]]
BY DEF Inv, TypeOK, IdentitiesFound, world

LEMMA SameCaches ==
  ASSUME Inv, UNCHANGED <<world, bnfCache, identified, malCache>>
  PROVE  CachesKept
BY SameIdentities DEF CachesKept, Inv, TypeOK

\* The scan goes on to another step.
LEMMA GoBecomes ==
  ASSUME TypeOK, NEW r \in Requests, NEW step \in Steps, Go(r, step)
  PROVE  \E w : Becomes(r, w) /\ w.step = step /\ w.isbn = req[r].isbn
<1> DEFINE w == [req[r] EXCEPT !.step = step]
<1>1. ASSUME NEW v \in Request
      PROVE  /\ [v EXCEPT !.step = step] \in Request
             /\ [v EXCEPT !.step = step].step = step /\ [v EXCEPT !.step = step].isbn = v.isbn
  BY DEF Request
<1>2. w \in Request /\ w.step = step /\ w.isbn = req[r].isbn
  BY <1>1 DEF TypeOK
<1>3. req' = [req EXCEPT ![r] = w]
  BY DEF Go
<1> HIDE DEF w
<1>4. Becomes(r, w)
  BY <1>2, <1>3 DEF Becomes, TypeOK
<1> QED BY <1>2, <1>4

\* The scan ends.
LEMMA EndsBecomes ==
  ASSUME TypeOK, NEW r \in Requests, NEW path \in Paths, Ends(r, path)
  PROVE  \E w : Becomes(r, w) /\ w.step = "done" /\ w.path = path /\ w.isbn = req[r].isbn
<1> DEFINE w == [req[r] EXCEPT !.step = "done", !.path = path]
<1>1. ASSUME NEW v \in Request
      PROVE  LET u == [v EXCEPT !.step = "done", !.path = path] IN
             u \in Request /\ u.step = "done" /\ u.path = path /\ u.isbn = v.isbn
  BY DEF Request, Steps
<1>2. w \in Request /\ w.step = "done" /\ w.path = path /\ w.isbn = req[r].isbn
  BY <1>1 DEF TypeOK
<1>3. req'[r] = w /\ (\A x \in Requests \ {r} : req'[x] = req[x]) /\ DOMAIN req' = Requests
  BY DEF Ends, TypeOK
<1>4. req' = [x \in Requests |-> req'[x]]
  BY DEF Ends, TypeOK
<1> HIDE DEF w
<1>5. Becomes(r, w)
  BY <1>2, <1>3, <1>4 DEF Becomes, TypeOK
<1> QED BY <1>2, <1>5

-----------------------------------------------------------------------------
(* One lemma per action.                                                   *)

LEMMA BeginsKeeps ==
  ASSUME Inv, NEW r \in Requests, NEW i \in Isbns, Begins(r, i)
  PROVE  Inv'
<1> DEFINE w == [req[r] EXCEPT !.step = "bnf", !.isbn = i]
<1>1. ASSUME NEW v \in Request
      PROVE  [v EXCEPT !.step = "bnf", !.isbn = i] \in Request
             /\ [v EXCEPT !.step = "bnf", !.isbn = i].step = "bnf"
  BY DEF Request, Steps
<1>2. w \in Request /\ w.step = "bnf"
  BY <1>1 DEF Inv, TypeOK
<1>3. /\ req'[r] = w /\ (\A x \in Requests \ {r} : req'[x] = req[x])
      /\ req' = [x \in Requests |-> req'[x]]
  BY DEF Begins, Inv, TypeOK
<1> HIDE DEF w
<1>4. Becomes(r, w) /\ Fits(w)
  BY <1>2, <1>3 DEF Becomes, Fits, Inv, TypeOK
<1> QED BY <1>4, SameCaches, ScanMoves DEF Begins

\* What the notice alone leaves, and what its title opens.
LEMMA NoticeAloneIsPath == \A n : /\ NoticeAlone(n) \in {"bnf_only", "nothing"}
                                  /\ NoticeAlone(n) = "nothing" => ~Shown(n)
BY DEF NoticeAlone

LEMMA AloneFits ==
  ASSUME Inv, CachesKept, NEW r \in Requests, Ends(r, NoticeAlone(notice[req[r].isbn]))
  PROVE  Inv'
<1>1. NoticeAlone(notice[req[r].isbn]) \in Paths
  BY NoticeAloneIsPath DEF Paths
<1>2. PICK w : /\ Becomes(r, w) /\ w.step = "done" /\ w.isbn = req[r].isbn
               /\ w.path = NoticeAlone(notice[req[r].isbn])
  BY <1>1, EndsBecomes DEF Inv
<1>3. Fits(w)
  BY <1>2, NoticeAloneIsPath DEF Fits
<1> QED BY <1>2, <1>3, ScanMoves

LEMMA BnfAnswersKeeps == ASSUME Inv, NEW r \in Requests, BnfAnswers(r) PROVE Inv'
<1> DEFINE i == req[r].isbn
<1>1. i \in Isbns
  BY DEF Inv, TypeOK, Request
<1>2. /\ bnfCache' = [bnfCache EXCEPT ![i] = IF notice[i] = None THEN "absent" ELSE "notice"]
      /\ UNCHANGED <<world, identified, malCache>>
      /\ IF bnfCache'[i] = "absent" THEN Go(r, "google") ELSE AfterNotice(r, notice[i])
  BY DEF BnfAnswers
<1>3. bnfCache' \in [Isbns -> {None, "absent", "notice"}]
      /\ bnfCache'[i] = IF notice[i] = None THEN "absent" ELSE "notice"
  BY <1>1, <1>2 DEF Inv, TypeOK
<1>4. CachesKept
  BY <1>2, <1>3, SameIdentities DEF CachesKept, Inv, TypeOK
<1>5. CASE notice[i] = None
  <2>1. Go(r, "google")
    BY <1>2, <1>3, <1>5
  <2>2. PICK w : Becomes(r, w) /\ w.step = "google" /\ w.isbn = i
    BY <2>1, GoBecomes DEF Inv, Steps
  <2> QED BY <1>4, <1>5, <2>2, ScanMoves DEF Fits
<1>6. CASE notice[i] # None /\ Query(notice[i]) # None
  <2>1. Go(r, "identify")
    BY <1>2, <1>3, <1>6 DEF AfterNotice
  <2>2. PICK w : Becomes(r, w) /\ w.step = "identify" /\ w.isbn = i
    BY <2>1, GoBecomes DEF Inv, Steps
  <2> QED BY <1>4, <1>6, <2>2, ScanMoves DEF Fits, Searchable
<1>7. CASE notice[i] # None /\ Query(notice[i]) = None
  <2>1. Ends(r, NoticeAlone(notice[i]))
    BY <1>2, <1>3, <1>7 DEF AfterNotice
  <2> QED BY <2>1, <1>4, AloneFits
<1> QED BY <1>5, <1>6, <1>7

\* Ends that say nothing of the sources.
LEMMA PlainEnd ==
  ASSUME Inv, CachesKept, NEW r \in Requests, NEW path \in Paths, Ends(r, path),
         path \notin {"gbooks+mangadex", "gbooks_only", "nothing"}
  PROVE  Inv'
<1>1. PICK w : Becomes(r, w) /\ w.step = "done" /\ w.path = path /\ w.isbn = req[r].isbn
  BY EndsBecomes DEF Inv
<1>2. Fits(w)
  BY <1>1 DEF Fits
<1> QED BY <1>1, <1>2, ScanMoves

LEMMA BnfFailsKeeps == ASSUME Inv, NEW r \in Requests, BnfFails(r) PROVE Inv'
<1>1. CachesKept /\ Ends(r, "bnf_failed")
  BY SameCaches DEF BnfFails
<1> QED BY <1>1, PlainEnd DEF Paths

\* An identification: what is got is an identity or none, what is cached is found.
LEMMA IdentifiesKeeps ==
  ASSUME Inv, NEW q \in Queries, NEW authors \in SUBSET Authors, NEW got,
         Identifies(q, authors, got), UNCHANGED <<world, bnfCache, malCache>>
  PROVE  got \in Identity \cup {None} /\ CachesKept
<1> DEFINE found == ChooseIdentity(list[q], authors)
           Rows == {None} \cup [identity : Identity \cup {None}, authors : SUBSET Authors]
<1>1. found \in Identity \cup {None}
  BY WorldIsTyped, IdentityIsTyped DEF Inv
<1>2. identified \in [Queries -> Rows]
  BY DEF Inv, TypeOK
<1>3. ASSUME UNCHANGED identified PROVE CachesKept
  BY <1>3, SameCaches
<1>4. ASSUME NEW id \in {found, None},
             identified' = [identified EXCEPT ![q] = [identity |-> id, authors |-> authors]]
      PROVE  CachesKept
  <2> DEFINE row == [identity |-> id, authors |-> authors]
  <2>1. row \in Rows /\ row.identity = id /\ row.authors = authors
    BY <1>1
  <2>2. identified' = [identified EXCEPT ![q] = row]
    BY <1>4
  <2> HIDE DEF row
  <2>3. identified' \in [Queries -> Rows]
    BY <1>2, <2>1, <2>2
  <2>4. ASSUME NEW p \in Queries, identified'[p] # None
        PROVE  identified'[p].identity \in {None, ChooseIdentity(list[p], identified'[p].authors)}
    <3>1. CASE p = q
      BY <3>1, <1>2, <2>1, <2>2
    <3>2. CASE p # q
      BY <3>2, <1>2, <2>2, <2>4 DEF Inv, IdentitiesFound
    <3> QED BY <3>1, <3>2
  <2>5. IdentitiesFound'
    BY <2>4 DEF IdentitiesFound, world
  <2> QED BY <2>3, <2>5 DEF CachesKept, Inv, TypeOK
<1>5. CASE identified[q] # None /\ got = identified[q].identity /\ UNCHANGED identified
  <2>1. identified[q] \in [identity : Identity \cup {None}, authors : SUBSET Authors]
    BY <1>2, <1>5
  <2>2. got \in Identity \cup {None}
    BY <1>5, <2>1
  <2> QED BY <2>2, <1>3, <1>5
<1>6. CASE /\ got \in {found, None}
           /\ identified' = [identified EXCEPT ![q] = [identity |-> found, authors |-> authors]]
  BY <1>1, <1>4, <1>6
<1>7. CASE /\ got = None
           /\ \/ UNCHANGED identified
              \/ identified' = [identified EXCEPT ![q] = [identity |-> None, authors |-> authors]]
  BY <1>3, <1>4, <1>7
<1> QED BY <1>5, <1>6, <1>7 DEF Identifies

\* A searchable notice: its query, and its authors.
LEMMA SearchableIsTyped ==
  ASSUME Inv, NEW i \in Isbns, Searchable(i)
  PROVE  Query(notice[i]) \in Queries /\ notice[i].authors \in SUBSET Authors
<1>1. notice[i] \in Notice
  BY WorldIsTyped DEF Inv, Searchable
<1> QED BY <1>1 DEF Searchable, Query, Notice

LEMMA NoticeIdentifiedKeeps == ASSUME Inv, NEW r \in Requests, NoticeIdentified(r) PROVE Inv'
<1> DEFINE i == req[r].isbn
           n == notice[i]
           path == IF n.original # None THEN "bnf+mangadex" ELSE "bnf+mangadex-fr"
<1>1. i \in Isbns /\ Searchable(i)
  BY DEF NoticeIdentified, At, Inv, TypeOK, Request, ScansFit, Fits
<1>2. PICK got :
        /\ Identifies(Query(n), n.authors, got)
        /\ IF got = None THEN Go(r, "token")
           ELSE req' = [req EXCEPT ![r].step = "done", ![r].identity = got, ![r].path = path]
  BY DEF NoticeIdentified
<1>3. UNCHANGED <<world, bnfCache, malCache>>
  BY DEF NoticeIdentified
<1>4. got \in Identity \cup {None} /\ CachesKept
  BY <1>1, <1>2, <1>3, SearchableIsTyped, IdentifiesKeeps
<1>5. CASE got = None
  <2>1. PICK w : Becomes(r, w) /\ w.step = "token" /\ w.isbn = i
    BY <1>2, <1>5, GoBecomes DEF Inv, Steps
  <2> QED BY <1>1, <1>4, <2>1, ScanMoves DEF Fits, Searchable
<1>6. CASE got # None
  <2> DEFINE w == [req[r] EXCEPT !.step = "done", !.identity = got, !.path = path]
  <2>1. ASSUME NEW v \in Request, NEW p \in Paths
        PROVE  LET u == [v EXCEPT !.step = "done", !.identity = got, !.path = p] IN
               u \in Request /\ u.step = "done" /\ u.path = p
    BY <1>4 DEF Request, Steps
  <2>2. path \in Paths /\ path \in {"bnf+mangadex", "bnf+mangadex-fr"}
    BY DEF Paths
  <2>3. w \in Request /\ w.step = "done" /\ w.path \in {"bnf+mangadex", "bnf+mangadex-fr"}
    <3> HIDE DEF path
    <3> QED BY ZenonT(60), <2>1, <2>2 DEF Inv, TypeOK
  <2>4. req' = [req EXCEPT ![r].step = "done", ![r].identity = got, ![r].path = path]
    BY <1>2, <1>6
  <2> HIDE DEF path
  <2>5. /\ req'[r] = w /\ (\A x \in Requests \ {r} : req'[x] = req[x])
        /\ req' = [x \in Requests |-> req'[x]]
    BY <2>4 DEF Inv, TypeOK
  <2> HIDE DEF w
  <2>6. Becomes(r, w) /\ Fits(w)
    BY <2>3, <2>5 DEF Becomes, Fits, Inv, TypeOK
  <2> QED BY <1>4, <2>6, ScanMoves
<1> QED BY <1>5, <1>6

LEMMA GoogleAnswersKeeps == ASSUME Inv, NEW r \in Requests, GoogleAnswers(r) PROVE Inv'
<1>1. CachesKept
  BY SameCaches DEF GoogleAnswers
<1>2. notice[req[r].isbn] = None
  BY DEF GoogleAnswers, At, Inv, ScansFit, Fits
<1>3. CASE Ends(r, "nothing")
  <2>1. PICK w : Becomes(r, w) /\ w.step = "done" /\ w.path = "nothing" /\ w.isbn = req[r].isbn
    BY <1>3, EndsBecomes DEF Inv, Paths
  <2> QED BY <1>1, <1>2, <2>1, ScanMoves DEF Fits
<1>4. CASE info[req[r].isbn] # None /\ Go(r, "climb")
  <2>1. PICK w : Becomes(r, w) /\ w.step = "climb" /\ w.isbn = req[r].isbn
    BY <1>4, GoBecomes DEF Inv, Steps
  <2> QED BY <1>1, <1>2, <1>4, <2>1, ScanMoves DEF Fits
<1> QED BY <1>3, <1>4 DEF GoogleAnswers

LEMMA FromMalKeeps ==
  ASSUME Inv, CachesKept, NEW r \in Requests, FromMal(r)
  PROVE  Inv'
<1> DEFINE n == notice[req[r].isbn]
           path == IF n.original # None THEN "bnf+mal" ELSE "bnf+mal-fr"
<1>1. Ends(r, path) \/ Ends(r, NoticeAlone(n))
  BY DEF FromMal
<1>2. CASE Ends(r, path)
  BY <1>2, PlainEnd DEF Paths
<1>3. CASE Ends(r, NoticeAlone(n))
  BY <1>3, AloneFits
<1> QED BY <1>1, <1>2, <1>3

LEMMA ResolvesKeeps ==
  ASSUME Inv, NEW r \in Requests, NEW source \in {"user", "fallback", "none"}, Resolves(r, source)
  PROVE  Inv'
<1>1. CachesKept
  BY SameCaches DEF Resolves
<1>2. Searchable(req[r].isbn)
  BY DEF Resolves, At, Inv, ScansFit, Fits
<1>3. \/ FromMal(r) \/ Ends(r, NoticeAlone(notice[req[r].isbn]))
      \/ Ends(r, "error") \/ Go(r, "mal")
  BY DEF Resolves
<1>4. CASE Ends(r, "error")
  BY <1>1, <1>4, PlainEnd DEF Paths
<1>5. CASE Go(r, "mal")
  <2>1. PICK w : Becomes(r, w) /\ w.step = "mal" /\ w.isbn = req[r].isbn
    BY <1>5, GoBecomes DEF Inv, Steps
  <2> QED BY <1>1, <1>2, <2>1, ScanMoves DEF Fits
<1> QED BY <1>1, <1>3, <1>4, <1>5, FromMalKeeps, AloneFits

LEMMA MalAnswersKeeps == ASSUME Inv, NEW r \in Requests, MalAnswers(r) PROVE Inv'
<1>1. FromMal(r) /\ UNCHANGED <<world, bnfCache, identified>>
      /\ malCache' \in [Queries -> BOOLEAN]
  BY DEF MalAnswers, Inv, TypeOK
<1>2. CachesKept
  BY <1>1, SameIdentities DEF CachesKept, Inv, TypeOK
<1> QED BY <1>1, <1>2, FromMalKeeps

LEMMA MalFailsKeeps == ASSUME Inv, NEW r \in Requests, MalFails(r) PROVE Inv'
<1>1. CachesKept /\ Ends(r, "error")
  BY SameCaches DEF MalFails
<1> QED BY <1>1, PlainEnd DEF Paths

LEMMA ExpiresKeeps == ASSUME Inv, Expires PROVE Inv'
<1>1. UNCHANGED <<world, req>>
      /\ bnfCache' \in [Isbns -> {None, "absent", "notice"}] /\ malCache' \in [Queries -> BOOLEAN]
      /\ identified' \in [Queries -> {None} \cup [identity : Identity \cup {None}, authors : SUBSET Authors]]
  BY DEF Expires, Inv, TypeOK
<1>2. \A q \in Queries : identified'[q] # None => identified'[q] = identified[q]
  BY DEF Expires, Inv, TypeOK
<1>3. IdentitiesFound'
  BY <1>1, <1>2 DEF Inv, IdentitiesFound, world
<1>4. TypeOK' /\ World' /\ ScansFit'
  BY <1>1 DEF Inv, TypeOK, World, ScansFit, Fits, Searchable, world
<1> QED BY <1>3, <1>4 DEF Inv

\* Google's title alone: the volume of the first rung that has one.
LEMMA GoogleOnlyBecomes ==
  ASSUME Inv, NEW r \in Requests, NEW cut \in Nat, info[req[r].isbn] # None, GoogleOnly(r, cut)
  PROVE  \E w : Becomes(r, w) /\ w.step = "done" /\ w.path = "gbooks_only" /\ w.isbn = req[r].isbn
<1> DEFINE title == TitleOf[info[req[r].isbn].title]
           cuts == {c \in Rungs(title) : TailVolume(title, c) # None}
           c == CHOOSE c \in cuts : \A d \in cuts : c <= d
           v == IF cuts = {} THEN None ELSE TailVolume(title, c)
           w == [req[r] EXCEPT !.step = "done", !.path = "gbooks_only", !.cut = cut, !.volume = v]
<1>1. title \in Seq(Token)
  <2>1. info[req[r].isbn] \in Info
    BY WorldIsTyped DEF Inv, TypeOK, Request
  <2> QED BY <2>1, TitlesAssumption DEF Info
<1> HIDE DEF title
<1>2. v \in Nat \cup {None}
  <2>1. CASE cuts = {}
    BY <2>1
  <2>2. CASE cuts # {}
    <3>1. cuts \subseteq Nat /\ IsFiniteSet(cuts)
      BY <1>1, RungsAreCuts, FS_Subset
    <3>2. c \in cuts
      <4> HIDE DEF cuts
      <4> QED BY <2>2, <3>1, LeastExists
    <3> HIDE DEF c
    <3> QED BY <1>1, <3>2, TailVolumeIsTyped
  <2> QED BY <2>1, <2>2
<1>3. req' = [req EXCEPT ![r].step = "done", ![r].path = "gbooks_only", ![r].cut = cut,
                         ![r].volume = v]
  BY DEF GoogleOnly, title
<1> HIDE DEF v
<1>4. ASSUME NEW u \in Request
      PROVE  LET z == [u EXCEPT !.step = "done", !.path = "gbooks_only", !.cut = cut, !.volume = v] IN
             z \in Request /\ z.step = "done" /\ z.path = "gbooks_only" /\ z.isbn = u.isbn
  BY <1>2 DEF Request, Steps, Paths
<1>5. w \in Request /\ w.step = "done" /\ w.path = "gbooks_only" /\ w.isbn = req[r].isbn
  BY <1>4 DEF Inv, TypeOK
<1>6. /\ req'[r] = w /\ (\A x \in Requests \ {r} : req'[x] = req[x])
      /\ req' = [x \in Requests |-> req'[x]]
  BY <1>3 DEF Inv, TypeOK
<1> HIDE DEF w
<1>7. Becomes(r, w)
  BY <1>5, <1>6 DEF Becomes, Inv, TypeOK
<1> QED BY <1>5, <1>7

\* One rung of the ladder: the least not tried yet.
LEMMA NextRung ==
  ASSUME NEW title \in Seq(Token), NEW cut \in Nat, \E d \in Rungs(title) : ~(d < cut)
  PROVE  \E c \in Rungs(title) : c >= cut /\ \A d \in Rungs(title) : d >= cut => c <= d
<1> DEFINE D == {d \in Rungs(title) : d >= cut}
<1>1. D \subseteq Nat /\ IsFiniteSet(D) /\ D # {}
  BY RungsAreCuts, FS_Subset
<1>2. PICK c \in D : \A d \in D : c <= d
  <2> HIDE DEF D
  <2> QED BY <1>1, LeastExists
<1>3. c \in Rungs(title) /\ c >= cut /\ \A d \in Rungs(title) : d >= cut => c <= d
  BY <1>2
<1> QED BY <1>3

LEMMA ClimbsKeeps == ASSUME Inv, NEW r \in Requests, Climbs(r) PROVE Inv'
<1> DEFINE i == req[r].isbn
           g == info[i]
           title == TitleOf[g.title]
           c == CHOOSE c \in Rungs(title) :
                  c >= req[r].cut /\ \A d \in Rungs(title) : d >= req[r].cut => c <= d
           q == QueryOf[g.title][PrefixOf(title, c)]
<1>1. i \in Isbns /\ notice[i] = None /\ g # None /\ req[r].cut \in Nat
  BY DEF Climbs, At, Inv, TypeOK, Request, ScansFit, Fits
<1>2. g \in Info
  BY <1>1, WorldIsTyped DEF Inv
<1>3. title \in Seq(Token) /\ QueryOf[g.title] \in [DOMAIN title -> Queries]
      /\ g.authors \in SUBSET Authors
  BY <1>2, TitlesAssumption DEF Info
<1>4. UNCHANGED <<world, bnfCache, malCache>>
  BY DEF Climbs
<1>5. \/ /\ \A d \in Rungs(title) : d < req[r].cut
         /\ GoogleOnly(r, req[r].cut) /\ UNCHANGED identified
      \/ /\ ~(\A d \in Rungs(title) : d < req[r].cut)
         /\ \E got : /\ Identifies(q, g.authors, got)
                     /\ IF got = None THEN req' = [req EXCEPT ![r].cut = c + 1]
                        ELSE IF Refused(got) THEN GoogleOnly(r, c)
                        ELSE req' = [req EXCEPT ![r].step = "done", ![r].path = "gbooks+mangadex",
                               ![r].cut = c, ![r].identity = got, ![r].volume = TailVolume(title, c)]
  BY DEF Climbs
<1>6. ASSUME NEW cut \in Nat, GoogleOnly(r, cut), CachesKept PROVE Inv'
  <2>1. PICK w : Becomes(r, w) /\ w.step = "done" /\ w.path = "gbooks_only" /\ w.isbn = i
    BY <1>1, <1>6, GoogleOnlyBecomes
  <2>2. Fits(w)
    BY <1>1, <2>1 DEF Fits
  <2> QED BY <1>6, <2>1, <2>2, ScanMoves
<1>7. CASE /\ \A d \in Rungs(title) : d < req[r].cut
           /\ GoogleOnly(r, req[r].cut) /\ UNCHANGED identified
  <2>1. CachesKept
    BY <1>4, <1>7, SameCaches
  <2> QED BY <1>1, <1>6, <1>7, <2>1
<1>8. ASSUME ~(\A d \in Rungs(title) : d < req[r].cut), NEW got, Identifies(q, g.authors, got),
             IF got = None THEN req' = [req EXCEPT ![r].cut = c + 1]
             ELSE IF Refused(got) THEN GoogleOnly(r, c)
             ELSE req' = [req EXCEPT ![r].step = "done", ![r].path = "gbooks+mangadex",
                    ![r].cut = c, ![r].identity = got, ![r].volume = TailVolume(title, c)]
      PROVE  Inv'
  <2>1. c \in Rungs(title)
    <3> HIDE DEF title
    <3>1. \E d \in Rungs(title) : ~(d < req[r].cut)
      BY <1>8
    <3>2. \E d \in Rungs(title) :
            d >= req[r].cut /\ \A e \in Rungs(title) : e >= req[r].cut => d <= e
      BY <1>1, <1>3, <3>1, NextRung
    <3> QED BY <3>2
  <2> HIDE DEF c
  <2>2. c \in Nat /\ q \in Queries /\ TailVolume(title, c) \in Nat \cup {None}
    <3> HIDE DEF title
    <3> QED BY <1>3, <2>1, RungsAreCuts, PrefixInTitle, TailVolumeIsTyped
  <2> DEFINE v == TailVolume(title, c)
  <2> HIDE DEF q, v
  <2>3. got \in Identity \cup {None} /\ CachesKept
    BY <1>3, <1>4, <1>8, <2>2, IdentifiesKeeps
  <2>4. CASE got = None
    <3> DEFINE w == [req[r] EXCEPT !.cut = c + 1]
    <3>1. ASSUME NEW u \in Request
          PROVE  LET z == [u EXCEPT !.cut = c + 1] IN
                 z \in Request /\ z.step = u.step /\ z.isbn = u.isbn
      BY <2>2 DEF Request
    <3>2. w \in Request /\ w.step = req[r].step /\ w.isbn = i /\ req[r].step = "climb"
      BY <3>1 DEF Climbs, At, Inv, TypeOK
    <3>3. req' = [req EXCEPT ![r] = w]
      BY <1>8, <2>4
    <3> HIDE DEF w
    <3>4. Becomes(r, w) /\ Fits(w)
      BY <1>1, <3>2, <3>3 DEF Becomes, Fits, Inv, TypeOK
    <3> QED BY <2>3, <3>4, ScanMoves
  <2>5. CASE got # None /\ Refused(got)
    BY <1>6, <1>8, <2>2, <2>3, <2>5
  <2>6. CASE got # None /\ ~Refused(got)
    <3> DEFINE w == [req[r] EXCEPT !.step = "done", !.path = "gbooks+mangadex",
                       !.cut = c, !.identity = got, !.volume = v]
    <3>1. ASSUME NEW u \in Request
          PROVE  LET z == [u EXCEPT !.step = "done", !.path = "gbooks+mangadex",
                             !.cut = c, !.identity = got, !.volume = v] IN
                 z \in Request /\ z.step = "done" /\ z.path = "gbooks+mangadex"
                 /\ z.isbn = u.isbn /\ z.identity = got
      BY <2>2, <2>3 DEF Request, Steps, Paths, v
    <3>2. w \in Request /\ w.step = "done" /\ w.path = "gbooks+mangadex" /\ w.isbn = i
          /\ w.identity = got
      BY <3>1 DEF Inv, TypeOK
    <3>3. req' = [req EXCEPT ![r].step = "done", ![r].path = "gbooks+mangadex",
                    ![r].cut = c, ![r].identity = got, ![r].volume = v]
      BY <1>8, <2>6 DEF v
    <3>4. /\ req'[r] = w /\ (\A x \in Requests \ {r} : req'[x] = req[x])
          /\ req' = [x \in Requests |-> req'[x]]
      BY <3>3 DEF Inv, TypeOK
    <3> HIDE DEF w
    <3>5. Becomes(r, w)
      BY <3>2, <3>4 DEF Becomes, Inv, TypeOK
    <3>6. Fits(w)
      BY <1>1, <2>3, <2>6, <3>2 DEF Fits, Refused, Identity
    <3> QED BY <2>3, <3>5, <3>6, ScanMoves
  <2> QED BY <2>4, <2>5, <2>6
<1> QED BY <1>5, <1>7, <1>8

LEMMA StepInv == Inv /\ [Next]_vars => Inv'
<1> SUFFICES ASSUME Inv, [Next]_vars PROVE Inv'
  OBVIOUS
<1>1. CASE UNCHANGED vars
  BY <1>1 DEF vars, world, Inv, TypeOK, World, ScansFit, Fits, Searchable, IdentitiesFound
<1>2. CASE Next
  BY <1>2, BeginsKeeps, BnfAnswersKeeps, BnfFailsKeeps, NoticeIdentifiedKeeps, GoogleAnswersKeeps,
     ClimbsKeeps, ResolvesKeeps, MalAnswersKeeps, MalFailsKeeps, ExpiresKeeps DEF Next
<1> QED BY <1>1, <1>2

\* The invariant the others are read from.
THEOREM InvInvariant == Spec => []Inv
BY InitInv, StepInv, PTL DEF Spec

-----------------------------------------------------------------------------
\* Every scan and every row of the caches keeps its shape.
THEOREM TypeCorrect == Spec => []TypeOK
<1>1. Inv => TypeOK
  BY DEF Inv
<1> QED BY <1>1, InvInvariant, PTL

\* Google Books never speaks for a book the BnF holds.
THEOREM GoogleSpeaksLast == Spec => []GoogleOnlyIfUncatalogued
<1>1. Inv => GoogleOnlyIfUncatalogued
  BY DEF Inv, ScansFit, Fits, GoogleOnlyIfUncatalogued, Over, At
<1> QED BY <1>1, InvInvariant, PTL

\* A notice that can be shown is lost to an error of MAL alone.
THEOREM NoticeComesBack == Spec => []NoticeLostOnlyToMal
<1>1. Inv => NoticeLostOnlyToMal
  BY DEF Inv, ScansFit, Fits, NoticeLostOnlyToMal, Over, At
<1> QED BY <1>1, InvInvariant, PTL

\* A homonym is not taken on its title alone, by either path.
THEOREM HomonymsAreRefused == Spec => []HomonymsNeedTheAuthor
<1>1. Inv => AmbiguousNeedsAuthor
  BY DEF Inv, ScansFit, Fits, AmbiguousNeedsAuthor, Over, At
<1>2. Inv => TieGoesToTheAuthor
  <2> SUFFICES ASSUME Inv, NEW q \in Queries, identified[q] # None, identified[q].identity # None,
                      NEW j \in DOMAIN list[q],
                      list[q][j].title = list[q][identified[q].identity.cand].title,
                      MatchesAuthor(identified[q].authors, list[q][j].names)
               PROVE  MatchesAuthor(identified[q].authors,
                                    list[q][identified[q].identity.cand].names)
    BY DEF TieGoesToTheAuthor
  <2>1. identified[q].identity = ChooseIdentity(list[q], identified[q].authors)
    BY DEF Inv, IdentitiesFound
  <2>2. IsPage(list[q])
    BY WorldIsTyped DEF Inv
  <2> QED BY <2>1, <2>2, AuthorBreaksTies
<1>3. Inv => HomonymsNeedTheAuthor
  BY <1>1, <1>2 DEF HomonymsNeedTheAuthor
<1> QED BY <1>3, InvInvariant, PTL

\* The covers of a work are not those of its coloured variant.
THEOREM WorksAreShown == Spec => []WorkBeatsVariant
<1>1. WorkBeatsVariant
  <2> SUFFICES ASSUME NEW r \in Requests, NEW cands \in CoverLists,
                      FindManga(cands, None, None, notice[req[r].isbn].authors) # None
               PROVE  \E i \in DOMAIN cands :
                        /\ cands[i].id = FindManga(cands, None, None, notice[req[r].isbn].authors)
                        /\ MatchesAuthor(notice[req[r].isbn].authors, cands[i].names)
                        /\ cands[i].mal = None =>
                             ~\E j \in DOMAIN cands :
                                /\ cands[j].mal # None
                                /\ MatchesAuthor(notice[req[r].isbn].authors, cands[j].names)
                                /\ cands[j].title = cands[i].title /\ cands[j].exact = cands[i].exact
    BY DEF WorkBeatsVariant
  <2> DEFINE names == notice[req[r].isbn].authors
             i == ChooseCover(cands, names)
  <2>1. i # 0 /\ FindManga(cands, None, None, names) = cands[i].id
    BY DEF FindManga
  <2>2. IsPage(cands)
    BY SourcesAssumption
  <2>3. i \in DOMAIN cands /\ MatchesAuthor(names, cands[i].names)
    BY <2>1, <2>2, ChosenCover
  <2>4. ASSUME cands[i].mal = None, NEW j \in DOMAIN cands, cands[j].mal # None,
               MatchesAuthor(names, cands[j].names),
               cands[j].title = cands[i].title, cands[j].exact = cands[i].exact
        PROVE  FALSE
    BY <2>1, <2>2, <2>4, LinkedWorkWins
  <2> HIDE DEF i
  <2> QED BY <2>1, <2>3, <2>4
<1> QED BY <1>1, PTL

-----------------------------------------------------------------------------
(* EditionImport: the inductive invariant.                                 *)

\* The import in hand is of the job that is active.
InHandIsActive == work # None => job[work.edition] # None /\ job[work.edition].state = "active"
ActiveIsInHand ==
  \A e \in Editions : job[e] # None /\ job[e].state = "active" => work # None /\ work.edition = e

\* The volumes enumerated whose cover has been resolved.
Resolved == Kept(work.edition, work.page) \ (work.left \cup work.busy)
Counted ==
  work # None => LET e == work.edition
                     p == job[work.edition].progress IN
    /\ work.phase = "pages" => work.page < Len(Catalogue)
    /\ work.phase # "covers" => work.busy = {} /\ Got(e) = {} /\ p.phase = "enumerating"
    /\ p.phase = "enumerating" => p.done = 0 /\ p.total = 0 /\ work.done = 0
    /\ p.phase = "covers" => p.done = work.done /\ p.total = work.total
    /\ work.phase = "covers" =>
         /\ work.left \cup work.busy \subseteq Kept(e, work.page)
         /\ work.left \cap work.busy = {}
         /\ work.total = Cardinality(Kept(e, work.page)) /\ work.done = Cardinality(Resolved)
         /\ Got(e) = {t.volume : t \in Resolved}

\* What an import that met no failure has asked for is cached.
CachedSoFar ==
  work # None /\ job[work.edition].clean => LET e == work.edition
                                                k == job[work.edition].clue IN
    /\ \A p \in 1..work.page : page[p] = "records"
    /\ work.phase # "pages" => work.page = Len(Catalogue)
    /\ work.phase = "covers" =>
         /\ work.lookup \in {"found", "absent"}
         /\ work.lookup = IF e \in Arts THEN "absent" ELSE series[k]
         /\ \A t \in Resolved : /\ job[e].got[t.volume] # "unresolved"
                                /\ job[e].got[t.volume] = Served(e, k, t)

\* ProgressIsHonest of one edition.
Honest(e) ==
  job[e] # None => LET p == job[e].progress IN
    /\ p.done <= p.total
    /\ p.phase = "covers" => p.done = Cardinality(Got(e))
    /\ job[e].state = "completed" => p.done = p.total
    /\ job[e].state = "completed" /\ job[e].clean => p.done = Cardinality(Tomes(e))

\* DoneIsWarm of one edition, and that its series is answered: without an
\* answer, one that comes later would change what is served.
WarmIfDone(e) ==
  job[e] # None /\ job[e].state = "completed" /\ job[e].clean =>
    LET k == job[e].clue IN
    /\ Warm(e, k)
    /\ \A t \in Tomes(e) : Served(e, k, t) = job[e].got[t.volume]
    /\ e \in Arts \/ series[k] \in {"found", "absent"}

ImportInv ==
  /\ ImportTypeOK /\ InHandIsActive /\ ActiveIsInHand /\ Counted /\ CachedSoFar
  /\ \A e \in Editions : Honest(e) /\ WarmIfDone(e)

-----------------------------------------------------------------------------
(* The volumes of an edition.                                              *)

LEMMA PlacesAreTomes ==
  ASSUME NEW n \in 0..Len(Catalogue)
  PROVE  /\ IsFiniteSet(Places(n)) /\ Places(n) \subseteq Nat \X Nat
         /\ Places(n) \subseteq Places(Len(Catalogue))
         /\ \A x \in Places(n) : Record(x) \in Tome
<1> USE CatalogueAssumption
<1>1. Len(Catalogue) \in Nat /\ DOMAIN Catalogue = 1..Len(Catalogue) /\ 1..n \subseteq 1..Len(Catalogue)
  OBVIOUS
<1>2. \A p \in 1..n : /\ Catalogue[p] \in Seq(Tome) /\ DOMAIN Catalogue[p] = 1..Len(Catalogue[p])
                      /\ Len(Catalogue[p]) \in Nat
  BY <1>1
<1>2a. \A k \in Nat : IsFiniteSet(1..k)
  BY FS_Interval
<1>3. \A p \in 1..n : IsFiniteSet({p} \X DOMAIN Catalogue[p])
  <2> TAKE p \in 1..n
  <2>1. IsFiniteSet({p})
    BY FS_Singleton
  <2>2. IsFiniteSet(1..Len(Catalogue[p]))
    BY <1>2, <1>2a
  <2> QED BY <1>2, <2>1, <2>2, FS_Product
<1> DEFINE f == [p \in 1..n |-> {p} \X DOMAIN Catalogue[p]]
           T == {{p} \X DOMAIN Catalogue[p] : p \in 1..n}
<1>4. f \in Surjection(1..n, T)
  BY DEF Surjection
<1>5. IsFiniteSet(1..n)
  BY <1>1, <1>2a
<1>6. IsFiniteSet(T)
  <2> HIDE DEF f, T
  <2> QED BY <1>4, <1>5, FS_Surjection
<1>7. \A t \in T : IsFiniteSet(t)
  BY <1>3
<1>8. IsFiniteSet(UNION T)
  <2> HIDE DEF T
  <2> QED BY <1>6, <1>7, FS_UNION
<1>9. IsFiniteSet(Places(n))
  BY <1>8 DEF Places
<1>10. \A x \in Places(n) : x \in Nat \X Nat /\ x[1] \in 1..n /\ x[2] \in DOMAIN Catalogue[x[1]]
  BY <1>2 DEF Places
<1>11. Places(n) \subseteq Places(Len(Catalogue))
  BY <1>1 DEF Places
<1>12. \A x \in Places(n) : Record(x) \in Tome
  BY <1>2, <1>10 DEF Record
<1> QED BY <1>9, <1>10, <1>11, <1>12

LEMMA KeptAreRecords ==
  ASSUME NEW e, NEW n \in 0..Len(Catalogue)
  PROVE  /\ Kept(e, n) \subseteq Records /\ IsFiniteSet(Kept(e, n))
         /\ \A t \in Kept(e, n) : t \in Tome /\ t.edition = e /\ t.volume \in Volumes
<1>1. Len(Catalogue) \in 0..Len(Catalogue)
  BY CatalogueAssumption
<1>2. Kept(e, n) \subseteq Records
  BY PlacesAreTomes DEF Kept, Records
<1>3. IsFiniteSet(Records)
  <2> DEFINE f == [x \in Places(Len(Catalogue)) |-> Record(x)]
  <2>1. f \in Surjection(Places(Len(Catalogue)), Records)
    BY DEF Surjection, Records
  <2> HIDE DEF f
  <2> QED BY <1>1, <2>1, PlacesAreTomes, FS_Surjection
<1>4. \A t \in Kept(e, n) : t \in Tome /\ t.edition = e
  BY PlacesAreTomes DEF Kept
<1> QED BY <1>2, <1>3, <1>4, FS_Subset DEF Volumes

\* The first record of a volume wins: no volume is kept twice.
LEMMA OneTomePerVolume ==
  ASSUME NEW e, NEW n \in 0..Len(Catalogue), NEW t \in Kept(e, n), NEW u \in Kept(e, n),
         t.volume = u.volume
  PROVE  t = u
<1>1. PICK x \in Places(n) : t = Record(x) /\ Record(x).edition = e /\ IsFirst(x, n)
  BY DEF Kept
<1>2. PICK y \in Places(n) : u = Record(y) /\ Record(y).edition = e /\ IsFirst(y, n)
  BY DEF Kept
<1>3. ~Earlier(x, y) /\ ~Earlier(y, x)
  BY <1>1, <1>2 DEF IsFirst
<1>4. x \in Nat \X Nat /\ y \in Nat \X Nat
  BY PlacesAreTomes
<1>5. x[1] = y[1] /\ x[2] = y[2]
  BY <1>3, <1>4 DEF Earlier
<1>6. x = y
  BY <1>4, <1>5
<1> QED BY <1>1, <1>2, <1>6

LEMMA VolumesAreCounted ==
  ASSUME NEW e, NEW n \in 0..Len(Catalogue), NEW S \in SUBSET Kept(e, n)
  PROVE  /\ IsFiniteSet(S) /\ Cardinality(S) \in Nat /\ Cardinality(S) <= Cardinality(Kept(e, n))
         /\ Cardinality({t.volume : t \in S}) = Cardinality(S)
<1> DEFINE V == {t.volume : t \in S}
           f == [t \in S |-> t.volume]
<1>1. IsFiniteSet(S) /\ Cardinality(S) \in Nat /\ Cardinality(S) <= Cardinality(Kept(e, n))
  BY KeptAreRecords, FS_Subset, FS_CardinalityType
<1>2. f \in Bijection(S, V)
  BY OneTomePerVolume DEF Bijection, Injection, Surjection, IsInjective
<1>3. Cardinality(V) = Cardinality(S)
  <2> HIDE DEF f, V
  <2> QED BY <1>1, <1>2, FS_Bijection DEF ExistsBijection
<1> QED BY <1>1, <1>3

-----------------------------------------------------------------------------
(* What a step leaves.                                                     *)

\* No answer that is cached is lost: pages stay, and so do the answers of sources.
KeepsAnswers ==
  /\ \A p \in PageNumbers : page[p] = "records" => page'[p] = "records"
  /\ \A k \in Clues : series[k] \in {"found", "absent"} => series'[k] = series[k]
  /\ \A i \in Isbns : cover[i] \in {"found", "absent"} => cover'[i] = cover[i]

\* What is served from answers does not change while they stay.
LEMMA ServedStays ==
  ASSUME ImportTypeOK, KeepsAnswers, NEW e \in Editions, NEW k \in Clues, NEW t \in Tome,
         e \in Arts \/ series[k] \in {"found", "absent"}, Served(e, k, t) # "unresolved"
  PROVE  Served(e, k, t)' = Served(e, k, t)
<1>1. None \notin {"found", "absent", "unresolved"}
  BY AbsenceAssumption DEF Statuses
<1>2. t.isbn # None => cover[t.isbn] \in Row
  BY DEF ImportTypeOK, Tome
<1>3. t.isbn # None => t.isbn \in Isbns
  BY DEF Tome
<1> QED BY <1>1, <1>2, <1>3 DEF Served, KeepsAnswers, Row, Statuses

\* A job no step touches stays honest and warm.
LEMMA OthersStay ==
  ASSUME ImportInv, KeepsAnswers, NEW f \in Editions, job'[f] = job[f]
  PROVE  Honest(f)' /\ WarmIfDone(f)'
<1>1. Honest(f)'
  BY DEF ImportInv, Honest, Got
<1>2. ASSUME job[f] # None, job[f].state = "completed", job[f].clean,
             NEW k \in Clues, k = job[f].clue
      PROVE  /\ Warm(f, k)'
             /\ \A t \in Tomes(f) : Served(f, k, t)' = job[f].got[t.volume]
             /\ f \in Arts \/ series'[k] \in {"found", "absent"}
  <2>1. /\ Warm(f, k)
        /\ \A t \in Tomes(f) : Served(f, k, t) = job[f].got[t.volume]
        /\ f \in Arts \/ series[k] \in {"found", "absent"}
    BY <1>2 DEF ImportInv, WarmIfDone
  <2>2. \A t \in Tomes(f) : t \in Tome
    BY KeptAreRecords, CatalogueAssumption DEF Tomes
  <2>3. \A t \in Tomes(f) : Served(f, k, t) # "unresolved"
    BY <2>1 DEF Warm
  <2>4. \A t \in Tomes(f) : Served(f, k, t)' = Served(f, k, t)
    BY <2>1, <2>2, <2>3, ServedStays DEF ImportInv
  <2>5. \A p \in PageNumbers : page'[p] = "records"
    BY <2>1 DEF Warm, KeepsAnswers
  <2>6. Warm(f, k)'
    BY <2>3, <2>4, <2>5 DEF Warm
  <2>7. f \in Arts \/ series'[k] \in {"found", "absent"}
    BY <2>1 DEF KeepsAnswers
  <2>8. \A t \in Tomes(f) : Served(f, k, t)' = job[f].got[t.volume]
    BY <2>1, <2>4
  <2> QED BY <2>6, <2>7, <2>8
<1>3. job[f] # None => job[f].clue \in Clues
  BY DEF ImportInv, ImportTypeOK, Job
<1>4. WarmIfDone(f)'
  BY <1>2, <1>3 DEF WarmIfDone
<1> QED BY <1>1, <1>4

\* So does what is known of the import in hand, when a step touches neither it nor its job.
LEMMA WorkStays ==
  ASSUME ImportInv, KeepsAnswers, work' = work,
         work # None => job'[work.edition] = job[work.edition]
  PROVE  Counted' /\ CachedSoFar'
<1>1. Counted'
  BY DEF ImportInv, Counted, Got, Resolved
<1>2. ASSUME work # None, job[work.edition].clean,
             NEW e \in Editions, e = work.edition, NEW k \in Clues, k = job[e].clue
      PROVE  /\ \A p \in 1..work.page : page'[p] = "records"
             /\ work.phase = "covers" =>
                  /\ work.lookup = IF e \in Arts THEN "absent" ELSE series'[k]
                  /\ \A t \in Resolved : job[e].got[t.volume] = Served(e, k, t)'
  <2>1. work.page \in 0..Len(Catalogue)
    BY <1>2 DEF ImportInv, ImportTypeOK, Work
  <2>2. \A p \in 1..work.page : page'[p] = "records"
    BY <1>2, <2>1, CatalogueAssumption DEF ImportInv, CachedSoFar, KeepsAnswers, PageNumbers
  <2>3. ASSUME work.phase = "covers"
        PROVE  /\ work.lookup = IF e \in Arts THEN "absent" ELSE series'[k]
               /\ \A t \in Resolved : job[e].got[t.volume] = Served(e, k, t)'
    <3>1. /\ work.lookup \in {"found", "absent"}
          /\ work.lookup = IF e \in Arts THEN "absent" ELSE series[k]
          /\ \A t \in Resolved : /\ job[e].got[t.volume] # "unresolved"
                                 /\ job[e].got[t.volume] = Served(e, k, t)
      BY <1>2, <2>3 DEF ImportInv, CachedSoFar
    <3>2. \A t \in Resolved : t \in Tome
      BY <1>2, <2>1, KeptAreRecords DEF Resolved
    <3>3. e \in Arts \/ series[k] \in {"found", "absent"}
      BY <3>1
    <3>4. work.lookup = IF e \in Arts THEN "absent" ELSE series'[k]
      BY <3>1, <3>3 DEF KeepsAnswers
    <3>5. \A t \in Resolved : Served(e, k, t)' = Served(e, k, t)
      BY <3>1, <3>2, <3>3, ServedStays DEF ImportInv
    <3> QED BY <3>1, <3>4, <3>5
  <2> QED BY <2>2, <2>3
<1>3. work # None => work.edition \in Editions /\ job[work.edition] # None
                     /\ job[work.edition].clue \in Clues
  BY DEF ImportInv, ImportTypeOK, Work, Job
<1>4. CachedSoFar'
  BY <1>2, <1>3 DEF ImportInv, CachedSoFar, Resolved
<1> QED BY <1>1, <1>4

-----------------------------------------------------------------------------
(* The steps of the clients and of what surrounds an import.               *)

LEMMA InitEstablishes == ImportInit => ImportInv
<1> SUFFICES ASSUME ImportInit PROVE ImportInv
  OBVIOUS
<1>1. ImportTypeOK
  <2>1. (CHOOSE e \in Editions : TRUE) \in Editions /\ (CHOOSE k \in Clues : TRUE) \in Clues
    BY ImportAssumption
  <2> QED BY <2>1, ImportAssumption DEF ImportInit, ImportTypeOK, Row, Client
<1> QED BY <1>1 DEF ImportInit, ImportInv, InHandIsActive, ActiveIsInHand, Counted, CachedSoFar,
                    Honest, WarmIfDone

\* A step that changes neither a job nor the import in hand, and loses no answer.
LEMMA BystandersPreserve ==
  ASSUME ImportInv, ImportTypeOK', KeepsAnswers, UNCHANGED <<job, work>>
  PROVE  ImportInv'
<1>1. Counted' /\ CachedSoFar'
  BY WorkStays
<1>2. \A f \in Editions : Honest(f)' /\ WarmIfDone(f)'
  BY OthersStay
<1> QED BY <1>1, <1>2 DEF ImportInv, InHandIsActive, ActiveIsInHand

LEMMA ClientsPreserve ==
  ASSUME ImportInv, NEW c \in Clients, NEW d \in Client, client' = [client EXCEPT ![c] = d],
         UNCHANGED <<caches, job, work, crashes>>
  PROVE  ImportInv'
<1>1. ImportTypeOK'
  BY DEF ImportInv, ImportTypeOK, caches
<1>2. KeepsAnswers
  BY DEF KeepsAnswers, caches
<1> QED BY <1>1, <1>2, BystandersPreserve

LEMMA LooksUpPreserves ==
  ASSUME ImportInv, NEW c \in Clients, NEW e \in Editions, NEW k \in Clues, LooksUp(c, e, k)
  PROVE  ImportInv'
<1>1. PICK pc \in {"seen", "adding"} : client' = [client EXCEPT ![c] = [pc |-> pc, edition |-> e, clue |-> k]]
  BY DEF LooksUp
<1>2. [pc |-> pc, edition |-> e, clue |-> k] \in Client
  BY DEF Client
<1> QED BY <1>1, <1>2, ClientsPreserve DEF LooksUp

LEMMA StepPreserves ==
  ASSUME ImportInv, NEW c \in Clients, NEW pc \in {"idle", "polling", "ready"}, Step(c, pc),
         UNCHANGED <<caches, job, work, crashes>>
  PROVE  ImportInv'
<1>1. client[c] \in Client
  BY DEF ImportInv, ImportTypeOK
<1>2. [client[c] EXCEPT !.pc = pc] \in Client
  BY <1>1 DEF Client
<1>3. client' = [client EXCEPT ![c] = [client[c] EXCEPT !.pc = pc]]
  BY DEF Step
<1> QED BY <1>2, <1>3, ClientsPreserve

LEMMA NewJobIsJob ==
  ASSUME NEW k \in Clues PROVE NewJob(k) \in Job
BY DEF NewJob, Job, Progress, Row

LEMMA AddsPreserves ==
  ASSUME ImportInv, NEW c \in Clients, Adds(c)
  PROVE  ImportInv'
<1>1. PICK e \in Editions, k \in Clues : e = client[c].edition /\ k = client[c].clue
  BY DEF ImportInv, ImportTypeOK, Client
<1>2. CASE job[e] # None
  <2>1. UNCHANGED <<caches, job, work, crashes>> /\ Step(c, "polling")
    BY <1>1, <1>2 DEF Adds
  <2> QED BY <2>1, StepPreserves
<1>3. CASE job[e] = None
  <2>1. job' = [job EXCEPT ![e] = NewJob(k)] /\ UNCHANGED <<caches, work, crashes>>
    BY <1>1, <1>3 DEF Adds
  <2>2. NewJob(k) \in Job /\ NewJob(k) # None
    BY NewJobIsJob, AbsenceAssumption
  <2>3. job' \in [Editions -> Job \cup {None}] /\ job'[e] = NewJob(k)
        /\ \A f \in Editions \ {e} : job'[f] = job[f]
    BY <2>1, <2>2 DEF ImportInv, ImportTypeOK
  <2>4. work # None => work.edition \in Editions \ {e}
    BY <1>3 DEF ImportInv, InHandIsActive, ImportTypeOK, Work
  <2>5. ImportTypeOK'
    <3>1. client' \in [Clients -> Client]
      BY DEF Adds, Step, ImportInv, ImportTypeOK, Client
    <3> QED BY <2>1, <2>3, <2>4, <3>1 DEF ImportInv, ImportTypeOK, caches
  <2>6. KeepsAnswers
    BY <2>1 DEF KeepsAnswers, caches
  <2>7. Counted' /\ CachedSoFar'
    BY <2>1, <2>3, <2>4, <2>6, WorkStays
  <2>8. Honest(e)' /\ WarmIfDone(e)'
    BY <2>3 DEF Honest, WarmIfDone, NewJob
  <2>9. \A f \in Editions : Honest(f)' /\ WarmIfDone(f)'
    BY <2>3, <2>6, <2>8, OthersStay
  <2>10. InHandIsActive' /\ ActiveIsInHand'
    BY <2>1, <2>3, <2>4 DEF ImportInv, InHandIsActive, ActiveIsInHand, NewJob
  <2> QED BY <2>5, <2>7, <2>9, <2>10 DEF ImportInv
<1> QED BY <1>2, <1>3

LEMMA CleansPreserves ==
  ASSUME ImportInv, NEW e \in Editions, Cleans(e)
  PROVE  ImportInv'
<1>1. job' \in [Editions -> Job \cup {None}] /\ job'[e] = None
      /\ \A f \in Editions \ {e} : job'[f] = job[f]
  BY DEF Cleans, ImportInv, ImportTypeOK
<1>2. work # None => work.edition \in Editions \ {e}
  BY DEF Cleans, ImportInv, InHandIsActive, ImportTypeOK, Work
<1>3. ImportTypeOK'
  BY <1>1, <1>2 DEF Cleans, ImportInv, ImportTypeOK, caches
<1>4. KeepsAnswers
  BY DEF Cleans, KeepsAnswers, caches
<1>5. Counted' /\ CachedSoFar'
  BY <1>1, <1>2, <1>4, WorkStays DEF Cleans
<1>6. \A f \in Editions : Honest(f)' /\ WarmIfDone(f)'
  BY <1>1, <1>4, OthersStay DEF Honest, WarmIfDone
<1>7. InHandIsActive' /\ ActiveIsInHand'
  BY <1>1, <1>2 DEF Cleans, ImportInv, InHandIsActive, ActiveIsInHand
<1> QED BY <1>3, <1>5, <1>6, <1>7 DEF ImportInv

\* Whoever else asks only replaces what is open.
LEMMA OthersAskPreserves ==
  ASSUME ImportInv, OthersAsk
  PROVE  ImportInv'
<1>1. series' \in [Clues -> Row] /\ cover' \in [Isbns -> Row]
  BY DEF OthersAsk, ImportInv, ImportTypeOK, Row
<1>2. ImportTypeOK'
  BY <1>1 DEF OthersAsk, ImportInv, ImportTypeOK
<1>3. KeepsAnswers
  <2>1. \A row \in {"found", "absent"} : ~Open(row)
    BY AbsenceAssumption DEF Open, Statuses
  <2> QED BY <2>1 DEF OthersAsk, KeepsAnswers, ImportInv, ImportTypeOK
<1> QED BY <1>2, <1>3, BystandersPreserve DEF OthersAsk

\* What fades is asked of nobody any more: every job has met a failure.
LEMMA FadesPreserves ==
  ASSUME ImportInv, Fades
  PROVE  ImportInv'
<1>1. /\ page' \in [PageNumbers -> {None, "records", "junk"}]
      /\ series' \in [Clues -> Row] /\ cover' \in [Isbns -> Row]
  BY DEF Fades, ImportInv, ImportTypeOK, Row, Statuses
<1>2. \A f \in Editions :
        /\ job'[f] # None <=> job[f] # None
        /\ job[f] # None => /\ job'[f] \in Job /\ ~job'[f].clean
                            /\ job'[f].state = job[f].state /\ job'[f].got = job[f].got
                            /\ job'[f].progress = job[f].progress
  <2> TAKE f \in Editions
  <2>1. job'[f] = IF job[f] = None THEN None ELSE [job[f] EXCEPT !.clean = FALSE]
    BY DEF Fades, Soiled, Soil
  <2>2. job[f] # None => job[f] \in Job
    BY DEF ImportInv, ImportTypeOK
  <2>3. CASE job[f] = None
    BY <2>1, <2>3
  <2>4. CASE job[f] # None
    <3>1. PICK j : j = [job[f] EXCEPT !.clean = FALSE]
      OBVIOUS
    <3>2. /\ j \in Job /\ j.clean = FALSE
          /\ j.state = job[f].state /\ j.got = job[f].got /\ j.progress = job[f].progress
      BY <2>2, <2>4, <3>1 DEF Job
    <3>3. job'[f] = j /\ j # None
      BY <2>1, <2>4, <3>1, <3>2, AbsenceAssumption
    <3> QED BY <2>4, <3>2, <3>3
  <2> QED BY <2>3, <2>4
<1>3. job' \in [Editions -> Job \cup {None}]
  BY <1>2 DEF Fades, Soiled
<1>4. UNCHANGED <<work, client, crashes>>
  BY DEF Fades
<1>5. work # None => work.edition \in Editions
  BY DEF ImportInv, ImportTypeOK, Work
<1>6. ImportTypeOK'
  BY <1>1, <1>2, <1>3, <1>4, <1>5 DEF ImportInv, ImportTypeOK
<1>7. InHandIsActive' /\ ActiveIsInHand'
  BY <1>2, <1>4, <1>5 DEF ImportInv, InHandIsActive, ActiveIsInHand
<1>8. Counted'
  BY <1>2, <1>4, <1>5 DEF ImportInv, InHandIsActive, Counted, Resolved, Got
<1>9. CachedSoFar'
  BY <1>2, <1>4, <1>5 DEF ImportInv, InHandIsActive, CachedSoFar
<1>10. \A f \in Editions : Honest(f)' /\ WarmIfDone(f)'
  <2> TAKE f \in Editions
  <2>1. Honest(f)
    BY DEF ImportInv
  <2>2. Honest(f)'
    BY <1>2, <2>1 DEF Honest, Got
  <2>3. WarmIfDone(f)'
    BY <1>2 DEF WarmIfDone
  <2> QED BY <2>2, <2>3
<1> QED BY <1>6, <1>7, <1>8, <1>9, <1>10 DEF ImportInv

LEMMA CrashPreserves ==
  ASSUME ImportInv, Crash
  PROVE  ImportInv'
<1>1. work' = None /\ UNCHANGED <<caches>> /\ crashes' \in 0..MaxCrashes
  BY ImportAssumption DEF Crash, ImportInv, ImportTypeOK
<1>2. client' \in [Clients -> Client]
  BY DEF Crash, ImportInv, ImportTypeOK, Client
<1>3. \A f \in Editions :
        \/ job'[f] = job[f] /\ (job[f] # None => job[f].state # "active")
        \/ /\ job'[f] \in Job /\ job[f] # None /\ job'[f].state = "waiting"
           /\ job'[f].got = job[f].got /\ job'[f].progress = job[f].progress
  <2> TAKE f \in Editions
  <2>1. CASE work # None /\ f = work.edition
    <3>1. job[f] \in Job /\ job[f] # None
      BY <2>1 DEF ImportInv, ImportTypeOK
    <3>2. job'[f] = [job[f] EXCEPT !.state = "waiting"]
      BY <2>1 DEF Crash, ImportInv, ImportTypeOK
    <3> QED BY <3>1, <3>2 DEF Job
  <2>2. CASE ~(work # None /\ f = work.edition)
    BY <2>2 DEF Crash, ImportInv, ImportTypeOK, ActiveIsInHand
  <2> QED BY <2>1, <2>2
<1>4. job' \in [Editions -> Job \cup {None}]
  <2>1. DOMAIN job' = Editions /\ job' = [f \in DOMAIN job' |-> job'[f]]
    BY DEF Crash, ImportInv, ImportTypeOK
  <2> QED BY <1>3, <2>1 DEF ImportInv, ImportTypeOK
<1>5. ImportTypeOK'
  BY <1>1, <1>2, <1>4 DEF ImportInv, ImportTypeOK, caches
<1>6. KeepsAnswers
  BY <1>1 DEF KeepsAnswers, caches
<1>7. \A f \in Editions : Honest(f)' /\ WarmIfDone(f)'
  <2> TAKE f \in Editions
  <2>1. CASE job'[f] = job[f]
    BY <1>6, <2>1, OthersStay
  <2>2. CASE /\ job'[f] \in Job /\ job[f] # None /\ job'[f].state = "waiting"
             /\ job'[f].got = job[f].got /\ job'[f].progress = job[f].progress
    BY <2>2 DEF ImportInv, Honest, WarmIfDone, Got
  <2> QED BY <1>3, <2>1, <2>2
<1>8. InHandIsActive' /\ ActiveIsInHand' /\ Counted' /\ CachedSoFar'
  BY <1>1, <1>3 DEF InHandIsActive, ActiveIsInHand, Counted, CachedSoFar
<1> QED BY <1>5, <1>7, <1>8 DEF ImportInv

-----------------------------------------------------------------------------
(* The steps of the import in hand.                                        *)

\* A step about one edition leaves the others honest and warm.
LEMMA OneEditionMoves ==
  ASSUME ImportInv, KeepsAnswers, NEW e \in Editions,
         \A f \in Editions \ {e} : job'[f] = job[f], Honest(e)', WarmIfDone(e)'
  PROVE  \A f \in Editions : Honest(f)' /\ WarmIfDone(f)'
BY OthersStay

LEMMA StartsPreserves ==
  ASSUME ImportInv, NEW e \in Editions, Starts(e)
  PROVE  ImportInv'
<1> DEFINE w == [edition |-> e, phase |-> "pages", page |-> 0, lookup |-> None, left |-> {},
                 busy |-> {}, done |-> 0, total |-> 0]
<1>1. w \in Work /\ w # None
  <2>1. w \in Work
    BY CatalogueAssumption DEF Work, Row
  <2> QED BY <2>1, AbsenceAssumption
<1>2. job[e] \in Job /\ job[e].clue \in Clues
  BY DEF Starts, ImportInv, ImportTypeOK, Job
<1>3. PICK j : j = NewJob(job[e].clue) /\ j \in Job
  BY <1>2, NewJobIsJob
<1>4. /\ job'[e] = [job[e] EXCEPT !.state = "active", !.got = j.got, !.progress = j.progress]
      /\ DOMAIN job' = Editions /\ job' = [f \in DOMAIN job' |-> job'[f]]
      /\ \A f \in Editions \ {e} : job'[f] = job[f]
  BY <1>3 DEF Starts, Announced, ImportInv, ImportTypeOK
<1>5. /\ job'[e] \in Job /\ job'[e] # None /\ job'[e].state = "active"
      /\ job'[e].got = [v \in Volumes |-> None]
      /\ job'[e].progress = [phase |-> "enumerating", done |-> 0, total |-> 0]
  <2>1. job'[e] \in Job /\ job'[e].state = "active" /\ job'[e].got = j.got
        /\ job'[e].progress = j.progress
    BY <1>2, <1>3, <1>4 DEF Job
  <2> QED BY <1>3, <2>1, AbsenceAssumption DEF NewJob
<1>6. work' = w /\ UNCHANGED <<caches, client, crashes>> /\ work = None
  BY DEF Starts
<1>7. ImportTypeOK'
  <2>1. job' \in [Editions -> Job \cup {None}]
    BY <1>4, <1>5 DEF ImportInv, ImportTypeOK
  <2> QED BY <1>1, <1>5, <1>6, <2>1 DEF ImportInv, ImportTypeOK, caches
<1>8. KeepsAnswers
  BY <1>6 DEF KeepsAnswers, caches
<1>9. Honest(e)' /\ WarmIfDone(e)'
  BY <1>5 DEF Honest, WarmIfDone
<1>10. \A f \in Editions : Honest(f)' /\ WarmIfDone(f)'
  BY <1>4, <1>8, <1>9, OneEditionMoves
<1>11. InHandIsActive' /\ ActiveIsInHand'
  BY <1>1, <1>4, <1>5, <1>6 DEF ImportInv, InHandIsActive, ActiveIsInHand
<1>12. Counted'
  BY <1>5, <1>6, CatalogueAssumption DEF Counted, Got
<1>13. CachedSoFar'
  BY <1>6 DEF CachedSoFar
<1> QED BY <1>7, <1>10, <1>11, <1>12, <1>13 DEF ImportInv

\* What a step of the import in hand may do to its job, but for its end.
LEMMA InHand ==
  ASSUME ImportInv, work # None
  PROVE  /\ work \in Work /\ work.edition \in Editions /\ work.page \in 0..Len(Catalogue)
         /\ job[work.edition] \in Job /\ job[work.edition] # None
         /\ job[work.edition].state = "active" /\ job[work.edition].clue \in Clues
BY DEF ImportInv, ImportTypeOK, InHandIsActive, Work, Job

LEMMA SoiledIsJob ==
  ASSUME NEW e, job[e] \in Job
  PROVE  /\ Soil(e) \in Job /\ Soil(e) # None /\ ~Soil(e).clean
         /\ Soil(e).state = job[e].state /\ Soil(e).got = job[e].got
         /\ Soil(e).progress = job[e].progress /\ Soil(e).clue = job[e].clue
BY AbsenceAssumption DEF Soil, Job

LEMMA ReadsPagePreserves ==
  ASSUME ImportInv, ReadsPage
  PROVE  ImportInv'
<1>1. work # None /\ work.phase = "pages" /\ work.page < Len(Catalogue)
  BY DEF ReadsPage, Working, ImportInv, Counted
<1>2. PICK e \in Editions : e = work.edition
  BY <1>1, InHand
<1>3. work \in Work /\ job[e] \in Job /\ job[e].state = "active" /\ job[e] # None
  BY <1>1, <1>2, InHand
<1>4. PICK p \in PageNumbers : p = work.page + 1
  BY <1>1, CatalogueAssumption, InHand DEF PageNumbers
<1>5. /\ UNCHANGED <<series, cover, client, crashes>>
      /\ \/ /\ page[p] # "junk"
            /\ page' = [page EXCEPT ![p] = "records"]
            /\ work' = [work EXCEPT !.page = p, !.phase = IF p = Len(Catalogue) THEN "series" ELSE "pages"]
            /\ job' = job
         \/ /\ page[p] # "records"
            /\ page' \in {[page EXCEPT ![p] = "junk"], page}
            /\ work' = [work EXCEPT !.phase = "series"]
            /\ job' = [job EXCEPT ![e] = Soil(e)]
  BY <1>2, <1>4 DEF ReadsPage
<1>6. /\ work' \in Work /\ work' # None /\ work'.edition = e /\ work'.phase # "covers"
      /\ work'.done = work.done /\ work'.busy = work.busy
      /\ work'.phase = "pages" => work'.page < Len(Catalogue)
  <2>1. /\ work' \in Work /\ work'.edition = e /\ work'.phase # "covers" /\ work'.done = work.done
        /\ work'.busy = work.busy
        /\ work'.phase = "pages" => work'.page < Len(Catalogue)
    <3>1. /\ p \in 0..Len(Catalogue) /\ p <= Len(Catalogue) /\ Len(Catalogue) \in Nat
      BY CatalogueAssumption DEF PageNumbers
    <3>2. CASE work' = [work EXCEPT !.page = p, !.phase = IF p = Len(Catalogue) THEN "series" ELSE "pages"]
      <4>1. /\ work'.page = p /\ work'.edition = e /\ work'.done = work.done
            /\ work'.busy = work.busy /\ work'.phase = IF p = Len(Catalogue) THEN "series" ELSE "pages"
        BY <1>2, <1>3, <3>2 DEF Work
      <4>2. PICK phase \in {"pages", "series"} : work' = [work EXCEPT !.page = p, !.phase = phase]
        BY <3>2
      <4>3. work' \in Work
        BY <1>3, <3>1, <4>2 DEF Work
      <4> QED BY <3>1, <4>1, <4>3
    <3>3. CASE work' = [work EXCEPT !.phase = "series"]
      BY <1>2, <1>3, <3>3 DEF Work
    <3> QED BY <1>5, <3>2, <3>3
  <2> QED BY <2>1, AbsenceAssumption
<1>7. page' \in [PageNumbers -> {None, "records", "junk"}]
  BY <1>4, <1>5 DEF ImportInv, ImportTypeOK
<1>8. KeepsAnswers
  BY <1>4, <1>5 DEF KeepsAnswers, ImportInv, ImportTypeOK
<1>9. /\ job'[e] \in {job[e], Soil(e)} /\ job' \in [Editions -> Job \cup {None}]
      /\ \A f \in Editions \ {e} : job'[f] = job[f]
  BY <1>3, <1>5, SoiledIsJob DEF ImportInv, ImportTypeOK
<1>10. /\ job'[e] \in Job /\ job'[e] # None /\ job'[e].state = "active"
       /\ job'[e].got = job[e].got /\ job'[e].progress = job[e].progress
  BY <1>3, <1>9, SoiledIsJob
<1>11. ImportTypeOK'
  BY <1>5, <1>6, <1>7, <1>9, <1>10 DEF ImportInv, ImportTypeOK
<1>12. InHandIsActive' /\ ActiveIsInHand'
  BY <1>2, <1>6, <1>9, <1>10 DEF ImportInv, InHandIsActive, ActiveIsInHand
<1>13. Counted'
  BY <1>1, <1>2, <1>6, <1>10 DEF ImportInv, Counted, Got
<1>14. CachedSoFar'
  <2>1. CASE job'[e] = Soil(e)
    BY <1>3, <1>6, <2>1, SoiledIsJob DEF CachedSoFar
  <2>2. CASE /\ page[p] # "junk"
             /\ page' = [page EXCEPT ![p] = "records"]
             /\ work' = [work EXCEPT !.page = p, !.phase = IF p = Len(Catalogue) THEN "series" ELSE "pages"]
             /\ job' = job
    <3>1. work'.page = p /\ (work'.phase # "pages" => p = Len(Catalogue))
      BY <1>3, <2>2 DEF Work
    <3>2. job[e].clean => \A q \in 1..work.page : page[q] = "records"
      BY <1>1, <1>2 DEF ImportInv, CachedSoFar
    <3>3. job[e].clean => \A q \in 1..p : page'[q] = "records"
      BY <1>3, <1>4, <2>2, <3>2, CatalogueAssumption DEF ImportInv, ImportTypeOK, PageNumbers, Work
    <3> QED BY <1>6, <2>2, <3>1, <3>3 DEF CachedSoFar
  <2>3. CASE job' = [job EXCEPT ![e] = Soil(e)]
    BY <2>1, <2>3 DEF ImportInv, ImportTypeOK
  <2> QED BY <1>5, <2>2, <2>3
<1>15. Honest(e)' /\ WarmIfDone(e)'
  BY <1>3, <1>10 DEF ImportInv, Honest, WarmIfDone, Got
<1>16. \A f \in Editions : Honest(f)' /\ WarmIfDone(f)'
  BY <1>8, <1>9, <1>15, OneEditionMoves
<1> QED BY <1>11, <1>12, <1>13, <1>14, <1>16 DEF ImportInv

\* A lookup keeps an answer that is cached, and what lasts is an answer.
LEMMA LooksForAnswers ==
  ASSUME NEW row \in Row, NEW got \in Statuses, NEW after \in Row, LooksFor(row, got, after)
  PROVE  /\ row \in {"found", "absent"} => after = row
         /\ Lasts(got, after) => got \in {"found", "absent"} /\ after = got
BY AbsenceAssumption DEF LooksFor, Lasts, Row, Statuses

LEMMA FindsSeriesPreserves ==
  ASSUME ImportInv, FindsSeries
  PROVE  ImportInv'
<1>1. work # None /\ work.phase = "series"
  BY DEF FindsSeries, Working
<1>2. PICK e \in Editions, k \in Clues : e = work.edition /\ k = job[e].clue
  BY <1>1, InHand
<1>3. work \in Work /\ work.page \in 0..Len(Catalogue) /\ job[e] \in Job /\ job[e].state = "active"
      /\ job[e] # None
  BY <1>1, <1>2, InHand
<1>4. PICK V : V = Kept(e, work.page)
  OBVIOUS
<1>5. V \subseteq Records /\ Cardinality(V) \in Nat
  BY <1>3, <1>4, KeptAreRecords, FS_CardinalityType
<1>6. PICK got \in Statuses, after \in Row :
        /\ IF e \in Arts THEN got = "absent" /\ after = series[k]
           ELSE LooksFor(series[k], got, after)
        /\ series' = [series EXCEPT ![k] = after]
        /\ work' = [work EXCEPT !.phase = "covers", !.lookup = got, !.left = V,
                                !.total = Cardinality(V)]
        /\ job' = IF e \in Arts \/ Lasts(got, after) THEN job ELSE [job EXCEPT ![e] = Soil(e)]
  BY <1>2, <1>4 DEF FindsSeries, JobClue
<1>7. UNCHANGED <<page, cover, client, crashes>>
  BY DEF FindsSeries
<1>8. work.busy = {} /\ work.done = 0 /\ Got(e) = {} /\ job[e].progress.phase = "enumerating"
      /\ job[e].progress.done = 0 /\ job[e].progress.total = 0
  BY <1>1, <1>2 DEF ImportInv, Counted
<1>9. /\ work' \in Work /\ work' # None /\ work'.edition = e /\ work'.phase = "covers"
      /\ work'.page = work.page /\ work'.lookup = got /\ work'.left = V /\ work'.busy = {}
      /\ work'.done = 0 /\ work'.total = Cardinality(V)
  <2>1. /\ work' \in Work /\ work'.edition = e /\ work'.phase = "covers"
        /\ work'.page = work.page /\ work'.lookup = got /\ work'.left = V /\ work'.busy = {}
        /\ work'.done = 0 /\ work'.total = Cardinality(V)
    BY <1>2, <1>3, <1>5, <1>6, <1>8 DEF Work, Row
  <2> QED BY <2>1, AbsenceAssumption
<1>10. /\ job'[e] = (IF e \in Arts \/ Lasts(got, after) THEN job[e] ELSE Soil(e))
       /\ job' \in [Editions -> Job \cup {None}]
       /\ \A f \in Editions \ {e} : job'[f] = job[f]
  BY <1>3, <1>6, SoiledIsJob DEF ImportInv, ImportTypeOK
<1>11. /\ job'[e] \in Job /\ job'[e] # None /\ job'[e].state = "active"
       /\ job'[e].got = job[e].got /\ job'[e].progress = job[e].progress
       /\ job'[e].clue = k
       /\ job'[e].clean => job[e].clean /\ (e \in Arts \/ Lasts(got, after))
  BY <1>2, <1>3, <1>10, SoiledIsJob
<1>12. series[k] \in Row /\ series' \in [Clues -> Row] /\ series'[k] = after
  BY <1>6 DEF ImportInv, ImportTypeOK
<1>13. /\ series[k] \in {"found", "absent"} => after = series[k]
       /\ e \in Arts \/ Lasts(got, after) => /\ got \in {"found", "absent"}
                                              /\ got = IF e \in Arts THEN "absent" ELSE after
  BY <1>6, <1>12, LooksForAnswers DEF Statuses
<1>14. KeepsAnswers
  BY <1>6, <1>7, <1>12, <1>13 DEF KeepsAnswers, ImportInv, ImportTypeOK
<1>15. ImportTypeOK'
  BY <1>7, <1>9, <1>10, <1>11, <1>12 DEF ImportInv, ImportTypeOK
<1>16. InHandIsActive' /\ ActiveIsInHand'
  BY <1>2, <1>9, <1>10, <1>11 DEF ImportInv, InHandIsActive, ActiveIsInHand
<1>17. Resolved' = {}
  BY <1>4, <1>9 DEF Resolved
<1>18. Counted'
  <2>1. Got(e)' = {}
    BY <1>8, <1>11 DEF Got
  <2>2. Cardinality(Resolved') = 0 /\ {t.volume : t \in Resolved'} = {}
    BY <1>17, FS_EmptySet
  <2>3. Cardinality(Resolved)' = 0 /\ {t.volume : t \in Resolved}' = {}
    BY <2>2
  <2>4. work'.left \cup work'.busy \subseteq V /\ work'.left \cap work'.busy = {}
    BY <1>9
  <2>5. PICK p : /\ p = job'[e].progress /\ p.phase = "enumerating"
                 /\ p.done = 0 /\ p.total = 0
    BY <1>8, <1>11
  <2>6. /\ work'.edition = e /\ work'.phase = "covers" /\ work'.page = work.page /\ work'.done = 0
        /\ work'.total = Cardinality(V)
    BY <1>9
  <2> QED BY <1>4, <2>1, <2>3, <2>4, <2>5, <2>6 DEF Counted
<1>19. CachedSoFar'
  <2>1. job[e].clean => /\ \A q \in 1..work.page : page[q] = "records"
                        /\ work.page = Len(Catalogue)
    BY <1>1, <1>2 DEF ImportInv, CachedSoFar
  <2>2. /\ work'.edition = e /\ work'.page = work.page /\ work'.phase = "covers"
        /\ work'.lookup = got /\ job'[e].clue = k /\ UNCHANGED page
    BY <1>7, <1>9, <1>11
  <2>3. job'[e].clean => /\ job[e].clean /\ got \in {"found", "absent"}
                         /\ got = IF e \in Arts THEN "absent" ELSE series'[k]
    BY <1>11, <1>12, <1>13
  <2>4. job'[e].clean => /\ \A q \in 1..work'.page : page'[q] = "records"
                         /\ work'.page = Len(Catalogue) /\ work'.lookup \in {"found", "absent"}
                         /\ work'.lookup = IF e \in Arts THEN "absent" ELSE series'[k]
    BY <2>1, <2>2, <2>3
  <2> QED BY <1>17, <2>2, <2>4 DEF CachedSoFar
<1>20. Honest(e)' /\ WarmIfDone(e)'
  <2>1. Honest(e)
    BY DEF ImportInv
  <2>2. Honest(e)'
    BY <1>3, <1>11, <2>1 DEF Honest, Got
  <2>3. WarmIfDone(e)'
    BY <1>11 DEF WarmIfDone
  <2> QED BY <2>2, <2>3
<1>21. \A f \in Editions : Honest(f)' /\ WarmIfDone(f)'
  BY <1>10, <1>14, <1>20, OneEditionMoves
<1> QED BY <1>15, <1>16, <1>18, <1>19, <1>21 DEF ImportInv

LEMMA TakesPreserves ==
  ASSUME ImportInv, Takes
  PROVE  ImportInv'
<1>1. work # None /\ work.phase = "covers"
  BY DEF Takes, Working
<1>2. work \in Work /\ work.edition \in Editions /\ job[work.edition] # None
  BY <1>1, InHand
<1>3. PICK t \in work.left : work' = [work EXCEPT !.left = @ \ {t}, !.busy = @ \cup {t}]
  BY DEF Takes, Lowest
<1>4. UNCHANGED <<caches, job, client, crashes>>
  BY DEF Takes
<1>5. work.left \subseteq Records /\ work.busy \subseteq Records
  BY <1>2 DEF Work
<1>6. /\ work' \in Work /\ work'.edition = work.edition /\ work'.phase = work.phase
      /\ work'.page = work.page /\ work'.lookup = work.lookup /\ work'.done = work.done
      /\ work'.total = work.total
      /\ work'.left = work.left \ {t} /\ work'.busy = work.busy \cup {t}
  BY <1>2, <1>3, <1>5 DEF Work
<1>7. work' # None
  BY <1>6, AbsenceAssumption
<1>8. work'.left \cup work'.busy = work.left \cup work.busy
  BY <1>6
<1>9. Resolved' = Resolved
  BY <1>6, <1>8 DEF Resolved
<1>10. ImportTypeOK'
  BY <1>2, <1>4, <1>6 DEF ImportInv, ImportTypeOK, caches
<1>11. InHandIsActive' /\ ActiveIsInHand'
  BY <1>1, <1>4, <1>6, <1>7 DEF ImportInv, InHandIsActive, ActiveIsInHand
<1>12. Counted'
  <2>1. work'.left \cap work'.busy = {}
    BY <1>1, <1>3, <1>6 DEF ImportInv, Counted
  <2>2. Got(work.edition)' = Got(work.edition)
    BY <1>4, <1>6 DEF Got
  <2>3. Cardinality(Resolved)' = Cardinality(Resolved)
        /\ {u.volume : u \in Resolved}' = {u.volume : u \in Resolved}
    BY <1>9
  <2> QED BY <1>1, <1>4, <1>6, <1>8, <2>1, <2>2, <2>3 DEF ImportInv, Counted
<1>13. CachedSoFar'
  <2>1. \A u, k : Served(work.edition, k, u)' = Served(work.edition, k, u)
    BY <1>4, <1>6 DEF Served, caches
  <2> QED BY <1>1, <1>4, <1>6, <1>9, <2>1 DEF ImportInv, CachedSoFar, caches
<1>14. KeepsAnswers
  BY <1>4 DEF KeepsAnswers, caches
<1>15. \A f \in Editions : Honest(f)' /\ WarmIfDone(f)'
  BY <1>4, <1>14, OthersStay
<1> QED BY <1>10, <1>11, <1>12, <1>13, <1>15 DEF ImportInv

LEMMA BreaksPreserves ==
  ASSUME ImportInv, Breaks
  PROVE  ImportInv'
<1>1. work # None /\ work' = None /\ UNCHANGED <<caches, client, crashes>>
  BY DEF Breaks
<1>2. PICK e \in Editions : e = work.edition
  BY <1>1, InHand
<1>3. job' \in [Editions -> Job \cup {None}] /\ job'[e] = None
      /\ \A f \in Editions \ {e} : job'[f] = job[f]
  BY <1>2 DEF Breaks, ImportInv, ImportTypeOK
<1>4. ImportTypeOK'
  BY <1>1, <1>3 DEF ImportInv, ImportTypeOK, caches
<1>5. KeepsAnswers
  BY <1>1 DEF KeepsAnswers, caches
<1>6. \A f \in Editions : Honest(f)' /\ WarmIfDone(f)'
  BY <1>3, <1>5, OthersStay DEF Honest, WarmIfDone
<1>7. ActiveIsInHand'
  BY <1>2, <1>3 DEF ImportInv, ActiveIsInHand
<1> QED BY <1>1, <1>4, <1>6, <1>7 DEF ImportInv, InHandIsActive, Counted, CachedSoFar

LEMMA CompletesPreserves ==
  ASSUME ImportInv, Completes
  PROVE  ImportInv'
<1>1. /\ work # None /\ work.phase = "covers" /\ work.busy = {} /\ work.left = {}
      /\ work' = None /\ UNCHANGED <<caches, client, crashes>>
  BY DEF Completes, Working
<1>2. PICK e \in Editions, k \in Clues : e = work.edition /\ k = job[e].clue
  BY <1>1, InHand
<1>3. work \in Work /\ work.page \in 0..Len(Catalogue) /\ job[e] \in Job /\ job[e].state = "active"
      /\ job[e] # None
  BY <1>1, <1>2, InHand
<1>4. job' = [job EXCEPT ![e] = [job[e] EXCEPT !.state = "completed"]]
  BY <1>2 DEF Completes
<1>5. /\ job'[e] \in Job /\ job'[e] # None /\ job'[e].state = "completed" /\ job'[e].clue = k
      /\ job'[e].got = job[e].got /\ job'[e].progress = job[e].progress
      /\ job'[e].clean = job[e].clean
      /\ \A f \in Editions \ {e} : job'[f] = job[f]
      /\ job' \in [Editions -> Job \cup {None}]
  <2>1. [job[e] EXCEPT !.state = "completed"] \in Job
    BY <1>3 DEF Job
  <2>2. [job[e] EXCEPT !.state = "completed"] # None
    BY <2>1, AbsenceAssumption
  <2> QED BY <1>2, <1>3, <1>4, <2>1, <2>2 DEF ImportInv, ImportTypeOK, Job
<1>6. Resolved = Kept(e, work.page)
  BY <1>1, <1>2 DEF Resolved
<1>7. PICK p : p = job[e].progress
  OBVIOUS
<1>8. p \in Progress
  BY <1>3, <1>7 DEF Job
<1>9. /\ p.phase = "covers" => p.done = work.done /\ p.total = work.total
      /\ p.phase = "enumerating" => p.done = 0 /\ p.total = 0 /\ work.done = 0
      /\ work.total = Cardinality(Kept(e, work.page)) /\ work.done = Cardinality(Kept(e, work.page))
  BY <1>1, <1>2, <1>6, <1>7 DEF ImportInv, Counted
<1>10. job[e].clean => /\ \A q \in 1..work.page : page[q] = "records"
                       /\ work.page = Len(Catalogue)
                       /\ work.lookup \in {"found", "absent"}
                       /\ work.lookup = IF e \in Arts THEN "absent" ELSE series[k]
                       /\ \A t \in Kept(e, work.page) : /\ job[e].got[t.volume] # "unresolved"
                                                        /\ job[e].got[t.volume] = Served(e, k, t)
  BY <1>1, <1>2, <1>6 DEF ImportInv, CachedSoFar
<1>11. KeepsAnswers
  BY <1>1 DEF KeepsAnswers, caches
<1>12. Honest(e)'
  <2>1. p.done = p.total /\ p.done = Cardinality(Kept(e, work.page)) /\ p.done <= p.total
    BY <1>8, <1>9 DEF Progress
  <2>2. job[e].clean => p.done = Cardinality(Tomes(e))
    BY <1>10, <2>1 DEF Tomes
  <2>3. p.phase = "covers" => p.done = Cardinality(Got(e))
    BY <1>3, <1>7 DEF ImportInv, Honest
  <2>4. Got(e)' = Got(e)
    BY <1>5 DEF Got
  <2> QED BY <1>5, <1>7, <2>1, <2>2, <2>3, <2>4 DEF Honest
<1>13. WarmIfDone(e)'
  <2>1. \A t : Served(e, k, t)' = Served(e, k, t)
    BY <1>1 DEF Served, caches
  <2>2. job[e].clean => Warm(e, k)'
    BY <1>1, <1>10, <2>1 DEF Warm, Tomes, PageNumbers, caches
  <2>3. job[e].clean => \A t \in Tomes(e) : Served(e, k, t)' = job[e].got[t.volume]
    BY <1>10, <2>1 DEF Tomes
  <2>4. job[e].clean => e \in Arts \/ series'[k] \in {"found", "absent"}
    BY <1>1, <1>10 DEF caches
  <2> QED BY <1>5, <2>2, <2>3, <2>4 DEF WarmIfDone
<1>14. \A f \in Editions : Honest(f)' /\ WarmIfDone(f)'
  BY <1>5, <1>11, <1>12, <1>13, OneEditionMoves
<1>15. ImportTypeOK'
  BY <1>1, <1>5 DEF ImportInv, ImportTypeOK, caches
<1>16. ActiveIsInHand'
  BY <1>2, <1>5 DEF ImportInv, ActiveIsInHand
<1> QED BY <1>1, <1>14, <1>15, <1>16 DEF ImportInv, InHandIsActive, Counted, CachedSoFar

\* A cover resolved is one volume more, and no other volume's status.
LEMMA ResolvesCoverPreserves ==
  ASSUME ImportInv, NEW t, ResolvesCover(t)
  PROVE  ImportInv'
<1>1. work # None /\ work.phase = "covers" /\ t \in work.busy
  BY DEF ResolvesCover, Working
<1>2. PICK e \in Editions, k \in Clues : e = work.edition /\ k = job[e].clue
  BY <1>1, InHand
<1>3. work \in Work /\ work.page \in 0..Len(Catalogue) /\ job[e] \in Job /\ job[e].state = "active"
      /\ job[e] # None
  BY <1>1, <1>2, InHand
<1>4. PICK V, R : V = Kept(e, work.page) /\ R = Resolved
  OBVIOUS
<1>5. PICK p : p = job[e].progress
  OBVIOUS
<1>6. /\ work.left \cup work.busy \subseteq V /\ work.left \cap work.busy = {}
      /\ R = V \ (work.left \cup work.busy)
      /\ work.total = Cardinality(V) /\ work.done = Cardinality(R)
      /\ Got(e) = {u.volume : u \in R}
  BY <1>1, <1>2, <1>4 DEF ImportInv, Counted, Resolved
<1>7. t \in V /\ t \notin R /\ R \cup {t} \subseteq V
  BY <1>1, <1>6
<1>8. \A u \in V : u \in Tome /\ u.volume \in Volumes /\ u \in Records /\ (u.volume = t.volume => u = t)
  BY <1>3, <1>4, <1>7, KeptAreRecords, OneTomePerVolume
<1>9. Cardinality(R) \in Nat /\ Cardinality(R \cup {t}) = Cardinality(R) + 1
      /\ Cardinality(R \cup {t}) <= Cardinality(V) /\ Cardinality(V) \in Nat
      /\ Cardinality({u.volume : u \in R \cup {t}}) = Cardinality(R \cup {t})
  <2>1. IsFiniteSet(R) /\ Cardinality(R) \in Nat
    BY <1>3, <1>4, <1>7, VolumesAreCounted
  <2>2. Cardinality(R \cup {t}) = Cardinality(R) + 1
    BY <1>7, <2>1, FS_AddElement
  <2>3. /\ Cardinality(R \cup {t}) <= Cardinality(V)
        /\ Cardinality({u.volume : u \in R \cup {t}}) = Cardinality(R \cup {t})
    <3>1. R \cup {t} \in SUBSET Kept(e, work.page) /\ work.page \in 0..Len(Catalogue)
      BY <1>3, <1>4, <1>7
    <3> QED BY <1>4, <3>1, VolumesAreCounted
  <2>4. Cardinality(V) \in Nat
    BY <1>3, <1>4, KeptAreRecords, FS_CardinalityType
  <2> QED BY <2>1, <2>2, <2>3, <2>4
<1>10. PICK got \in Statuses, lasts \in BOOLEAN :
         /\ IF ByManga(t, work.lookup) \/ t.isbn = None
            THEN /\ got = (IF ByManga(t, work.lookup) THEN "found" ELSE "absent")
                 /\ lasts /\ UNCHANGED cover
            ELSE \E after \in Row : /\ LooksFor(cover[t.isbn], got, after)
                                    /\ lasts = Lasts(got, after)
                                    /\ cover' = [cover EXCEPT ![t.isbn] = after]
         /\ job' = [job EXCEPT ![work.edition].got[t.volume] = got,
                               ![work.edition].clean = @ /\ lasts,
                               ![work.edition].progress =
                                 [phase |-> "covers", done |-> work.done + 1, total |-> work.total]]
  BY Zenon DEF ResolvesCover
<1>11. /\ IF ByManga(t, work.lookup) \/ t.isbn = None
          THEN /\ got = (IF ByManga(t, work.lookup) THEN "found" ELSE "absent")
               /\ lasts /\ UNCHANGED cover
          ELSE \E after \in Row : /\ LooksFor(cover[t.isbn], got, after)
                                  /\ lasts = Lasts(got, after)
                                  /\ cover' = [cover EXCEPT ![t.isbn] = after]
       /\ job' = [job EXCEPT ![e].got[t.volume] = got,
                             ![e].clean = @ /\ lasts,
                             ![e].progress = [phase |-> "covers", done |-> work.done + 1,
                                              total |-> work.total]]
  BY <1>2, <1>10
<1>12. /\ work' = [work EXCEPT !.busy = @ \ {t}, !.done = @ + 1]
       /\ UNCHANGED <<page, series, client, crashes>>
  BY DEF ResolvesCover
<1>13. /\ work' \in Work /\ work'.edition = e /\ work'.phase = "covers" /\ work'.page = work.page
       /\ work'.lookup = work.lookup /\ work'.left = work.left /\ work'.busy = work.busy \ {t}
       /\ work'.done = work.done + 1 /\ work'.total = work.total
  <2>1. work.done + 1 \in Nat /\ work.busy \ {t} \in SUBSET Records
    BY <1>3 DEF Work
  <2>2. work' \in Work
    BY <1>3, <1>12, <2>1 DEF Work
  <2> QED BY <1>1, <1>2, <1>3, <1>12, <2>2 DEF Work
<1>14. work' # None
  BY <1>13, AbsenceAssumption
<1> DEFINE j == [job[e] EXCEPT !.got = [job[e].got EXCEPT ![t.volume] = got],
                               !.clean = job[e].clean /\ lasts,
                               !.progress = [phase |-> "covers", done |-> work.done + 1,
                                             total |-> work.total]]
<1>15. job' = [job EXCEPT ![e] = j]
  BY <1>11
<1>16. /\ j \in Job /\ j.state = "active" /\ j.clue = k
       /\ j.got = [job[e].got EXCEPT ![t.volume] = got]
       /\ j.clean = (job[e].clean /\ lasts)
       /\ j.progress = [phase |-> "covers", done |-> work.done + 1, total |-> work.total]
  <2>1. [job[e].got EXCEPT ![t.volume] = got] \in [Volumes -> Row]
    BY <1>3 DEF Job, Row
  <2>2. [phase |-> "covers", done |-> work.done + 1, total |-> work.total] \in Progress
    BY <1>3 DEF Work, Progress
  <2> QED BY <1>2, <1>3, <2>1, <2>2 DEF Job
<1> HIDE DEF j
<1>17. job'[e] = j /\ j # None /\ job' \in [Editions -> Job \cup {None}]
       /\ \A f \in Editions \ {e} : job'[f] = job[f]
  BY <1>15, <1>16, AbsenceAssumption DEF ImportInv, ImportTypeOK
<1>18. job[e].got \in [Volumes -> Row] /\ t.volume \in Volumes
  BY <1>3, <1>7, <1>8 DEF Job
<1>19. j.got[t.volume] = got /\ \A v \in Volumes \ {t.volume} : j.got[v] = job[e].got[v]
  BY <1>16, <1>18
<1>20. cover' \in [Isbns -> Row]
  BY <1>11 DEF ImportInv, ImportTypeOK
<1>21. t \in Tome /\ (t.isbn # None => t.isbn \in Isbns)
  BY <1>7, <1>8 DEF Tome
<1>22. KeepsAnswers
  <2>1. cover \in [Isbns -> Row]
    BY DEF ImportInv, ImportTypeOK
  <2>2. ASSUME NEW i \in Isbns, cover[i] \in {"found", "absent"} PROVE cover'[i] = cover[i]
    <3>1. CASE UNCHANGED cover
      BY <3>1
    <3>2. CASE \E after \in Row : /\ LooksFor(cover[t.isbn], got, after)
                                  /\ cover' = [cover EXCEPT ![t.isbn] = after] /\ t.isbn # None
      <4>1. PICK after \in Row : /\ LooksFor(cover[t.isbn], got, after)
                                 /\ cover' = [cover EXCEPT ![t.isbn] = after] /\ t.isbn # None
        BY <3>2
      <4>2. cover[t.isbn] \in {"found", "absent"} => after = cover[t.isbn]
        BY <1>21, <2>1, <4>1, LooksForAnswers
      <4> QED BY <2>1, <2>2, <4>1, <4>2
    <3> QED BY <1>11, <3>1, <3>2
  <2> QED BY <1>12, <2>2 DEF KeepsAnswers
<1>23. ImportTypeOK'
  BY <1>12, <1>13, <1>16, <1>17, <1>20 DEF ImportInv, ImportTypeOK
<1>24. InHandIsActive' /\ ActiveIsInHand'
  BY <1>2, <1>13, <1>14, <1>16, <1>17 DEF ImportInv, InHandIsActive, ActiveIsInHand
<1>25. Resolved' = R \cup {t}
  BY <1>1, <1>4, <1>6, <1>7, <1>13 DEF Resolved
<1>26. Got(e)' = {u.volume : u \in R \cup {t}}
  <2>1. got # None
    BY <1>11, AbsenceAssumption
  <2>2. Got(e)' = {v \in Volumes : j.got[v] # None}
    BY <1>17 DEF Got
  <2>3. Got(e)' = Got(e) \cup {t.volume}
    BY <1>18, <1>19, <2>1, <2>2 DEF Got
  <2> QED BY <1>6, <2>3
<1>27. Counted'
  <2>1. /\ work'.left \cup work'.busy \subseteq V /\ work'.left \cap work'.busy = {}
        /\ work'.total = Cardinality(V) /\ work'.done = Cardinality(R \cup {t})
    BY <1>6, <1>9, <1>13
  <2>2. Cardinality(Resolved)' = Cardinality(R \cup {t})
        /\ {u.volume : u \in Resolved}' = {u.volume : u \in R \cup {t}}
    BY <1>25
  <2>3. PICK q : /\ q = job'[e].progress /\ q.phase = "covers"
                 /\ q.done = work.done + 1 /\ q.total = work.total
    BY <1>16, <1>17
  <2>4. /\ work'.edition = e /\ work'.phase = "covers" /\ work'.page = work.page
        /\ work'.done = work.done + 1 /\ work'.total = work.total
    BY <1>13
  <2> QED BY <1>4, <1>26, <2>1, <2>2, <2>3, <2>4 DEF Counted
<1>28. Honest(e)'
  <2>1. Cardinality(Got(e))' = work.done + 1 /\ work.done + 1 <= work.total
    BY <1>6, <1>9, <1>26
  <2> QED BY <1>16, <1>17, <2>1 DEF Honest
<1>29. CachedSoFar'
  <2>1. SUFFICES ASSUME j.clean
                 PROVE  /\ \A q \in 1..work.page : page[q] = "records"
                        /\ work.page = Len(Catalogue)
                        /\ work.lookup \in {"found", "absent"}
                        /\ work.lookup = IF e \in Arts THEN "absent" ELSE series[k]
                        /\ \A u \in R \cup {t} : /\ j.got[u.volume] # "unresolved"
                                                 /\ j.got[u.volume] = Served(e, k, u)'
    <3>1. j.clue = k /\ job'[e] = j /\ UNCHANGED <<page, series>>
      BY <1>12, <1>16, <1>17
    <3>2. /\ work'.edition = e /\ work'.page = work.page /\ work'.lookup = work.lookup
          /\ work'.phase = "covers"
      BY <1>13
    <3> QED BY <1>25, <2>1, <3>1, <3>2 DEF CachedSoFar
  <2>2. job[e].clean /\ lasts /\ got \in {"found", "absent"}
    <3>1. job[e].clean /\ lasts
      BY <1>16, <2>1
    <3>2. CASE ByManga(t, work.lookup) \/ t.isbn = None
      BY <1>11, <3>1, <3>2
    <3>3. CASE ~(ByManga(t, work.lookup) \/ t.isbn = None)
      <4>1. cover[t.isbn] \in Row
        BY <1>21, <3>3 DEF ImportInv, ImportTypeOK
      <4>2. PICK after \in Row : LooksFor(cover[t.isbn], got, after) /\ lasts = Lasts(got, after)
        BY <1>11, <3>3
      <4> QED BY <3>1, <4>1, <4>2, LooksForAnswers
    <3> QED BY <3>1, <3>2, <3>3
  <2>3. /\ \A q \in 1..work.page : page[q] = "records"
        /\ work.page = Len(Catalogue)
        /\ work.lookup \in {"found", "absent"}
        /\ work.lookup = IF e \in Arts THEN "absent" ELSE series[k]
        /\ \A u \in R : /\ job[e].got[u.volume] # "unresolved"
                        /\ job[e].got[u.volume] = Served(e, k, u)
    BY <1>1, <1>2, <1>4, <2>2 DEF ImportInv, CachedSoFar
  <2>4. \A u \in R : u \in Tome /\ u.volume \in Volumes /\ u.volume # t.volume
    BY <1>6, <1>7, <1>8
  <2>5. \A u \in R : Served(e, k, u)' = Served(e, k, u)
    BY <1>22, <2>3, <2>4, ServedStays DEF ImportInv
  <2>6. got = Served(e, k, t)'
    <3>1. work.lookup = IF e \in Arts THEN "absent" ELSE IF series[k] = None THEN "unresolved" ELSE series[k]
      BY <2>3, AbsenceAssumption DEF Statuses
    <3>2. CASE ByManga(t, work.lookup) \/ t.isbn = None
      BY <1>11, <1>12, <3>1, <3>2 DEF Served
    <3>3. CASE ~(ByManga(t, work.lookup) \/ t.isbn = None)
      <4>1. cover[t.isbn] \in Row /\ t.isbn \in Isbns
        BY <1>21, <3>3 DEF ImportInv, ImportTypeOK
      <4>2. PICK after \in Row : /\ LooksFor(cover[t.isbn], got, after)
                                 /\ lasts = Lasts(got, after)
                                 /\ cover' = [cover EXCEPT ![t.isbn] = after]
        BY <1>11, <3>3
      <4>3. cover'[t.isbn] = got /\ got # None
        <5>1. after = got
          BY <1>11, <2>2, <4>1, <4>2, LooksForAnswers
        <5>2. cover'[t.isbn] = after
          BY <4>1, <4>2 DEF ImportInv, ImportTypeOK
        <5> QED BY <2>2, <5>1, <5>2, AbsenceAssumption DEF Statuses
      <4> QED BY <1>12, <3>1, <3>3, <4>3 DEF Served
    <3> QED BY <3>2, <3>3
  <2> QED BY <1>19, <2>2, <2>3, <2>4, <2>5, <2>6
<1>30. WarmIfDone(e)'
  BY <1>16, <1>17 DEF WarmIfDone
<1>31. \A f \in Editions : Honest(f)' /\ WarmIfDone(f)'
  BY <1>17, <1>22, <1>28, <1>30, OneEditionMoves
<1> QED BY <1>23, <1>24, <1>27, <1>29, <1>31 DEF ImportInv

-----------------------------------------------------------------------------
LEMMA UnchangedPreserves ==
  ASSUME ImportInv, UNCHANGED importVars
  PROVE  ImportInv'
<1>1. ImportTypeOK' /\ KeepsAnswers
  BY DEF importVars, ImportInv, ImportTypeOK, KeepsAnswers
<1> QED BY <1>1, BystandersPreserve DEF importVars

LEMMA NextPreserves == ImportInv /\ [ImportNext]_importVars => ImportInv'
<1> SUFFICES ASSUME ImportInv, [ImportNext]_importVars PROVE ImportInv'
  OBVIOUS
<1>1. ASSUME NEW c \in Clients, NEW e \in Editions, NEW k \in Clues, LooksUp(c, e, k) PROVE ImportInv'
  BY <1>1, LooksUpPreserves
<1>2. ASSUME NEW c \in Clients, Joins(c) \/ Polls(c) \/ Leaves(c) PROVE ImportInv'
  <2>1. PICK pc \in {"idle", "polling", "ready"} : Step(c, pc)
    BY <1>2 DEF Joins, Polls, Leaves
  <2> QED BY <1>2, <2>1, StepPreserves DEF Joins, Polls, Leaves
<1>3. ASSUME NEW c \in Clients, Adds(c) PROVE ImportInv'
  BY <1>3, AddsPreserves
<1>4. ASSUME NEW e \in Editions, Starts(e) PROVE ImportInv'
  BY <1>4, StartsPreserves
<1>5. ASSUME NEW t \in Records, ResolvesCover(t) PROVE ImportInv'
  BY <1>5, ResolvesCoverPreserves
<1>6. ASSUME NEW e \in Editions, Cleans(e) PROVE ImportInv'
  BY <1>6, CleansPreserves
<1> QED BY <1>1, <1>2, <1>3, <1>4, <1>5, <1>6, ReadsPagePreserves, FindsSeriesPreserves,
           TakesPreserves, CompletesPreserves, BreaksPreserves, OthersAskPreserves,
           FadesPreserves, CrashPreserves, UnchangedPreserves DEF ImportNext

LEMMA ImportInvHolds == ImportSpec => []ImportInv
BY InitEstablishes, NextPreserves, PTL DEF ImportSpec

\* An import, its job in Redis and the caches stay of their types
\* (edition-import.processor.ts).
THEOREM ImportTypesHold == ImportSpec => []ImportTypeOK
<1>1. ImportInv => ImportTypeOK
  BY DEF ImportInv
<1> QED BY <1>1, ImportInvHolds, PTL

\* Whatever is catalogued, whoever asks and whatever crashes, an import done
\* without a failure is warm for as long as nothing fades
\* (edition-import.processor.ts:13-22).
THEOREM DoneStaysWarm == ImportSpec => []DoneIsWarm
<1>1. ImportInv => DoneIsWarm
  BY DEF ImportInv, WarmIfDone, DoneIsWarm
<1> QED BY <1>1, ImportInvHolds, PTL

\* The progress of every import is of its present attempt and counts each
\* volume once, for any number of volumes and any pool (search.service.ts:230-233).
THEOREM ProgressIsTrue == ImportSpec => []ProgressIsHonest
<1>1. ImportInv => ProgressIsHonest
  BY DEF ImportInv, Honest, ProgressIsHonest
<1> QED BY <1>1, ImportInvHolds, PTL
=============================================================================
