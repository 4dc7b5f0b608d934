------------------------------ MODULE ScanPivot ------------------------------
(***************************************************************************)
(* A manga scanned by its ISBN (mal.adapter.ts, searchByBarcode): the BnF's *)
(* notice, else Google Books; then MangaDex identifies the series, else MAL *)
(* (with a token), else the notice alone.                                  *)
(*                                                                         *)
(* The sources' content is fixed per behaviour; they may fail at any call. *)
(* The caches are shared by all users, and an identification is cached     *)
(* under its query alone, whoever's authors it was made with.              *)
(***************************************************************************)
EXTENDS Matching

CONSTANTS Requests, Queries, Authors, Titles,
          TitleOf,      \* [Titles -> sequence of tokens]
          QueryOf,      \* [Titles -> [last token kept -> Queries]]: the prefix as a query
          Notices,      \* what the BnF may hold for an ISBN, None included
          Infos,        \* what Google Books may hold for an ISBN, None included
          Lists,        \* what MangaDex may answer to a query
          MalLists,     \* what MAL may answer to a query
          CoverLists    \* what MangaDex may answer to the title of a series without an id

VARIABLES
  notice, info, list, malList,  \* the sources' content
  serverKey,   \* whether MAL_CLIENT_ID is set
  bnfCache,    \* per ISBN: None, or the answer cached (a notice, or "absent")
  identified,  \* per query: None, or the identity cached and the authors given
  malCache,    \* per query: whether MAL's answer is cached
  req          \* per slot, the scan under way or over
world == <<notice, info, list, malList, serverKey>>
vars == <<world, bnfCache, identified, malCache, req>>

\* A notice: 454$t or 500$a, 461$t or 225$a, 200$a, 700/701.
Notice == [original : Queries \cup {None}, series : BOOLEAN, title : Queries \cup {None},
           authors : SUBSET Authors]
Info == [title : Titles, authors : SUBSET Authors]
Identity == [cand : Nat, byAuthor : BOOLEAN, ambiguous : BOOLEAN]

ASSUME SourcesAssumption ==
  /\ Notices \subseteq Notice \cup {None} /\ Infos \subseteq Info \cup {None}
  /\ \A l \in Lists \cup CoverLists : IsPage(l)
ASSUME TitlesAssumption ==
  \A t \in Titles : /\ TitleOf[t] \in Seq(Token)
                    /\ QueryOf[t] \in [DOMAIN TitleOf[t] -> Queries]

Steps == {"idle", "bnf", "google", "climb", "identify", "token", "mal", "done"}
Paths == {"bnf+mangadex", "bnf+mangadex-fr", "gbooks+mangadex", "gbooks_only",
          "bnf+mal", "bnf+mal-fr", "bnf_only", "nothing", "bnf_failed", "error"}
Request == [step : Steps, isbn : Isbns, cut : Nat, path : Paths,
            identity : Identity \cup {None}, volume : Nat \cup {None}]

TypeOK ==
  /\ notice \in [Isbns -> Notice \cup {None}]
  /\ info \in [Isbns -> Info \cup {None}]
  /\ serverKey \in BOOLEAN
  /\ bnfCache \in [Isbns -> {None, "absent", "notice"}]
  /\ identified \in [Queries -> {None} \cup [identity : Identity \cup {None}, authors : SUBSET Authors]]
  /\ malCache \in [Queries -> BOOLEAN]
  /\ req \in [Requests -> Request]

Init ==
  /\ notice \in [Isbns -> Notices] /\ info \in [Isbns -> Infos]
  /\ list \in [Queries -> Lists] /\ malList \in [Queries -> MalLists]
  /\ serverKey \in BOOLEAN
  /\ bnfCache = [i \in Isbns |-> None]
  /\ identified = [q \in Queries |-> None]
  /\ malCache = [q \in Queries |-> FALSE]
  /\ \E i \in Isbns :
       req = [r \in Requests |-> [step |-> "idle", isbn |-> i, cut |-> 0, path |-> "nothing",
                                  identity |-> None, volume |-> None]]

At(r, step) == req[r].step = step
Go(r, step) == req' = [req EXCEPT ![r].step = step]
Ends(r, path) == req' = [req EXCEPT ![r].step = "done", ![r].path = path]

Begins(r, i) ==
  /\ At(r, "idle")
  /\ req' = [req EXCEPT ![r].step = "bnf", ![r].isbn = i]
  /\ UNCHANGED <<world, bnfCache, identified, malCache>>

-----------------------------------------------------------------------------
(* BnfService.resolveByIsbn and what searchByBarcode makes of its answer.  *)

\* extractNotice: the query is the original title, else the French one; the
\* series' title falls back on the French one.
Query(n) == IF n.original # None THEN n.original ELSE n.title
Shown(n) == n.series \/ n.title # None

\* bnfOnlyResult: the notice alone, as an item without a series.
NoticeLost(n) == "nothing"                     \* mutant of NoticeAlone
NoticeAlone(n) == IF Shown(n) THEN "bnf_only" ELSE "nothing"

\* No title at all: nothing to identify with, nor to show.
AfterNotice(r, n) ==
  IF Query(n) # None THEN Go(r, "identify") ELSE Ends(r, NoticeAlone(n))

\* The cached answer, or the SRU's, which is then cached: 30 days for a
\* notice, 24 hours for an absence. Only a confirmed absence opens Google Books.
BnfAnswers(r) ==
  LET i == req[r].isbn IN
  /\ At(r, "bnf")
  /\ bnfCache' = [bnfCache EXCEPT ![i] = IF notice[i] = None THEN "absent" ELSE "notice"]
  /\ IF bnfCache'[i] = "absent" THEN Go(r, "google") ELSE AfterNotice(r, notice[i])
  /\ UNCHANGED <<world, identified, malCache>>

\* bnf_unavailable (the queue, Redis, the network) or bnf_unparsable (a page
\* that is no SRU answer): nothing is cached, the scan ends empty.
BnfUnknown(r) ==                               \* mutant of BnfFails
  /\ At(r, "bnf") /\ bnfCache[req[r].isbn] = None
  /\ Go(r, "google")
  /\ UNCHANGED <<world, bnfCache, identified, malCache>>
BnfFails(r) ==
  /\ At(r, "bnf") /\ bnfCache[req[r].isbn] = None
  /\ Ends(r, "bnf_failed")
  /\ UNCHANGED <<world, bnfCache, identified, malCache>>

-----------------------------------------------------------------------------
(* MangaDexCoverService.identifySeries over MangaDexResolver.identify.     *)

\* What the asker gets and what the cache holds after: the cache's identity;
\* MangaDex's, cached, also when it comes after the asker's 15 seconds; nothing
\* when Redis is down, or when the worker fails and caches that nothing was
\* identified for ten minutes.
Identifies(q, authors, got) ==
  \/ /\ identified[q] # None
     /\ got = identified[q].identity /\ UNCHANGED identified
  \/ /\ identified[q] = None
     /\ LET found == ChooseIdentity(list[q], authors) IN
        /\ got \in {found, None}
        /\ identified' = [identified EXCEPT ![q] = [identity |-> found, authors |-> authors]]
  \/ /\ identified[q] = None /\ got = None
     /\ \/ UNCHANGED identified
        \/ identified' = [identified EXCEPT ![q] = [identity |-> None, authors |-> authors]]

\* The nominal path: the identity is kept whatever it says of ambiguity.
NoticeIdentified(r) ==
  LET n == notice[req[r].isbn] IN
  /\ At(r, "identify")
  /\ \E got \in {None, ChooseIdentity(list[Query(n)], n.authors)}
                \cup {identified[q].identity : q \in {p \in {Query(n)} : identified[p] # None}} :
       /\ Identifies(Query(n), n.authors, got)
       /\ IF got = None THEN Go(r, "token")
          ELSE req' = [req EXCEPT ![r].step = "done", ![r].identity = got,
                 ![r].path = IF n.original # None THEN "bnf+mangadex" ELSE "bnf+mangadex-fr"]
  /\ UNCHANGED <<world, bnfCache, malCache>>

-----------------------------------------------------------------------------
(* googleBooksPivot.                                                       *)

\* resolveVolumeInfo: the title, or null (unknown, failed, late).
GoogleAnswers(r) ==
  /\ At(r, "google")
  /\ \/ Ends(r, "nothing")
     \/ /\ info[req[r].isbn] # None
        /\ Go(r, "climb")
  /\ UNCHANGED <<world, bnfCache, identified, malCache>>

\* gbooksOnlyResult: the volume is that of the first rung that has one.
GoogleOnly(r, cut) ==
  LET title == TitleOf[info[req[r].isbn].title]
      cuts == {c \in Rungs(title) : TailVolume(title, c) # None}
      c == CHOOSE c \in cuts : \A d \in cuts : c <= d
  IN req' = [req EXCEPT ![r].step = "done", ![r].path = "gbooks_only", ![r].cut = cut,
               ![r].volume = IF cuts = {} THEN None ELSE TailVolume(title, c)]

\* An identity without a recognised author, when other works bear the title.
NeverRefused(id) == FALSE                      \* mutant of Refused
Refused(id) == id.ambiguous /\ ~id.byAuthor

\* One rung: an identity ends the climb, kept or refused; none goes on to the
\* next rung, and the last one leaves the minimal item.
Climbs(r) ==
  LET g == info[req[r].isbn]
      title == TitleOf[g.title]
      c == CHOOSE c \in Rungs(title) : c >= req[r].cut /\ \A d \in Rungs(title) : d >= req[r].cut => c <= d
      q == QueryOf[g.title][PrefixOf(title, c)] IN
  /\ At(r, "climb")
  /\ IF \A d \in Rungs(title) : d < req[r].cut
     THEN GoogleOnly(r, req[r].cut) /\ UNCHANGED identified
     ELSE \E got \in {None, ChooseIdentity(list[q], g.authors)}
                     \cup {identified[p].identity : p \in {p \in {q} : identified[p] # None}} :
            /\ Identifies(q, g.authors, got)
            /\ IF got = None THEN req' = [req EXCEPT ![r].cut = c + 1]
               ELSE IF Refused(got) THEN GoogleOnly(r, c)
               ELSE req' = [req EXCEPT ![r].step = "done", ![r].path = "gbooks+mangadex",
                      ![r].cut = c, ![r].identity = got, ![r].volume = TailVolume(title, c)]
  /\ UNCHANGED <<world, bnfCache, malCache>>

-----------------------------------------------------------------------------
(* malPivotFallback.                                                       *)

\* MAL's candidates, or the notice alone.
FromMal(r) ==
  LET n == notice[req[r].isbn]
      b == ChoosePivot(malList[Query(n)], n.authors, n.original = None)
  IN Ends(r, IF b # 0 THEN (IF n.original # None THEN "bnf+mal" ELSE "bnf+mal-fr")
             ELSE NoticeAlone(n))

\* TokenResolverService: the user's own token, the server's for a premium, or
\* none, which reads the cache and calls nobody. Without MAL_CLIENT_ID a
\* premium's scan is a 503.
Resolves(r, source) ==
  LET n == notice[req[r].isbn] IN
  /\ At(r, "token")
  /\ CASE source = "none" /\ malCache[Query(n)] -> FromMal(r)
       [] source = "none" /\ ~malCache[Query(n)] -> Ends(r, NoticeAlone(n))
       [] source = "fallback" /\ ~serverKey -> Ends(r, "error")
       [] OTHER -> Go(r, "mal")
  /\ UNCHANGED <<world, bnfCache, identified, malCache>>

\* getOrFetch: MAL's answer, cached here or by another; the queue down (503),
\* the worker failing or late (502) end the scan with an error.
MalAnswers(r) ==
  /\ At(r, "mal")
  /\ malCache' = [malCache EXCEPT ![Query(notice[req[r].isbn])] = TRUE]
  /\ FromMal(r)
  /\ UNCHANGED <<world, bnfCache, identified>>
MalFails(r) ==
  /\ At(r, "mal") /\ ~malCache[Query(notice[req[r].isbn])]
  /\ Ends(r, "error")
  /\ UNCHANGED <<world, bnfCache, identified, malCache>>

-----------------------------------------------------------------------------
\* A row of a cache expires.
Expires ==
  /\ \/ /\ \E i \in Isbns : bnfCache[i] # None /\ bnfCache' = [bnfCache EXCEPT ![i] = None]
        /\ UNCHANGED <<identified, malCache>>
     \/ /\ \E q \in Queries : identified[q] # None /\ identified' = [identified EXCEPT ![q] = None]
        /\ UNCHANGED <<bnfCache, malCache>>
     \/ /\ \E q \in Queries : malCache[q] /\ malCache' = [malCache EXCEPT ![q] = FALSE]
        /\ UNCHANGED <<bnfCache, identified>>
  /\ UNCHANGED <<world, req>>

Next ==
  \/ \E r \in Requests, i \in Isbns : Begins(r, i)
  \/ \E r \in Requests : BnfAnswers(r)
  \/ \E r \in Requests : BnfFails(r)
  \/ \E r \in Requests : NoticeIdentified(r)
  \/ \E r \in Requests : GoogleAnswers(r)
  \/ \E r \in Requests : Climbs(r)
  \/ \E r \in Requests, s \in {"user", "fallback", "none"} : Resolves(r, s)
  \/ \E r \in Requests : MalAnswers(r)
  \/ \E r \in Requests : MalFails(r)
  \/ Expires

Spec == Init /\ [][Next]_vars

Over(r, paths) == At(r, "done") /\ req[r].path \in paths

\* Google Books speaks only for what the BnF has no notice of: neither an
\* outage of the BnF nor a page that is no answer, however they fall among the
\* cached answers of other scans, opens that path (mal.adapter.ts:294-303).
GoogleOnlyIfUncatalogued ==
  \A r \in Requests : Over(r, {"gbooks+mangadex", "gbooks_only"}) => notice[req[r].isbn] = None

\* On Google's path a series whose title others share is taken only when an
\* author was recognised, also when the identity comes from another scan's
\* search (mal.adapter.ts:389-399, mangadex.types.ts `ambiguous`).
AmbiguousNeedsAuthor ==
  \A r \in Requests : Over(r, {"gbooks+mangadex"}) => (req[r].identity.ambiguous => req[r].identity.byAuthor)

\* When several candidates tie on the title and one is by an author the search
\* was given, the one cached is by such an author (« l'auteur BnF tranche »,
\* mangadex.resolver.ts:180-186).
TieGoesToTheAuthor ==
  \A q \in Queries : identified[q] # None /\ identified[q].identity # None =>
    LET c == list[q][identified[q].identity.cand] IN
    (\E j \in DOMAIN list[q] : /\ list[q][j].title = c.title
                               /\ MatchesAuthor(identified[q].authors, list[q][j].names))
    => MatchesAuthor(identified[q].authors, c.names)

\* A homonym is taken neither by Google's path nor by the search of a series
\* without its author: the two together, at every step of every scan.
HomonymsNeedTheAuthor == AmbiguousNeedsAuthor /\ TieGoesToTheAuthor

\* A notice that can be shown comes back as an item: the scan ends empty or in
\* error neither for want of a series nor of a token, nor with MangaDex down,
\* but for MAL's failure once asked (mal.adapter.ts:473-479, 738-750).
NoticeLostOnlyToMal ==
  \A r \in Requests : Over(r, {"nothing"}) => notice[req[r].isbn] = None \/ ~Shown(notice[req[r].isbn])

\* The covers of a scan that ended on its notice alone, whose series is known by
\* title and authors only, are those of the work: a variant (colourised, not
\* linked to MAL) with the same claim on the title is passed over, whatever the
\* order of MangaDex's answer (mangadex.resolver.ts:323-329).
WorkBeatsVariant ==
  \A r \in Requests : Over(r, {"bnf_only"}) =>
    \A cands \in CoverLists :
      LET names == notice[req[r].isbn].authors
          id == FindManga(cands, None, None, names) IN
      id # None => \E i \in DOMAIN cands :
        /\ cands[i].id = id /\ MatchesAuthor(names, cands[i].names)
        /\ cands[i].mal = None =>
             ~\E j \in DOMAIN cands : /\ cands[j].mal # None /\ MatchesAuthor(names, cands[j].names)
                                      /\ cands[j].title = cands[i].title /\ cands[j].exact = cands[i].exact

(* What does not hold of the code, and is checked by no run.               *)

\* What the comment says of the same: « Échec du repli (aucun candidat, mode
\* dégradé sans jeton…) → notice BnF seule » (mal.adapter.ts:478).
NoticeIsNeverLost ==
  \A r \in Requests : Over(r, {"nothing", "error"}) => notice[req[r].isbn] = None \/ ~Shown(notice[req[r].isbn])

\* The author of the notice settles a tie of titles, whoever's search the
\* identity comes from (« l'auteur de la notice tranche », mangadex.types.ts).
AuthorSettles ==
  \A r \in Requests : Over(r, {"bnf+mangadex", "bnf+mangadex-fr"}) =>
    LET n == notice[req[r].isbn]
        c == list[Query(n)][req[r].identity.cand]
    IN (\E j \in DOMAIN list[Query(n)] : /\ list[Query(n)][j].title = c.title
                                         /\ MatchesAuthor(n.authors, list[Query(n)][j].names))
       => MatchesAuthor(n.authors, c.names)
=============================================================================
