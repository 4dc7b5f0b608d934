---------------------------- MODULE EditionImport ----------------------------
(***************************************************************************)
(* « Récupérer toute la série d'un coup »: an import enumerates an edition *)
(* at the BnF and warms the covers of its volumes in the background; the   *)
(* app enqueues it, polls it, then reads the edition from the caches       *)
(* (search/import, search.service.ts, bnf.service.ts enumerateEdition).    *)
(*                                                                         *)
(* The id of an import is its title and edition; one title is modelled.    *)
(* A clue (the malId, or the title alone) says under which key the series' *)
(* covers are cached: it is NOT part of the id. A source answers found or  *)
(* absent according to who asked first (SourceGateway): any answer may     *)
(* come.                                                                   *)
(***************************************************************************)
EXTENDS Search, Integers, FiniteSets, Sequences

CONSTANTS Clients, Editions,
          Arts,         \* art editions: drawn and numbered differently
          Clues,
          Catalogue,    \* the BnF's pages of the title, each a list of volumes
          MangaVolumes, \* the volumes MangaDex has covers of, if it knows the series
          Pool,         \* COVER_RESOLUTION_CONCURRENCY
          MaxCrashes

Tome == [edition : Editions, volume : Nat, isbn : Isbns \cup {None}]
PageNumbers == 1..Len(Catalogue)

\* There is a first page, which is asked for whatever happens.
ASSUME CatalogueAssumption == Catalogue \in Seq(Seq(Tome)) /\ Len(Catalogue) > 0
ASSUME ImportAssumption ==
  /\ Editions # {} /\ Clues # {} /\ Arts \subseteq Editions
  /\ Pool \in Nat \ {0} /\ MaxCrashes \in Nat

VARIABLES
  page,      \* api_cache, per page of the BnF: None, "records" or "junk"
  series,    \* api_cache, per clue: None or a status
  cover,     \* api_cache, per ISBN: None or a status
  job,       \* per edition, the import's job in Redis or None
  work,      \* the import in hand (concurrency 1), or None
  client,
  crashes
importVars == <<page, series, cover, job, work, client, crashes>>

-----------------------------------------------------------------------------
(* enumerateEdition: the volumes of an edition on the first n pages; the   *)
(* first record of a volume wins.                                          *)
Places(n) == UNION {{p} \X DOMAIN Catalogue[p] : p \in 1..n}
Record(x) == Catalogue[x[1]][x[2]]
Earlier(x, y) == x[1] < y[1] \/ (x[1] = y[1] /\ x[2] < y[2])
IsFirst(x, n) ==
  \A y \in Places(n) : Earlier(y, x) =>
    Record(y).edition # Record(x).edition \/ Record(y).volume # Record(x).volume
Kept(e, n) == {Record(x) : x \in {y \in Places(n) : Record(y).edition = e /\ IsFirst(y, n)}}
Tomes(e) == Kept(e, Len(Catalogue))
Records == {Record(x) : x \in Places(Len(Catalogue))}
Volumes == {t.volume : t \in Records}

Statuses == {"found", "absent", "unresolved"}
Row == Statuses \cup {None}
Progress == [phase : {"enumerating", "covers"}, done : Nat, total : Nat]
\* A job, with what a history of the model keeps of it: the status each volume
\* got, and whether all it asked was answered, cached, and is still there.
Job == [state : {"waiting", "active", "completed"}, clue : Clues, progress : Progress,
        got : [Volumes -> Row], clean : BOOLEAN]
\* left are the volumes no loop of the pool has taken yet.
Work == [edition : Editions, phase : {"pages", "series", "covers"}, page : 0..Len(Catalogue),
         lookup : Row, left : SUBSET Records, busy : SUBSET Records, done : Nat, total : Nat]
Client == [pc : {"idle", "seen", "adding", "polling", "ready"}, edition : Editions, clue : Clues]

ASSUME AbsenceAssumption == None \notin Statuses \cup {"records", "junk"} \cup Job \cup Work

ImportTypeOK ==
  /\ page \in [PageNumbers -> {None, "records", "junk"}]
  /\ series \in [Clues -> Row] /\ cover \in [Isbns -> Row]
  /\ job \in [Editions -> Job \cup {None}]
  /\ work \in Work \cup {None} /\ (work # None => job[work.edition] # None)
  /\ client \in [Clients -> Client] /\ crashes \in 0..MaxCrashes

ImportInit ==
  /\ page = [p \in PageNumbers |-> None]
  /\ series = [k \in Clues |-> None] /\ cover = [i \in Isbns |-> None]
  /\ job = [e \in Editions |-> None] /\ work = None
  /\ client \in [Clients -> {[pc |-> "idle", edition |-> CHOOSE e \in Editions : TRUE,
                              clue |-> CHOOSE k \in Clues : TRUE]}]
  /\ crashes = 0

caches == <<page, series, cover>>

-----------------------------------------------------------------------------
(* EditionImportService: enqueue is getJob, then getState or add.          *)

Is(c, pc) == client[c].pc = pc
Step(c, pc) == client' = [client EXCEPT ![c].pc = pc]

LooksUp(c, e, k) ==
  /\ Is(c, "idle")
  /\ client' = [client EXCEPT ![c] = [pc |-> IF job[e] = None THEN "adding" ELSE "seen",
                                      edition |-> e, clue |-> k]]
  /\ UNCHANGED <<caches, job, work, crashes>>

\* getState: a job that went in between is "unknown", told as queued. None is
\* ever "failed": removeOnFail takes it away, so the removal is never reached.
Joins(c) == Is(c, "seen") /\ Step(c, "polling") /\ UNCHANGED <<caches, job, work, crashes>>

\* queue.add: the id of a job that came in between keeps that job and its data.
NewJob(k) == [state |-> "waiting", clue |-> k, got |-> [v \in Volumes |-> None], clean |-> TRUE,
              progress |-> [phase |-> "enumerating", done |-> 0, total |-> 0]]
Adds(c) ==
  LET e == client[c].edition IN
  /\ Is(c, "adding") /\ Step(c, "polling")
  /\ job' = IF job[e] = None THEN [job EXCEPT ![e] = NewJob(client[c].clue)] ELSE job
  /\ UNCHANGED <<caches, work, crashes>>

\* status: null (404) for a job that failed or left, which the app takes as an end.
NullIsQueued(e) == job[e] # None /\ job[e].state = "completed"   \* mutant of Ended
Ended(e) == job[e] # None => job[e].state = "completed"
Polls(c) ==
  LET e == client[c].edition IN
  /\ Is(c, "polling") /\ Ended(e)
  /\ Step(c, IF job[e] = None THEN "idle" ELSE "ready")
  /\ UNCHANGED <<caches, job, work, crashes>>

\* Having read edition-mapping, the app goes on.
Leaves(c) == Is(c, "ready") /\ Step(c, "idle") /\ UNCHANGED <<caches, job, work, crashes>>

-----------------------------------------------------------------------------
(* EditionImportProcessor over warmEditionMapping.                         *)

\* The job's first act is to announce that it enumerates, none done yet.
Silent(e) == job[e].progress                   \* mutant of Announced
Announced(e) == NewJob(job[e].clue).progress
Starts(e) ==
  /\ work = None /\ job[e] # None /\ job[e].state = "waiting"
  /\ work' = [edition |-> e, phase |-> "pages", page |-> 0, lookup |-> None, left |-> {},
              busy |-> {}, done |-> 0, total |-> 0]
  /\ job' = [job EXCEPT ![e].state = "active", ![e].got = NewJob(job[e].clue).got,
                        ![e].progress = Announced(e)]
  /\ UNCHANGED <<caches, client, crashes>>

Working(phase) == work # None /\ work.phase = phase
Soil(e) == [job[e] EXCEPT !.clean = FALSE]

\* fetchEditionRecords: a page from the cache or the BnF; what comes is cached
\* for 7 days, a page without a record included, which ends the search, as a
\* failure does.
ReadsPage ==
  LET p == work.page + 1
      e == work.edition IN
  /\ Working("pages")
  /\ \/ /\ page[p] # "junk"
        /\ page' = [page EXCEPT ![p] = "records"]
        /\ work' = [work EXCEPT !.page = p, !.phase = IF p = Len(Catalogue) THEN "series" ELSE "pages"]
        /\ UNCHANGED job
     \/ /\ page[p] # "records"
        /\ \/ page' = [page EXCEPT ![p] = "junk"]
           \/ page[p] = None /\ UNCHANGED page
        /\ work' = [work EXCEPT !.phase = "series"]
        /\ job' = [job EXCEPT ![e] = Soil(e)]
  /\ UNCHANGED <<series, cover, client, crashes>>

\* A lookup by key: the row; or the answer the job ends with, which is the
\* row's, if the job has not outlived its row (ToldIsCached of SourceGateway);
\* or "unresolved", after a failure or a wait too long, whatever is cached by then.
LooksFor(row, got, after) ==
  IF row # None THEN got = row /\ after = row
  ELSE got = "unresolved" \/ after \in {got, None}

\* What was told is answered, and cached.
Lasts(got, after) == got # "unresolved" /\ after = got

\* MangaDex, by series; never for an art edition.
JobTitle(e) == CHOOSE k \in Clues : k # job[e].clue    \* mutant of JobClue
JobClue(e) == job[e].clue
FindsSeries ==
  LET e == work.edition
      k == JobClue(e) IN
  /\ Working("series")
  /\ \E got \in Statuses, after \in Row :
       /\ IF e \in Arts THEN got = "absent" /\ after = series[k]
          ELSE LooksFor(series[k], got, after)
       /\ series' = [series EXCEPT ![k] = after]
       /\ work' = [work EXCEPT !.phase = "covers", !.lookup = got, !.left = Kept(e, work.page),
                               !.total = Cardinality(Kept(e, work.page))]
       /\ job' = IF e \in Arts \/ Lasts(got, after) THEN job ELSE [job EXCEPT ![e] = Soil(e)]
  /\ UNCHANGED <<page, cover, client, crashes>>

\* mapWithConcurrency: each of the pool's loops takes the next volume.
Lowest(S) == {t \in S : \A u \in S : t.volume <= u.volume}
Takes ==
  /\ Working("covers") /\ Cardinality(work.busy) < Pool
  /\ \E t \in Lowest(work.left) : work' = [work EXCEPT !.left = @ \ {t}, !.busy = @ \cup {t}]
  /\ UNCHANGED <<caches, job, client, crashes>>

\* The cascade of one volume: MangaDex's cover of that number, else none
\* without an ISBN, else Google Books'.
ByManga(t, lookup) == lookup = "found" /\ t.volume \in MangaVolumes
ResolvesCover(t) ==
  LET e == work.edition IN
  /\ Working("covers") /\ t \in work.busy
  /\ \E got \in Statuses, lasts \in BOOLEAN :
       /\ IF ByManga(t, work.lookup) \/ t.isbn = None
          THEN /\ got = (IF ByManga(t, work.lookup) THEN "found" ELSE "absent")
               /\ lasts /\ UNCHANGED cover
          ELSE \E after \in Row : /\ LooksFor(cover[t.isbn], got, after)
                                  /\ lasts = Lasts(got, after)
                                  /\ cover' = [cover EXCEPT ![t.isbn] = after]
       /\ job' = [job EXCEPT ![e].got[t.volume] = got,
                             ![e].clean = @ /\ lasts,
                             ![e].progress = [phase |-> "covers", done |-> work.done + 1,
                                              total |-> work.total]]
  /\ work' = [work EXCEPT !.busy = @ \ {t}, !.done = @ + 1]
  /\ UNCHANGED <<page, series, client, crashes>>

Completes ==
  /\ Working("covers") /\ work.busy = {} /\ work.left = {}
  /\ job' = [job EXCEPT ![work.edition].state = "completed"]
  /\ work' = None
  /\ UNCHANGED <<caches, client, crashes>>

\* The database fails under the import: its only attempt is over, and it is gone.
Breaks ==
  /\ work # None
  /\ job' = [job EXCEPT ![work.edition] = None]
  /\ work' = None
  /\ UNCHANGED <<caches, client, crashes>>

-----------------------------------------------------------------------------
(* The surroundings.                                                       *)

\* Scans and searches of others ask for the same covers and series, and a
\* job that failed is tried again.
Open(row) == row \in {None, "unresolved"}
OthersAsk ==
  /\ \/ \E i \in Isbns : /\ Open(cover[i]) /\ UNCHANGED series
                         /\ \E row \in Statuses : cover' = [cover EXCEPT ![i] = row]
     \/ \E k \in Clues : /\ Open(series[k]) /\ UNCHANGED cover
                         /\ \E row \in Statuses : series' = [series EXCEPT ![k] = row]
  /\ UNCHANGED <<page, job, work, client, crashes>>

\* A row expires, or another lands on it: what a job found stalled after a crash
\* ends with, or, for a series, what an identification caches of it, or a job of
\* the series that one outran (AnswersStand of SourceGateway).
Soiled == [e \in Editions |-> IF job[e] = None THEN None ELSE Soil(e)]
Fades ==
  /\ \/ /\ \E p \in PageNumbers : page[p] # None /\ page' = [page EXCEPT ![p] = None]
        /\ UNCHANGED <<series, cover>>
     \/ /\ \E k \in Clues : series[k] # None
                         /\ \E row \in Row : series' = [series EXCEPT ![k] = row]
        /\ UNCHANGED <<page, cover>>
     \/ /\ \E i \in Isbns : cover[i] # None
                         /\ \E row \in Row : cover' = [cover EXCEPT ![i] = row]
        /\ UNCHANGED <<page, series>>
  /\ job' = Soiled
  /\ UNCHANGED <<work, client, crashes>>

\* removeOnComplete, an hour after the end.
Cleans(e) ==
  /\ job[e] # None /\ job[e].state = "completed"
  /\ job' = [job EXCEPT ![e] = None]
  /\ UNCHANGED <<caches, work, client, crashes>>

\* The server stops; the import in hand is found stalled and starts again.
Crash ==
  /\ crashes < MaxCrashes /\ crashes' = crashes + 1
  /\ work' = None
  /\ job' = IF work = None THEN job ELSE [job EXCEPT ![work.edition].state = "waiting"]
  /\ client' = [c \in Clients |-> IF client[c].pc \in {"seen", "adding"}
                                  THEN [client[c] EXCEPT !.pc = "idle"] ELSE client[c]]
  /\ UNCHANGED <<caches>>

ImportNext ==
  \/ \E c \in Clients, e \in Editions, k \in Clues : LooksUp(c, e, k)
  \/ \E c \in Clients : Joins(c)
  \/ \E c \in Clients : Adds(c)
  \/ \E c \in Clients : Polls(c)
  \/ \E c \in Clients : Leaves(c)
  \/ \E e \in Editions : Starts(e)
  \/ ReadsPage
  \/ FindsSeries
  \/ Takes
  \/ \E t \in Records : ResolvesCover(t)
  \/ Completes
  \/ Breaks
  \/ OthersAsk
  \/ Fades
  \/ \E e \in Editions : Cleans(e)
  \/ Crash

ImportSpec == ImportInit /\ [][ImportNext]_importVars

\* The worker works, jobs are started in the end, the app polls and goes on.
Worker == ReadsPage \/ FindsSeries \/ Takes \/ Completes
          \/ \E t \in Records : ResolvesCover(t)
ImportFairness ==
  /\ \A c \in Clients : WF_importVars(Joins(c)) /\ WF_importVars(Adds(c)) /\ SF_importVars(Polls(c))
  /\ \A e \in Editions : SF_importVars(Starts(e))
  /\ WF_importVars(Worker)
ImportFairSpec == ImportSpec /\ ImportFairness

\* editionMapping, when the pages are cached: the status of a volume.
Served(e, k, t) ==
  LET lookup == IF e \in Arts THEN "absent" ELSE IF series[k] = None THEN "unresolved" ELSE series[k]
  IN IF ByManga(t, lookup) THEN "found"
     ELSE IF t.isbn = None THEN "absent"
     ELSE IF cover[t.isbn] = None THEN "unresolved" ELSE cover[t.isbn]

Warm(e, k) ==
  /\ \A p \in PageNumbers : page[p] = "records"
  /\ \A t \in Tomes(e) : Served(e, k, t) # "unresolved"

\* An import that is done, met no failure and joined no job that had outlived
\* its row leaves the edition warm: the endpoint, which reads the caches alone,
\* shows each volume what the import got for it, as long as no row expires or
\* is lost, whatever crashed, restarted, and whoever else asked for the same
\* covers (edition-import.processor.ts:13-22).
DoneIsWarm ==
  \A e \in Editions : job[e] # None /\ job[e].state = "completed" /\ job[e].clean =>
    /\ Warm(e, job[e].clue)
    /\ \A t \in Tomes(e) : Served(e, job[e].clue, t) = job[e].got[t.volume]

Got(e) == {v \in Volumes : job[e].got[v] # None}

\* The progress the app shows is of this attempt: never more volumes than
\* there are, each counted once, and all of them when the import is done
\* (search.service.ts:230-233), also after a crash in the middle.
ProgressIsHonest ==
  \A e \in Editions : job[e] # None =>
    LET p == job[e].progress IN
    /\ p.done <= p.total
    /\ p.phase = "covers" => p.done = Cardinality(Got(e))
    /\ job[e].state = "completed" => p.done = p.total
    /\ job[e].state = "completed" /\ job[e].clean => p.done = Cardinality(Tomes(e))

\* A client that enqueued an import learns its end: done, or gone with a 404,
\* although the import may fail, be restarted, or vanish between getJob and
\* getState (edition-import.service.ts:57-66).
ImportsEnd == \A c \in Clients : client[c].pc \in {"seen", "adding", "polling"} ~>
                                 client[c].pc \notin {"seen", "adding", "polling"}

\* « deux demandes identiques (même de deux users) partagent le même job »
\* (edition-import.types.ts:43-45) and « quand `done` — re-tape `GET
\* /v1/search/edition-mapping` (cache chaud) » (edition-import.controller.ts:19): who is told `done` finds it warm.
WarmForAll ==
  \A c \in Clients :
    LET e == client[c].edition IN
    Is(c, "ready") /\ job[e] # None /\ job[e].state = "completed" /\ job[e].clean => Warm(e, client[c].clue)
=============================================================================
