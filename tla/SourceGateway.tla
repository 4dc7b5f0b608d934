---------------------------- MODULE SourceGateway ----------------------------
(***************************************************************************)
(* The way to Google Books and MangaDex: a shared cache in MariaDB, one    *)
(* BullMQ queue and one worker per source, callers who wait for the worker *)
(* 15 seconds at most and never fail                                       *)
(* (common/sources/googlebooks, common/sources/mangadex, common/cache,     *)
(* common/redis).                                                          *)
(*                                                                         *)
(* A key is what is cached under one name, and also the id of its job:     *)
(*   Covers   gbooks:cover:<isbn>      asked with a hint (series title and *)
(*                                     volume) or without one              *)
(*   Infos    gbooks:volume:<isbn>                                         *)
(*   Series   mangadex:series:...      asked with a clue (mangaId, authors)*)
(*   Queries  mangadex:identify:...    asked with the authors or without   *)
(* The question ("full": with the hint, the clue or the authors) is NOT    *)
(* part of the key: who joins a job gets the answer to the question of who *)
(* made it.                                                                *)
(***************************************************************************)
EXTENDS Integers

CONSTANTS Callers, Covers, Infos, Series, Queries,
          SeriesOf,     \* [Queries -> Series]: the series the malId of an identity leads to
          Attempts,     \* [keys -> Nat]: attempts of a job (5 for a cover, 3 for the others)
          Holdings,     \* what a source may hold for a key: subsets of Questions
          MaxCrashes,   \* bound on crashes of the server
          None

\* "plain" is answered to whoever asks, "hinted" needs the hint, clue or authors.
Questions == {"plain", "hinted"}

Keys == Covers \cup Infos \cup Series \cup Queries
Queues == {"gbooks", "mangadex"}
QueueOf(k) == IF k \in Covers \cup Infos THEN "gbooks" ELSE "mangadex"

ASSUME KeysAssumption ==
  /\ Covers \cap (Infos \cup Series \cup Queries) = {}
  /\ Series \cap (Covers \cup Infos \cup Queries) = {}
  /\ Infos \cap Queries = {}
  /\ None \notin Keys
  /\ SeriesOf \in [Queries -> Series]
  /\ Holdings \subseteq SUBSET Questions
ASSUME BoundsAssumption ==
  /\ Attempts \in [Keys -> Nat \ {0}]
  /\ MaxCrashes \in Nat

VARIABLES
  holds,     \* per key, the questions the source has something for
  up,        \* whether the source answers
  redis,     \* whether Redis is reachable
  cache,     \* api_cache, per key: an unexpired row or None
  job,       \* the job of a key's id, or None
  worker,    \* per queue, the job in hand or None (concurrency 1)
  caller,    \* the requests
  crashes
vars == <<holds, up, redis, cache, job, worker, caller, crashes>>

Statuses == {"found", "absent", "unresolved"}
\* ("failed" is BullMQ's state of a failed job it keeps, which removeOnFail excludes.)
\* A cached answer, with the queries the source really answered (a history of
\* the model: the code keeps the status only) and whether it was asked in full.
Entry == [status : Statuses, heard : SUBSET Questions, full : BOOLEAN]
Job == [state : {"waiting", "active", "delayed", "completed", "failed"}, full : BOOLEAN,
        made : Nat, stalled : BOOLEAN, status : Statuses]
Work == [key : Keys, step : {"plain", "hinted", "answered", "failed", "cached", "written"},
         heard : SUBSET Questions, found : BOOLEAN]
Caller == [pc : {"idle", "missed", "waiting"}, key : Keys \cup {None},
           full : BOOLEAN]

TypeOK ==
  /\ holds \in [Keys -> SUBSET Questions]
  /\ up \in BOOLEAN /\ redis \in BOOLEAN
  /\ cache \in [Keys -> Entry \cup {None}]
  /\ job \in [Keys -> Job \cup {None}]
  /\ worker \in [Queues -> Work \cup {None}]
  /\ caller \in [Callers -> Caller]
  /\ crashes \in 0..MaxCrashes

ASSUME NoneAssumption == None \notin Statuses \cup Entry \cup Job \cup Work

Idle == [pc |-> "idle", key |-> None, full |-> FALSE]

Init ==
  /\ holds \in [Keys -> Holdings]
  /\ up = TRUE /\ redis = TRUE
  /\ cache = [k \in Keys |-> None]
  /\ job = [k \in Keys |-> None]
  /\ worker = [q \in Queues |-> None]
  /\ caller = [c \in Callers |-> Idle]
  /\ crashes = 0

-----------------------------------------------------------------------------
(* The callers.                                                            *)

\* The request is answered, with the row's status, the job's or "unresolved".
Told(c) == caller' = [caller EXCEPT ![c] = Idle]

\* The entry of the four requests. An unexpired row answers, whatever it says,
\* and while the probe sees Redis down the answer is "unresolved" at once: these
\* requests, and the reads of the cache alone (cachedCover,
\* cachedSeriesCovers), change nothing.
Misses(c, k, f) ==
  /\ caller[c].pc = "idle"
  /\ cache[k] = None
  /\ caller' = [caller EXCEPT ![c] = [pc |-> "missed", key |-> k, full |-> f]]
  /\ UNCHANGED <<holds, up, redis, cache, job, worker, crashes>>

ResolveCoverAndDescription(c, k, f) == k \in Covers /\ Misses(c, k, f)
ResolveVolumeInfo(c, k) == k \in Infos /\ Misses(c, k, FALSE)
ResolveSeriesCovers(c, k, f) == k \in Series /\ Misses(c, k, f)
IdentifySeries(c, k, f) == k \in Queries /\ Misses(c, k, f)

\* The job an add of an id nobody holds makes: its data are this caller's.
Made(f) == [state |-> "waiting", full |-> f, made |-> 0, stalled |-> FALSE, status |-> "unresolved"]

\* queue.add with the key's id, then waitUntilFinished: a job already there is
\* joined as it is, and one that is over answers at once.
Enqueue(c) ==
  LET k == caller[c].key IN
  /\ caller[c].pc = "missed" /\ redis
  /\ job' = IF job[k] = None THEN [job EXCEPT ![k] = Made(caller[c].full)] ELSE job
  /\ IF job'[k].state = "completed"
     THEN Told(c)
     ELSE caller' = [caller EXCEPT ![c] = [@ EXCEPT !.pc = "waiting", !.full = FALSE]]
  /\ UNCHANGED <<holds, up, redis, cache, worker, crashes>>

\* Redis failed behind the probe's back, or 15 seconds went by: the catch.
NeverLate(c) == FALSE                          \* mutant of Late
Late(c) == caller[c].pc = "waiting"
GiveUp(c) ==
  /\ \/ caller[c].pc = "missed" /\ ~redis
     \/ Late(c)
  /\ Told(c)
  /\ UNCHANGED <<holds, up, redis, cache, job, worker, crashes>>

-----------------------------------------------------------------------------
(* The worker: googlebooks.processor and mangadex.processor over their     *)
(* resolvers.                                                              *)

\* BullMQ hands a waiting job to the queue's worker.
Start(k) ==
  /\ redis /\ job[k] # None /\ job[k].state = "waiting" /\ worker[QueueOf(k)] = None
  /\ job' = [job EXCEPT ![k].state = "active", ![k].status = "unresolved"]
  /\ worker' = [worker EXCEPT ![QueueOf(k)] =
       [key |-> k, step |-> "plain", heard |-> {}, found |-> FALSE]]
  /\ UNCHANGED <<holds, up, redis, cache, caller, crashes>>

\* A cover asked with its hint has a second query, intitle:, behind isbn:.
NoFallback(k) == FALSE                         \* mutant of CanFallback
CanFallback(k) == k \in Covers /\ job[k].full

InHand(q, S, step) == worker[q] # None /\ worker[q].key \in S /\ worker[q].step = step

\* A query is answered 2xx, or HttpClientService throws: a 4xx at once, the
\* network, a 429 or a 5xx after the tries the query has (isbn: 1, intitle: 3,
\* MangaDex 2).
Queries2xx(q, given, next) ==
  /\ up
  /\ worker' = [worker EXCEPT ![q].heard = @ \cup {worker[q].step}, ![q].found = given,
                              ![q].step = next]
Throws(q, next) == ~up /\ worker' = [worker EXCEPT ![q].step = next]

\* fetchCover: without a cover, isbn: is followed by intitle:, and its failure
\* is swallowed when intitle: can still be asked.
FetchCover(q) ==
  LET k == worker[q].key
      given == "plain" \in holds[k] IN
  /\ InHand(q, Covers, "plain")
  /\ \/ Queries2xx(q, given, IF ~given /\ CanFallback(k) THEN "hinted" ELSE "answered")
     \/ Throws(q, IF CanFallback(k) THEN "hinted" ELSE "failed")
  /\ UNCHANGED <<holds, up, redis, cache, job, caller, crashes>>

FetchVolumeByTitle(q) ==
  /\ InHand(q, Covers, "hinted")
  /\ Queries2xx(q, "hinted" \in holds[worker[q].key], "answered") \/ Throws(q, "failed")
  /\ UNCHANGED <<holds, up, redis, cache, job, caller, crashes>>

FetchVolumeInfo(q) ==
  /\ InHand(q, Infos, "plain")
  /\ Queries2xx(q, "plain" \in holds[worker[q].key], "answered") \/ Throws(q, "failed")
  /\ UNCHANGED <<holds, up, redis, cache, job, caller, crashes>>

\* findManga, chooseIdentity (Matching): a clue or an author finds a manga the
\* title alone does not.
Gives(k) == "plain" \in holds[k] \/ (job[k].full /\ "hinted" \in holds[k])

FetchSeriesCovers(q) ==
  /\ InHand(q, Series, "plain")
  /\ Queries2xx(q, Gives(worker[q].key), "answered") \/ Throws(q, "failed")
  /\ UNCHANGED <<holds, up, redis, cache, job, caller, crashes>>

Identify(q) ==
  /\ InHand(q, Queries, "plain")
  /\ Queries2xx(q, Gives(worker[q].key), "answered") \/ Throws(q, "failed")
  /\ UNCHANGED <<holds, up, redis, cache, job, caller, crashes>>

\* The row is written before the job ends: HIT or MISS after an answer,
\* "unresolved" with a short life after a failure, which is then thrown again.
Outcome(w) == IF w.step = "failed" THEN "unresolved" ELSE IF w.found THEN "found" ELSE "absent"
CachesOnce(q, S, next) ==                      \* mutant of Caches
  LET w == worker[q] IN
  /\ InHand(q, S, "answered") \/ InHand(q, S, "failed")
  /\ cache' = IF cache[w.key] # None THEN cache ELSE [cache EXCEPT ![w.key] =
       [status |-> Outcome(w), heard |-> w.heard, full |-> job[w.key].full]]
  /\ worker' = [worker EXCEPT ![q].step = next]
  /\ job' = [job EXCEPT ![w.key].status = Outcome(w)]
  /\ UNCHANGED <<holds, up, redis, caller, crashes>>
Caches(q, S, next) ==
  LET w == worker[q] IN
  /\ InHand(q, S, "answered") \/ InHand(q, S, "failed")
  /\ cache' = [cache EXCEPT ![w.key] =
       [status |-> Outcome(w), heard |-> w.heard, full |-> job[w.key].full]]
  /\ worker' = [worker EXCEPT ![q].step = next]
  /\ job' = [job EXCEPT ![w.key].status = Outcome(w)]
  /\ UNCHANGED <<holds, up, redis, caller, crashes>>

ProcessCover(q) == Caches(q, Covers, "written")
ProcessVolumeInfo(q) == Caches(q, Infos, "written")
ProcessCovers(q) == Caches(q, Series, "written")
\* An identity may have a malId or none; a failure and an absence have none.
ProcessIdentify(q) ==
  \/ Caches(q, Queries, "cached") /\ Outcome(worker[q]) = "found"
  \/ Caches(q, Queries, "written")

\* An identity with a malId warms the covers of its series, found or not: its
\* volumes were asked for together with it. One without writes nothing more.
Volumes(s) == "plain" \in holds[s]
Warms(q) ==
  LET s == SeriesOf[worker[q].key] IN
  /\ InHand(q, Queries, "cached")
  /\ cache' = [cache EXCEPT ![s] = [status |-> IF Volumes(s) THEN "found" ELSE "absent",
                                    heard |-> {"plain"}, full |-> FALSE]]
  /\ worker' = [worker EXCEPT ![q].step = "written"]
  /\ UNCHANGED <<holds, up, redis, job, caller, crashes>>

\* The job is over: its waiters are told. One that failed waits for its next
\* attempt, its id still taken; after the last it leaves (removeOnFail).
RemovedAtOnce(k) == None                       \* mutant of Completed
Completed(k) == [job[k] EXCEPT !.state = "completed"]
FailedKept(k) == [job[k] EXCEPT !.state = "failed"]   \* mutant of Failed
Failed(k) == None
WaitersTold(k) ==
  caller' = [c \in Callers |->
    IF caller[c].pc = "waiting" /\ caller[c].key = k THEN Idle ELSE caller[c]]
Finishes(q) ==
  /\ worker[q] # None /\ worker[q].step = "written" /\ redis
  /\ worker' = [worker EXCEPT ![q] = None]
  /\ LET k == worker[q].key IN
     IF job[k].status # "unresolved"
     THEN /\ job' = [job EXCEPT ![k] = Completed(k)]
          /\ WaitersTold(k)
     ELSE IF job[k].made + 1 < Attempts[k]
     THEN /\ job' = [job EXCEPT ![k].state = "delayed", ![k].made = @ + 1]
          /\ UNCHANGED caller
     ELSE /\ job' = [job EXCEPT ![k] = Failed(k)]
          /\ WaitersTold(k)
  /\ UNCHANGED <<holds, up, redis, cache, crashes>>

\* The backoff of a failed attempt is over.
Backoff(k) ==
  /\ redis /\ job[k] # None /\ job[k].state = "delayed"
  /\ job' = [job EXCEPT ![k].state = "waiting"]
  /\ UNCHANGED <<holds, up, redis, cache, worker, caller, crashes>>

\* removeOnComplete, a minute or more after the end: nobody who missed the
\* cache before is still on the way to the queue.
Clean(k) ==
  /\ redis /\ job[k] # None /\ job[k].state = "completed"
  /\ \A c \in Callers : ~(caller[c].pc = "missed" /\ caller[c].key = k)
  /\ job' = [job EXCEPT ![k] = None]
  /\ UNCHANGED <<holds, up, redis, cache, worker, caller, crashes>>

-----------------------------------------------------------------------------
(* The surroundings.                                                       *)

Expire(k) ==
  /\ cache[k] # None
  /\ cache' = [cache EXCEPT ![k] = None]
  /\ UNCHANGED <<holds, up, redis, job, worker, caller, crashes>>

SourceFlips ==
  /\ up' = ~up
  /\ UNCHANGED <<holds, redis, cache, job, worker, caller, crashes>>

RedisFlips ==
  /\ redis' = ~redis
  /\ UNCHANGED <<holds, up, cache, job, worker, caller, crashes>>

\* The server stops: requests are lost; jobs live in Redis, and one that was
\* in hand is found stalled and waits again.
Crash ==
  /\ crashes < MaxCrashes
  /\ crashes' = crashes + 1
  /\ caller' = [c \in Callers |-> Idle]
  /\ worker' = [q \in Queues |-> None]
  /\ job' = [k \in Keys |->
       IF job[k] # None /\ job[k].state = "active"
       THEN [job[k] EXCEPT !.state = "waiting", !.stalled = TRUE] ELSE job[k]]
  /\ UNCHANGED <<holds, up, redis, cache>>

\* What the worker of a queue does with the job in hand, one step at a time.
Works(q) ==
  \/ FetchCover(q) \/ FetchVolumeByTitle(q) \/ FetchVolumeInfo(q)
  \/ FetchSeriesCovers(q) \/ Identify(q)
  \/ ProcessCover(q) \/ ProcessVolumeInfo(q) \/ ProcessCovers(q) \/ ProcessIdentify(q)
  \/ Warms(q) \/ Finishes(q)

Next ==
  \/ \E c \in Callers, k \in Covers, f \in BOOLEAN : ResolveCoverAndDescription(c, k, f)
  \/ \E c \in Callers, k \in Infos : ResolveVolumeInfo(c, k)
  \/ \E c \in Callers, k \in Series, f \in BOOLEAN : ResolveSeriesCovers(c, k, f)
  \/ \E c \in Callers, k \in Queries, f \in BOOLEAN : IdentifySeries(c, k, f)
  \/ \E c \in Callers : Enqueue(c)
  \/ \E c \in Callers : GiveUp(c)
  \/ \E k \in Keys : Start(k)
  \/ \E q \in Queues : Works(q)
  \/ \E k \in Keys : Backoff(k)
  \/ \E k \in Keys : Clean(k)
  \/ \E k \in Keys : Expire(k)
  \/ SourceFlips
  \/ RedisFlips
  \/ Crash

Spec == Init /\ [][Next]_vars

\* The worker and BullMQ's timers run while Redis is there, the requests go on
\* and the 15 seconds pass, a short-lived row expires.
Fairness ==
  /\ \A c \in Callers : WF_vars(Enqueue(c) \/ GiveUp(c))
  /\ \A k \in Keys : SF_vars(Start(k)) /\ WF_vars(Backoff(k) \/ Clean(k))
  /\ \A q \in Queues : WF_vars(Works(q))
  /\ \A k \in Keys : WF_vars(cache[k] # None /\ cache[k].status = "unresolved" /\ Expire(k))
FairSpec == Spec /\ Fairness

Live(k) == IF cache[k] = None THEN None ELSE cache[k].status

\* One answer per key: a job of Google Books or of an identification never
\* starts when the cache already has the answer, unless a crash came between
\* the row and the end of the job. The id shared by all who ask, and the minute
\* a finished job keeps it, are what a caller that missed the cache before
\* the answer depends on (googlebooks.service.ts:141-150, mangadex.service.ts:150-161).
HotIsNotAsked ==
  [][\A k \in Keys \ Series :
       /\ worker[QueueOf(k)] = None /\ worker'[QueueOf(k)] # None
       /\ worker'[QueueOf(k)].key = k /\ ~job[k].stalled
       => Live(k) \notin {"found", "absent"}]_vars

\* An answer stands until its row expires: nothing is written over it, least of
\* all a failure, whose ten minutes of "unresolved" are for keys nobody answered
\* (googlebooks.processor.ts:69-80), unless a crash came between the row and
\* the end of the job, or an identification reached the series.
AnswersStand ==
  [][\A k \in Keys \ Series :
       Live(k) \in {"found", "absent"} /\ (job[k] # None => ~job[k].stalled)
       => cache'[k] \in {cache[k], None}]_vars

\* What a job tells those who wait for it, and those who join it when it is
\* over, is what the cache tells who comes later: the row says the same, or
\* has expired (googlebooks.processor.ts:40-43,74-82). Of a series only while its
\* job is in hand, an identification may write its row afterwards.
ToldIsCached ==
  \A k \in Keys :
    job[k] # None /\ job[k].status # "unresolved" /\ (k \in Series => job[k].state = "active")
    => Live(k) \in {job[k].status, None}

\* "absent" is cached only after the decisive query was answered 2xx: intitle:
\* for a cover asked with its hint, the only query otherwise
\* (googlebooks.resolver.ts:76-100).
AbsentWasHeard ==
  \A k \in Keys : Live(k) = "absent" =>
    (IF k \in Covers /\ cache[k].full THEN "hinted" ELSE "plain") \in cache[k].heard

\* Every caller is told something: neither a slow worker, nor a failing source,
\* nor Redis going away keeps a request waiting (WAIT_TIMEOUT_MS).
EveryoneIsTold == \A c \in Callers : caller[c].pc # "idle" ~> caller[c].pc = "idle"

\* A key that failed for good can be asked again: once source and Redis stay
\* there, requests that keep coming for a key end up with the source's answer
\* to it, whatever failed before (removeOnFail frees the id,
\* googlebooks.service.ts:159-167).
Answered(k) == Live(k) \in {"found", "absent"} \/ (job[k] # None /\ job[k].status # "unresolved")
Awaited(k) == \E c \in Callers : caller[c].pc = "waiting" /\ caller[c].key = k
FailedIsAskedAgain ==
  \A k \in Keys : <>[](up /\ redis) /\ []<>Awaited(k) => []<>Answered(k)

(* What does not hold of the code, and is checked by no run.               *)

\* What the type says of an absent cover, « Google Books n'a PAS de jaquette
\* pour ce tome » (googlebooks.types.ts): nothing any query would have found.
AbsentIsDefinitive == \A k \in Covers : Live(k) = "absent" => holds[k] = {}
=============================================================================
