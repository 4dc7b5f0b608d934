----------------------------- MODULE TokenSources -----------------------------
(***************************************************************************)
(* The sources asked with a token (MAL, Discogs, TMDB): TokenResolver,     *)
(* ApiCacheService.getOrFetch, the queue of the source and its processor.  *)
(* Composed with Accounts, which gives and takes the tokens meanwhile.     *)
(*                                                                         *)
(* A request resolves who pays (the user's token, or the server's key for  *)
(* a premium user), looks in the shared cache, and on a miss waits for the *)
(* job of that key; the worker resolves again, for the user the job was    *)
(* made for.  The answer is cached by whoever waited, not by the worker.   *)
(*                                                                         *)
(* One source.  A request that changes nothing (a hit, a 403 without       *)
(* access, a 503 without server key) is not a step.  A refusal by the      *)
(* source, an expired token and an outage are one: the call fails.         *)
(***************************************************************************)
EXTENDS Accounts

CONSTANTS
  Keys,          \* public cache keys
  Fetchers,      \* slots for requests in flight
  Server,        \* the access of a premium user without a token
  HasServerKey,  \* whether the server key of the source is configured
  MaxReleases    \* bound on changes of what the source says of a key

ASSUME ServerAssumption == Server \notin Flows \X (1..MaxCodes) /\ Server # None
ASSUME KeyAssumption == HasServerKey \in BOOLEAN /\ MaxReleases \in Nat

VARIABLES
  premium,     \* users who are premium
  release,     \* per key, how often what the source says has changed
  cache,       \* api_cache, per key: the release of an unexpired row, or None
  job,         \* per job id, the job or None
  fetch,       \* per slot, a request that missed the cache, or None
  last,        \* history: per key, the release last written to the cache
  withdrawn    \* history: tokens that were a credential and are no more
sourceVars == <<premium, release, cache, job, fetch, last>>
vars == <<accountsVars, sourceVars, withdrawn>>

Releases == 0..MaxReleases
Access == Token \cup {Server, None}

\* The id of a job is the hash of the key; no user enters it.
JobIds == Keys \X (Users \cup {None})
OwnJob(k, u) == <<k, u>>                                 \* mutant
JobId(k, u) == <<k, None>>

Job == [state : {"waiting", "active", "completed"}, user : Users, access : Access,
        gone : SUBSET Token, answer : Releases]
Fetch == [pc : {"missed", "waiting", "answered"}, key : Keys, user : Users, access : Access,
          answer : Releases, overlapped : BOOLEAN]

TypeOK ==
  /\ AccountsTypeOK
  /\ premium \subseteq Users
  /\ release \in [Keys -> Releases]
  /\ cache \in [Keys -> Releases \cup {None}]
  /\ job \in [JobIds -> Job \cup {None}]
  /\ fetch \in [Fetchers -> Fetch \cup {None}]
  /\ last \in [Keys -> Releases]
  /\ withdrawn \subseteq Token

Init ==
  /\ AccountsInit
  /\ premium = {}
  /\ release = [k \in Keys |-> 0]
  /\ cache = [k \in Keys |-> None]
  /\ job = [j \in JobIds |-> None]
  /\ fetch = [f \in Fetchers |-> None]
  /\ last = [k \in Keys |-> 0]
  /\ withdrawn = {}

-----------------------------------------------------------------------------
\* TokenResolverService.resolve.
Resolve(u) ==
  IF credential[u] # None THEN credential[u]
  ELSE IF u \in premium /\ u \in Accounts THEN Server ELSE None

\* Subscriptions and grants come and go (Subscriptions, Invitations).
PremiumChanges(u) ==
  /\ premium' = IF u \in premium THEN premium \ {u} ELSE premium \cup {u}
  /\ UNCHANGED <<release, cache, job, fetch, last>>

\* The source says something else of k.
Release(k) ==
  /\ release[k] < MaxReleases
  /\ release' = [release EXCEPT ![k] = @ + 1]
  /\ UNCHANGED <<premium, cache, job, fetch, last>>

\* malResolvedGet, discogsResolvedGet, tmdbResolvedGet, up to a miss of
\* getOrFetch.  The access is resolved, and dropped: the worker will resolve.
Miss(f, u, k) ==
  /\ fetch[f] = None
  /\ JwtAuthGuard(u)
  /\ Resolve(u) # None
  /\ Resolve(u) = Server => HasServerKey
  /\ cache[k] = None
  /\ fetch' = [fetch EXCEPT ![f] = [pc |-> "missed", key |-> k, user |-> u, access |-> Resolve(u),
                                    answer |-> 0, overlapped |-> FALSE]]
  /\ UNCHANGED <<premium, release, cache, job, last>>

\* enqueueFetch: a job already there is joined, whoever it was made for, and
\* one that is over answers at once.
Enqueue(f) ==
  LET u == fetch[f].user
      j == JobId(fetch[f].key, u) IN
  /\ fetch[f] # None
  /\ fetch[f].pc = "missed"
  /\ IF job[j] = None
     THEN /\ job' = [job EXCEPT ![j] = [state |-> "waiting", user |-> u, access |-> None,
                                        gone |-> {}, answer |-> 0]]
          /\ fetch' = [fetch EXCEPT ![f].pc = "waiting"]
     ELSE /\ fetch' = IF job[j].state = "completed"
                      THEN [fetch EXCEPT ![f].pc = "answered", ![f].answer = job[j].answer]
                      ELSE [fetch EXCEPT ![f].pc = "waiting"]
          /\ UNCHANGED job
  /\ UNCHANGED <<premium, release, cache, last>>

WaitingFor(j) ==
  {f \in Fetchers : fetch[f] # None /\ fetch[f].pc = "waiting"
                      /\ JobId(fetch[f].key, fetch[f].user) = j}

\* 502 or 503: Redis is away, 15 seconds went by, the event was lost.
GiveUp(f) ==
  /\ fetch[f] # None
  /\ fetch[f].pc \in {"missed", "waiting"}
  /\ fetch' = [fetch EXCEPT ![f] = None]
  /\ UNCHANGED <<premium, release, cache, job, last>>

\* The job is over without an answer: it leaves no trace (removeOnFail), and
\* all who wait for it get a 502.
Failed(j) ==
  /\ job' = [job EXCEPT ![j] = None]
  /\ fetch' = [f \in Fetchers |-> IF f \in WaitingFor(j) THEN None ELSE fetch[f]]

AskersAccess(j) ==                                       \* mutant of AccessOf
  IF WaitingFor(j) = {} THEN Resolve(job[j].user)
  ELSE fetch[CHOOSE f \in WaitingFor(j) : TRUE].access
AccessOf(j) == Resolve(job[j].user)

\* The processor: the user of the job may have lost his access since.
Take(j) ==
  LET access == AccessOf(j) IN
  /\ job[j] # None
  /\ job[j].state = "waiting"
  /\ IF access = None \/ (access = Server /\ ~HasServerKey)
     THEN Failed(j)
     ELSE /\ job' = [job EXCEPT ![j].state = "active", ![j].access = access, ![j].gone = withdrawn]
          /\ UNCHANGED fetch
  /\ UNCHANGED <<premium, release, cache, last>>

Answer(j) ==
  /\ job[j] # None
  /\ job[j].state = "active"
  /\ job' = [job EXCEPT ![j].state = "completed", ![j].answer = release[j[1]],
                        ![j].access = None, ![j].gone = {}]
  /\ fetch' = [f \in Fetchers |->
                 IF f \in WaitingFor(j)
                 THEN [fetch[f] EXCEPT !.pc = "answered", !.answer = release[j[1]]] ELSE fetch[f]]
  /\ UNCHANGED <<premium, release, cache, last>>

CallFails(j) ==
  /\ job[j] # None
  /\ job[j].state = "active"
  /\ Failed(j)
  /\ UNCHANGED <<premium, release, cache, last>>

\* The worker's process died: the job is found stalled, waits again, and whoever
\* takes it resolves the token afresh.
Stalls(j) ==
  /\ job[j] # None
  /\ job[j].state = "active"
  /\ job' = [job EXCEPT ![j].state = "waiting", ![j].access = None, ![j].gone = {}]
  /\ UNCHANGED <<premium, release, cache, fetch, last>>

\* removeOnComplete: a minute at least.
Removed(j) ==
  /\ job[j] # None
  /\ job[j].state = "completed"
  /\ job' = [job EXCEPT ![j] = None]
  /\ UNCHANGED <<premium, release, cache, fetch, last>>

\* getOrFetch, the upsert.
Write(f) ==
  LET k == fetch[f].key IN
  /\ fetch[f] # None
  /\ fetch[f].pc = "answered"
  /\ cache' = [cache EXCEPT ![k] = fetch[f].answer]
  /\ last' = [last EXCEPT ![k] = fetch[f].answer]
  /\ fetch' = [g \in Fetchers |->
                 IF g = f THEN None
                 ELSE IF fetch[g] # None /\ fetch[g].key = k
                      THEN [fetch[g] EXCEPT !.overlapped = TRUE] ELSE fetch[g]]
  /\ UNCHANGED <<premium, release, job>>

Expire(k) ==
  /\ cache[k] # None
  /\ cache' = [cache EXCEPT ![k] = None]
  /\ UNCHANGED <<premium, release, job, fetch, last>>

SourceNext ==
  \/ \E u \in Users : PremiumChanges(u)
  \/ \E k \in Keys : Release(k) \/ Expire(k)
  \/ \E f \in Fetchers, u \in Users, k \in Keys : Miss(f, u, k)
  \/ \E f \in Fetchers : Enqueue(f) \/ GiveUp(f) \/ Write(f)
  \/ \E j \in JobIds : Take(j) \/ Answer(j) \/ CallFails(j) \/ Stalls(j) \/ Removed(j)

\* The history of the tokens, after each step.
Withdraw ==
  withdrawn' = withdrawn \cup ({credential[u] : u \in Users} \ ({credential'[u] : u \in Users} \cup {None}))

Next ==
  \/ AccountsNext /\ UNCHANGED sourceVars /\ Withdraw
  \/ SourceNext /\ UNCHANGED <<accountsVars, withdrawn>>
Spec == Init /\ [][Next]_vars

-----------------------------------------------------------------------------
(* Properties.                                                             *)

\* The source is never called with a token that had been disconnected,
\* replaced or deleted with its account when the worker took the job up,
\* however long the job had been waiting for its turn.
NoWithdrawnToken ==
  \A j \in JobIds : job[j] # None /\ job[j].state = "active" => job[j].access \notin job[j].gone

\* The cache goes back to an older answer only under a request that missed it
\* before a fresher answer was written: a request alone never ages the cache.
OlderOnlyByOverlap ==
  \A f \in Fetchers : fetch[f] # None /\ fetch[f].pc = "answered" =>
    fetch[f].overlapped \/ fetch[f].answer >= last[fetch[f].key]

(* What does not hold of the code, and is checked by no run.               *)

\* A request whose user has access is not refused because another's access,
\* whose job it joined, is gone (« Échec worker (MAL indispo) / Redis /
\* timeout »).
RefusedForItself ==
  [][\A j \in JobIds : \A f \in WaitingFor(j) :
       job[j].state = "waiting" /\ job'[j] = None => Resolve(fetch[f].user) = None]_vars
=============================================================================
