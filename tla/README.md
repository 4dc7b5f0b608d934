# Formal models of acervatim-backend

acervatim-backend is the API of a collection manager: a NestJS application over
MariaDB (through Prisma) and Redis (through BullMQ), which also talks to Google
Play, Pub/Sub, MyAnimeList, MangaDex, Google Books, the BnF, Discogs and TMDB.
This directory models the parts of it whose correctness depends on the order in
which things happen: TLA+ modules, the TLC runs that check them on small
instances, and theorems that TLAPS proves for instances of any size.

Paths below are relative to the repository, whose application code is under
`src/`.

## The system

| Component | State it keeps | Operations | What is hard |
|---|---|---|---|
| Sharing (`sharing/`, `premium/collection-access.service.ts`) | `collection_shares`, `collection_share_entries`, `collection_share_members` | create, redeem, revoke, revokeMember, list, listReceived, resolveAccess | redeems racing for seats; revocation, ejection and deletions racing with a redeem |
| Guards (`premium/*.guard.ts`, the controllers) | none | who may read or write on each route | some twenty routes name their guards one by one |
| Share filters and pages (`sharing/share-filter.service.ts`, `common/pagination/`) | none | status predicates, pages by cursor, counts | one predicate in SQL and in TypeScript; three reads per page, other writes in between |
| Library (`collections/`, `nodes/`, `items/`, `common/limits/`) | `collections` (with `item_count`), `collection_nodes`, `items` | create, update, remove of each; attachSource | a denormalised counter; purges decided on a snapshot; check, then insert |
| Subscriptions (`subscriptions/`) | `subscriptions` | handleVerify, handleRtdn, the re-verification cron | Google is read before, the row written after; notifications late or repeated |
| Premium status (`premium/premium.service.ts`) | none: reads a grant and a subscription | getStatus | dates at their boundary |
| Invitations and grants (`invitations/`, `scripts/grant-premium.ts`) | `invitations`, `invitation_redemptions`, `premium_grants` | create, redeem, purgeExpired; the command line's add, revoke | claims racing for the last use; two writers of one grant |
| Accounts (`users/`, `auth/`) | `users`, JWTs in the hands of clients | login, first login, deleteMe | two first logins; cascades into every table with requests in flight |
| OAuth (`oauth/`) | pending states in `api_cache`, `oauth_credentials`, a queue per source | start, callback, disconnection; the token of a request | a callback twice, or outliving its account; a job outliving its token |
| Source gateway (`common/cache/`, `common/sources/`, `common/redis/`) | `api_cache`, BullMQ queues, a flag for Redis | resolve a cover, a title, a series | one job per key, waits that time out, attempts, negative rows, crashes |
| Search and matching (`search/`, `common/sources/`, `oauth/providers/mal.adapter.ts`) | none, above the caches | search by barcode, identification, choice of candidates, covers | many fall-backs in order; answers cached under less than was asked |
| Edition import (`search/import/`) | a BullMQ queue | enqueue, status, the processor | look, remove and add are three calls to Redis; restarts |
| HTTP client (`common/http/`) | none | a request with its attempts | what is retried |
| Audit, data export, infrastructure, studies, deployment | `audit_log`; configuration | wiring, crypto, metrics | nothing that a decision reads |

How they interact.  Everything is reached by HTTP requests handled by Node.js: a
handler runs alone until it awaits, and any other handler may run while it
awaits.  Several processes may serve the API, so nothing is assumed of one
process that the database does not ensure.  Workers of BullMQ run
beside the handlers: one job at a time for Google Books, MangaDex and the import, two
for the BnF, MAL and Discogs, four for TMDB.  Sharing reads the library's collections, and
its entries go with them by cascade; every route of a collection goes through
`resolveAccess`, and lists go through the share filter on top.  Premium status
gates writing, and reading a shared collection by the premium of its owner; it
reads one row of invitations and one of subscriptions.  Deleting an account
reaches every table by `ON DELETE CASCADE`.  Searches go to the sources through
the shared cache and the queues: those with a key of the server through the
source gateway, those with a user's token through the OAuth adapters.  An import
warms the caches that a later search reads.

What makes each component correct:

- *Sharing and guards*: seats are never oversold; nobody reads what no live share
  they joined exposes; a revocation or an ejection is final; no row is orphaned; what
  the lists say is what the routes let through; a member never writes.
- *Lists*: a page never repeats a row, a row that stayed is not missed, nothing is
  shown that was not visible, lists, counts and unit reads agree.
- *Library*: `item_count` counts; a volume is in a series of its own collection;
  a wished-for series survives its last volume and another goes; limits hold.
- *Subscriptions*: nobody is premium without a payment Google reported; one
  purchase serves one account; a row ends up saying what Google says.
- *Invitations*: uses are claims; grants stay within uses; a redemption
  never takes anything away.
- *Accounts and OAuth*: one account per person; a token is that of an account, from
  a flow it started; what was disconnected stays so; a token taken back is not used.
- *Gateway and import*: an absence was heard, an answer is not asked for twice nor
  written over; what is told is cached; everyone is told; no failure is for good; what
  is done is warm.
- *Search*: only an absence opens the next source; a homonym is not taken on
  its title alone; a notice found is not lost; a variant does not pass for the work.

## Modules

| Module | Role |
|---|---|
| `ShareGrants` | abstract: what sharing promises, as seats that are taken, barred and closed |
| `Sharing` | SharingService and CollectionAccessService; implements `ShareGrants` |
| `SharedReading` | extends `Sharing`: its lists, what an export shows of it, the guards of each route, and the status a refusal becomes |
| `Library` | CollectionsService, NodesService, ItemsService, LimitsService |
| `Listing` | paginate, ShareFilterService, lists and unit reads, PATCH of userData |
| `Premium` | getStatus, as operators over a grant and a subscription |
| `Subscriptions` | SubscriptionsService, its cron, Google Play and Pub/Sub around it; extends `Premium` |
| `Invitations` | InvitationsService and the grant-premium script; extends `Premium` |
| `Accounts` | login, sessions, deletion, OAuth flows and callbacks, stored credentials |
| `TokenSources` | extends `Accounts`: the sources asked with a token, their cache and queue |
| `SourceGateway` | Google Books and MangaDex: cache, queues, workers, waits, Redis's probe |
| `Search` | what the two searches share: the books, by their ISBN |
| `Matching` | which candidate a search takes, and the ladder of a title, as operators |
| `ScanPivot` | extends `Matching`: a manga searched by its barcode over four sources |
| `EditionImport` | the import of an edition: its job, its covers, the clients who poll |
| `MC...` | the modules above for TLC: values, symmetry, constraints |
| `...Proofs` | the theorems about each (`SharingProofs` has those of `SharedReading` too, `TokenSourcesProofs` those of `Accounts`, `SearchProofs` those of `Matching`, `ScanPivot` and `EditionImport`) |

### How state and actions correspond to the code

A variable is a column or a set of rows; an absent row is `Null`, `None`,
`NoUser`, the empty set or 0.  A *history* variable (`issued`, `reported`,
`verified`, `claimed`, `over`, `shut`, `withdrawn`, `last`, `steady`, `seen`, ...)
records what happened for a property to refer to, and no guard that models code
reads it, with one exception: `issued` and `given` stand for ids and codes being
drawn at random and never drawn twice.

A handler is split at the points where others can run.  `Begin...` or
`Check...` does the reads, `Commit...` the writes; `inflight`, or a slot per
request, holds what was read in between.  `Rollback` is every end without
effect.  The database:

- REPEATABLE READ, MariaDB's default: plain reads of a transaction see the
  snapshot of its first read and its own writes; updates, deletes, unique and
  foreign keys act on the rows as they are now.  In `Library` the ownership
  checks come before the transaction, so a request has three moments: Check,
  Open (the snapshot) and Commit.
- A transaction's writes are one step: the rows it wrote stay locked until it
  commits, and no other decision is made on them meanwhile.
- Prisma's `update` and `delete` of a row that is gone fail (P2025), which undoes the
  transaction; `updateMany` reports how many rows it matched.
- A foreign key refuses an insert whose parent is gone; a unique key refuses a
  second row.  A deletion cascades as `prisma/schema.prisma` says.

BullMQ, from how the code uses it: `add` with an id that a job holds keeps that job
and its data; a failed job leaves at once (`removeOnFail`), a completed one stays a
minute or more; a worker has as many jobs in hand as its concurrency (one in
`SourceGateway` and `EditionImport`, any number in `TokenSources`); a job whose worker
died is found stalled and taken up again.

`Sharing`: `CommitRedeem` looks again at the seats (the conditional `updateMany`)
and at the membership (the primary key), not at the revocation or the expiry, as
the code does.  `Access` is `resolveAccess`.  `create` is one step: a collection
never changes owner, so its check can only be stale when the collection is gone,
and then the foreign key refuses.  `SharedReading` adds no action: its operators
are what the lists and the guards answer in a state, for every set `P` of
accounts that might be premium.  A guard throws, and `mapException` is the status
the client gets for it.  `ExportedShares` and `ExportedMemberships` are the two
reads of `exportMe` that speak of sharing.

`Library`: `purgeNodeIfEmpty` decides at Open and deletes at Commit, taking by
cascade what is in the series then.  `itemCount` moves only where the code
moves it.  `attachSource` reads the sources, awaits the provider and writes them
back whole.  The model uses an id again once no row and no request mentions it: uuids
never come back, and a fresh id and a forgotten one cannot be told apart, so this
keeps the state space finite and loses nothing.

`Listing`: a page is `Request` (the guard resolves the statuses), `Scope` (the filter
turns them into ids, or into a condition), `Fetch` (the rows after the cursor, in
order).  Writes are the effects of the accepted requests of `Library`; a PATCH of
userData is a read and a write.  Prisma looks for the cursor's row and the code passes it
over (`skip: 1`): `lost` records that it was gone, or hidden, by then.

`Subscriptions`: `PlayChanges` and `PlayForgets` are Google, which owns the
truth; `Acknowledge` is a 2xx to Pub/Sub.  A refresh writes by user what it read
for a token, as `refreshFromGoogle` does.  The cron reads the rows due once and
then goes through them; one cycle at a time, as they start six hours apart.

`Invitations`: `GrantFrom` is the upsert with an empty update; whether it
inserts is decided at the snapshot.  `GrantAdd`, the script, does overwrite.

`Accounts`: a login looks for the subject, then creates the row or is refused by the
unique key.  `Start` stores who started a flow; a callback reads it (the route is
public), exchanges its code, stores the token, deletes the state: four steps.  A
deletion takes the account, its credential and what cascades, not its JWTs nor the
pending state.  `TokenSources`: a request resolves its token, misses the cache,
joins or makes the job whose id is the hash of the key; the worker resolves again
for the user the job was made for, and once more if the job stalls; whoever waited
writes the cache.  `ApiCacheService.delete` swallows its errors: a pending state it
could not remove is left with the credential stored, which `Fails` after `Store`
leaves too.

`SourceGateway`: `Misses`, `Enqueue`, `GiveUp` are a caller; `Start`, the fetches,
`Process...`, `Warms`, `Finishes` are the worker, a step between each await;
`Backoff`, `Clean`, `Expire` are BullMQ's and the cache's clocks.  A crash puts the
job in hand back, stalled.  One holding `hinted` stands for what only the second
query (title and volume, or authors) finds.  An identity warms the covers of its
series when it has a malId, and any identity may have one or not.

`ScanPivot`: one action per source asked, answering from the cache, anew, or
failing.  The sources' contents are chosen at the start of a behaviour; scores are
computed as the code does, in integers.  Similarity of titles and normalisation of
names are data: a candidate has a title score and a set of names.

`EditionImport`: `LooksUp`, `Joins`, `Adds` are `enqueue`'s calls to Redis, `Polls` is
`status`; the worker reads the pages, finds the series, then resolves the covers,
`Pool` at a time and in any order.  `updateProgress` is not awaited by the code, and
BullMQ applies the calls in their order: here it is part of the step that makes it.  `OthersAsk` is any other user of the caches.
The gateway is there by what it promises, which `SourceGateway` checks and proves:
`LooksFor` rests on `ToldIsCached` (who is told an answer finds it in the cache, but
for its expiry), `OthersAsk` and `Fades` on `AnswersStand` (an answer is written over
only after a crash, or by an identification).  Whether a source has the cover depends
there on who asked first, so any answer may come here.

## Runs

| Run | Shows |
|---|---|
| `sharing` | Three accounts race for the seats of two shares over two collections: seats are never oversold, access only widens by joining, no orphan rows, lists agree with guards and exports, members never write, and every step is one `ShareGrants` allows. |
| `library_one` | One request at a time: the count is exact, a wished-for series stays, an emptied one goes. |
| `library_races` | Two requests interleaved: the count never falls below the items, a volume never strays, and creations racing for the last item pass the limit by less than the requests in flight. |
| `listing` | A list read page by page while its owner writes and its share changes: no row twice, none that stayed missed, none shown that was not visible; lists, counts and unit reads agree; a PATCH nothing overtakes leaves the other keys. |
| `subs_races` | Verifications, notifications and the cron interleaved: nobody is premium unpaid. |
| `subs_one` | One request at a time, a user changing purchase: a row speaks of its own purchase and ends up with Google's last word (liveness). |
| `invitation_races` | Two users, two codes, the command line, purges and deletions: uses are claims, and redeeming never takes premium away. |
| `tokens` | Logins, flows, callbacks, disconnections, deletions and the requests that spend the tokens: a credential is its account's own, a disconnection holds, a withdrawn token is not used, a person has one account, the cache ages only when fetches overlap. |
| `gateway` | Two requests for a cover, or one for a title, a query and its series, with sources and Redis failing and a crash: an absence was heard, what is told is cached, an answer is neither asked for again nor written over, everyone is told, a failed key is answered in the end (liveness). |
| `scan` | Two scans over shared caches, every source answering, silent or failing: Google Books speaks only for what the BnF does not hold, a homonym needs its author, a notice is lost only to MAL's failure, the work beats its variant. |
| `edition_import` | Imports with sources failing or late, a crash, others asking for the same covers: done is warm, progress is of this attempt, a client learns the end (liveness). |
| `import_warm_for_all` | *Violation expected.*  The id of an import leaves out the clue: a client joins the import of one who gave another clue, is told `done`, and finds the series cold under its own key, where `edition-import.controller.ts` promises a warm cache. |

The type invariants are theorems: they were checked with TLC before they were proved,
and are not run again.

### Bounds, and why they are enough

Requests in flight: two.  Every hazard found or excluded is between two
requests: the second half of one and the whole of another.  A third request
adds nothing that the other actions, which may run at any moment, do not.

- `sharing`: three accounts, as an owner and two competitors are needed; two
  seats, for the last of several and for who comes back after an ejection.
  `SeatsApart` looks at a share of two seats alone, as shares do not count each
  other's; with one seat each, two shares expose one collection to one reader.
- `library_*`: two collections where something could stray from one to the other.
  `MaxItems` is 1 in `library_races`: two creations that pass the check together
  still make two items, and a count that has drifted takes the limit to its bound.
  `Volumes` and `Refs` are {} there, as its properties do not speak of them: volume
  numbers only make a write fail (Rollback does that too), and the reference of a
  series only decides which node is found.
- `listing`: pages of one row, three ids, so that a traversal has three pages and a
  cursor can go; two writes, which hide and show, or remove and add, between two of
  them.  The first tables are those of `MCLibraries`: ties of dates, a status of
  each kind, series full, empty and wished for.  `Small` lets a PATCH send one key
  (the merge treats keys apart) and takes two PATCHes at once only when no page is
  being read (a page reads what the database holds, not requests in flight).
- `subs_*`: the clock goes from 0 to 1 and expiries are at 1 or 2: a date is future,
  then past, which is all the code tells apart; the window of the cron covers them.
  `MaxChanges` is 2 where an older answer and a newer one must differ.
- `invitation_races`: two uses, two codes: the last use, and one user with two codes.
- `tokens`: two people, two ids, two flows, two callbacks (one state used twice, or a
  flow after another).  `Phases` explores the three concerns one after the other:
  logins race before any flow, and while the source is asked at most one flow is
  left, whose callback has its token.  What a phase cannot disturb is not
  interleaved with it; the theorems have no such constraint.
- `gateway`: `OneKind` uses one kind of key per behaviour, as kinds share only Redis,
  the worker and the table; a query comes with the series it warms.  Two attempts
  of a cover are a failure that is tried again and one that is for good.
- `scan`: two scans that may share an ISBN or a query; each list of candidates has
  the cases the gates tell apart (nobody; a tie; a near title by an author).
- `edition_import`: two volumes of one edition, one of them catalogued twice, one
  without ISBN, and one of an art edition; two covers at once, hence in any order.  A
  client comes back; a second one looks, joins or adds at the same time, for the art
  edition, without a crash and with well-formed pages.  `OneEdition` imports one edition per behaviour: two
  only share caches, whose entries `OthersAsk` changes at any time.

The theorems lift these bounds for what they state.  `CHECK_DEADLOCK FALSE`
everywhere: once every id, code, try and write is used up, or a scan is over,
nothing is left to do.

### Fairness

- `Subscriptions` (`subs_one`): weak fairness of every request in flight, as calls
  to Google and to the database have timeouts, so each request ends, if only by
  `Rollback`; strong fairness, per purchase, of handling a notification: Pub/Sub
  delivers until it is acknowledged, so a notification is not handled without
  success forever.  Weak fairness would not do: each failure disables the steps
  until the next delivery.
- `SourceGateway` (`gateway`): weak fairness of a caller's next step, since the wait
  has a timeout; of the worker, since each fetch has one; of backoff, cleaning
  and the expiry of an `unresolved` row, which are timers.  Strong fairness of
  starting a job: Redis coming and going disables it, and a queue is first in,
  first out, so a waiting job is not overtaken for ever.
- `EditionImport` (`edition_import`): weak fairness of the handlers and of the worker,
  strong fairness of starting a job, as above, and of a client's poll: the app asks
  every few seconds until an end.

Nothing is assumed of the clock, of Google, of the sources, of users, of the
cron, of crashes or of Redis staying up: `FailedIsAskedAgain` has the source and
Redis staying there as its hypothesis.

## Proofs

TLAPS proves, for any number of accounts, shares, codes, purchases, keys, pages and
requests in flight and for any bounds:

| Module | Theorem | Property |
|---|---|---|
| `SharingProofs` | `TypeCorrect`, `NoOrphans`, `EntriesOfIssuer` | `TypeOK`, `NoOrphanRows`, `EntriesBelongToIssuer` |
| | `SeatsAreRespected`, `AccessWidens` | `SeatsRespected`, `AccessWidensOnlyByJoining` |
| | `Refinement` | `ImplementsShareGrants` |
| | `ListsAgree`, `ReadersAreSeen`, `MembersOnlyRead` | `ReceivedMatchesAccess`, `OwnerSeesWhoReads`, `MembersReadAndNeverWrite` |
| `LibraryProofs` | `TypeCorrect`, `CountCovers`, `NoStrayItem` | `TypeOK`, `ItemCountCoversItems`, `ItemsStayInTheirCollection` |
| | `OvershootIsBounded` | `LimitOvershootBounded` |
| | `CountIsExactAlone`, `SeriesStayAlone` (one request at a time) | `ItemCountExact`, `SeriesStayForAReason` |
| `ListingProofs` | `TypesHold`, `PagesAreDisjoint`, `HiddenStaysHidden` | `TypeOK`, `NoRowTwice`, `OnlyVisibleShown` |
| | `NoSteadyRowIsMissed`, `ViewsAlwaysAgree` | `SteadyRowsListed`, `ViewsAgree` |
| | `LonePatchesKeepOthers` | `LonePatchKeepsOthers` |
| `SubscriptionsProofs` | `TypeCorrect`, `PremiumIsPaid`, `OneHolder` | `TypeOK`, `PremiumOnlyIfPaid`, `OneHolderPerToken` |
| | `RowSpeaksAlone` (one request at a time) | `RowSpeaksOfItsToken` |
| `InvitationsProofs` | `TypeCorrect`, `UsesCountClaims`, `GrantsBounded` | `TypeOK`, `UsesAreClaims`, `GrantsWithinUses` |
| | `GrantsKept`, `TracesKept` | `GrantsNeverWorsen`, `TraceSurvives` |
| `TokenSourcesProofs` | `TypesHold`, `OneAccount` | `TypeOK`, `OneAccountPerSubject` |
| | `CredentialsAlwaysHold`, `DisconnectIsFinal` | `CredentialsHold`, `DisconnectHolds` |
| | `OnlyLiveTokens`, `CacheAgesOnlyByOverlap` | `NoWithdrawnToken`, `OlderOnlyByOverlap` |
| `SourceGatewayProofs` | `TypesHold`, `AbsencesWereHeard` | `TypeOK`, `AbsentWasHeard` |
| | `OneAnswerPerKey`, `NoAnswerIsOverwritten` | `HotIsNotAsked`, `AnswersStand` |
| | `ToldAsCached` | `ToldIsCached` |
| `SearchProofs` | `TypeCorrect`, `GoogleSpeaksLast`, `NoticeComesBack` | `TypeOK`, `GoogleOnlyIfUncatalogued`, `NoticeLostOnlyToMal` |
| | `HomonymsAreRefused`, `WorksAreShown` | `HomonymsNeedTheAuthor`, `WorkBeatsVariant` |
| | `ImportTypesHold` | `ImportTypeOK` |
| | `DoneStaysWarm`, `ProgressIsTrue` | `DoneIsWarm`, `ProgressIsHonest` |

Assumptions are those the modules name: bounds and dates are naturals, the largest
number of items is positive (`TECHNICAL_LIMITS.items`), ids are integers (in
`Listing`, where they are ordered), the marker of an absent row is not a row, the
sets a cardinality is taken of are finite (`Items`, `Users`, and in `Library` the
slots of requests), kinds of keys do not overlap, a volume starts in a series of
its table.  In `ScanPivot` what a source may hold has the shape the code reads: a
page of MangaDex has at most 30 candidates (`MANGA_SEARCH_LIMIT`), with
similarities from 0 to 1, and a title is a sequence of tokens with a query for each
of its prefixes.  In `EditionImport` the catalogue has a first page, and each page is
a list of volumes.

Three theorems have a hypothesis, `OneAtATime`: there is a single slot for requests,
so one begins when no other is in flight, which is how `library_one` and `subs_one`
run.  Without it they are false, as the next section says; with it they say that
each handler is right by itself, whatever came before.

The argument of each:

- *Sharing*.  `Inv` is `TypeOK`, `NoOrphanRows` and `EntriesBelongToIssuer`:
  seats are only safe because a request in flight always speaks of a share that
  was issued and never comes back under the same id.  `SeatsRespected` needs
  finiteness on top and is carried separately.  The refinement maps each action
  to a step of `ShareGrants` or a stutter; a redeem that lands on a revoked share
  maps to a stutter, since its member holds nothing.
- *SharedReading* (in `SharingProofs`).  The three statements are about one state,
  for every set of premium accounts; they follow from `Inv` of `Sharing`: an owner
  is no member of his own share, and a share exposes his collections only.
- *Library*.  `ItemCountCoversItems` is not inductive alone: a removal decrements
  the count of the collection it *read*.  `RequestsAgree` says that a request may
  speak of rows that are gone but never of rows that have become something else;
  with the item's row still there (`ItemStillThere`), the two collections are one.
  `LimitOvershootBounded` needs `Reserved`: summed over an owner's collections, the
  counts and the creations in flight that have passed the check stay below the limit
  plus the number of slots.  The sum is a fold over a finite set, and what it gains
  when one term changes is proved by looking at a smallest set where it would not.
  With one request at a time, what a request read is still so when it commits
  (`StillSo`): a count moves with the volumes it counts, and a purge takes a series
  that is empty and that nobody wishes for.
- *Listing*.  `NoRowTwice` needs `Behind`: every row listed is before the cursor in an
  order no write changes (`created_at` and the id), whatever became of the row.
  `SteadyRowsListed` needs a converse, `NoneMissed`: a steady row is listed or comes
  after the cursor, and the filter lets it through, whatever its form (`Steady`).
  A PATCH that nothing overtook (`alone`) merges into what it read.
  `OnlyVisibleShown` needs `Watched`: what the filter has selected so far was visible
  at some moment of the request.  `Placed` (a volume is in a series that has a
  row, or in none) is what makes the counts those of what is shown.
- *Subscriptions*.  A row is *earned*: its status and date are what Google said
  once, of some purchase its user presented.  `RequestsHonest` carries that from
  the read of Google to the write.  It is some purchase and not the row's own: the
  stronger statement is false (see below) but of one request at a time: then the
  purchase a request read is still its user's when it writes (`StillTheirs`).
- *Invitations*.  `uses` counts `claimed` because a redemption row, or the end of an
  account or a code, is what every claim leaves (`ClaimsLeaveRows`); grants that
  name a code belong to claimants of it (`GrantsAreClaims`).
- *Accounts and TokenSources*.  `AccountsInv` says whose is each half-done thing: a
  pending state and a callback are their starter's, a token is of its callback's
  flow, a flow that is over stays closed, and nothing is left of one that was over
  when its user disconnected (`ShutIsQuiet`).  Each step of `TokenSources` is one
  of `Accounts` or leaves it alone, so the invariant carries over.  `TokenInv` says
  that a withdrawn token never comes back as a credential, `AnswerInv` that the job
  of a key, shared by all, has the freshest answer unless fetches overlapped.
- *SourceGateway*.  Worker and job agree (`InHandIsActive`, `ActiveIsInHand`), what a
  worker says it heard it heard (`StepsAreHeard`); `ColdUntilAnswered` and
  `MissedIsCold` say that, but for a crash, a key has no answer in the cache as long
  as its job has none: from these the two action properties follow.  `ToldIsCached` is
inductive on top of it: the one step that gives a job an answer writes its row, every
other keeps the answer or takes it away, and an identification cannot reach a series
whose job is in hand, as both are in the hand of one worker.
- *ScanPivot and Matching*.  What is cached under a query was chosen from MangaDex's
  answer to it with the authors cached beside it (`IdentitiesFound`), and a scan
  carries its identity from there (`ScansFit`).  That the author settles a tie is
  arithmetic: the author weighs 800, an exact title 200, a rank 2, and a page has 30
  candidates, so 800 > 200 + 2 * 29; the variant that is not linked to MAL loses to
  the work for a like reason, 1000 > 5 * 29.  That a chooser's `CHOOSE` names
  something is `FirstBestIsBest`: among the best scores there is a first.

- *EditionImport*.  `DoneIsWarm` is not inductive: it says nothing of an import that is
  on its way, nor of why a series that is served stays so.  `CachedSoFar` says of an
  import that met no failure that what it has asked for is cached: the pages read, the
  series found, and for each volume resolved the very status it was given.
  `WarmIfDone` adds to `DoneIsWarm` that the series itself is answered: an unanswered
  one may be answered later, and the covers served would change.  `KeepsAnswers` is what
  the steps of all others leave, and a step that does not (`Fades`) takes the claim off
  every job.  `ProgressIsHonest` needs `Counted`: the volumes of the edition are those
  left, those in hand and those resolved, without overlap, and the count shown is that
  of the last, which the job's statuses list.  That a volume is counted once, although
  catalogued twice, is `OneTomePerVolume`: of two records one is earlier.  Volumes are
  counted by bijections between finite sets, so no order on them has to be built.

Out of the prover's reach, hence model-checked only, are the four liveness properties:
`RowsSettle`, `EveryoneIsTold`, `FailedIsAskedAgain`, `ImportsEnd`.  Every invariant and
every action property that a run checks is a theorem.  No recursive operator is used
in any module.

## Where the code does otherwise than it says

Found while modelling.  `import_warm_for_all` is run; the others are stated here, and
where a property is named it is in its module, checked by no run.

*With two requests at once* (all hold with one):

- `items.service.ts:546`: a volume added while its series is purged goes by cascade,
  uncounted, so `itemCount` stays too high (`ItemCountExact`).
- `items.service.ts:552`: a series wished for after the purge's snapshot is deleted;
  `:525`: the last volume leaving and the un-wish of its series each see the other's
  old state, and the empty series stays (`SeriesStayForAReason`).
- `nodes.service.ts:160`: two creations with one source make two nodes
  (`NoSecondNodeForSource`).
- `subscriptions.service.ts:194`: a refresh for an old purchase writes on the row of a
  new one (`RowSpeaksOfItsToken`); `:68`: a verification that read Google earlier
  commits later, after the change was acknowledged (`RowsSettle`).
- `sharing.service.ts:394`: a redeem that read its share before a revocation takes a
  seat after it.  Its member reads nothing through it.
- `items.service.ts:480`: of two PATCHes of one item's userData one loses the keys it
  alone sent (`PatchKeepsOthers`), where `item-user-data.schema.ts` says that only
  the keys sent are updated (it says the last writer wins of `playCount`).
- `identity-resolver.service.ts:69`: the loser of two first logins gets a 500: its P2002
  is mapped to nothing.

*Lists*: a cursor's row removed or hidden between two pages loses the rest of the
traversal, or one row of it; an item created hidden between the two queries of the
exclusion form is shown (`share-filter.service.ts:71`); a series shown for another
reason by then may be skipped.

*Invitations*: an existing grant is left alone even when lapsed (`:151`): the use is
spent and the user is not premium (`ClaimGivesPremium`).

*Premium*: a date of 0 is no date, hence permanent, where the schema says that null is.

*Accounts and tokens*: a JWT is accepted for up to seven days after its account was
deleted; two callbacks with one state both store (`mal.adapter.ts:246`); a token of
one's own that has expired, and cannot be refreshed, hides the server's key a
premium user would have; who joins the job of another whose token is gone is refused
with it (`RefusedForItself`); a completed job kept in Redis can put an older answer
back once the row of the cache has gone; TMDB has no flow.

*Gateway*: an absence told with one hint is told to all, as the hint is not in the key
(`AbsentIsDefinitive`); an identification writes the covers of its series under the
key of a covers job that may write its failure over them (`mangadex.processor.ts:119`).
The HTTP client clears its timer before it reads the body.

*Scan*: « notice BnF seule » is promised (`mal.adapter.ts:478`) where MAL's failure loses
the notice (`:523-528`) (`NoticeIsNeverLost`); an identity is cached under its query
alone, so the author of the first notice decides for the next (`AuthorSettles`).

*Import*: a cover told by a completed job that Redis still holds, when its row has
expired or was lost, is not written back, so an import may be `done` and the cover
cold; a page of the BnF that fails is logged and the import ends `done`; a page that
is no answer is cached for seven days by this path, and not by
`bnf.service.ts:149-151`; a series left `unresolved` is reported as `absent`;
`editionMapping` may ask the BnF when its cache is cold; `removeOnFail` leaves no job
`failed`, so the branch that purges one is never taken; a job that goes between
`getJob` and `getState` is told as queued.

## What is not modelled

Left out of the modelled components, because no decision depends on it: the words of
labels (who may write them is modelled), titles and covers of nodes and items,
descriptive updates of collections, the product id and `autoRenew` of a
subscription, audit rows.  Not modelled at all: the data export (eleven reads, side
by side, of possibly different moments) but for what it tells of sharing, the text
search of each source, what Discogs and TMDB answers become, the parsing of UNIMARC,
normalisation of names, cryptography, configuration, metrics, the study scripts,
migrations, deployment.  The delays between attempts of the HTTP client are left
out: nothing else reads them.  MAL, Discogs and TMDB follow one protocol with one
source in `TokenSources`, whose definitions map to the adapter that shows each part
best. External systems (MariaDB, Redis, BullMQ, Google Play, Pub/Sub, the sources)
are modelled from how the code uses them.

## Plan

Done: sharing with its refinement and its reading side, library, listing,
subscriptions, invitations, accounts and tokens, gateway, scan, import.  What would
come next:

1. An abstract `Entitlement` (premium comes from a live grant or a paid
   subscription), refined by `Subscriptions` and `Invitations` together, with its
   refinement proved.
2. The text search of each source and what its answers become.
