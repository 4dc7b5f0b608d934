------------------------- MODULE SourceGatewayProofs -------------------------
(***************************************************************************)
(* Theorems about SourceGateway, for any number of callers and keys, any   *)
(* holdings of the sources, any number of attempts and of crashes.         *)
(***************************************************************************)
EXTENDS SourceGateway, TLAPS

Cold(k) == Live(k) \notin {"found", "absent"}
Decisive(k, full) == IF k \in Covers /\ full THEN "hinted" ELSE "plain"

\* A job is active while a worker has it in hand.
InHandIsActive ==
  \A q \in Queues : worker[q] # None =>
    /\ QueueOf(worker[q].key) = q
    /\ job[worker[q].key] # None /\ job[worker[q].key].state = "active"
ActiveIsInHand ==
  \A k \in Keys : job[k] # None /\ job[k].state = "active" =>
    worker[QueueOf(k)] # None /\ worker[QueueOf(k)].key = k

\* A worker that is about to write an absence has had the decisive answer.
StepsAreHeard ==
  \A q \in Queues : worker[q] # None =>
    LET w == worker[q]
        full == job[w.key].full
    IN /\ w.step = "hinted" => w.key \in Covers /\ full
       /\ w.step = "answered" => w.found \/ Decisive(w.key, full) \in w.heard

\* A key is cold until its job writes an answer, and again when the job wrote
\* that it has none; only a crash lets a job run behind its own answer.
ColdUntilAnswered ==
  \A k \in Keys \ Series : job[k] # None =>
    /\ ~job[k].stalled /\ job[k].state \in {"waiting", "delayed"} => Cold(k)
    /\ job[k].state = "active" =>
         LET step == worker[QueueOf(k)].step IN
         /\ ~job[k].stalled /\ step \notin {"cached", "written"} => Cold(k)
         /\ step \in {"cached", "written"} /\ job[k].status = "unresolved" => Cold(k)

\* Who missed the cache finds the job of the answer written since, or a cold key.
MissedIsCold ==
  \A c \in Callers : \A k \in Keys \ Series :
    caller[c].pc = "missed" /\ caller[c].key = k /\ job[k] = None => Cold(k)

MissedHasKey == \A c \in Callers : caller[c].pc # "idle" => caller[c].key \in Keys

\* The inductive invariant.
Inv ==
  /\ TypeOK /\ InHandIsActive /\ ActiveIsInHand /\ StepsAreHeard
  /\ AbsentWasHeard /\ ColdUntilAnswered /\ MissedIsCold /\ MissedHasKey

USE KeysAssumption, BoundsAssumption, NoneAssumption

-----------------------------------------------------------------------------
LEMMA QueueOfKey == \A k \in Keys : QueueOf(k) \in Queues
BY DEF QueueOf, Queues

LEMMA InitInv == Init => Inv
<1> SUFFICES ASSUME Init PROVE Inv
  OBVIOUS
<1>1. TypeOK
  BY DEF Init, TypeOK, Idle, Caller
<1>2. InHandIsActive /\ ActiveIsInHand /\ StepsAreHeard /\ ColdUntilAnswered
  BY DEF Init, InHandIsActive, ActiveIsInHand, StepsAreHeard, ColdUntilAnswered
<1>3. AbsentWasHeard
  BY DEF Init, AbsentWasHeard, Live, Entry, Statuses
<1>4. MissedIsCold /\ MissedHasKey
  BY DEF Init, Idle, MissedIsCold, MissedHasKey
<1> QED BY <1>1, <1>2, <1>3, <1>4 DEF Inv

\* The records of the tables, field by field.
LEMMA Fields ==
  ASSUME TypeOK
  PROVE  /\ \A q \in Queues : worker[q] # None =>
              /\ worker[q] \in Work /\ worker[q].key \in Keys /\ worker[q].found \in BOOLEAN
              /\ worker[q].heard \subseteq Questions
              /\ worker[q].step \in {"plain", "hinted", "answered", "failed", "cached", "written"}
         /\ \A k \in Keys : job[k] # None =>
              /\ job[k] \in Job /\ job[k].full \in BOOLEAN /\ job[k].status \in Statuses
              /\ job[k].stalled \in BOOLEAN /\ job[k].made \in Nat
BY DEF TypeOK, Work, Job

\* Steps of the callers alone.
LEMMA CallersMove ==
  ASSUME Inv, UNCHANGED <<holds, up, redis, cache, job, worker, crashes>>,
         caller' \in [Callers -> Caller], MissedIsCold', MissedHasKey'
  PROVE  Inv'
<1>1. TypeOK' /\ InHandIsActive' /\ ActiveIsInHand' /\ StepsAreHeard'
  BY DEF Inv, TypeOK, InHandIsActive, ActiveIsInHand, StepsAreHeard
<1>2. AbsentWasHeard' /\ ColdUntilAnswered'
  BY DEF Inv, AbsentWasHeard, ColdUntilAnswered, Cold, Live
<1> QED BY <1>1, <1>2 DEF Inv

LEMMA MissesKeeps ==
  ASSUME Inv, NEW c \in Callers, NEW k \in Keys, NEW f \in BOOLEAN, Misses(c, k, f)
  PROVE  Inv'
<1> DEFINE new == [pc |-> "missed", key |-> k, full |-> f]
<1>1. new \in Caller /\ new.pc = "missed" /\ new.key = k
  BY DEF Caller
<1>2. /\ caller' = [caller EXCEPT ![c] = new] /\ cache[k] = None
      /\ UNCHANGED <<holds, up, redis, cache, job, worker, crashes>>
  BY DEF Misses
<1> HIDE DEF new
<1>3. caller' \in [Callers -> Caller] /\ \A d \in Callers : caller'[d] = IF d = c THEN new ELSE caller[d]
  BY <1>1, <1>2 DEF Inv, TypeOK
<1>4. Cold(k)
  BY <1>2 DEF Cold, Live, Statuses
<1>5. MissedIsCold' /\ MissedHasKey'
  BY <1>1, <1>2, <1>3, <1>4 DEF Inv, MissedIsCold, MissedHasKey, Cold, Live
<1> QED BY <1>2, <1>3, <1>5, CallersMove

LEMMA IdleIsCaller == Idle \in Caller /\ Idle.pc = "idle"
BY DEF Idle, Caller

LEMMA GiveUpKeeps ==
  ASSUME Inv, NEW c \in Callers, GiveUp(c)
  PROVE  Inv'
<1>1. /\ caller' = [caller EXCEPT ![c] = Idle]
      /\ UNCHANGED <<holds, up, redis, cache, job, worker, crashes>>
  BY DEF GiveUp, Told
<1>2. caller' \in [Callers -> Caller] /\ MissedIsCold' /\ MissedHasKey'
  BY <1>1, IdleIsCaller DEF Inv, TypeOK, MissedIsCold, MissedHasKey, Cold, Live
<1> QED BY <1>1, <1>2, CallersMove

\* An id nobody holds is taken for a key that is still cold.
LEMMA EnqueueKeeps ==
  ASSUME Inv, NEW c \in Callers, Enqueue(c)
  PROVE  Inv'
<1>1. PICK k \in Keys : k = caller[c].key
  BY DEF Inv, MissedHasKey, Enqueue
<1>2. /\ caller[c].pc = "missed" /\ UNCHANGED <<holds, up, redis, cache, worker, crashes>>
      /\ job' = IF job[k] = None THEN [job EXCEPT ![k] = Made(caller[c].full)] ELSE job
  BY <1>1 DEF Enqueue
<1>3. caller[c] \in Caller /\ caller[c].full \in BOOLEAN
  BY DEF Inv, TypeOK, Caller
<1> DEFINE new == Made(caller[c].full)
<1>4. /\ new \in Job /\ new.state = "waiting" /\ new.stalled = FALSE
  BY <1>3 DEF Made, Job, Statuses
<1> HIDE DEF new
<1>5. /\ job' \in [Keys -> Job \cup {None}]
      /\ \A l \in Keys : job'[l] = IF l = k /\ job[k] = None THEN new ELSE job[l]
  BY <1>2, <1>4 DEF Inv, TypeOK, new
<1>6. /\ caller' \in [Callers -> Caller]
      /\ \A d \in Callers : caller'[d] = caller[d] \/ (d = c /\ caller'[d].pc # "missed"
                                                      /\ (caller'[d].pc # "idle" => caller'[d].key = k))
  <2>1. CASE job'[k].state = "completed"
    BY <1>1, <2>1, IdleIsCaller DEF Enqueue, Told, Inv, TypeOK
  <2>2. CASE job'[k].state # "completed"
    <3> DEFINE waits == [caller[c] EXCEPT !.pc = "waiting", !.full = FALSE]
    <3>1. waits \in Caller /\ waits.pc = "waiting" /\ waits.key = k
      BY <1>1, <1>3 DEF Caller
    <3>2. caller' = [caller EXCEPT ![c] = waits]
      BY <1>1, <2>2 DEF Enqueue
    <3> HIDE DEF waits
    <3> QED BY <3>1, <3>2 DEF Inv, TypeOK
  <2> QED BY <2>1, <2>2
<1>7. TypeOK'
  BY <1>2, <1>5, <1>6 DEF Inv, TypeOK
<1>8. InHandIsActive' /\ ActiveIsInHand' /\ StepsAreHeard'
  <2>1. \A q \in Queues : worker[q] # None => worker[q].key \in Keys /\ job[worker[q].key] # None
    BY Fields DEF Inv, InHandIsActive
  <2> QED BY <1>2, <1>4, <1>5, <2>1 DEF Inv, InHandIsActive, ActiveIsInHand, StepsAreHeard
<1>9. AbsentWasHeard'
  BY <1>2 DEF Inv, AbsentWasHeard, Live
<1>10. k \notin Series /\ job[k] = None => Cold(k)
  BY <1>1, <1>2 DEF Inv, MissedIsCold
<1>11. ColdUntilAnswered'
  BY <1>2, <1>4, <1>5, <1>10 DEF Inv, ColdUntilAnswered, Cold, Live
<1>12. MissedIsCold' /\ MissedHasKey'
  BY <1>2, <1>5, <1>6 DEF Inv, MissedIsCold, MissedHasKey, Cold, Live
<1> QED BY <1>7, <1>8, <1>9, <1>11, <1>12 DEF Inv

LEMMA StartKeeps ==
  ASSUME Inv, NEW k \in Keys, Start(k)
  PROVE  Inv'
<1> DEFINE q == QueueOf(k)
           taken == [job[k] EXCEPT !.state = "active", !.status = "unresolved"]
           work == [key |-> k, step |-> "plain", heard |-> {}, found |-> FALSE]
<1>1. /\ job[k] # None /\ job[k].state = "waiting" /\ worker[q] = None /\ q \in Queues
      /\ UNCHANGED <<holds, up, redis, cache, caller, crashes>>
      /\ worker' = [worker EXCEPT ![q] = work]
  BY QueueOfKey DEF Start
<1>2. /\ taken \in Job /\ taken.state = "active" /\ taken.full = job[k].full
      /\ taken.stalled = job[k].stalled
  BY ZenonT(60), <1>1, Fields DEF Inv, Job, Statuses
<1>3. job' = [job EXCEPT ![k] = taken]
  BY <1>1 DEF Start, Inv, TypeOK
<1>4. work \in Work /\ work.key = k /\ work.step = "plain"
  BY DEF Work
<1> HIDE DEF taken, work
<1>5. /\ job' \in [Keys -> Job \cup {None}] /\ worker' \in [Queues -> Work \cup {None}]
      /\ \A l \in Keys : job'[l] = IF l = k THEN taken ELSE job[l]
      /\ \A p \in Queues : worker'[p] = IF p = q THEN work ELSE worker[p]
      /\ taken # None /\ work # None
  BY <1>1, <1>2, <1>3, <1>4 DEF Inv, TypeOK
<1>6. TypeOK'
  BY <1>1, <1>5 DEF Inv, TypeOK
<1>7. \A p \in Queues : worker[p] # None => worker[p].key \in Keys /\ worker[p].key # k
  BY <1>1, Fields DEF Inv, InHandIsActive
<1>8. InHandIsActive' /\ StepsAreHeard'
  BY <1>2, <1>4, <1>5, <1>7 DEF Inv, InHandIsActive, StepsAreHeard
<1>9. ActiveIsInHand'
  BY <1>1, <1>4, <1>5, QueueOfKey DEF Inv, ActiveIsInHand
<1>10. AbsentWasHeard'
  BY <1>1 DEF Inv, AbsentWasHeard, Live
<1>11. ColdUntilAnswered'
  <2>1. ASSUME NEW l \in Keys \ Series, l # k, job[l] # None, job[l].state = "active"
        PROVE  worker'[QueueOf(l)] = worker[QueueOf(l)]
    BY <1>1, <1>5, <2>1, QueueOfKey DEF Inv, ActiveIsInHand
  <2> QED BY <1>1, <1>2, <1>4, <1>5, <2>1, QueueOfKey DEF Inv, ColdUntilAnswered, Cold, Live
<1>12. MissedIsCold' /\ MissedHasKey'
  BY <1>1, <1>5 DEF Inv, MissedIsCold, MissedHasKey, Cold, Live
<1> QED BY <1>6, <1>8, <1>9, <1>10, <1>11, <1>12 DEF Inv

-----------------------------------------------------------------------------
(* The worker.                                                             *)

\* A query is asked: the job in hand goes on, and nothing is written.
LEMMA AskedKeeps ==
  ASSUME Inv, NEW q \in Queues, worker[q] # None, worker[q].step \in {"plain", "hinted"},
         UNCHANGED <<holds, up, redis, cache, job, caller, crashes>>,
         NEW w \in Work, worker' = [worker EXCEPT ![q] = w],
         w.key = worker[q].key, w.step \in {"hinted", "answered", "failed"},
         w.step = "hinted" => w.key \in Covers /\ job[w.key].full,
         w.step = "answered" => w.found \/ Decisive(w.key, job[w.key].full) \in w.heard
  PROVE  Inv'
<1>1. /\ worker' \in [Queues -> Work \cup {None}] /\ w # None
      /\ \A p \in Queues : worker'[p] = IF p = q THEN w ELSE worker[p]
  BY DEF Inv, TypeOK
<1>2. TypeOK'
  BY <1>1 DEF Inv, TypeOK
<1>3. InHandIsActive' /\ StepsAreHeard'
  BY <1>1 DEF Inv, InHandIsActive, StepsAreHeard, Decisive
<1>4. ActiveIsInHand'
  BY <1>1, QueueOfKey DEF Inv, ActiveIsInHand
<1>5. AbsentWasHeard' /\ MissedIsCold' /\ MissedHasKey'
  BY DEF Inv, AbsentWasHeard, MissedIsCold, MissedHasKey, Cold, Live
<1>6. ColdUntilAnswered'
  BY <1>1, QueueOfKey DEF Inv, ColdUntilAnswered, Cold, Live
<1> QED BY <1>2, <1>3, <1>4, <1>5, <1>6 DEF Inv

\* The two outcomes of a query, as records.
LEMMA QueryAnswered ==
  ASSUME Inv, NEW q \in Queues, worker[q] # None, worker[q].step \in {"plain", "hinted"},
         NEW given \in BOOLEAN, NEW next \in {"hinted", "answered"}, Queries2xx(q, given, next)
  PROVE  \E w \in Work : /\ worker' = [worker EXCEPT ![q] = w]
                         /\ w.key = worker[q].key /\ w.step = next
                         /\ w.found = given /\ worker[q].step \in w.heard
<1> DEFINE heard == [worker[q] EXCEPT !.heard = @ \cup {worker[q].step}, !.found = given, !.step = next]
<1>1. worker[q] \in Work
  BY Fields DEF Inv
<1>2. /\ heard \in Work /\ heard.key = worker[q].key /\ heard.step = next /\ heard.found = given
      /\ worker[q].step \in heard.heard
  BY <1>1 DEF Work, Questions
<1>3. worker' = [worker EXCEPT ![q] = heard]
  BY DEF Queries2xx, Inv, TypeOK
<1> QED BY <1>2, <1>3

LEMMA QueryThrown ==
  ASSUME Inv, NEW q \in Queues, worker[q] # None,
         NEW next \in {"hinted", "failed"}, Throws(q, next)
  PROVE  \E w \in Work : /\ worker' = [worker EXCEPT ![q] = w]
                         /\ w.key = worker[q].key /\ w.step = next
<1> DEFINE thrown == [worker[q] EXCEPT !.step = next]
<1>1. worker[q] \in Work
  BY Fields DEF Inv
<1>2. thrown \in Work /\ thrown.key = worker[q].key /\ thrown.step = next
  BY <1>1 DEF Work
<1>3. worker' = [worker EXCEPT ![q] = thrown]
  BY DEF Throws
<1> QED BY <1>2, <1>3

LEMMA AskKeeps ==
  ASSUME Inv, NEW q \in Queues,
         \/ FetchCover(q) \/ FetchVolumeByTitle(q) \/ FetchVolumeInfo(q)
         \/ FetchSeriesCovers(q) \/ Identify(q)
  PROVE  Inv'
<1> DEFINE k == worker[q].key
           full == job[k].full
<1>1. /\ worker[q] # None /\ worker[q].step \in {"plain", "hinted"} /\ k \in Keys
      /\ UNCHANGED <<holds, up, redis, cache, job, caller, crashes>>
  BY Fields DEF FetchCover, FetchVolumeByTitle, FetchVolumeInfo, FetchSeriesCovers, Identify, InHand, Inv
<1>2. full \in BOOLEAN
  BY <1>1, Fields DEF Inv, InHandIsActive
<1>3. ASSUME FetchCover(q) PROVE Inv'
  <2> DEFINE given == "plain" \in holds[k]
  <2>0. given \in BOOLEAN
    OBVIOUS
  <2> HIDE DEF given
  <2>1. k \in Covers /\ worker[q].step = "plain"
    BY <1>3 DEF FetchCover, InHand
  <2>2. CASE Queries2xx(q, given, IF ~given /\ CanFallback(k) THEN "hinted" ELSE "answered")
    <3>1. CASE ~given /\ full
      <4>1. Queries2xx(q, given, "hinted")
        BY <2>1, <2>2, <3>1 DEF CanFallback, Queries2xx
      <4>2. PICK w \in Work : /\ worker' = [worker EXCEPT ![q] = w] /\ w.key = k /\ w.step = "hinted"
        BY <1>1, <2>0, <4>1, QueryAnswered
      <4> QED BY <1>1, <2>1, <3>1, <4>2, AskedKeeps
    <3>2. CASE given \/ ~full
      <4>1. Queries2xx(q, given, "answered")
        BY <2>1, <2>2, <3>2 DEF CanFallback, Queries2xx
      <4>2. PICK w \in Work : /\ worker' = [worker EXCEPT ![q] = w] /\ w.key = k
                              /\ w.step = "answered" /\ w.found = given /\ "plain" \in w.heard
        BY <1>1, <2>0, <2>1, <4>1, QueryAnswered
      <4> QED BY <1>1, <3>2, <4>2, AskedKeeps DEF Decisive
    <3> QED BY <1>2, <3>1, <3>2
  <2>3. CASE Throws(q, IF CanFallback(k) THEN "hinted" ELSE "failed")
    <3>1. PICK next \in {"hinted", "failed"} : Throws(q, next) /\ (next = "hinted" => full)
      BY <2>3 DEF CanFallback, Throws
    <3>2. PICK w \in Work : /\ worker' = [worker EXCEPT ![q] = w] /\ w.key = k /\ w.step = next
      BY <1>1, <3>1, QueryThrown
    <3> QED BY <1>1, <2>1, <3>1, <3>2, AskedKeeps
  <2> QED BY <1>3, <2>2, <2>3 DEF FetchCover, given
<1>4. ASSUME FetchVolumeByTitle(q) PROVE Inv'
  <2>1. k \in Covers /\ worker[q].step = "hinted" /\ full
    BY <1>1, <1>4 DEF FetchVolumeByTitle, InHand, Inv, StepsAreHeard
  <2>2. PICK given \in BOOLEAN : Queries2xx(q, given, "answered") \/ Throws(q, "failed")
    <3>1. ("hinted" \in holds[k]) \in BOOLEAN
      OBVIOUS
    <3> QED BY <1>4, <3>1 DEF FetchVolumeByTitle
  <2>3. CASE Queries2xx(q, given, "answered")
    <3>1. PICK w \in Work : /\ worker' = [worker EXCEPT ![q] = w] /\ w.key = k
                            /\ w.step = "answered" /\ "hinted" \in w.heard
      BY <1>1, <2>1, <2>3, QueryAnswered
    <3> QED BY <1>1, <2>1, <3>1, AskedKeeps DEF Decisive
  <2>4. CASE Throws(q, "failed")
    <3>1. PICK w \in Work : worker' = [worker EXCEPT ![q] = w] /\ w.key = k /\ w.step = "failed"
      BY <1>1, <2>4, QueryThrown
    <3> QED BY <1>1, <3>1, AskedKeeps
  <2> QED BY <2>2, <2>3, <2>4
<1>5. ASSUME FetchVolumeInfo(q) \/ FetchSeriesCovers(q) \/ Identify(q) PROVE Inv'
  <2>1. k \notin Covers /\ worker[q].step = "plain"
    BY <1>5 DEF FetchVolumeInfo, FetchSeriesCovers, Identify, InHand
  <2>2. PICK given \in BOOLEAN : Queries2xx(q, given, "answered") \/ Throws(q, "failed")
    <3>1. ("plain" \in holds[k]) \in BOOLEAN /\ Gives(k) \in BOOLEAN
      BY DEF Gives
    <3> QED BY <1>5, <3>1 DEF FetchVolumeInfo, FetchSeriesCovers, Identify
  <2>3. CASE Queries2xx(q, given, "answered")
    <3>1. PICK w \in Work : /\ worker' = [worker EXCEPT ![q] = w] /\ w.key = k
                            /\ w.step = "answered" /\ "plain" \in w.heard
      BY <1>1, <2>1, <2>3, QueryAnswered
    <3> QED BY <1>1, <2>1, <3>1, AskedKeeps DEF Decisive
  <2>4. CASE Throws(q, "failed")
    <3>1. PICK w \in Work : worker' = [worker EXCEPT ![q] = w] /\ w.key = k /\ w.step = "failed"
      BY <1>1, <2>4, QueryThrown
    <3> QED BY <1>1, <3>1, AskedKeeps
  <2> QED BY <2>2, <2>3, <2>4
<1> QED BY <1>3, <1>4, <1>5

\* The row is written, with what its job is then known to have answered.
LEMMA CachesKeeps ==
  ASSUME Inv, NEW q \in Queues, NEW S \in SUBSET Keys, NEW next \in {"cached", "written"},
         Caches(q, S, next)
  PROVE  Inv'
<1>1. PICK k \in Keys, w \in Work :
        w = worker[q] /\ k = w.key /\ worker[q] # None /\ w.step \in {"answered", "failed"}
  BY Fields DEF Caches, InHand, Inv
<1> DEFINE status == Outcome(w)
           entry == [status |-> status, heard |-> w.heard, full |-> job[k].full]
           moved == [w EXCEPT !.step = next]
           told == [job[k] EXCEPT !.status = status]
<1>2. job[k] \in Job /\ job[k] # None /\ job[k].state = "active" /\ QueueOf(k) = q
  BY <1>1, Fields DEF Inv, InHandIsActive
<1>3. /\ status \in Statuses /\ (status = "absent" => w.step = "answered" /\ ~w.found)
      /\ (w.step = "failed" <=> status = "unresolved")
  BY <1>1 DEF Outcome, Statuses
<1>4. /\ entry \in Entry /\ entry.status = status /\ entry.heard = w.heard
      /\ entry.full = job[k].full
  BY <1>1, <1>2, <1>3 DEF Entry, Work, Job
<1>5. moved \in Work /\ moved.key = k /\ moved.step = next
  BY <1>1 DEF Work
<1>6. /\ told \in Job /\ told.state = "active" /\ told.full = job[k].full /\ told.status = status
      /\ told.stalled = job[k].stalled
  BY <1>2, <1>3 DEF Job
<1>7. /\ cache' = [cache EXCEPT ![k] = entry] /\ worker' = [worker EXCEPT ![q] = moved]
      /\ job' = [job EXCEPT ![k] = told]
      /\ UNCHANGED <<holds, up, redis, caller, crashes>>
  BY <1>1 DEF Caches, Inv, TypeOK
<1> HIDE DEF entry, moved, told, status
<1>8. /\ \A l \in Keys : cache'[l] = IF l = k THEN entry ELSE cache[l]
      /\ \A p \in Queues : worker'[p] = IF p = q THEN moved ELSE worker[p]
      /\ \A l \in Keys : job'[l] = IF l = k THEN told ELSE job[l]
      /\ entry # None /\ moved # None /\ told # None
  BY <1>4, <1>5, <1>6, <1>7 DEF Inv, TypeOK
<1>9. TypeOK'
  BY <1>4, <1>5, <1>6, <1>7 DEF Inv, TypeOK
<1>10. \A p \in Queues \ {q} : worker[p] # None => worker[p].key \in Keys /\ worker[p].key # k
  BY <1>2, Fields DEF Inv, InHandIsActive
<1>11. InHandIsActive' /\ StepsAreHeard'
  BY <1>2, <1>5, <1>6, <1>8, <1>10 DEF Inv, InHandIsActive, StepsAreHeard, Decisive
<1>12. ActiveIsInHand'
  BY <1>2, <1>5, <1>6, <1>8, QueueOfKey DEF Inv, ActiveIsInHand
<1>13. AbsentWasHeard'
  <2>1. status = "absent" => Decisive(k, job[k].full) \in w.heard
    BY <1>1, <1>3 DEF Inv, StepsAreHeard
  <2> QED BY <1>4, <1>8, <2>1 DEF Inv, AbsentWasHeard, Live, Decisive
<1>14. \A l \in Keys \ {k} : Cold(l)' <=> Cold(l)
  BY <1>8 DEF Cold, Live
<1>15. Cold(k)' <=> status = "unresolved"
  BY <1>3, <1>4, <1>8 DEF Cold, Live, Statuses
<1>16. ColdUntilAnswered'
  <2>1. ASSUME NEW l \in Keys \ Series, job'[l] # None, l # k
        PROVE  /\ job'[l] = job[l]
               /\ job[l].state = "active" => worker'[QueueOf(l)] = worker[QueueOf(l)]
    BY <1>1, <1>2, <1>8, <2>1, QueueOfKey DEF Inv, ActiveIsInHand
  <2>2. ASSUME NEW l \in Keys \ Series, job'[l] # None, l # k
        PROVE  /\ ~job'[l].stalled /\ job'[l].state \in {"waiting", "delayed"} => Cold(l)'
               /\ job'[l].state = "active" =>
                    LET step == worker'[QueueOf(l)].step IN
                    /\ ~job'[l].stalled /\ step \notin {"cached", "written"} => Cold(l)'
                    /\ step \in {"cached", "written"} /\ job'[l].status = "unresolved" => Cold(l)'
    BY <1>14, <2>1, <2>2 DEF Inv, ColdUntilAnswered
  <2>3. /\ job'[k].state = "active" /\ worker'[QueueOf(k)].step \in {"cached", "written"}
        /\ (job'[k].status = "unresolved" => Cold(k)')
    BY <1>2, <1>5, <1>6, <1>8, <1>15
  <2> QED BY <2>2, <2>3 DEF ColdUntilAnswered
<1>17. MissedIsCold' /\ MissedHasKey'
  BY <1>7, <1>8, <1>14 DEF Inv, MissedIsCold, MissedHasKey
<1> QED BY <1>9, <1>11, <1>12, <1>13, <1>16, <1>17 DEF Inv

\* The covers of a series are written beside the job of its query.
LEMMA WarmsKeeps ==
  ASSUME Inv, NEW q \in Queues, Warms(q)
  PROVE  Inv'
<1>1. PICK k \in Queries, w \in Work :
        w = worker[q] /\ k = w.key /\ worker[q] # None /\ w.step = "cached"
  BY Fields DEF Warms, InHand, Inv
<1>2. PICK s \in Series : s = SeriesOf[k]
  OBVIOUS
<1> DEFINE entry == [status |-> IF Volumes(s) THEN "found" ELSE "absent",
                     heard |-> {"plain"}, full |-> FALSE]
           moved == [w EXCEPT !.step = "written"]
<1>3. entry \in Entry /\ entry.heard = {"plain"} /\ entry.full = FALSE
  BY DEF Entry, Statuses, Questions
<1>4. moved \in Work /\ moved.key = k /\ moved.step = "written"
  BY <1>1 DEF Work
<1>5. /\ cache' = [cache EXCEPT ![s] = entry] /\ worker' = [worker EXCEPT ![q] = moved]
      /\ UNCHANGED <<holds, up, redis, job, caller, crashes>>
  BY <1>1, <1>2 DEF Warms, Inv, TypeOK
<1> HIDE DEF entry, moved
<1>6. s \in Keys /\ k \in Keys /\ k \notin Series /\ s \notin Covers
  BY DEF Keys
<1>7. /\ \A l \in Keys : cache'[l] = IF l = s THEN entry ELSE cache[l]
      /\ \A p \in Queues : worker'[p] = IF p = q THEN moved ELSE worker[p]
      /\ entry # None /\ moved # None
  BY <1>3, <1>4, <1>5, <1>6 DEF Inv, TypeOK
<1>8. TypeOK'
  BY <1>3, <1>4, <1>5, <1>6 DEF Inv, TypeOK
<1>9. InHandIsActive' /\ StepsAreHeard' /\ ActiveIsInHand'
  BY <1>1, <1>4, <1>5, <1>7, QueueOfKey DEF Inv, InHandIsActive, StepsAreHeard, ActiveIsInHand
<1>10. AbsentWasHeard'
  BY <1>3, <1>6, <1>7 DEF Inv, AbsentWasHeard, Live
<1>11. \A l \in Keys \ Series : Cold(l)' <=> Cold(l)
  BY <1>7 DEF Cold, Live
<1>12. \A l \in Keys : worker'[QueueOf(l)].step \in {"cached", "written"}
                         <=> worker[QueueOf(l)].step \in {"cached", "written"}
  BY <1>1, <1>4, <1>7, QueueOfKey
<1>13. ColdUntilAnswered'
  BY <1>5, <1>11, <1>12 DEF Inv, ColdUntilAnswered
<1>14. MissedIsCold' /\ MissedHasKey'
  BY <1>5, <1>11 DEF Inv, MissedIsCold, MissedHasKey
<1> QED BY <1>8, <1>9, <1>10, <1>13, <1>14 DEF Inv

\* What becomes of a job whose attempt failed, or whose worker crashed.
LEMMA JobAgain ==
  ASSUME NEW j \in Job
  PROVE  LET again == [j EXCEPT !.state = "delayed", !.made = @ + 1]
             stalled == [j EXCEPT !.state = "waiting", !.stalled = TRUE]
         IN /\ again \in Job /\ again.state = "delayed" /\ again.stalled = j.stalled
            /\ stalled \in Job /\ stalled.state = "waiting" /\ stalled.stalled
<1>1. /\ j.state \in {"waiting", "active", "delayed", "completed", "failed"} /\ j.made + 1 \in Nat
      /\ j.full \in BOOLEAN /\ j.stalled \in BOOLEAN /\ j.status \in Statuses
  BY DEF Job
<1>2. PICK n \in Nat : n = j.made + 1
  BY <1>1
<1>3. /\ [j EXCEPT !.state = "delayed", !.made = n] \in Job
      /\ [j EXCEPT !.state = "delayed", !.made = n].state = "delayed"
      /\ [j EXCEPT !.state = "delayed", !.made = n].stalled = j.stalled
  BY <1>1 DEF Job
<1>4. /\ [j EXCEPT !.state = "waiting", !.stalled = TRUE] \in Job
      /\ [j EXCEPT !.state = "waiting", !.stalled = TRUE].state = "waiting"
      /\ [j EXCEPT !.state = "waiting", !.stalled = TRUE].stalled
  BY <1>1 DEF Job
<1> QED BY <1>2, <1>3, <1>4

\* The job is over, waits for its next attempt or leaves: the two latter cold.
LEMMA FinishesKeeps ==
  ASSUME Inv, NEW q \in Queues, Finishes(q)
  PROVE  Inv'
<1>1. PICK k \in Keys : k = worker[q].key
  BY Fields DEF Finishes, Inv
<1>2. /\ worker[q] # None /\ worker[q].step = "written" /\ worker' = [worker EXCEPT ![q] = None]
      /\ UNCHANGED <<holds, up, redis, cache, crashes>>
  BY DEF Finishes
<1>3. job[k] \in Job /\ job[k] # None /\ job[k].state = "active" /\ QueueOf(k) = q /\ job[k].made \in Nat
  BY <1>1, <1>2, Fields DEF Inv, InHandIsActive
<1>4. PICK after \in Job \cup {None} :
        /\ job' = [job EXCEPT ![k] = after]
        /\ after = None => job[k].status = "unresolved"
        /\ after # None => /\ after.stalled = job[k].stalled
                           /\ after.state \in {"completed", "delayed"}
                           /\ after.state = "delayed" => job[k].status = "unresolved"
  <2>1. CASE job[k].status # "unresolved"
    <3>1. Completed(k) \in Job /\ Completed(k).state = "completed" /\ Completed(k).stalled = job[k].stalled
      BY <1>3 DEF Completed, Job
    <3>2. job' = [job EXCEPT ![k] = Completed(k)]
      BY <1>1, <2>1 DEF Finishes
    <3> QED BY <2>1, <3>1, <3>2
  <2>2. CASE job[k].status = "unresolved" /\ job[k].made + 1 < Attempts[k]
    <3> DEFINE again == [job[k] EXCEPT !.state = "delayed", !.made = @ + 1]
    <3>1. again \in Job /\ again.state = "delayed" /\ again.stalled = job[k].stalled
      BY <1>3, JobAgain
    <3>2. job' = [job EXCEPT ![k] = again]
      BY <1>1, <2>2 DEF Finishes, Inv, TypeOK
    <3> QED BY <2>2, <3>1, <3>2
  <2>3. CASE job[k].status = "unresolved" /\ ~(job[k].made + 1 < Attempts[k])
    BY <1>1, <2>3 DEF Finishes, Failed
  <2> QED BY <2>1, <2>2, <2>3
<1>5. /\ \A l \in Keys : job'[l] = IF l = k THEN after ELSE job[l]
      /\ \A p \in Queues : worker'[p] = IF p = q THEN None ELSE worker[p]
  BY <1>2, <1>4 DEF Inv, TypeOK
<1>6. /\ caller' \in [Callers -> Caller]
      /\ \A c \in Callers : caller'[c].pc # "idle" => caller'[c] = caller[c]
  BY IdleIsCaller DEF Finishes, WaitersTold, Inv, TypeOK
<1>7. TypeOK'
  BY <1>2, <1>4, <1>6 DEF Inv, TypeOK
<1>8. \A p \in Queues \ {q} : worker[p] # None => worker[p].key \in Keys /\ worker[p].key # k
  BY <1>3, Fields DEF Inv, InHandIsActive
<1>9. InHandIsActive' /\ StepsAreHeard'
  BY <1>5, <1>8 DEF Inv, InHandIsActive, StepsAreHeard
<1>10. \A l \in Keys \ {k} : job[l] # None /\ job[l].state = "active" => QueueOf(l) # q
  BY <1>1, <1>2 DEF Inv, ActiveIsInHand
<1>11. ActiveIsInHand'
  BY <1>4, <1>5, <1>10, QueueOfKey DEF Inv, ActiveIsInHand
<1>12. AbsentWasHeard'
  BY <1>2 DEF Inv, AbsentWasHeard, Live
<1>13. \A l \in Keys : Cold(l)' <=> Cold(l)
  BY <1>2 DEF Cold, Live
<1>14. k \notin Series /\ job[k].status = "unresolved" => Cold(k)
  BY <1>2, <1>3, <1>1 DEF Inv, ColdUntilAnswered
<1>15. ColdUntilAnswered'
  <2>1. ASSUME NEW l \in Keys \ Series, l # k, job[l] # None, job[l].state = "active"
        PROVE  worker'[QueueOf(l)] = worker[QueueOf(l)]
    BY <1>5, <1>10, <2>1, QueueOfKey
  <2> QED BY <1>4, <1>5, <1>13, <1>14, <2>1 DEF Inv, ColdUntilAnswered
<1>16. MissedIsCold' /\ MissedHasKey'
  BY <1>4, <1>5, <1>6, <1>13, <1>14 DEF Inv, MissedIsCold, MissedHasKey
<1> QED BY <1>7, <1>9, <1>11, <1>12, <1>15, <1>16 DEF Inv

-----------------------------------------------------------------------------
(* The timers, the surroundings.                                           *)

LEMMA BackoffKeeps ==
  ASSUME Inv, NEW k \in Keys, Backoff(k)
  PROVE  Inv'
<1> DEFINE again == [job[k] EXCEPT !.state = "waiting"]
<1>1. /\ job[k] # None /\ job[k].state = "delayed" /\ job' = [job EXCEPT ![k] = again]
      /\ UNCHANGED <<holds, up, redis, cache, worker, caller, crashes>>
  BY DEF Backoff
<1>2. again \in Job /\ again.state = "waiting" /\ again.stalled = job[k].stalled
  BY <1>1, Fields DEF Inv, Job
<1> HIDE DEF again
<1>3. again # None /\ \A l \in Keys : job'[l] = IF l = k THEN again ELSE job[l]
  BY <1>1, <1>2 DEF Inv, TypeOK
<1>4. TypeOK'
  BY <1>1, <1>2 DEF Inv, TypeOK
<1>5. \A q \in Queues : worker[q] # None => worker[q].key \in Keys /\ worker[q].key # k
  BY <1>1, Fields DEF Inv, InHandIsActive
<1>6. InHandIsActive' /\ StepsAreHeard'
  BY <1>1, <1>3, <1>5 DEF Inv, InHandIsActive, StepsAreHeard
<1>7. ActiveIsInHand'
  BY <1>1, <1>2, <1>3 DEF Inv, ActiveIsInHand
<1>8. AbsentWasHeard' /\ MissedHasKey'
  BY <1>1 DEF Inv, AbsentWasHeard, MissedHasKey, Live
<1>9. ColdUntilAnswered' /\ MissedIsCold'
  BY <1>1, <1>2, <1>3 DEF Inv, ColdUntilAnswered, MissedIsCold, Cold, Live
<1> QED BY <1>4, <1>6, <1>7, <1>8, <1>9 DEF Inv

LEMMA CleanKeeps ==
  ASSUME Inv, NEW k \in Keys, Clean(k)
  PROVE  Inv'
<1>1. /\ job[k] # None /\ job[k].state = "completed" /\ job' = [job EXCEPT ![k] = None]
      /\ \A c \in Callers : ~(caller[c].pc = "missed" /\ caller[c].key = k)
      /\ UNCHANGED <<holds, up, redis, cache, worker, caller, crashes>>
  BY DEF Clean
<1>2. \A l \in Keys : job'[l] = IF l = k THEN None ELSE job[l]
  BY <1>1 DEF Inv, TypeOK
<1>3. TypeOK'
  BY <1>1 DEF Inv, TypeOK
<1>4. \A q \in Queues : worker[q] # None => worker[q].key \in Keys /\ worker[q].key # k
  BY <1>1, Fields DEF Inv, InHandIsActive
<1>5. InHandIsActive' /\ ActiveIsInHand' /\ StepsAreHeard'
  BY <1>1, <1>2, <1>4 DEF Inv, InHandIsActive, ActiveIsInHand, StepsAreHeard
<1>6. AbsentWasHeard' /\ ColdUntilAnswered' /\ MissedIsCold' /\ MissedHasKey'
  BY <1>1, <1>2 DEF Inv, AbsentWasHeard, ColdUntilAnswered, MissedIsCold, MissedHasKey, Cold, Live
<1> QED BY <1>3, <1>5, <1>6 DEF Inv

\* A row that is gone makes a key colder.
LEMMA ExpireKeeps ==
  ASSUME Inv, NEW k \in Keys, Expire(k)
  PROVE  Inv'
<1>1. /\ cache' = [cache EXCEPT ![k] = None]
      /\ UNCHANGED <<holds, up, redis, job, worker, caller, crashes>>
  BY DEF Expire
<1>2. \A l \in Keys : cache'[l] = IF l = k THEN None ELSE cache[l]
  BY <1>1 DEF Inv, TypeOK
<1>3. TypeOK' /\ InHandIsActive' /\ ActiveIsInHand' /\ StepsAreHeard' /\ MissedHasKey'
  BY <1>1 DEF Inv, TypeOK, InHandIsActive, ActiveIsInHand, StepsAreHeard, MissedHasKey
<1>4. \A l \in Keys : Cold(l) => Cold(l)'
  BY <1>2 DEF Cold, Live, Statuses
<1>5. AbsentWasHeard'
  BY <1>2 DEF Inv, AbsentWasHeard, Live, Statuses
<1>6. ColdUntilAnswered' /\ MissedIsCold'
  BY <1>1, <1>4 DEF Inv, ColdUntilAnswered, MissedIsCold
<1> QED BY <1>3, <1>5, <1>6 DEF Inv

\* The source and Redis come and go under everything else.
LEMMA FlipsKeep ==
  ASSUME Inv, SourceFlips \/ RedisFlips \/ UNCHANGED vars
  PROVE  Inv'
<1>1. /\ up' \in BOOLEAN /\ redis' \in BOOLEAN
      /\ UNCHANGED <<holds, cache, job, worker, caller, crashes>>
  BY DEF SourceFlips, RedisFlips, vars, Inv, TypeOK
<1>2. TypeOK' /\ InHandIsActive' /\ ActiveIsInHand' /\ StepsAreHeard' /\ MissedHasKey'
  BY <1>1 DEF Inv, TypeOK, InHandIsActive, ActiveIsInHand, StepsAreHeard, MissedHasKey
<1>3. AbsentWasHeard' /\ ColdUntilAnswered' /\ MissedIsCold'
  BY <1>1 DEF Inv, AbsentWasHeard, ColdUntilAnswered, MissedIsCold, Cold, Live
<1> QED BY <1>2, <1>3 DEF Inv

LEMMA CrashKeeps ==
  ASSUME Inv, Crash
  PROVE  Inv'
<1>1. /\ \A c \in Callers : caller'[c].pc = "idle"
      /\ \A q \in Queues : worker'[q] = None
      /\ UNCHANGED <<holds, up, redis, cache>>
  BY IdleIsCaller DEF Crash
<1>2. \A k \in Keys :
        \/ job'[k] = job[k] /\ (job[k] # None => job[k].state # "active")
        \/ /\ job'[k] \in Job /\ job'[k] # None
           /\ job'[k].state = "waiting" /\ job'[k].stalled
  <2> SUFFICES ASSUME NEW k \in Keys
               PROVE  \/ job'[k] = job[k] /\ (job[k] # None => job[k].state # "active")
                      \/ /\ job'[k] \in Job /\ job'[k] # None
                         /\ job'[k].state = "waiting" /\ job'[k].stalled
    OBVIOUS
  <2>1. CASE job[k] # None /\ job[k].state = "active"
    <3>1. PICK j \in Job : j = job[k]
      BY <2>1, Fields DEF Inv
    <3>2. job'[k] = [j EXCEPT !.state = "waiting", !.stalled = TRUE]
      BY <2>1, <3>1 DEF Crash
    <3> QED BY ZenonT(60), <3>2, JobAgain
  <2>2. CASE ~(job[k] # None /\ job[k].state = "active")
    BY <2>2 DEF Crash
  <2> QED BY <2>1, <2>2
<1>3. TypeOK'
  <2>1. job' \in [Keys -> Job \cup {None}]
    <3>1. \A k \in Keys : job'[k] \in Job \cup {None}
      BY <1>2 DEF Inv, TypeOK
    <3> QED BY <3>1 DEF Crash
  <2>2. crashes' \in 0..MaxCrashes
    <3>1. crashes \in 0..MaxCrashes /\ crashes < MaxCrashes /\ crashes' = crashes + 1
      BY DEF Crash, Inv, TypeOK
    <3>2. MaxCrashes \in Nat
      BY BoundsAssumption
    <3> HIDE BoundsAssumption, KeysAssumption, NoneAssumption
    <3> QED BY <3>1, <3>2
  <2>3. caller' \in [Callers -> Caller] /\ worker' \in [Queues -> Work \cup {None}]
    BY IdleIsCaller DEF Crash
  <2> QED BY <1>1, <2>1, <2>2, <2>3 DEF Inv, TypeOK
<1>4. InHandIsActive' /\ ActiveIsInHand' /\ StepsAreHeard' /\ MissedHasKey' /\ MissedIsCold'
  BY <1>1, <1>2 DEF InHandIsActive, ActiveIsInHand, StepsAreHeard, MissedHasKey, MissedIsCold
<1>5. AbsentWasHeard' /\ ColdUntilAnswered'
  BY <1>1, <1>2 DEF Inv, AbsentWasHeard, ColdUntilAnswered, Cold, Live
<1> QED BY <1>3, <1>4, <1>5 DEF Inv

-----------------------------------------------------------------------------
LEMMA WorksKeeps ==
  ASSUME Inv, NEW q \in Queues, Works(q)
  PROVE  Inv'
<1>1. CASE FetchCover(q) \/ FetchVolumeByTitle(q) \/ FetchVolumeInfo(q)
           \/ FetchSeriesCovers(q) \/ Identify(q)
  BY <1>1, AskKeeps
<1>2. CASE ProcessCover(q) \/ ProcessVolumeInfo(q) \/ ProcessCovers(q) \/ ProcessIdentify(q)
  <2>1. PICK S \in SUBSET Keys, next \in {"cached", "written"} : Caches(q, S, next)
    BY <1>2 DEF ProcessCover, ProcessVolumeInfo, ProcessCovers, ProcessIdentify, Keys
  <2> QED BY <2>1, CachesKeeps
<1> QED BY <1>1, <1>2, WarmsKeeps, FinishesKeeps DEF Works

LEMMA NextKeeps == Inv /\ [Next]_vars => Inv'
<1> SUFFICES ASSUME Inv, [Next]_vars PROVE Inv'
  OBVIOUS
<1>1. CASE \E c \in Callers, k \in Keys, f \in BOOLEAN : Misses(c, k, f)
  BY <1>1, MissesKeeps
<1>2. CASE \E c \in Callers : Enqueue(c) \/ GiveUp(c)
  BY <1>2, EnqueueKeeps, GiveUpKeeps
<1>3. CASE \E k \in Keys : Start(k) \/ Backoff(k) \/ Clean(k) \/ Expire(k)
  BY <1>3, StartKeeps, BackoffKeeps, CleanKeeps, ExpireKeeps
<1>4. CASE \E q \in Queues : Works(q)
  BY <1>4, WorksKeeps
<1>5. CASE SourceFlips \/ RedisFlips \/ UNCHANGED vars
  BY <1>5, FlipsKeep
<1>6. CASE Crash
  BY <1>6, CrashKeeps
<1>7. ASSUME NEW c \in Callers,
             \/ \E k \in Covers, f \in BOOLEAN : ResolveCoverAndDescription(c, k, f)
             \/ \E k \in Infos : ResolveVolumeInfo(c, k)
             \/ \E k \in Series, f \in BOOLEAN : ResolveSeriesCovers(c, k, f)
             \/ \E k \in Queries, f \in BOOLEAN : IdentifySeries(c, k, f)
      PROVE  \E k \in Keys, f \in BOOLEAN : Misses(c, k, f)
  BY ZenonT(60), <1>7 DEF ResolveCoverAndDescription, ResolveVolumeInfo, ResolveSeriesCovers, IdentifySeries, Keys
<1> QED BY <1>1, <1>2, <1>3, <1>4, <1>5, <1>6, <1>7 DEF Next

LEMMA AlwaysInv == Spec => []Inv
<1> QED BY InitInv, NextKeeps, PTL DEF Spec

-----------------------------------------------------------------------------
\* The variables keep their types, whoever asks, answers or crashes.
THEOREM TypesHold == Spec => []TypeOK
<1>1. Inv => TypeOK
  BY DEF Inv
<1> QED BY <1>1, AlwaysInv, PTL

\* No key is cached as absent before its decisive query was answered: neither
\* a source that is down nor a failed fallback passes for an absence.
THEOREM AbsencesWereHeard == Spec => []AbsentWasHeard
<1>1. Inv => AbsentWasHeard
  BY DEF Inv
<1> QED BY <1>1, AlwaysInv, PTL

\* A key the cache answers is not asked of its source: however callers, worker,
\* timers and expiries interleave, a job starts for a cold key, or after a crash.
THEOREM OneAnswerPerKey == Spec => HotIsNotAsked
<1> DEFINE Asked(k) == /\ worker[QueueOf(k)] = None /\ worker'[QueueOf(k)] # None
                       /\ worker'[QueueOf(k)].key = k /\ ~job[k].stalled
<1>1. ASSUME Inv, [Next]_vars, NEW k \in Keys \ Series, Asked(k)
      PROVE  Cold(k)
  <2>1. ASSUME NEW q \in Queues, Works(q)
        PROVE  \A p \in Queues : worker[p] = None => worker'[p] = None
    <3>1. worker[q] # None
      BY <2>1 DEF Works, FetchCover, FetchVolumeByTitle, FetchVolumeInfo, FetchSeriesCovers, Identify,
                  ProcessCover, ProcessVolumeInfo, ProcessCovers, ProcessIdentify, Caches, Warms,
                  Finishes, InHand
    <3>2. \E w : worker' = [worker EXCEPT ![q] = w]
      <4>1. CASE FetchCover(q) \/ FetchVolumeByTitle(q) \/ FetchVolumeInfo(q)
                 \/ FetchSeriesCovers(q) \/ Identify(q)
        <5>1. ASSUME NEW given, NEW next, Queries2xx(q, given, next)
              PROVE  \E w : worker' = [worker EXCEPT ![q] = w]
          BY <1>1, <5>1 DEF Queries2xx, Inv, TypeOK
        <5>2. ASSUME NEW next, Throws(q, next)
              PROVE  \E w : worker' = [worker EXCEPT ![q] = w]
          BY <5>2 DEF Throws
        <5> QED BY <4>1, <5>1, <5>2
                DEF FetchCover, FetchVolumeByTitle, FetchVolumeInfo, FetchSeriesCovers, Identify
      <4>2. CASE ProcessCover(q) \/ ProcessVolumeInfo(q) \/ ProcessCovers(q) \/ ProcessIdentify(q)
        BY <4>2 DEF ProcessCover, ProcessVolumeInfo, ProcessCovers, ProcessIdentify, Caches
      <4>3. CASE Warms(q) \/ Finishes(q)
        BY <4>3 DEF Warms, Finishes
      <4> QED BY <2>1, <4>1, <4>2, <4>3 DEF Works
    <3> QED BY <1>1, <3>1, <3>2 DEF Inv, TypeOK
  <2>2. ASSUME Crash PROVE \A p \in Queues : worker'[p] = None
    BY <2>2 DEF Crash
  <2>3. PICK l \in Keys : Start(l)
    BY <1>1, <2>1, <2>2, QueueOfKey
       DEF Next, ResolveCoverAndDescription, ResolveVolumeInfo, ResolveSeriesCovers, IdentifySeries,
           Misses, Enqueue, GiveUp, Backoff, Clean, Expire, SourceFlips, RedisFlips, vars
  <2>4. l = k
    BY <1>1, <2>3, QueueOfKey DEF Start, Inv, TypeOK
  <2> QED BY <1>1, <2>3, <2>4 DEF Start, Inv, ColdUntilAnswered
<1>2. Inv /\ [Next]_vars => [\A k \in Keys \ Series : Asked(k) => Live(k) \notin {"found", "absent"}]_vars
  BY <1>1 DEF Cold
<1> QED BY <1>2, AlwaysInv, PTL DEF Spec, HotIsNotAsked

\* Only the end of an attempt writes a row, or an identification a series'.
LEMMA WhoWrites ==
  ASSUME Inv, [Next]_vars, NEW k \in Keys, cache'[k] \notin {cache[k], None}
  PROVE  \/ \E q \in Queues, S \in SUBSET Keys, next \in {"cached", "written"} : Caches(q, S, next)
         \/ \E q \in Queues : Warms(q) /\ k = SeriesOf[worker[q].key] /\ worker[q].key \in Queries
<1>1. cache' # cache /\ cache \in [Keys -> Entry \cup {None}]
  BY DEF Inv, TypeOK
<1>2. PICK q \in Queues : Works(q)
  <2>1. ~\E l \in Keys : Expire(l)
    BY <1>1 DEF Expire
  <2> QED BY <1>1, <2>1
          DEF Next, ResolveCoverAndDescription, ResolveVolumeInfo, ResolveSeriesCovers, IdentifySeries,
              Misses, Enqueue, GiveUp, Start, Backoff, Clean, SourceFlips, RedisFlips, Crash, vars
<1>3. CASE Warms(q)
  BY <1>1, <1>3 DEF Warms, InHand
<1>4. CASE ProcessCover(q) \/ ProcessVolumeInfo(q) \/ ProcessCovers(q) \/ ProcessIdentify(q)
  BY <1>4 DEF ProcessCover, ProcessVolumeInfo, ProcessCovers, ProcessIdentify, Keys
<1> QED BY <1>1, <1>2, <1>3, <1>4
        DEF Works, FetchCover, FetchVolumeByTitle, FetchVolumeInfo, FetchSeriesCovers, Identify, Finishes

\* An answer stands: a row is written where the cache has nothing, or
\* "unresolved", unless a crash came between, or an identification reached the series.
THEOREM NoAnswerIsOverwritten == Spec => AnswersStand
<1> DEFINE Overwritten(k) == /\ Live(k) \in {"found", "absent"} /\ (job[k] # None => ~job[k].stalled)
                             /\ cache'[k] \notin {cache[k], None}
<1>1. ASSUME Inv, [Next]_vars, NEW k \in Keys \ Series, Overwritten(k)
      PROVE  FALSE
  <2>1. PICK q \in Queues, S \in SUBSET Keys, next \in {"cached", "written"} : Caches(q, S, next)
    BY <1>1, WhoWrites
  <2>2. worker[q] # None /\ worker[q].key = k /\ worker[q].step \in {"answered", "failed"}
    BY <1>1, <2>1, Fields DEF Caches, InHand, Inv, TypeOK
  <2>3. QueueOf(k) = q /\ job[k] # None /\ job[k].state = "active"
    BY <1>1, <2>2 DEF Inv, InHandIsActive
  <2> QED BY <1>1, <2>2, <2>3 DEF Inv, ColdUntilAnswered, Cold
<1>2. Inv /\ [Next]_vars =>
        [\A k \in Keys \ Series :
           Live(k) \in {"found", "absent"} /\ (job[k] # None => ~job[k].stalled)
           => cache'[k] \in {cache[k], None}]_vars
  BY <1>1
<1> QED BY <1>2, AlwaysInv, PTL DEF Spec, AnswersStand

-----------------------------------------------------------------------------
(* What is told is cached.                                                 *)

\* A step keeps a job's answer or takes it away, and puts no job in hand with one.
KeepsStatus(k) ==
  job'[k] # None /\ job'[k].status # "unresolved" =>
    /\ job[k] # None /\ job'[k].status = job[k].status
    /\ job'[k].state = "active" => job[k].state = "active"

\* What a field's change leaves of a job.
LEMMA StatusKept ==
  ASSUME NEW j \in Job, NEW s \in {"waiting", "delayed", "completed"}, NEW n \in Nat, NEW b \in BOOLEAN
  PROVE  /\ [j EXCEPT !.state = s].status = j.status /\ [j EXCEPT !.state = s].state = s
         /\ [j EXCEPT !.state = s, !.made = n].status = j.status
         /\ [j EXCEPT !.state = s, !.made = n].state = s
         /\ [j EXCEPT !.state = s, !.stalled = b].status = j.status
         /\ [j EXCEPT !.state = s, !.stalled = b].state = s
BY DEF Job

LEMMA EnqueueKeepsStatus ==
  ASSUME Inv, NEW c \in Callers, Enqueue(c), NEW k \in Keys
  PROVE  KeepsStatus(k)
<1>1. PICK new : new = Made(caller[c].full)
  OBVIOUS
<1>2. new.status = "unresolved"
  BY <1>1 DEF Made
<1>3. PICK l : job' = IF job[l] = None THEN [job EXCEPT ![l] = new] ELSE job
  BY <1>1 DEF Enqueue
<1>4. job'[k] = job[k] \/ job'[k] = new
  BY <1>3 DEF Inv, TypeOK
<1> QED BY <1>2, <1>4 DEF KeepsStatus

LEMMA TimersKeepStatus ==
  ASSUME Inv, NEW l \in Keys, Start(l) \/ Backoff(l) \/ Clean(l), NEW k \in Keys
  PROVE  KeepsStatus(k)
<1>1. job[l] # None /\ job[l] \in Job
  BY Fields DEF Start, Backoff, Clean, Inv
<1>2. PICK after : /\ job' = [job EXCEPT ![l] = after]
                   /\ after # None /\ after.status # "unresolved" =>
                        after.status = job[l].status /\ after.state # "active"
  <2>1. CASE Start(l)
    <3>1. job' = [job EXCEPT ![l] = [job[l] EXCEPT !.state = "active", !.status = "unresolved"]]
      BY <2>1 DEF Start, Inv, TypeOK
    <3>2. PICK j : j = [job[l] EXCEPT !.state = "active", !.status = "unresolved"]
      OBVIOUS
    <3>3. j.status = "unresolved"
      BY <1>1, <3>2 DEF Job
    <3> QED BY <3>1, <3>2, <3>3
  <2>2. CASE Backoff(l)
    <3>1. job' = [job EXCEPT ![l] = [job[l] EXCEPT !.state = "waiting"]]
      BY <2>2 DEF Backoff
    <3> QED BY <1>1, <3>1, StatusKept
  <2>3. CASE Clean(l)
    BY <2>3 DEF Clean
  <2> QED BY <2>1, <2>2, <2>3
<1>3. job'[k] = IF k = l THEN after ELSE job[k]
  BY <1>2 DEF Inv, TypeOK
<1> QED BY <1>1, <1>2, <1>3 DEF KeepsStatus

LEMMA FinishesKeepsStatus ==
  ASSUME Inv, NEW q \in Queues, Finishes(q), NEW k \in Keys
  PROVE  KeepsStatus(k)
<1>1. PICK l \in Keys : l = worker[q].key /\ worker[q] # None
  BY Fields DEF Finishes, Inv
<1>2. job[l] # None /\ job[l] \in Job /\ job[l].made + 1 \in Nat
  BY <1>1, Fields DEF Inv, InHandIsActive
<1>3. PICK after : /\ job' = [job EXCEPT ![l] = after]
                   /\ after # None => after.status = job[l].status /\ after.state # "active"
  <2>1. CASE job[l].status # "unresolved"
    BY <1>1, <1>2, <2>1, StatusKept DEF Finishes, Completed
  <2>2. CASE job[l].status = "unresolved" /\ job[l].made + 1 < Attempts[l]
    <3>1. job' = [job EXCEPT ![l] = [job[l] EXCEPT !.state = "delayed", !.made = job[l].made + 1]]
      BY <1>1, <2>2 DEF Finishes, Inv, TypeOK
    <3> QED BY <1>2, <3>1, StatusKept
  <2>3. CASE job[l].status = "unresolved" /\ ~(job[l].made + 1 < Attempts[l])
    BY <1>1, <2>3 DEF Finishes, Failed
  <2> QED BY <2>1, <2>2, <2>3
<1>4. job'[k] = IF k = l THEN after ELSE job[k]
  BY <1>3 DEF Inv, TypeOK
<1> QED BY <1>2, <1>3, <1>4 DEF KeepsStatus

LEMMA CrashKeepsStatus ==
  ASSUME Inv, Crash, NEW k \in Keys
  PROVE  KeepsStatus(k)
<1>1. CASE job[k] # None /\ job[k].state = "active"
  <2>1. job[k] \in Job
    BY <1>1, Fields DEF Inv
  <2>2. job'[k] = [job[k] EXCEPT !.state = "waiting", !.stalled = TRUE]
    BY <1>1 DEF Crash
  <2> QED BY <1>1, <2>1, <2>2, StatusKept DEF KeepsStatus
<1>2. CASE ~(job[k] # None /\ job[k].state = "active")
  BY <1>2 DEF Crash, KeepsStatus
<1> QED BY <1>1, <1>2

\* Every step but that which writes the row, and then says the same of both.
LEMMA NextKeepsStatus ==
  ASSUME Inv, [Next]_vars, NEW k \in Keys,
         ~\E q \in Queues, S \in SUBSET Keys, next \in {"cached", "written"} : Caches(q, S, next)
  PROVE  KeepsStatus(k)
<1>1. CASE UNCHANGED job
  BY <1>1 DEF KeepsStatus
<1>2. CASE \E c \in Callers : Enqueue(c)
  BY <1>2, EnqueueKeepsStatus
<1>3. CASE \E l \in Keys : Start(l) \/ Backoff(l) \/ Clean(l)
  BY <1>3, TimersKeepStatus
<1>4. CASE Crash
  BY <1>4, CrashKeepsStatus
<1>5. ASSUME NEW q \in Queues, Works(q) PROVE KeepsStatus(k)
  <2>1. CASE Finishes(q)
    BY <2>1, FinishesKeepsStatus
  <2>2. CASE ProcessCover(q) \/ ProcessVolumeInfo(q) \/ ProcessCovers(q) \/ ProcessIdentify(q)
    BY <2>2 DEF ProcessCover, ProcessVolumeInfo, ProcessCovers, ProcessIdentify, Keys
  <2>3. CASE FetchCover(q) \/ FetchVolumeByTitle(q) \/ FetchVolumeInfo(q)
             \/ FetchSeriesCovers(q) \/ Identify(q) \/ Warms(q)
    BY <1>1, <2>3
       DEF FetchCover, FetchVolumeByTitle, FetchVolumeInfo, FetchSeriesCovers, Identify, Warms
  <2> QED BY <1>5, <2>1, <2>2, <2>3 DEF Works
<1> QED BY <1>1, <1>2, <1>3, <1>4, <1>5
        DEF Next, ResolveCoverAndDescription, ResolveVolumeInfo, ResolveSeriesCovers, IdentifySeries,
            Misses, GiveUp, Expire, SourceFlips, RedisFlips, vars

\* The row and what its job tells are written in one step.
LEMMA CachesTells ==
  ASSUME Inv, ToldIsCached, NEW q \in Queues, NEW S \in SUBSET Keys, NEW next, Caches(q, S, next)
  PROVE  ToldIsCached'
<1>1. PICK l \in Keys, s \in Statuses : l = worker[q].key /\ worker[q] # None /\ s = Outcome(worker[q])
  BY Fields DEF Caches, InHand, Inv, Outcome, Statuses
<1>2. job[l] \in Job /\ job[l] # None
  BY <1>1, Fields DEF Inv, InHandIsActive
<1>3. PICK entry : entry = [status |-> s, heard |-> worker[q].heard, full |-> job[l].full]
  OBVIOUS
<1>4. PICK told : told = [job[l] EXCEPT !.status = s]
  OBVIOUS
<1>5. cache' = [cache EXCEPT ![l] = entry] /\ job' = [job EXCEPT ![l] = told]
  BY <1>1, <1>3, <1>4 DEF Caches, Inv, TypeOK
<1>6. entry # None /\ entry.status = s /\ told.status = s
  <2>1. entry \in Entry
    BY <1>1, <1>2, <1>3, Fields DEF Inv, Entry, Job
  <2> QED BY <1>2, <1>3, <1>4, <2>1 DEF Job
<1>7. \A k \in Keys : /\ cache'[k] = IF k = l THEN entry ELSE cache[k]
                      /\ job'[k] = IF k = l THEN told ELSE job[k]
  BY <1>5 DEF Inv, TypeOK
<1> QED BY <1>6, <1>7 DEF ToldIsCached, Live

LEMMA NextTells == Inv /\ ToldIsCached /\ [Next]_vars => ToldIsCached'
<1> SUFFICES ASSUME Inv, ToldIsCached, [Next]_vars PROVE ToldIsCached'
  OBVIOUS
<1>1. CASE \E q \in Queues, S \in SUBSET Keys, next \in {"cached", "written"} : Caches(q, S, next)
  BY <1>1, CachesTells
<1>2. CASE ~\E q \in Queues, S \in SUBSET Keys, next \in {"cached", "written"} : Caches(q, S, next)
  <2>1. ASSUME NEW k \in Keys, job'[k] # None, job'[k].status # "unresolved",
               k \in Series => job'[k].state = "active"
        PROVE  Live(k)' \in {job'[k].status, None}
    <3>1. /\ job[k] # None /\ job'[k].status = job[k].status
          /\ job'[k].state = "active" => job[k].state = "active"
      BY <1>2, <2>1, NextKeepsStatus DEF KeepsStatus
    <3>2. Live(k) \in {job[k].status, None}
      BY <2>1, <3>1 DEF ToldIsCached
    <3>3. CASE cache'[k] \in {cache[k], None}
      BY <3>1, <3>2, <3>3 DEF Live
    <3>4. CASE cache'[k] \notin {cache[k], None}
      <4>1. PICK q \in Queues : /\ Warms(q) /\ k = SeriesOf[worker[q].key] /\ worker[q].key \in Queries
        BY <1>2, <3>4, WhoWrites
      <4>2. k \in Series /\ QueueOf(k) = "mangadex" /\ QueueOf(worker[q].key) = "mangadex"
        BY <4>1 DEF QueueOf
      <4>3. worker[q] # None /\ q = "mangadex"
        BY <4>1, <4>2 DEF Warms, InHand, Inv, InHandIsActive
      <4>4. worker[q].key = k
        BY <2>1, <3>1, <4>2, <4>3 DEF Inv, ActiveIsInHand
      <4> QED BY <4>1, <4>2, <4>4
    <3> QED BY <3>3, <3>4
  <2> QED BY <2>1 DEF ToldIsCached
<1> QED BY <1>1, <1>2

\* Whoever waits for a job, or joins it when it is over, is told what the cache
\* says, or said before the row expired.
THEOREM ToldAsCached == Spec => []ToldIsCached
<1>1. Init => ToldIsCached
  BY DEF Init, ToldIsCached
<1> QED BY <1>1, AlwaysInv, NextTells, PTL DEF Spec
=============================================================================
