--------------------------- MODULE MCSourceGateway ---------------------------
(***************************************************************************)
(* SourceGateway on small instances for TLC.                               *)
(***************************************************************************)
EXTENDS SourceGateway, TLC

CONSTANTS v1, i1, s1, q1

MCSeriesOf == [q \in Queries |-> s1]
MCAttempts == [k \in Keys |-> IF k \in Covers THEN 2 ELSE 1]
MCHoldings == {{}, {"plain"}, {"hinted"}}

\* The kinds of keys share nothing but Redis, the worker of their source and
\* the table of the cache: a behaviour that uses several adds nothing to those
\* that use one, but for a query and the series it leads to. Those, and the
\* titles of Google Books, are taken one request at a time, with Redis there and
\* without a crash. An isbn: record without a cover, and a query that its
\* authors alone resolve, are the holdings that make the cases.
Untouched(k) == holds[k] = {} /\ cache[k] = None /\ job[k] = None /\ \A c \in Callers : caller[c].key # k
OneAtATime == \A c, d \in Callers : caller[c].pc # "idle" /\ caller[d].pc # "idle" => c = d
OneKind ==
  \E S \in {Covers, Infos, Series \cup Queries} :
    /\ \A k \in Keys \ S : Untouched(k)
    /\ S = Covers => "plain" \notin holds[v1]
    /\ S = Infos => "hinted" \notin holds[i1]
    /\ S = Series \cup Queries => holds[q1] = {"hinted"} /\ "hinted" \notin holds[s1]
    /\ S # Covers => OneAtATime /\ crashes = 0 /\ redis
=============================================================================
