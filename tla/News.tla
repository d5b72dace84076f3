-------------------------------- MODULE News --------------------------------
(***************************************************************************)
(* The news stream, its cache and the catalyst verifier over it            *)
(* (core/news), as api/main.py starts and stops them.                      *)
(*                                                                         *)
(* The cache keeps the CacheSize articles of a symbol that were stored     *)
(* last, whatever their age.  The backfill stores what it fetches in the   *)
(* order it comes, newest first, so of a long backfill the oldest stay.    *)
(* The stream stores what is published while it is connected; nothing is   *)
(* fetched for the time it was not.                                        *)
(***************************************************************************)
EXTENDS Integers, Sequences, FiniteSetsExt, SequencesExt

CONSTANTS
    Tickers,        \* symbols that articles are about
    CacheSize,      \* articles kept of a symbol
    Lookback,       \* minutes the verifier looks back
    Backfills,      \* what the historical query may return, in its order
    NewsDelays,     \* minutes between two publications
    MaxArticles     \* bound: live articles

\* An article is what the classifier makes of its text.
Pieces == [about : SUBSET Tickers, blocks : BOOLEAN, accepted : BOOLEAN, at : Int]

ASSUME NewsAssumption ==
    /\ CacheSize \in Nat \ {0} /\ Lookback \in Nat /\ NewsDelays \subseteq Nat /\ MaxArticles \in Nat
    /\ "*" \notin Tickers
    /\ Backfills \subseteq Seq(Pieces)

VARIABLES
    nwCache,        \* _cache: newest stored first, "*" for articles without symbols
    nwTask,         \* where start, stop and the run loop are
    nwBackoff,      \* seconds to wait before the next connection
    nwVerdict,      \* the last verdict with its symbol
    nwClock,        \* minutes
    nwStored,       \* every article stored (history)
    nwPublished     \* live articles published so far

nwVars == <<nwCache, nwTask, nwBackoff, nwVerdict, nwClock, nwStored, nwPublished>>

Verdicts == {"VERIFIED", "SKIP", "UNVERIFIED"}
Keyed == Tickers \cup {"*"}

Articles(at) == [about : SUBSET Tickers, blocks : BOOLEAN, accepted : BOOLEAN, at : {at}]

\* A blocking phrase wins over an accepted one.
Classify(article) ==
    IF article.blocks THEN "SKIP" ELSE IF article.accepted THEN "VERIFIED" ELSE "UNVERIFIED"

NewsInit ==
    /\ nwCache = [s \in Keyed |-> <<>>]
    /\ nwTask = "idle" /\ nwBackoff = 1
    /\ nwVerdict = [symbol |-> "*", status |-> "UNVERIFIED"]
    /\ nwClock = 0 /\ nwStored = <<>> /\ nwPublished = 0

-----------------------------------------------------------------------------

FiledUnder(article) == IF article.about = {} THEN {"*"} ELSE article.about

Leading(seq, n) == SubSeq(seq, 1, IF Len(seq) > n THEN n ELSE Len(seq))

Store(cache, article) ==
    [s \in Keyed |-> IF s \in FiledUnder(article)
                     THEN Leading(<<article>> \o cache[s], CacheSize) ELSE cache[s]]

\* One after the other, as they come.
StoredAll(cache, articles) ==
    LET upTo[n \in 0 .. Len(articles)] ==
            IF n = 0 THEN cache ELSE Store(upTo[n - 1], articles[n])
    IN  upTo[Len(articles)]

\* start: without credentials the adapter stays idle; a failed query leaves the
\* cache as it is.
StartNews ==
    /\ nwTask = "idle"
    /\ \E articles \in Backfills \cup {<<>>} :
          /\ nwCache' = StoredAll(nwCache, articles)
          /\ nwStored' = nwStored \o articles
    /\ nwTask' = "connected"
    /\ UNCHANGED <<nwBackoff, nwVerdict, nwClock, nwPublished>>

\* An article reaches _on_news if the stream is connected, else nobody.
Publish ==
    /\ nwPublished < MaxArticles
    /\ nwPublished' = nwPublished + 1
    /\ \E delay \in NewsDelays : nwClock' = nwClock + delay
    /\ \E article \in Articles(nwClock') :
          IF nwTask = "connected"
          THEN nwCache' = Store(nwCache, article) /\ nwStored' = Append(nwStored, article)
          ELSE UNCHANGED <<nwCache, nwStored>>
    /\ UNCHANGED <<nwTask, nwBackoff, nwVerdict>>

\* The stream ends or fails; the loop sleeps, and then doubles the next wait.
StreamEnds ==
    /\ nwTask = "connected"
    /\ nwTask' = "sleeping"
    /\ UNCHANGED <<nwCache, nwBackoff, nwVerdict, nwClock, nwStored, nwPublished>>

Reconnect ==
    /\ nwTask = "sleeping"
    /\ nwTask' = "connected"
    /\ nwBackoff' = Min({2 * nwBackoff, 60})
    /\ UNCHANGED <<nwCache, nwVerdict, nwClock, nwStored, nwPublished>>

StopNews ==
    /\ nwTask \in {"connected", "sleeping"}
    /\ nwTask' = "stopped"
    /\ UNCHANGED <<nwCache, nwBackoff, nwVerdict, nwClock, nwStored, nwPublished>>

RecentNews(symbol) ==
    {nwCache[symbol][i] : i \in {k \in DOMAIN nwCache[symbol] : nwCache[symbol][k].at >= nwClock - Lookback}}

\* Mutation: a confirmation is looked for before a blocking phrase.
VerdictOfEager(items) ==
    LET statuses == {Classify(article) : article \in items}
    IN  IF "VERIFIED" \in statuses THEN "VERIFIED"
        ELSE IF "SKIP" \in statuses THEN "SKIP" ELSE "UNVERIFIED"

VerdictOf(items) ==
    LET statuses == {Classify(article) : article \in items}
    IN  IF "SKIP" \in statuses THEN "SKIP"
        ELSE IF "VERIFIED" \in statuses THEN "VERIFIED" ELSE "UNVERIFIED"

Verify ==
    /\ \E symbol \in Tickers :
          nwVerdict' = [symbol |-> symbol, status |-> VerdictOf(RecentNews(symbol)),
                        clock |-> nwClock, seen |-> Len(nwStored)]
    /\ UNCHANGED <<nwCache, nwTask, nwBackoff, nwClock, nwStored, nwPublished>>

NewsNext == StartNews \/ Publish \/ StreamEnds \/ Reconnect \/ StopNews \/ Verify

NewsSpec == NewsInit /\ [][NewsNext]_nwVars

-----------------------------------------------------------------------------

StoredAbout(symbol, seen) ==
    {i \in 1 .. seen : symbol \in nwStored[i].about}

\* A verified catalyst has no blocking article beside it: of all that was ever
\* stored about the symbol, none of the last CacheSize that is young enough
\* blocks it, whatever order the backfill and the stream brought them in.
VerifiedIsUnblocked ==
    nwVerdict.status = "VERIFIED" =>
        LET about == StoredAbout(nwVerdict.symbol, nwVerdict.seen)
            last  == {i \in about : Cardinality({j \in about : j > i}) < CacheSize}
            young == {i \in last : nwStored[i].at >= nwVerdict.clock - Lookback}
        IN  /\ \A i \in young : ~nwStored[i].blocks
            /\ \E i \in young : nwStored[i].accepted

\* What a step preserves: a symbol's cache is its last articles in the reverse
\* of the order they were stored in.
About(symbol, log) == {i \in DOMAIN log : symbol \in FiledUnder(log[i])}
Later(symbol, log, i) == {j \in About(symbol, log) : j > i}

Caches(cache, log) ==
    /\ cache \in [Keyed -> Seq(Pieces)]
    /\ log \in Seq(Pieces)
    /\ \A s \in Keyed :
          /\ \A i \in About(s, log) :
                LET place == Cardinality(Later(s, log, i)) + 1
                IN  place <= CacheSize => place \in DOMAIN cache[s] /\ cache[s][place] = log[i]
          /\ \A place \in DOMAIN cache[s] :
                place <= CacheSize /\ \E i \in About(s, log) : Cardinality(Later(s, log, i)) + 1 = place

NewsInv ==
    /\ Caches(nwCache, nwStored)
    /\ nwClock \in Nat
    /\ nwTask = "idle" => nwStored = <<>>
    /\ nwVerdict.status = "VERIFIED" =>
          nwVerdict.symbol \in Tickers /\ nwVerdict.seen \in 0 .. Len(nwStored)
    /\ VerifiedIsUnblocked
=============================================================================
