----------------------------- MODULE MarketFeed -----------------------------
(***************************************************************************)
(* How a bet reaches the pages that show its market: StateManager of       *)
(* internal/market, its cache in Redis, and the handler of market updates  *)
(* of the frontend (WsProvider).  One market.                              *)
(*                                                                         *)
(* After a bet or a cashout commits, a market:update message is published. *)
(* A goroutine per message reads the market, offers it to the cache, which *)
(* takes newer versions only, and publishes it to the pages.  A page loads *)
(* the market through GetMarketState, which reads the cache or fills it.   *)
(*                                                                         *)
(* A market state is its version and a revision, the number of changes of  *)
(* its quantities, which stands for quantities, prices and volume.         *)
(***************************************************************************)
EXTENDS Integers, Sequences, FiniteSets

CONSTANTS
    Workers,      \* goroutines of StateManager.start that hold the semaphore
    Fillers,      \* goroutines of GetMarketState that fill the cache
    Pages,        \* pages that show the market, connected to the hub
    MaxChanges,   \* bound: changes of the market
    MaxFailures,  \* bound: failures of Redis, the database, or a timeout
    None

ASSUME FeedAssumption ==
    /\ Workers \cap Fillers = {}
    /\ MaxChanges \in Nat /\ MaxFailures \in Nat
    /\ None \notin [version : Nat, rev : Nat]

VARIABLES
    market,     \* the committed row of the market
    lastBet,    \* the row that the last bet or cashout left
    publishing, \* PublishUpdateMarket goroutines that have not run
    updates,    \* market:update messages received, not yet handled
    job,        \* job[j]: what the goroutine j does
    cache,      \* the cached state, or None when it expired
    older,      \* goroutines under way since before the cache was last set
    missed,     \* a notification was lost and no later one made up for it
    failures,   \* failures so far
    fetch,      \* fetch[p]: the answer under way to page p, or None
    page,       \* page[p]: what p shows, or None
    queue       \* queue[p]: pushes under way to p

db == <<market, lastBet>>
feed == <<publishing, updates, job, cache, older, missed, failures>>
pages == <<fetch, page, queue>>
vars == <<db, feed, pages>>

State == [version : Nat, rev : Nat]
Job == [step : {"idle", "start"}] \cup [step : {"set", "publish"}, ms : State]
Page == [version : Nat, shown : State]

Idle == [step |-> "idle"]
Goroutines == Workers \cup Fillers

Init ==
    /\ market = [version |-> 0, rev |-> 0] /\ lastBet = market
    /\ publishing = 0 /\ updates = 0
    /\ job = [j \in Goroutines |-> Idle]
    /\ cache = None /\ older = {}
    /\ missed = FALSE /\ failures = 0
    /\ fetch = [p \in Pages |-> None]
    /\ page = [p \in Pages |-> None]
    /\ queue = [p \in Pages |-> <<>>]

-----------------------------------------------------------------------------
(* Changes of the market (TransactionManager). *)

(* A bet or a cashout: version, quantities, and a goroutine that publishes. *)
Bet ==
    /\ market.version < MaxChanges
    /\ market' = [version |-> market.version + 1, rev |-> market.rev + 1]
    /\ lastBet' = market'
    /\ publishing' = publishing + 1
    /\ UNCHANGED <<updates, job, cache, older, missed, failures, pages>>

(* The settlement of the market: no update is published. *)
Settle ==
    /\ market.version < MaxChanges
    /\ market' = [market EXCEPT !.version = @ + 1]
    /\ UNCHANGED <<lastBet, feed, pages>>

(* A bet against an outcome of another market: the quantities of this one
   change, without its version and without an update. *)
BetElsewhere ==
    /\ market.rev < MaxChanges
    /\ market' = [market EXCEPT !.rev = @ + 1]
    /\ UNCHANGED <<lastBet, feed, pages>>

(* PublishUpdateMarket reaches the subscription of StateManager. *)
PublishUpdateMarket ==
    /\ publishing > 0
    /\ publishing' = publishing - 1
    /\ updates' = updates + 1
    /\ UNCHANGED <<db, job, cache, older, missed, failures, pages>>

(* It does not: Redis is away, the process stops, the message is lost. *)
PublishFails ==
    /\ publishing > 0 /\ failures < MaxFailures
    /\ publishing' = publishing - 1
    /\ failures' = failures + 1
    /\ missed' = TRUE
    /\ UNCHANGED <<db, updates, job, cache, older, pages>>

-----------------------------------------------------------------------------
(* StateManager. *)

(* A goroutine for a message gets the semaphore; its timeout starts. *)
Start(w) ==
    /\ updates > 0 /\ job[w] = Idle
    /\ updates' = updates - 1
    /\ job' = [job EXCEPT ![w] = [step |-> "start"]]
    /\ UNCHANGED <<db, publishing, cache, older, missed, failures, pages>>

(* retrieveMarketStateDB *)
Retrieve(w) ==
    /\ job[w].step = "start"
    /\ job' = [job EXCEPT ![w] = [step |-> "set", ms |-> market]]
    /\ missed' = FALSE
    /\ UNCHANGED <<db, publishing, updates, cache, older, failures, pages>>

(* The condition of the Lua script. *)
AlwaysTaken(ms) == TRUE
Taken(ms) == cache = None \/ cache.version < ms.version

(* setRedisCacheMarketState: the script, and EXPIRE.  The goroutine goes on
   to `next'. *)
SetCache(j, next) ==
    /\ job[j].step = "set"
    /\ job' = [job EXCEPT ![j] = next]
    /\ IF Taken(job[j].ms)
         THEN /\ cache' = job[j].ms
              /\ older' = {i \in Goroutines : job'[i] # Idle}
         ELSE UNCHANGED <<cache, older>>

(* updateMarketState: a state that the cache did not take is not published. *)
UpdateCache(w) ==
    /\ SetCache(w, IF Taken(job[w].ms)
                     THEN [step |-> "publish", ms |-> job[w].ms] ELSE Idle)
    /\ UNCHANGED <<db, publishing, updates, missed, failures, pages>>

(* Redis fails: the state is published all the same. *)
CacheFails(w) ==
    /\ job[w].step = "set" /\ failures < MaxFailures
    /\ failures' = failures + 1
    /\ job' = [job EXCEPT ![w].step = "publish"]
    /\ missed' = TRUE
    /\ UNCHANGED <<db, publishing, updates, cache, older, pages>>

Push(w) ==
    /\ job[w].step = "publish"
    /\ queue' = [p \in Pages |-> Append(queue[p], job[w].ms)]
    /\ job' = [job EXCEPT ![w] = Idle]
    /\ UNCHANGED <<db, publishing, updates, cache, older, missed, failures,
                   fetch, page>>

(* The timeout of a goroutine, or an error of the database or of Redis. *)
GiveUp(j) ==
    /\ job[j] # Idle /\ failures < MaxFailures
    /\ failures' = failures + 1
    /\ job' = [job EXCEPT ![j] = Idle]
    /\ missed' = (missed \/ (j \in Workers /\ job[j].step # "publish"))
    /\ UNCHANGED <<db, publishing, updates, cache, older, pages>>

(* cacheTTL (30 s) passes.  A goroutine has at most 5 s, so the ones that were
   under way when the cache was set have ended. *)
NeverExpires == FALSE
TTLPassed == \A j \in older : job[j] = Idle

Expire ==
    /\ cache # None /\ TTLPassed
    /\ cache' = None /\ older' = {}
    /\ UNCHANGED <<db, publishing, updates, job, missed, failures, pages>>

-----------------------------------------------------------------------------
(* The pages. *)

(* The market is requested: GetMarketState hits the cache, or (nothing is
   cached, or Redis fails) reads the database and leaves the cache to a
   goroutine. *)
FetchCached(p) ==
    /\ fetch[p] = None /\ cache # None
    /\ fetch' = [fetch EXCEPT ![p] = cache]
    /\ UNCHANGED <<db, feed, page, queue>>

FetchFromDB(p, f) ==
    /\ fetch[p] = None /\ job[f] = Idle
    /\ failures' = IF cache = None THEN failures ELSE failures + 1
    /\ failures' <= MaxFailures
    /\ fetch' = [fetch EXCEPT ![p] = market]
    /\ job' = [job EXCEPT ![f] = [step |-> "set", ms |-> market]]
    /\ UNCHANGED <<db, publishing, updates, cache, older, missed, page, queue>>

FillCache(f) ==
    /\ SetCache(f, Idle)
    /\ UNCHANGED <<db, publishing, updates, missed, failures, pages>>

(* The answer has no version (marketSearchUserRes), and the schema of the
   frontend sets it to 0. *)
LoadedVersion == 0

(* The answer arrives. *)
Load(p) ==
    /\ fetch[p] # None
    /\ page' = [page EXCEPT ![p] = [version |-> LoadedVersion, shown |-> fetch[p]]]
    /\ fetch' = [fetch EXCEPT ![p] = None]
    /\ UNCHANGED <<db, feed, queue>>

(* A push arrives; it is applied to a loaded page with an older version. *)
Receive(p) ==
    /\ queue[p] # <<>>
    /\ LET ms == Head(queue[p]) IN
       IF page[p] # None /\ page[p].version < ms.version
         THEN page' = [page EXCEPT ![p] = [version |-> ms.version, shown |-> ms]]
         ELSE UNCHANGED page
    /\ queue' = [queue EXCEPT ![p] = Tail(@)]
    /\ UNCHANGED <<db, feed, fetch>>

Next ==
    \/ Bet \/ Settle \/ BetElsewhere
    \/ PublishUpdateMarket \/ PublishFails \/ Expire
    \/ \E w \in Workers :
          Start(w) \/ Retrieve(w) \/ UpdateCache(w) \/ CacheFails(w) \/ Push(w)
    \/ \E j \in Goroutines : GiveUp(j)
    \/ \E f \in Fillers : FillCache(f)
    \/ \E p \in Pages :
          \/ FetchCached(p) \/ Load(p) \/ Receive(p)
          \/ \E f \in Fillers : FetchFromDB(p, f)

(* Goroutines go on, messages that are not lost arrive, the TTL passes.
   Nobody has to bet or to load a page. *)
Fairness ==
    /\ WF_vars(PublishUpdateMarket) /\ WF_vars(Expire)
    /\ WF_vars(\E w \in Workers : Start(w))
    /\ \A w \in Workers : WF_vars(Retrieve(w) \/ UpdateCache(w) \/ Push(w))
    /\ \A f \in Fillers : WF_vars(FillCache(f))
    /\ \A p \in Pages : WF_vars(Load(p)) /\ WF_vars(Receive(p))

Spec == Init /\ [][Next]_vars
FairSpec == Spec /\ Fairness

-----------------------------------------------------------------------------
TypeOK ==
    /\ market \in State /\ lastBet \in State
    /\ publishing \in Nat /\ updates \in Nat
    /\ job \in [Goroutines -> Job]
    /\ cache \in State \cup {None}
    /\ older \subseteq Goroutines
    /\ missed \in BOOLEAN
    /\ failures \in 0 .. MaxFailures
    /\ fetch \in [Pages -> State \cup {None}]
    /\ page \in [Pages -> Page \cup {None}]
    /\ \A p \in Pages : queue[p] \in Seq(State)

(* Once every notification was handled, the cache has the last bet, in
   whatever order the goroutines read the database and write the cache, and
   although an entry that expired accepts any version: quotes are computed
   from the cached quantities. *)
CacheCatchesUp ==
    (publishing = 0 /\ updates = 0 /\ ~ missed /\ cache # None
        /\ \A w \in Workers : job[w] = Idle)
    => cache.rev >= lastBet.rev

(* Whatever was lost, a stale entry of the cache goes away: it ends up empty
   or with the state of the market. *)
CacheSettles == <>[](cache \in {None, market} \/ cache.rev = market.rev)

=============================================================================
