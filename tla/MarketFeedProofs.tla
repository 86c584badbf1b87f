-------------------------- MODULE MarketFeedProofs --------------------------
(***************************************************************************)
(* The cache of a market's state, for any number of goroutines, pages,     *)
(* changes and failures: once every notification was handled it has the    *)
(* last bet.                                                               *)
(*                                                                         *)
(* The argument: after a bet something is still to come, a notification or *)
(* a goroutine that read the market after it (Awaited), or a loss was      *)
(* recorded.  When the last of these is gone, the cache has the bet, and   *)
(* then only newer states replace it; when it expires, those that started  *)
(* before it was set have ended, and those that started later read the     *)
(* market after the bet.                                                   *)
(***************************************************************************)
EXTENDS MarketFeed, TLAPS

FeedTypes ==
    /\ market \in State /\ lastBet \in State
    /\ publishing \in Nat /\ updates \in Nat
    /\ job \in [Goroutines -> Job]
    /\ cache \in State \cup {None}
    /\ missed \in BOOLEAN

(* A state that was read from the database: not ahead of the market, and with the
   last bet if its version says so. *)
Past(ms) ==
    /\ ms \in State
    /\ ms.version <= market.version
    /\ ms.version >= lastBet.version => ms.rev >= lastBet.rev

(* The goroutine is about to offer the state it has read. *)
Offers(j) == job[j].step = "set"

AllPast ==
    /\ lastBet.version <= market.version /\ lastBet.rev <= market.rev
    /\ \A j \in Goroutines : Offers(j) => Past(job[j].ms)
    /\ cache # None => Past(cache)

(* Only those that were under way when the cache was set offer less. *)
OnlyOlderOfferLess ==
    cache # None =>
        \A j \in Goroutines \ older : Offers(j) => job[j].ms.version >= cache.version

(* Something is still to bring the last bet, or was lost. *)
Brings(w) == job[w].step = "start" \/ (Offers(w) /\ job[w].ms.version >= lastBet.version)
Awaited == publishing > 0 \/ updates > 0 \/ missed \/ \E w \in Workers : Brings(w)

HasLastBet ==
    IF cache # None THEN cache.version >= lastBet.version
    ELSE \A j \in Goroutines : Offers(j) => job[j].ms.version >= lastBet.version

FeedInv == FeedTypes /\ AllPast /\ OnlyOlderOfferLess /\ (~ Awaited => HasLastBet)

-----------------------------------------------------------------------------
(* Steps that leave the cache and the goroutines alone. *)

(* The market changes: what was read before stays in the past, and a bet is awaited. *)
LEMMA ChangeStep ==
    ASSUME FeedInv, Bet \/ Settle \/ BetElsewhere
    PROVE  FeedInv'
<1>0. FeedTypes /\ AllPast
  BY DEF FeedInv
<1>1. UNCHANGED <<job, cache, older, updates, missed>>
  BY DEF Bet, Settle, BetElsewhere, feed
<1>2. market.version \in Nat /\ market.rev \in Nat /\ lastBet.version \in Nat /\ lastBet.rev \in Nat
  BY <1>0 DEF FeedTypes, State
<1>3. OnlyOlderOfferLess'
  BY <1>1 DEF FeedInv, OnlyOlderOfferLess, Offers
<1>4. CASE Bet
  <2>1. /\ market' = [version |-> market.version + 1, rev |-> market.rev + 1]
        /\ lastBet' = market' /\ publishing' = publishing + 1
    BY <1>4 DEF Bet
  <2>2. /\ market'.version = market.version + 1 /\ market'.rev = market.rev + 1
        /\ market' \in State
    BY <1>2, <2>1 DEF State
  <2>3. FeedTypes'
    BY <1>0, <1>1, <2>1, <2>2 DEF FeedTypes
  <2>4. ASSUME NEW ms, Past(ms)
        PROVE  Past(ms)'
    <3>1. ms \in State /\ ms.version \in Nat /\ ms.version <= market.version
      BY <2>4 DEF Past, State
    <3>2. ms.version <= market'.version /\ ~ (ms.version >= lastBet'.version)
      BY <1>2, <2>1, <2>2, <3>1
    <3> QED BY <3>1, <3>2 DEF Past
  <2>5. lastBet'.version <= market'.version /\ lastBet'.rev <= market'.rev
    BY <1>2, <2>1, <2>2
  <2>6. AllPast'
    BY <1>0, <1>1, <2>4, <2>5 DEF AllPast, Offers
  <2>7. Awaited'
    <3>1. publishing \in Nat
      BY <1>0 DEF FeedTypes
    <3>2. publishing' > 0
      BY <2>1, <3>1
    <3> QED BY <3>2 DEF Awaited
  <2> QED BY <1>3, <2>3, <2>6, <2>7 DEF FeedInv
<1>5. CASE Settle \/ BetElsewhere
  <2>1. lastBet' = lastBet /\ publishing' = publishing
    BY <1>5 DEF Settle, BetElsewhere, feed
  <2>2. /\ market' \in State
        /\ market'.version >= market.version /\ market'.rev >= market.rev
    BY <1>0, <1>2, <1>5 DEF Settle, BetElsewhere, State, FeedTypes
  <2>3. FeedTypes'
    BY <1>0, <1>1, <2>1, <2>2 DEF FeedTypes
  <2>4. market'.version \in Nat /\ market'.rev \in Nat
    BY <2>2 DEF State
  <2>5. ASSUME NEW ms, Past(ms)
        PROVE  Past(ms)'
    <3>1. ms \in State /\ ms.version \in Nat /\ ms.version <= market.version
      BY <2>5 DEF Past, State
    <3>2. ms.version <= market'.version
      BY <1>2, <2>2, <2>4, <3>1
    <3> QED BY <2>1, <2>5, <3>1, <3>2 DEF Past
  <2>6. lastBet'.version <= market'.version /\ lastBet'.rev <= market'.rev
    <3>1. lastBet.version <= market.version /\ lastBet.rev <= market.rev
      BY <1>0 DEF AllPast
    <3> QED BY <1>2, <2>1, <2>2, <2>4, <3>1
  <2>7. AllPast'
    BY <1>0, <1>1, <2>5, <2>6 DEF AllPast, Offers
  <2>8. ~ Awaited' => HasLastBet'
    BY <1>1, <2>1 DEF FeedInv, Awaited, HasLastBet, Brings, Offers
  <2> QED BY <1>3, <2>3, <2>7, <2>8 DEF FeedInv
<1> QED BY <1>4, <1>5

(* What a step keeps that changes neither the states that were read nor the market. *)
LEMMA SameStates ==
    ASSUME AllPast, OnlyOlderOfferLess, UNCHANGED <<market, lastBet, cache, older>>,
           \A j \in Goroutines : Offers(j)' => Offers(j) /\ job'[j].ms = job[j].ms
    PROVE  AllPast' /\ OnlyOlderOfferLess'
<1>1. \A ms : Past(ms) => Past(ms)'
  BY DEF Past
<1>2. AllPast'
  BY <1>1 DEF AllPast
<1>3. OnlyOlderOfferLess'
  BY DEF OnlyOlderOfferLess
<1> QED BY <1>2, <1>3

(* A notification arrives or is lost, or a page does something. *)
LEMMA NoticeStep ==
    ASSUME FeedInv,
           \/ PublishUpdateMarket \/ PublishFails \/ UNCHANGED <<db, feed>>
    PROVE  FeedInv'
<1>0. FeedTypes /\ AllPast /\ OnlyOlderOfferLess
  BY DEF FeedInv
<1>1. UNCHANGED <<market, lastBet, job, cache, older>>
  BY DEF PublishUpdateMarket, PublishFails, db, feed
<1>2. AllPast' /\ OnlyOlderOfferLess'
  <2>1. \A j \in Goroutines : Offers(j)' => Offers(j) /\ job'[j].ms = job[j].ms
    BY <1>1 DEF Offers
  <2> QED BY <1>0, <1>1, <2>1, SameStates
<1>3. publishing \in Nat /\ updates \in Nat /\ missed \in BOOLEAN
  BY <1>0 DEF FeedTypes
<1>4. publishing' \in Nat /\ updates' \in Nat /\ missed' \in BOOLEAN
  <2>1. CASE PublishUpdateMarket
    <3>1. publishing > 0 /\ publishing' = publishing - 1 /\ updates' = updates + 1 /\ missed' = missed
      BY <2>1 DEF PublishUpdateMarket
    <3> QED BY <1>3, <3>1
  <2>2. CASE PublishFails
    <3>1. publishing > 0 /\ publishing' = publishing - 1 /\ updates' = updates /\ missed' = TRUE
      BY <2>2 DEF PublishFails
    <3> QED BY <1>3, <3>1
  <2>3. CASE UNCHANGED <<db, feed>>
    BY <1>3, <2>3 DEF feed
  <2> QED BY <2>1, <2>2, <2>3
<1>5. FeedTypes'
  BY <1>0, <1>1, <1>4 DEF FeedTypes
<1>6. CASE PublishUpdateMarket
  <2>1. updates' > 0
    BY <1>3, <1>6 DEF PublishUpdateMarket
  <2> QED BY <1>2, <1>5, <2>1 DEF FeedInv, Awaited
<1>7. CASE PublishFails
  <2>1. missed'
    BY <1>7 DEF PublishFails
  <2> QED BY <1>2, <1>5, <2>1 DEF FeedInv, Awaited
<1>8. CASE UNCHANGED <<db, feed>>
  <2>1. UNCHANGED <<publishing, updates, missed>>
    BY <1>8 DEF feed
  <2>2. ~ Awaited' => HasLastBet'
    BY <1>1, <2>1 DEF FeedInv, Awaited, HasLastBet, Brings, Offers
  <2> QED BY <1>2, <1>5, <2>2 DEF FeedInv
<1> QED BY <1>6, <1>7, <1>8

-----------------------------------------------------------------------------
(* Steps of one goroutine. *)

(* What a goroutine may be doing. *)
LEMMA JobShapes ==
    ASSUME NEW x \in Job
    PROVE  /\ x.step \in {"idle", "start", "set", "publish"}
           /\ x.step \in {"set", "publish"} => x.ms \in State
           /\ x.step = "set" => [x EXCEPT !.step = "publish"] \in Job
           /\ x.step = "set" => [x EXCEPT !.step = "publish"].step = "publish"
BY DEF Job

(* The jobs that are set. *)
LEMMA JobsMade ==
    /\ Idle \in Job /\ Idle.step = "idle"
    /\ [step |-> "start"] \in Job
    /\ \A ms \in State : [step |-> "set", ms |-> ms] \in Job /\ [step |-> "publish", ms |-> ms] \in Job
BY DEF Job, Idle

(* The semaphore is taken: the notification is now awaited from the goroutine. *)
LEMMA StartStep ==
    ASSUME FeedInv, NEW w \in Workers, Start(w)
    PROVE  FeedInv'
<1>0. FeedTypes /\ AllPast /\ OnlyOlderOfferLess /\ w \in Goroutines
  BY DEF FeedInv, Goroutines
<1>1. /\ UNCHANGED <<market, lastBet, publishing, cache, older, missed>>
      /\ job' = [job EXCEPT ![w] = [step |-> "start"]]
      /\ updates > 0 /\ updates' = updates - 1
  BY DEF Start, db
<1>2. FeedTypes'
  BY <1>0, <1>1, JobsMade DEF FeedTypes
<1>3. job'[w].step = "start" /\ \A j \in Goroutines \ {w} : job'[j] = job[j]
  BY <1>0, <1>1 DEF FeedTypes
<1>4. AllPast' /\ OnlyOlderOfferLess'
  <2>1. \A j \in Goroutines : Offers(j)' => Offers(j) /\ job'[j].ms = job[j].ms
    BY <1>3 DEF Offers
  <2> QED BY <1>0, <1>1, <2>1, SameStates
<1>5. Awaited'
  BY <1>3 DEF Awaited, Brings
<1> QED BY <1>2, <1>4, <1>5 DEF FeedInv

(* A goroutine that reads the market now offers all that was ever read. *)
LEMMA ReadNow ==
    ASSUME FeedTypes, AllPast, OnlyOlderOfferLess, NEW j \in Goroutines,
           UNCHANGED <<market, lastBet, cache, older>>,
           job' = [job EXCEPT ![j] = [step |-> "set", ms |-> market]]
    PROVE  /\ AllPast' /\ OnlyOlderOfferLess'
           /\ Offers(j)' /\ job'[j].ms.version >= lastBet'.version
           /\ \A i \in Goroutines \ {j} : job'[i] = job[i]
<1>1. /\ job'[j].step = "set" /\ job'[j].ms = market
      /\ \A i \in Goroutines \ {j} : job'[i] = job[i]
  BY DEF FeedTypes
<1>2. /\ market.version \in Nat /\ market.rev \in Nat
      /\ lastBet.version \in Nat /\ lastBet.rev \in Nat
      /\ lastBet.version <= market.version /\ lastBet.rev <= market.rev
  BY DEF FeedTypes, State, AllPast
<1>3. Past(market)
  BY <1>2 DEF Past, FeedTypes
<1>4. \A ms : Past(ms) => Past(ms)'
  BY DEF Past
<1>5. \A i \in Goroutines : (Offers(i) => Past(job[i].ms))'
  BY <1>1, <1>3, <1>4 DEF AllPast, Offers
<1>6. AllPast'
  BY <1>2, <1>4, <1>5 DEF AllPast
<1>7. OnlyOlderOfferLess'
  <2> SUFFICES ASSUME cache # None, NEW i \in Goroutines \ older, Offers(i)'
               PROVE  job'[i].ms.version >= cache.version
    BY DEF OnlyOlderOfferLess
  <2>1. CASE i = j
    <3>1. cache.version <= market.version /\ cache.version \in Nat
      BY DEF AllPast, Past, State
    <3> QED BY <1>1, <1>2, <2>1, <3>1
  <2>2. CASE i # j
    BY <1>1, <2>2 DEF OnlyOlderOfferLess, Offers
  <2> QED BY <2>1, <2>2
<1> QED BY <1>1, <1>2, <1>6, <1>7 DEF Offers

(* The goroutine of a notification reads: it brings the last bet. *)
LEMMA RetrieveStep ==
    ASSUME FeedInv, NEW w \in Workers, Retrieve(w)
    PROVE  FeedInv'
<1>0. FeedTypes /\ AllPast /\ OnlyOlderOfferLess /\ w \in Goroutines /\ market \in State
  BY DEF FeedInv, Goroutines, FeedTypes
<1>1. /\ UNCHANGED <<market, lastBet, publishing, updates, cache, older>>
      /\ job' = [job EXCEPT ![w] = [step |-> "set", ms |-> market]]
      /\ missed' = FALSE
  BY DEF Retrieve, db
<1>2. FeedTypes'
  BY <1>0, <1>1, JobsMade DEF FeedTypes
<1>3. /\ AllPast' /\ OnlyOlderOfferLess'
      /\ Offers(w)' /\ job'[w].ms.version >= lastBet'.version
  BY <1>0, <1>1, ReadNow
<1>4. Awaited'
  BY <1>3 DEF Awaited, Brings
<1> QED BY <1>2, <1>3, <1>4 DEF FeedInv

(* A page load reads the market: what it offers later has the last bet. *)
LEMMA FetchStep ==
    ASSUME FeedInv, NEW p \in Pages, NEW f \in Fillers, FetchFromDB(p, f)
    PROVE  FeedInv'
<1>0. FeedTypes /\ AllPast /\ OnlyOlderOfferLess /\ f \in Goroutines /\ market \in State
  BY DEF FeedInv, Goroutines, FeedTypes
<1>1. /\ UNCHANGED <<market, lastBet, publishing, updates, cache, older, missed>>
      /\ job' = [job EXCEPT ![f] = [step |-> "set", ms |-> market]]
  BY DEF FetchFromDB, db
<1>2. FeedTypes'
  BY <1>0, <1>1, JobsMade DEF FeedTypes
<1>3. /\ AllPast' /\ OnlyOlderOfferLess'
      /\ Offers(f)' /\ job'[f].ms.version >= lastBet'.version
      /\ \A i \in Goroutines \ {f} : job'[i] = job[i]
  BY <1>0, <1>1, ReadNow
<1>4. \A w \in Workers : job'[w] = job[w] /\ w \in Goroutines
  BY <1>3, FeedAssumption DEF Goroutines
<1>5. Awaited' <=> Awaited
  BY <1>1, <1>4 DEF Awaited, Brings, Offers
<1>6. HasLastBet => HasLastBet'
  BY <1>1, <1>3 DEF HasLastBet, Offers
<1> QED BY <1>2, <1>3, <1>5, <1>6 DEF FeedInv

(* The script of the cache: what it has afterwards is not less than what was
   offered, nor than what it had. *)
LEMMA SetStep ==
    ASSUME FeedInv, NEW j \in Goroutines, NEW next \in Job, next.step # "set", next.step # "start",
           SetCache(j, next),
           UNCHANGED <<market, lastBet, publishing, updates, missed>>
    PROVE  FeedInv'
<1>0. FeedTypes /\ AllPast /\ OnlyOlderOfferLess
  BY DEF FeedInv
<1>1. Offers(j) /\ job' = [job EXCEPT ![j] = next]
  BY DEF SetCache, Offers
<1>2. job'[j] = next /\ \A i \in Goroutines \ {j} : job'[i] = job[i]
  BY <1>0, <1>1 DEF FeedTypes
<1>3. /\ \A i \in Goroutines : Offers(i)' => Offers(i) /\ job'[i].ms = job[i].ms /\ job'[i] # Idle
      /\ ~ Offers(j)'
  BY <1>2, JobsMade DEF Offers
<1>4. Past(job[j].ms) /\ job[j].ms \in State /\ job[j].ms.version \in Nat /\ job[j].ms # None
  BY <1>0, <1>1, FeedAssumption DEF AllPast, Past, State
<1>5. cache # None => Past(cache) /\ cache \in State /\ cache.version \in Nat
  BY <1>0 DEF AllPast, Past, State
<1>6. lastBet.version \in Nat
  BY <1>0 DEF FeedTypes, State
<1>7. \A ms : Past(ms) => Past(ms)'
  BY DEF Past
<1>8. \A w \in Workers : Brings(w)' <=> Brings(w) /\ w # j
  <2> SUFFICES ASSUME NEW w \in Workers
               PROVE  Brings(w)' <=> Brings(w) /\ w # j
    OBVIOUS
  <2>1. CASE w = j
    BY <1>2, <1>3, <2>1 DEF Brings, Offers
  <2>2. CASE w # j
    <3>1. job'[w] = job[w]
      BY <1>2, <2>2 DEF Goroutines
    <3> QED BY <2>2, <3>1 DEF Brings, Offers
  <2> QED BY <2>1, <2>2
<1>9. CASE Taken(job[j].ms)
  <2>1. cache' = job[j].ms /\ older' = {i \in Goroutines : job'[i] # Idle}
    BY <1>9 DEF SetCache
  <2>2. FeedTypes'
    BY <1>0, <1>1, <1>4, <2>1 DEF FeedTypes
  <2>3. AllPast'
    BY <1>0, <1>3, <1>4, <1>7, <2>1 DEF AllPast
  <2>4. OnlyOlderOfferLess'
    BY <1>3, <2>1 DEF OnlyOlderOfferLess
  <2>5. ASSUME ~ Awaited'
        PROVE  HasLastBet'
    <3>1. CASE job[j].ms.version >= lastBet.version
      BY <1>4, <2>1, <3>1 DEF HasLastBet
    <3>2. CASE ~ (job[j].ms.version >= lastBet.version)
      <4>1. ~ Awaited
        <5>1. job[j].step = "set" /\ ~ Brings(j)
          BY <1>1, <3>2 DEF Brings, Offers
        <5> QED BY <1>8, <2>5, <5>1 DEF Awaited
      <4>2. HasLastBet
        BY <4>1 DEF FeedInv
      <4>3. cache # None
        BY <1>1, <3>2, <4>2 DEF HasLastBet
      <4>4. cache.version < job[j].ms.version /\ cache.version >= lastBet.version
        BY <1>9, <4>2, <4>3 DEF Taken, HasLastBet
      <4> QED BY <1>4, <1>5, <1>6, <3>2, <4>3, <4>4
    <3> QED BY <3>1, <3>2
  <2> QED BY <2>2, <2>3, <2>4, <2>5 DEF FeedInv
<1>10. CASE ~ Taken(job[j].ms)
  <2>1. cache' = cache /\ older' = older
    BY <1>10 DEF SetCache
  <2>2. cache # None /\ ~ (cache.version < job[j].ms.version)
    BY <1>10 DEF Taken
  <2>3. FeedTypes'
    BY <1>0, <1>1, <2>1 DEF FeedTypes
  <2>4. AllPast' /\ OnlyOlderOfferLess'
    BY <1>0, <1>3, <2>1, SameStates
  <2>5. ASSUME ~ Awaited'
        PROVE  HasLastBet'
    <3>1. CASE job[j].ms.version >= lastBet.version
      <4>1. cache.version >= lastBet.version
        BY <1>4, <1>5, <1>6, <2>2, <3>1
      <4> QED BY <2>1, <2>2, <4>1 DEF HasLastBet
    <3>2. CASE ~ (job[j].ms.version >= lastBet.version)
      <4>1. ~ Awaited
        <5>1. job[j].step = "set" /\ ~ Brings(j)
          BY <1>1, <3>2 DEF Brings, Offers
        <5> QED BY <1>8, <2>5, <5>1 DEF Awaited
      <4>2. HasLastBet
        BY <4>1 DEF FeedInv
      <4> QED BY <2>1, <2>2, <4>2 DEF HasLastBet
    <3> QED BY <3>1, <3>2
  <2> QED BY <2>3, <2>4, <2>5 DEF FeedInv
<1> QED BY <1>9, <1>10

(* The cache is offered a state for a notification, or by a page load. *)
LEMMA CacheStep ==
    ASSUME FeedInv,
           (\E w \in Workers : UpdateCache(w)) \/ (\E f \in Fillers : FillCache(f))
    PROVE  FeedInv'
<1>1. CASE \E w \in Workers : UpdateCache(w)
  <2>1. PICK w \in Workers : UpdateCache(w)
    BY <1>1
  <2> DEFINE next == IF Taken(job[w].ms)
                     THEN [step |-> "publish", ms |-> job[w].ms] ELSE Idle
  <2>2. w \in Goroutines /\ job[w].step = "set"
    BY <2>1 DEF Goroutines, UpdateCache, SetCache
  <2>3. job[w].ms \in State
    BY <2>2 DEF FeedInv, AllPast, Past, Offers
  <2>4. next \in Job /\ next.step # "set" /\ next.step # "start"
    BY <2>3, JobsMade
  <2>5. SetCache(w, next) /\ UNCHANGED <<market, lastBet, publishing, updates, missed>>
    BY <2>1 DEF UpdateCache, db
  <2> HIDE DEF next
  <2> QED BY <2>2, <2>4, <2>5, SetStep
<1>2. CASE \E f \in Fillers : FillCache(f)
  <2>1. PICK f \in Fillers : FillCache(f)
    BY <1>2
  <2>2. f \in Goroutines
    BY DEF Goroutines
  <2>3. SetCache(f, Idle) /\ UNCHANGED <<market, lastBet, publishing, updates, missed>>
    BY <2>1 DEF FillCache, db
  <2> QED BY <2>2, <2>3, JobsMade, SetStep
<1> QED BY <1>1, <1>2

(* A goroutine ends, or goes on to publish, without the cache: what it would have
   brought counts as missed. *)
LEMMA EndStep ==
    ASSUME FeedInv,
           \/ \E w \in Workers : CacheFails(w) \/ Push(w)
           \/ \E j \in Goroutines : GiveUp(j)
    PROVE  FeedInv'
<1>0. FeedTypes /\ AllPast /\ OnlyOlderOfferLess
  BY DEF FeedInv
<1>1. UNCHANGED <<market, lastBet, publishing, updates, cache, older>>
  BY DEF CacheFails, Push, GiveUp, db
<1>2. PICK j \in Goroutines, x \in Job :
         /\ job' = [job EXCEPT ![j] = x] /\ x.step \in {"idle", "publish"}
         /\ missed' \in BOOLEAN /\ (missed => missed')
         /\ (j \in Workers /\ job[j].step \in {"start", "set"}) => missed'
  <2>1. CASE \E w \in Workers : CacheFails(w)
    <3>1. PICK w \in Workers : CacheFails(w)
      BY <2>1
    <3>2. w \in Goroutines /\ job[w] \in Job /\ job[w].step = "set"
      BY <1>0, <3>1 DEF Goroutines, FeedTypes, CacheFails
    <3>3. [job[w] EXCEPT !.step = "publish"] \in Job /\ [job[w] EXCEPT !.step = "publish"].step = "publish"
      BY <3>2, JobShapes
    <3>4. job' = [job EXCEPT ![w] = [job[w] EXCEPT !.step = "publish"]] /\ missed' = TRUE
      BY <3>1 DEF CacheFails
    <3> QED BY <3>2, <3>3, <3>4
  <2>2. CASE \E w \in Workers : Push(w)
    <3>1. PICK w \in Workers : Push(w)
      BY <2>2
    <3>2. w \in Goroutines /\ job[w].step = "publish" /\ missed \in BOOLEAN
      BY <1>0, <3>1 DEF Goroutines, FeedTypes, Push
    <3>3. job' = [job EXCEPT ![w] = Idle] /\ missed' = missed
      BY <3>1 DEF Push
    <3> QED BY <3>2, <3>3, JobsMade
  <2>3. CASE \E i \in Goroutines : GiveUp(i)
    <3>1. PICK i \in Goroutines : GiveUp(i)
      BY <2>3
    <3>2. /\ job' = [job EXCEPT ![i] = Idle]
          /\ missed' = (missed \/ (i \in Workers /\ job[i].step # "publish"))
      BY <3>1 DEF GiveUp
    <3>3. /\ missed' \in BOOLEAN /\ (missed => missed')
          /\ (i \in Workers /\ job[i].step \in {"start", "set"}) => missed'
      BY <3>2
    <3> QED BY <3>2, <3>3, JobsMade
  <2> QED BY <2>1, <2>2, <2>3
<1>3. job'[j] = x /\ \A i \in Goroutines \ {j} : job'[i] = job[i]
  BY <1>0, <1>2 DEF FeedTypes
<1>4. FeedTypes'
  BY <1>0, <1>1, <1>2 DEF FeedTypes
<1>5. \A i \in Goroutines : Offers(i)' => Offers(i) /\ job'[i].ms = job[i].ms
  BY <1>2, <1>3 DEF Offers
<1>6. AllPast' /\ OnlyOlderOfferLess'
  BY <1>0, <1>1, <1>5, SameStates
<1>7. ASSUME ~ Awaited'
      PROVE  HasLastBet'
  <2>1. ~ missed' /\ ~ missed
    BY <1>2, <1>7 DEF Awaited
  <2>2. ASSUME NEW w \in Workers, Brings(w)
        PROVE  FALSE
    <3>1. w \in Goroutines /\ job[w].step \in {"start", "set"}
      BY <2>2 DEF Goroutines, Brings, Offers
    <3>2. w # j
      BY <1>2, <2>1, <3>1
    <3>3. job'[w] = job[w]
      BY <1>3, <3>1, <3>2
    <3>4. Brings(w)'
      BY <1>1, <2>2, <3>3 DEF Brings, Offers
    <3> QED BY <1>7, <3>4 DEF Awaited
  <2>3. ~ Awaited
    BY <1>1, <1>7, <2>1, <2>2 DEF Awaited
  <2> QED BY <1>1, <1>5, <2>3 DEF FeedInv, HasLastBet
<1> QED BY <1>4, <1>6, <1>7 DEF FeedInv

(* The cache expires: who is still under way has read the market after it was set. *)
LEMMA ExpireStep ==
    ASSUME FeedInv, Expire
    PROVE  FeedInv'
<1>0. FeedTypes /\ AllPast /\ OnlyOlderOfferLess
  BY DEF FeedInv
<1>1. /\ UNCHANGED <<market, lastBet, publishing, updates, job, missed>>
      /\ cache # None /\ cache' = None /\ \A j \in older : job[j] = Idle
  BY DEF Expire, TTLPassed, db
<1>2. FeedTypes'
  BY <1>0, <1>1 DEF FeedTypes
<1>3. \A ms : Past(ms) => Past(ms)'
  BY <1>1 DEF Past
<1>4. AllPast' /\ OnlyOlderOfferLess'
  BY <1>0, <1>1, <1>3 DEF AllPast, OnlyOlderOfferLess, Offers
<1>5. ASSUME ~ Awaited'
      PROVE  HasLastBet'
  <2>1. ~ Awaited
    BY <1>1, <1>5 DEF Awaited, Brings, Offers
  <2>2. cache.version >= lastBet.version
    BY <1>1, <2>1 DEF FeedInv, HasLastBet
  <2>3. cache.version \in Nat /\ lastBet.version \in Nat
    BY <1>0, <1>1 DEF FeedTypes, AllPast, Past, State
  <2>4. ASSUME NEW j \in Goroutines, Offers(j)
        PROVE  job[j].ms.version >= lastBet.version
    <3>1. j \notin older
      BY <1>1, <2>4, JobsMade DEF Offers
    <3>2. job[j].ms.version >= cache.version
      BY <1>0, <1>1, <2>4, <3>1 DEF OnlyOlderOfferLess
    <3>3. job[j].ms.version \in Nat
      BY <1>0, <2>4 DEF AllPast, Past, State
    <3> QED BY <2>2, <2>3, <3>2, <3>3
  <2> QED BY <1>1, <2>4 DEF HasLastBet, Offers
<1> QED BY <1>2, <1>4, <1>5 DEF FeedInv

-----------------------------------------------------------------------------
(* Nothing was bet and nothing is under way. *)
LEMMA FeedInit == Init => FeedInv
<1> SUFFICES ASSUME Init
             PROVE  FeedInv
  OBVIOUS
<1>1. /\ market = [version |-> 0, rev |-> 0] /\ lastBet = market
      /\ publishing = 0 /\ updates = 0 /\ cache = None /\ missed = FALSE
      /\ job = [j \in Goroutines |-> Idle]
  BY DEF Init
<1>2. FeedTypes
  BY <1>1, JobsMade DEF FeedTypes, State
<1>3. \A j \in Goroutines : ~ Offers(j)
  BY <1>1, JobsMade DEF Offers
<1>4. lastBet.version <= market.version /\ lastBet.rev <= market.rev
  BY <1>1
<1>5. AllPast /\ OnlyOlderOfferLess
  BY <1>1, <1>3, <1>4 DEF AllPast, OnlyOlderOfferLess
<1>6. HasLastBet
  BY <1>1, <1>3 DEF HasLastBet
<1> QED BY <1>2, <1>5, <1>6 DEF FeedInv

(* Every step keeps the invariant. *)
LEMMA FeedStep == FeedInv /\ [Next]_vars => FeedInv'
<1> SUFFICES ASSUME FeedInv, [Next]_vars
             PROVE  FeedInv'
  OBVIOUS
<1>1. CASE UNCHANGED vars
  <2>1. UNCHANGED <<db, feed>>
    BY <1>1 DEF vars
  <2> QED BY <2>1, NoticeStep
<1>2. CASE \E p \in Pages : FetchCached(p) \/ Load(p) \/ Receive(p)
  <2>1. UNCHANGED <<db, feed>>
    BY <1>2 DEF FetchCached, Load, Receive
  <2> QED BY <2>1, NoticeStep
<1> QED
  BY <1>1, <1>2, ChangeStep, NoticeStep, StartStep, RetrieveStep, FetchStep,
     CacheStep, EndStep, ExpireStep DEF Next

(* state.go 85-179: once every notification was handled the cache has the last bet, in
   whatever order any number of goroutines read the database and write the cache, and
   although an entry that expired accepts any version. *)
THEOREM CacheHasLastBet == Spec => []CacheCatchesUp
<1>1. FeedInv => CacheCatchesUp
  <2> SUFFICES ASSUME FeedInv, publishing = 0, updates = 0, ~ missed, cache # None,
                      \A w \in Workers : job[w] = Idle
               PROVE  cache.rev >= lastBet.rev
    BY DEF CacheCatchesUp
  <2>1. \A w \in Workers : ~ Brings(w)
    BY JobsMade DEF Brings, Offers
  <2>2. HasLastBet
    BY <2>1 DEF FeedInv, Awaited
  <2>3. Past(cache)
    BY DEF FeedInv, AllPast
  <2> QED BY <2>2, <2>3 DEF HasLastBet, Past
<1> QED
  BY <1>1, FeedInit, FeedStep, PTL DEF Spec

=============================================================================
