# Seer: specifications, checks and proofs

Seer is a prediction market: users bet on the outcomes of markets whose prices an
automated market maker (LS-LMSR) sets, money moves through a double-entry ledger in
PostgreSQL, and prices, balances, bets and chat are pushed to browsers through a
WebSocket hub and Redis (Valkey). The pages keep what they show in a query cache, change
it ahead of the server's answer and repair it afterwards. This directory models the parts
where order, concurrency and failure decide whether money, prices and what a user sees
are right.

## The system

| Component | State | Operations | Hard behaviour |
|---|---|---|---|
| Ledger (`migrations`, `internal/finance`) | `ledger_accounts`, `ledger_transfers`, `ledger_entries` | `ledger_create_transfer` / `TransferMoney` | row locks taken in the order of the arguments, serialization failures, retries, idempotency keys, lost answers |
| Markets and bets (`internal/market/transactions.go`, `admin.go`, admin handlers) | `markets`, `outcomes`, `bets`, `bet_cashouts`, `market_resolutions`, `market_cancellations`, `users.total_wagered` | `CreateMarket`, pause, resume, close time, `AddBet`, `CashoutBet`, `SettleMarket`, `CancelMarket` | checks made outside the transaction that uses them; bets and cashouts around a settlement; settlement of many accounts in one transaction |
| WebSocket hub (`internal/ws`) | clients, rooms, Redis subscriptions, connection counts | register, unregister, subscribe, unsubscribe, broadcast, close | `select` takes the channels in any order; slow clients; cancelled clients whose pump still writes; shutdown while goroutines wait for the hub |
| Market state (`internal/market/state.go`, market handlers, `WsProvider.tsx`) | cached state in Redis, what pages show | `updateMarketState`, `GetMarketState`, push, load | a goroutine per notification, cache fills that race with them, TTL, lost notifications |
| WebSocket client (`socket/socket.ts`, `WsProvider.tsx`) | socket, reconnection timer, cookie of the handshake | connect, open, close, reconnect, `disonnect` | logins, closes and reloads while a socket opens, closes or waits |
| Live balance, bets, chat (`live_balance.go`, `bets_live.go`, `chat_live.go`, `ws_handlers.go`, stores) | capped Redis lists, rooms, stores and cache of the page | post, publish, list on joining, push, load | reordering, list before room, joins that fail, registration some time after the opening, pushes lost with the connection or for users not in the heartbeat hash, loads that overtake pushes |
| Comments (`CommentThread.tsx`, `repos/comments.go`) | table, cached pages of a thread | load by pages, post, like, delete | optimistic updates undone on an error, likes that overlap after a remount, paging by offset, loads restarted, joined or given up |
| Account (`auth.go`, `sessions.go`, `users.go`, login and settings pages) | sessions, password version, preferences, cookie, cached queries | log in and out, change password, list and revoke sessions, switch preferences | invalidation against fetches under way, each with the cookie it was sent with; prefetch; saves and revocations that overlap; a password change in two statements; two devices |
| Bet slip and lists of bets (`BetModal.tsx`, `BetUser.tsx`, `MarketBetSection.tsx`, `mybets`) | the slip, cards, keys, cached lists | type, place, cash out, move between pages | stale quotes, lost answers and keys, requests given up that are served later, remounted slips and cards, lists on other pages |
| Price input (`PriceInput.tsx`) | the text | sanitize, round, commit | carries, two roundings that must agree |
| Browsing (`home/Header.tsx`, `search/Header.tsx`, `SearchBar.tsx`, `URLHandler.tsx`, `useUpdateSearchParams.ts`) | the URL and its history, a navigation under way, debounced texts, cached lists, the modal of a user | type, choose, go back, load more, show a user | navigations that replace each other, callbacks with the parameters of an older render, effects that clean the URL, lists under shared keys |
| Odds (`AnimatedOdds.tsx`, `ArrowOdds.tsx`, `odds.ts`) | notation, last price, direction of the arrow | render, choose a notation, animate | four roundings of one price; an animation that ends after the next move |
| LS-LMSR (`ls_lsmr.go`, `math_util.go`, `lslmsr.ts`) | none | cost, prices, bisection for a budget | numeric edges, bracketing |
| Moderation, notifications, online counter, statistics, market queries, charts | Redis hash, aggregates | single statements, periodic queries | expiry against heartbeat |

Interaction: handlers call `TransactionManager`, which calls the ledger in its own
transaction and, after the commit, publishes `market:update`, `balance:update` and
`bet:update` from a goroutine. `StateManager`, `BalancePusher` and `BetLiveManager`
take these from Redis and publish to the rooms of the hub, which sends them to pages.
A page calls the REST handlers through `lib/api.ts` and keeps the answers in TanStack
Query; pushes are written into the same cache by the handlers of `WsProvider`.

What makes each correct: money is neither lost nor made and no account is overdrawn;
one key pays once; a settled market has paid everyone and stays settled; a client in a
room gets every message of it in order or is cut off; the hub stops; what is cached and
shown catches up with the database; a user places the bet that was shown, once, and then
finds it in the list; the URL, the lists under it and the odds tell the same as what was chosen and
priced. `PROJECT.json` lists the hazards line by line.

## Modules

| Module | Models | State and actions |
|---|---|---|
| `Ledger` | the ledger as its callers see it | `balance`, `version`, `transfers`; one action per committed `TransferMoney`. `TransferAll` is the loop of payments of one settlement |
| `LedgerTx` | `ledger_create_transfer` statement by statement, in concurrent SERIALIZABLE transactions inside the retry loop | `pc` (next statement or answer), snapshots, row and key locks; `Begin`, `LockFrom`, `LockTo`, `Post`, `InsertTransfer`, `Commit`, `Cancel`, `SerializationFailure`, `DeadlockDetected`. Implements `Ledger` (`LedgerSpec` is a property of its run) |
| `TransactionManager` | markets, bets, cashouts, settlement | the tables, and the requests that have read a bet or a status and not yet written. Extends `Ledger`: every payment is a ledger action in the same step |
| `LedgerTxProofs` | | theorems about `LedgerTx` |
| `TransactionManagerProofs` | | theorems about `TransactionManager`, from sums over finite sets and lemmas about `TransferMoney` and `TransferAll` |
| `Hub` | `Hub`, `Client`, the router | the maps of the hub, the requests on their way in each channel, the broadcast queue with the client that `handleBroadcast` has come to, the send buffers; one action per handler of `Hub.start`. A cancelled client stays in its rooms until it is unregistered, `handleBroadcast` sends to it or leaves it out, and its pump writes until the connection is closed |
| `HubProofs` | | theorems about `Hub` |
| `MarketFeed` | `StateManager`, its Lua script, the pages | the row of a market, notifications, the goroutines with what they have read, the cache, the pages |
| `MarketFeedProofs` | | theorems about `MarketFeed` |
| `Link` | what the websocket client promises to the page | whose cookie the browser holds, whom the link in use speaks for |
| `WsClient` | `WSClient`, its creation, the logins and logouts that use it | socket, timer, cookie of the handshake, cookie of the browser. Implements `Link` (`LinkSpec`) |
| `LiveFeed` | the rooms of a page and its balance | extends `WsClient`: the server's capped lists, messages not yet published, the hub's registration of the connection, the state of each join, the pushes of the balance, the frames on their way, the stores, the cached balance |
| `LiveFeedProofs` | | theorems about `WsClient` and `LiveFeed` |
| `Comments` | a thread of comments on a page, and the server's rows behind it | cached pages, comment objects by the load that made them, the load under way, the likes (also those of a comment that was mounted anew), deletions and the post under way |
| `CommentsProofs` | | theorems about `Comments` |
| `QueryCache` | an entry of the query cache | operators: fetch, answer, failure, cancellation, mount, invalidation |
| `Account` | login, sessions, password, preferences in a tab | rows, the transaction of a password change, cookie, the entries under the key `user` with the cookie each fetch was sent with, page, any number of mutations under way; other devices of the user |
| `AccountProofs` | | theorems about `Account` |
| `PriceInput` | the field of the stake | operators on sequences of characters and digits; a text is an integer part, a separator and decimals |
| `BetSlip` | placing and cashing out in a tab | bets, cashouts, balance, price level and status of the market, the mounted slip, cards, requests (also those given up that still reach the server), the entries under `userBets` |
| `BetSlipProofs` | | theorems about `BetSlip` and `PriceInput` |
| `Browse` | the home and search pages, the search bar, the URL | the URL, its history, the navigation under way, texts waiting for their timer, cached lists, the modal; one action per handler, timer and commit of the router |
| `Odds` | notations of a price, the arrow beside it | operators for the roundings; the renders, effects and animations of `ArrowOdds` |
| `MC*` | | values of the constants |

`QueryCache` serves `Account` and `BetSlip`; `PriceInput` is the input field of `BetSlip`;
`WsClient` is the connection of `LiveFeed`.

Conventions: an action is one committed transaction, one handler (of the hub's loop or of
the page), or one step between two points where others can run. A request of a page is
sent, served, and its answer handled or lost, each a step. In `TransactionManager` a request
that fails and rolls back is no step; in the page modules a refusal is, since the page
reacts to it. Each mutant is an operator written just before the definition it would
replace (`KeyNeverUsed` before `KeyUsed`).

Abstractions:
* PostgreSQL is modelled from what the code relies on; `LedgerTx` has the list. That the
  bigger transactions of `TransactionManager` are atomic is what SERIALIZABLE promises;
  `LedgerTx` checks the part the code itself contributes to (locks, keys, retries,
  answers) for the transfer that each of them contains.
* Prices: in `TransactionManager` a bet buys some number of shares larger than its stake
  (`BuyQuotes`) and a cashout pays something positive and less than the shares
  (`SellQuotes`); in `BetSlip` the market is a price level that a bet raises and a cashout
  lowers, and the page and the server quote by the same rule from what each knows.
* `CancelMarket` refunds inside an open result set; the driver refuses a second query on
  the connection, so the action is possible only when there is nothing to refund.
* `ChangePassword` is a READ COMMITTED transaction of two statements: it updates the user where
  the version is the one read, revokes the sessions it sees, and commits; each is a step of
  `Account`, and the rows it has written are locked in between.
* The hub: requests that sit in a channel or in a goroutine that is about to send are one
  set per channel, since `select` and the goroutines order them arbitrarily.
* A market state is a version and a revision: the number of changes of its quantities.
* TanStack Query is a library and is modelled from its documented behaviour: a fetch under
  way is shared by whoever asks; an invalidation restarts it when the entry has data and is
  observed, joins it when there is no data yet, and otherwise marks the entry; there is no
  retry (`retry: false`). Entries are not garbage-collected.
* `Comments` names a comment object by its comment and by the load that made it, since likes
  change cached objects in place and deletions keep old pages to put back.
* A list of bets is its first page (`PageSize`, five in the code), in the order of `SearchBets`.
* A user is in the heartbeat hash of a settlement or not, as the model chooses.
* A price of `Odds` is a number of millionths; the code has 12 digits, and shows hundredths.
* A session is "none", "active", "ending" (revoked, but not yet committed) or "revoked" (an expiry is a revocation by `OtherRevokes`);
  a password is the number of changes; a stake is a number of cents; a `Math.random()` key is
  a fresh number.
* A variable in the page modules records what the page cannot know: `missed` (`Account`,
  `BetSlip`, `Comments`), `calm`, `cut` (`Comments`), `sure`, `late` (`LiveFeed`), `lost` (`Browse`).
  No guard reads them; they appear in properties only, to say exactly
  in which cases the code does not promise agreement.

## Runs

| Run | Bounds | Question |
|---|---|---|
| `settlement` | 2 users, 1 market with 2 outcomes, 3 client keys, 2 deposits | Does any order of bets, cashout requests, pauses, settlement and cancellation lose or make money, pay twice, or change a final market? Three keys are the least with which one bet is cashed out by two racing requests, or two users bet and one cashes out; two deposits fund a user and the house |
| `ledger_tx` | 4 requests, 4 accounts, 2 attempts | Do concurrent transfers implement `Ledger`, is no request stuck, do the answers say what happened? The bet and the cashout lock the same accounts in opposite order; `reuse` shares the key of the bet but no account |
| `hub` | 1 client, 1 topic, 3 messages, buffers of 1 | Do the maps agree, is a user shown online only while connected, is a message ever skipped, does `Close` end the hub? Three messages are the least that can leave a gap; buffers of 1 make every queue full. One client is in two rooms (its user's and the topic), and its registration, joins and unregistration are reordered; liveness with two clients is beyond five minutes, and the theorems are about any number |
| `market_feed` | 2 workers, 1 filler, 1 page, 2 changes, 1 failure | Does the cache catch up in whatever order reads and writes happen? |
| `live_feed` | 1 user, 2 losses, logins or reloads, the chat with lists of 2, 3 messages, 2 balance changes | Is there one connection, of the right user, that comes back? Are the last messages and the current balance shown? The lists start full with two messages and a third pushes one out; two changes are the least whose pushes can be reordered; two events let a connection be lost while a login is handled |
| `comments` | 2 comments, pages of 1, 2 clicks, 2 overlapping requests of a kind | Do the page and the server agree after overlapping likes, deletions, posts and loads? Two pages of one comment are the least with a next page; two clicks let two mutations overlap |
| `account` | 2 sessions, 1 preference, 2 overlapping requests of a kind, 2 events, 1 move | Does the tab show what the server holds, and do sessions end with the password? Two events let a login, a revocation, a save or a change of the password overlap with another, or with what a second device does; a move lets a page be left and visited again |
| `bet_slip` | 3 events, 3 moves, 3 price levels, 2 lists with pages of 1 | Is a bet placed once, as shown, and do the lists follow? Three events are a bet, a cashout and a second click, a lost answer or a trade of others; pages of one bet are full with the first; the texts typed make both roundings, a carry through nines and an empty field happen |
| `browse` | 3 acts, 2 texts, 2 categories, 2 statuses, 1 user, lists of 2 pages | Is a list of the search it stands under, does the URL come to rest? Three acts are a text, a choice that overtakes it and a step back |
| `odds` | 9 prices at the edges of the roundings, 5 stakes, 399 payouts, 3 renders | Do the notations agree, do the odds beside a payout keep their promise, does the arrow tell the last move and go out? Three renders let a move fall into the animation of another |

`RoundsHalfDown` in `bet_slip` quantifies over the constant `Texts`, typed or not: in the run every
text of a bounded length, in the proof any set of texts.
`TypeOK` is a property of `settlement`, where it says that rows refer to rows and that quantities stay
natural numbers; in the other modules it states the types and capacities for the reader, and in
`Hub` and `LiveFeed` it is a theorem. `PolicyHolds` and `OneTransferPerKey` follow for `LedgerTx`
from `LedgerSpec`.

Runs that end in a violation show where the code disagrees with its own comments:

| Run | What happens |
|---|---|
| `cross_market` | a bet against an outcome adds shares to every other outcome of the table, of all markets (`transactions.go:242`) |
| `sold_shares` | a bet that was cashed out is paid again at the settlement (`transactions.go:525`) |

More disagreements were met while modelling. They are read off
the code, without a run; the first of them are hazards in `PROJECT.json`:
* a bet against an outcome is paid only if that outcome wins (`transactions.go:529`), while
  `types.go:94` says that it holds shares of all others; and `cashoutBetOnce` hedges the
  other outcomes for a bet of either side while `PossibleGainForSell` priced the opposite
  ones (`transactions.go:448`, `ls_lsmr.go:653`);
* a join handled after the unregistration brings a dead client back for good
  (`hub.go:222`), and one handled before the registration makes the registration a no-op:
  no user room, no count (`hub.go:152`);
* a page load that fills the cache first suppresses the push to all other pages
  (`state.go:143`), and a page starts from version 0 whatever it loaded, so that the first
  push is always applied (`definitions.ts:238`);
* `bets.ts:19` says "Keep only the latest 10 bets": the list is sent newest first and each bet is
  put in front, so that after a join they are shown oldest first, and the next bet pushes out
  the newest of the list;
* `ChangePasswordModal.tsx:61` says "Setting your password will log you out from all your
  sessions": a login that compared the old password and inserts its session after the sessions
  were revoked and before the transaction commits keeps it (`users.go:346`).
  `NextChangeEndsIt` states what is left: the next change ends it;
* `useUpdateSearchParams.ts:14` says "merge updates into current params": the debounced search
  of `home/Header.tsx:34` calls the `setParams` of the render in which the text was typed, and
  a status or sort chosen in the 300 ms since is undone;
* the key "per bet attempt" of `BetModal.tsx:27` is made per mount of the slip: a slip that is
  closed and opened again after a lost answer, or mounted anew because the window crossed
  768 px (`Modal.tsx:29`), may place the bet twice;
* the X of the search bar empties the text and the search but not the text still waiting for its
  300 ms, which is searched afterwards (`SearchBar.tsx:97`);
* a price that moves while the arrow of the last move is animated may be shown without an arrow
  (`ArrowOdds.tsx:65`);
* the percentage of a price is cut in `AnimatedOdds.tsx:19` and rounded up in `odds.ts`, so that a
  card and the table of live bets may differ by one; cut percentages and American odds of a
  favourite promise slightly more than the payout;
* a login during the first load of the user does not restart it, and it carries the cookie of
  before: the page may take its user for a visitor for an hour (`Login.tsx:43`);
* a chat message that is sent while the socket is not open is dropped and the input cleared
  (`ChatDrawer.tsx:25`, `socket.ts:216`), and a restart fills the chat with the oldest messages of
  the room (`chat_live.go:150`);
* `CashoutBet` publishes the id of the cashout where subscribers expect that of a bet
  (`transactions.go:322`);
* the page allows a price equal to the cap, which the server refuses (`lslmsr.ts:154`), and the
  status 'unknown' of the bets of a cancelled market fails the parse of the whole list
  (`bets_repo.go:43`);
* the "1 minute" of `useBalanceQuery.ts:13` is 60 milliseconds.

What the page modules' properties leave out is as informative as what they say, and the
comment of each property lists it:
* `Mirror`: a failed deletion that overlaps with another change brings a deleted comment back;
  two opposite likes of a comment that was mounted anew are served in either order; a load
  across a change; what others post or delete; a lost answer;
* `NoneSkipped`: the next page after an own deletion skips a comment;
* `PostShown`: a post during the first load is not shown;
* `ShownIsStored`: a fetch answered for another cookie, or that an invalidation did not
  restart; a lost answer; what other devices did;
* `ChatUpToDate`: a list that is not full; a message of the list that was published after the
  join, which comes twice; one published between the list and the join, which is missing; a
  publication that failed; two in the other order;
* `BalanceCurrent`: a push lost with the connection, before its registration or for a user not in
  the hash; a push that failed; a load with an older balance that arrives last;
* `StaysConnected`: a join that the server answered with an error;
* `ListTruthful`: an answer that was lost or is on its way, a request served after it was given up,
  a settlement, a fetch that failed;
* `UrlSettles`: a clean-up replaced by a navigation to the URL already shown;
* `NoGap`: a cancelled client, which may miss a message and be sent the next.

Symmetry: keys, users and outcomes are interchangeable in `settlement`, the requests under way in
`account`; these runs check no liveness. Deadlock checking is off where the system may stop:
all requests answered, all connections closed, the bound on messages, clicks or changes
reached.

Fairness:
* `LedgerTx`: a statement that is not blocked ends, a backoff ends (`time.After`), and
  PostgreSQL detects deadlocks. Clients need not send anything, and errors need not happen.
* `Hub`: Go's `select` chooses at random among the ready channels, so every waiting
  request is handled in the end; a runnable goroutine runs.
* `MarketFeed`: goroutines go on, messages that are not lost arrive, a TTL passes. Bets,
  page loads and failures need not happen.
* `LiveFeed`: a socket that is opening opens or is closed, a closing one closes, timers fire
  (`setTimeout`), the handlers of the server run, frames arrive. That a connection is lost
  only finitely often is the bound on events.
* `Comments`, `BetSlip`: a request is answered or fails, and the answer is handled. Nothing is
  assumed of users, of other devices, or of what gets lost.
* `Browse`: the router commits the latest navigation and the two debounce timers fire.
* `Odds`: React renders a changed state and runs effects, and an animation ends.
* `Account` and `TransactionManager` need none: all their properties are safety properties.

## Proofs

The theorems hold for every value of the constants that satisfies the module's assumption:
any users, accounts, keys, clients, goroutines, lists, capacities and bounds, finite or not
unless the assumption says so. Each proof has the same shape: an inductive invariant, that
`Init` implies it, one lemma per group of actions that keeps it, and the property as a
consequence. All inductive invariants were also checked by TLC on the runs' instances.

**Sums** (in `TransactionManagerProofs`). Balances, volumes and settlements are sums over sets. The
library's induction theorems take an operator and cannot be instantiated here, so the facts about `SumFunctionOnSet` (one
member more, equal functions, disjoint unions, another index set: `SumAdd`, `SumSame`,
`SumUnion`, `SumReindex`) are proved by a minimal counterexample: strict inclusion is
well-founded on the subsets of a finite set, so a nonempty set of subsets where a claim fails
has a minimal member. From them follow lemmas on what one `TransferMoney` and one `TransferAll`
do to types, policies, transfers and the double entry.

**`TransactionManagerProofs`**
* `TypeCorrect` (`TypeOK`), with `TypeInv == TypeOK /\ IsFiniteSet(bets)`: a settlement
  sums over the bets of an account, and only sums over finite sets are known to be numbers.
* `AccountsWithinPolicy` (`PolicyHolds`), from `TransferMoneySafe` and `TransferAllSafe`.
* `StatusAgrees` (`StatusMatchesRows`) rests on the trigger: a pause or a resume that was
  checked before the settlement may still be under way.
* `CashedOutOnce` (`OneCashoutPerBet`) rests on the unique key of `bet_cashouts` and not on the
  check that `CashoutBet` makes first.
* `BooksAlwaysBalance` (`BooksBalance`): what `TransferMoney` and `TransferAll` add to the
  transfers is what they add to the balances.
* `MoneyAccountedFor` (`MoneyTrail`): a request under way has read a bet of the table, keys
  of settlements are none of clients, and each step that moves money inserts its row in the
  same step.
* `StakesAlwaysCounted` (`StakesCounted`) and `SettlementsComplete` (`SettledInFull`): after a
  resolution nothing adds a bet on the winning outcome or a transfer with a settlement key.
* `FinalStaysFinal` (`FinalIsFinal`), an action property, from the same invariants.

**`LedgerTxProofs`**
* `ImplementsLedger` (`LedgerSpec`): only `Commit` changes the ledger, and under the invariant
  `TxInv` it is a `TransferMoney` of `Ledger`: what the transaction read is still so, because
  it holds the row locks since, and no other committed its key.
* `AnswersAreTruthful` (`AnswersTruthful`), from the same invariant.
* `EntriesFormChain` (`EntriesChain`), with `ChainsInv`: the versions of an account's entries
  are exactly 1 to its version, one each.

**`LiveFeedProofs`**
* `SingleConnection` (`OneConnection`) and `SocketOfUser` (`SpeaksForUser`). Neither is
  inductive alone: that `connectOnce` replaces no live socket rests on the timer being set only
  while there is none, and that the socket is of the right user rests on `disonnect` leaving no
  socket in use when the login is handled. `WsInv` joins them.
* `ImplementsLink` (`LinkSpec`): every step is a step of `Link` or leaves its variables alone.
* `FeedsKeepClient`: the three above are about the client alone (`WsSpec`), and every behaviour of
  `LiveFeed` is one of the client, so they hold of the page as well.
* `FeedsTypeCorrect` (`TypeOK`), with `TypeInv`: every frame on its way carries only what the
  server has had, and the server takes nothing back.
* `BalanceEndsCurrent` (`BalanceCurrent`), with `PushComing`: unless `late`, a cached balance that is
  not the current one is still to be pushed, also while a load is under way, which
  `BalanceCurrent` alone does not say. The push may be a notification, a read that was not yet
  published or a frame on its way to a registered connection; whatever breaks this chain sets
  `late`.
* `ChatRepaired` (`ChatUpToDate`), with `ChatInv`: while the page is `sure`, the messages shown, the
  frames on their way and the messages after the list that are not yet published form one run
  of numbers; messages of the list that are still to be published would end `sure` when
  they reach a page that has joined. `Way` says so by naming, for each frame, the message up
  to which the store is full once it is handled; the list sent on joining has as many messages
  as the store has places, so what was shown before does not matter. The list starts with two
  messages, hence the assumption that `Cap` and `MaxMsgs` are at least two (the code keeps 10 bets
  and 20 messages).

**`HubProofs`**
* `HubTypeCorrect` (`TypeOK`), `MapsAgree` (`MembersMatch`), `OnlineNeverTooMany` (`OnlineSound`),
  with `MapsInv`: one induction for all three, since the counters are sound only because
  every client that is counted is in the map of clients.
* `NeverAGap` (`NoGap`), an action property, with `FeedInv`: until the hub is cancelled, what is
  on its way of a subscription (the Redis channel, the forwarding goroutine, the hub's
  queue) is an unbroken run of numbers. The next one a client gets is therefore the next one,
  as long as it is not cancelled; a cancelled one may be left out of a broadcast and sent the
  next, and the run still ascends.

**`MarketFeedProofs`**
* `CacheHasLastBet` (`CacheCatchesUp`), with `FeedInv`: after a bet something is awaited (a
  notification, or a goroutine that will read or has read the market since) or counted
  as missed; when nothing is, the cache has the bet, and an offer of an older state is
  refused. When the entry expires any offer would be taken: then those that were under way
  when it was set have ended (a goroutine has 5 s, the entry 30 s), and later ones have read
  the bet. Without `older` in the invariant the step of `Expire` fails.

**`AccountProofs`**
* `NoOldSession` (`NextChangeEndsIt`), with `SessionsInv`: no active session is more than one change of the
  password behind; while a change has revoked the sessions and not yet committed, those that
  are active are of the password it is about to replace. A login may insert one then, which is why
  the session of one change before cannot be excluded.
* `MarkedIsFetched` (`InvalidatedIsFetched`): each operator of `QueryCache` leaves an entry that is shown
  either unmarked, failed or with a fetch under way, and a page that is mounted fetches what
  it finds marked.
* `ShownIsTrue` (`ShownIsStored`), with `CacheInv`: an answer on its way, and an unmarked entry at
  rest, are what the server has, unless a mutation that the tab has not been told of is
  about to invalidate them, or the query is in `missed`. A fetch carries the cookie it was sent
  with, and an answer for another cookie than the present one puts it there.

**`BetSlipProofs`**
* `BetPlacedOnce` (`OneBetPerMount`), with `SlipInv`: all that a slip sends between its mounting and its
  unmounting carries one key, requests that were given up and served later included, and the
  server takes a key once.
* `ListsTellTheTruth` (`ListTruthful`), with `ListsInv`: as in `AccountProofs`, where the requests
  on the wire take the place of the mutations, and a request that is served after it was given up
  puts every list in `missed`.
* `RoundingIsRight`, and `AmountsAreRounded` (`RoundsHalfDown`) from it: for every set of texts, the
  amount of a text is the number typed, rounded to two decimals with halves down; the text put
  back on blur stands for that amount, and putting it back twice changes nothing. Induction over the digits
  (`SeqInduction`, below) gives what a sequence of digits stands for (`NumberConcat`), that the loop
  of carries adds one whatever the run of nines at the end (`BumpedAddsOne`), and that
  looking at the digits after the second decimal is comparing with one half (`RestRounds`).
* `StakeStaysShown` (`StakeIsShown`), with `StakeInv`: the slip holds the amount of the text it shows,
  in whatever state it is, and committing the field keeps that (`CommitRoundKeeps`).

**`CommentsProofs`**
* `PageMirrorsServer` (`Mirror`) and `PagingLeavesNoGap` (`NoneSkipped`). First the operators: what
  `Filter` and `FlattenSeq` compute, and which comments are on page p of a descending listing.
  Then, on top of the types:
  * `CleanInv`: while a load runs that nothing disturbed, no mutation is under way and what it has
    read is what the server would answer now;
  * `CalmInv`: the pages shown, and each copy that a deletion keeps to put back, descend; a
    comment has one object in all of them; its heart is the server's, or the one that the like
    under way is about to make it; and what the next page would bring is below everything
    shown (`NextBelow`). The copies must be in it since a failed deletion shows one again. The
    last part is what survives a deletion on the server: it moves the remaining comments towards
    the front, so that the next page may skip a comment but never repeats one;
  * `OlderInv`: while the page is calm, no like of a comment mounted before is under way;
  * `FullInv`: while this user has deleted nothing, page i is page i of the listing but for
    the comments being deleted, and each copy has its comment where the listing has it.
* The page that `PageParam` asks for was first written as a CASE whose arms overlapped (a load of
  the next page that has read nothing yet). TLC took the first arm; the proof could not, and the
  definition is now the IF of the code.

**Induction over data.** The library states induction for an operator, which the provers cannot
instantiate. Here a property is the set of the values that have it: `LeastNat` (a nonempty set
of numbers has a least member) gives `SeqInduction`, that a set of sequences which has the empty
one, and with each sequence all that are one longer, has them all.

Only model-checked: liveness under fairness (`EventuallyAnswered`, `ShutsDown`, `CacheSettles`,
`StaysConnected`, `PostShown`, `ToldIsListed`, `UrlSettles`, `ArrowGoesOut`), which is
out of the prover's reach; and `Browse` and `Odds`, whose other
properties are about strings of the URL and about quotients of given numbers. Every other
property of a passing run, invariant, action property or refinement, is stated by a theorem. Four
theorems are about definitions that no run needs: `StakesAlwaysCounted`, `HubTypeCorrect`,
`FeedsTypeCorrect` and `MarkedIsFetched`.

## Plan

1. Done: `Ledger`, `TransactionManager`, `LedgerTx`, `Hub`, `MarketFeed`, first theorems.
2. Done: `Link`, `WsClient` and its theorems, `LiveFeed`, `Comments`, `QueryCache`, `Account`,
   `PriceInput`, `BetSlip`.
3. Done: proofs of the sums, of the refinement of `Ledger` by `LedgerTx`, of the safety
   properties of `TransactionManager`, `Hub`, `MarketFeed`, `LiveFeed`, `Comments`, `Account`,
   `PriceInput` and `BetSlip`.
4. Done: cancelled clients, late registrations, failed joins and pushes, requests that overlap
   or are served after they were given up, the two statements of a password change; `Browse`
   and `Odds`.
5. Theorems about `Browse`; the token bucket of the chat and the high bets of a time window, with a clock; the
   verification and reset tokens of the authentication.

## Not modelled

* The arithmetic of LS-LMSR (real logarithms and exponentials at 30 digits), on either side;
  that the bisections of page and server agree is not shown.
* Statistics, volumes, search and history (read-only or single-statement SQL), moderation,
  bonus, rate limits, notifications, the online counter.
* Rendering, rolling digits, charts, request parsing and wiring.
* Of the modelled parts: reports and the depth of replies (`Comments`); OAuth, e-mail
  verification and password reset (`Account`); the login that a visitor gets instead of the
  slip, further pages of a list and a reload (`BetSlip`); token bucket and mutes of the chat,
  and the high bets; the run has the chat only, not the room of the bets (`LiveFeed`); what a list
  of markets holds, its ageing in the cache and the Forward button (`Browse`).
