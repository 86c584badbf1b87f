------------------------------- MODULE Browse -------------------------------
(***************************************************************************)
(* The pages that list markets ("/" and "/search"), whose state is the URL:*)
(* useUpdateSearchParams navigates to a query string made from the one of  *)
(* the render it belongs to, URLHandler consumes "error" and "show" after  *)
(* every commit, and TanStack Query keeps one list of markets per          *)
(* marketSearchKey.  A navigation is a transition: router.push returns at  *)
(* once, the server renders the page, and only the latest navigation is    *)
(* committed.  The user keeps typing and clicking meanwhile, and the texts *)
(* typed wait 300 ms for their debounced callbacks.                        *)
(*                                                                         *)
(* Left out: what a list holds (an answer is the search and the page it    *)
(* was asked for), staleness and collection of cached lists, Forward.      *)
(***************************************************************************)
EXTENDS Naturals, SequencesExt

CONSTANTS
    None,         \* an absent parameter
    Words,        \* texts of three letters or more
    Shorts,       \* texts of one or two letters
    Categories,   \* the slugs of getFeaturedCategories
    First,        \* categories[0].slug
    Statuses,     \* statusOptions
    Sorts,        \* sortOptions
    Users,        \* names shown in the chat and in the live bets
    MaxPages,     \* pages of a list the server has
    MaxActs       \* bound: what the user does in a behaviour

ASSUME BrowseAssumption ==
    /\ First \in Categories /\ "active" \in Statuses
    /\ "trending" \in Sorts /\ MaxPages \in Nat \ {0} /\ MaxActs \in Nat
    /\ None \notin Words \cup Shorts \cup Categories \cup Statuses \cup Sorts \cup Users

VARIABLES
    url,        \* the committed URL, which every component has rendered
    hist,       \* the URLs before it in the tab's history
    nav,        \* the navigation under way, or None
    input,      \* inputValue of the home Header
    timers,     \* debounced calls of the home Header, oldest first
    bar,        \* inputValue, query and waiting call of the SearchBar
    modal,      \* currentModal of useModalStore
    profiles,   \* the query ['userProfile', username] of every user
    cache,      \* the lists in the query cache, by key
    fetching,   \* the list queries in flight
    lost,       \* a navigation to the URL shown has replaced a clean-up of it
    acts        \* how much the user has done

vars == <<url, hist, nav, input, timers, bar, modal, profiles, cache, fetching, lost, acts>>
site == <<bar, modal, profiles, cache, fetching, lost>>
-----------------------------------------------------------------------------
Keys == {"q", "category", "status", "sort", "error", "show", "username"}

NoParams == [k \in Keys |-> None]

Home == [path |-> "/", params |-> NoParams]

\* Where setParams(updates, opts) of the render of URL u navigates to.  An
\* empty query string goes to the render's own pathname, whatever newPathname.
SetParams(u, updates, opts) ==
    LET params == [k \in Keys |->
                     IF k \in DOMAIN updates
                     THEN IF updates[k] = "" THEN None ELSE updates[k]
                     ELSE IF opts.overwriteCurrent THEN None ELSE u.params[k]]
    IN  [path |-> IF params = NoParams THEN u.path ELSE opts.newPathname,
         params |-> params, kind |-> opts.kind]

Push(u, updates) ==
    SetParams(u, updates, [overwriteCurrent |-> FALSE, newPathname |-> u.path, kind |-> "push"])

\* handleSearch of both search inputs: /search for the text, nothing else kept.
HandleSearch(text) ==
    SetParams(url, [q |-> text],
              [overwriteCurrent |-> TRUE, newPathname |-> "/search", kind |-> "replace"])

\* The category is one that getFeaturedCategories answers, or none.
Featured(category) == category \in Categories \cup {None}

\* HomePage and SearchPage redirect to "/" what names no category, sort or status.
Redirects(u) ==
    \/ ~Featured(u.params.category)
    \/ u.params.sort \notin Sorts \cup {None}
    \/ u.params.status \notin Statuses \cup {None}

\* MarketSearchSchema refuses a query of fewer than three letters: no page.
Blank(u) == u.params.q \in Shorts

Or(value, default) == IF value = None THEN default ELSE value

\* The search of the page: HomePage falls back on the first category.
PageSearch(u) ==
    [query |-> u.params.q, status |-> u.params.status,
     sort |-> Or(u.params.sort, "trending"),
     categorySlug |-> IF u.path = "/" THEN Or(u.params.category, First) ELSE u.params.category,
     pageSize |-> IF u.path = "/" THEN 8 ELSE 6]

BarSearch(text) ==
    [query |-> text, status |-> None, sort |-> "trending", categorySlug |-> None, pageSize |-> 5]

\* What CategoriesMenu prefetches for a category.
MenuSearch(c) ==
    [query |-> None, status |-> "active", sort |-> "trending", categorySlug |-> c, pageSize |-> 6]

\* A plausible slip: the number of markets a page has left out of the key.
KeyOfAnySize(s) == <<s.query, s.categorySlug, s.sort, s.status>>

MarketSearchKey(s) == <<s.query, s.categorySlug, s.sort, s.status, s.pageSize>>

\* The mounted queries: the page's is an infinite query, a list of pages; the
\* SearchBar's, enabled from three letters on, a plain one.
PageQuery(u) == [search |-> PageSearch(u), shape |-> "pages"]

BarQuery(text) == [search |-> BarSearch(text), shape |-> "page"]

Observers(u, text) ==
    (IF Blank(u) THEN {} ELSE {PageQuery(u)}) \cup (IF text \in Words THEN {BarQuery(text)} ELSE {})

Request(o, n) ==
    [key |-> MarketSearchKey(o.search), search |-> o.search, shape |-> o.shape, page |-> n]

\* TanStack Query fetches what a query mounted with a new key lacks, and joins
\* a fetch of that key in flight.
Mounted(new) ==
    fetching \cup {r \in {Request(o, 1) : o \in new} :
                     r.key \notin DOMAIN cache \cup {f.key : f \in fetching}}
-----------------------------------------------------------------------------
\* UserInfoModal reads the user from the URL, not from the modal's data.
Watched(m, u) == IF m = "user" THEN {u.params.username} \ {None} ELSE {}

Opened(m, u) ==
    [n \in Users |->
        IF n \in Watched(m, u) \ Watched(modal, url) /\ profiles[n] \in {"none", "error"}
        THEN "fetching" ELSE profiles[n]]

\* A plausible slip: the modal is opened and its parameter left in the URL.
OpensWithoutCleaning(u, m) ==
    [nav   |-> IF u.params.error # None THEN Push(u, [error |-> None]) ELSE None,
     modal |-> IF u.params.show = "profile_completion" THEN "profileCompletion"
               ELSE IF u.params.show = "user" /\ u.params.username # None THEN "user"
               ELSE m]

\* The effect of URLHandler after a commit of URL u with modal m: both clean-ups
\* start from the same params, so the second one replaces the first.
UrlHandler(u, m) ==
    [nav   |-> IF u.params.show = "profile_completion" THEN Push(u, [show |-> None])
               ELSE IF u.params.error # None THEN Push(u, [error |-> None])
               ELSE None,
     modal |-> IF u.params.show = "profile_completion" THEN "profileCompletion"
               ELSE IF u.params.show = "user" /\ u.params.username # None THEN "user"
               ELSE m]

Rendered(u) == IF Redirects(u) THEN Home ELSE [path |-> u.path, params |-> u.params]

\* URLs a visit begins with: a plain one, the two redirects of the backend's
\* login by a provider, and one with a status that does not exist.
Landings ==
    {Home, [Home EXCEPT !.params.error = "authentication_failed"],
     [Home EXCEPT !.params.show = "profile_completion"],
     [Home EXCEPT !.params.status = "none of them"]}

Init ==
    /\ url \in {Rendered(l) : l \in Landings}
    /\ nav = UrlHandler(url, None).nav
    /\ modal = UrlHandler(url, None).modal
    /\ hist = <<>> /\ input = "" /\ timers = <<>> /\ acts = 0
    /\ bar = [input |-> "", query |-> "", waiting |-> None]
    /\ profiles = [n \in Users |-> "none"]
    /\ cache = <<>> /\ lost = FALSE
    /\ fetching = {Request(PageQuery(url), 1)}

HeaderShown(u) == u.path = "/" /\ ~Blank(u)

\* The page of the latest navigation is rendered and committed: the list's key
\* follows, the home Header takes its text from the URL when it is mounted
\* anew, and the effect of URLHandler runs if the URL has changed.
Commit ==
    /\ nav # None
    /\ LET to   == Rendered(nav)
           done == IF to = url THEN [nav |-> None, modal |-> modal] ELSE UrlHandler(to, modal)
       IN  /\ url' = to
           /\ hist' = CASE nav.kind = "push" -> Append(hist, url)
                        [] nav.kind = "replace" -> hist
                        [] nav.kind = "back" -> Front(hist)
           /\ nav' = done.nav
           /\ lost' = (lost \/ (to = url /\ UrlHandler(to, modal).nav # None))
           /\ modal' = done.modal
           /\ profiles' = Opened(done.modal, to)
           /\ input' = IF HeaderShown(to) /\ ~HeaderShown(url) THEN Or(to.params.q, "") ELSE input
           /\ fetching' = Mounted(Observers(to, bar.query) \ Observers(url, bar.query))
    /\ UNCHANGED <<timers, bar, cache, acts>>
-----------------------------------------------------------------------------
(* What the user does. *)

Acts == acts < MaxActs /\ acts' = acts + 1

\* router.push and router.replace: the navigation replaces one under way.
Navigates(n) == nav' = n /\ UNCHANGED <<url, hist>>

\* The overlay of a modal takes the clicks, not the keys.
CanClick == modal = None

\* handleChangeInput of the home Header: a short text navigates at once; a
\* longer one waits in a debounced callback of its own, for useDebounceCallback
\* is given a new function at every render.
Type(text) ==
    /\ Acts /\ HeaderShown(url)
    /\ input' = text
    /\ \/ /\ text \notin Words
          /\ Navigates(Push(url, [q |-> ""]))
          /\ UNCHANGED timers
       \/ /\ text \in Words
          /\ timers' = Append(timers, [at |-> url, text |-> text])
          /\ UNCHANGED <<url, hist, nav>>
    /\ UNCHANGED site

\* The callback waited for: setParams of the render in which the text was typed.
\* Unmounting the Header cancels another instance, never this one.
Fire ==
    /\ timers # <<>>
    /\ Navigates(Push(Head(timers).at, [q |-> Head(timers).text]))
    /\ timers' = Tail(timers)
    /\ UNCHANGED <<input, acts, site>>

ClickClear ==
    /\ Acts /\ CanClick /\ HeaderShown(url) /\ input # ""
    /\ input' = ""
    /\ Navigates(Push(url, [q |-> ""]))
    /\ UNCHANGED <<timers, site>>

ClickSearch ==
    /\ Acts /\ CanClick /\ HeaderShown(url)
    /\ Navigates(HandleSearch(input))
    /\ UNCHANGED <<input, timers, site>>

\* The status and sort menus of the home Header and of the one of /search.
ChooseAtHome(k, v) ==
    /\ Acts /\ HeaderShown(url)
    /\ Navigates(Push(url, k :> v))
    /\ UNCHANGED <<input, timers, site>>

ChooseInSearch(k, v) ==
    /\ Acts /\ url.path = "/search" /\ ~Blank(url)
    /\ Navigates(Push(url, k :> v))
    /\ UNCHANGED <<input, timers, site>>

\* A category's link, and what its PrefetchLink fetches at the first intent.
ClickCategory(c) ==
    /\ Acts /\ CanClick /\ url.path = "/"
    /\ Navigates([path |-> "/", params |-> [NoParams EXCEPT !.category = c], kind |-> "push"])
    /\ fetching' = Mounted({[search |-> MenuSearch(c), shape |-> "pages"]})
    /\ UNCHANGED <<input, timers, bar, modal, profiles, cache, lost>>

\* fetchNextPage: the button is there while the last page has a next one, and
\* clicking it again restarts the fetch.
LoadMore ==
    LET key == MarketSearchKey(PageSearch(url))
    IN  /\ Acts /\ CanClick /\ ~Blank(url) /\ key \in DOMAIN cache
        /\ Len(cache[key].pages) < MaxPages
        /\ fetching' = {f \in fetching : f.key # key}
                         \cup {Request(PageQuery(url), Len(cache[key].pages) + 1)}
        /\ UNCHANGED <<url, hist, nav, input, timers, bar, modal, profiles, cache, lost>>

Back ==
    /\ Acts /\ hist # <<>>
    /\ Navigates([path |-> Last(hist).path, params |-> Last(hist).params, kind |-> "back"])
    /\ UNCHANGED <<input, timers, site>>

\* handleChangeInput of the SearchBar, whose debounced setQuery is one instance:
\* a new text takes the place of the one waiting.
HandleChangeInput(text) == [bar EXCEPT !.input = text, !.waiting = text]

TypeInBar(text) ==
    /\ Acts
    /\ bar' = HandleChangeInput(text)
    /\ UNCHANGED <<url, hist, nav, input, timers, modal, profiles, cache, fetching, lost>>

FireBar ==
    /\ bar.waiting # None
    /\ bar' = [bar EXCEPT !.query = bar.waiting, !.waiting = None]
    /\ fetching' = Mounted(Observers(url, bar.waiting) \ Observers(url, bar.query))
    /\ UNCHANGED <<url, hist, nav, input, timers, modal, profiles, cache, acts, lost>>

\* X clears the text and the query; a text still waiting is searched later.
ClickClearBar ==
    /\ Acts /\ CanClick /\ bar.input # ""
    /\ bar' = [bar EXCEPT !.input = "", !.query = ""]
    /\ UNCHANGED <<url, hist, nav, input, timers, modal, profiles, cache, fetching, lost>>

SearchBar ==
    /\ Acts
    /\ Navigates(HandleSearch(bar.input))
    /\ UNCHANGED <<input, timers, site>>

\* handleShowUserprofile of the chat, and a name in the live bets.
ShowUser(n) ==
    /\ Acts /\ CanClick
    /\ Navigates(Push(url, [show |-> "user", username |-> n]))
    /\ UNCHANGED <<input, timers, site>>

\* handleClose of the modal: UserInfoModal takes itself out of the URL.
HandleClose ==
    /\ Navigates(IF modal = "user" THEN Push(url, [show |-> None, username |-> None]) ELSE nav)
    /\ modal' = None

CloseModal ==
    /\ Acts /\ modal # None
    /\ HandleClose
    /\ UNCHANGED <<input, timers, bar, profiles, cache, fetching, lost>>
\* handleClick of Providers: the browser leaves for the provider's page, with
\* every timer and answer still to come, and the backend sends it to one of the
\* first three Landings.  Back from there is another visit.
LeaveForProvider ==
    /\ Acts /\ CanClick
    /\ url' \in Landings /\ ~Redirects(url')
    /\ nav' = UrlHandler(url', None).nav
    /\ modal' = UrlHandler(url', None).modal
    /\ hist' = <<>> /\ input' = "" /\ timers' = <<>>
    /\ bar' = [input |-> "", query |-> "", waiting |-> None]
    /\ profiles' = [n \in Users |-> "none"]
    /\ cache' = <<>> /\ lost' = FALSE
    /\ fetching' = {Request(PageQuery(url'), 1)}
-----------------------------------------------------------------------------
(* Answers. *)

\* searchMarket answers: a page more of the list, or the first.
ListAnswered(f) ==
    LET old == IF f.key \in DOMAIN cache THEN cache[f.key].pages ELSE <<>>
    IN  /\ fetching' = fetching \ {f}
        /\ cache' = (f.key :> [shape |-> f.shape,
                               pages |-> Append(old, [search |-> f.search, page |-> f.page])]) @@ cache
        /\ UNCHANGED <<url, hist, nav, input, timers, bar, modal, profiles, acts, lost>>

\* An error, which is told and not tried again: the list stays as it was.
ListFails(f) ==
    /\ fetching' = fetching \ {f}
    /\ UNCHANGED <<url, hist, nav, input, timers, bar, modal, profiles, cache, acts, lost>>

ProfileAnswered(n) ==
    /\ profiles[n] = "fetching"
    /\ profiles' = [profiles EXCEPT ![n] = "data"]
    /\ UNCHANGED <<url, hist, nav, input, timers, bar, modal, cache, fetching, acts, lost>>

\* A profile that cannot be had closes its modal.
ProfileFails(n) ==
    /\ profiles[n] = "fetching"
    /\ profiles' = [profiles EXCEPT ![n] = "error"]
    /\ \/ n \in Watched(modal, url) /\ HandleClose
       \/ n \notin Watched(modal, url) /\ UNCHANGED <<url, hist, nav, modal>>
    /\ UNCHANGED <<input, timers, bar, cache, fetching, acts, lost>>

Texts == Words \cup Shorts \cup {""}

Next ==
    \/ Commit \/ Fire \/ FireBar
    \/ \E t \in Texts : Type(t) \/ TypeInBar(t)
    \/ ClickClear \/ ClickSearch \/ ClickClearBar \/ SearchBar
    \/ \E s \in Statuses : ChooseAtHome("status", s) \/ ChooseInSearch("status", s)
    \/ \E s \in Sorts : ChooseAtHome("sort", s) \/ ChooseInSearch("sort", s)
    \/ \E c \in Categories : ClickCategory(c)
    \/ LoadMore \/ Back \/ CloseModal \/ LeaveForProvider
    \/ \E n \in Users : ShowUser(n) \/ ProfileAnswered(n) \/ ProfileFails(n)
    \/ \E f \in fetching : ListAnswered(f) \/ ListFails(f)

\* The browser runs its timers and the router commits its navigations.
Fairness == WF_vars(Commit) /\ WF_vars(Fire) /\ WF_vars(FireBar)

Spec == Init /\ [][Next]_vars /\ Fairness
-----------------------------------------------------------------------------
Urls == [path : {"/", "/search"},
         params : [q : Words \cup Shorts \cup {None}, category : Categories \cup {None},
                   status : Statuses \cup {None}, sort : Sorts \cup {None},
                   error : {None, "authentication_failed"},
                   show : {None, "profile_completion", "user"}, username : Users \cup {None}]]

\* Types: in particular no committed URL names a category, status or sort that
\* does not exist (the redirect of both pages), and a list query in flight is
\* the only one of its key.
TypeOK ==
    /\ url \in Urls
    /\ nav = None \/ (nav.kind \in {"push", "replace", "back"} /\ Rendered(nav) \in Urls)
    /\ \A i \in DOMAIN hist : hist[i] \in Urls
    /\ input \in Texts /\ modal \in {None, "user", "profileCompletion"}
    /\ \A i \in DOMAIN timers : timers[i].at \in Urls /\ timers[i].text \in Words
    /\ bar.input \in Texts /\ bar.query \in Texts /\ bar.waiting \in Texts \cup {None}
    /\ profiles \in [Users -> {"none", "fetching", "data", "error"}]
    /\ \A f, g \in fetching : f.key = g.key => f = g
    /\ acts \in 0 .. MaxActs

\* Whatever order answers come in, and whatever was prefetched or fetched for
\* another place, a list on the screen is the list of the search it stands
\* under: asked with the filters the URL (or the search bar) has now, its pages
\* from the first one on without a gap, in the shape its query reads.
ListIsOfSearch ==
    \A o \in Observers(url, bar.query) :
        LET key == MarketSearchKey(o.search)
        IN  key \in DOMAIN cache =>
              /\ cache[key].shape = o.shape
              /\ \A i \in DOMAIN cache[key].pages :
                    cache[key].pages[i] = [search |-> o.search, page |-> i]

\* When the user has stopped, the page comes to rest: every text has been
\* searched, no navigation is under way, and the error and the request to
\* complete a profile are out of the URL, however often the history, a menu
\* chosen in between or a late debounced search has brought them back.  Excluded
\* (lost): the clean-up was replaced by a navigation to the URL already shown,
\* say by a letter typed meanwhile; it changes nothing, so no effect runs again.
UrlSettles ==
    <>[](/\ nav = None /\ timers = <<>>
         /\ lost \/ (url.params.error = None /\ url.params.show # "profile_completion"))
=============================================================================
