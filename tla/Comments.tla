------------------------------ MODULE Comments ------------------------------
(***************************************************************************)
(* A thread of comments on the page of a market: CommentSection and        *)
(* CommentThread, the functions of lib/api.ts they call, and the comments  *)
(* of the server as those functions see them.  One thread, one user at the *)
(* page, other users who post and delete.                                  *)
(*                                                                         *)
(* The page keeps the pages of the thread in the query cache.  A load runs *)
(* page by page; it is restarted, joined or cancelled by other handlers.   *)
(* Likes change the cached comment objects in place, a deletion replaces   *)
(* the cached pages and keeps the previous ones to put back on an error,   *)
(* so a comment object is named by its comment and by the load (gen) that  *)
(* made it: the same object may be in the cache and in such a copy.        *)
(***************************************************************************)
EXTENDS Integers, SequencesExt

CONSTANTS
    MaxId,     \* bound: comments ever posted to the thread
    Initial,   \* comments of the thread when the page opens
    PageSize,  \* comments per page
    Slots,     \* bound: deletions, posts and earlier likes of this page under way at a time
    MaxClicks, \* bound: posts, likes and deletions asked for
    Hearts,    \* bound: the comments this user likes and unlikes
    Gens       \* bound: names of loads, reused

ASSUME CommentsAssumption ==
    /\ MaxId \in Nat /\ Initial \in 0..MaxId /\ PageSize \in Nat \ {0}
    /\ Slots \subseteq Nat /\ Gens \subseteq Nat /\ MaxClicks \in Nat

VARIABLES
    user,      \* a user is logged in (getUser gave one)
    created,   \* server: comments 1..created were posted
    mine,      \* server: those of this user
    gone,      \* server: is_deleted
    liked,     \* server: likes of this user
    data,      \* the cached pages, <<>> before the first load
    hearts,    \* the comment objects whose isLiked is true
    fetch,     \* the load under way
    like,      \* like[c]: the last like or unlike of c under way
    older,     \* older[s]: one of an earlier mount that a click since then overlaps
    dels,      \* dels[s]: a deletion under way
    post,      \* post[s]: a post under way
    clicks,    \* posts, likes and deletions asked for
    calm,      \* nothing happened that the page cannot know of
    cut,       \* this user deleted a comment since the last full load
    missed     \* a load that was to show an own comment was disturbed, given up or not begun

server == <<user, created, mine, gone, liked>>
page == <<data, hearts>>
requests == <<like, older, dels, post, clicks>>
ghosts == <<calm, cut, missed>>
vars == <<server, page, fetch, requests, ghosts>>

Ids == 1..MaxId
NoFetch == [kind |-> "none", got |-> <<>>, want |-> 0, base |-> <<>>, clean |-> TRUE]
Idle == [st |-> "idle"]
ReqSt == {"sent", "done"}

Shown == FlattenSeq([i \in DOMAIN data |-> data[i].ids])
IsShown(c, pages) == \E i \in DOMAIN pages : Contains(pages[i].ids, c)
GenOf(c, pages) == pages[CHOOSE i \in DOMAIN pages : Contains(pages[i].ids, c)].gen

(* What is left of s without the members of X, in order. *)
Filters(s, X) ==
    LET kept[n \in 0..Len(s)] == IF n = 0 THEN <<>>
                                 ELSE IF s[n] \in X THEN kept[n - 1]
                                 ELSE Append(kept[n - 1], s[n])
    IN  kept
Filter(s, X) == Filters(s, X)[Len(s)]

(* getNextPageParamFromMetadata of the last cached page *)
HasPageAfterNext == data # <<>> /\ Last(data).cur + 1 < Last(data).last
HasNextPage == data # <<>> /\ Last(data).cur < Last(data).last

(* SearchComments: what is not deleted, newest first, by LIMIT and OFFSET;
   an empty page says that it is page 1 of 1. *)
Listing == Filter([i \in 1..created |-> created + 1 - i], gone)
Page(p) ==
    LET total == Len(Listing)
        upTo == IF p * PageSize < total THEN p * PageSize ELSE total
        ids == SubSeq(Listing, (p - 1) * PageSize + 1, upTo)
    IN  [ids |-> ids, liked |-> ToSet(ids) \cap liked,
         cur |-> IF ids = <<>> THEN 1 ELSE p,
         last |-> IF ids = <<>> THEN 1 ELSE (total + PageSize - 1) \div PageSize]

NothingPending ==
    /\ \A c \in Ids : like[c] = Idle
    /\ \A s \in Slots : older[s] = Idle /\ dels[s] = Idle /\ post[s] = Idle

(* The first slot that is free. *)
FreeSlot(s, reqs) == reqs[s] = Idle /\ \A t \in Slots : t < s => reqs[t] # Idle

Init ==
    /\ user \in BOOLEAN
    /\ created = Initial
    /\ mine \in IF user THEN SUBSET (1..created) ELSE {{}}
    /\ gone = {}
    /\ liked = {}
    /\ data = <<>> /\ hearts = {} /\ fetch = NoFetch
    /\ like = [c \in Ids |-> Idle] /\ older = [s \in Slots |-> Idle]
    /\ dels = [s \in Slots |-> Idle] /\ post = [s \in Slots |-> Idle] /\ clicks = 0
    /\ calm = FALSE /\ cut = FALSE /\ missed = FALSE

-----------------------------------------------------------------------------
(* Loads. *)

Loading(kind, want) ==
    [kind |-> kind, got |-> <<>>, want |-> want,
     base |-> IF kind = "next" THEN data ELSE <<>>, clean |-> NothingPending]

(* What a load has read may not be what the server has when it ends. *)
Disturbed == IF fetch = NoFetch THEN NoFetch ELSE [fetch EXCEPT !.clean = FALSE]

Wanted == IF data = <<>> THEN 1 ELSE Len(data)

(* The thread is mounted, or its data is older than staleTime: useInfiniteQuery
   loads the first page, or every cached page again. *)
Load ==
    /\ fetch = NoFetch
    /\ fetch' = Loading("all", Wanted)
    /\ UNCHANGED <<server, page, requests, ghosts>>

(* InfiniteScrollContainer reaches the bottom: fetchNextPage, which gives up a
   load that is under way. *)
FetchNextPage ==
    /\ HasNextPage
    /\ fetch' = Loading("next", 1)
    /\ missed' = (missed \/ fetch.kind = "all")
    /\ UNCHANGED <<server, page, requests, calm, cut>>

Complete ==
    fetch.got # <<>> /\ (Len(fetch.got) = fetch.want \/ Last(fetch.got).cur >= Last(fetch.got).last)

PageParam ==
    IF fetch.kind = "next" THEN Last(fetch.base).cur + 1
    ELSE IF fetch.got = <<>> THEN 1
    ELSE Last(fetch.got).cur + 1

(* getComments: the server reads one page. *)
GetComments ==
    /\ fetch # NoFetch /\ ~Complete
    /\ fetch' = [fetch EXCEPT !.got = Append(@, Page(PageParam))]
    /\ UNCHANGED <<server, page, requests, ghosts>>

UsedGens(pages) ==
    {pages[i].gen : i \in DOMAIN pages}
    \cup UNION {IF dels[s] = Idle THEN {}
                ELSE {dels[s].snap[i].gen : i \in DOMAIN dels[s].snap} : s \in Slots}
    \cup {like[c].gen : c \in {d \in Ids : like[d] # Idle}}
    \cup {older[s].gen : s \in {t \in Slots : older[t] # Idle}}

(* A pending like follows the object its CommentDisplay renders, for as long
   as that stays mounted. *)
Rendered(pages) ==
    [c \in Ids |->
        IF like[c] = Idle \/ ~like[c].mounted THEN like[c]
        ELSE IF IsShown(c, pages) THEN [like[c] EXCEPT !.gen = GenOf(c, pages)]
        ELSE [like[c] EXCEPT !.mounted = FALSE]]

(* The last page has arrived, after the artificial delay: the result replaces
   the cached pages, or is appended to those the load began with. *)
FetchDone ==
    /\ fetch # NoFetch /\ Complete
    /\ \E gen \in Gens \ UsedGens(fetch.base) :
          /\ \A g \in Gens \ UsedGens(fetch.base) : gen <= g
          /\ LET fresh == [i \in DOMAIN fetch.got |->
                            [ids |-> fetch.got[i].ids, gen |-> gen,
                             cur |-> fetch.got[i].cur, last |-> fetch.got[i].last]]
             IN  data' = IF fetch.kind = "all" THEN fresh ELSE fetch.base \o fresh
          /\ hearts' = {h \in hearts : h[2] \in UsedGens(data') \ {gen}}
                       \cup UNION {(fetch.got[i].liked \cap Hearts) \X {gen} :
                                   i \in DOMAIN fetch.got}
    /\ like' = Rendered(data')
    /\ fetch' = NoFetch
    /\ calm' = (fetch.clean /\ (fetch.kind = "all" \/ calm))
    /\ cut' = (cut /\ ~(fetch.kind = "all" /\ fetch.clean))
    /\ missed' = IF fetch.kind = "all" THEN ~fetch.clean ELSE missed
    /\ UNCHANGED <<server, older, dels, post, clicks>>

(* A page cannot be had (error, invalid answer): the cached pages stay. *)
FetchFails ==
    /\ fetch # NoFetch
    /\ fetch' = NoFetch
    /\ missed' = (missed \/ fetch.kind = "all")
    /\ UNCHANGED <<server, page, requests, calm, cut>>

-----------------------------------------------------------------------------
(* Posts: usePostComment. *)

(* The button: a valid text, no post of this mount of the input under way. *)
ClickPost(s) ==
    /\ FreeSlot(s, post) /\ \A t \in Slots : post[t] # Idle => ~post[t].mounted
    /\ clicks < MaxClicks /\ clicks' = clicks + 1
    /\ post' = [post EXCEPT ![s] = [st |-> "sent", id |-> 0, mounted |-> TRUE]]
    /\ fetch' = Disturbed
    /\ UNCHANGED <<server, page, like, older, dels, ghosts>>

ServePost(s) ==
    /\ post[s] # Idle /\ post[s].st = "sent" /\ user /\ created < MaxId
    /\ created' = created + 1
    /\ mine' = mine \cup {created + 1}
    /\ post' = [post EXCEPT ![s].st = "done", ![s].id = created + 1]
    /\ calm' = FALSE
    /\ UNCHANGED <<user, gone, liked, page, fetch, like, older, dels, cut, missed, clicks>>

(* invalidateQueries starts a full load, in place of one under way; but while
   the first load is under way that one is all there will be. *)
FirstLoad == data = <<>> /\ fetch # NoFetch
NotInvalidated(s) == fetch
Invalidated(s) ==
    IF FirstLoad THEN fetch
    ELSE [Loading("all", Wanted) EXCEPT
             !.clean = /\ \A c \in Ids : like[c] = Idle
                       /\ \A t \in Slots : /\ older[t] = Idle /\ dels[t] = Idle
                                           /\ t # s => post[t] = Idle]

(* onSuccess *)
PostSucceeds(s) ==
    /\ post[s] # Idle /\ post[s].st = "done"
    /\ post' = [post EXCEPT ![s] = Idle]
    /\ fetch' = Invalidated(s)
    /\ missed' = (missed \/ FirstLoad)
    /\ UNCHANGED <<server, page, like, older, dels, calm, cut, clicks>>

(* onError: the request is refused or lost, or its answer is lost. *)
PostFails(s) ==
    /\ post[s] # Idle
    /\ post' = [post EXCEPT ![s] = Idle]
    /\ missed' = (missed \/ post[s].st = "done")
    /\ UNCHANGED <<server, page, fetch, like, older, dels, calm, cut, clicks>>

-----------------------------------------------------------------------------
(* Likes: mutateLike.  The button is shown to visitors too. *)

Flip(c, gen) ==
    IF <<c, gen>> \in hearts THEN hearts \ {<<c, gen>>} ELSE hearts \cup {<<c, gen>>}

Liking(c) == LET gen == GenOf(c, data)
             IN  [st |-> "sent", on |-> <<c, gen>> \notin hearts, gen |-> gen, mounted |-> TRUE]

ClickLike(c) ==
    /\ c \in Hearts /\ IsShown(c, data) /\ like[c] = Idle
    /\ clicks < MaxClicks /\ clicks' = clicks + 1
    /\ like' = [like EXCEPT ![c] = Liking(c)]
    /\ hearts' = Flip(c, GenOf(c, data))
    /\ fetch' = Disturbed
    /\ UNCHANGED <<server, data, older, dels, post, ghosts>>

(* The button looks at the mutation of its own mount: a like of an earlier one may still
   be under way, and the server may get the two in either order. *)
ClickLikeAgain(c, s) ==
    /\ c \in Hearts /\ IsShown(c, data) /\ like[c] # Idle /\ ~like[c].mounted
    /\ clicks < MaxClicks /\ clicks' = clicks + 1
    /\ FreeSlot(s, older)
    /\ older' = [older EXCEPT ![s] = [id |-> c, st |-> like[c].st, on |-> like[c].on,
                                      gen |-> like[c].gen]]
    /\ like' = [like EXCEPT ![c] = Liking(c)]
    /\ hearts' = Flip(c, GenOf(c, data))
    /\ calm' = FALSE
    /\ fetch' = Disturbed
    /\ UNCHANGED <<server, data, dels, post, cut, missed>>

(* postLike, deleteLike: repeating either is a success. *)
ServedLike(c, on) == liked' = IF on THEN liked \cup {c} ELSE liked \ {c}

ServeLike(c) ==
    /\ like[c] # Idle /\ like[c].st = "sent" /\ user
    /\ ServedLike(c, like[c].on)
    /\ like' = [like EXCEPT ![c].st = "done"]
    /\ UNCHANGED <<user, created, mine, gone, page, fetch, older, dels, post, ghosts, clicks>>

ServeOlder(s) ==
    /\ older[s] # Idle /\ older[s].st = "sent" /\ user
    /\ ServedLike(older[s].id, older[s].on)
    /\ older' = [older EXCEPT ![s].st = "done"]
    /\ UNCHANGED <<user, created, mine, gone, page, fetch, like, dels, post, ghosts, clicks>>

LikeSucceeds(c) ==
    /\ like[c] # Idle /\ like[c].st = "done"
    /\ like' = [like EXCEPT ![c] = Idle]
    /\ UNCHANGED <<server, page, fetch, older, dels, post, ghosts, clicks>>

OlderSucceeds(s) ==
    /\ older[s] # Idle /\ older[s].st = "done"
    /\ older' = [older EXCEPT ![s] = Idle]
    /\ UNCHANGED <<server, page, fetch, like, dels, post, ghosts, clicks>>

(* onError flips the object back. *)
LikeFails(c) ==
    /\ like[c] # Idle
    /\ like' = [like EXCEPT ![c] = Idle]
    /\ hearts' = Flip(c, like[c].gen)
    /\ calm' = (calm /\ like[c].st = "sent")
    /\ UNCHANGED <<server, data, fetch, older, dels, post, cut, missed, clicks>>

OlderFails(s) ==
    /\ older[s] # Idle
    /\ older' = [older EXCEPT ![s] = Idle]
    /\ hearts' = Flip(older[s].id, older[s].gen)
    /\ UNCHANGED <<server, data, fetch, like, dels, post, ghosts, clicks>>

(* The page is left and shown again: the buttons and the inputs are new ones. *)
Unmounted(r) == IF r = Idle THEN Idle ELSE [r EXCEPT !.mounted = FALSE]
Remount ==
    /\ like' = [c \in Ids |-> Unmounted(like[c])]
    /\ post' = [s \in Slots |-> Unmounted(post[s])]
    /\ UNCHANGED <<server, page, fetch, older, dels, clicks, ghosts>>

-----------------------------------------------------------------------------
(* Deletions: mutateDeleteComment. *)

Without(pages, c) ==
    [i \in DOMAIN pages |-> [pages[i] EXCEPT !.ids = Filter(@, {c})]]

(* cancelQueries *)
NotCancelled == fetch
Cancelled == NoFetch

(* onMutate: cancelQueries, the copy, and the pages without the comment.  The
   button is for its writer. *)
ClickDelete(c, s) ==
    /\ user /\ c \in mine /\ IsShown(c, data) /\ clicks < MaxClicks
    /\ clicks' = clicks + 1
    /\ FreeSlot(s, dels)
    /\ fetch' = Cancelled
    /\ dels' = [dels EXCEPT ![s] = [st |-> "sent", id |-> c, snap |-> data]]
    /\ data' = Without(data, c)
    /\ like' = Rendered(data')
    /\ missed' = (missed \/ fetch.kind = "all")
    /\ UNCHANGED <<server, hearts, older, post, calm, cut>>

(* DeleteComment: one that is already deleted is refused. *)
ServeDelete(s) ==
    /\ dels[s] # Idle /\ dels[s].st = "sent" /\ dels[s].id \notin gone
    /\ gone' = gone \cup {dels[s].id}
    /\ dels' = [dels EXCEPT ![s].st = "done"]
    /\ cut' = TRUE
    /\ UNCHANGED <<user, created, mine, liked, page, fetch, like, older, post, calm, missed,
                   clicks>>

DeleteSucceeds(s) ==
    /\ dels[s] # Idle /\ dels[s].st = "done"
    /\ dels' = [dels EXCEPT ![s] = Idle]
    /\ UNCHANGED <<server, page, fetch, like, older, post, ghosts, clicks>>

(* onError puts the copy back, whatever happened to the pages since. *)
DeleteFails(s) ==
    /\ dels[s] # Idle
    /\ data' = dels[s].snap
    /\ dels' = [dels EXCEPT ![s] = Idle]
    /\ like' = Rendered(data')
    /\ calm' = (calm /\ dels[s].st = "sent" /\ data = Without(dels[s].snap, dels[s].id))
    /\ missed' = (missed \/ data # Without(dels[s].snap, dels[s].id))
    /\ UNCHANGED <<server, hearts, fetch, older, post, cut, clicks>>

-----------------------------------------------------------------------------
(* Other users. *)

OtherPosts ==
    /\ created < MaxId
    /\ created' = created + 1
    /\ calm' = FALSE
    /\ fetch' = Disturbed
    /\ UNCHANGED <<user, mine, gone, liked, page, requests, cut, missed>>

OtherDeletes ==
    /\ \E c \in (1..created) \ (mine \cup gone) : gone' = gone \cup {c}
    /\ calm' = FALSE
    /\ fetch' = Disturbed
    /\ UNCHANGED <<user, created, mine, liked, page, requests, cut, missed>>

-----------------------------------------------------------------------------
Next ==
    \/ Load \/ FetchNextPage \/ GetComments \/ FetchDone \/ FetchFails
    \/ \E c \in Ids : \/ ClickLike(c) \/ ServeLike(c) \/ LikeSucceeds(c) \/ LikeFails(c)
                      \/ \E s \in Slots : ClickLikeAgain(c, s) \/ ClickDelete(c, s)
    \/ \E s \in Slots : \/ ClickPost(s) \/ ServePost(s) \/ PostSucceeds(s) \/ PostFails(s)
                        \/ ServeOlder(s) \/ OlderSucceeds(s) \/ OlderFails(s)
                        \/ ServeDelete(s) \/ DeleteSucceeds(s) \/ DeleteFails(s)
    \/ Remount \/ OtherPosts \/ OtherDeletes

(* Answers arrive and the page handles them; users need not act. *)
Fairness ==
    /\ \A s \in Slots : WF_vars(PostSucceeds(s) \/ PostFails(s))
    /\ WF_vars(GetComments) /\ WF_vars(FetchDone)

Spec == Init /\ [][Next]_vars /\ Fairness

-----------------------------------------------------------------------------
(* Properties. *)

(* The types of the server's rows, of the cached pages and of the requests; the pages hold
   only comments that were posted. *)
TypeOK ==
    /\ user \in BOOLEAN /\ created \in 0..MaxId
    /\ mine \subseteq 1..created /\ gone \subseteq 1..created /\ liked \subseteq 1..created
    /\ hearts \subseteq Ids \X Gens
    /\ \A i \in DOMAIN data : data[i].gen \in Gens /\ ToSet(data[i].ids) \subseteq 1..created
    /\ fetch.kind \in {"none", "all", "next"}
    /\ \A c \in Ids : like[c] = Idle \/ like[c].st \in ReqSt
    /\ \A s \in Slots : \A r \in {older[s], dels[s], post[s]} : r = Idle \/ r.st \in ReqSt
    /\ clicks \in 0..MaxClicks
    /\ calm \in BOOLEAN /\ cut \in BOOLEAN /\ missed \in BOOLEAN

(* CommentThread.tsx 116-165: optimistic likes and deletions, undone on an error,
   leave the page in agreement with the server.  When no request is under way, every
   comment shown exists, in the server's order, once, with the heart the server has.
   Left out, by calm, until the next full load that nothing disturbs: an answer that was
   lost; a post, and what another user posts or deletes; a load that ran across a
   change; two likes of one comment that overlapped, after a remount; and a deletion
   that failed after another change of the pages, which its copy undoes. *)
Mirror ==
    calm /\ NothingPending =>
        /\ \A c \in ToSet(Shown) :
              c \notin gone /\ (<<c, GenOf(c, data)>> \in hearts <=> c \in liked)
        /\ \A i \in 1..(Len(Shown) - 1) : Shown[i] > Shown[i + 1]

(* CommentThread.tsx 26-42, meta.ts: paging leaves no gap.  In the same
   circumstances, as long as this user deleted nothing since the last full load,
   the page shows the first comments of the thread, and all of them when there
   is no next page. *)
NoneSkipped ==
    calm /\ NothingPending /\ ~cut =>
        IsPrefix(Shown, Listing) /\ (HasNextPage \/ Shown = Listing)

(* usePostComment.tsx 12-15: a comment this page posted comes into view, unless it
   is deleted first, is beyond the pages loaded, its answer was lost, or the load
   that would show it was given up (by an error, a deletion, or the next page), was
   not begun because the first load was still under way, or was disturbed by other
   changes of the thread. *)
PostShown ==
    \A c \in Ids :
        (\E s \in Slots : post[s] # Idle /\ post[s].st = "done" /\ post[s].id = c)
            ~> (IsShown(c, data) \/ c \in gone \/ HasNextPage \/ missed)

=============================================================================
