------------------------------ MODULE Account ------------------------------
(***************************************************************************)
(* The account pages of a browser tab: logging in and out, the list of     *)
(* sessions, the password and the preferences, and the server rows behind  *)
(* them.  What the tab shows is the query cache, whose entries are under   *)
(* the key prefix "user": the user, the preferences, and the lists of      *)
(* active and of all sessions.                                             *)
(*                                                                         *)
(* A request is sent with the cookie of that moment, the server serves it, *)
(* and the answer is handled; a request the tab gave up on but the server  *)
(* still carries out is one of the steps of the other devices of the user. *)
(***************************************************************************)
EXTENDS Naturals, FiniteSets, QueryCache

CONSTANTS
    Sessions,     \* the sessions of the user, past and to come
    None,
    Prefs,
    Requests,     \* the requests that revoke or save and may overlap
    MaxEvents,    \* bound: submits in this tab, answers lost, steps of other devices
    MaxMoves      \* bound: pages visited, links hovered, reloads

ASSUME AccountAssumption ==
    /\ IsFiniteSet(Sessions) /\ None \notin Sessions \cup Requests
    /\ MaxEvents \in Nat /\ MaxMoves \in Nat

VARIABLES
    row,        \* sessions: the status of each row of the table
    made,       \* the value of password when the row was inserted
    password,   \* users.version: the number of password changes
    change,     \* the transaction of ChangePassword that holds the row of the user
    stored,     \* the preferences of the user
    sid,        \* the session cookie of the browser
    cache,      \* the query cache of the tab
    sentAs,     \* the cookie that went with the last fetch of each query
    page,       \* the settings page shown, with the list it shows
    hovered,    \* prefetched.current of the links of the settings layout
    auth,       \* the login, logout or password change under way
    revoking,   \* the revocations under way
    saves,      \* the mutations of the preferences page, mounted or not
    pending,    \* the mutation whose isPending the mounted page looks at
    missed,     \* the queries whose entry may be behind without the tab knowing
    events, moves

vars == <<row, made, password, change, stored, sid, cache, sentAs, page, hovered, auth,
          revoking, saves, pending, missed, events, moves>>

server == <<row, made, password, change, stored>>
fetches == <<cache, sentAs>>
bounds == <<events, moves>>
view == <<page, hovered>>

Lists == {"active", "all"}
Queries == {"user", "prefs"} \cup Lists
Values == [Prefs -> BOOLEAN]
Pages == {"home", "preferences"} \cup Lists

(* A row that a transaction has revoked and not committed is still good for those
   who read it, and those who write it wait: looking up a session writes it. *)
Locked == {s \in Sessions : row[s] = "ending"}
Active == {s \in Sessions : row[s] \in {"active", "ending"}}
LoggedIn == sid \in Active

Sent(kind) == [kind |-> kind, phase |-> "sent", seen |-> 0, session |-> None]
Idle == Sent("none")

Listings == [active : SUBSET Sessions, inactive : SUBSET Sessions, current : Sessions]
Data(q) ==
    CASE q = "user"    -> {<<>>, <<"user">>, <<"nobody">>}
      [] q = "prefs"   -> {<<>>} \cup {<<v>> : v \in Values}
      [] OTHER         -> {<<>>} \cup {<<l>> : l \in Listings}

Event == events < MaxEvents /\ events' = events + 1 /\ UNCHANGED moves
Move == moves < MaxMoves /\ moves' = moves + 1 /\ UNCHANGED events

-----------------------------------------------------------------------------
(* The query cache. *)

Shows(p, q) == q \in {p, "user"} \/ (p = "preferences" /\ q = "prefs")
Observed == {q \in Queries : Shows(page, q)}

(* What makes an entry stale: for the user an hour, for the preferences, which have
   no staleTime, always, and for the lists, whose staleTime is infinite, never. *)
Stale(q, old) == q = "prefs" \/ (q = "user" /\ old)

Carry(qs) == sentAs' = [q \in Queries |-> IF q \in qs THEN sid ELSE sentAs[q]]
Started == {q \in Queries : cache[q].phase = "idle" /\ cache'[q].phase = "sent"}

InvalidateQueries(qs) ==
    /\ cache' = [q \in Queries |->
                    IF q \in qs THEN Invalidated(cache[q], q \in Observed) ELSE cache[q]]
    /\ missed' = missed \cup
           {q \in qs : ~Restarts(cache[q], q \in Observed) /\ cache[q].phase = "served"}
    /\ Carry({q \in qs : Restarts(cache[q], q \in Observed)})

(* What the server answers to who has the cookie s; all but the first need a
   session. *)
Reply(q, s) ==
    CASE q = "user"    -> IF s \in Active THEN "user" ELSE "nobody"
      [] q = "prefs"   -> stored
      [] q = "active"  -> [active |-> Active, inactive |-> {}, current |-> s]
      [] q = "all"     -> [active |-> Active,
                           inactive |-> {t \in Sessions : row[t] = "revoked"},
                           current |-> s]
Answer(q) == Reply(q, sid)

(* The request came with the cookie of when it was sent. *)
Serve(q) ==
    /\ cache[q].phase = "sent" /\ sentAs[q] \notin Locked
    /\ IF q = "user" \/ sentAs[q] \in Active
       THEN cache' = [cache EXCEPT ![q].phase = "served", ![q].answer = <<Reply(q, sentAs[q])>>]
       ELSE cache' = [cache EXCEPT ![q].phase = "refused"]
    /\ missed' = IF sentAs[q] = sid THEN missed \ {q} ELSE missed \cup {q}
    /\ UNCHANGED <<server, sid, sentAs, view, auth, revoking, saves, pending, bounds>>

FetchDone(q) ==
    /\ cache[q].phase = "served"
    /\ cache' = [cache EXCEPT ![q] = Answered(@)]
    /\ UNCHANGED <<server, sid, sentAs, view, auth, revoking, saves, pending, missed, bounds>>

(* The query fails; what it had is kept, and there is no retry. *)
FetchFails(q) ==
    /\ cache[q].phase # "idle"
    /\ IF cache[q].phase = "refused" THEN UNCHANGED bounds ELSE Event
    /\ cache' = [cache EXCEPT ![q] = Failed(@)]
    /\ missed' = missed \cup {q}
    /\ UNCHANGED <<server, sid, sentAs, view, auth, revoking, saves, pending>>

-----------------------------------------------------------------------------
(* Moving between the pages. *)

(* The cache of a tab that was just loaded: the navigation bar asks for the user,
   and the page for what it shows. *)
Loaded(p) == [q \in Queries |->
                 IF Shows(p, q) THEN Fetching(NoEntry) ELSE NoEntry]
NoRevoke == [phase |-> "idle", session |-> None, as |-> None]
NoRevokes == [r \in Requests |-> NoRevoke]
NoSave == [phase |-> "idle", pref |-> None, value |-> FALSE, as |-> None,
           read |-> [p \in Prefs |-> FALSE]]
NoSaves == [r \in Requests |-> NoSave]

Load(p) ==
    /\ cache' = Loaded(p) /\ Carry(Queries)
    /\ page' = p /\ hovered' = {}
    /\ auth' = Idle /\ revoking' = NoRevokes
    /\ saves' = NoSaves /\ pending' = None
    /\ missed' = {}

Init ==
    /\ row \in [Sessions -> {"none", "active"}]
    /\ sid \in {None} \cup Active
    /\ made = [s \in Sessions |-> 0]
    /\ password = 0 /\ change = "none" /\ stored = [p \in Prefs |-> FALSE]
    /\ page \in Pages \ {"all"} /\ cache = Loaded(page) /\ hovered = {}
    /\ sentAs = [q \in Queries |-> sid]
    /\ auth = Idle /\ revoking = NoRevokes /\ saves = NoSaves /\ pending = None
    /\ missed = {}
    /\ events = 0 /\ moves = 0

(* A page is mounted, or the other list is chosen.  A detour to a page that shows nothing
   of this and back is one move: the page is mounted anew. *)
Visit(p) ==
    /\ Move
    /\ page' = p
    /\ hovered' = IF p = "home" THEN {} ELSE hovered
    /\ pending' = None
    /\ \E old \in BOOLEAN :
          cache' = [q \in Queries |->
                      IF Shows(p, q) THEN Mounted(cache[q], Stale(q, old)) ELSE cache[q]]
    /\ Carry(Started)
    /\ UNCHANGED <<server, sid, auth, revoking, saves, missed>>

(* PrefetchLink: the first time the pointer is on the link, what is not in the
   cache or older than a minute is fetched, whatever the page is doing. *)
Hover(q) ==
    /\ page # "home" /\ q \in {"prefs", "active"} \ hovered /\ Move
    /\ hovered' = hovered \cup {q}
    /\ \E old \in BOOLEAN :
          cache' = [cache EXCEPT ![q] = Mounted(@, old)]
    /\ Carry(Started)
    /\ UNCHANGED <<server, sid, page, auth, revoking, saves, pending, missed>>

Reload ==
    /\ Move /\ Load(IF page = "all" THEN "active" ELSE page)
    /\ UNCHANGED <<server, sid>>

-----------------------------------------------------------------------------
(* Logging in: login, register and completeProfile have the same handlers. *)

ClickLogin ==
    /\ auth = Idle /\ cache["user"].data # <<"user">> /\ Event
    /\ auth' = Sent("login")
    /\ UNCHANGED <<server, sid, fetches, view, revoking, saves, pending, missed>>

(* The row of the user is read and the password compared. *)
LoginChecks ==
    /\ auth.kind = "login" /\ auth.phase = "sent"
    /\ auth' \in {[auth EXCEPT !.phase = "checked", !.seen = password],
                  [auth EXCEPT !.phase = "refused"]}
    /\ UNCHANGED <<server, sid, fetches, view, revoking, saves, pending, missed, bounds>>

Insert(s) ==
    /\ row' = [row EXCEPT ![s] = "active"]
    /\ made' = [made EXCEPT ![s] = password]

(* createSession: nothing of what was read is looked at again, and a transaction that
   holds the row of the user does not keep the new row out. *)
LoginCreates ==
    /\ auth.kind = "login" /\ auth.phase = "checked"
    /\ \E s \in Sessions :
          /\ row[s] = "none"
          /\ Insert(s)
          /\ auth' = [auth EXCEPT !.phase = "served", !.session = s]
    /\ UNCHANGED <<password, change, stored, sid, fetches, view, revoking, saves, pending, missed,
                   bounds>>

(* The head of the answer is there: the browser sets or drops the cookie, before any
   code of the tab runs. *)
CookieSet ==
    /\ auth.kind \in {"login", "logout"} /\ auth.phase = "served"
    /\ sid' = auth.session
    /\ auth' = [auth EXCEPT !.phase = "answered"]
    /\ UNCHANGED <<server, fetches, view, revoking, saves, pending, missed, bounds>>

(* onSuccess: everything under ["user"] is invalidated. *)
LoginHandled ==
    /\ auth.kind = "login" /\ auth.phase = "answered"
    /\ auth' = Idle
    /\ InvalidateQueries(Queries)
    /\ page' = "home" /\ hovered' = {} /\ pending' = None
    /\ UNCHANGED <<server, sid, revoking, saves, bounds>>

(* onError, with or without the cookie of an answer whose body was lost. *)
AuthFails ==
    /\ auth # Idle
    /\ IF auth.phase = "refused" THEN UNCHANGED bounds ELSE Event
    /\ missed' = IF auth.phase \in {"served", "answered"} THEN Queries ELSE missed
    /\ auth' = Idle
    /\ UNCHANGED <<server, sid, fetches, view, revoking, saves, pending>>

(* Logging out. *)
ClickLogout ==
    /\ auth = Idle /\ cache["user"].data = <<"user">> /\ Event
    /\ auth' = Sent("logout")
    /\ UNCHANGED <<server, sid, fetches, view, revoking, saves, pending, missed>>

ServeLogout ==
    /\ auth.kind = "logout" /\ auth.phase = "sent" /\ sid \notin Locked
    /\ IF LoggedIn
       THEN row' = [row EXCEPT ![sid] = "revoked"] /\ auth' = [auth EXCEPT !.phase = "served"]
       ELSE auth' = [auth EXCEPT !.phase = "refused"] /\ UNCHANGED row
    /\ UNCHANGED <<made, password, change, stored, sid, fetches, view, revoking, saves, pending,
                   missed, bounds>>

(* onSuccess: the page is loaded anew. *)
LogoutHandled ==
    /\ auth.kind = "logout" /\ auth.phase = "answered"
    /\ Load("home")
    /\ UNCHANGED <<server, sid, bounds>>

-----------------------------------------------------------------------------
(* The password. *)

(* ChangePasswordModal or SetPasswordModal, by hasPassword of the user shown. *)
ClickPassword ==
    /\ auth = Idle /\ page \in Lists /\ Event
    /\ auth' = Sent("password")
    /\ UNCHANGED <<server, sid, fetches, view, revoking, saves, pending, missed>>

(* The session is looked up, then the row of the user with its version. *)
PasswordReads ==
    /\ auth.kind = "password" /\ auth.phase = "sent" /\ sid \notin Locked
    /\ auth' \in IF LoggedIn
                 THEN {[auth EXCEPT !.phase = "checked", !.seen = password],
                       [auth EXCEPT !.phase = "refused"]}
                 ELSE {[auth EXCEPT !.phase = "refused"]}
    /\ UNCHANGED <<server, sid, fetches, view, revoking, saves, pending, missed, bounds>>

(* UserRepo.ChangePassword, a transaction.  The row of the user is changed if its
   version is the one read: a transaction that changes it too is waited for. *)
PasswordBegins ==
    /\ auth.kind = "password" /\ auth.phase = "checked" /\ change = "none"
    /\ IF auth.seen = password
       THEN change' = "updated" /\ auth' = [auth EXCEPT !.phase = "changing"]
       ELSE auth' = [auth EXCEPT !.phase = "refused"] /\ UNCHANGED change
    /\ UNCHANGED <<row, made, password, stored, sid, fetches, view, revoking, saves, pending,
                   missed, bounds>>

(* Then the sessions there are at that moment are revoked. *)
EndOwn == [s \in Sessions |-> IF s = sid /\ row[s] = "active" THEN "ending" ELSE row[s]]
EndAll == [s \in Sessions |-> IF row[s] = "active" THEN "ending" ELSE row[s]]
EndSessions ==
    /\ change = "updated" /\ change' = "ended"
    /\ row' = EndAll
    /\ UNCHANGED <<made, password, stored, sid, fetches, view, auth, revoking, saves, pending,
                   missed, bounds>>

Become(status) == [s \in Sessions |-> IF row[s] = "ending" THEN status ELSE row[s]]

ChangeCommits ==
    /\ change = "ended" /\ change' = "none"
    /\ row' = Become("revoked") /\ password' = password + 1
    /\ IF auth.phase = "changing"
       THEN auth' = [auth EXCEPT !.phase = "served"] /\ UNCHANGED missed
       ELSE missed' = Queries /\ UNCHANGED auth
    /\ UNCHANGED <<made, stored, sid, fetches, view, revoking, saves, pending, bounds>>

ChangeFails ==
    /\ change # "none" /\ change' = "none" /\ Event
    /\ row' = Become("active")
    /\ auth' = IF auth.phase = "changing" THEN [auth EXCEPT !.phase = "refused"] ELSE auth
    /\ UNCHANGED <<made, password, stored, sid, fetches, view, revoking, saves, pending, missed>>

(* onSuccess: window.location.replace. *)
PasswordHandled ==
    /\ auth.kind = "password" /\ auth.phase = "served"
    /\ Load("home")
    /\ UNCHANGED <<server, sid, bounds>>

-----------------------------------------------------------------------------
(* The list of sessions. *)

(* SessionDisplay: only a session shown as active and not as this one, as often as
   the user clicks. *)
ClickRevoke(r) ==
    /\ page \in Lists /\ cache[page].data # <<>>
    /\ revoking[r].phase = "idle" /\ Event
    /\ \E s \in cache[page].data[1].active \ {cache[page].data[1].current} :
          revoking' = [revoking EXCEPT ![r] = [phase |-> "sent", session |-> s, as |-> sid]]
    /\ UNCHANGED <<server, sid, fetches, view, auth, saves, pending, missed>>

ServeRevoke(r) ==
    /\ revoking[r].phase = "sent"
    /\ {revoking[r].session, revoking[r].as} \cap Locked = {}
    /\ LET s == revoking[r].session
       IN  /\ IF revoking[r].as \in Active /\ row[s] = "active"
              THEN /\ row' = [row EXCEPT ![s] = "revoked"]
                   /\ revoking' = [revoking EXCEPT ![r].phase = "served"]
              ELSE revoking' = [revoking EXCEPT ![r].phase = "refused"] /\ UNCHANGED row
           /\ missed' = IF s = sid THEN missed \cup {"user"} ELSE missed
    /\ UNCHANGED <<made, password, change, stored, sid, fetches, view, auth, saves, pending, bounds>>

RevokeHandled(r) ==
    /\ revoking[r].phase = "served"
    /\ revoking' = [revoking EXCEPT ![r] = NoRevoke]
    /\ InvalidateQueries(Lists)
    /\ UNCHANGED <<server, sid, view, auth, saves, pending, bounds>>

(* onError: a notice, and the list is left as it is. *)
RevokeFails(r) ==
    /\ revoking[r].phase # "idle"
    /\ IF revoking[r].phase = "refused" THEN UNCHANGED bounds ELSE Event
    /\ revoking' = [revoking EXCEPT ![r] = NoRevoke]
    /\ missed' = IF revoking[r].phase = "served" THEN missed \cup Lists ELSE missed
    /\ UNCHANGED <<server, sid, fetches, view, auth, saves, pending>>

-----------------------------------------------------------------------------
(* The preferences. *)

(* onMutate: the fetch under way is cancelled and the change is shown at once.  The
   switch looks at the mutation of this mount only: one of an earlier mount may
   still be under way, of the same switch too. *)
ClickSwitch(r) ==
    /\ page = "preferences" /\ cache["prefs"].data # <<>>
    /\ pending = None /\ saves[r].phase = "idle" /\ Event
    /\ \E p \in Prefs :
          LET value == ~cache["prefs"].data[1][p]
          IN  /\ cache' = [cache EXCEPT !["prefs"] =
                             [Cancelled(@) EXCEPT !.data[1][p] = value, !.invalid = FALSE]]
              /\ saves' = [saves EXCEPT ![r] = [NoSave EXCEPT !.phase = "sent", !.pref = p,
                                                              !.value = value, !.as = sid]]
    /\ pending' = r
    /\ UNCHANGED <<server, sid, sentAs, view, auth, revoking, missed>>

(* UpdatePreferences reads both preferences, then writes both. *)
SaveReads(r) ==
    /\ saves[r].phase = "sent" /\ saves[r].as \notin Locked
    /\ saves' = IF saves[r].as \in Active
                THEN [saves EXCEPT ![r].phase = "read", ![r].read = stored]
                ELSE [saves EXCEPT ![r].phase = "refused"]
    /\ UNCHANGED <<server, sid, fetches, view, auth, revoking, pending, missed, bounds>>

SaveWrites(r) ==
    /\ saves[r].phase = "read"
    /\ stored' = [saves[r].read EXCEPT ![saves[r].pref] = saves[r].value]
    /\ saves' = [saves EXCEPT ![r].phase = "served"]
    /\ UNCHANGED <<row, made, password, change, sid, fetches, view, auth, revoking, pending, missed,
                   bounds>>

(* onSuccess or onError, then onSettled, which refetches in either case; there is
   no way back to previousPrefs. *)
NotSettled(qs) == UNCHANGED <<fetches, missed>>
Settled(qs) == InvalidateQueries(qs)
SaveSettles(r) ==
    /\ saves[r].phase # "idle"
    /\ IF saves[r].phase \in {"served", "refused"} THEN UNCHANGED bounds ELSE Event
    /\ saves' = [saves EXCEPT ![r] = NoSave]
    /\ pending' = IF pending = r THEN None ELSE pending
    /\ Settled({"prefs"})
    /\ UNCHANGED <<server, sid, view, auth, revoking>>

-----------------------------------------------------------------------------
(* The other devices of the user, and what the server still does of a request
   this tab gave up on. *)

OtherLogin ==
    /\ Event
    /\ \E s \in Sessions : row[s] = "none" /\ Insert(s)
    /\ missed' = missed \cup Lists
    /\ UNCHANGED <<password, change, stored, sid, fetches, view, auth, revoking, saves, pending>>

(* A logout, a revocation or an expiry. *)
OtherRevokes ==
    /\ Event
    /\ \E s \in Active \ Locked : row' = [row EXCEPT ![s] = "revoked"]
    /\ missed' = Queries
    /\ UNCHANGED <<made, password, change, stored, sid, fetches, view, auth, revoking, saves, pending>>

(* Another transaction of ChangePassword has changed the row of the user. *)
OtherPassword ==
    /\ Event /\ Active # {} /\ change = "none"
    /\ change' = "updated"
    /\ UNCHANGED <<row, made, password, stored, sid, fetches, view, auth, revoking, saves, pending,
                   missed>>

OtherSaves ==
    /\ Event
    /\ \E p \in Prefs : stored' = [stored EXCEPT ![p] = ~@]
    /\ missed' = missed \cup {"prefs"}
    /\ UNCHANGED <<row, made, password, change, sid, fetches, view, auth, revoking, saves, pending>>

-----------------------------------------------------------------------------
Next ==
    \/ \E q \in Queries : Serve(q) \/ FetchDone(q) \/ FetchFails(q) \/ Hover(q)
    \/ \E p \in Pages : Visit(p)
    \/ Reload
    \/ ClickLogin \/ LoginChecks \/ LoginCreates \/ CookieSet \/ LoginHandled \/ AuthFails
    \/ ClickLogout \/ ServeLogout \/ LogoutHandled
    \/ ClickPassword \/ PasswordReads \/ PasswordBegins \/ PasswordHandled
    \/ EndSessions \/ ChangeCommits \/ ChangeFails
    \/ \E r \in Requests :
          \/ ClickRevoke(r) \/ ServeRevoke(r) \/ RevokeHandled(r) \/ RevokeFails(r)
          \/ ClickSwitch(r) \/ SaveReads(r) \/ SaveWrites(r) \/ SaveSettles(r)
    \/ OtherLogin \/ OtherRevokes \/ OtherPassword \/ OtherSaves

Spec == Init /\ [][Next]_vars

-----------------------------------------------------------------------------
(* Properties. *)

(* The types of the rows and of the cache; an entry without a fetch under way has
   no answer on its way, and a row is locked only while a transaction ends. *)
TypeOK ==
    /\ row \in [Sessions -> {"none", "active", "ending", "revoked"}]
    /\ made \in [Sessions -> Nat] /\ password \in Nat /\ stored \in Values
    /\ change \in {"none", "updated", "ended"} /\ (Locked # {} => change = "ended")
    /\ sid \in Sessions \cup {None} /\ sentAs \in [Queries -> Sessions \cup {None}]
    /\ DOMAIN cache = Queries
    /\ \A q \in Queries :
          /\ cache[q].data \in Data(q) /\ cache[q].answer \in Data(q)
          /\ cache[q].answer # <<>> <=> cache[q].phase = "served"
          /\ cache[q].phase \in {"idle", "sent", "served", "refused"}
          /\ cache[q].invalid \in BOOLEAN /\ cache[q].failed \in BOOLEAN
    /\ page \in Pages /\ hovered \subseteq {"prefs", "active"}
    /\ auth.kind \in {"none", "login", "logout", "password"}
    /\ auth.phase \in {"sent", "checked", "changing", "served", "answered", "refused"}
    /\ auth.session \in Sessions \cup {None}
    /\ \A r \in Requests :
          /\ revoking[r].phase \in {"idle", "sent", "served", "refused"}
          /\ saves[r].phase \in {"idle", "sent", "read", "served", "refused"}
    /\ pending \in Requests \cup {None} /\ missed \subseteq Queries

(* The mutations of this tab that the entry does not show yet. *)
Underway(q) ==
    \/ auth # Idle
    \/ q \in Lists /\ \E r \in Requests : revoking[r].phase # "idle"
    \/ q = "prefs" /\ \E r \in Requests : saves[r].phase # "idle"

(* Login.tsx 41-48, security/page.tsx 140-145, preferences/page.tsx 23-46, useUserQuery:
   an entry of the cache that nobody is fetching and that is not marked to be fetched
   is what the server holds for the cookie of the browser, whatever the order in
   which logins, logouts, repeated revocations, overlapping saves, refetches and
   prefetches were served and answered.  Left out, by missed, until the query is
   fetched anew: what other devices did; the mutation or the fetch whose answer was
   lost; the entry of the user when the tab revoked its own session; a fetch that was
   answered before an invalidation that did not restart it; and a fetch sent with one
   cookie that the server answered when the browser had another. *)
ShownIsStored ==
    \A q \in Queries :
        cache[q].data # <<>> /\ cache[q].phase = "idle" /\ ~cache[q].invalid
            /\ q \notin missed /\ ~Underway(q) /\ (q = "user" \/ LoggedIn)
        => cache[q].data = <<Answer(q)>>

(* users.go 319-356: no session outlives two changes of the password, whatever logins,
   changes, roll backs and conflicts of versions overlapped.  It may outlive one, though
   ChangePasswordModal.tsx 61 promises to log the user out "from all your sessions": one
   that a login inserts after the sessions were revoked and before the transaction
   commits.  The next change revokes it. *)
NextChangeEndsIt == \A s \in Active : made[s] + 1 >= password

(* preferences/page.tsx 36-46, security/page.tsx 140-145, Login.tsx 41-48: what was
   invalidated, on the screen or off it, is being fetched whenever it is on the screen,
   unless a fetch since then failed to get it: no order of invalidations, cancelled
   fetches, prefetches and visits leaves the page with an entry that it knows to be old. *)
InvalidatedIsFetched ==
    \A q \in Observed : cache[q].invalid /\ ~cache[q].failed => cache[q].phase # "idle"

=============================================================================
