--------------------------- MODULE AccountProofs ---------------------------
(***************************************************************************)
(* The account pages, for any number of sessions, preferences and events:  *)
(* no session outlives two changes of the password, what the tab shows     *)
(* without a fetch under way is what the server holds, and what it knows   *)
(* to be old is being fetched.                                             *)
(***************************************************************************)
EXTENDS Account, TLAPS

Statuses == {"none", "active", "ending", "revoked"}

(* Inductive: the rows of the sessions.  A row is locked only by a transaction that has
   revoked the sessions; what it did not revoke was inserted since, and what is good
   was made at most one change ago. *)
SessionsInv ==
    /\ row \in [Sessions -> Statuses]
    /\ made \in [Sessions -> Nat] /\ password \in Nat
    /\ change # "ended" => \A s \in Sessions : row[s] # "ending"
    /\ change = "ended" => \A s \in Sessions : row[s] = "active" => made[s] = password
    /\ NextChangeEndsIt

(* A session that the browser holds, or is about to, has a row: it was active once,
   and never is again once it was revoked. *)
HasRow ==
    /\ row \in [Sessions -> Statuses]
    /\ sid \in Sessions \cup {None} /\ (sid \in Sessions => row[sid] # "none")
    /\ auth.kind # "login" => auth.session = None
    /\ auth.phase = "changing" => auth.kind = "password"
    /\ auth.phase = "served" /\ auth.kind = "login" =>
          auth.session \in Sessions /\ row[auth.session] # "none"

(* The mutations are what the handlers make of them. *)
MutationTypes ==
    /\ DOMAIN auth = {"kind", "phase", "seen", "session"}
    /\ revoking = [r \in Requests |-> revoking[r]]
    /\ \A r \in Requests : DOMAIN revoking[r] = {"phase", "session", "as"}
    /\ saves = [r \in Requests |-> saves[r]]
    /\ \A r \in Requests : DOMAIN saves[r] = {"phase", "pref", "value", "as", "read"}

(* An entry of the query cache. *)
Entry(c) == DOMAIN c = {"data", "phase", "answer", "invalid", "failed"}
EntryTypes ==
    /\ cache = [q \in Queries |-> cache[q]]
    /\ \A q \in Queries : Entry(cache[q])

(* The server has done what the tab has not been told of: the entry is about to be
   invalidated. *)
Settling(q) ==
    \/ auth.phase \in {"served", "answered"}
    \/ q \in Lists /\ \E r \in Requests : revoking[r].phase = "served"
    \/ q = "prefs" /\ \E r \in Requests : saves[r].phase # "idle"

(* What the entry c of q holds, or is about to hold, is what the server has. *)
Good(c, q) ==
    /\ c.phase = "served" => c.answer = <<Answer(q)>>
    /\ c.phase = "idle" /\ c.data # <<>> /\ ~c.invalid => c.data = <<Answer(q)>>

(* What the tab may be held to. *)
Owed(q) == q \notin missed /\ ~Settling(q) /\ (q = "user" \/ LoggedIn)

Fresh == \A q \in Queries : Owed(q) => Good(cache[q], q)

(* Inductive: the cache of the tab. *)
CacheInv == HasRow /\ MutationTypes /\ EntryTypes /\ Fresh

-----------------------------------------------------------------------------
(* The sessions. *)

(* Only Insert makes a row active, with the password of the moment; what changes the
   password has revoked what was there when it locked the rows. *)
LEMMA SessionsStep == SessionsInv /\ [Next]_vars => SessionsInv'
<1> SUFFICES ASSUME SessionsInv, [Next]_vars
             PROVE  SessionsInv'
  OBVIOUS
<1> USE DEF SessionsInv, NextChangeEndsIt, Active, Statuses
<1>1. ASSUME UNCHANGED <<row, made, password>>, change' = change \/ (change = "none" /\ change' = "updated")
      PROVE  SessionsInv'
  BY <1>1
<1>2. ASSUME NEW s \in Sessions, row[s] = "none", Insert(s), UNCHANGED <<password, change>>
      PROVE  SessionsInv'
  BY <1>2 DEF Insert
<1>3. ASSUME NEW s, row' = [row EXCEPT ![s] = "revoked"], UNCHANGED <<made, password, change>>
      PROVE  SessionsInv'
  BY <1>3
<1>4. CASE EndSessions
  <2>1. /\ row' = [s \in Sessions |-> IF row[s] = "active" THEN "ending" ELSE row[s]]
        /\ change' = "ended" /\ UNCHANGED <<made, password>>
    BY <1>4 DEF EndSessions, EndAll
  <2>. QED
    BY <2>1
<1>5. CASE ChangeCommits
  <2>1. /\ row' = [s \in Sessions |-> IF row[s] = "ending" THEN "revoked" ELSE row[s]]
        /\ change = "ended" /\ change' = "none" /\ password' = password + 1 /\ UNCHANGED made
    BY <1>5 DEF ChangeCommits, Become
  <2>. QED
    BY <2>1
<1>6. CASE ChangeFails
  <2>1. /\ row' = [s \in Sessions |-> IF row[s] = "ending" THEN "active" ELSE row[s]]
        /\ change' = "none" /\ UNCHANGED <<made, password>>
    BY <1>6 DEF ChangeFails, Become
  <2>. QED
    BY <2>1
<1>7. CASE \E q \in Queries : Serve(q) \/ FetchDone(q) \/ FetchFails(q) \/ Hover(q)
  BY <1>1, <1>7 DEF Serve, FetchDone, FetchFails, Hover, server
<1>8. CASE (\E p \in Pages : Visit(p)) \/ Reload
  BY <1>1, <1>8 DEF Visit, Reload, server
<1>9. CASE LoginCreates \/ OtherLogin
  BY <1>2, <1>9 DEF LoginCreates, OtherLogin
<1>10. CASE ClickLogin \/ LoginChecks \/ CookieSet \/ LoginHandled \/ AuthFails
  BY <1>1, <1>10 DEF ClickLogin, LoginChecks, CookieSet, LoginHandled, AuthFails, server
<1>11. CASE ClickLogout \/ LogoutHandled \/ ClickPassword \/ PasswordReads \/ PasswordHandled
  BY <1>1, <1>11 DEF ClickLogout, LogoutHandled, ClickPassword, PasswordReads, PasswordHandled, server
<1>12. CASE ServeLogout
  BY <1>1, <1>3, <1>12 DEF ServeLogout
<1>13. CASE PasswordBegins \/ OtherPassword
  BY <1>1, <1>13 DEF PasswordBegins, OtherPassword
<1>14. ASSUME NEW r \in Requests,
              ClickRevoke(r) \/ ServeRevoke(r) \/ RevokeHandled(r) \/ RevokeFails(r)
       PROVE  SessionsInv'
  BY <1>1, <1>3, <1>14 DEF ClickRevoke, ServeRevoke, RevokeHandled, RevokeFails, server
<1>15. CASE \E r \in Requests : ClickSwitch(r) \/ SaveReads(r) \/ SaveWrites(r) \/ SaveSettles(r)
  BY <1>1, <1>15 DEF ClickSwitch, SaveReads, SaveWrites, SaveSettles, server
<1>16. CASE OtherRevokes
  BY <1>3, <1>16 DEF OtherRevokes
<1>17. CASE OtherSaves \/ UNCHANGED vars
  BY <1>1, <1>17 DEF OtherSaves, vars
<1>. QED
  BY <1>4, <1>5, <1>6, <1>7, <1>8, <1>9, <1>10, <1>11, <1>12, <1>13, <1>14, <1>15, <1>16, <1>17
  DEF Next

(* UserRepo.ChangePassword, a transaction whose statements interleave with logins: a
   session that was inserted too late to be revoked by one change is revoked by the
   next, for any number of sessions and of changes that were conflicting, rolled back
   or committed. *)
THEOREM NoOldSession == Spec => []NextChangeEndsIt
<1>1. Init => SessionsInv
  BY DEF Init, SessionsInv, NextChangeEndsIt, Active, Statuses
<1>2. SessionsInv => NextChangeEndsIt
  BY DEF SessionsInv
<1>. QED
  BY <1>1, <1>2, SessionsStep, PTL DEF Spec

-----------------------------------------------------------------------------
(* The cache. *)

(* An entry that shows and brings nothing that would have to be true. *)
Vacant(c) == c.phase # "served" /\ ~(c.phase = "idle" /\ c.data # <<>> /\ ~c.invalid)

(* The operations make entries of entries. *)
LEMMA EntryOps ==
    ASSUME NEW c, Entry(c), NEW stale, NEW observed
    PROVE  /\ Entry(Fetching(c)) /\ Vacant(Fetching(c))
           /\ Entry(Answered(c)) /\ Entry(Failed(c)) /\ Entry(Mounted(c, stale))
           /\ Answered(c).data = c.answer /\ Answered(c).phase = "idle"
           /\ Mounted(c, stale) = c \/ Vacant(Mounted(c, stale))
           /\ Entry(Invalidated(c, observed))
           /\ Restarts(c, observed) \/ c.phase # "served" => Vacant(Invalidated(c, observed))
           /\ Entry(NoEntry) /\ Vacant(NoEntry)
           /\ Entry(Fetching(NoEntry)) /\ Vacant(Fetching(NoEntry))
<1>1. Entry(NoEntry) /\ Vacant(NoEntry)
  BY DEF Entry, Vacant, NoEntry
<1>2. ASSUME NEW d, Entry(d)
      PROVE  Entry(Fetching(d)) /\ Vacant(Fetching(d)) /\ Entry(Marked(d))
             /\ Marked(d).phase = d.phase /\ Marked(d).invalid
  BY <1>2 DEF Entry, Vacant, Fetching, Marked
<1>3. /\ Entry(Answered(c)) /\ Answered(c).data = c.answer /\ Answered(c).phase = "idle"
  BY DEF Entry, Answered, NoEntry
<1>4. Entry(Failed(c))
  BY DEF Entry, Failed
<1>5. Entry(Mounted(c, stale)) /\ (Mounted(c, stale) = c \/ Vacant(Mounted(c, stale)))
  BY <1>2 DEF Mounted
<1>6. Entry(Invalidated(c, observed))
  BY <1>2 DEF Invalidated
<1>7. ASSUME Restarts(c, observed) \/ c.phase # "served"
      PROVE  Vacant(Invalidated(c, observed))
  <2>1. CASE Restarts(c, observed)
    BY <1>2, <2>1 DEF Invalidated
  <2>2. CASE ~Restarts(c, observed) /\ c.phase # "served"
    BY <1>2, <2>2 DEF Invalidated, Vacant
  <2>. QED
    BY <1>7, <2>1, <2>2
<1>. QED
  BY <1>1, <1>2, <1>3, <1>4, <1>5, <1>6, <1>7

(* After an invalidation the entry holds nothing that would have to be true, unless an
   answer that was served before it is on its way. *)
LEMMA InvalidateVacates ==
    ASSUME EntryTypes, NEW qs, InvalidateQueries(qs)
    PROVE  /\ EntryTypes' /\ missed \subseteq missed'
           /\ \A q \in Queries \cap qs : q \in missed' \/ Vacant(cache'[q])
           /\ \A q \in Queries \ qs : cache'[q] = cache[q]
<1>1. \A q \in Queries : Entry(cache[q])
  BY DEF EntryTypes, Entry
<1>2. /\ cache' = [q \in Queries |->
            IF q \in qs THEN Invalidated(cache[q], q \in Observed) ELSE cache[q]]
      /\ missed' = missed \cup
            {q \in qs : ~Restarts(cache[q], q \in Observed) /\ cache[q].phase = "served"}
  BY DEF InvalidateQueries
<1>3. \A q \in Queries : Entry(cache'[q])
  BY <1>1, <1>2, EntryOps
<1>4. EntryTypes'
  BY <1>2, <1>3 DEF EntryTypes, Entry
<1>5. \A q \in Queries \cap qs : q \in missed' \/ Vacant(cache'[q])
  BY <1>1, <1>2, EntryOps
<1>. QED
  BY <1>2, <1>4, <1>5

(* An entry is kept good by a step that leaves it alone, if the step only ever asks
   for less, or vacates it. *)
LEMMA GoodStays ==
    ASSUME Fresh, NEW q \in Queries,
           \/ Vacant(cache'[q])
           \/ cache'[q] = cache[q] /\ (Owed(q)' => Owed(q) /\ Answer(q)' = Answer(q))
           \/ ~Owed(q)'
    PROVE  (Owed(q) => Good(cache[q], q))'
<1>1. CASE Vacant(cache'[q])
  BY <1>1 DEF Vacant, Good
<1>2. CASE cache'[q] = cache[q] /\ (Owed(q)' => Owed(q) /\ Answer(q)' = Answer(q))
  BY <1>2 DEF Fresh, Good
<1>. QED
  BY <1>1, <1>2

(* The rows read the same: what a transaction has not committed is not seen. *)
SameRows ==
    /\ Active' = Active
    /\ {t \in Sessions : row[t] = "revoked"}' = {t \in Sessions : row[t] = "revoked"}

(* What the server answers depends on the rows, the cookie and the preferences. *)
LEMMA SameAnswer ==
    ASSUME NEW q \in Queries, row' = row \/ SameRows, UNCHANGED sid, q = "prefs" => stored' = stored
    PROVE  Answer(q)' = Answer(q) /\ LoggedIn' = LoggedIn
<1>1. SameRows /\ LoggedIn' = LoggedIn
  BY DEF Active, LoggedIn, SameRows
<1>. QED
  BY <1>1 DEF Answer, Reply, Queries, Lists, SameRows, LoggedIn

(* The page is loaded anew: nothing is shown yet. *)
LEMMA LoadVacates ==
    ASSUME NEW p, Load(p)
    PROVE  EntryTypes' /\ MutationTypes' /\ \A q \in Queries : Vacant(cache'[q])
<1>1. cache' = [q \in Queries |-> IF Shows(p, q) THEN Fetching(NoEntry) ELSE NoEntry]
  BY DEF Load, Loaded
<1>2. /\ Entry(NoEntry) /\ Vacant(NoEntry)
      /\ Entry(Fetching(NoEntry)) /\ Vacant(Fetching(NoEntry))
  BY DEF Entry, Vacant, NoEntry, Fetching
<1>3. EntryTypes' /\ \A q \in Queries : Vacant(cache'[q])
  BY <1>1, <1>2 DEF EntryTypes, Entry
<1>4. MutationTypes'
  BY DEF Load, MutationTypes, Idle, Sent, NoRevokes, NoRevoke, NoSaves, NoSave
<1>. QED
  BY <1>3, <1>4

(* A step that changes nothing on the server, and only ever vacates or doubts entries. *)
LEMMA FreshQuiet ==
    ASSUME Fresh, row' = row \/ SameRows, UNCHANGED <<sid, stored>>,
           \A q \in Queries :
               \/ Vacant(cache'[q]) \/ q \in missed' \/ Settling(q)'
               \/ cache'[q] = cache[q] /\ (q \in missed => q \in missed')
                                       /\ (Settling(q) => Settling(q)')
    PROVE  Fresh'
<1>1. SUFFICES ASSUME NEW q \in Queries
               PROVE  (Owed(q) => Good(cache[q], q))'
  BY DEF Fresh
<1>2. Answer(q)' = Answer(q) /\ LoggedIn' = LoggedIn
  BY SameAnswer
<1>. QED
  BY <1>2, GoodStays DEF Owed

(* The requests that log in and out and change the password. *)
LEMMA AuthStep ==
    ASSUME CacheInv,
           \/ ClickLogin \/ LoginChecks \/ LoginCreates \/ CookieSet \/ LoginHandled \/ AuthFails
           \/ ClickLogout \/ ServeLogout \/ LogoutHandled
           \/ ClickPassword \/ PasswordReads \/ PasswordBegins \/ PasswordHandled
           \/ EndSessions \/ ChangeCommits \/ ChangeFails
    PROVE  CacheInv'
<1> DEFINE Fields == {"kind", "phase", "seen", "session"}
<1>0. HasRow /\ MutationTypes /\ EntryTypes /\ Fresh
  BY DEF CacheInv
<1>a. row \in [Sessions -> Statuses] /\ DOMAIN auth = Fields
  BY <1>0 DEF HasRow, MutationTypes
(* A step that changes auth and nothing that is read on the server or in the cache. *)
<1>1. ASSUME row' = row \/ SameRows, UNCHANGED <<sid, stored, cache, revoking, saves, missed>>,
             auth.phase \in {"served", "answered"} => auth'.phase \in {"served", "answered"},
             DOMAIN auth' = Fields, HasRow'
      PROVE  CacheInv'
  <2>1. \A q \in Queries : Settling(q) => Settling(q)'
    BY <1>1 DEF Settling
  <2>2. Fresh'
    BY <1>0, <1>1, <2>1, FreshQuiet
  <2>. QED
    BY <1>0, <1>1, <2>2 DEF CacheInv, MutationTypes, EntryTypes
(* The server has done it: every entry is about to be invalidated. *)
<1>2. ASSUME auth'.phase \in {"served", "answered"} \/ missed' = Queries, DOMAIN auth' = Fields,
             HasRow', UNCHANGED <<cache, revoking, saves>>
      PROVE  CacheInv'
  <2>1. Fresh'
    BY <1>2 DEF Fresh, Owed, Settling
  <2>. QED
    BY <1>0, <1>2, <2>1 DEF CacheInv, MutationTypes, EntryTypes
(* The page is loaded anew. *)
<1>3. ASSUME NEW p, Load(p), UNCHANGED <<row, sid>>
      PROVE  CacheInv'
  <2>1. EntryTypes' /\ MutationTypes' /\ \A q \in Queries : Vacant(cache'[q])
    BY <1>3, LoadVacates
  <2>2. Fresh'
    BY <1>0, <2>1, GoodStays DEF Fresh
  <2>3. HasRow'
    <3>1. auth'.phase = "sent" /\ auth'.session = None
      BY <1>3 DEF Load, Idle, Sent
    <3>. QED
      BY <1>0, <1>3, <3>1 DEF HasRow
  <2>. QED
    BY <2>1, <2>2, <2>3 DEF CacheInv
<1>4. CASE ClickLogin \/ ClickLogout \/ ClickPassword
  <2>1. /\ UNCHANGED <<row, sid, stored, cache, revoking, saves, missed>> /\ auth = Idle
        /\ \E kind \in {"login", "logout", "password"} : auth' = Sent(kind)
    BY <1>4 DEF ClickLogin, ClickLogout, ClickPassword, server, fetches
  <2>2. /\ auth.phase = "sent" /\ auth'.phase = "sent" /\ auth'.session = None
        /\ DOMAIN auth' = Fields
    BY <2>1 DEF Idle, Sent
  <2>3. HasRow'
    BY <1>0, <2>1, <2>2 DEF HasRow
  <2>. QED
    BY <1>1, <2>1, <2>2, <2>3
<1>5. CASE LoginChecks \/ PasswordReads \/ PasswordBegins
  <2>1. /\ UNCHANGED <<row, sid, stored, cache, revoking, saves, missed>>
        /\ auth.phase \in {"sent", "checked"}
        /\ auth' \in {[auth EXCEPT !.phase = "checked", !.seen = password],
                      [auth EXCEPT !.phase = "changing"], [auth EXCEPT !.phase = "refused"]}
        /\ auth' = [auth EXCEPT !.phase = "changing"] => auth.kind = "password"
    BY <1>a, <1>5 DEF LoginChecks, PasswordReads, PasswordBegins, server, fetches
  <2>2. /\ auth'.phase \in {"checked", "changing", "refused"} /\ DOMAIN auth' = Fields
        /\ auth'.kind = auth.kind /\ auth'.session = auth.session
        /\ auth'.phase = "changing" => auth.kind = "password"
    BY <1>a, <2>1
  <2>3. HasRow'
    BY <1>0, <2>1, <2>2 DEF HasRow
  <2>. QED
    BY <1>1, <2>1, <2>2, <2>3
<1>6. CASE LoginCreates
  <2>1. PICK s \in Sessions : /\ row[s] = "none" /\ Insert(s)
                              /\ auth' = [auth EXCEPT !.phase = "served", !.session = s]
    BY <1>6 DEF LoginCreates
  <2>2. /\ auth'.phase = "served" /\ auth'.session = s /\ auth'.kind = "login"
        /\ DOMAIN auth' = Fields
    BY <1>6, <1>a, <2>1 DEF LoginCreates
  <2>3. UNCHANGED <<sid, cache, revoking, saves>>
    BY <1>6 DEF LoginCreates, fetches
  <2>4. HasRow'
    BY <1>0, <2>1, <2>2, <2>3 DEF HasRow, Insert, Statuses
  <2>. QED
    BY <1>2, <2>2, <2>3, <2>4
<1>7. CASE CookieSet
  <2>1. /\ auth.kind \in {"login", "logout"} /\ auth.phase = "served" /\ sid' = auth.session
        /\ auth' = [auth EXCEPT !.phase = "answered"] /\ UNCHANGED <<row, cache, revoking, saves>>
    BY <1>7 DEF CookieSet, server, fetches
  <2>2. /\ auth'.phase = "answered" /\ DOMAIN auth' = Fields
        /\ auth'.kind = auth.kind /\ auth'.session = auth.session
    BY <1>a, <2>1
  <2>3. HasRow'
    BY <1>0, <2>1, <2>2, AccountAssumption DEF HasRow
  <2>. QED
    BY <1>2, <2>1, <2>2, <2>3
<1>8. CASE LoginHandled
  <2>1. auth' = Idle /\ InvalidateQueries(Queries) /\ UNCHANGED <<row, sid, revoking, saves>>
    BY <1>8 DEF LoginHandled, server
  <2>2. /\ EntryTypes' /\ \A q \in Queries : q \in missed' \/ Vacant(cache'[q])
    BY <1>0, <2>1, InvalidateVacates
  <2>3. Fresh'
    BY <1>0, <2>2, GoodStays DEF Fresh, Owed
  <2>4. HasRow' /\ MutationTypes'
    BY <1>0, <2>1 DEF HasRow, MutationTypes, Idle, Sent
  <2>. QED
    BY <2>2, <2>3, <2>4 DEF CacheInv
<1>9. CASE AuthFails
  <2>1. /\ UNCHANGED <<row, sid, stored, cache, revoking, saves>> /\ auth' = Idle
        /\ missed' = IF auth.phase \in {"served", "answered"} THEN Queries ELSE missed
    BY <1>9 DEF AuthFails, server, fetches
  <2>2. /\ auth'.phase = "sent" /\ auth'.session = None /\ DOMAIN auth' = Fields
    BY <2>1 DEF Idle, Sent
  <2>3. HasRow'
    BY <1>0, <2>1, <2>2 DEF HasRow
  <2>. QED
    BY <1>1, <1>2, <2>1, <2>2, <2>3
<1>10. CASE ServeLogout
  <2>1. UNCHANGED <<sid, stored, cache, revoking, saves, missed>> /\ auth.phase = "sent"
        /\ auth.kind = "logout"
    BY <1>10 DEF ServeLogout, fetches
  <2>2. \/ row' = [row EXCEPT ![sid] = "revoked"] /\ auth' = [auth EXCEPT !.phase = "served"]
        \/ row' = row /\ auth' = [auth EXCEPT !.phase = "refused"]
    BY <1>10 DEF ServeLogout
  <2>3. /\ DOMAIN auth' = Fields /\ auth'.kind = auth.kind /\ auth'.session = auth.session
        /\ auth'.phase = "served" \/ (auth'.phase = "refused" /\ row' = row)
    BY <1>a, <2>2
  <2>4. HasRow'
    BY <1>0, <2>1, <2>2, <2>3 DEF HasRow, Statuses
  <2>. QED
    BY <1>1, <1>2, <2>1, <2>3, <2>4
<1>11. CASE LogoutHandled \/ PasswordHandled
  BY <1>3, <1>11 DEF LogoutHandled, PasswordHandled, server
<1>12. CASE EndSessions
  <2>1. /\ row' = [s \in Sessions |-> IF row[s] = "active" THEN "ending" ELSE row[s]]
        /\ UNCHANGED <<sid, stored, cache, auth, revoking, saves, missed>>
    BY <1>12 DEF EndSessions, EndAll, fetches
  <2>2. SameRows
    BY <1>a, <2>1 DEF SameRows, Active, Statuses
  <2>3. HasRow'
    BY <1>0, <2>1 DEF HasRow, Statuses
  <2>. QED
    BY <1>1, <1>a, <2>1, <2>2, <2>3
<1>13. CASE ChangeCommits
  <2>1. /\ row' = [s \in Sessions |-> IF row[s] = "ending" THEN "revoked" ELSE row[s]]
        /\ UNCHANGED <<sid, stored, cache, revoking, saves>>
        /\ \/ auth.phase = "changing" /\ auth' = [auth EXCEPT !.phase = "served"]
           \/ missed' = Queries /\ auth' = auth
    BY <1>13 DEF ChangeCommits, Become, fetches
  <2>2. /\ DOMAIN auth' = Fields /\ auth'.kind = auth.kind /\ auth'.session = auth.session
        /\ \/ auth'.phase = "served"
           \/ missed' = Queries
    BY <1>a, <2>1
  <2>3. auth'.phase = auth.phase \/ auth.kind # "login"
    <3>1. auth.phase = "changing" => auth.kind = "password"
      BY <1>0 DEF HasRow
    <3>. QED
      BY <2>1, <3>1
  <2>4. HasRow'
    BY <1>0, <2>1, <2>2, <2>3 DEF HasRow, Statuses
  <2>. QED
    BY <1>2, <2>1, <2>2, <2>4
<1>14. CASE ChangeFails
  <2>1. /\ row' = [s \in Sessions |-> IF row[s] = "ending" THEN "active" ELSE row[s]]
        /\ UNCHANGED <<sid, stored, cache, revoking, saves, missed>>
        /\ \/ auth.phase = "changing" /\ auth' = [auth EXCEPT !.phase = "refused"]
           \/ auth' = auth
    BY <1>14 DEF ChangeFails, Become, fetches
  <2>2. /\ DOMAIN auth' = Fields /\ auth'.kind = auth.kind /\ auth'.session = auth.session
        /\ auth'.phase = auth.phase \/ (auth.phase = "changing" /\ auth'.phase = "refused")
    BY <1>a, <2>1
  <2>3. SameRows
    BY <1>a, <2>1 DEF SameRows, Active, Statuses
  <2>4. HasRow'
    BY <1>0, <2>1, <2>2 DEF HasRow, Statuses
  <2>. QED
    BY <1>1, <2>1, <2>2, <2>3, <2>4
<1>. QED
  BY <1>4, <1>5, <1>6, <1>7, <1>8, <1>9, <1>10, <1>11, <1>12, <1>13, <1>14

(* Fetching, and moving between the pages. *)
LEMMA FetchStep ==
    ASSUME CacheInv,
           \/ \E q \in Queries : Serve(q) \/ FetchDone(q) \/ FetchFails(q) \/ Hover(q)
           \/ \E p \in Pages : Visit(p)
           \/ Reload
    PROVE  CacheInv'
<1>0. HasRow /\ MutationTypes /\ EntryTypes /\ Fresh
  BY DEF CacheInv
<1>a. cache = [q \in Queries |-> cache[q]] /\ \A q \in Queries : Entry(cache[q])
  BY <1>0 DEF EntryTypes
<1>1. ASSUME UNCHANGED <<row, sid, auth, revoking, saves>>
      PROVE  HasRow' /\ MutationTypes' /\ \A q \in Queries : Settling(q)' <=> Settling(q)
  BY <1>0, <1>1 DEF HasRow, MutationTypes, Settling
<1>2. ASSUME NEW q \in Queries, Serve(q)
      PROVE  CacheInv'
  <2>1. /\ UNCHANGED <<row, stored, sid, auth, revoking, saves>>
        /\ missed' = IF sentAs[q] = sid THEN missed \ {q} ELSE missed \cup {q}
    BY <1>2 DEF Serve, server
  <2> DEFINE reply == Reply(q, sentAs[q])
  <2>2. \/ cache' = [cache EXCEPT ![q].phase = "served", ![q].answer = <<reply>>]
        \/ cache' = [cache EXCEPT ![q].phase = "refused"]
    BY <1>2 DEF Serve
  <2>a. q \in missed' \/ reply = Answer(q)
    BY <2>1 DEF Answer
  <2> HIDE DEF reply
  <2>3. /\ cache' = [r \in Queries |-> cache'[r]] /\ \A r \in Queries : Entry(cache'[r])
        /\ \A r \in Queries : r # q => cache'[r] = cache[r]
        /\ \/ cache'[q].phase = "served" /\ cache'[q].answer = <<reply>>
           \/ cache'[q].phase = "refused"
    BY <1>a, <2>2 DEF Entry
  <2>4. ASSUME NEW r \in Queries
        PROVE  (Owed(r) => Good(cache[r], r))'
    <3>1. Answer(r)' = Answer(r) /\ LoggedIn' = LoggedIn
      BY <2>1, SameAnswer
    <3>2. CASE r = q
      BY <2>3, <2>a, <3>1, <3>2 DEF Good, Owed
    <3>3. CASE r # q
      BY <1>0, <1>1, <2>1, <2>3, <3>1, <3>3, GoodStays DEF Owed
    <3>. QED
      BY <3>2, <3>3
  <2>. QED
    BY <1>1, <2>1, <2>3, <2>4 DEF CacheInv, EntryTypes, Fresh
<1>3. ASSUME NEW q \in Queries, FetchDone(q)
      PROVE  CacheInv'
  <2>1. UNCHANGED <<row, stored, sid, auth, revoking, saves, missed>>
        /\ cache[q].phase = "served" /\ cache' = [cache EXCEPT ![q] = Answered(cache[q])]
    BY <1>3 DEF FetchDone, server
  <2>2. /\ cache' = [r \in Queries |-> cache'[r]] /\ \A r \in Queries : Entry(cache'[r])
        /\ \A r \in Queries : r # q => cache'[r] = cache[r]
        /\ cache'[q].phase = "idle" /\ cache'[q].data = cache[q].answer
    BY <1>a, <2>1, EntryOps
  <2>3. ASSUME NEW r \in Queries
        PROVE  (Owed(r) => Good(cache[r], r))'
    <3>1. Answer(r)' = Answer(r) /\ LoggedIn' = LoggedIn
      BY <2>1, SameAnswer
    <3>2. Owed(r)' => Owed(r)
      BY <1>1, <2>1, <3>1 DEF Owed
    <3>3. CASE r = q
      BY <1>0, <2>1, <2>2, <3>1, <3>2, <3>3 DEF Fresh, Good
    <3>4. CASE r # q
      BY <1>0, <2>2, <3>1, <3>2, <3>4, GoodStays
    <3>. QED
      BY <3>3, <3>4
  <2>. QED
    BY <1>1, <2>1, <2>2, <2>3 DEF CacheInv, EntryTypes, Fresh
<1>4. ASSUME NEW q \in Queries, FetchFails(q)
      PROVE  CacheInv'
  <2>1. UNCHANGED <<row, stored, sid, auth, revoking, saves>> /\ missed' = missed \cup {q}
        /\ cache' = [cache EXCEPT ![q] = Failed(cache[q])]
    BY <1>4 DEF FetchFails, server
  <2>2. /\ cache' = [r \in Queries |-> cache'[r]] /\ \A r \in Queries : Entry(cache'[r])
        /\ \A r \in Queries : r # q => cache'[r] = cache[r]
    BY <1>a, <2>1, EntryOps
  <2>3. Fresh'
    BY <1>0, <1>1, <2>1, <2>2, FreshQuiet
  <2>. QED
    BY <1>1, <2>1, <2>2, <2>3 DEF CacheInv, EntryTypes
(* What is mounted is fetched or left alone. *)
<1>5. ASSUME UNCHANGED <<row, stored, sid, auth, revoking, saves, missed>>,
             cache' = [r \in Queries |-> cache'[r]],
             \A r \in Queries : cache'[r] = cache[r] \/ \E stale \in BOOLEAN :
                 cache'[r] = Mounted(cache[r], stale)
      PROVE  CacheInv'
  <2>1. \A r \in Queries : Entry(cache'[r]) /\ (cache'[r] = cache[r] \/ Vacant(cache'[r]))
    BY <1>5, <1>a, EntryOps
  <2>2. Fresh'
    BY <1>0, <1>1, <1>5, <2>1, FreshQuiet
  <2>. QED
    BY <1>1, <1>5, <2>1, <2>2 DEF CacheInv, EntryTypes
<1>6. ASSUME NEW q \in Queries, Hover(q)
      PROVE  CacheInv'
  <2>1. PICK old \in BOOLEAN : cache' = [cache EXCEPT ![q] = Mounted(cache[q], old)]
    BY <1>6 DEF Hover
  <2>2. /\ cache' = [r \in Queries |-> cache'[r]] /\ cache'[q] = Mounted(cache[q], old)
        /\ \A r \in Queries : r # q => cache'[r] = cache[r]
    BY <1>a, <2>1
  <2>3. UNCHANGED <<row, stored, sid, auth, revoking, saves, missed>>
    BY <1>6 DEF Hover, server
  <2>. QED
    BY <1>5, <2>2, <2>3
<1>7. ASSUME NEW p \in Pages, Visit(p)
      PROVE  CacheInv'
  <2>1. PICK old \in BOOLEAN :
           cache' = [q \in Queries |->
                       IF Shows(p, q) THEN Mounted(cache[q], Stale(q, old)) ELSE cache[q]]
    BY <1>7 DEF Visit
  <2>2. \A q \in Queries : Stale(q, old) \in BOOLEAN
    BY DEF Stale
  <2>3. cache' = [r \in Queries |-> cache'[r]]
    BY <2>1
  <2>4. \A r \in Queries : cache'[r] = cache[r] \/ \E stale \in BOOLEAN :
           cache'[r] = Mounted(cache[r], stale)
    BY <2>1, <2>2
  <2>5. UNCHANGED <<row, stored, sid, auth, revoking, saves, missed>>
    BY <1>7 DEF Visit, server
  <2>. QED
    BY <1>5, <2>3, <2>4, <2>5
<1>8. CASE Reload
  <2>1. PICK p : Load(p)
    BY <1>8 DEF Reload
  <2>2. EntryTypes' /\ MutationTypes' /\ \A q \in Queries : Vacant(cache'[q])
    BY <2>1, LoadVacates
  <2>3. Fresh'
    BY <1>0, <2>2, GoodStays DEF Fresh
  <2>4. HasRow'
    <3>1. auth'.phase = "sent" /\ auth'.session = None /\ UNCHANGED <<row, sid>>
      BY <1>8, <2>1 DEF Reload, Load, Idle, Sent, server
    <3>. QED
      BY <1>0, <3>1 DEF HasRow
  <2>. QED
    BY <2>2, <2>3, <2>4 DEF CacheInv
<1>. QED
  BY <1>2, <1>3, <1>4, <1>6, <1>7, <1>8

(* Revoking a session. *)
LEMMA RevokeStep ==
    ASSUME CacheInv, NEW r \in Requests,
           ClickRevoke(r) \/ ServeRevoke(r) \/ RevokeHandled(r) \/ RevokeFails(r)
    PROVE  CacheInv'
<1>0. HasRow /\ MutationTypes /\ EntryTypes /\ Fresh
  BY DEF CacheInv
<1>a. /\ revoking = [t \in Requests |-> revoking[t]]
      /\ \A t \in Requests : DOMAIN revoking[t] = {"phase", "session", "as"}
  BY <1>0 DEF MutationTypes
<1>1. /\ UNCHANGED <<sid, stored, auth, saves>>
      /\ revoking' = [revoking EXCEPT ![r] = revoking'[r]]
      /\ DOMAIN revoking'[r] = {"phase", "session", "as"}
  BY <1>a DEF ClickRevoke, ServeRevoke, RevokeHandled, RevokeFails, NoRevoke, server
<1>2. MutationTypes'
  BY <1>0, <1>1 DEF MutationTypes
<1>3. \A q \in Queries \ Lists : Settling(q)' <=> Settling(q)
  BY <1>1 DEF Settling
<1>4. HasRow'
  <2>1. row' = row \/ \E s : row' = [row EXCEPT ![s] = "revoked"]
    BY DEF ClickRevoke, ServeRevoke, RevokeHandled, RevokeFails, server
  <2>. QED
    BY <1>0, <1>1, <2>1 DEF HasRow, Statuses
<1>5. CASE ClickRevoke(r)
  <2>1. UNCHANGED <<row, cache, missed>> /\ revoking[r].phase = "idle"
    BY <1>5 DEF ClickRevoke, server, fetches
  <2>2. \A q \in Queries : Settling(q) => Settling(q)'
    BY <1>1, <1>a, <2>1 DEF Settling
  <2>3. Fresh'
    BY <1>0, <1>1, <2>1, <2>2, FreshQuiet
  <2>. QED
    BY <1>0, <1>2, <1>4, <2>1, <2>3 DEF CacheInv, EntryTypes
<1>6. CASE ServeRevoke(r)
  <2> DEFINE s == revoking[r].session
  <2>1. /\ revoking[r].phase = "sent" /\ cache' = cache
        /\ missed' = IF s = sid THEN missed \cup {"user"} ELSE missed
    BY <1>6 DEF ServeRevoke, fetches
  <2>2. \/ row' = row /\ revoking' = [revoking EXCEPT ![r].phase = "refused"]
        \/ row' = [row EXCEPT ![s] = "revoked"] /\ revoking' = [revoking EXCEPT ![r].phase = "served"]
    BY <1>6 DEF ServeRevoke
  <2> HIDE DEF s
  <2>3. CASE row' = row /\ revoking' = [revoking EXCEPT ![r].phase = "refused"]
    <3>1. \A q \in Queries : Settling(q) => Settling(q)'
      BY <1>1, <1>a, <2>1, <2>3 DEF Settling
    <3>2. Fresh'
      BY <1>0, <1>1, <2>1, <2>3, <3>1, FreshQuiet
    <3>. QED
      BY <1>0, <1>2, <1>4, <2>1, <3>2 DEF CacheInv, EntryTypes
  <2>4. CASE /\ row' = [row EXCEPT ![s] = "revoked"]
             /\ revoking' = [revoking EXCEPT ![r].phase = "served"]
    <3>1. \A q \in Lists : Settling(q)'
      BY <1>a, <2>4 DEF Settling
    <3>2. Active' \subseteq Active /\ (s # sid => (LoggedIn' <=> LoggedIn))
      BY <1>0, <1>1, <2>4 DEF LoggedIn, Active, HasRow
    <3>3. LoggedIn' => LoggedIn
      BY <1>1, <3>2 DEF LoggedIn
    <3>4. ASSUME NEW q \in Queries
          PROVE  (Owed(q) => Good(cache[q], q))'
      <4>1. CASE q \in Lists
        BY <3>1, <4>1 DEF Owed
      <4>2. CASE q = "prefs"
        <5>1. Answer(q)' = Answer(q)
          BY <1>1, <4>2 DEF Answer, Reply
        <5>2. Owed(q)' => Owed(q)
          BY <1>3, <2>1, <3>3, <4>2 DEF Owed, Lists
        <5>. QED
          BY <1>0, <2>1, <5>1, <5>2, GoodStays
      <4>3. CASE q = "user"
        <5>1. s # sid => Answer(q)' = Answer(q)
          BY <1>1, <3>2, <4>3 DEF Answer, Reply, LoggedIn
        <5>2. Owed(q)' => Owed(q) /\ s # sid
          BY <1>3, <2>1, <4>3 DEF Owed, Lists
        <5>. QED
          BY <1>0, <2>1, <5>1, <5>2, GoodStays
      <4>. QED
        BY <4>1, <4>2, <4>3 DEF Queries
    <3>. QED
      BY <1>0, <1>2, <1>4, <2>1, <3>4 DEF CacheInv, EntryTypes, Fresh
  <2>. QED
    BY <2>2, <2>3, <2>4
<1>7. CASE RevokeHandled(r)
  <2>1. UNCHANGED row /\ InvalidateQueries(Lists)
    BY <1>7 DEF RevokeHandled, server
  <2>2. /\ EntryTypes' /\ missed \subseteq missed'
        /\ \A q \in Queries \cap Lists : q \in missed' \/ Vacant(cache'[q])
        /\ \A q \in Queries \ Lists : cache'[q] = cache[q]
    BY <1>0, <2>1, InvalidateVacates
  <2>3. Fresh'
    BY <1>0, <1>1, <1>3, <2>1, <2>2, FreshQuiet
  <2>. QED
    BY <1>2, <1>4, <2>2, <2>3 DEF CacheInv
<1>8. CASE RevokeFails(r)
  <2>1. /\ UNCHANGED <<row, cache>> /\ revoking' = [revoking EXCEPT ![r] = NoRevoke]
        /\ missed' = IF revoking[r].phase = "served" THEN missed \cup Lists ELSE missed
    BY <1>8 DEF RevokeFails, server, fetches
  <2>2. ASSUME NEW q \in Lists
        PROVE  q \in missed' \/ (Settling(q) => Settling(q)')
    BY <1>1, <1>a, <2>1 DEF Settling
  <2>3. \A q \in Queries : q \in missed' \/ (Settling(q) => Settling(q)')
    BY <1>3, <2>2
  <2>4. Fresh'
    BY <1>0, <1>1, <2>1, <2>3, FreshQuiet
  <2>. QED
    BY <1>0, <1>2, <1>4, <2>1, <2>4 DEF CacheInv, EntryTypes
<1>. QED
  BY <1>5, <1>6, <1>7, <1>8

(* Saving a preference. *)
LEMMA SaveStep ==
    ASSUME CacheInv, NEW t \in Requests,
           ClickSwitch(t) \/ SaveReads(t) \/ SaveWrites(t) \/ SaveSettles(t)
    PROVE  CacheInv'
<1>0. HasRow /\ MutationTypes /\ EntryTypes /\ Fresh
  BY DEF CacheInv
<1> DEFINE Fields == {"phase", "pref", "value", "as", "read"}
<1>a. saves = [r \in Requests |-> saves[r]] /\ \A r \in Requests : DOMAIN saves[r] = Fields
  BY <1>0 DEF MutationTypes
<1>b. cache = [q \in Queries |-> cache[q]] /\ \A q \in Queries : Entry(cache[q])
  BY <1>0 DEF EntryTypes
<1>1. UNCHANGED <<row, sid, auth, revoking>>
  BY DEF ClickSwitch, SaveReads, SaveWrites, SaveSettles, server
<1>2. HasRow' /\ \A q \in Queries : q # "prefs" => (Settling(q)' <=> Settling(q))
  BY <1>0, <1>1 DEF HasRow, Settling
<1>3. ASSUME MutationTypes', EntryTypes', missed \subseteq missed',
             \A q \in Queries : q # "prefs" => cache'[q] = cache[q],
             Settling("prefs")' \/ "prefs" \in missed' \/ Vacant(cache'["prefs"])
      PROVE  CacheInv'
  <2>1. ASSUME NEW q \in Queries
        PROVE  (Owed(q) => Good(cache[q], q))'
    <3>1. CASE q = "prefs"
      BY <1>0, <1>3, <3>1, GoodStays DEF Owed
    <3>2. CASE q # "prefs"
      <4>1. Answer(q)' = Answer(q) /\ LoggedIn' = LoggedIn
        BY <1>1, <3>2, SameAnswer
      <4>2. Owed(q)' => Owed(q)
        BY <1>2, <1>3, <3>2, <4>1 DEF Owed
      <4>. QED
        BY <1>0, <1>3, <3>2, <4>1, <4>2, GoodStays
    <3>. QED
      BY <3>1, <3>2
  <2>. QED
    BY <1>2, <1>3, <2>1 DEF CacheInv, Fresh
<1>4. CASE ClickSwitch(t)
  <2>0. PICK p \in Prefs :
           LET value == ~cache["prefs"].data[1][p]
           IN  /\ cache' = [cache EXCEPT !["prefs"] =
                              [Cancelled(@) EXCEPT !.data[1][p] = value, !.invalid = FALSE]]
               /\ saves' = [saves EXCEPT ![t] = [NoSave EXCEPT !.phase = "sent", !.pref = p,
                                                               !.value = value, !.as = sid]]
    BY <1>4 DEF ClickSwitch
  <2> DEFINE value == ~cache["prefs"].data[1][p]
             c == [Cancelled(cache["prefs"]) EXCEPT !.data[1][p] = value, !.invalid = FALSE]
             m == [NoSave EXCEPT !.phase = "sent", !.pref = p, !.value = value, !.as = sid]
  <2>1. /\ cache' = [cache EXCEPT !["prefs"] = c] /\ missed' = missed
        /\ saves' = [saves EXCEPT ![t] = m]
    BY <1>4, <2>0 DEF ClickSwitch
  <2>2. Entry(c)
    <3>1. "prefs" \in Queries
      BY DEF Queries
    <3>2. Entry(Cancelled(cache["prefs"]))
      BY <1>b, <3>1 DEF Entry, Cancelled
    <3>. QED
      BY <3>2 DEF Entry
  <2>a. DOMAIN m = Fields /\ m.phase = "sent"
    BY DEF NoSave
  <2> HIDE DEF value, c, m
  <2>3. /\ \A q \in Queries : q # "prefs" => cache'[q] = cache[q]
        /\ cache' = [q \in Queries |-> cache'[q]] /\ \A q \in Queries : Entry(cache'[q])
    BY <1>b, <2>1, <2>2
  <2>4. /\ saves' = [r \in Requests |-> saves'[r]] /\ saves'[t].phase = "sent"
        /\ \A r \in Requests : DOMAIN saves'[r] = Fields
    BY <1>a, <2>1, <2>a
  <2>5. Settling("prefs")'
    BY <2>4 DEF Settling
  <2>6. MutationTypes' /\ EntryTypes'
    BY <1>0, <1>1, <2>3, <2>4 DEF MutationTypes, EntryTypes
  <2>. QED
    BY <1>3, <2>1, <2>3, <2>5, <2>6
<1>5. CASE SaveReads(t) \/ SaveWrites(t)
  <2>1. /\ UNCHANGED <<cache, missed>>
        /\ \/ saves' = [saves EXCEPT ![t].phase = "read", ![t].read = stored]
           \/ saves' = [saves EXCEPT ![t].phase = "refused"]
           \/ saves' = [saves EXCEPT ![t].phase = "served"]
    BY <1>5 DEF SaveReads, SaveWrites, fetches
  <2>2. /\ saves' = [r \in Requests |-> saves'[r]] /\ saves'[t].phase # "idle"
        /\ \A r \in Requests : DOMAIN saves'[r] = Fields
    BY <1>a, <2>1
  <2>3. Settling("prefs")'
    BY <2>2 DEF Settling
  <2>4. MutationTypes' /\ EntryTypes'
    BY <1>0, <1>1, <2>1, <2>2 DEF MutationTypes, EntryTypes
  <2>. QED
    BY <1>3, <2>1, <2>3, <2>4
<1>6. CASE SaveSettles(t)
  <2>1. saves' = [saves EXCEPT ![t] = NoSave] /\ InvalidateQueries({"prefs"})
    BY <1>6 DEF SaveSettles, Settled
  <2>2. /\ EntryTypes' /\ missed \subseteq missed'
        /\ \A q \in Queries \cap {"prefs"} : q \in missed' \/ Vacant(cache'[q])
        /\ \A q \in Queries \ {"prefs"} : cache'[q] = cache[q]
    BY <1>0, <2>1, InvalidateVacates
  <2>3. DOMAIN NoSave = Fields
    BY DEF NoSave
  <2>4. /\ saves' = [r \in Requests |-> saves'[r]]
        /\ \A r \in Requests : DOMAIN saves'[r] = Fields
    BY <1>a, <2>1, <2>3
  <2>5. MutationTypes'
    BY <1>0, <1>1, <2>4 DEF MutationTypes
  <2>6. "prefs" \in Queries
    BY DEF Queries
  <2>. QED
    BY <1>3, <2>2, <2>5, <2>6
<1>. QED
  BY <1>4, <1>5, <1>6

(* The other devices. *)
LEMMA OtherStep ==
    ASSUME CacheInv, OtherLogin \/ OtherRevokes \/ OtherPassword \/ OtherSaves
    PROVE  CacheInv'
<1>0. HasRow /\ MutationTypes /\ EntryTypes /\ Fresh
  BY DEF CacheInv
<1>1. UNCHANGED <<sid, cache, auth, revoking, saves>>
  BY DEF OtherLogin, OtherRevokes, OtherPassword, OtherSaves, fetches
<1>2. MutationTypes' /\ EntryTypes' /\ \A q \in Queries : Settling(q)' <=> Settling(q)
  BY <1>0, <1>1 DEF MutationTypes, EntryTypes, Settling
<1>3. CASE OtherLogin
  <2>1. PICK s \in Sessions : row[s] = "none" /\ Insert(s)
    BY <1>3 DEF OtherLogin
  <2>2. missed' = missed \cup Lists /\ stored' = stored
    BY <1>3 DEF OtherLogin
  <2>3. HasRow'
    BY <1>0, <1>1, <2>1 DEF HasRow, Insert, Statuses
  <2>4. LoggedIn' <=> LoggedIn
    BY <1>0, <1>1, <2>1 DEF HasRow, Insert, LoggedIn, Active
  <2>5. ASSUME NEW q \in Queries
        PROVE  (Owed(q) => Good(cache[q], q))'
    <3>1. CASE q \in Lists
      BY <2>2, <3>1 DEF Owed
    <3>2. CASE q \in {"user", "prefs"}
      <4>1. Answer(q)' = Answer(q)
        BY <2>2, <2>4, <3>2 DEF Answer, Reply, LoggedIn
      <4>2. Owed(q)' => Owed(q)
        BY <1>2, <2>2, <2>4 DEF Owed
      <4>. QED
        BY <1>0, <1>1, <4>1, <4>2, GoodStays
    <3>. QED
      BY <3>1, <3>2 DEF Queries
  <2>. QED
    BY <1>2, <2>3, <2>5 DEF CacheInv, Fresh
<1>4. CASE OtherRevokes
  <2>1. Fresh'
    BY <1>4 DEF OtherRevokes, Fresh, Owed
  <2>2. \E s \in Sessions : row' = [row EXCEPT ![s] = "revoked"]
    BY <1>4 DEF OtherRevokes, Active
  <2>3. HasRow'
    BY <1>0, <1>1, <2>2 DEF HasRow, Statuses
  <2>. QED
    BY <1>2, <2>1, <2>3 DEF CacheInv
<1>6. CASE OtherPassword
  <2>1. UNCHANGED <<row, stored, missed>>
    BY <1>6 DEF OtherPassword
  <2>2. Fresh'
    BY <1>0, <1>1, <1>2, <2>1, FreshQuiet
  <2>3. HasRow'
    BY <1>0, <1>1, <2>1 DEF HasRow
  <2>. QED
    BY <1>2, <2>2, <2>3 DEF CacheInv
<1>5. CASE OtherSaves
  <2>1. missed' = missed \cup {"prefs"} /\ row' = row
    BY <1>5 DEF OtherSaves
  <2>2. HasRow'
    BY <1>0, <1>1, <2>1 DEF HasRow
  <2>3. ASSUME NEW q \in Queries
        PROVE  (Owed(q) => Good(cache[q], q))'
    <3>1. CASE q = "prefs"
      BY <2>1, <3>1 DEF Owed
    <3>2. CASE q # "prefs"
      <4>1. Answer(q)' = Answer(q) /\ LoggedIn' = LoggedIn
        BY <1>1, <2>1, <3>2, SameAnswer
      <4>2. Owed(q)' => Owed(q)
        BY <1>2, <2>1, <4>1 DEF Owed
      <4>. QED
        BY <1>0, <1>1, <4>1, <4>2, GoodStays
    <3>. QED
      BY <3>1, <3>2
  <2>. QED
    BY <1>2, <2>2, <2>3 DEF CacheInv, Fresh
<1>. QED
  BY <1>3, <1>4, <1>5, <1>6

(* Every step keeps the cache fresh. *)
LEMMA CacheStep == CacheInv /\ [Next]_vars => CacheInv'
<1> SUFFICES ASSUME CacheInv, [Next]_vars
             PROVE  CacheInv'
  OBVIOUS
<1>1. CASE UNCHANGED vars
  <2>1. UNCHANGED <<row, sid, stored, cache, auth, revoking, saves, missed>>
    BY <1>1 DEF vars
  <2>2. \A q \in Queries : Settling(q)' <=> Settling(q)
    BY <2>1 DEF Settling
  <2>3. Fresh'
    BY <2>1, <2>2, FreshQuiet DEF CacheInv
  <2>. QED
    BY <2>1, <2>3 DEF CacheInv, HasRow, MutationTypes, EntryTypes
<1>. QED
  BY <1>1, AuthStep, FetchStep, RevokeStep, SaveStep, OtherStep DEF Next

(* A tab that was just loaded shows nothing yet. *)
LEMMA CacheInit == Init => CacheInv
<1> SUFFICES ASSUME Init
             PROVE  CacheInv
  OBVIOUS
<1>1. cache = [q \in Queries |-> IF Shows(page, q) THEN Fetching(NoEntry) ELSE NoEntry]
  BY DEF Init, Loaded
<1>2. /\ Entry(NoEntry) /\ Vacant(NoEntry)
      /\ Entry(Fetching(NoEntry)) /\ Vacant(Fetching(NoEntry))
  BY DEF Entry, Vacant, NoEntry, Fetching
<1>3. EntryTypes /\ \A q \in Queries : Vacant(cache[q])
  BY <1>1, <1>2 DEF EntryTypes
<1>4. Fresh
  BY <1>3 DEF Fresh, Good, Vacant
<1>5. MutationTypes
  BY DEF Init, MutationTypes, Idle, Sent, NoRevokes, NoRevoke, NoSaves, NoSave
<1>6. HasRow
  <2>1. auth.phase = "sent" /\ auth.session = None
    BY DEF Init, Idle, Sent
  <2>2. row \in [Sessions -> {"none", "active"}]
    BY DEF Init
  <2>3. sid = None \/ (sid \in Sessions /\ row[sid] = "active")
    BY <2>2 DEF Init, Active
  <2>4. row \in [Sessions -> Statuses]
    BY <2>2 DEF Statuses
  <2>5. sid \in Sessions \cup {None} /\ (sid \in Sessions => row[sid] # "none")
    BY <2>3, AccountAssumption
  <2>. QED
    BY <2>1, <2>4, <2>5 DEF HasRow
<1>. QED
  BY <1>3, <1>4, <1>5, <1>6 DEF CacheInv

(* Login.tsx, security/page.tsx, preferences/page.tsx: an entry that nobody is fetching
   and that is not marked is what the server holds, in whatever order logins,
   logouts, repeated revocations, overlapping saves, fetches and prefetches were
   served and answered, but for what missed leaves out (see ShownIsStored). *)
THEOREM ShownIsTrue == Spec => []ShownIsStored
<1>1. CacheInv => ShownIsStored
  <2>1. SUFFICES ASSUME CacheInv, NEW q \in Queries,
                        cache[q].data # <<>>, cache[q].phase = "idle", ~cache[q].invalid,
                        q \notin missed, ~Underway(q), q = "user" \/ LoggedIn
                 PROVE  cache[q].data = <<Answer(q)>>
    BY DEF ShownIsStored
  <2>2. Idle.phase = "sent"
    BY DEF Idle, Sent
  <2>3. ~Settling(q)
    BY <2>1, <2>2 DEF Underway, Settling
  <2>. QED
    BY <2>1, <2>3 DEF CacheInv, Fresh, Owed, Good
<1>. QED
  BY <1>1, CacheInit, CacheStep, PTL DEF Spec

-----------------------------------------------------------------------------
(* What was invalidated. *)

(* The entry is not one that is known to be old and left so. *)
Attended(c) == c.invalid /\ ~c.failed => c.phase # "idle"

(* What the operations leave attended. *)
LEMMA AttendedOps ==
    ASSUME NEW c, Entry(c), NEW stale
    PROVE  /\ Attended(Fetching(c)) /\ Attended(Answered(c)) /\ Attended(Failed(c))
           /\ Attended(Mounted(c, stale)) /\ Attended(Invalidated(c, TRUE))
           /\ Attended(NoEntry) /\ Attended(Fetching(NoEntry))
<1>1. ASSUME NEW d, Entry(d)
      PROVE  /\ Fetching(d).phase = "sent"
             /\ Entry(Marked(d)) /\ Marked(d).phase = d.phase
  BY <1>1 DEF Entry, Fetching, Marked
<1>2. Entry(NoEntry) /\ ~NoEntry.invalid
  BY DEF Entry, NoEntry
<1>3. ~Answered(c).invalid
  BY DEF Answered, NoEntry
<1>4. Failed(c).failed
  BY DEF Failed, Entry
<1>5. Attended(Mounted(c, stale))
  <2>1. CASE c.phase = "idle" /\ (c.data = <<>> \/ c.invalid \/ stale)
    BY <1>1, <2>1 DEF Mounted, Attended
  <2>2. CASE ~(c.phase = "idle" /\ (c.data = <<>> \/ c.invalid \/ stale))
    BY <2>2 DEF Mounted, Attended
  <2>. QED
    BY <2>1, <2>2
<1>6. Attended(Invalidated(c, TRUE))
  BY <1>1 DEF Invalidated, Restarts, Attended
<1>. QED
  BY <1>1, <1>2, <1>3, <1>4, <1>5, <1>6 DEF Attended

(* An invalidation leaves nothing that the page shows unattended. *)
LEMMA InvalidateAttends ==
    ASSUME EntryTypes, InvalidatedIsFetched, NEW qs, InvalidateQueries(qs), UNCHANGED page
    PROVE  InvalidatedIsFetched'
<1>1. \A q \in Queries : Entry(cache[q])
  BY DEF EntryTypes, Entry
<1>2. \A q \in Observed : q \in Queries /\ Attended(cache[q])
  BY DEF InvalidatedIsFetched, Attended, Observed
<1>3. \A q \in Queries :
        cache'[q] = IF q \in qs THEN Invalidated(cache[q], q \in Observed) ELSE cache[q]
  BY DEF InvalidateQueries
<1>4. ASSUME NEW q \in Observed
      PROVE  Attended(cache'[q])
  <2>1. CASE q \in qs
    <3>1. cache'[q] = Invalidated(cache[q], TRUE)
      BY <1>2, <1>3, <2>1
    <3>. QED
      BY <1>1, <1>2, <3>1, AttendedOps
  <2>2. CASE q \notin qs
    BY <1>2, <1>3, <2>2
  <2>. QED
    BY <2>1, <2>2
<1>5. Observed' = Observed
  BY DEF Observed
<1>. QED
  BY <1>4, <1>5 DEF InvalidatedIsFetched, Attended

(* Nor does a tab that is loaded anew. *)
LEMMA LoadAttends ==
    ASSUME NEW p, Load(p)
    PROVE  InvalidatedIsFetched'
<1>1. \A q \in Queries : cache'[q] = IF Shows(p, q) THEN Fetching(NoEntry) ELSE NoEntry
  BY DEF Load, Loaded
<1>2. Entry(NoEntry)
  BY DEF Entry, NoEntry
<1>3. \A q \in Queries : Attended(cache'[q])
  BY <1>1, <1>2, AttendedOps
<1>. QED
  BY <1>3 DEF InvalidatedIsFetched, Attended, Observed

LEMMA FetchedStep == CacheInv /\ InvalidatedIsFetched /\ [Next]_vars => InvalidatedIsFetched'
<1> SUFFICES ASSUME CacheInv, InvalidatedIsFetched, [Next]_vars
             PROVE  InvalidatedIsFetched'
  OBVIOUS
<1>1. /\ EntryTypes /\ cache = [q \in Queries |-> cache[q]]
      /\ \A q \in Queries : Entry(cache[q])
  BY DEF CacheInv, EntryTypes, Entry
<1>2. \A q \in Observed : Attended(cache[q])
  BY DEF InvalidatedIsFetched, Attended
<1>3. ASSUME UNCHANGED <<cache, page>>
      PROVE  InvalidatedIsFetched'
  BY <1>3 DEF InvalidatedIsFetched, Observed
<1>4. ASSUME UNCHANGED page, NEW q \in Queries, NEW c, cache' = [cache EXCEPT ![q] = c], Attended(c)
      PROVE  InvalidatedIsFetched'
  <2>1. \A r \in Observed : Attended(cache'[r])
    BY <1>1, <1>2, <1>4 DEF Observed
  <2>2. Observed' = Observed
    BY <1>4 DEF Observed
  <2>. QED
    BY <2>1, <2>2 DEF InvalidatedIsFetched, Attended
<1>5. ASSUME NEW q \in Queries, Serve(q)
      PROVE  InvalidatedIsFetched'
  <2>1. UNCHANGED page
    BY <1>5 DEF Serve, view
  <2>2. PICK c : cache' = [cache EXCEPT ![q] = c] /\ c.phase # "idle"
    <3>1. CASE cache' = [cache EXCEPT ![q].phase = "served", ![q].answer = <<Reply(q, sentAs[q])>>]
      <4>. DEFINE d == [[cache[q] EXCEPT !.phase = "served"] EXCEPT !.answer = <<Reply(q, sentAs[q])>>]
      <4>1. cache' = [cache EXCEPT ![q] = d]
        BY <1>1, <3>1
      <4>2. d.phase = "served"
        BY <1>1 DEF Entry
      <4>. QED
        BY <4>1, <4>2
    <3>2. CASE cache' = [cache EXCEPT ![q].phase = "refused"]
      <4>1. [cache[q] EXCEPT !.phase = "refused"].phase = "refused"
        BY <1>1 DEF Entry
      <4>. QED
        BY <3>2, <4>1
    <3>. QED
      BY <1>5, <3>1, <3>2 DEF Serve
  <2>. QED
    BY <1>4, <2>1, <2>2 DEF Attended
<1>6. ASSUME NEW q \in Queries, FetchDone(q) \/ FetchFails(q) \/ Hover(q)
      PROVE  InvalidatedIsFetched'
  <2>1. UNCHANGED page
    BY <1>6 DEF FetchDone, FetchFails, Hover, view
  <2>2. PICK c : cache' = [cache EXCEPT ![q] = c] /\ Attended(c)
    <3>1. CASE FetchDone(q) \/ FetchFails(q)
      BY <1>1, <3>1, AttendedOps DEF FetchDone, FetchFails
    <3>2. CASE Hover(q)
      <4>1. PICK old \in BOOLEAN : cache' = [cache EXCEPT ![q] = Mounted(cache[q], old)]
        BY <3>2 DEF Hover
      <4>. QED
        BY <1>1, <4>1, AttendedOps
    <3>. QED
      BY <1>6, <3>1, <3>2
  <2>. QED
    BY <1>4, <2>1, <2>2
<1>7. ASSUME NEW p \in Pages, Visit(p)
      PROVE  InvalidatedIsFetched'
  <2>1. PICK old \in BOOLEAN : \A q \in Queries :
           Shows(p, q) => cache'[q] = Mounted(cache[q], Stale(q, old))
    BY <1>7 DEF Visit
  <2>2. \A q \in Queries : Shows(p, q) => Attended(cache'[q])
    BY <1>1, <2>1, AttendedOps
  <2>3. page' = p
    BY <1>7 DEF Visit
  <2>. QED
    BY <2>2, <2>3 DEF InvalidatedIsFetched, Attended, Observed
<1>8. CASE Reload \/ LogoutHandled \/ PasswordHandled
  BY <1>8, LoadAttends DEF Reload, LogoutHandled, PasswordHandled
<1>9. CASE LoginHandled
  <2>1. InvalidateQueries(Queries) /\ page' = "home"
    BY <1>9 DEF LoginHandled
  <2>2. cache'["user"] = Invalidated(cache["user"], TRUE)
    BY <2>1 DEF InvalidateQueries, Queries, Observed, Shows
  <2>3. Attended(cache'["user"])
    BY <1>1, <2>2, AttendedOps DEF Queries
  <2>4. Observed' = {"user"}
    BY <2>1 DEF Observed, Shows, Queries, Lists
  <2>. QED
    BY <2>3, <2>4 DEF InvalidatedIsFetched, Attended
<1>10. ASSUME NEW r \in Requests, RevokeHandled(r) \/ SaveSettles(r)
       PROVE  InvalidatedIsFetched'
  <2>1. UNCHANGED page /\ \E qs : InvalidateQueries(qs)
    BY <1>10 DEF RevokeHandled, SaveSettles, Settled, view
  <2>. QED
    BY <1>1, <2>1, InvalidateAttends
<1>11. ASSUME NEW r \in Requests, ClickSwitch(r)
       PROVE  InvalidatedIsFetched'
  <2>1. PICK x, v : cache' = [cache EXCEPT !["prefs"] =
                       [Cancelled(cache["prefs"]) EXCEPT !.data[1][x] = v, !.invalid = FALSE]]
    BY <1>11 DEF ClickSwitch
  <2>2. ASSUME NEW d, Entry(d)
        PROVE  ~[d EXCEPT !.data[1][x] = v, !.invalid = FALSE].invalid
    BY <2>2 DEF Entry
  <2>3. Entry(Cancelled(cache["prefs"]))
    BY <1>1 DEF Entry, Cancelled, Queries
  <2>4. UNCHANGED page
    BY <1>11 DEF ClickSwitch, view
  <2>5. "prefs" \in Queries
    BY DEF Queries
  <2>. QED
    BY <1>4, <2>1, <2>2, <2>3, <2>4, <2>5 DEF Attended
<1>12. CASE \/ ClickLogin \/ LoginChecks \/ LoginCreates \/ CookieSet \/ AuthFails
            \/ ClickLogout \/ ServeLogout
            \/ ClickPassword \/ PasswordReads \/ PasswordBegins
            \/ EndSessions \/ ChangeCommits \/ ChangeFails
  BY <1>3, <1>12 DEF ClickLogin, LoginChecks, LoginCreates, CookieSet, AuthFails, ClickLogout,
     ServeLogout, ClickPassword, PasswordReads, PasswordBegins, EndSessions, ChangeCommits,
     ChangeFails, fetches, view
<1>13. ASSUME NEW r \in Requests, ClickRevoke(r) \/ ServeRevoke(r) \/ RevokeFails(r)
                                  \/ SaveReads(r) \/ SaveWrites(r)
       PROVE  InvalidatedIsFetched'
  BY <1>3, <1>13 DEF ClickRevoke, ServeRevoke, RevokeFails, SaveReads, SaveWrites, fetches, view
<1>14. CASE OtherLogin \/ OtherRevokes \/ OtherPassword \/ OtherSaves \/ UNCHANGED vars
  BY <1>3, <1>14 DEF OtherLogin, OtherRevokes, OtherPassword, OtherSaves, vars, fetches, view
<1>. QED
  BY <1>5, <1>6, <1>7, <1>8, <1>9, <1>10, <1>11, <1>12, <1>13, <1>14 DEF Next

(* preferences/page.tsx, security/page.tsx, Login.tsx: what was invalidated is being
   fetched whenever the page shows it, unless a fetch failed, for any order of
   invalidations, cancelled fetches, prefetches and visits. *)
THEOREM MarkedIsFetched == Spec => []InvalidatedIsFetched
<1>1. Init => InvalidatedIsFetched
  <2> SUFFICES ASSUME Init
               PROVE  InvalidatedIsFetched
    OBVIOUS
  <2>1. \A q \in Queries : cache[q] = IF Shows(page, q) THEN Fetching(NoEntry) ELSE NoEntry
    BY DEF Init, Loaded
  <2>2. Entry(NoEntry)
    BY DEF Entry, NoEntry
  <2>3. \A q \in Queries : Attended(cache[q])
    BY <2>1, <2>2, AttendedOps
  <2>. QED
    BY <2>3 DEF InvalidatedIsFetched, Attended, Observed
<1>. QED
  BY <1>1, CacheInit, CacheStep, FetchedStep, PTL DEF Spec
=============================================================================
