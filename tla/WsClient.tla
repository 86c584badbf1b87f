------------------------------ MODULE WsClient ------------------------------
(***************************************************************************)
(* The websocket client of a page (socket/socket.ts), its creation by      *)
(* WsProvider, and its use by the login and logout handlers, which decide  *)
(* for whom it speaks: the server takes the identity of a connection from  *)
(* the cookie sent with the handshake.                                     *)
(*                                                                         *)
(* getWSClient passes no options but the URL, so the number of attempts to *)
(* reconnect is not limited; the count of attempts sets the delay only.    *)
(***************************************************************************)
EXTENDS Naturals

CONSTANTS
    Users,
    Nobody,      \* a visitor: no session cookie
    Down,
    MaxEvents    \* bound: connections lost, logins, logouts and reloads

ASSUME WsAssumption ==
    /\ Nobody \notin Users /\ Down \notin Users \cup {Nobody}
    /\ MaxEvents \in Nat

VARIABLES
    client,   \* getWSClient has created the client
    ws,       \* this.ws: null, or the readyState of the socket
    timer,    \* reconnectTimer is set
    ident,    \* the cookie sent with the handshake of the socket
    cookie,   \* the cookie the browser holds
    login,    \* the login or logout under way
    events

wsVars == <<client, ws, timer, ident, cookie, login, events>>

WsTypeOK ==
    /\ client \in BOOLEAN
    /\ ws \in {"null", "connecting", "open", "closing"}
    /\ timer \in BOOLEAN
    /\ ident \in Users \cup {Nobody} /\ cookie \in Users \cup {Nobody}
    /\ login \in {"idle", "entering", "leaving", "failed"}
    /\ events \in 0..MaxEvents

WsInit ==
    /\ client = FALSE /\ ws = "null" /\ timer = FALSE
    /\ cookie \in Users \cup {Nobody} /\ ident = cookie
    /\ login = "idle" /\ events = 0

Event == events < MaxEvents /\ events' = events + 1

-----------------------------------------------------------------------------
(* The client. *)

ConnectOnce ==
    /\ ws' = "connecting"
    /\ ident' = cookie

(* The effect of WsProvider: getWSClient, whose constructor connects. *)
GetWSClient ==
    /\ ~client
    /\ client' = TRUE
    /\ ConnectOnce
    /\ UNCHANGED <<timer, cookie, login, events>>

HandleOpen ==
    /\ ws = "connecting"
    /\ ws' = "open"
    /\ UNCHANGED <<client, timer, ident, cookie, login, events>>

(* handleClose: the socket is gone and a reconnection is scheduled. *)
HandleClose ==
    /\ ws # "null"
    /\ IF ws = "closing" THEN UNCHANGED events ELSE Event
    /\ ws' = "null"
    /\ timer' = TRUE
    /\ UNCHANGED <<client, ident, cookie, login>>

(* The timer of scheduleReconnect: connectOnce, without a look at this.ws. *)
Reconnect ==
    /\ timer
    /\ timer' = FALSE
    /\ ConnectOnce
    /\ UNCHANGED <<client, cookie, login, events>>

(* disonnect: the socket is closed; its onclose comes later. *)
ReconnectAtOnce == ws' = "connecting" /\ ident' = cookie
NoDisonnect == UNCHANGED <<ws, ident>>
Disonnect ==
    /\ ws' = IF ws = "null" THEN "null" ELSE "closing"
    /\ UNCHANGED ident

-----------------------------------------------------------------------------
(* Logins and logouts. *)

(* login, register and completeProfile: the answer sets the cookie. *)
LoginAnswered ==
    /\ client /\ login = "idle" /\ cookie = Nobody /\ Event
    /\ cookie' \in Users
    /\ login' = "entering"
    /\ UNCHANGED <<client, ws, timer, ident>>

(* onSuccess *)
LoginHandled ==
    /\ login = "entering"
    /\ login' = "idle"
    /\ Disonnect
    /\ UNCHANGED <<client, timer, cookie, events>>

(* logout: the answer clears the cookie. *)
LogoutAnswered ==
    /\ client /\ login = "idle" /\ cookie # Nobody /\ Event
    /\ cookie' = Nobody
    /\ login' = "leaving"
    /\ UNCHANGED <<client, ws, timer, ident>>

(* The body of the answer is lost: onError, and the client is left alone. *)
AnswerLost ==
    /\ login \in {"entering", "leaving"}
    /\ login' = "failed"
    /\ UNCHANGED <<client, ws, timer, ident, cookie, events>>

(* The page is left or loaded anew; a logout that succeeded does so. *)
Reload ==
    /\ client
    /\ IF login = "leaving" THEN UNCHANGED events ELSE Event
    /\ client' = FALSE
    /\ ws' = "null" /\ timer' = FALSE
    /\ login' = "idle"
    /\ UNCHANGED <<ident, cookie>>

-----------------------------------------------------------------------------
WsNext ==
    \/ GetWSClient \/ HandleOpen \/ HandleClose \/ Reconnect
    \/ LoginAnswered \/ LoginHandled \/ LogoutAnswered \/ AnswerLost \/ Reload

WsSpec == WsInit /\ [][WsNext]_wsVars

-----------------------------------------------------------------------------
(* Properties. *)

(* socket.ts 65-130: connectOnce replaces this.ws without looking at it, and only
   handleClose schedules a reconnection.  The client always has exactly one of a
   socket and a reconnection timer: it never gives up, and it never holds two
   connections, which would deliver every push twice. *)
OneConnection ==
    IF client THEN (ws = "null") <=> timer ELSE ws = "null" /\ ~timer

(* Login.tsx 41-48, socket.ts 225-229: once a login was handled, the socket in use
   was opened with the cookie of the user, whatever the socket was doing when the
   login was answered; otherwise the pushes for the user would not come. *)
SpeaksForUser ==
    client /\ login = "idle" /\ ws \in {"connecting", "open"} => ident = cookie

(* The client keeps the promise of Link. *)
L == INSTANCE Link WITH
        user <- cookie,
        link <- IF ws \in {"connecting", "open"} THEN ident ELSE Down,
        settled <- login = "idle"
LinkSpec == L!Spec

=============================================================================
