-------------------------------- MODULE Link --------------------------------
(***************************************************************************)
(* What the websocket client promises to the rest of the page: the page    *)
(* has at most one link to the server, the link is established as the user *)
(* whose cookie the browser holds then, and once a login or a logout was   *)
(* handled no link of the former user is in use.                           *)
(***************************************************************************)
CONSTANTS Users, Nobody, Down

VARIABLES
    user,     \* whose cookie the browser holds
    link,     \* whom the link in use speaks for, or Down
    settled   \* no login or logout is being handled

vars == <<user, link, settled>>

Init == user \in Users \cup {Nobody} /\ link = Down /\ settled = TRUE

Up ==
    /\ link = Down
    /\ link' = user
    /\ UNCHANGED <<user, settled>>

Lose ==
    /\ link' = Down
    /\ UNCHANGED <<user, settled>>

(* The cookie changes; the link in use is that of the former user. *)
Change ==
    /\ user' \in Users \cup {Nobody}
    /\ settled' = FALSE
    /\ UNCHANGED link

(* The change was handled. *)
Settle ==
    /\ link' = Down
    /\ settled' = TRUE
    /\ UNCHANGED user

Next == Up \/ Lose \/ Change \/ Settle

Spec == Init /\ [][Next]_vars

=============================================================================
