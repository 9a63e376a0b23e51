-------------------------------- MODULE Sessions --------------------------------
(***************************************************************************)
(* The sessions of one user: login, refresh with rotation, replay, logout   *)
(* and the operator's edit of the user (routers/auth.py, update_user of     *)
(* routers/admin.py) against the check every request makes                  *)
(* (get_current_user of dependencies.py).                                   *)
(*                                                                          *)
(* A session is a row of refresh_session and the two tokens made with it.   *)
(* refresh locks the row it was given until it commits.  The others lock    *)
(* what they update, which a session flushes before its next query, and an  *)
(* UPDATE of a locked row waits.                                            *)
(***************************************************************************)
EXTENDS Naturals, FiniteSets, Nulls

CONSTANTS
    MaxSessions,    \* bound of the model
    MaxEdits,       \* bound of the model on edits of the user that end sessions
    Requests

ASSUME SessionsAssumption == MaxSessions \in Nat \ {0} /\ MaxEdits \in Nat /\ None \notin Nat

Ids == 1..MaxSessions

VARIABLES
    user,       \* active, and how many edits have ended its sessions (history)
    session,    \* rows: state, parent; the login they descend from and the edits
                \* before it (history)
    request,    \* requests under way
    escaped,    \* sessions made while others were read to be revoked (history)
    ended       \* logins that were logged out or replayed (history)

sessionVars == <<user, session, request, escaped, ended>>

Absent == [state |-> "absent", from |-> None, login |-> None, edits |-> 0]
NoRequest == [at |-> "idle"]

SessionsInit ==
    /\ user = [active |-> TRUE, edits |-> 0]
    /\ session = [s \in Ids |-> Absent]
    /\ request = [r \in Requests |-> NoRequest]
    /\ escaped = [edits |-> {}, walks |-> {}]
    /\ ended = {}

Rows == {s \in Ids : session[s].state # "absent"}
Live == {s \in Ids : session[s].state = "live"}
Fresh == Cardinality(Rows) + 1
Doing(r, at) == request[r].at = at
Go(r, next) == request' = [request EXCEPT ![r] = next]

\* The sessions of one login.
Family(s) == {t \in Rows : session[t].login = session[s].login}

\* The rows the transaction of r has locked.
Held(r) == CASE Doing(r, "refresh") -> {request[r].of} [] Doing(r, "walk") -> request[r].held [] OTHER -> {}
Locked(r, S) == \E q \in Requests \ {r} : Held(q) \cap S # {}

-----------------------------------------------------------------------------
(* login, and register for the first session *)

\* Verifies the password, then commits.
BeginLogin(r) ==
    /\ Doing(r, "idle") /\ user.active
    /\ Go(r, [at |-> "login", edits |-> user.edits])
    /\ UNCHANGED <<user, session, escaped, ended>>

Editing == \E q \in Requests : Doing(q, "edit")

Login(r) ==
    /\ Doing(r, "login") /\ Fresh \in Ids
    /\ session' = [session EXCEPT ![Fresh] =
                      [state |-> "live", from |-> None, login |-> Fresh, edits |-> request[r].edits]]
    /\ escaped' = IF Editing \/ request[r].edits # user.edits
                  THEN [escaped EXCEPT !.edits = @ \cup {Fresh}] ELSE escaped
    /\ Go(r, NoRequest)
    /\ UNCHANGED <<user, ended>>

-----------------------------------------------------------------------------
(* refresh *)

Walk(s, held) == [at |-> "walk", of |-> s, frontier |-> {s}, seen |-> {}, rows |-> {}, held |-> held]
Answer(s) == IF s \in Live THEN [at |-> "refresh", of |-> s, active |-> user.active] ELSE Walk(s, {s})

BeginRefreshUnlocked(r, s) ==
    /\ Doing(r, "idle") /\ s \in Rows
    /\ Go(r, Answer(s))
    /\ UNCHANGED <<user, session, escaped, ended>>
\* Locks the row of the token and reads the user.  A token whose row is revoked
\* is a replay.
BeginRefresh(r, s) ==
    /\ Doing(r, "idle") /\ s \in Rows /\ ~Locked(r, {s})
    /\ Go(r, Answer(s))
    /\ UNCHANGED <<user, session, escaped, ended>>

\* Somebody who revokes the family has read the children of s.
Walked(s) == \E q \in Requests : Doing(q, "walk") /\ s \in request[q].seen
Made(s, slipped) == IF slipped THEN {s} ELSE {}

\* Rotates: the row is revoked and a child made.
Refresh(r) ==
    /\ Doing(r, "refresh") /\ request[r].active /\ Fresh \in Ids
    /\ LET s == request[r].of IN
        /\ session' = [session EXCEPT ![s].state = "revoked",
                                      ![Fresh] = [session[s] EXCEPT !.state = "live", !.from = s]]
        /\ escaped' = [edits |-> escaped.edits \cup Made(Fresh, Editing \/ s \in escaped.edits),
                       walks |-> escaped.walks \cup Made(Fresh, Walked(s) \/ s \in escaped.walks)]
    /\ Go(r, NoRequest)
    /\ UNCHANGED <<user, ended>>

-----------------------------------------------------------------------------
(* _revoke_refresh_family, for a replay and for logout *)

BeginLogout(r, s) ==
    /\ Doing(r, "idle") /\ s \in Rows
    /\ Go(r, Walk(s, {}))
    /\ UNCHANGED <<user, session, escaped, ended>>

Children(S) == {t \in Rows : session[t].from \in S}

\* The revocations so far are flushed, and one query reads the frontier and its
\* children.  What is live of them is to be revoked.
Descend(r) ==
    /\ Doing(r, "walk") /\ request[r].frontier # {}
    /\ ~Locked(r, request[r].rows)
    /\ LET q == request[r]
           found == q.frontier \cup Children(q.frontier)
       IN Go(r, [q EXCEPT !.held = @ \cup q.rows, !.rows = @ \cup (found \cap Live),
                          !.seen = @ \cup q.frontier, !.frontier = (found \ q.seen) \ q.frontier])
    /\ UNCHANGED <<user, session, escaped, ended>>

RevokedRoot(rows) == [s \in Ids |-> IF s \in rows /\ session[s].from = None
                                    THEN [session[s] EXCEPT !.state = "revoked"] ELSE session[s]]
\* The commit waits for the rows that others have locked.
RevokedRows(rows) == [s \in Ids |-> IF s \in rows THEN [session[s] EXCEPT !.state = "revoked"] ELSE session[s]]
EndWalk(r) ==
    /\ Doing(r, "walk") /\ request[r].frontier = {}
    /\ ~Locked(r, request[r].rows)
    /\ session' = RevokedRows(request[r].rows)
    /\ ended' = ended \cup {session[request[r].of].login}
    /\ Go(r, NoRequest)
    /\ UNCHANGED <<user, escaped>>

-----------------------------------------------------------------------------
(* update_user: a new password, or active set or cleared *)

ToRevokeLogins == {s \in Live : session[s].from = None}
ToRevoke == Live

BeginEdit(r) ==
    /\ Doing(r, "idle") /\ user.edits < MaxEdits
    /\ Go(r, [at |-> "edit", rows |-> ToRevoke])
    /\ UNCHANGED <<user, session, escaped, ended>>

EndEdit(r) ==
    /\ Doing(r, "edit") /\ ~Locked(r, request[r].rows)
    /\ \E active \in {user.active, FALSE} : user' = [active |-> active, edits |-> user.edits + 1]
    /\ session' = RevokedRows(request[r].rows)
    /\ Go(r, NoRequest)
    /\ UNCHANGED <<escaped, ended>>

Reactivate ==
    /\ ~user.active
    /\ user' = [user EXCEPT !.active = TRUE]
    /\ UNCHANGED <<session, request, escaped, ended>>

\* An error or a lost connection: rolled back.
Abandon(r) ==
    /\ ~Doing(r, "idle")
    /\ Go(r, NoRequest)
    /\ UNCHANGED <<user, session, escaped, ended>>

SessionsNext ==
    \/ \E r \in Requests :
        \/ BeginLogin(r) \/ Login(r) \/ Refresh(r) \/ Descend(r) \/ EndWalk(r)
        \/ BeginEdit(r) \/ EndEdit(r) \/ Abandon(r)
        \/ \E s \in Ids : BeginRefresh(r, s) \/ BeginLogout(r, s)
    \/ Reactivate

SessionsSpec == SessionsInit /\ [][SessionsNext]_sessionVars

-----------------------------------------------------------------------------
(* Properties *)

SessionRow == [state : {"absent", "live", "revoked"}, from : Ids \cup {None}, login : Ids \cup {None}, edits : Nat]
Request ==
    {NoRequest} \cup [at : {"login"}, edits : Nat] \cup [at : {"refresh"}, of : Ids, active : BOOLEAN]
        \cup [at : {"walk"}, of : Ids, frontier : SUBSET Ids, seen : SUBSET Ids, rows : SUBSET Ids, held : SUBSET Ids]
        \cup [at : {"edit"}, rows : SUBSET Ids]

SessionsTypeOK ==
    /\ user \in [active : BOOLEAN, edits : Nat]
    /\ session \in [Ids -> SessionRow]
    /\ request \in [Requests -> Request]
    /\ escaped \in [edits : SUBSET Ids, walks : SUBSET Ids]
    /\ ended \subseteq Ids

\* Rotation, by however many tabs with the same or older tokens, leaves one
\* session of a login that can be used: every other token of it is a replay.
OneLivePerLogin == \A s \in Rows : Cardinality(Family(s) \cap Live) <= 1

\* After a logout or a replay no session of that login can be used again, save
\* one that a refresh made of a session after its children had been read.
EndedLoginIsOver == \A s \in Live : session[s].login \in ended => s \in escaped.walks

\* What get_current_user admits was logged in after the last time an operator
\* set a new password or deactivated the user, save a login or refresh that
\* overlapped with it.
Admitted(s) == s \in Live /\ user.active
AdmittedSinceEdit == \A s \in Ids : Admitted(s) => session[s].edits = user.edits \/ s \in escaped.edits
=============================================================================
