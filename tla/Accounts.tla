------------------------------- MODULE Accounts -------------------------------
(***************************************************************************)
(* Logging in, stepping up, logging out and opening a terminal: the users  *)
(* and sessions of AuthService (crates/sunbolt-auth/src/lib.rs) under the  *)
(* requests of routes/auth.rs, auth.rs and their two rate limiters.        *)
(*                                                                         *)
(* A request takes the mutex of the store or of a limiter several times    *)
(* and anything may happen in between, so req[c] records where the request *)
(* of caller c is and what it has read. A user is named by the normalised  *)
(* e-mail address, which never changes hands. Which user may open a        *)
(* terminal on which node is the subject of Permissions.                   *)
(***************************************************************************)
EXTENDS RateLimiter, Requests, Clock

CONSTANTS
    Email, Password,
    Token,        \* the values random_token can draw
    SessionTtl, RecentMfaTtl, RequireStepUp  \* AuthConfig

ASSUME AccountsAssumption ==
    SessionTtl \in Nat /\ RecentMfaTtl \in Nat /\ RequireStepUp \in BOOLEAN

VARIABLES
    users,      \* users_by_id and user_ids_by_email
    logins,     \* sessions_by_token
    bucket,     \* login_rate_limiter, mfa_rate_limiter and terminal_rate_limiter
    req,        \* the requests
    admitted,   \* history: the times of the attempts a limiter let pass
    seen        \* history: when a token was drawn, last stepped up, and whether it ended

accountVars == <<now, users, logins, bucket, req, admitted, seen>>

UserRole == {"Admin", "Operator", "Viewer"}
Account  == [role : UserRole, password : Password]
\* SessionRecord
SessionRecord ==
    [email : Email, expires : Nat, mfa : Time \cup {Absent}]
Request ==
    [pc : {"idle", "login", "logout", "mfa", "step_up", "terminal", "creating"},
     email : Email \cup {Absent}, word : Password \cup {Absent}, token : Token \cup {Absent}]
Limiter == {"login", "mfa", "terminal"}
Idle    == [pc |-> "idle", email |-> Absent, word |-> Absent, token |-> Absent]
Unseen  == [drawn |-> Absent, stepped |-> Absent, ended |-> FALSE]

AccountsTypeOK ==
    /\ now \in Time
    /\ users \in [Email -> Account \cup {Absent}]
    /\ logins \in [Token -> SessionRecord \cup {Absent}]
    /\ bucket \in [Limiter -> [Email -> Seq(Time)]]
    /\ req \in [Caller -> Request]
    /\ admitted \in [Limiter -> [Email -> Seq(Time)]]
    /\ seen \in [Token -> [drawn : Time \cup {Absent}, stepped : Time \cup {Absent}, ended : BOOLEAN]]

\* AuthStore::default
EmptyStore ==
    /\ users = [e \in Email |-> Absent]
    /\ logins = [t \in Token |-> Absent]

\* AuthService::new; a bootstrap administrator is UpsertUser's first step.
AccountsInit ==
    /\ now = 0
    /\ EmptyStore
    /\ bucket = [l \in Limiter |-> NewBuckets(Email)]
    /\ req = [c \in Caller |-> Idle]
    /\ admitted = bucket
    /\ seen = [t \in Token |-> Unseen]

-----------------------------------------------------------------------------
\* purge_expired_sessions_locked
Purged ==
    [t \in Token |-> IF logins[t] # Absent /\ logins[t].expires > now THEN logins[t] ELSE Absent]

\* logins becomes `new`; a token that loses its session has ended.
SetLogins(new) ==
    /\ logins' = new
    /\ seen' = [t \in Token |-> [seen[t] EXCEPT !.ended = @ \/ (logins[t] # Absent /\ new[t] = Absent)]]

At(c, pc)      == req[c].pc = pc
Goto(c, pc)    == req' = [req EXCEPT ![c].pc = pc]
Answer(c)      == req' = [req EXCEPT ![c] = Idle]

\* One limiter's check_and_record for key e; the request goes on to `pc` or is refused.
Limited(l, e, allow, refuse) ==
    \E o \in Outcomes(bucket[l][e], now) :
        /\ bucket' = [bucket EXCEPT ![l][e] = o.bucket]
        /\ IF o.allowed
           THEN /\ admitted' = [admitted EXCEPT ![l][e] = Append(@, now)]
                /\ allow
           ELSE UNCHANGED admitted /\ refuse

\* bootstrap_admin and upsert_user: sessions of the user are left as they are.
UpsertUser(e, p, r) ==
    /\ users' = [users EXCEPT ![e] = [role |-> r, password |-> p]]
    /\ UNCHANGED <<now, logins, bucket, req, admitted, seen>>

\* auth_login before the store is asked: any address counts, known or not.
LoginAttempt(c, e, p) ==
    /\ At(c, "idle")
    /\ Limited("login", e, req' = [req EXCEPT ![c] = [Idle EXCEPT !.pc = "login", !.email = e, !.word = p]],
               UNCHANGED req)
    /\ UNCHANGED <<now, users, logins, seen>>

\* A variant with a fault: the new session inherits the recency of an older one of the user.
LoginInheriting(c) ==
    LET e == req[c].email IN
    /\ At(c, "login")
    /\ IF users[e] # Absent /\ users[e].password = req[c].word
       THEN \E t \in Token :
              /\ seen[t] = Unseen
              /\ \E m \in {Absent} \cup {logins[u].mfa : u \in {v \in Token : logins[v] # Absent}} :
                    logins' = [logins EXCEPT ![t] = [email |-> e, expires |-> now + SessionTtl, mfa |-> m]]
              /\ seen' = [seen EXCEPT ![t].drawn = now]
       ELSE UNCHANGED <<logins, seen>>
    /\ Answer(c)
    /\ UNCHANGED <<now, users, bucket, admitted>>

\* login: a fresh token, no recent MFA; or the same answer for an unknown user and a wrong password.
Login(c) ==
    LET e == req[c].email IN
    /\ At(c, "login")
    /\ IF users[e] # Absent /\ users[e].password = req[c].word
       THEN \E t \in Token :
              /\ seen[t] = Unseen
              /\ logins' = [logins EXCEPT ![t] = [email |-> e, expires |-> now + SessionTtl, mfa |-> Absent]]
              /\ seen' = [seen EXCEPT ![t].drawn = now]
       ELSE UNCHANGED <<logins, seen>>
    /\ Answer(c)
    /\ UNCHANGED <<now, users, bucket, admitted>>

\* can_open_terminal
CanOpenTerminal(e) == users[e].role \in {"Admin", "Operator"}

\* current_user finds what is left after the purge.
CurrentSession(t) == Purged[t]

\* require_auth_middleware, and the head of authorize_terminal_request: the user that is found
\* is kept for the rest of the request.
Enter(c, t, pc) ==
    LET s == CurrentSession(t) IN
    /\ At(c, "idle")
    /\ SetLogins(Purged)
    /\ IF s # Absent /\ (pc = "terminal" => CanOpenTerminal(s.email))
       THEN req' = [req EXCEPT ![c] = [Idle EXCEPT !.pc = pc, !.email = s.email, !.token = t]]
       ELSE UNCHANGED req
    /\ UNCHANGED <<now, users, bucket, admitted>>

\* AuthService::logout
LoggedOut(t) == [logins EXCEPT ![t] = Absent]

\* auth_logout
Logout(c) ==
    /\ At(c, "logout")
    /\ SetLogins(LoggedOut(req[c].token))
    /\ Answer(c)
    /\ UNCHANGED <<now, users, bucket, admitted>>

\* auth_mfa_step_up up to the limiter's answer.
MfaAttempt(c) ==
    /\ At(c, "mfa")
    /\ Limited("mfa", req[c].email, Goto(c, "step_up"), Answer(c))
    /\ UNCHANGED <<now, users, logins, seen>>

\* A variant with a fault: the user was authenticated, so the session is written back.
StepUpReviving(c) ==
    LET t == req[c].token IN
    /\ At(c, "step_up")
    /\ logins' = [Purged EXCEPT ![t] =
                    [email |-> req[c].email, expires |-> now + SessionTtl, mfa |-> now]]
    /\ seen' = [u \in Token |-> [seen[u] EXCEPT !.ended = @ \/ (logins[u] # Absent /\ Purged[u] = Absent),
                                                !.stepped = IF u = t THEN now ELSE @]]
    /\ Answer(c)
    /\ UNCHANGED <<now, users, bucket, admitted>>

\* record_mfa_success: only a session that is still there is stepped up.
StepUp(c) ==
    LET t == req[c].token IN
    /\ At(c, "step_up")
    /\ logins' = [Purged EXCEPT ![t] = IF @ = Absent THEN @ ELSE [@ EXCEPT !.mfa = now]]
    /\ seen' = [u \in Token |->
                 [seen[u] EXCEPT !.ended = @ \/ (logins[u] # Absent /\ Purged[u] = Absent),
                                 !.stepped = IF u = t /\ Purged[t] # Absent THEN now ELSE @]]
    /\ Answer(c)
    /\ UNCHANGED <<now, users, bucket, admitted>>

\* has_recent_mfa
HasRecentMfa(t) ==
    /\ Purged[t] # Absent
    /\ Purged[t].mfa # Absent
    /\ now - Purged[t].mfa <= RecentMfaTtl

\* can_open_terminal_with_session, the end of authorize_terminal_request.
Authorize(c) ==
    /\ At(c, "terminal")
    /\ IF RequireStepUp => HasRecentMfa(req[c].token) THEN Goto(c, "creating") ELSE Answer(c)
    /\ SetLogins(IF RequireStepUp THEN Purged ELSE logins)
    /\ UNCHANGED <<now, users, bucket, admitted>>

\* terminal_creation_allowed in terminal_websocket; the upgraded connection is LocalTerminal's
\* and RemoteTerminal's subject.
CreationAttempt(c) ==
    /\ At(c, "creating")
    /\ Limited("terminal", req[c].email, Answer(c), Answer(c))
    /\ UNCHANGED <<now, users, logins, seen>>

Tick ==
    /\ ClockTicks
    /\ UNCHANGED <<users, logins, bucket, req, admitted, seen>>

AccountsNext ==
    \/ Tick
    \/ \E e \in Email, p \in Password, r \in UserRole : UpsertUser(e, p, r)
    \/ \E c \in Caller :
        \/ \E e \in Email, p \in Password : LoginAttempt(c, e, p)
        \/ Login(c)
        \/ \E t \in Token, pc \in {"logout", "mfa", "terminal"} : Enter(c, t, pc)
        \/ Logout(c)
        \/ MfaAttempt(c)
        \/ StepUp(c)
        \/ Authorize(c)
        \/ CreationAttempt(c)

AccountsSpec == AccountsInit /\ [][AccountsNext]_accountVars

-----------------------------------------------------------------------------
(* The attempts a limiter let pass are spread: in no window of time are    *)
(* there more than MaxAttempts logins, step-ups or terminals of one        *)
(* address, whatever was refused, popped or counted in between.            *)
AttemptsSpread == \A l \in Limiter, e \in Email : Spread(admitted[l][e])

(* A session that was logged out or purged stays gone: no step-up that was *)
(* under way when it went brings it back, and no login draws its token.    *)
EndedStaysEnded == \A t \in Token : seen[t].ended => logins[t] = Absent

(* A terminal is granted only to a token that at that moment is neither    *)
(* logged out nor older than the session's lifetime, and that was itself   *)
(* stepped up within the policy's time, whatever other sessions of the     *)
(* user did and whatever happened since the request was let in.            *)
GrantsAreFresh ==
    [][\A c \in Caller :
        RequireStepUp /\ At(c, "terminal") /\ req'[c].pc = "creating" =>
            LET h == seen[req[c].token] IN
            /\ ~h.ended
            /\ now < h.drawn + SessionTtl
            /\ h.stepped # Absent
            /\ now <= h.stepped + RecentMfaTtl]_accountVars
=============================================================================
