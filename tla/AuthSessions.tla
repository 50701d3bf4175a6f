----------------------------- MODULE AuthSessions -----------------------------
(***************************************************************************)
(* The login sessions of one user and the cookies of one browser (auth.py, *)
(* routers/auth.py).  The API has two aliases, and the browser a cookie    *)
(* for each of them; every cookie names a session in the database.         *)
(*                                                                         *)
(* A refresh locks the session's row and is one action.  A login reads the *)
(* user's sessions without a lock and commits later, so that logins        *)
(* overlap.  Time goes on in between.  The check of Google's token and the *)
(* account, unique by its email, come before and are not modelled.         *)
(***************************************************************************)
EXTENDS Integers, FiniteSets

CONSTANTS
    Sessions, NoSession,
    Idle, Absolute,         \* AUTH_SESSION_IDLE_DAYS, AUTH_SESSION_ABSOLUTE_DAYS
    MaxSessions,            \* AUTH_SESSION_MAX_PER_USER
    LastTime                \* bounds the time

Row == [last_used_at : Nat, expires_at : Nat, absolute_expires_at : Nat, revoked : BOOLEAN]

\* config.validate_settings.
ASSUME AuthAssumption ==
    /\ NoSession \notin Sessions \cup Row
    /\ Idle \in Nat \ {0} /\ Absolute \in Nat /\ Absolute >= Idle
    /\ MaxSessions \in Nat \ {0}
    /\ LastTime \in Nat

VARIABLES
    clock,
    session,        \* the rows: a record of times, or NoSession
    cookies,        \* per alias, the session that the browser's cookie names
    logins,         \* logins between their reading and their commit
    overlapped      \* two logins have been under way at once

authVars == <<clock, session, cookies, logins, overlapped>>

Aliases == {"/api/auth", "/skin/api/auth"}

AuthTypeOK ==
    /\ clock \in 0..LastTime
    /\ session \in [Sessions -> Row \cup {NoSession}]
    /\ cookies \in [Aliases -> Sessions \cup {NoSession}]
    /\ \A l \in logins :
        /\ l.of \in Sessions /\ l.alias \in Aliases /\ l.at \in 0..clock
        /\ l.stale \subseteq Sessions /\ l.of \notin l.stale
    /\ overlapped \in BOOLEAN

AuthInit ==
    /\ clock = 0
    /\ session = [s \in Sessions |-> NoSession]
    /\ cookies = [a \in Aliases |-> NoSession]
    /\ logins = {}
    /\ overlapped = FALSE

-----------------------------------------------------------------------------
Expired(s) == session[s].expires_at <= clock \/ session[s].absolute_expires_at <= clock

\* What a request's access token asks of its session.
Live(s) == session[s] # NoSession /\ ~session[s].revoked /\ ~Expired(s)

LiveSessions == {s \in Sessions : Live(s)}

\* Those beyond the newest that may stay beside the new one.
Stale(active, stale) == Cardinality(active \ stale) <= MaxSessions - 1

\* create_auth_session up to its query.
LoginReads(s, a) ==
    /\ session[s] = NoSession
    /\ \A l \in logins : l.of # s
    /\ \E stale \in SUBSET LiveSessions :
        /\ Stale(LiveSessions, stale)
        /\ \A other \in stale : ~Stale(LiveSessions, stale \ {other})
        /\ \A old \in stale, kept \in LiveSessions \ stale :
            session[old].last_used_at <= session[kept].last_used_at
        /\ logins' = logins \cup {[of |-> s, alias |-> a, at |-> clock, stale |-> stale]}
    /\ overlapped' = (overlapped \/ logins # {})
    /\ UNCHANGED <<clock, session, cookies>>

\* Its commit, and the answer with the cookie, which may be lost.
LoginCommits(l) ==
    /\ session' = [s \in Sessions |->
           IF s = l.of
           THEN [last_used_at |-> l.at, expires_at |-> l.at + Idle,
                 absolute_expires_at |-> l.at + Absolute, revoked |-> FALSE]
           ELSE IF s \in l.stale THEN [session[s] EXCEPT !.revoked = TRUE] ELSE session[s]]
    /\ cookies' \in {cookies, [cookies EXCEPT ![l.alias] = l.of]}
    /\ logins' = logins \ {l}
    /\ UNCHANGED <<clock, overlapped>>

Sooner(x, y) == IF x < y THEN x ELSE y

\* Mutant: only the end that cannot be moved is looked at.
RenewableLate(s) == ~session[s].revoked /\ session[s].absolute_expires_at > clock

Renewable(s) == ~session[s].revoked /\ ~Expired(s)

Slide(s) ==
    session' = [session EXCEPT
        ![s].last_used_at = clock,
        ![s].expires_at = Sooner(clock + Idle, session[s].absolute_expires_at)]

\* refresh_login_session clears the cookie it was sent, and no other.
Cleared(a) == [cookies EXCEPT ![a] = NoSession]

Refresh(a) ==
    LET s == cookies[a] IN
    /\ s # NoSession
    /\ IF Renewable(s)
       THEN Slide(s) /\ UNCHANGED cookies
       ELSE /\ session' = [session EXCEPT ![s].revoked = TRUE]
            /\ cookies' \in {cookies, Cleared(a)}
    /\ UNCHANGED <<clock, logins, overlapped>>

\* logout_session revokes the session it was sent, if any, and clears every alias.
Logout(a) ==
    /\ session' = IF cookies[a] = NoSession THEN session
                  ELSE [session EXCEPT ![cookies[a]].revoked = TRUE]
    /\ cookies' \in {cookies, [b \in Aliases |-> NoSession]}
    /\ UNCHANGED <<clock, logins, overlapped>>

\* A cookie's max_age, or its user.
BrowserForgets(a) ==
    /\ cookies[a] # NoSession
    /\ cookies' = Cleared(a)
    /\ UNCHANGED <<clock, session, logins, overlapped>>

TimePasses ==
    /\ clock < LastTime
    /\ clock' = clock + 1
    /\ UNCHANGED <<session, cookies, logins, overlapped>>

AuthNext ==
    \/ \E s \in Sessions, a \in Aliases : LoginReads(s, a)
    \/ \E l \in logins : LoginCommits(l)
    \/ \E a \in Aliases : Refresh(a) \/ Logout(a) \/ BrowserForgets(a)
    \/ TimePasses

AuthSpec == AuthInit /\ [][AuthNext]_authVars

-----------------------------------------------------------------------------
(* Properties.                                                               *)

\* A session that was revoked or has run out is never live again, whatever
\* logins, refreshes and logouts overlap (auth.py:106-114, 143-148).
EndedStaysEnded ==
    \A s \in Sessions : session[s] # NoSession /\ ~Live(s) => ~Live(s)'

\* No session lives on past its absolute end, however often it is refreshed
\* (auth.py:117-120).
AbsoluteEndStands ==
    \A s \in LiveSessions : session[s].expires_at <= session[s].absolute_expires_at

\* A refresh that fails at one alias leaves the other's live cookie alone
\* (routers/auth.py:158-161).
RefreshKeepsLiveCookie ==
    (\E a \in Aliases : Refresh(a)) =>
        \A a \in Aliases : cookies[a] \in LiveSessions => cookies'[a] = cookies[a]

\* Only logins that overlap can leave more sessions than the limit (auth.py:64-72).
SessionsAreLimited == ~overlapped => Cardinality(LiveSessions) <= MaxSessions

\* What a browser may rely on: a refresh neither revives an ended session nor
\* loses a live one, its absolute end stands, and the limit holds
\* (auth.py:89-148).
SessionsAreSound ==
    [][EndedStaysEnded /\ RefreshKeepsLiveCookie /\ (AbsoluteEndStands /\ SessionsAreLimited)']_authVars
=============================================================================
