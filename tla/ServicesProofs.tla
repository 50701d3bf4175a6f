---------------------------- MODULE ServicesProofs ----------------------------
(***************************************************************************)
(* The services beside the orders and the jobs, for any number of users,   *)
(* sessions, keys, skins, posts and offers.  Credits and billing are in    *)
(* CreditProofs.                                                           *)
(*                                                                         *)
(* Sessions: an ended session stays ended since only a live one is         *)
(* renewed; the limit needs to know of a login what it has found           *)
(* (LoginInv), which is only still true at its commit if no other login    *)
(* has come in between.                                                    *)
(*                                                                         *)
(* Keys: a pairing's key exists only when the pairing has been claimed or  *)
(* is over (PairingInv), so that it cannot be made again.                  *)
(*                                                                         *)
(* Library: what an edit is about to put on a shelf was checked and cannot *)
(* become unfit, since nothing changes whether a skin is public            *)
(* (ShelfInv).  A choice of a skin that is deleted under it is remembered  *)
(* (ChoiceInv).  Every cache of the list of discoveries holds a skin no    *)
(* longer than the ages of those it came through (CacheInv).  A like that  *)
(* is alone knows how things are (LoveInv, PairInv).                       *)
(*                                                                         *)
(* Forum: a comment goes only with its whole post, and so does what it     *)
(* answers (ParentInv).  A like that is alone on its post has seen the     *)
(* counter as it is (LikeCountInv).  Of a user who does not overlap        *)
(* himself, the author knows exactly the likes, up to the one call between *)
(* its commits (ToldInv).                                                  *)
(*                                                                         *)
(* Offers: no version comes back, so what a buyer was shown means the same *)
(* for as long as its version is the current one (AgreedInv), and what is  *)
(* read for his order is that (TakenInv).                                  *)
(*                                                                         *)
(* Composition: a step of one service leaves the others' variables as they *)
(* are, so all theorems hold of the services together.                     *)
(***************************************************************************)
EXTENDS Services, CreditProofs

-----------------------------------------------------------------------------
(* Sessions.                                                                 *)

\* Cookies and logins name sessions that exist; the absolute end bounds the other.
RowInv ==
    /\ \A l \in logins : \A s \in l.stale : session[s] # NoSession
    /\ \A a \in Aliases : cookies[a] # NoSession => session[cookies[a]] # NoSession
    /\ \A s \in Sessions :
        session[s] # NoSession => session[s].expires_at <= session[s].absolute_expires_at

\* What a login has found when no other has come in between.
LoginInv ==
    /\ \A l \in logins : session[l.of] = NoSession
    /\ \A l, m \in logins : l.of = m.of => l = m
    /\ ~overlapped =>
        /\ \A l, m \in logins : l = m
        /\ \A l \in logins : Cardinality(LiveSessions \ l.stale) <= MaxSessions - 1

SessionInv ==
    /\ AuthTypeOK
    /\ RowInv
    /\ LoginInv
    /\ IsFiniteSet(LiveSessions)
    /\ SessionsAreLimited

LEMMA SessionInvInit == AuthInit => SessionInv
<1> SUFFICES ASSUME AuthInit PROVE SessionInv
  OBVIOUS
<1> USE AuthAssumption DEF AuthInit
<1>1. AuthTypeOK
  <2>1. clock \in 0..LastTime
    <3>1. clock = 0 /\ LastTime \in Nat
      OBVIOUS
    <3> HIDE AuthAssumption DEF AuthInit
    <3> QED BY <3>1
  <2>4. overlapped \in BOOLEAN
    OBVIOUS
  <2>2. session \in [Sessions -> Row \cup {NoSession}]
    OBVIOUS
  <2>3. cookies \in [Aliases -> Sessions \cup {NoSession}]
    OBVIOUS
  <2> QED BY <2>1, <2>2, <2>3, <2>4 DEF AuthTypeOK
<1>5. RowInv /\ LoginInv
  BY DEF RowInv, LoginInv
<1>2. LiveSessions = {}
  BY DEF LiveSessions, Live
<1>3. IsFiniteSet({}) /\ Cardinality({}) = 0
  BY FS_EmptySet
<1>4. IsFiniteSet(LiveSessions) /\ Cardinality(LiveSessions) = 0
  BY <1>2, <1>3
<1> QED BY <1>1, <1>4, <1>5 DEF SessionInv, SessionsAreLimited

\* The rows, the cookies and their types.
LEMMA SessionRowStep ==
  ASSUME AuthTypeOK, RowInv, LoginInv, [AuthNext]_authVars
  PROVE  AuthTypeOK' /\ RowInv'
<1> USE AuthAssumption DEF AuthTypeOK, RowInv, Row
<1>1. ASSUME NEW s \in Sessions, NEW a \in Aliases, LoginReads(s, a)
      PROVE  AuthTypeOK' /\ RowInv'
  <2>1. PICK old \in SUBSET LiveSessions :
            logins' = logins \cup {[of |-> s, alias |-> a, at |-> clock, stale |-> old]}
    BY <1>1 DEF LoginReads
  <2>2. s \notin old /\ old \subseteq Sessions /\ \A o \in old : session[o] # NoSession
    BY <1>1 DEF LoginReads, LiveSessions, Live
  <2>3. UNCHANGED <<clock, session, cookies>> /\ overlapped' \in BOOLEAN
    BY <1>1 DEF LoginReads
  <2> QED BY <2>1, <2>2, <2>3
<1>2. ASSUME NEW l \in logins, LoginCommits(l)
      PROVE  AuthTypeOK' /\ RowInv'
  <2> DEFINE new == [last_used_at |-> l.at, expires_at |-> l.at + Idle,
                     absolute_expires_at |-> l.at + Absolute, revoked |-> FALSE]
  <2>1. new \in Row /\ new.expires_at <= new.absolute_expires_at
    OBVIOUS
  <2>2. session' = [s \in Sessions |-> IF s = l.of THEN new
                       ELSE IF s \in l.stale THEN [session[s] EXCEPT !.revoked = TRUE] ELSE session[s]]
    BY <1>2 DEF LoginCommits
  <2>3. /\ cookies' \in {cookies, [cookies EXCEPT ![l.alias] = l.of]}
        /\ logins' = logins \ {l} /\ UNCHANGED <<clock, overlapped>>
    BY <1>2 DEF LoginCommits
  <2> HIDE DEF new
  <2>4. ASSUME NEW s \in Sessions
        PROVE  /\ session'[s] \in Row \cup {NoSession}
               /\ session'[s] = NoSession => session[s] = NoSession /\ s # l.of
               /\ session'[s] # NoSession => session'[s].expires_at <= session'[s].absolute_expires_at
    <3>1. CASE s = l.of
      BY <2>1, <2>2, <3>1
    <3>2. CASE s # l.of /\ s \in l.stale
      <4>1. session[s] \in Row /\ session'[s] = [session[s] EXCEPT !.revoked = TRUE]
        BY <2>2, <3>2
      <4> QED BY <4>1
    <3>3. CASE s # l.of /\ s \notin l.stale
      BY <2>2, <3>3
    <3> QED BY <3>1, <3>2, <3>3
  <2>5. session' \in [Sessions -> Row \cup {NoSession}]
    BY <2>2, <2>4
  <2>6. AuthTypeOK'
    BY <2>3, <2>5
  <2>7. RowInv'
    BY <2>3, <2>4
  <2> QED BY <2>6, <2>7
<1>3. ASSUME NEW a \in Aliases, Refresh(a)
      PROVE  AuthTypeOK' /\ RowInv'
  <2> DEFINE s == cookies[a]
  <2>1. s \in Sessions /\ session[s] \in Row
    BY <1>3 DEF Refresh
  <2>2. \E row \in Row :
            /\ row.expires_at <= row.absolute_expires_at
            /\ session' = [session EXCEPT ![s] = row]
    <3>1. CASE Renewable(s)
      <4> DEFINE ends == Sooner(clock + Idle, session[s].absolute_expires_at)
                 slid == [session[s] EXCEPT !.last_used_at = clock, !.expires_at = ends]
      <4>1. session' = [session EXCEPT ![s] = slid]
        BY <1>3, <3>1 DEF Refresh, Slide
      <4>2. ends \in Nat /\ ends <= session[s].absolute_expires_at
        BY <2>1 DEF Sooner
      <4>3. clock \in Nat
        OBVIOUS
      <4> HIDE DEF ends, s
      <4>4. slid \in Row
        BY <2>1, <4>2, <4>3
      <4>5. slid.expires_at <= slid.absolute_expires_at
        BY <2>1, <4>2
      <4> HIDE DEF slid
      <4> QED BY <4>1, <4>4, <4>5
    <3>2. CASE ~Renewable(s)
      <4> DEFINE ended == [session[s] EXCEPT !.revoked = TRUE]
      <4>1. session' = [session EXCEPT ![s] = ended]
        BY <1>3, <3>2 DEF Refresh
      <4>2. ended \in Row /\ ended.expires_at <= ended.absolute_expires_at
        BY <2>1
      <4> HIDE DEF ended, s
      <4> QED BY <4>1, <4>2
    <3> QED BY <3>1, <3>2
  <2>3. /\ cookies' \in {cookies, Cleared(a)}
        /\ UNCHANGED <<clock, logins, overlapped>>
    BY <1>3 DEF Refresh
  <2> HIDE DEF s
  <2> QED BY <2>1, <2>2, <2>3 DEF Cleared
<1>4. ASSUME NEW a \in Aliases, Logout(a)
      PROVE  AuthTypeOK' /\ RowInv'
  <2>1. \/ UNCHANGED session
        \/ \E s \in Sessions, row \in Row :
             /\ session[s] \in Row /\ row.expires_at <= row.absolute_expires_at
             /\ session' = [session EXCEPT ![s] = row]
    <3> DEFINE s == cookies[a]
               row == [session[s] EXCEPT !.revoked = TRUE]
    <3>1. CASE s = NoSession
      BY <1>4, <3>1 DEF Logout
    <3>2. CASE s # NoSession
      <4>1. s \in Sessions /\ session[s] \in Row /\ session' = [session EXCEPT ![s] = row]
        BY <1>4, <3>2 DEF Logout
      <4>2. row \in Row /\ row.expires_at <= row.absolute_expires_at
        BY <4>1
      <4> QED BY <4>1, <4>2
    <3> QED BY <3>1, <3>2
  <2>2. /\ cookies' \in {cookies, [b \in Aliases |-> NoSession]}
        /\ UNCHANGED <<clock, logins, overlapped>>
    BY <1>4 DEF Logout
  <2> QED BY <2>1, <2>2
<1>5. ASSUME NEW a \in Aliases, BrowserForgets(a)
      PROVE  AuthTypeOK' /\ RowInv'
  BY <1>5 DEF BrowserForgets, Cleared
<1>6. CASE TimePasses
  BY <1>6 DEF TimePasses
<1>7. CASE UNCHANGED authVars
  BY <1>7 DEF authVars
<1> QED BY <1>1, <1>2, <1>3, <1>4, <1>5, <1>6, <1>7 DEF AuthNext

\* An ended session stays ended; only a login adds one to the live ones.
LEMMA LiveStep ==
  ASSUME AuthTypeOK, RowInv, LoginInv, [AuthNext]_authVars
  PROVE  /\ EndedStaysEnded
         /\ \/ LiveSessions' \subseteq LiveSessions
            \/ \E l \in logins :
                  LoginCommits(l) /\ LiveSessions' \subseteq (LiveSessions \ l.stale) \cup {l.of}
<1> USE AuthAssumption DEF AuthTypeOK, Row
<1> DEFINE Same(s) == session'[s] = session[s] /\ clock' \in Nat /\ clock' >= clock
<1>0. ASSUME NEW s \in Sessions, Same(s)
      PROVE  Live(s)' => Live(s)
  <2>1. CASE session[s] = NoSession
    BY <1>0, <2>1 DEF Live
  <2>2. CASE session[s] \in Row
    <3>1. clock \in Nat /\ clock' \in Int
      BY <1>0
    <3> QED BY <1>0, <2>2, <3>1 DEF Live, Expired
  <2> QED BY <2>1, <2>2
<1>1. ASSUME NEW l \in logins, LoginCommits(l)
      PROVE  \A s \in Sessions : Live(s)' => s = l.of \/ (Live(s) /\ s \notin l.stale)
  <2> SUFFICES ASSUME NEW s \in Sessions, s # l.of
               PROVE  Live(s)' => Live(s) /\ s \notin l.stale
    OBVIOUS
  <2>1. CASE s \in l.stale
    <3>1. session[s] \in Row /\ session'[s] = [session[s] EXCEPT !.revoked = TRUE]
      BY <1>1, <2>1 DEF LoginCommits, RowInv
    <3> QED BY <3>1 DEF Live
  <2>2. CASE s \notin l.stale
    BY <1>0, <1>1, <2>2 DEF LoginCommits
  <2> QED BY <2>1, <2>2
<1>2. ASSUME NEW a \in Aliases, Refresh(a)
      PROVE  \A s \in Sessions : Live(s)' => Live(s)
  <2> SUFFICES ASSUME NEW s \in Sessions PROVE Live(s)' => Live(s)
    OBVIOUS
  <2>1. CASE s # cookies[a]
    BY <1>0, <1>2, <2>1 DEF Refresh, Slide
  <2>2. CASE s = cookies[a] /\ Renewable(s)
    BY <1>2, <2>2 DEF Refresh, Renewable, Live, RowInv
  <2>3. CASE s = cookies[a] /\ ~Renewable(s)
    <3>1. session[s] \in Row /\ session'[s] = [session[s] EXCEPT !.revoked = TRUE]
      BY <1>2, <2>3 DEF Refresh, RowInv
    <3> QED BY <3>1 DEF Live
  <2> QED BY <2>1, <2>2, <2>3
<1>3. ASSUME NEW a \in Aliases, Logout(a)
      PROVE  \A s \in Sessions : Live(s)' => Live(s)
  <2> SUFFICES ASSUME NEW s \in Sessions PROVE Live(s)' => Live(s)
    OBVIOUS
  <2>1. CASE s # cookies[a]
    BY <1>0, <1>3, <2>1 DEF Logout
  <2>2. CASE s = cookies[a]
    <3>1. session[s] \in Row /\ session'[s] = [session[s] EXCEPT !.revoked = TRUE]
      BY <1>3, <2>2 DEF Logout, RowInv
    <3> QED BY <3>1 DEF Live
  <2> QED BY <2>1, <2>2
<1>4. CASE UNCHANGED session /\ clock' \in Nat /\ clock' >= clock
  <2>1. \A s \in Sessions : Live(s)' => Live(s)
    BY <1>0, <1>4
  <2> QED BY <2>1 DEF EndedStaysEnded, LiveSessions
<1>5. ASSUME \/ \E s \in Sessions, a \in Aliases : LoginReads(s, a)
             \/ \E a \in Aliases : BrowserForgets(a)
             \/ TimePasses \/ UNCHANGED authVars
      PROVE  UNCHANGED session /\ clock' \in Nat /\ clock' >= clock
  BY <1>5 DEF LoginReads, BrowserForgets, TimePasses, authVars
<1>6. ASSUME \E a \in Aliases : Refresh(a) \/ Logout(a)
      PROVE  EndedStaysEnded /\ LiveSessions' \subseteq LiveSessions
  <2>1. \A s \in Sessions : Live(s)' => Live(s)
    BY <1>2, <1>3, <1>6
  <2> QED BY <2>1 DEF EndedStaysEnded, LiveSessions
<1>7. ASSUME NEW l \in logins, LoginCommits(l)
      PROVE  EndedStaysEnded /\ LiveSessions' \subseteq (LiveSessions \ l.stale) \cup {l.of}
  <2>1. \A s \in Sessions : Live(s)' => s = l.of \/ (Live(s) /\ s \notin l.stale)
    BY <1>1, <1>7
  <2>2. session[l.of] = NoSession
    BY DEF LoginInv
  <2> QED BY <2>1, <2>2 DEF EndedStaysEnded, LiveSessions
<1> QED BY <1>4, <1>5, <1>6, <1>7 DEF AuthNext

\* Each login keeps what it has found, and the limit with it.
LEMMA LoginStep ==
  ASSUME AuthTypeOK, RowInv, LoginInv, IsFiniteSet(LiveSessions), SessionsAreLimited,
         [AuthNext]_authVars
  PROVE  LoginInv' /\ IsFiniteSet(LiveSessions)' /\ SessionsAreLimited'
<1> USE AuthAssumption
<1> DEFINE Others == \/ \E a \in Aliases : Refresh(a) \/ Logout(a) \/ BrowserForgets(a)
                     \/ TimePasses \/ UNCHANGED authVars
<1>1. ~overlapped' => ~overlapped
  <2>1. ASSUME \E s \in Sessions, a \in Aliases : LoginReads(s, a)
        PROVE  ~overlapped' => ~overlapped
    BY <2>1 DEF LoginReads
  <2>2. ASSUME (\E l \in logins : LoginCommits(l)) \/ Others
        PROVE  overlapped' = overlapped
    BY <2>2 DEF LoginCommits, Refresh, Logout, BrowserForgets, TimePasses, authVars
  <2> QED BY <2>1, <2>2 DEF AuthNext
<1>2. ASSUME LiveSessions' \subseteq LiveSessions
      PROVE  IsFiniteSet(LiveSessions') /\ SessionsAreLimited'
  <2>1. /\ IsFiniteSet(LiveSessions')
        /\ Cardinality(LiveSessions') <= Cardinality(LiveSessions)
    BY <1>2, FS_Subset
  <2>2. Cardinality(LiveSessions) \in Nat /\ Cardinality(LiveSessions') \in Nat
    BY <2>1, FS_CardinalityType
  <2>3. ASSUME ~overlapped'
        PROVE  Cardinality(LiveSessions') <= MaxSessions
    <3>1. Cardinality(LiveSessions) <= MaxSessions
      BY <1>1, <2>3 DEF SessionsAreLimited
    <3> QED BY <2>1, <2>2, <3>1 DEF AuthAssumption
  <2> QED BY <2>1, <2>3 DEF SessionsAreLimited
<1>3. ASSUME NEW l \in logins, LoginCommits(l),
             LiveSessions' \subseteq (LiveSessions \ l.stale) \cup {l.of}
      PROVE  IsFiniteSet(LiveSessions') /\ SessionsAreLimited'
  <2> DEFINE kept == LiveSessions \ l.stale
  <2>1. IsFiniteSet(kept) /\ Cardinality(kept) \in Nat
    BY FS_Subset, FS_CardinalityType
  <2> HIDE DEF kept
  <2>2. /\ IsFiniteSet(kept \cup {l.of})
        /\ Cardinality(kept \cup {l.of}) <= Cardinality(kept) + 1
    <3>1. /\ IsFiniteSet(kept \cup {l.of})
          /\ Cardinality(kept \cup {l.of}) =
                 IF l.of \in kept THEN Cardinality(kept) ELSE Cardinality(kept) + 1
      BY <2>1, FS_AddElement, Zenon
    <3> QED BY <2>1, <3>1
  <2>3. /\ IsFiniteSet(LiveSessions')
        /\ Cardinality(LiveSessions') <= Cardinality(kept \cup {l.of})
    BY <1>3, <2>2, FS_Subset DEF kept
  <2>4. ~overlapped' => Cardinality(kept) <= MaxSessions - 1
    BY <1>1 DEF LoginInv, kept
  <2>5. Cardinality(LiveSessions') \in Nat /\ Cardinality(kept \cup {l.of}) \in Nat
    BY <2>2, <2>3, FS_CardinalityType
  <2>6. ~overlapped' => Cardinality(LiveSessions') <= MaxSessions
    BY <2>1, <2>2, <2>3, <2>4, <2>5 DEF AuthAssumption
  <2> QED BY <2>3, <2>6 DEF SessionsAreLimited
<1>4. IsFiniteSet(LiveSessions)' /\ SessionsAreLimited'
  BY <1>2, <1>3, LiveStep
<1>5. ASSUME NEW s \in Sessions, NEW a \in Aliases, LoginReads(s, a)
      PROVE  LoginInv'
  <2>1. PICK old \in SUBSET LiveSessions :
            /\ Stale(LiveSessions, old)
            /\ logins' = logins \cup {[of |-> s, alias |-> a, at |-> clock, stale |-> old]}
    BY <1>5 DEF LoginReads
  <2>2. /\ session[s] = NoSession /\ \A l \in logins : l.of # s
        /\ overlapped' = (overlapped \/ logins # {})
        /\ UNCHANGED <<clock, session>>
    BY <1>5 DEF LoginReads
  <2>3. LiveSessions' = LiveSessions
    BY <2>2 DEF LiveSessions, Live, Expired
  <2>4. \A l \in logins' : session'[l.of] = NoSession
    BY <2>1, <2>2 DEF LoginInv
  <2>5. \A l, m \in logins' : l.of = m.of => l = m
    BY <2>1, <2>2 DEF LoginInv
  <2>6. ASSUME ~overlapped'
        PROVE  \A l, m \in logins' : l = m /\ Cardinality(LiveSessions' \ l.stale) <= MaxSessions - 1
    <3>1. logins' = {[of |-> s, alias |-> a, at |-> clock, stale |-> old]}
      BY <2>1, <2>2, <2>6
    <3> QED BY <2>1, <2>3, <3>1 DEF Stale
  <2> QED BY <2>4, <2>5, <2>6 DEF LoginInv
<1>6. ASSUME NEW l \in logins, LoginCommits(l)
      PROVE  LoginInv'
  <2>1. logins' = logins \ {l} /\ \A s \in Sessions : s # l.of /\ s \notin l.stale => session'[s] = session[s]
    BY <1>6 DEF LoginCommits
  <2>2. \A m \in logins' : session'[m.of] = NoSession
    <3> SUFFICES ASSUME NEW m \in logins, m # l
                 PROVE  session'[m.of] = NoSession
      BY <2>1
    <3>1. session[m.of] = NoSession /\ m.of # l.of /\ m.of \in Sessions
      BY DEF LoginInv, AuthTypeOK
    <3>2. m.of \notin l.stale
      BY <3>1 DEF RowInv
    <3> QED BY <2>1, <3>1, <3>2
  <2>3. ~overlapped' => logins' = {}
    BY <1>1, <2>1 DEF LoginInv
  <2> QED BY <2>1, <2>2, <2>3 DEF LoginInv
<1>7. ASSUME Others
      PROVE  LoginInv'
  <2>1. UNCHANGED <<logins, overlapped>>
    BY <1>7 DEF Refresh, Logout, BrowserForgets, TimePasses, authVars
  <2>2. \A s \in Sessions : session[s] = NoSession => session'[s] = NoSession
    BY <1>7 DEF Refresh, Slide, Logout, BrowserForgets, TimePasses, authVars, AuthTypeOK, RowInv
  <2>3. LiveSessions' \subseteq LiveSessions
    <3>1. ASSUME NEW l \in logins, LoginCommits(l)
          PROVE  FALSE
      <4>1. l \notin logins'
        BY <3>1 DEF LoginCommits
      <4> QED BY <2>1, <4>1
    <3> QED BY <3>1, LiveStep
  <2>4. ASSUME NEW l \in logins
        PROVE  /\ Cardinality(LiveSessions' \ l.stale) \in Nat
               /\ Cardinality(LiveSessions' \ l.stale) <= Cardinality(LiveSessions \ l.stale)
               /\ Cardinality(LiveSessions \ l.stale) \in Nat
    <3>3. LiveSessions \ l.stale \in SUBSET LiveSessions
      OBVIOUS
    <3>1. IsFiniteSet(LiveSessions \ l.stale)
      BY <3>3, FS_Subset
    <3>2. LiveSessions' \ l.stale \in SUBSET (LiveSessions \ l.stale)
      BY <2>3
    <3> QED BY <3>1, <3>2, FS_Subset, FS_CardinalityType
  <2>5. \A l \in logins : session'[l.of] = NoSession
    BY <2>2 DEF LoginInv, AuthTypeOK
  <2>6. ASSUME ~overlapped', NEW l \in logins
        PROVE  Cardinality(LiveSessions' \ l.stale) <= MaxSessions - 1
    <3>1. Cardinality(LiveSessions \ l.stale) <= MaxSessions - 1
      BY <1>1, <2>6 DEF LoginInv
    <3>2. \A x, y \in Nat : x <= y /\ y <= MaxSessions - 1 => x <= MaxSessions - 1
      BY DEF AuthAssumption
    <3> QED BY <2>4, <3>1, <3>2
  <2> QED BY <2>1, <2>5, <2>6 DEF LoginInv
<1>8. LoginInv'
  BY <1>5, <1>6, <1>7 DEF AuthNext
<1> QED BY <1>4, <1>8

LEMMA SessionInvStep == SessionInv /\ [AuthNext]_authVars => SessionInv'
BY SessionRowStep, LoginStep DEF SessionInv

LEMMA SessionInvariant == AuthSpec => []SessionInv
BY SessionInvInit, SessionInvStep, PTL DEF AuthSpec

\* Only the cookie of a session that has ended is cleared.
LEMMA CookieStep ==
  ASSUME AuthTypeOK, RowInv
  PROVE  RefreshKeepsLiveCookie
<1> SUFFICES ASSUME NEW a \in Aliases, Refresh(a),
                    NEW b \in Aliases, cookies[b] \in LiveSessions
             PROVE  cookies'[b] = cookies[b]
  BY DEF RefreshKeepsLiveCookie
<1>1. CASE b # a
  BY <1>1 DEF Refresh, Cleared, AuthTypeOK
<1>2. CASE b = a
  <2>1. Renewable(cookies[a])
    BY <1>2 DEF Renewable, LiveSessions, Live
  <2> QED BY <1>2, <2>1 DEF Refresh
<1> QED BY <1>1, <1>2

\* A session that has ended stays ended, a refresh leaves a live cookie alone, no
\* session outlives its absolute end, and only logins that overlap exceed the
\* limit (auth.py:64-148, routers/auth.py:129-161).
THEOREM SessionsSound == AuthSpec => SessionsAreSound
<1>1. SessionInv /\ SessionInv' /\ [AuthNext]_authVars
        => [EndedStaysEnded /\ RefreshKeepsLiveCookie
              /\ (AbsoluteEndStands /\ SessionsAreLimited)']_authVars
  <2> SUFFICES ASSUME SessionInv, SessionInv', [AuthNext]_authVars
               PROVE  EndedStaysEnded /\ RefreshKeepsLiveCookie
                        /\ (AbsoluteEndStands /\ SessionsAreLimited)'
    OBVIOUS
  <2>1. EndedStaysEnded
    BY LiveStep DEF SessionInv
  <2>2. RefreshKeepsLiveCookie
    BY CookieStep DEF SessionInv
  <2>3. AbsoluteEndStands'
    BY DEF SessionInv, RowInv, AbsoluteEndStands, LiveSessions, Live
  <2>4. SessionsAreLimited'
    BY DEF SessionInv
  <2> QED BY <2>1, <2>2, <2>3, <2>4
<1> QED BY <1>1, SessionInvariant, PTL DEF AuthSpec, SessionsAreSound

-----------------------------------------------------------------------------
(* Agents.                                                                   *)

\* A pairing that is over.
Over(p) == p \in stale /\ pairing[p] = Absent

\* Who has consented to what, and which keys came of it.
PairingInv ==
    /\ \A c \in consents :
        \/ Over(c[1])
        \/ pairing[c[1]].status \in {"approved", "claimed"} /\ pairing[c[1]].user = c[2]
    /\ \A c, d \in consents : c[1] = d[1] => c = d
    /\ \A p \in Pairings :
        pairing[p].status \in {"approved", "claimed"} => <<p, pairing[p].user>> \in consents
    /\ \A k \in made : k.for # Nobody =>
        /\ <<k.for, k.user>> \in consents
        /\ Over(k.for) \/ pairing[k.for].status = "claimed"
        /\ \A other \in made : other.for = k.for => other = k

\* Keys are counted.
CountInv == \A u \in Owners : IsFiniteSet(KeysOf(u)) /\ Cardinality(KeysOf(u)) <= MaxKeys

AgentInv == AgentTypeOK /\ PairingInv /\ CountInv

LEMMA AgentInvInit == AgentInit => AgentInv
<1> SUFFICES ASSUME AgentInit PROVE AgentInv
  OBVIOUS
<1>1. AgentTypeOK /\ PairingInv
  BY DEF AgentInit, AgentTypeOK, PairingInv, Absent
<1>2. \A u : KeysOf(u) = {}
  BY DEF AgentInit, KeysOf
<1>3. IsFiniteSet({}) /\ Cardinality({}) = 0
  BY FS_EmptySet
<1>4. \A u : IsFiniteSet(KeysOf(u)) /\ Cardinality(KeysOf(u)) = 0
  BY <1>2, <1>3
<1> QED BY <1>1, <1>4, AgentAssumption DEF AgentInv, CountInv

\* One more key, or none.
LEMMA IssueCounts ==
  ASSUME CountInv, NEW k \in Key, Issue(k)
  PROVE  CountInv'
<1> SUFFICES ASSUME NEW u \in Owners
             PROVE  IsFiniteSet(KeysOf(u)') /\ Cardinality(KeysOf(u)') <= MaxKeys
  BY DEF CountInv
<1>1. IsFiniteSet(KeysOf(u)) /\ Cardinality(KeysOf(u)) <= MaxKeys /\ Cardinality(KeysOf(u)) \in Nat
  BY FS_CardinalityType DEF CountInv
<1>2. CASE k.user = u
  <2>1. KeysOf(u)' = KeysOf(u) \cup {k} /\ Cardinality(KeysOf(u)) < MaxKeys
    BY <1>2 DEF KeysOf, Issue
  <2>2. /\ IsFiniteSet(KeysOf(u) \cup {k})
        /\ Cardinality(KeysOf(u) \cup {k}) <= Cardinality(KeysOf(u)) + 1
    BY <1>1, FS_AddElement
  <2>3. Cardinality(KeysOf(u) \cup {k}) \in Nat
    BY <2>2, FS_CardinalityType
  <2> QED BY <1>1, <2>1, <2>2, <2>3, AgentAssumption
<1>3. CASE k.user # u
  <2>1. KeysOf(u)' = KeysOf(u)
    BY <1>3 DEF KeysOf, Issue
  <2> QED BY <1>1, <2>1
<1> QED BY <1>2, <1>3

LEMMA AgentTypeStep ==
  ASSUME AgentTypeOK, PairingInv, [AgentNext]_agentVars
  PROVE  AgentTypeOK'
<1> USE AgentAssumption DEF AgentTypeOK, Absent
<1>1. ASSUME NEW p \in Pairings, Start(p)
      PROVE  AgentTypeOK'
  BY <1>1 DEF Start
<1>2. ASSUME NEW p \in Pairings, NEW u \in Owners, NEW status \in {"approved", "denied"},
             Decide(p, u, status)
      PROVE  AgentTypeOK'
  <2>1. /\ pairing' = [pairing EXCEPT ![p].status = status, ![p].user = u]
        /\ consents' \in {consents, consents \cup {<<p, u>>}}
        /\ UNCHANGED <<stale, early, keys, made>>
    BY <1>2 DEF Decide
  <2>2. pairing' = [q \in Pairings |->
                      IF q = p THEN [pairing[p] EXCEPT !.status = status, !.user = u] ELSE pairing[q]]
    BY <2>1
  <2>3. [pairing[p] EXCEPT !.status = status, !.user = u] \in
            [status : {"absent", "pending", "approved", "denied", "claimed"},
             user : Owners \cup {Nobody}, key : {{}} \cup {{k} : k \in KeyIds}]
    OBVIOUS
  <2>4. pairing' \in [Pairings ->
            [status : {"absent", "pending", "approved", "denied", "claimed"},
             user : Owners \cup {Nobody}, key : {{}} \cup {{k} : k \in KeyIds}]]
    BY <2>2, <2>3
  <2>5. consents' \subseteq Pairings \X Owners
    BY <2>1
  <2> QED BY <2>1, <2>4, <2>5
<1>3. ASSUME NEW p \in Pairings,
             \/ PollTooEarly(p) \/ PollPending(p) \/ PollClaimed(p)
             \/ PairingExpires(p) \/ PollIsDue(p)
      PROVE  AgentTypeOK'
  BY <1>3 DEF PollTooEarly, PollPending, PollClaimed, PairingExpires, PollIsDue, agentVars
<1>4. ASSUME NEW p \in Pairings, NEW id \in KeyIds, Claim(p, id)
      PROVE  AgentTypeOK'
  <2>1. pairing[p].user \in Owners
    BY <1>4 DEF Claim, Claimable, PairingInv
  <2>2. [id |-> id, user |-> pairing[p].user, for |-> p] \in Key
    BY <2>1 DEF Key
  <2> QED BY <1>4, <2>2 DEF Claim, Issue
<1>5. ASSUME NEW u \in Owners, NEW id \in KeyIds, CreateKey(u, id)
      PROVE  AgentTypeOK'
  <2>1. [id |-> id, user |-> u, for |-> Nobody] \in Key
    BY DEF Key
  <2> QED BY <1>5, <2>1 DEF CreateKey, Issue
<1>6. ASSUME NEW k \in keys, RevokeKey(k)
      PROVE  AgentTypeOK'
  BY <1>6 DEF RevokeKey
<1>7. CASE UNCHANGED agentVars
  BY <1>7 DEF agentVars
<1> QED BY <1>1, <1>2, <1>3, <1>4, <1>5, <1>6, <1>7 DEF AgentNext

\* Consents are given once, and claimed once.
LEMMA PairingStep ==
  ASSUME AgentTypeOK, PairingInv, [AgentNext]_agentVars
  PROVE  PairingInv'
<1> USE AgentAssumption DEF AgentTypeOK, PairingInv, Over
<1>1. ASSUME NEW p \in Pairings, Start(p)
      PROVE  PairingInv'
  <2>1. /\ pairing[p] = Absent /\ p \notin stale
        /\ pairing' = [q \in Pairings |-> IF q = p THEN [Absent EXCEPT !.status = "pending"]
                                          ELSE IF q \in stale THEN Absent ELSE pairing[q]]
        /\ UNCHANGED <<stale, made, consents>>
    BY <1>1 DEF Start
  <2>2. \A c \in consents : c[1] # p
    BY <2>1 DEF Absent
  <2>3. \A q \in Pairings : q # p => pairing'[q] = pairing[q] \/ Over(q)'
    BY <2>1
  <2>4. pairing'[p].status = "pending"
    BY <2>1 DEF Absent
  <2>5. \A k \in made : k.for # Nobody => k.for \in Pairings /\ k.for # p
    BY <2>1, <2>2 DEF Absent
  <2>6. \A q \in Pairings : Over(q)' => pairing'[q].status = "absent"
    BY DEF Absent
  <2>7. \A c \in consents : c[1] \in Pairings
    OBVIOUS
  <2> QED BY <2>1, <2>2, <2>3, <2>4, <2>5, <2>6, <2>7
<1>2. ASSUME NEW p \in Pairings, NEW u \in Owners, NEW status \in {"approved", "denied"},
             Decide(p, u, status)
      PROVE  PairingInv'
  <2>1. /\ pairing[p] # Absent /\ pairing[p].status = "pending"
        /\ pairing' = [pairing EXCEPT ![p].status = status, ![p].user = u]
        /\ consents' = IF status = "approved" THEN consents \cup {<<p, u>>} ELSE consents
        /\ UNCHANGED <<stale, made>>
    BY <1>2 DEF Decide, Decidable, Open
  <2>2. \A c \in consents : c[1] # p
    BY <2>1
  <2>3. /\ pairing'[p].status = status /\ pairing'[p].user = u
        /\ \A q \in Pairings : q # p => pairing'[q] = pairing[q]
    BY <2>1
  <2>4. \A k \in made : k.for # Nobody => k.for \in Pairings /\ k.for # p
    BY <2>2
  <2> QED BY <2>1, <2>2, <2>3, <2>4
<1>3. ASSUME NEW p \in Pairings,
             \/ PollTooEarly(p) \/ PollPending(p) \/ PollClaimed(p)
             \/ PairingExpires(p) \/ PollIsDue(p)
      PROVE  PairingInv'
  <2>1. UNCHANGED <<pairing, made, consents>> /\ stale \subseteq stale'
    BY <1>3 DEF PollTooEarly, PollPending, PollClaimed, PairingExpires, PollIsDue, agentVars
  <2> QED BY <2>1
<1>4. ASSUME NEW p \in Pairings, NEW id \in KeyIds, Claim(p, id)
      PROVE  PairingInv'
  <2> DEFINE new == [id |-> id, user |-> pairing[p].user, for |-> p]
  <2>1. /\ pairing[p].status = "approved" /\ made' = made \cup {new}
        /\ pairing' = [pairing EXCEPT ![p].status = "claimed", ![p].key = {id}]
        /\ UNCHANGED <<stale, consents>>
    BY <1>4 DEF Claim, Claimable, Issue
  <2>2. /\ pairing'[p].status = "claimed" /\ pairing'[p].user = pairing[p].user
        /\ \A q \in Pairings : q # p => pairing'[q] = pairing[q]
    BY <2>1
  <2>3. <<p, pairing[p].user>> \in consents
    BY <2>1
  <2>4. \A k \in made : k.for = p => p = Nobody
    <3>1. ~Over(p) /\ pairing[p].status # "claimed"
      BY <2>1 DEF Absent
    <3> QED BY <3>1
  <2>5. new.for = p /\ new.user = pairing[p].user
    OBVIOUS
  <2> HIDE DEF new
  <2> QED BY <2>1, <2>2, <2>3, <2>4, <2>5
<1>5. ASSUME NEW u \in Owners, NEW id \in KeyIds, CreateKey(u, id)
      PROVE  PairingInv'
  <2> DEFINE new == [id |-> id, user |-> u, for |-> Nobody]
  <2>1. made' = made \cup {new} /\ UNCHANGED <<pairing, stale, consents>> /\ new.for = Nobody
    BY <1>5 DEF CreateKey, Issue
  <2> HIDE DEF new
  <2> QED BY <2>1
<1>6. ASSUME NEW k \in keys, RevokeKey(k)
      PROVE  PairingInv'
  BY <1>6 DEF RevokeKey
<1>7. CASE UNCHANGED agentVars
  BY <1>7 DEF agentVars
<1> QED BY <1>1, <1>2, <1>3, <1>4, <1>5, <1>6, <1>7 DEF AgentNext

\* The limit is looked at under the lock of the user's row.
LEMMA CountStep ==
  ASSUME AgentTypeOK, PairingInv, CountInv, [AgentNext]_agentVars
  PROVE  CountInv'
<1>1. ASSUME NEW p \in Pairings, NEW id \in KeyIds, Claim(p, id)
      PROVE  CountInv'
  <2>1. pairing[p].user \in Owners
    BY <1>1 DEF Claim, Claimable, PairingInv, AgentTypeOK
  <2>2. [id |-> id, user |-> pairing[p].user, for |-> p] \in Key
    BY <2>1 DEF Key
  <2> QED BY <1>1, <2>2, IssueCounts DEF Claim
<1>2. ASSUME NEW u \in Owners, NEW id \in KeyIds, CreateKey(u, id)
      PROVE  CountInv'
  <2>1. [id |-> id, user |-> u, for |-> Nobody] \in Key
    BY DEF Key
  <2> QED BY <1>2, <2>1, IssueCounts DEF CreateKey
<1>3. ASSUME NEW k \in keys, RevokeKey(k)
      PROVE  CountInv'
  <2> SUFFICES ASSUME NEW u \in Owners
               PROVE  IsFiniteSet(KeysOf(u)') /\ Cardinality(KeysOf(u)') <= MaxKeys
    BY DEF CountInv
  <2>1. KeysOf(u)' \in SUBSET KeysOf(u)
    BY <1>3 DEF RevokeKey, KeysOf
  <2>2. IsFiniteSet(KeysOf(u)) /\ Cardinality(KeysOf(u)) <= MaxKeys
    BY DEF CountInv
  <2>3. /\ IsFiniteSet(KeysOf(u)') /\ Cardinality(KeysOf(u)') <= Cardinality(KeysOf(u))
        /\ Cardinality(KeysOf(u)') \in Nat /\ Cardinality(KeysOf(u)) \in Nat
    BY <2>1, <2>2, FS_Subset, FS_CardinalityType
  <2> QED BY <2>2, <2>3, AgentAssumption
<1>4. CASE UNCHANGED keys
  BY <1>4 DEF CountInv, KeysOf
<1>5. ASSUME NEW p \in Pairings,
             \/ Start(p) \/ (\E u \in Owners, status \in {"approved", "denied"} : Decide(p, u, status))
             \/ PollTooEarly(p) \/ PollPending(p) \/ PollClaimed(p)
             \/ PairingExpires(p) \/ PollIsDue(p)
      PROVE  UNCHANGED keys
  BY <1>5 DEF Start, Decide, PollTooEarly, PollPending, PollClaimed, PairingExpires, PollIsDue, agentVars
<1> QED BY <1>1, <1>2, <1>3, <1>4, <1>5 DEF AgentNext, agentVars

LEMMA AgentInvStep == AgentInv /\ [AgentNext]_agentVars => AgentInv'
BY AgentTypeStep, PairingStep, CountStep DEF AgentInv

LEMMA AgentInvariant == AgentSpec => []AgentInv
BY AgentInvInit, AgentInvStep, PTL DEF AgentSpec

\* A pairing makes one key, for the one user who consented, however often its
\* agent polls, and no user has more keys than the limit
\* (space_agent_auth.py:139-180, space_accounts.py:66-94).
THEOREM KeysSound == AgentSpec => []AgentKeysAreSound
<1>1. AgentInv => AgentKeysAreSound
  <2> SUFFICES ASSUME AgentInv PROVE AgentKeysAreSound
    OBVIOUS
  <2>1. KeysAreLimited
    BY DEF AgentInv, CountInv, KeysAreLimited
  <2>2. OneKeyPerPairing
    <3> SUFFICES ASSUME NEW k \in made, k.for # Nobody
                 PROVE  /\ <<k.for, k.user>> \in consents
                        /\ \A c \in consents : c[1] = k.for => c[2] = k.user
                        /\ \A other \in made : other.for = k.for => other = k
      BY DEF OneKeyPerPairing
    <3>1. <<k.for, k.user>> \in consents /\ \A other \in made : other.for = k.for => other = k
      BY DEF AgentInv, PairingInv
    <3>2. \A c \in consents : c[1] = k.for => c = <<k.for, k.user>>
      BY <3>1 DEF AgentInv, PairingInv
    <3> QED BY <3>1, <3>2
  <2> QED BY <2>1, <2>2 DEF AgentKeysAreSound
<1> QED BY <1>1, AgentInvariant, PTL

-----------------------------------------------------------------------------
(* The library.                                                              *)

\* Likes that have been read.
LoveTypes ==
    \A l \in loving : l.user \in Members /\ l.skin \in Skins /\ l.liked \in BOOLEAN /\ l.count \in Nat

\* Whatever is about to be put into a collection may be shown there.
ShelfInv ==
    /\ \A e \in edits : \A x \in e.put : Fits(x.skin, x.shelf)
    /\ \A i \in ItemIds : items[i] # NoItem => Fits(items[i].skin, items[i].shelf)

\* A choice whose skin has been deleted meanwhile is known, and who wears a
\* deleted skin had chosen it before.
ChoiceInv ==
    /\ \A c \in choices : SkinIsPublic[c[2]] /\ (c \in caught \/ skins[c[2]] \notin {"absent"} \cup Gone)
    /\ \A u \in Members : worn[u] # NoSkin =>
        SkinIsPublic[worn[u]] /\ (skins[worn[u]] \in Gone => <<u, worn[u]>> \in caught)

\* Of a skin whose likes have not overlapped, one at most has been read, and it
\* knows how things are; it was read before the skin was withdrawn.
LikersOf(s) == {u \in Members : loves[u][s] > 0}

LoveInv(s) ==
    s \notin crossed =>
        /\ \A l, m \in loving : l.skin = s /\ m.skin = s => l = m
        /\ \A l \in loving : l.skin = s =>
            l.count = love_counts[s] /\ (l.liked <=> loves[l.user][s] > 0)
        /\ \A u \in Members : loves[u][s] <= 1
        /\ IsFiniteSet(LikersOf(s))
        /\ love_counts[s] = Cardinality(LikersOf(s))
        /\ skins[s] = "withdrawn" => love_counts[s] = 0 /\ \A l \in loving : l.skin # s

\* Nor has a user who did not overlap himself more than one like, or one that he
\* is about to add.
PairInv(u, s) ==
    <<u, s>> \notin crossed =>
        /\ \A l, m \in loving : l.skin = s /\ m.skin = s /\ l.user = u /\ m.user = u => l = m
        /\ \A l \in loving : l.skin = s /\ l.user = u /\ ~l.liked => loves[u][s] = 0
        /\ loves[u][s] <= 1

LoveOK == (\A s \in Skins : LoveInv(s)) /\ \A u \in Members, s \in Skins : PairInv(u, s)

\* A list was read before each skin in it was deleted; from there every cache adds
\* no more than its own age.
CacheInv ==
    /\ \A r \in refreshes :
        /\ r.list \subseteq {s \in Skins : SkinIsPublic[s]}
        /\ r.since \in Nat /\ r.since <= tick /\ tick <= r.since + RefreshTime
        /\ \A s \in r.list : skins[s] \in Gone => r.since <= deleted_at[s]
    /\ \A s \in redis.list : SkinIsPublic[s]
    /\ redis.since <= tick
    /\ \A s \in redis.list : skins[s] \in Gone => redis.since <= deleted_at[s] + RefreshTime
    /\ \A p \in Servers :
        /\ \A s \in local[p].list : SkinIsPublic[s]
        /\ local[p].since <= tick
        /\ \A s \in local[p].list :
            skins[s] \in Gone => local[p].since <= deleted_at[s] + RefreshTime + RedisAge

LibraryInv ==
    /\ LibraryTypeOK
    /\ LoveTypes
    /\ ShelfInv
    /\ ChoiceInv
    /\ LoveOK
    /\ CacheInv

LEMMA LibraryInvInit == LibraryInit => LibraryInv
<1> SUFFICES ASSUME LibraryInit PROVE LibraryInv
  OBVIOUS
<1> USE LibraryAssumption DEF LibraryInit
<1>1. \A s \in Skins : LikersOf(s) = {}
  BY DEF LikersOf
<1>2. LoveOK
  <2>1. ASSUME NEW s \in Skins PROVE LoveInv(s)
    <3>1. IsFiniteSet(LikersOf(s)) /\ Cardinality(LikersOf(s)) = 0
      BY <1>1, FS_EmptySet
    <3>2. love_counts[s] = 0 /\ loving = {} /\ \A u \in Members : loves[u][s] = 0
      OBVIOUS
    <3> QED BY <3>1, <3>2 DEF LoveInv
  <2>2. ASSUME NEW u \in Members, NEW s \in Skins PROVE PairInv(u, s)
    BY DEF PairInv
  <2> QED BY <2>1, <2>2 DEF LoveOK
<1>3. CacheInv
  BY DEF CacheInv, Nothing
<1>4. LibraryTypeOK
  BY DEF LibraryTypeOK, Nothing, Listing, Gone
<1> QED BY <1>2, <1>3, <1>4 DEF LibraryInv, LoveTypes, ShelfInv, ChoiceInv

\* The steps, by the part of the library they change.
SetStatus(s, status) ==
    /\ skins[s] \in {"absent", "active"} /\ skins' = [skins EXCEPT ![s] = status]
    /\ UNCHANGED <<deleted_at, subscribers, shelfVars, wornVars, loveVars, cacheVars>>

SkinStep ==
    \/ \E s \in Skins, status \in {"active", "success", "failed"} : SetStatus(s, status)
    \/ \E s \in Skins : DeleteSkin(s)
    \/ \E s \in Skins : WithdrawSkin(s)

WornStep ==
    \/ \E s \in Skins, u \in Members : ChooseSkin(u, s)
    \/ \E c \in choices : WearSkin(c)
    \/ \E u \in Members : TakeOff(u)

ShelfStep ==
    \/ \E s \in Skins, k \in Shelves : AddItem(s, k)
    \/ \E s \in Skins, u \in Members, targets \in SUBSET Shelves : ChooseShelves(u, s, targets)
    \/ \E k \in Shelves : CreateShelf(k) \/ DeleteShelf(k)
    \/ \E i \in ItemIds : RemoveItem(i) \/ \E k \in Shelves : MoveItem(i, k)
    \/ \E e \in edits : CommitEdit(e)

LoveStep ==
    \/ \E s \in Skins, u \in Members : ReadLike(u, s)
    \/ \E l \in loving : WriteLike(l)

CacheStep ==
    \/ TimePassesHere
    \/ \E p \in Servers \cup {Background} : ReadDiscoveries(p)
    \/ \E r \in refreshes, stored \in BOOLEAN : StoreDiscoveries(r, stored)
    \/ \E p \in Servers : FetchDiscoveries(p)

LEMMA LibraryCases ==
  ASSUME [LibraryNext]_libraryVars
  PROVE  \/ SkinStep /\ UNCHANGED <<subscribers, shelves, edits>>
         \/ WornStep /\ UNCHANGED <<skins, deleted_at, subscribers, shelfVars, loveVars, cacheVars>>
         \/ ShelfStep /\ UNCHANGED <<skins, deleted_at, subscribers, wornVars, loveVars, cacheVars>>
         \/ LoveStep /\ UNCHANGED <<skins, deleted_at, subscribers, shelfVars, wornVars, cacheVars>>
         \/ CacheStep /\ UNCHANGED <<skins, deleted_at, subscribers, shelfVars, wornVars, loveVars>>
         \/ /\ subscribers' \subseteq subscribers \cup Members
            /\ UNCHANGED <<skins, deleted_at, shelfVars, wornVars, loveVars, cacheVars>>
<1>1. ASSUME NEW s \in Skins, NEW status \in {"active", "success"}, AddSkin(s, status)
      PROVE  SetStatus(s, status)
  BY <1>1 DEF AddSkin, SetStatus
<1>2. ASSUME NEW s \in Skins, NEW status \in {"success", "failed"}, FinishSkin(s, status)
      PROVE  SetStatus(s, status)
  BY <1>2 DEF FinishSkin, SetStatus
<1>3. SkinStep => UNCHANGED <<subscribers, shelves, edits>>
  BY DEF SkinStep, SetStatus, DeleteSkin, WithdrawSkin, shelfVars
<1>4. WornStep => UNCHANGED <<skins, deleted_at, subscribers, shelfVars, loveVars, cacheVars>>
  BY DEF WornStep, ChooseSkin, WearSkin, TakeOff
<1>5. ShelfStep => UNCHANGED <<skins, deleted_at, subscribers, wornVars, loveVars, cacheVars>>
  BY DEF ShelfStep, AddItem, ChooseShelves, MoveItem, RemoveItem, Edit, CreateShelf, DeleteShelf, CommitEdit
<1>6. LoveStep => UNCHANGED <<skins, deleted_at, subscribers, shelfVars, wornVars, cacheVars>>
  BY DEF LoveStep, ReadLike, WriteLike
<1>7. CacheStep => UNCHANGED <<skins, deleted_at, subscribers, shelfVars, wornVars, loveVars>>
  BY DEF CacheStep, TimePassesHere, ReadDiscoveries, StoreDiscoveries, FetchDiscoveries
<1>8. \A u \in Members : ChangePlan(u) =>
        /\ subscribers' \subseteq subscribers \cup Members
        /\ UNCHANGED <<skins, deleted_at, shelfVars, wornVars, loveVars, cacheVars>>
  BY DEF ChangePlan
<1>9. UNCHANGED libraryVars
      => UNCHANGED <<skins, deleted_at, subscribers, shelfVars, wornVars, loveVars, cacheVars>>
  BY DEF libraryVars
<1>10. LibraryNext => (\E s \in Skins : DeleteSkin(s) \/ WithdrawSkin(s))
                      \/ WornStep \/ ShelfStep \/ LoveStep \/ CacheStep
                      \/ (\E u \in Members : ChangePlan(u))
                      \/ (\E s \in Skins, status \in {"active", "success"} : AddSkin(s, status))
                      \/ (\E s \in Skins, status \in {"success", "failed"} : FinishSkin(s, status))
  BY DEF LibraryNext, WornStep, ShelfStep, LoveStep, CacheStep
<1>11. /\ (\E s \in Skins, status \in {"active", "success"} : AddSkin(s, status)) => SkinStep
       /\ (\E s \in Skins, status \in {"success", "failed"} : FinishSkin(s, status)) => SkinStep
       /\ (\E s \in Skins : DeleteSkin(s) \/ WithdrawSkin(s)) => SkinStep
  BY <1>1, <1>2 DEF SkinStep
<1> QED BY <1>3, <1>4, <1>5, <1>6, <1>7, <1>8, <1>9, <1>10, <1>11

ShelfTypes ==
    /\ shelves \subseteq Shelves
    /\ items \in [ItemIds -> Item \cup {NoItem}]
    /\ \A e \in edits : e.drop \subseteq ItemIds /\ e.move \subseteq ItemIds /\ e.put \subseteq Item

\* A checked change fits, and nothing that is committed between makes it unfit.
LEMMA EditKeeps ==
  ASSUME ShelfTypes, ShelfInv, NEW drop \in SUBSET ItemIds, NEW move \in SUBSET ItemIds,
         NEW put \in SUBSET Item, \A x \in put : Fits(x.skin, x.shelf), Edit(drop, move, put)
  PROVE  ShelfTypes' /\ ShelfInv'
<1> DEFINE new == [drop |-> drop, move |-> move, put |-> put]
<1>1. edits' = edits \cup {new} /\ UNCHANGED <<shelves, items>>
  BY DEF Edit
<1>2. new.drop = drop /\ new.move = move /\ new.put = put
  OBVIOUS
<1> HIDE DEF new
<1> QED BY <1>1, <1>2 DEF ShelfTypes, ShelfInv

LEMMA CommitKeeps ==
  ASSUME ShelfTypes, ShelfInv, NEW e \in edits, CommitEdit(e)
  PROVE  ShelfTypes' /\ ShelfInv'
<1>1. edits' \subseteq edits /\ UNCHANGED shelves /\ e.put \subseteq Item
  BY DEF CommitEdit, ShelfTypes
<1>2. \/ UNCHANGED items
      \/ /\ DOMAIN items' = ItemIds
         /\ \A i \in ItemIds : items'[i] \in e.put \cup {NoItem, items[i]}
         /\ items' = [i \in ItemIds |-> items'[i]]
  <2> SUFFICES ASSUME NEW place, \E S : place \in Injection(e.put, S),
                      items' = [i \in ItemIds |->
                                  IF i \in Range(place) THEN AntiFunction(place)[i]
                                  ELSE IF i \in e.drop THEN NoItem ELSE items[i]]
               PROVE  \A i \in ItemIds : items'[i] \in e.put \cup {NoItem, items[i]}
    BY DEF CommitEdit
  <2>1. DOMAIN place = e.put
    BY DEF Injection, IsInjective
  <2>2. \A i \in Range(place) : AntiFunction(place)[i] \in e.put
    <3> SUFFICES ASSUME NEW i \in Range(place) PROVE AntiFunction(place)[i] \in e.put
      OBVIOUS
    <3>1. AntiFunction(place)[i] = CHOOSE x \in e.put : i \in Range(place) => place[x] = i
      BY <2>1 DEF AntiFunction, Inverse
    <3>2. \E x \in e.put : place[x] = i
      BY <2>1 DEF Range
    <3> QED BY <3>1, <3>2
  <2> QED BY <2>2
<1>3. ShelfTypes'
  BY <1>1, <1>2 DEF ShelfTypes
<1>4. ShelfInv'
  BY <1>1, <1>2 DEF ShelfTypes, ShelfInv
<1> QED BY <1>3, <1>4

LEMMA ShelfStepKeeps ==
  ASSUME ShelfTypes, ShelfInv, ShelfStep
  PROVE  ShelfTypes' /\ ShelfInv'
<1>1. ASSUME NEW s \in Skins, NEW k \in Shelves, AddItem(s, k)
      PROVE  ShelfTypes' /\ ShelfInv'
  <2> DEFINE x == [shelf |-> k, skin |-> s]
  <2>1. Edit({}, {}, {x}) /\ Fits(x.skin, x.shelf) /\ x \in Item
    BY <1>1 DEF AddItem, Item
  <2> HIDE DEF x
  <2> QED BY <2>1, EditKeeps
<1>2. ASSUME NEW s \in Skins, NEW u \in Members, NEW targets \in SUBSET Shelves,
             ChooseShelves(u, s, targets)
      PROVE  ShelfTypes' /\ ShelfInv'
  <2> DEFINE asked == {i \in ItemIds : /\ items[i] # NoItem /\ items[i].skin = s
                                         /\ items[i].shelf \in shelves
                                         /\ ShelfOwner[items[i].shelf] = u}
             added == (targets \cap shelves) \ {items[i].shelf : i \in asked}
             own == {k \in added : ShelfOwner[k] = u}
             dropped == {i \in asked : items[i].shelf \notin targets}
             put == {[shelf |-> k, skin |-> s] : k \in own}
  <2>1. Edit(dropped, {}, put) /\ \A k \in own : Fits(s, k)
    BY <1>2 DEF ChooseShelves
  <2>2. dropped \in SUBSET ItemIds /\ own \subseteq Shelves
    OBVIOUS
  <2> HIDE DEF dropped, own
  <2>3. put \in SUBSET Item /\ \A x \in put : Fits(x.skin, x.shelf)
    BY <2>1, <2>2 DEF Item
  <2> HIDE DEF put
  <2> QED BY <2>1, <2>2, <2>3, EditKeeps
<1>3. ASSUME NEW i \in ItemIds, NEW k \in Shelves, MoveItem(i, k)
      PROVE  ShelfTypes' /\ ShelfInv'
  <2> DEFINE x == [items[i] EXCEPT !.shelf = k]
  <2>1. items[i] \in Item
    BY <1>3 DEF MoveItem, ShelfTypes
  <2>2. Edit({}, {i}, {x}) /\ Fits(items[i].skin, k)
    BY <1>3 DEF MoveItem, Movable_to
  <2>3. x \in Item /\ x.skin = items[i].skin /\ x.shelf = k
    BY <2>1 DEF Item
  <2> HIDE DEF x
  <2> QED BY <2>2, <2>3, EditKeeps
<1>4. ASSUME NEW i \in ItemIds, RemoveItem(i)
      PROVE  ShelfTypes' /\ ShelfInv'
  BY <1>4, EditKeeps DEF RemoveItem
<1>5. ASSUME NEW k \in Shelves, CreateShelf(k) \/ DeleteShelf(k)
      PROVE  ShelfTypes' /\ ShelfInv'
  BY <1>5 DEF CreateShelf, DeleteShelf, ShelfTypes, ShelfInv
<1> QED BY <1>1, <1>2, <1>3, <1>4, <1>5, CommitKeeps DEF ShelfStep

SkinTypes ==
    /\ skins \in [Skins -> {"absent", "active", "success", "failed"} \cup Gone]
    /\ worn \in [Members -> Skins \cup {NoSkin}]
    /\ choices \subseteq Members \X Skins

\* A deletion takes the skin off and remembers who is choosing it.
LEMMA SkinStepKeeps ==
  ASSUME SkinTypes, ChoiceInv, SkinStep
  PROVE  SkinTypes' /\ ChoiceInv'
<1> USE LibraryAssumption DEF SkinTypes, Gone
<1>1. ASSUME NEW s \in Skins, DeleteSkin(s)
      PROVE  SkinTypes' /\ ChoiceInv'
  <2>1. /\ skins' = [skins EXCEPT ![s] = "deleted"] /\ UNCHANGED choices
        /\ worn' = [u \in Members |-> IF worn[u] = s THEN NoSkin ELSE worn[u]]
        /\ caught' = caught \cup {c \in choices : c[2] = s}
    BY <1>1 DEF DeleteSkin, Undressed
  <2>2. \A c \in choices : c[2] \in Skins
    OBVIOUS
  <2>3. SkinTypes'
    BY <2>1
  <2>4. ASSUME NEW c \in choices'
        PROVE  SkinIsPublic[c[2]] /\ (c \in caught' \/ skins'[c[2]] \notin {"absent"} \cup Gone)
    BY <2>1, <2>2 DEF ChoiceInv
  <2>5. ASSUME NEW u \in Members, worn'[u] # NoSkin
        PROVE  SkinIsPublic[worn'[u]] /\ (skins'[worn'[u]] \in Gone => <<u, worn'[u]>> \in caught')
    <3>1. worn'[u] = worn[u] /\ worn[u] # s /\ worn[u] \in Skins
      BY <2>1, <2>5
    <3> QED BY <2>1, <3>1 DEF ChoiceInv
  <2> QED BY <2>3, <2>4, <2>5 DEF ChoiceInv
<1>2. ASSUME NEW s \in Skins, WithdrawSkin(s)
      PROVE  SkinTypes' /\ ChoiceInv'
  <2>1. /\ skins' = [skins EXCEPT ![s] = "withdrawn"] /\ UNCHANGED choices
        /\ worn' = [u \in Members |-> IF worn[u] = s THEN NoSkin ELSE worn[u]]
        /\ caught' = {c \in caught : c[2] = s => c \in choices}
        /\ skins[s] = "deleted"
    BY <1>2 DEF WithdrawSkin, Undressed
  <2>2. \A c \in choices : c[2] \in Skins
    OBVIOUS
  <2>3. SkinTypes'
    BY <2>1
  <2>4. ASSUME NEW c \in choices'
        PROVE  SkinIsPublic[c[2]] /\ (c \in caught' \/ skins'[c[2]] \notin {"absent"} \cup Gone)
    BY <2>1, <2>2 DEF ChoiceInv
  <2>5. ASSUME NEW u \in Members, worn'[u] # NoSkin
        PROVE  SkinIsPublic[worn'[u]] /\ (skins'[worn'[u]] \in Gone => <<u, worn'[u]>> \in caught')
    <3>1. worn'[u] = worn[u] /\ worn[u] # s /\ worn[u] \in Skins
      BY <2>1, <2>5
    <3> QED BY <2>1, <3>1 DEF ChoiceInv
  <2> QED BY <2>3, <2>4, <2>5 DEF ChoiceInv
<1>3. ASSUME NEW s \in Skins, NEW status \in {"active", "success", "failed"}, SetStatus(s, status)
      PROVE  SkinTypes' /\ ChoiceInv'
  <2>1. /\ skins' = [skins EXCEPT ![s] = status] /\ status \notin Gone /\ status # "absent"
        /\ UNCHANGED <<worn, choices, caught>>
    BY <1>3 DEF SetStatus, wornVars
  <2>2. \A c \in choices : c[2] \in Skins
    OBVIOUS
  <2> QED BY <2>1, <2>2 DEF ChoiceInv
<1> QED BY <1>1, <1>2, <1>3 DEF SkinStep

LEMMA WornStepKeeps ==
  ASSUME SkinTypes, ChoiceInv, WornStep, UNCHANGED skins
  PROVE  SkinTypes' /\ ChoiceInv'
<1> USE LibraryAssumption DEF SkinTypes
<1>1. ASSUME NEW s \in Skins, NEW u \in Members, ChooseSkin(u, s)
      PROVE  SkinTypes' /\ ChoiceInv'
  BY <1>1 DEF ChooseSkin, ChoiceInv
<1>2. ASSUME NEW c \in choices, WearSkin(c)
      PROVE  SkinTypes' /\ ChoiceInv'
  <2>1. c[1] \in Members /\ c[2] \in Skins /\ c = <<c[1], c[2]>>
    OBVIOUS
  <2>2. worn' = [worn EXCEPT ![c[1]] = c[2]] /\ choices' \subseteq choices /\ UNCHANGED caught
    BY <1>2 DEF WearSkin
  <2>3. SkinIsPublic[c[2]] /\ (c \in caught \/ skins[c[2]] \notin Gone)
    BY DEF ChoiceInv
  <2>4. \A u \in Members : worn'[u] = IF u = c[1] THEN c[2] ELSE worn[u]
    BY <2>1, <2>2
  <2>5. SkinTypes'
    BY <2>1, <2>2
  <2> QED BY <2>1, <2>2, <2>3, <2>4, <2>5 DEF ChoiceInv
<1>3. ASSUME NEW u \in Members, TakeOff(u)
      PROVE  SkinTypes' /\ ChoiceInv'
  BY <1>3 DEF TakeOff, ChoiceInv
<1> QED BY <1>1, <1>2, <1>3 DEF WornStep

LoveTableTypes ==
    /\ loves \in [Members -> [Skins -> 0..MaxRows]]
    /\ love_counts \in [Skins -> 0..MaxRows]
    /\ LoveTypes

\* A like that nothing has overlapped is written as things still are.
LEMMA WriteKeeps ==
  ASSUME LoveTableTypes, LoveOK, NEW l \in loving, WriteLike(l), UNCHANGED skins
  PROVE  LoveTableTypes' /\ LoveOK'
<1>1. l.user \in Members /\ l.skin \in Skins /\ MaxRows \in Nat
  BY LibraryAssumption DEF LoveTableTypes, LoveTypes
<1>2. /\ loves' = [loves EXCEPT ![l.user][l.skin] = IF l.liked THEN Less(@) ELSE @ + 1]
      /\ love_counts' = [love_counts EXCEPT ![l.skin] = NewCount(l)]
      /\ loves'[l.user][l.skin] <= MaxRows /\ love_counts'[l.skin] <= MaxRows
      /\ loving' = loving \ {l} /\ UNCHANGED crossed
  BY DEF WriteLike
<1>3. \A u \in Members, s \in Skins : loves'[u][s] =
        IF u = l.user /\ s = l.skin THEN (IF l.liked THEN Less(loves[u][s]) ELSE loves[u][s] + 1)
        ELSE loves[u][s]
  BY <1>1, <1>2 DEF LoveTableTypes
<1>4. \A s \in Skins : love_counts'[s] = IF s = l.skin THEN NewCount(l) ELSE love_counts[s]
  BY <1>1, <1>2 DEF LoveTableTypes
<1>5. loves[l.user][l.skin] \in Nat /\ love_counts[l.skin] \in Nat
  BY <1>1 DEF LoveTableTypes
<1>6. LoveTableTypes'
  <2>1. \A n \in 0..MaxRows : Less(n) \in 0..MaxRows
    BY <1>1 DEF Less
  <2>2. \A u \in Members, s \in Skins : loves'[u][s] \in 0..MaxRows
    <3> SUFFICES ASSUME NEW u \in Members, NEW s \in Skins PROVE loves'[u][s] \in 0..MaxRows
      OBVIOUS
    <3>1. loves[u][s] \in 0..MaxRows
      BY DEF LoveTableTypes
    <3>2. CASE u = l.user /\ s = l.skin
      <4>1. loves'[u][s] <= MaxRows
        BY <1>2, <3>2
      <4>2. loves'[u][s] = IF l.liked THEN Less(loves[u][s]) ELSE loves[u][s] + 1
        BY <1>3, <3>2
      <4> QED BY <1>1, <2>1, <3>1, <4>1, <4>2
    <3>3. CASE ~(u = l.user /\ s = l.skin)
      BY <1>3, <3>1, <3>3
    <3> QED BY <3>2, <3>3
  <2>3. loves' \in [Members -> [Skins -> 0..MaxRows]]
    BY <1>1, <1>2, <2>2 DEF LoveTableTypes
  <2>4. NewCount(l) \in Nat
    BY DEF NewCount, Less, LoveTableTypes, LoveTypes
  <2>5. love_counts' \in [Skins -> 0..MaxRows]
    BY <1>1, <1>2, <1>4, <2>4 DEF LoveTableTypes
  <2> QED BY <1>2, <2>3, <2>5 DEF LoveTableTypes, LoveTypes
<1>7. ASSUME NEW s \in Skins, s # l.skin PROVE LoveInv(s)'
  <2>1. LikersOf(s)' = LikersOf(s)
    BY <1>3, <1>7 DEF LikersOf
  <2>2. \A u \in Members : loves'[u][s] = loves[u][s]
    BY <1>3, <1>7
  <2>3. love_counts'[s] = love_counts[s]
    BY <1>4, <1>7
  <2> QED BY <1>2, <2>1, <2>2, <2>3, <1>7 DEF LoveOK, LoveInv, LoveTableTypes, LoveTypes
<1>8. ASSUME l.skin \notin crossed PROVE LoveInv(l.skin)'
  <2> DEFINE s == l.skin
             u == l.user
  <2>1. /\ l.count = love_counts[s] /\ (l.liked <=> loves[u][s] > 0)
        /\ \A m \in loving : m.skin = s => m = l
        /\ \A v \in Members : loves[v][s] <= 1
        /\ IsFiniteSet(LikersOf(s)) /\ love_counts[s] = Cardinality(LikersOf(s))
        /\ skins[s] # "withdrawn"
    BY <1>1, <1>8 DEF LoveOK, LoveInv
  <2>2. \A m \in loving' : m.skin # s
    BY <1>2, <2>1
  <2>3. CASE l.liked
    <3>1. u \in LikersOf(s) /\ loves'[u][s] = 0
      BY <1>1, <1>3, <1>5, <2>1, <2>3 DEF LikersOf, Less
    <3>2. LikersOf(s)' = LikersOf(s) \ {u}
      BY <1>1, <1>3, <3>1 DEF LikersOf
    <3>3. IsFiniteSet(LikersOf(s)') /\ Cardinality(LikersOf(s)') = Cardinality(LikersOf(s)) - 1
      BY <2>1, <3>1, <3>2, FS_RemoveElement
    <3>4. love_counts'[s] = Cardinality(LikersOf(s)) - 1
      <4>1. Cardinality(LikersOf(s)) \in Nat /\ Cardinality(LikersOf(s)) # 0
        BY <2>1, <3>1, FS_CardinalityType, FS_EmptySet
      <4> QED BY <1>1, <1>4, <2>1, <2>3, <4>1 DEF NewCount, Less
    <3>5. \A v \in Members : loves'[v][s] <= 1
      BY <1>1, <1>3, <2>1, <3>1
    <3> QED BY <2>1, <2>2, <3>3, <3>4, <3>5 DEF LoveInv
  <2>4. CASE ~l.liked
    <3>1. u \notin LikersOf(s) /\ loves'[u][s] = 1
      BY <1>1, <1>3, <1>5, <2>1, <2>4 DEF LikersOf
    <3>2. LikersOf(s)' = LikersOf(s) \cup {u}
      BY <1>1, <1>3, <3>1 DEF LikersOf
    <3>3. IsFiniteSet(LikersOf(s)') /\ Cardinality(LikersOf(s)') = Cardinality(LikersOf(s)) + 1
      BY <2>1, <3>1, <3>2, FS_AddElement
    <3>4. love_counts'[s] = Cardinality(LikersOf(s)) + 1
      BY <1>1, <1>4, <2>1, <2>4 DEF NewCount
    <3>5. \A v \in Members : loves'[v][s] <= 1
      BY <1>1, <1>3, <2>1, <3>1
    <3> QED BY <2>1, <2>2, <3>3, <3>4, <3>5 DEF LoveInv
  <2> QED BY <2>3, <2>4
<1>9. l.skin \in crossed => LoveInv(l.skin)'
  BY <1>2 DEF LoveInv
<1>10. ASSUME NEW u \in Members, NEW s \in Skins PROVE PairInv(u, s)'
  <2>1. PairInv(u, s) /\ loves[u][s] \in Nat
    BY LibraryAssumption DEF LoveOK, LoveTableTypes
  <2>2. CASE u = l.user /\ s = l.skin
    <3> SUFFICES ASSUME <<u, s>> \notin crossed
                 PROVE  loves'[u][s] <= 1 /\ \A m \in loving' : ~(m.skin = s /\ m.user = u)
      BY <1>2 DEF PairInv
    <3>1. loves[u][s] <= 1 /\ (~l.liked => loves[u][s] = 0)
      BY <2>1, <2>2 DEF PairInv
    <3>2. loves'[u][s] <= 1
      BY <1>3, <2>1, <2>2, <3>1 DEF Less
    <3>3. \A m \in loving : m.skin = s /\ m.user = u => m = l
      BY <2>1, <2>2 DEF PairInv
    <3> QED BY <1>2, <3>2, <3>3
  <2>3. CASE ~(u = l.user /\ s = l.skin)
    <3>1. loves'[u][s] = loves[u][s]
      BY <1>3, <2>3
    <3> QED BY <1>2, <2>1, <3>1 DEF PairInv
  <2> QED BY <2>2, <2>3
<1> QED BY <1>6, <1>7, <1>8, <1>9, <1>10 DEF LoveOK

LEMMA LoveStepKeeps ==
  ASSUME LoveTableTypes, LoveOK, LoveStep, UNCHANGED skins
  PROVE  LoveTableTypes' /\ LoveOK'
<1>1. ASSUME NEW s \in Skins, NEW u \in Members, ReadLike(u, s)
      PROVE  LoveTableTypes' /\ LoveOK'
  <2> DEFINE new == [user |-> u, skin |-> s, liked |-> loves[u][s] > 0, count |-> love_counts[s]]
  <2>1. /\ new.user = u /\ new.skin = s /\ new.liked = (loves[u][s] > 0) /\ new.count = love_counts[s]
        /\ loves[u][s] \in Nat /\ love_counts[s] \in Nat
    BY LibraryAssumption DEF LoveTableTypes
  <2>2. /\ loving' = loving \cup {new} /\ UNCHANGED <<loves, love_counts>>
        /\ crossed \subseteq crossed' /\ skins[s] # "withdrawn"
        /\ \A l \in loving : l.skin = s => s \in crossed'
        /\ \A l \in loving : l.skin = s /\ l.user = u => <<u, s>> \in crossed'
    BY <1>1 DEF ReadLike, Gone
  <2> HIDE DEF new
  <2>3. LoveTableTypes'
    <3>1. new.liked \in BOOLEAN /\ new.user \in Members /\ new.skin \in Skins /\ new.count \in Nat
      BY <2>1
    <3> QED BY <2>2, <3>1 DEF LoveTableTypes, LoveTypes
  <2>4. ASSUME NEW x \in Skins PROVE LoveInv(x)'
    <3>1. LikersOf(x)' = LikersOf(x)
      BY <2>2 DEF LikersOf
    <3>2. LoveInv(x)
      BY DEF LoveOK
    <3>3. CASE x = s
      <4> SUFFICES ASSUME s \notin crossed' PROVE LoveInv(s)'
        BY <3>3 DEF LoveInv
      <4>1. \A l \in loving : l.skin # s
        BY <2>2
      <4>2. \A l \in loving' : l.skin = s => l = new
        BY <2>2, <4>1
      <4>3. /\ \A v \in Members : loves'[v][s] <= 1
            /\ IsFiniteSet(LikersOf(s)') /\ love_counts'[s] = Cardinality(LikersOf(s)')
            /\ skins'[s] # "withdrawn"
        BY <2>2, <3>1, <3>2, <3>3 DEF LoveInv
      <4>4. new.count = love_counts'[s] /\ (new.liked <=> loves'[new.user][s] > 0)
        BY <2>1, <2>2
      <4> QED BY <4>2, <4>3, <4>4 DEF LoveInv
    <3>4. CASE x # s
      <4>1. \A l \in loving' : l.skin = x => l \in loving
        BY <2>1, <2>2, <3>4
      <4>2. x \notin crossed' => x \notin crossed
        BY <2>2
      <4> QED BY <2>2, <3>1, <3>2, <4>1, <4>2 DEF LoveInv
    <3> QED BY <3>3, <3>4
  <2>5. ASSUME NEW v \in Members, NEW x \in Skins PROVE PairInv(v, x)'
    <3>1. PairInv(v, x)
      BY DEF LoveOK
    <3>2. CASE v = u /\ x = s
      <4> SUFFICES ASSUME <<u, s>> \notin crossed'
                   PROVE  /\ \A l \in loving : ~(l.skin = s /\ l.user = u)
                          /\ ~new.liked => loves[u][s] = 0
                          /\ loves[u][s] <= 1
        <5>1. \A l \in loving' : l \in loving \/ l = new
          BY <2>2
        <5> QED BY <2>1, <2>2, <3>2, <5>1 DEF PairInv
      <4>1. \A l \in loving : ~(l.skin = s /\ l.user = u)
        BY <2>2
      <4>2. loves[u][s] <= 1
        BY <2>2, <3>1, <3>2 DEF PairInv
      <4>3. ASSUME ~new.liked PROVE loves[u][s] = 0
        <5>1. ~(loves[u][s] > 0)
          BY <2>1, <4>3, Zenon
        <5> QED BY <2>1, <5>1
      <4> QED BY <4>1, <4>2, <4>3
    <3>3. CASE ~(v = u /\ x = s)
      <4>1. ~(new.skin = x /\ new.user = v)
        <5>1. new.skin = s /\ new.user = u
          BY <2>1
        <5> QED BY <3>3, <5>1
      <4>2. \A l \in loving' : l.skin = x /\ l.user = v => l \in loving
        BY <2>2, <4>1
      <4>3. <<v, x>> \notin crossed' => <<v, x>> \notin crossed
        BY <2>2
      <4> QED BY <2>2, <3>1, <4>2, <4>3 DEF PairInv
    <3> QED BY <3>2, <3>3
  <2> QED BY <2>3, <2>4, <2>5 DEF LoveOK
<1> QED BY <1>1, WriteKeeps DEF LoveStep

\* A deletion leaves the likes, and a withdrawal takes all of a skin's.
LEMMA SkinLoveKeeps ==
  ASSUME SkinTypes, LoveTableTypes, LoveOK, SkinStep
  PROVE  LoveTableTypes' /\ LoveOK'
<1>1. ASSUME NEW s \in Skins, NEW status \in {"active", "success", "failed", "deleted"},
             skins' = [skins EXCEPT ![s] = status], UNCHANGED loveVars
      PROVE  LoveTableTypes' /\ LoveOK'
  <2>1. UNCHANGED <<loves, love_counts, loving, crossed>>
    BY <1>1 DEF loveVars
  <2>2. \A x \in Skins : LikersOf(x)' = LikersOf(x) /\ (skins'[x] = "withdrawn" => skins[x] = "withdrawn")
    BY <1>1, <2>1 DEF LikersOf, SkinTypes
  <2>3. LoveTableTypes'
    BY <2>1 DEF LoveTableTypes, LoveTypes
  <2>4. \A x \in Skins : LoveInv(x)'
    BY <2>1, <2>2 DEF LoveOK, LoveInv
  <2>5. \A u \in Members, x \in Skins : PairInv(u, x)'
    BY <2>1 DEF LoveOK, PairInv
  <2> QED BY <2>3, <2>4, <2>5 DEF LoveOK
<1>2. ASSUME NEW s \in Skins, WithdrawSkin(s)
      PROVE  LoveTableTypes' /\ LoveOK'
  <2>1. /\ skins' = [skins EXCEPT ![s] = "withdrawn"] /\ UNCHANGED loving
        /\ love_counts' = [love_counts EXCEPT ![s] = 0]
        /\ crossed \subseteq crossed' /\ \A l \in loving : l.skin = s => s \in crossed'
        /\ loves' = [u \in Members |-> [loves[u] EXCEPT ![s] = 0]]
    BY <1>2 DEF WithdrawSkin, WithoutLikes
  <2>2. \A u \in Members, x \in Skins : loves'[u][x] = IF x = s THEN 0 ELSE loves[u][x]
    BY <2>1 DEF LoveTableTypes
  <2>3. \A x \in Skins : love_counts'[x] = IF x = s THEN 0 ELSE love_counts[x]
    BY <2>1 DEF LoveTableTypes
  <2>4. LoveTableTypes'
    <3>1. 0 \in 0..MaxRows
      BY LibraryAssumption
    <3> QED BY <2>1, <3>1 DEF LoveTableTypes, LoveTypes
  <2>5. ASSUME NEW x \in Skins, x # s PROVE LoveInv(x)'
    <3>1. LikersOf(x)' = LikersOf(x) /\ skins'[x] = skins[x]
      BY <2>1, <2>2, <2>5 DEF LikersOf, SkinTypes
    <3>2. LoveInv(x)
      BY DEF LoveOK
    <3>3. \A u \in Members : loves'[u][x] = loves[u][x]
      BY <2>2, <2>5
    <3>4. love_counts'[x] = love_counts[x]
      BY <2>3, <2>5
    <3> QED BY <2>1, <3>1, <3>2, <3>3, <3>4 DEF LoveInv, LoveTableTypes, LoveTypes
  <2>6. LoveInv(s)'
    <3>1. LikersOf(s)' = {}
      BY <2>2 DEF LikersOf
    <3>2. IsFiniteSet(LikersOf(s)') /\ Cardinality(LikersOf(s)') = 0
      BY <3>1, FS_EmptySet
    <3> QED BY <2>1, <2>2, <2>3, <3>2 DEF LoveInv
  <2>7. ASSUME NEW u \in Members, NEW x \in Skins PROVE PairInv(u, x)'
    <3>1. PairInv(u, x)
      BY DEF LoveOK
    <3> QED BY <2>1, <2>2, <3>1 DEF PairInv
  <2> QED BY <2>4, <2>5, <2>6, <2>7 DEF LoveOK
<1>3. ASSUME NEW s \in Skins, NEW status \in {"active", "success", "failed"}, SetStatus(s, status)
      PROVE  LoveTableTypes' /\ LoveOK'
  BY <1>1, <1>3 DEF SetStatus
<1>4. ASSUME NEW s \in Skins, DeleteSkin(s)
      PROVE  LoveTableTypes' /\ LoveOK'
  BY <1>1, <1>4 DEF DeleteSkin
<1> QED BY <1>2, <1>3, <1>4 DEF SkinStep

\* Items only go when a skin does.
LEMMA SkinShelfKeeps ==
  ASSUME ShelfTypes, ShelfInv, SkinStep, UNCHANGED <<shelves, edits>>
  PROVE  ShelfTypes' /\ ShelfInv'
<1>1. ASSUME NEW s \in Skins, WithdrawSkin(s)
      PROVE  ShelfTypes' /\ ShelfInv'
  <2>1. items' = [i \in ItemIds |-> IF items[i] # NoItem /\ items[i].skin = s THEN NoItem ELSE items[i]]
    BY <1>1 DEF WithdrawSkin
  <2> QED BY <2>1 DEF ShelfTypes, ShelfInv
<1>2. (\E s \in Skins : WithdrawSkin(s)) \/ UNCHANGED items
  BY DEF SkinStep, SetStatus, DeleteSkin, shelfVars
<1> QED BY <1>1, <1>2 DEF ShelfTypes, ShelfInv

CacheTypes == tick \in Nat /\ deleted_at \in [Skins -> Nat] /\ redis \in Listing /\ local \in [Servers -> Listing]

\* What is in a list when it is deleted was in it before.
LEMMA SkinCacheKeeps ==
  ASSUME SkinTypes, CacheTypes, CacheInv, SkinStep
  PROVE  CacheTypes' /\ CacheInv'
<1> USE LibraryAssumption DEF CacheTypes, Listing
<1>1. UNCHANGED <<tick, redis, local, refreshes>>
  BY DEF SkinStep, SetStatus, DeleteSkin, WithdrawSkin, cacheVars
<1>2. deleted_at' \in [Skins -> Nat]
  BY DEF SkinStep, SetStatus, DeleteSkin, WithdrawSkin
<1>3. \A s \in Skins : skins'[s] \in Gone =>
        \/ skins[s] \in Gone /\ deleted_at'[s] = deleted_at[s]
        \/ deleted_at'[s] = tick
  <2>1. ASSUME NEW s \in Skins, DeleteSkin(s)
        PROVE  \A x \in Skins : skins'[x] \in Gone =>
                 \/ skins[x] \in Gone /\ deleted_at'[x] = deleted_at[x]
                 \/ deleted_at'[x] = tick
    BY <2>1 DEF DeleteSkin, SkinTypes
  <2>2. ASSUME NEW s \in Skins, WithdrawSkin(s)
        PROVE  \A x \in Skins : skins'[x] \in Gone => skins[x] \in Gone /\ deleted_at'[x] = deleted_at[x]
    BY <2>2 DEF WithdrawSkin, SkinTypes, Gone
  <2>3. ASSUME NEW s \in Skins, NEW status \in {"active", "success", "failed"}, SetStatus(s, status)
        PROVE  \A x \in Skins : skins'[x] \in Gone => skins[x] \in Gone /\ deleted_at'[x] = deleted_at[x]
    BY <2>3 DEF SetStatus, SkinTypes, Gone
  <2> QED BY <2>1, <2>2, <2>3 DEF SkinStep
<1>4. ASSUME NEW r \in refreshes, NEW s \in r.list, skins'[s] \in Gone
      PROVE  r.since <= deleted_at'[s]
  <2>1. s \in Skins /\ r.since <= tick
    BY DEF CacheInv
  <2> QED BY <1>3, <1>4, <2>1 DEF CacheInv
<1>5. ASSUME NEW s \in redis.list, skins'[s] \in Gone
      PROVE  redis.since <= deleted_at'[s] + RefreshTime
  <2>1. s \in Skins /\ redis.since <= tick /\ redis.since \in Nat
    BY DEF CacheInv
  <2> QED BY <1>3, <1>5, <2>1 DEF CacheInv
<1>6. ASSUME NEW p \in Servers, NEW s \in local[p].list, skins'[s] \in Gone
      PROVE  local[p].since <= deleted_at'[s] + RefreshTime + RedisAge
  <2>1. local[p] \in Listing
    OBVIOUS
  <2>2. s \in Skins /\ local[p].since <= tick /\ local[p].since \in Nat
    BY <2>1 DEF CacheInv
  <2> QED BY <1>3, <1>6, <2>2 DEF CacheInv
<1> QED BY <1>1, <1>2, <1>4, <1>5, <1>6 DEF CacheInv

LEMMA CacheStepKeeps ==
  ASSUME SkinTypes, CacheTypes, CacheInv, CacheStep, UNCHANGED <<skins, deleted_at>>
  PROVE  CacheTypes' /\ CacheInv'
<1> USE LibraryAssumption DEF CacheTypes, Listing
<1>0. \A p \in Servers : local[p] \in Listing
  OBVIOUS
<1>1. ASSUME TimePassesHere
      PROVE  CacheTypes' /\ CacheInv'
  <2>1. tick' = tick + 1 /\ UNCHANGED <<redis, local, refreshes>>
        /\ \A r \in refreshes : tick < r.since + RefreshTime
    BY <1>1 DEF TimePassesHere
  <2>2. CacheTypes'
    BY <2>1
  <2>3. ASSUME NEW r \in refreshes
        PROVE  r.since \in Nat /\ r.since <= tick' /\ tick' <= r.since + RefreshTime
    BY <2>1 DEF CacheInv
  <2>4. redis.since <= tick' /\ \A p \in Servers : local[p].since <= tick'
    BY <1>0, <2>1 DEF CacheInv
  <2> QED BY <2>1, <2>2, <2>3, <2>4 DEF CacheInv
<1>2. ASSUME NEW p, ReadDiscoveries(p)
      PROVE  CacheTypes' /\ CacheInv'
  <2> DEFINE new == [by |-> p, list |-> {s \in Skins : skins[s] = "success" /\ SkinIsPublic[s]}, since |-> tick]
  <2>1. refreshes' = refreshes \cup {new} /\ UNCHANGED <<tick, redis, local>>
    BY <1>2 DEF ReadDiscoveries
  <2>2. /\ new.list \subseteq {s \in Skins : SkinIsPublic[s]} /\ new.since = tick
        /\ \A s \in new.list : skins[s] \notin Gone
    BY DEF Gone
  <2>3. tick <= tick + RefreshTime
    OBVIOUS
  <2> HIDE DEF new
  <2> QED BY <2>1, <2>2, <2>3 DEF CacheInv
<1>3. ASSUME NEW r \in refreshes, NEW stored \in BOOLEAN, StoreDiscoveries(r, stored)
      PROVE  CacheTypes' /\ CacheInv'
  <2> DEFINE found == [list |-> r.list, since |-> tick]
  <2>1. /\ refreshes' = refreshes \ {r} /\ UNCHANGED tick
        /\ local' = IF r.by \in Servers THEN [local EXCEPT ![r.by] = found] ELSE local
        /\ redis' = IF stored THEN found ELSE redis
    BY <1>3 DEF StoreDiscoveries
  <2>2. /\ found \in Listing /\ found.list = r.list /\ found.since = tick
        /\ r.list \subseteq {s \in Skins : SkinIsPublic[s]}
    BY DEF CacheInv
  <2>3. \A s \in found.list : skins[s] \in Gone =>
          found.since <= deleted_at[s] + RefreshTime /\ found.since <= deleted_at[s] + RefreshTime + RedisAge
    <3> SUFFICES ASSUME NEW s \in r.list, skins[s] \in Gone
                 PROVE  tick <= deleted_at[s] + RefreshTime /\ tick <= deleted_at[s] + RefreshTime + RedisAge
      BY <2>2
    <3>1. s \in Skins /\ r.since <= deleted_at[s] /\ tick <= r.since + RefreshTime /\ r.since \in Nat
      BY DEF CacheInv
    <3> QED BY <3>1
  <2> HIDE DEF found
  <2>4. CacheTypes'
    BY <2>1, <2>2
  <2>5. \A p \in Servers : local'[p] = found \/ local'[p] = local[p]
    BY <2>1
  <2>6. redis' = found \/ redis' = redis
    BY <2>1
  <2>7. tick' = tick /\ refreshes' \subseteq refreshes
    BY <2>1
  <2> HIDE DEF CacheTypes, Listing
  <2>8. /\ \A s \in redis'.list : SkinIsPublic[s]
        /\ redis'.since <= tick'
        /\ \A s \in redis'.list : skins[s] \in Gone => redis'.since <= deleted_at[s] + RefreshTime
    <3>1. tick <= tick
      BY DEF CacheTypes
    <3> QED BY <2>2, <2>3, <2>6, <2>7, <3>1 DEF CacheInv
  <2>9. ASSUME NEW p \in Servers
        PROVE  /\ \A s \in local'[p].list : SkinIsPublic[s]
               /\ local'[p].since <= tick'
               /\ \A s \in local'[p].list :
                    skins[s] \in Gone => local'[p].since <= deleted_at[s] + RefreshTime + RedisAge
    <3>1. tick <= tick
      BY DEF CacheTypes
    <3> QED BY <2>2, <2>3, <2>5, <2>7, <3>1 DEF CacheInv
  <2>10. \A x \in refreshes' :
        /\ x.list \subseteq {s \in Skins : SkinIsPublic[s]}
        /\ x.since \in Nat /\ x.since <= tick' /\ tick' <= x.since + RefreshTime
        /\ \A s \in x.list : skins[s] \in Gone => x.since <= deleted_at[s]
    BY <2>7 DEF CacheInv
  <2> QED BY <2>4, <2>8, <2>9, <2>10 DEF CacheInv
<1>4. ASSUME NEW p \in Servers, FetchDiscoveries(p)
      PROVE  CacheTypes' /\ CacheInv'
  <2> DEFINE found == [list |-> redis.list, since |-> tick]
  <2>1. /\ local' = [local EXCEPT ![p] = found] /\ UNCHANGED <<tick, redis, refreshes>>
        /\ tick < redis.since + RedisAge
    BY <1>4 DEF FetchDiscoveries, InRedis
  <2>2. found \in Listing /\ found.list = redis.list /\ found.since = tick
    OBVIOUS
  <2>3. /\ \A s \in found.list : SkinIsPublic[s]
        /\ \A s \in found.list : skins[s] \in Gone => found.since <= deleted_at[s] + RefreshTime + RedisAge
    <3>1. ASSUME NEW s \in redis.list, skins[s] \in Gone
          PROVE  tick <= deleted_at[s] + RefreshTime + RedisAge
      <4>1. s \in Skins /\ redis.since <= deleted_at[s] + RefreshTime /\ redis.since \in Nat
        BY <3>1 DEF CacheInv
      <4> QED BY <2>1, <4>1
    <3> QED BY <2>2, <3>1 DEF CacheInv
  <2> HIDE DEF found
  <2>4. CacheTypes'
    BY <2>1, <2>2
  <2>5. \A q \in Servers : local'[q] = found \/ local'[q] = local[q]
    BY <2>1
  <2>6. tick <= tick
    OBVIOUS
  <2> HIDE DEF CacheTypes, Listing
  <2>7. ASSUME NEW q \in Servers
        PROVE  /\ \A s \in local'[q].list : SkinIsPublic[s]
               /\ local'[q].since <= tick'
               /\ \A s \in local'[q].list :
                    skins[s] \in Gone => local'[q].since <= deleted_at[s] + RefreshTime + RedisAge
    BY <2>1, <2>2, <2>3, <2>5, <2>6 DEF CacheInv
  <2> QED BY <2>1, <2>4, <2>7 DEF CacheInv
<1> QED BY <1>1, <1>2, <1>3, <1>4 DEF CacheStep

LEMMA LibraryInvStep == LibraryInv /\ [LibraryNext]_libraryVars => LibraryInv'
<1> SUFFICES ASSUME LibraryInv, [LibraryNext]_libraryVars PROVE LibraryInv'
  OBVIOUS
<1> DEFINE Inv == /\ subscribers \subseteq Members /\ ShelfTypes /\ SkinTypes /\ LoveTableTypes /\ CacheTypes
                  /\ ShelfInv /\ ChoiceInv /\ LoveOK /\ CacheInv
<1>1. Inv
  BY DEF LibraryInv, LibraryTypeOK, ShelfTypes, SkinTypes, LoveTableTypes, CacheTypes
<1>2. Inv' => LibraryInv'
  BY DEF LibraryInv, LibraryTypeOK, ShelfTypes, SkinTypes, LoveTableTypes, CacheTypes
<1>3. UNCHANGED shelfVars => ShelfTypes' /\ ShelfInv'
  BY <1>1 DEF shelfVars, ShelfTypes, ShelfInv
<1>4. UNCHANGED <<skins, wornVars>> => SkinTypes' /\ ChoiceInv'
  BY <1>1 DEF wornVars, SkinTypes, ChoiceInv
<1>5. UNCHANGED <<skins, loveVars>> => LoveTableTypes' /\ LoveOK'
  <2> SUFFICES ASSUME UNCHANGED <<skins, loveVars>> PROVE LoveTableTypes' /\ LoveOK'
    OBVIOUS
  <2>1. UNCHANGED <<loves, love_counts, loving, crossed>>
    BY DEF loveVars
  <2>2. \A s \in Skins : LikersOf(s)' = LikersOf(s)
    BY <2>1 DEF LikersOf
  <2> QED BY <1>1, <2>1, <2>2 DEF LoveTableTypes, LoveTypes, LoveOK, LoveInv, PairInv
<1>6. UNCHANGED <<skins, deleted_at, cacheVars>> => CacheTypes' /\ CacheInv'
  BY <1>1 DEF cacheVars, CacheTypes, CacheInv
<1>7. CASE SkinStep /\ UNCHANGED <<subscribers, shelves, edits>>
  BY <1>1, <1>2, <1>7, SkinStepKeeps, SkinLoveKeeps, SkinShelfKeeps, SkinCacheKeeps
<1>8. CASE WornStep /\ UNCHANGED <<skins, deleted_at, subscribers, shelfVars, loveVars, cacheVars>>
  BY <1>1, <1>2, <1>3, <1>5, <1>6, <1>8, WornStepKeeps
<1>9. CASE ShelfStep /\ UNCHANGED <<skins, deleted_at, subscribers, wornVars, loveVars, cacheVars>>
  BY <1>1, <1>2, <1>4, <1>5, <1>6, <1>9, ShelfStepKeeps
<1>10. CASE LoveStep /\ UNCHANGED <<skins, deleted_at, subscribers, shelfVars, wornVars, cacheVars>>
  BY <1>1, <1>2, <1>3, <1>4, <1>6, <1>10, LoveStepKeeps
<1>11. CASE CacheStep /\ UNCHANGED <<skins, deleted_at, subscribers, shelfVars, wornVars, loveVars>>
  BY <1>1, <1>2, <1>3, <1>4, <1>5, <1>11, CacheStepKeeps
<1>12. CASE /\ subscribers' \subseteq subscribers \cup Members
            /\ UNCHANGED <<skins, deleted_at, shelfVars, wornVars, loveVars, cacheVars>>
  BY <1>1, <1>2, <1>3, <1>4, <1>5, <1>6, <1>12
<1> QED BY <1>7, <1>8, <1>9, <1>10, <1>11, <1>12, LibraryCases

LEMMA LibraryInvariant == LibrarySpec => []LibraryInv
BY LibraryInvInit, LibraryInvStep, PTL DEF LibrarySpec

\* However edits, moves, choices, deletions and refreshes of the caches overlap, a
\* private skin is shown to its owner only, and a deleted one only by those who
\* were choosing it, and by the caches until their ages have passed.
THEOREM HiddenSkins == LibrarySpec => []HiddenStaysHidden
<1>1. LibraryInv => HiddenStaysHidden
  <2> SUFFICES ASSUME LibraryInv PROVE HiddenStaysHidden
    OBVIOUS
  <2> USE DEF LibraryInv, LibraryTypeOK
  <2>1. \A i \in ItemIds :
          items[i] # NoItem /\ ShelfIsPublic[items[i].shelf] => SkinIsPublic[items[i].skin]
    BY DEF ShelfInv, Fits
  <2>2. ASSUME NEW s \in Skins, NEW v \in Viewers, Shown(s, v)
        PROVE  \/ skins[s] \notin Gone /\ (SkinIsPublic[s] \/ SkinOwner[s] = v)
               \/ ShownAsWorn(s) \/ ShownAsDiscovery(s)
    <3>1. ASSUME NEW k \in shelves, ShownIn(k, s, v)
          PROVE  skins[s] = "success" /\ (SkinIsPublic[s] \/ SkinOwner[s] = v)
      <4>1. SkinOwner[s] # Guest
        BY LibraryAssumption, GuestAssumption
      <4> QED BY <3>1, <4>1 DEF ShownIn, Visible
    <3> QED BY <2>2, <3>1
        DEF Shown, ShownAsLiked, ShownAsCreation, ShownInSearch, DetailsShown, Visible, Gone
  <2>3. ASSUME NEW s \in Skins, ShownAsWorn(s)
        PROVE  SkinIsPublic[s] /\ (skins[s] \in Gone => \E u \in Members : worn[u] = s /\ <<u, s>> \in caught)
    <3>1. PICK u \in Members : worn[u] = s
      BY <2>3 DEF ShownAsWorn
    <3>2. s # NoSkin
      BY LibraryAssumption
    <3> QED BY <3>1, <3>2 DEF ChoiceInv
  <2>4. ASSUME NEW s \in Skins, ShownAsDiscovery(s)
        PROVE  SkinIsPublic[s] /\ (skins[s] \in Gone => tick < deleted_at[s] + RefreshTime + RedisAge + LocalAge)
    <3>1. PICK p \in Servers : IsFresh(p) /\ s \in local[p].list
      BY <2>4 DEF ShownAsDiscovery
    <3>2. /\ tick \in Nat /\ deleted_at[s] \in Nat /\ local[p].since \in Nat
          /\ RefreshTime \in Nat /\ RedisAge \in Nat /\ LocalAge \in Nat
      BY LibraryAssumption DEF Listing
    <3>3. tick < local[p].since + LocalAge
      BY <3>1 DEF IsFresh
    <3>4. SkinIsPublic[s] /\ (skins[s] \in Gone => local[p].since <= deleted_at[s] + RefreshTime + RedisAge)
      BY <3>1 DEF CacheInv
    <3> QED BY <3>2, <3>3, <3>4
  <2>5. PrivateStaysPrivate
    BY <2>1, <2>2, <2>3, <2>4 DEF PrivateStaysPrivate
  <2>6. DeletedIsForgotten
    BY <2>2, <2>3, <2>4 DEF DeletedIsForgotten
  <2> QED BY <2>5, <2>6 DEF HiddenStaysHidden
<1> QED BY <1>1, LibraryInvariant, PTL

\* The counter of a skin whose likes overlapped neither each other nor its
\* withdrawal is the number of users who like it, and none likes it twice.
THEOREM SkinLikesCounted == LibrarySpec => []SkinLikesAddUp
<1>1. LibraryInv => SkinLikesAddUp
  BY DEF LibraryInv, LoveOK, LoveInv, PairInv, LikersOf, SkinLikesAddUp
<1> QED BY <1>1, LibraryInvariant, PTL

-----------------------------------------------------------------------------
(* The forum.                                                                *)

ForumCall ==
    [op : {"like", "unlike", "comment"}, at : {"read", "committed", "noting"},
     user : Posters, post : Posts, seen : Nat, comment : CommentIds \cup {NoComment},
     parent : CommentIds \cup {NoComment}, notice : NoticeIds \cup {NoNotice}, to : Posters]

\* A call is about a post that has been there; a like that is taken back knows
\* the notification, and nobody else has that id.
CallInv ==
    /\ forum_calls \subseteq ForumCall
    /\ \A call \in forum_calls : posts[call.post] # "absent"
    /\ \A call \in forum_calls : call.op = "comment" /\ call.at # "read" => call.comment \in CommentIds
    /\ \A call \in forum_calls : call.op = "unlike" /\ call.at = "noting" =>
        /\ call.notice \in NoticeIds
        /\ notices[call.notice] # NoNotice =>
             /\ notices[call.notice].kind = "like" /\ notices[call.notice].post = call.post
             /\ notices[call.notice].from = call.user

\* A comment that is there, or is being written, answers one that is there,
\* unless the post is gone.
ParentInv ==
    /\ \A call \in forum_calls : call.op = "comment" /\ posts[call.post] # "deleted" =>
        ParentIsThere(call.parent, call.post)
    /\ \A c \in CommentIds : comments[c] # NoComment /\ posts[comments[c].post] # "deleted" =>
        ParentIsThere(comments[c].parent, comments[c].post)

LikesOf(p) == {like \in post_likes : like[2] = p}
LikesUnderWay(p) == {call \in forum_calls : call.op # "comment" /\ call.post = p}

\* Of a post whose likes never overlapped one at most has been read or is being
\* made known, and it has seen the counter and its row as they are.
LikeCountInv(p) ==
    p \notin met /\ posts[p] # "deleted" =>
        /\ post_likes_count[p] = Cardinality(LikesOf(p))
        /\ \A call, other \in LikesUnderWay(p) : call = other
        /\ \A call \in LikesUnderWay(p) : call.at = "read" =>
            /\ call.seen = post_likes_count[p]
            /\ call.op = "like" <=> <<call.user, p>> \notin post_likes

\* The author is told of u's like of p, and should be.
IsTold(u, p) == LikeNotices(u, p) # {}
ToBeTold(u, p) == <<u, p>> \in post_likes /\ u # PostAuthor[p]

\* The author is told once of the like of a user who did not overlap himself, but
\* for the call of his that is under way, whatever the others do.
ToldInv(u, p) ==
    <<u, p>> \notin untold /\ posts[p] # "deleted" =>
        /\ \A call, other \in LikeCalls(u, p) : call = other
        /\ \A n, m \in LikeNotices(u, p) : n = m
        /\ (\A call \in LikeCalls(u, p) : call.at = "read") => (IsTold(u, p) <=> ToBeTold(u, p))
        /\ \A call \in LikeCalls(u, p) :
            /\ call.at = "read" => (call.op = "like" <=> <<u, p>> \notin post_likes)
            /\ call.at # "read" =>
                /\ call.op = "like" <=> <<u, p>> \in post_likes
                /\ call.op = "like" => ~IsTold(u, p)
                /\ call.op = "unlike" => (IsTold(u, p) <=> u # PostAuthor[p])
            /\ call.at = "noting" =>
                /\ u # PostAuthor[p]
                /\ call.op = "unlike" => call.notice \in LikeNotices(u, p)

ForumInv ==
    /\ ForumTypeOK
    /\ IsFiniteSet(post_likes)
    /\ CallInv
    /\ ParentInv
    /\ \A p \in Posts : LikeCountInv(p)
    /\ \A u \in Posters, p \in Posts : ToldInv(u, p)

LEMMA ForumInvInit == ForumInit => ForumInv
<1> SUFFICES ASSUME ForumInit PROVE ForumInv
  OBVIOUS
<1> USE ForumAssumption DEF ForumInit
<1>1. ForumTypeOK /\ IsFiniteSet(post_likes) /\ CallInv /\ ParentInv
  BY FS_EmptySet DEF ForumTypeOK, CallInv, ParentInv
<1>2. ASSUME NEW p \in Posts PROVE LikeCountInv(p)
  <2>1. LikesOf(p) = {} /\ LikesUnderWay(p) = {}
    BY DEF LikesOf, LikesUnderWay
  <2> QED BY <2>1, FS_EmptySet DEF LikeCountInv
<1>3. ASSUME NEW u \in Posters, NEW p \in Posts PROVE ToldInv(u, p)
  <2>1. LikeCalls(u, p) = {} /\ LikeNotices(u, p) = {}
    BY DEF LikeCalls, LikeNotices
  <2> QED BY <2>1 DEF ToldInv, IsTold, ToBeTold
<1> QED BY <1>1, <1>2, <1>3 DEF ForumInv

\* The steps, one by one.
LEMMA ForumCases ==
  ASSUME [ForumNext]_forumVars
  PROVE  \/ \E p \in Posts : UploadPicture(p) \/ DeletePost(p)
         \/ \E p \in Posts, category \in Categories : UpdatePost(p, category)
         \/ \E p \in Posts, category \in Categories, moved \in BOOLEAN : CreatePost(p, category, moved)
         \/ \E u \in Posters, p \in Posts : ReadPostLike(u, p)
         \/ \E u \in Posters, p \in Posts, parent \in CommentIds \cup {NoComment} :
              ReadCommented(u, p, parent)
         \/ \E call \in forum_calls :
              \/ CommitPostLike(call) \/ RefreshLikedPost(call)
              \/ RefreshComment(call) \/ CommitNotice(call) \/ DropCall(call)
         \/ \E call \in forum_calls, c \in CommentIds : CommitComment(call, c)
         \/ \E u \in Posters, ns \in SUBSET NoticeIds : ReadNotices(u, ns)
         \/ UNCHANGED forumVars
<1>1. ASSUME NEW u \in Posters,
             LET own == {n \in NoticeIds : notices[n] # NoNotice /\ notices[n].to = u}
             IN  ReadNotices(u, own) \/ \E n \in own : ReadNotices(u, {n})
      PROVE  \E ns \in SUBSET NoticeIds : ReadNotices(u, ns)
  BY <1>1, Zenon
<1>2. (\E u \in Posters :
         LET own == {n \in NoticeIds : notices[n] # NoNotice /\ notices[n].to = u}
         IN  ReadNotices(u, own) \/ \E n \in own : ReadNotices(u, {n}))
      => \E u \in Posters, ns \in SUBSET NoticeIds : ReadNotices(u, ns)
  BY <1>1, Zenon
<1> QED BY <1>2, Zenon DEF ForumNext

\* What the second half of a call may become.
LEMMA ContinueKeeps ==
  ASSUME ForumTypeOK, IsFiniteSet(post_likes), CallInv,
         NEW call \in forum_calls, NEW one \in ForumCall, Become(call, {one}),
         one.post = call.post, one.op = call.op, one.user = call.user, one.at # "read",
         one.op = "comment" => one.comment \in CommentIds,
         one.op = "unlike" /\ one.at = "noting" =>
            one.notice \in NoticeIds /\ notices[one.notice].kind = "like"
            /\ notices[one.notice].post = one.post /\ notices[one.notice].from = one.user,
         UNCHANGED <<posts, pictures, post_likes, post_likes_count, notices, met, untold>>,
         comments' \in [CommentIds -> Comment \cup {NoComment}]
  PROVE  ForumTypeOK' /\ IsFiniteSet(post_likes)' /\ CallInv'
  BY DEF Become, ForumTypeOK, CallInv

\* The type invariant and what calls are about.
LEMMA ForumTypeStep ==
  ASSUME ForumTypeOK, IsFiniteSet(post_likes), CallInv, [ForumNext]_forumVars
  PROVE  ForumTypeOK' /\ IsFiniteSet(post_likes)' /\ CallInv'
<1> DEFINE Kept == ForumTypeOK' /\ IsFiniteSet(post_likes)' /\ CallInv'
<1> USE ForumAssumption, RowAssumption DEF ForumTypeOK, CallInv, PostIsThere, Categories
<1>1. ASSUME NEW p \in Posts, UploadPicture(p)
      PROVE  Kept
  BY <1>1 DEF UploadPicture
<1>2. ASSUME NEW p \in Posts, DeletePost(p)
      PROVE  Kept
  <2>1. post_likes' \subseteq post_likes /\ IsFiniteSet(post_likes')
    BY <1>2, FS_Subset DEF DeletePost
  <2>2. posts' = [posts EXCEPT ![p] = "deleted"]
        /\ UNCHANGED <<pictures, post_likes_count, forum_calls, met, untold>>
    BY <1>2 DEF DeletePost
  <2>3. comments' \in [CommentIds -> Comment \cup {NoComment}]
    BY <1>2 DEF DeletePost
  <2>4. /\ notices' \in [NoticeIds -> Notice \cup {NoNotice}]
        /\ \A n \in NoticeIds : notices'[n] = NoNotice \/ notices'[n] = notices[n]
    BY <1>2 DEF DeletePost
  <2> QED BY <2>1, <2>2, <2>3, <2>4
<1>3. ASSUME NEW p \in Posts, NEW category \in Categories, UpdatePost(p, category)
      PROVE  Kept
  BY <1>3 DEF UpdatePost, Categories
<1>4. ASSUME NEW p \in Posts, NEW category \in Categories, NEW moved \in BOOLEAN,
             CreatePost(p, category, moved)
      PROVE  Kept
  BY <1>4 DEF CreatePost, Categories
<1>5. ASSUME NEW u \in Posters, NEW p \in Posts, ReadPostLike(u, p)
      PROVE  Kept
  <2> DEFINE new == [op |-> IF <<u, p>> \in post_likes THEN "unlike" ELSE "like", at |-> "read",
                     user |-> u, post |-> p, seen |-> post_likes_count[p], comment |-> NoComment,
                     parent |-> NoComment, notice |-> NoNotice, to |-> PostAuthor[p]]
  <2>1. new \in ForumCall /\ new.post = p /\ new.at = "read" /\ new.op # "comment"
    BY DEF ForumCall
  <2>2. forum_calls' = forum_calls \cup {new} /\ met' \subseteq met \cup {p} /\ untold' \subseteq untold \cup {<<u, p>>}
        /\ posts[p] # "absent"
    BY <1>5 DEF ReadPostLike
  <2> HIDE DEF new
  <2> QED BY <1>5, <2>1, <2>2 DEF ReadPostLike
<1>6. ASSUME NEW call \in forum_calls, CommitPostLike(call)
      PROVE  Kept
  <2>1. call \in ForumCall
    OBVIOUS
  <2>2. CASE Ends(call) /\ UNCHANGED <<posts, pictures, met, untold>>
    BY <2>2 DEF Ends, Become
  <2>3. CASE ~Ends(call)
    <3>1. /\ LikesAfter(call) <= MaxLikes
          /\ post_likes' = (IF call.op = "like" THEN post_likes \cup {<<call.user, call.post>>}
                            ELSE post_likes \ {<<call.user, call.post>>})
          /\ post_likes_count' = [post_likes_count EXCEPT ![call.post] = LikesAfter(call)]
          /\ Become(call, {[call EXCEPT !.at = "committed"]}) /\ call.op # "comment"
          /\ UNCHANGED <<posts, pictures, met, untold, comments, notices>>
      BY <1>6, <2>3 DEF CommitPostLike
    <3> DEFINE new == [call EXCEPT !.at = "committed"]
    <3>2. new \in ForumCall /\ new.post = call.post /\ new.at = "committed" /\ new.op = call.op
      BY <2>1 DEF ForumCall
    <3>3. LikesAfter(call) \in 0..MaxLikes
      BY <2>1, <3>1 DEF LikesAfter, ForumCall
    <3>4. post_likes' \subseteq Posters \X Posts /\ IsFiniteSet(post_likes')
      <4>1. post_likes' \subseteq Posters \X Posts
        BY <2>1, <3>1 DEF ForumCall
      <4>2. IsFiniteSet(post_likes \cup {<<call.user, call.post>>})
        BY FS_AddElement
      <4>3. post_likes' \subseteq post_likes \cup {<<call.user, call.post>>}
        BY <3>1
      <4> QED BY <4>1, <4>2, <4>3, FS_Subset
    <3>5. forum_calls' = (forum_calls \ {call}) \cup {new}
      BY <3>1 DEF Become
    <3> HIDE DEF new
    <3> QED BY <3>1, <3>2, <3>3, <3>4, <3>5
  <2> QED BY <1>6, <2>2, <2>3 DEF CommitPostLike
<1>8. ASSUME NEW call \in forum_calls, Ends(call), UNCHANGED <<posts, pictures, met, untold>>
      PROVE  Kept
  BY <1>8 DEF Ends, Become
<1>9. ASSUME NEW call \in forum_calls, RefreshLikedPost(call)
      PROVE  Kept
  <2>1. call \in ForumCall
    OBVIOUS
  <2>2. \/ Ends(call)
        \/ call.op # "unlike" /\ Become(call, {[call EXCEPT !.at = "noting"]})
           /\ UNCHANGED <<post_likes, post_likes_count, comments, notices>>
        \/ \E n \in NoticeIds :
            /\ notices[n].kind = "like" /\ notices[n].post = call.post /\ notices[n].from = call.user
            /\ Become(call, {[call EXCEPT !.at = "noting", !.notice = n]})
            /\ UNCHANGED <<post_likes, post_likes_count, comments, notices>>
    BY <1>9 DEF RefreshLikedPost
  <2>3. UNCHANGED <<posts, pictures, met, untold>> /\ call.op # "comment"
    BY <1>9 DEF RefreshLikedPost
  <2>4. CASE call.op # "unlike" /\ Become(call, {[call EXCEPT !.at = "noting"]})
             /\ UNCHANGED <<post_likes, post_likes_count, comments, notices>>
    <3> DEFINE one == [call EXCEPT !.at = "noting"]
    <3>1. one \in ForumCall /\ one.post = call.post /\ one.op = call.op /\ one.user = call.user /\ one.at = "noting"
          /\ Become(call, {one})
      BY <2>1, <2>4 DEF ForumCall
    <3> HIDE DEF one
    <3>2. comments' \in [CommentIds -> Comment \cup {NoComment}]
      BY <2>3, <2>4, <3>1
    <3> HIDE DEF ForumTypeOK, CallInv
    <3> QED BY ContinueKeeps, <2>3, <2>4, <3>1, <3>2
  <2>5. ASSUME NEW n \in NoticeIds, notices[n].kind = "like", notices[n].post = call.post,
               notices[n].from = call.user,
               Become(call, {[call EXCEPT !.at = "noting", !.notice = n]}),
               UNCHANGED <<post_likes, post_likes_count, comments, notices>>
        PROVE  Kept
    <3> DEFINE one == [call EXCEPT !.at = "noting", !.notice = n]
    <3>1. one \in ForumCall /\ one.post = call.post /\ one.op = call.op /\ one.user = call.user /\ one.at = "noting" /\ one.notice = n
          /\ Become(call, {one})
      BY <2>1, <2>5 DEF ForumCall
    <3> HIDE DEF one
    <3>2. comments' \in [CommentIds -> Comment \cup {NoComment}]
      BY <2>3, <2>5, <3>1
    <3> HIDE DEF ForumTypeOK, CallInv
    <3> QED BY ContinueKeeps, <2>3, <2>5, <3>1, <3>2
  <2> QED BY <1>8, <2>2, <2>3, <2>4, <2>5
<1>10. ASSUME NEW u \in Posters, NEW p \in Posts, NEW parent \in CommentIds \cup {NoComment},
              ReadCommented(u, p, parent)
      PROVE  Kept
  <2> DEFINE new == [op |-> "comment", at |-> "read", user |-> u, post |-> p, seen |-> 0,
                     comment |-> NoComment, parent |-> parent, notice |-> NoNotice, to |-> u]
  <2>1. new \in ForumCall /\ new.post = p /\ new.at = "read" /\ new.op = "comment"
    BY DEF ForumCall
  <2>2. forum_calls' = forum_calls \cup {new} /\ posts[p] # "absent"
    BY <1>10 DEF ReadCommented
  <2> HIDE DEF new
  <2> QED BY <1>10, <2>1, <2>2 DEF ReadCommented
<1>11. ASSUME NEW call \in forum_calls, NEW c \in CommentIds, CommitComment(call, c)
      PROVE  Kept
  <2> DEFINE one == [call EXCEPT !.at = "committed", !.comment = c]
             row == [post |-> call.post, parent |-> call.parent, user |-> call.user]
  <2>1. call \in ForumCall /\ call.op = "comment"
    BY <1>11 DEF CommitComment
  <2>2. one \in ForumCall /\ one.post = call.post /\ one.op = call.op /\ one.user = call.user /\ one.at = "committed"
        /\ one.comment = c
    BY <2>1 DEF ForumCall
  <2>3. row \in Comment
    BY <2>1 DEF Comment, ForumCall
  <2>4. comments' = [comments EXCEPT ![c] = row] /\ Become(call, {one})
        /\ UNCHANGED <<posts, pictures, post_likes, post_likes_count, notices, met, untold>>
    BY <1>11 DEF CommitComment
  <2> HIDE DEF one, row
  <2>9. comments' \in [CommentIds -> Comment \cup {NoComment}]
    BY <2>1, <2>2, <2>3, <2>4
  <2> HIDE DEF ForumTypeOK, CallInv
  <2> QED BY ContinueKeeps, <2>1, <2>2, <2>3, <2>4, <2>9
<1>12. ASSUME NEW call \in forum_calls, RefreshComment(call)
      PROVE  Kept
  <2>1. call \in ForumCall /\ call.op = "comment" /\ call.comment \in CommentIds
    BY <1>12 DEF RefreshComment
  <2>2. UNCHANGED <<posts, pictures, met, untold>>
    BY <1>12 DEF RefreshComment
  <2>3. \/ Ends(call)
        \/ \E to \in Posters : Become(call, {[call EXCEPT !.at = "noting", !.to = to]})
                             /\ UNCHANGED <<post_likes, post_likes_count, comments, notices>>
    <3>1. call.parent # NoComment /\ comments[call.parent] # NoComment => comments[call.parent].user \in Posters
      BY <2>1 DEF ForumCall, Comment
    <3>2. call.user \in Posters /\ PostAuthor[call.post] \in Posters
      BY <2>1 DEF ForumCall
    <3> QED BY <1>12, <3>1, <3>2 DEF RefreshComment
  <2>4. ASSUME NEW to \in Posters, Become(call, {[call EXCEPT !.at = "noting", !.to = to]}),
               UNCHANGED <<post_likes, post_likes_count, comments, notices>>
        PROVE  Kept
    <3> DEFINE one == [call EXCEPT !.at = "noting", !.to = to]
    <3>1. one \in ForumCall /\ one.post = call.post /\ one.op = call.op /\ one.user = call.user /\ one.at = "noting"
          /\ one.comment = call.comment /\ Become(call, {one})
      BY <2>1, <2>4 DEF ForumCall
    <3> HIDE DEF one
    <3>2. comments' \in [CommentIds -> Comment \cup {NoComment}]
      BY <2>1, <2>2, <2>4, <3>1
    <3> HIDE DEF ForumTypeOK, CallInv
    <3> QED BY ContinueKeeps, <2>1, <2>2, <2>4, <3>1, <3>2
  <2> QED BY <1>8, <2>2, <2>3, <2>4
<1>13. ASSUME NEW call \in forum_calls, CommitNotice(call)
      PROVE  Kept
  <2>1. /\ call \in ForumCall /\ call.at = "noting" /\ forum_calls' \subseteq forum_calls
        /\ UNCHANGED <<posts, pictures, post_likes, post_likes_count, comments, met, untold>>
    BY <1>13 DEF CommitNotice, Become
  <2>2. CASE call.op = "unlike" /\ notices' = [notices EXCEPT ![call.notice] = NoNotice]
    BY <2>1, <2>2
  <2>3. ASSUME NEW n \in NoticeIds, UnusedNotice(n), notices' = [notices EXCEPT ![n] = Told(call)]
        PROVE  Kept
    <3>1. Told(call) \in Notice
      BY <2>1 DEF Told, Notice, ForumCall
    <3>2. \A other \in forum_calls : other.notice # n
      BY <2>3 DEF UnusedNotice
    <3> QED BY <2>1, <2>3, <3>1, <3>2
  <2> QED BY <1>13, <2>2, <2>3 DEF CommitNotice
<1>14. ASSUME NEW u \in Posters, NEW ns \in SUBSET NoticeIds, ReadNotices(u, ns)
      PROVE  Kept
  <2>1. notices' = [n \in NoticeIds |-> IF n \in ns THEN [notices[n] EXCEPT !.read = TRUE] ELSE notices[n]]
        /\ \A n \in ns : notices[n] # NoNotice
    BY <1>14 DEF ReadNotices
  <2>2. \A x \in Notice : [x EXCEPT !.read = TRUE] \in Notice /\ [x EXCEPT !.read = TRUE].kind = x.kind
                          /\ [x EXCEPT !.read = TRUE].post = x.post
                          /\ [x EXCEPT !.read = TRUE].from = x.from
    BY DEF Notice
  <2>3. \A n \in ns : notices[n] \in Notice
    BY <2>1
  <2>4. notices' \in [NoticeIds -> Notice \cup {NoNotice}]
    BY <2>1, <2>2, <2>3
  <2>5. \A n \in NoticeIds : notices'[n] # NoNotice =>
          /\ notices[n] # NoNotice
          /\ notices'[n].kind = notices[n].kind /\ notices'[n].post = notices[n].post
          /\ notices'[n].from = notices[n].from
    BY <2>1, <2>2, <2>3
  <2> QED BY <1>14, <2>4, <2>5 DEF ReadNotices
<1>15. ASSUME UNCHANGED forumVars
       PROVE  Kept
  BY <1>15 DEF forumVars
<1>17. ASSUME NEW call \in forum_calls, DropCall(call)
       PROVE  Kept
  <2>1. call \in ForumCall /\ forum_calls' \subseteq forum_calls
        /\ untold' \subseteq untold \cup {<<call.user, call.post>>}
        /\ UNCHANGED <<posts, pictures, post_likes, post_likes_count, comments, notices, met>>
    BY <1>17 DEF DropCall
  <2>2. <<call.user, call.post>> \in Posters \X Posts
    BY <2>1 DEF ForumCall
  <2> QED BY <2>1, <2>2
<1> HIDE DEF Kept, ForumTypeOK, CallInv, PostIsThere, Categories
<1>16. Kept
  BY <1>1, <1>2, <1>3, <1>4, <1>5, <1>6, <1>9, <1>10, <1>11, <1>12, <1>13, <1>14, <1>15,
     <1>17, ForumCases
<1> QED BY <1>16 DEF Kept


\* A call goes on as what it is, or is over.
Advances(call, next) ==
    /\ forum_calls' = (forum_calls \ {call}) \cup next
    /\ \A one, other \in next : one = other
    /\ \A one \in next : /\ one.op = call.op /\ one.user = call.user
                         /\ one.post = call.post /\ one.parent = call.parent
                         /\ one.at # "read"

LEMMA CallAdvances ==
  ASSUME CallInv, NEW call \in forum_calls,
         \/ CommitPostLike(call) \/ RefreshLikedPost(call) \/ RefreshComment(call)
         \/ CommitNotice(call) \/ DropCall(call) \/ \E c \in CommentIds : CommitComment(call, c)
  PROVE  \E next : Advances(call, next)
<1>1. call \in ForumCall
  BY DEF CallInv
<1>2. \/ forum_calls' = forum_calls \ {call}
      \/ \E at \in {"committed", "noting"} : Become(call, {[call EXCEPT !.at = at]})
      \/ \E c : Become(call, {[call EXCEPT !.at = "committed", !.comment = c]})
      \/ \E n : Become(call, {[call EXCEPT !.at = "noting", !.notice = n]})
      \/ \E to : Become(call, {[call EXCEPT !.at = "noting", !.to = to]})
  BY DEF CommitPostLike, RefreshLikedPost, RefreshComment, CommitNotice, DropCall, CommitComment,
         Ends, Become
<1>3. ASSUME NEW one, Become(call, {one}), one.op = call.op, one.user = call.user,
             one.post = call.post, one.parent = call.parent, one.at # "read"
      PROVE  \E next : Advances(call, next)
  <2>1. Advances(call, {one})
    BY <1>3 DEF Advances, Become
  <2> QED BY <2>1
<1>4. CASE forum_calls' = forum_calls \ {call}
  <2>1. Advances(call, {})
    BY <1>4 DEF Advances
  <2> QED BY <2>1
<1>5. ASSUME NEW at \in {"committed", "noting"}, Become(call, {[call EXCEPT !.at = at]})
      PROVE  \E next : Advances(call, next)
  <2> DEFINE one == [call EXCEPT !.at = at]
  <2>1. /\ one.op = call.op /\ one.user = call.user /\ one.post = call.post
        /\ one.parent = call.parent /\ one.at # "read" /\ Become(call, {one})
    BY <1>1, <1>5 DEF ForumCall
  <2> HIDE DEF one
  <2> QED BY <1>3, <2>1
<1>6. ASSUME NEW c, Become(call, {[call EXCEPT !.at = "committed", !.comment = c]})
      PROVE  \E next : Advances(call, next)
  <2> DEFINE one == [call EXCEPT !.at = "committed", !.comment = c]
  <2>1. /\ one.op = call.op /\ one.user = call.user /\ one.post = call.post
        /\ one.parent = call.parent /\ one.at # "read" /\ Become(call, {one})
    BY <1>1, <1>6 DEF ForumCall
  <2> HIDE DEF one
  <2> QED BY <1>3, <2>1
<1>7. ASSUME NEW n, Become(call, {[call EXCEPT !.at = "noting", !.notice = n]})
      PROVE  \E next : Advances(call, next)
  <2> DEFINE one == [call EXCEPT !.at = "noting", !.notice = n]
  <2>1. /\ one.op = call.op /\ one.user = call.user /\ one.post = call.post
        /\ one.parent = call.parent /\ one.at # "read" /\ Become(call, {one})
    BY <1>1, <1>7 DEF ForumCall
  <2> HIDE DEF one
  <2> QED BY <1>3, <2>1
<1>8. ASSUME NEW to, Become(call, {[call EXCEPT !.at = "noting", !.to = to]})
      PROVE  \E next : Advances(call, next)
  <2> DEFINE one == [call EXCEPT !.at = "noting", !.to = to]
  <2>1. /\ one.op = call.op /\ one.user = call.user /\ one.post = call.post
        /\ one.parent = call.parent /\ one.at # "read" /\ Become(call, {one})
    BY <1>1, <1>8 DEF ForumCall
  <2> HIDE DEF one
  <2> QED BY <1>3, <2>1
<1> QED BY <1>2, <1>4, <1>5, <1>6, <1>7, <1>8

\* A comment is lost only with its whole post, and so is what it answers.
LEMMA ParentStep ==
  ASSUME ForumTypeOK, CallInv, ParentInv, [ForumNext]_forumVars
  PROVE  ParentInv'
<1> USE RowAssumption DEF ParentIsThere
<1>1. ASSUME UNCHANGED comments,
             \A p \in Posts : posts'[p] # "deleted" => posts[p] # "deleted",
             \A call \in forum_calls' : call.op = "comment" =>
                \E old \in forum_calls : old.op = "comment" /\ old.post = call.post /\ old.parent = call.parent
      PROVE  ParentInv'
  <2>1. \A c \in CommentIds : comments[c] # NoComment => comments[c].post \in Posts
    BY DEF ForumTypeOK, Comment
  <2>2. \A call \in forum_calls : call.post \in Posts
    BY DEF CallInv, ForumCall
  <2> QED BY <1>1, <2>1, <2>2 DEF ParentInv
<1>2. ASSUME UNCHANGED <<comments, posts>>, forum_calls' \subseteq forum_calls
      PROVE  ParentInv'
  BY <1>1, <1>2
<1>4. ASSUME NEW p \in Posts, UploadPicture(p)
      PROVE  ParentInv'
  BY <1>2, <1>4 DEF UploadPicture
<1>5. ASSUME NEW p \in Posts, DeletePost(p)
      PROVE  ParentInv'
  <2>1. /\ posts' = [posts EXCEPT ![p] = "deleted"] /\ UNCHANGED forum_calls
        /\ comments' = [c \in CommentIds |->
                          IF comments[c] # NoComment /\ comments[c].post = p THEN NoComment ELSE comments[c]]
    BY <1>5 DEF DeletePost
  <2>2. \A q \in Posts : posts'[q] # "deleted" => q # p /\ posts[q] # "deleted"
    BY <2>1 DEF ForumTypeOK
  <2>3. \A parent \in CommentIds \cup {NoComment}, q \in Posts :
          q # p /\ ParentIsThere(parent, q) => ParentIsThere(parent, q)'
    BY <2>1 DEF ForumTypeOK
  <2>4. \A c \in CommentIds : comments'[c] # NoComment => comments'[c] = comments[c] /\ comments[c] \in Comment
    BY <2>1 DEF ForumTypeOK
  <2>5. \A call \in forum_calls : call.post \in Posts /\ call.parent \in CommentIds \cup {NoComment}
    BY DEF CallInv, ForumCall
  <2>6. \A row \in Comment : row.post \in Posts /\ row.parent \in CommentIds \cup {NoComment}
    BY DEF Comment
  <2> HIDE DEF ParentIsThere
  <2> QED BY <2>1, <2>2, <2>3, <2>4, <2>5, <2>6 DEF ParentInv
<1>6. ASSUME NEW p \in Posts, NEW category \in Categories, UpdatePost(p, category)
      PROVE  ParentInv'
  BY <1>1, <1>6 DEF UpdatePost, PostIsThere, Categories, ForumTypeOK
<1>7. ASSUME NEW p \in Posts, NEW category \in Categories, NEW moved \in BOOLEAN,
             CreatePost(p, category, moved)
      PROVE  ParentInv'
  BY <1>1, <1>7 DEF CreatePost, ForumTypeOK
<1>8. ASSUME NEW u \in Posters, NEW p \in Posts, ReadPostLike(u, p)
      PROVE  ParentInv'
  BY <1>1, <1>8 DEF ReadPostLike
<1>9. ASSUME NEW u \in Posters, NEW p \in Posts, NEW parent \in CommentIds \cup {NoComment},
             ReadCommented(u, p, parent)
      PROVE  ParentInv'
  BY <1>9 DEF ReadCommented, ParentInv
<1>10. ASSUME NEW call \in forum_calls, NEW c \in CommentIds, CommitComment(call, c)
       PROVE  ParentInv'
  <2> DEFINE one == [call EXCEPT !.at = "committed", !.comment = c]
             row == [post |-> call.post, parent |-> call.parent, user |-> call.user]
  <2>1. call \in ForumCall /\ call.op = "comment" /\ comments[c] = NoComment
    BY <1>10 DEF CommitComment, CallInv, UnusedComment
  <2>2. one.post = call.post /\ one.op = call.op /\ one.parent = call.parent
    BY <2>1 DEF ForumCall
  <2>3. row.post = call.post /\ row.parent = call.parent
    OBVIOUS
  <2>4. comments' = [comments EXCEPT ![c] = row] /\ forum_calls' = (forum_calls \ {call}) \cup {one}
        /\ UNCHANGED posts
    BY <1>10 DEF CommitComment, Become
  <2>5. row \in Comment
    BY <2>1 DEF Comment, ForumCall
  <2> HIDE DEF one, row
  <2>6. \A parent \in CommentIds \cup {NoComment}, q \in Posts :
          ParentIsThere(parent, q) => ParentIsThere(parent, q)'
    BY <2>1, <2>4, <2>5 DEF ForumTypeOK
  <2>7. \A other \in forum_calls : other.post \in Posts /\ other.parent \in CommentIds \cup {NoComment}
    BY DEF CallInv, ForumCall
  <2>8. \A d \in CommentIds : comments[d] # NoComment =>
          comments[d].post \in Posts /\ comments[d].parent \in CommentIds \cup {NoComment}
    BY DEF ForumTypeOK, Comment
  <2>9. \A d \in CommentIds : comments'[d] = IF d = c THEN row ELSE comments[d]
    BY <2>4 DEF ForumTypeOK
  <2> HIDE DEF ParentIsThere
  <2> QED BY <2>1, <2>2, <2>3, <2>4, <2>6, <2>7, <2>8, <2>9 DEF ParentInv
<1>11. ASSUME NEW call \in forum_calls,
              \/ CommitPostLike(call) \/ RefreshLikedPost(call)
              \/ RefreshComment(call) \/ CommitNotice(call) \/ DropCall(call)
       PROVE  ParentInv'
  <2>1. PICK next : Advances(call, next)
    BY <1>11, CallAdvances
  <2>2. UNCHANGED <<comments, posts>>
    BY <1>11 DEF CommitPostLike, RefreshLikedPost, RefreshComment, CommitNotice, DropCall, Ends
  <2> QED BY <1>1, <2>1, <2>2 DEF Advances
<1>12. ASSUME NEW u \in Posters, NEW ns \in SUBSET NoticeIds, ReadNotices(u, ns)
       PROVE  ParentInv'
  BY <1>2, <1>12 DEF ReadNotices
<1>13. ASSUME UNCHANGED forumVars
       PROVE  ParentInv'
  BY <1>2, <1>13 DEF forumVars
<1> QED BY <1>4, <1>5, <1>6, <1>7, <1>8, <1>9, <1>10, <1>11, <1>12, <1>13, ForumCases


\* What the count of a post's likes depends on.
LEMMA CountFrame ==
  ASSUME NEW p \in Posts, LikeCountInv(p),
         posts'[p] # "deleted" => posts[p] # "deleted", met \subseteq met',
         LikesOf(p)' = LikesOf(p), post_likes_count'[p] = post_likes_count[p],
         \/ LikesUnderWay(p)' \subseteq LikesUnderWay(p)
         \/ \E call \in LikesUnderWay(p) : \E next :
              /\ Advances(call, next)
              /\ LikesUnderWay(p)' \subseteq (LikesUnderWay(p) \ {call}) \cup next
  PROVE  LikeCountInv(p)'
<1>1. \A u : <<u, p>> \in post_likes' <=> <<u, p>> \in post_likes
  BY DEF LikesOf
<1>2. CASE LikesUnderWay(p)' \subseteq LikesUnderWay(p)
  BY <1>1, <1>2 DEF LikeCountInv
<1>3. ASSUME NEW call \in LikesUnderWay(p), NEW next, Advances(call, next),
             LikesUnderWay(p)' \subseteq (LikesUnderWay(p) \ {call}) \cup next
      PROVE  LikeCountInv(p)'
  BY <1>1, <1>3 DEF LikeCountInv, Advances
<1> QED BY <1>2, <1>3

\* What the author's knowledge of a user's like depends on.
LEMMA ToldFrame ==
  ASSUME NEW u \in Posters, NEW p \in Posts, ToldInv(u, p),
         posts'[p] # "deleted" => posts[p] # "deleted",
         <<u, p>> \in untold => <<u, p>> \in untold',
         <<u, p>> \in post_likes' <=> <<u, p>> \in post_likes,
         LikeCalls(u, p)' = LikeCalls(u, p), LikeNotices(u, p)' = LikeNotices(u, p)
  PROVE  ToldInv(u, p)'
BY DEF ToldInv, IsTold, ToBeTold

\* A call about something else is none of a post's, and none of a user's.
LEMMA CallElsewhere ==
  ASSUME NEW u, NEW p, NEW call, NEW next, Advances(call, next)
  PROVE  /\ call.op = "comment" \/ call.post # p => LikesUnderWay(p)' \subseteq LikesUnderWay(p)
         /\ call.op = "comment" \/ call.post # p \/ call.user # u =>
              (call \in forum_calls => LikeCalls(u, p)' = LikeCalls(u, p))
         /\ LikesUnderWay(p)' \subseteq (LikesUnderWay(p) \ {call}) \cup next
BY DEF Advances, LikesUnderWay, LikeCalls

LEMMA CommitCounts ==
  ASSUME ForumTypeOK, CallInv, IsFiniteSet(post_likes), NEW p \in Posts, LikeCountInv(p),
         NEW call \in LikesUnderWay(p), CommitPostLike(call)
  PROVE  LikeCountInv(p)'
<1>1. /\ call \in forum_calls /\ call \in ForumCall /\ call.op \in {"like", "unlike"}
      /\ call.post = p /\ call.at = "read" /\ UNCHANGED <<posts, met>>
  BY DEF LikesUnderWay, CallInv, ForumCall, CommitPostLike
<1> DEFINE u == call.user
           one == [call EXCEPT !.at = "committed"]
<1> SUFFICES ASSUME p \notin met, posts[p] # "deleted" PROVE LikeCountInv(p)'
  BY <1>1 DEF LikeCountInv
<1>2. CASE Ends(call)
  <2>1. LikesUnderWay(p)' \subseteq LikesUnderWay(p) /\ LikesOf(p)' = LikesOf(p)
        /\ UNCHANGED post_likes_count
    BY <1>2 DEF Ends, Become, LikesUnderWay, LikesOf
  <2> QED BY <1>1, <2>1, CountFrame
<1>3. CASE ~Ends(call)
  <2>1. /\ LikesUnderWay(p) = {call} /\ call.seen = Cardinality(LikesOf(p))
        /\ call.op = "like" <=> <<u, p>> \notin post_likes
    BY <1>1 DEF LikeCountInv
  <2>2. /\ post_likes' = IF call.op = "like" THEN post_likes \cup {<<u, p>>} ELSE post_likes \ {<<u, p>>}
        /\ post_likes_count' = [post_likes_count EXCEPT ![p] = LikesAfter(call)]
        /\ forum_calls' = (forum_calls \ {call}) \cup {one}
    BY <1>1, <1>3 DEF CommitPostLike, Become
  <2>3. one.at = "committed"
    BY <1>1 DEF ForumCall
  <2> HIDE DEF one
  <2>4. LikesUnderWay(p)' \subseteq {one}
    BY <2>1, <2>2 DEF LikesUnderWay
  <2>5. LikesOf(p)' = IF call.op = "like" THEN LikesOf(p) \cup {<<u, p>>} ELSE LikesOf(p) \ {<<u, p>>}
    BY <2>2 DEF LikesOf
  <2>6. IsFiniteSet(LikesOf(p)) /\ Cardinality(LikesOf(p)) \in Nat
    <3>1. IsFiniteSet(LikesOf(p))
      BY FS_Subset DEF LikesOf
    <3> QED BY <3>1, FS_CardinalityType
  <2>7. post_likes_count'[p] = LikesAfter(call)
    BY <2>2 DEF ForumTypeOK
  <2>8. post_likes_count'[p] = Cardinality(LikesOf(p)')
    <3>1. CASE call.op = "like"
      <4>1. <<u, p>> \notin LikesOf(p)
        BY <2>1, <3>1 DEF LikesOf
      <4>2. Cardinality(LikesOf(p)') = Cardinality(LikesOf(p)) + 1
        BY <2>5, <2>6, <3>1, <4>1, FS_AddElement
      <4> QED BY <2>1, <2>7, <3>1, <4>2 DEF LikesAfter
    <3>2. CASE call.op = "unlike"
      <4>1. <<u, p>> \in LikesOf(p)
        BY <2>1, <3>2 DEF LikesOf
      <4>2. Cardinality(LikesOf(p)') = Cardinality(LikesOf(p)) - 1 /\ Cardinality(LikesOf(p)) # 0
        BY <2>5, <2>6, <3>2, <4>1, FS_RemoveElement, FS_EmptySet
      <4> QED BY <2>1, <2>6, <2>7, <3>2, <4>2 DEF LikesAfter
    <3> QED BY <1>1, <3>1, <3>2
  <2> QED BY <2>3, <2>4, <2>8 DEF LikeCountInv
<1> QED BY <1>2, <1>3

\* A second call joins the post to those whose likes met.
LEMMA ReadCounts ==
  ASSUME ForumTypeOK, NEW p \in Posts, LikeCountInv(p), NEW u \in Posters, NEW q \in Posts,
         ReadPostLike(u, q)
  PROVE  LikeCountInv(p)'
<1> DEFINE new == [op |-> IF <<u, q>> \in post_likes THEN "unlike" ELSE "like", at |-> "read",
                   user |-> u, post |-> q, seen |-> post_likes_count[q], comment |-> NoComment,
                   parent |-> NoComment, notice |-> NoNotice, to |-> PostAuthor[q]]
<1>1. /\ new.op # "comment" /\ new.post = q /\ new.user = u /\ new.at = "read"
      /\ new.seen = post_likes_count[q]
      /\ new.op = IF <<u, q>> \in post_likes THEN "unlike" ELSE "like"
  OBVIOUS
<1>2. /\ forum_calls' = forum_calls \cup {new}
      /\ UNCHANGED <<posts, post_likes, post_likes_count, notices>>
      /\ met' = IF \E call \in forum_calls : call.op # "comment" /\ call.post = q
                THEN met \cup {q} ELSE met
  BY DEF ReadPostLike
<1> HIDE DEF new
<1>3. LikesOf(p)' = LikesOf(p)
  BY <1>2 DEF LikesOf
<1>4. CASE q # p
  <2>1. LikesUnderWay(p)' \subseteq LikesUnderWay(p)
    BY <1>1, <1>2, <1>4 DEF LikesUnderWay
  <2> QED BY <1>2, <1>3, <2>1, CountFrame
<1>5. CASE q = p
  <2> SUFFICES ASSUME p \notin met', posts[p] # "deleted" PROVE LikeCountInv(p)'
    BY <1>2 DEF LikeCountInv
  <2>1. LikesUnderWay(p) = {} /\ p \notin met
    BY <1>2, <1>5 DEF LikesUnderWay
  <2>2. LikesUnderWay(p)' = {new}
    BY <1>1, <1>2, <1>5, <2>1 DEF LikesUnderWay
  <2>3. post_likes_count[p] = Cardinality(LikesOf(p))
    BY <2>1 DEF LikeCountInv
  <2> QED BY <1>1, <1>2, <1>3, <1>5, <2>2, <2>3 DEF LikeCountInv
<1> QED BY <1>4, <1>5

\* A step about something else leaves the likes of a post alone.
LEMMA LikeCountStep ==
  ASSUME ForumTypeOK, CallInv, IsFiniteSet(post_likes), NEW p \in Posts, LikeCountInv(p),
         [ForumNext]_forumVars
  PROVE  LikeCountInv(p)'
<1>1. ASSUME posts'[p] # "deleted" => posts[p] # "deleted",
             UNCHANGED <<post_likes, post_likes_count, forum_calls, met>>
      PROVE  LikeCountInv(p)'
  BY <1>1, CountFrame DEF LikesOf, LikesUnderWay
<1>2. ASSUME NEW q \in Posts, UploadPicture(q)
      PROVE  LikeCountInv(p)'
  BY <1>1, <1>2 DEF UploadPicture
<1>3. ASSUME NEW q \in Posts, DeletePost(q)
      PROVE  LikeCountInv(p)'
  <2>1. CASE q = p
    BY <1>3, <2>1 DEF DeletePost, LikeCountInv, ForumTypeOK
  <2>2. CASE q # p
    <3>1. LikesOf(p)' = LikesOf(p) /\ LikesUnderWay(p)' = LikesUnderWay(p)
      BY <1>3, <2>2 DEF DeletePost, LikesOf, LikesUnderWay
    <3>2. posts'[p] = posts[p] /\ UNCHANGED <<post_likes_count, met>>
      BY <1>3, <2>2 DEF DeletePost, ForumTypeOK
    <3> QED BY <3>1, <3>2, CountFrame
  <2> QED BY <2>1, <2>2
<1>4. ASSUME NEW q \in Posts, NEW category \in Categories, UpdatePost(q, category)
      PROVE  LikeCountInv(p)'
  BY <1>1, <1>4 DEF UpdatePost, PostIsThere, Categories, ForumTypeOK
<1>5. ASSUME NEW q \in Posts, NEW category \in Categories, NEW moved \in BOOLEAN,
             CreatePost(q, category, moved)
      PROVE  LikeCountInv(p)'
  BY <1>1, <1>5 DEF CreatePost, ForumTypeOK
<1>6. ASSUME NEW u \in Posters, NEW q \in Posts, ReadPostLike(u, q)
      PROVE  LikeCountInv(p)'
  BY <1>6, ReadCounts
<1>7. ASSUME NEW u \in Posters, NEW q \in Posts, NEW parent \in CommentIds \cup {NoComment},
             ReadCommented(u, q, parent)
      PROVE  LikeCountInv(p)'
  <2>1. LikesUnderWay(p)' = LikesUnderWay(p)
    BY <1>7 DEF ReadCommented, LikesUnderWay
  <2>2. LikesOf(p)' = LikesOf(p) /\ UNCHANGED <<posts, post_likes_count, met>>
    BY <1>7 DEF ReadCommented, LikesOf
  <2> QED BY <2>1, <2>2, CountFrame
<1>8. ASSUME NEW call \in forum_calls, UNCHANGED <<posts, post_likes, post_likes_count, met>>,
             \/ RefreshLikedPost(call) \/ RefreshComment(call) \/ CommitNotice(call)
             \/ DropCall(call) \/ \E c \in CommentIds : CommitComment(call, c)
      PROVE  LikeCountInv(p)'
  <2>1. PICK next : Advances(call, next)
    BY <1>8, CallAdvances
  <2>2. LikesOf(p)' = LikesOf(p)
    BY <1>8 DEF LikesOf
  <2>3. CASE call \in LikesUnderWay(p)
    <3>1. LikesUnderWay(p)' \subseteq (LikesUnderWay(p) \ {call}) \cup next
      BY <2>1, CallElsewhere
    <3>2. posts'[p] = posts[p] /\ post_likes_count'[p] = post_likes_count[p] /\ met' = met
      BY <1>8
    <3> QED BY <2>1, <2>2, <2>3, <3>1, <3>2, CountFrame
  <2>4. CASE call \notin LikesUnderWay(p)
    <3>1. LikesUnderWay(p)' \subseteq LikesUnderWay(p)
      BY <1>8, <2>1, <2>4, CallElsewhere DEF LikesUnderWay
    <3> QED BY <1>8, <2>2, <3>1, CountFrame
  <2> QED BY <2>3, <2>4
<1>9. ASSUME NEW call \in forum_calls, CommitPostLike(call)
      PROVE  LikeCountInv(p)'
  <2>1. CASE call \in LikesUnderWay(p)
    BY <1>9, <2>1, CommitCounts
  <2>2. CASE call \notin LikesUnderWay(p)
    <3>1. PICK next : Advances(call, next)
      BY <1>9, CallAdvances
    <3>2. call \in ForumCall /\ call.post # p
      BY <1>9, <2>2 DEF LikesUnderWay, CommitPostLike, CallInv
    <3>3. LikesUnderWay(p)' \subseteq LikesUnderWay(p)
      BY <3>1, <3>2, CallElsewhere
    <3>4. LikesOf(p)' = LikesOf(p)
      BY <1>9, <3>2 DEF CommitPostLike, Ends, LikesOf
    <3>5. post_likes_count'[p] = post_likes_count[p] /\ UNCHANGED <<posts, met>>
      BY <1>9, <3>2 DEF CommitPostLike, Ends, ForumTypeOK
    <3> QED BY <3>3, <3>4, <3>5, CountFrame
  <2> QED BY <2>1, <2>2
<1>10. ASSUME NEW u \in Posters, NEW ns \in SUBSET NoticeIds, ReadNotices(u, ns)
       PROVE  LikeCountInv(p)'
  BY <1>1, <1>10 DEF ReadNotices
<1>11. ASSUME UNCHANGED forumVars
       PROVE  LikeCountInv(p)'
  BY <1>1, <1>11 DEF forumVars
<1>12. /\ \A call \in forum_calls :
            RefreshLikedPost(call) \/ RefreshComment(call) \/ CommitNotice(call) \/ DropCall(call)
            => UNCHANGED <<posts, post_likes, post_likes_count, met>>
       /\ \A call \in forum_calls, c \in CommentIds :
            CommitComment(call, c) => UNCHANGED <<posts, post_likes, post_likes_count, met>>
  BY DEF RefreshLikedPost, RefreshComment, CommitNotice, DropCall, CommitComment, Ends
<1> QED BY <1>2, <1>3, <1>4, <1>5, <1>6, <1>7, <1>8, <1>9, <1>10, <1>11, <1>12, ForumCases

\* What is known while nobody else of u's likes p.
LEMMA OnlyCall ==
  ASSUME ForumTypeOK, CallInv, NEW u \in Posters, NEW p \in Posts, ToldInv(u, p),
         NEW call \in LikeCalls(u, p), <<u, p>> \notin untold, posts[p] # "deleted"
  PROVE  /\ LikeCalls(u, p) = {call} /\ call \in forum_calls /\ call \in ForumCall
         /\ call.op \in {"like", "unlike"} /\ call.post = p /\ call.user = u /\ PostIsThere(p)
<1>1. /\ call \in forum_calls /\ call \in ForumCall /\ call.op \in {"like", "unlike"}
      /\ call.post = p /\ call.user = u
  BY DEF LikeCalls, CallInv, ForumCall
<1>2. LikeCalls(u, p) = {call}
  BY DEF ToldInv
<1>3. PostIsThere(p)
  BY <1>1 DEF CallInv, PostIsThere, Categories, ForumTypeOK
<1> QED BY <1>1, <1>2, <1>3

LEMMA CommitTells ==
  ASSUME ForumTypeOK, CallInv, NEW u \in Posters, NEW p \in Posts, ToldInv(u, p),
         NEW call \in LikeCalls(u, p), CommitPostLike(call)
  PROVE  ToldInv(u, p)'
<1>1. UNCHANGED <<posts, untold>>
  BY DEF CommitPostLike
<1> SUFFICES ASSUME <<u, p>> \notin untold, posts[p] # "deleted" PROVE ToldInv(u, p)'
  BY <1>1 DEF ToldInv
<1>2. /\ LikeCalls(u, p) = {call} /\ call \in forum_calls /\ call \in ForumCall
      /\ call.op \in {"like", "unlike"} /\ call.post = p /\ call.user = u /\ PostIsThere(p)
  BY OnlyCall
<1>3. /\ call.at = "read" /\ (call.op = "like" <=> <<u, p>> \notin post_likes)
      /\ IsTold(u, p) <=> ToBeTold(u, p)
  BY <1>2 DEF CommitPostLike, ToldInv
<1> DEFINE one == [call EXCEPT !.at = "committed"]
<1>4. /\ post_likes' = IF call.op = "like" THEN post_likes \cup {<<u, p>>} ELSE post_likes \ {<<u, p>>}
      /\ forum_calls' = (forum_calls \ {call}) \cup {one} /\ UNCHANGED notices
  BY <1>2, <1>3 DEF CommitPostLike, Become
<1>5. one.op = call.op /\ one.at = "committed" /\ one.user = u /\ one.post = p
  BY <1>2 DEF ForumCall
<1> HIDE DEF one
<1>6. LikeCalls(u, p)' = {one} /\ LikeNotices(u, p)' = LikeNotices(u, p)
  BY <1>2, <1>4, <1>5 DEF LikeCalls, LikeNotices
<1>7. call.op = "like" <=> <<u, p>> \in post_likes'
  BY <1>2, <1>3, <1>4
<1>8. /\ call.op = "like" => ~IsTold(u, p)'
      /\ call.op = "unlike" => (IsTold(u, p)' <=> u # PostAuthor[p])
  BY <1>2, <1>3, <1>6 DEF IsTold, ToBeTold
<1>9. \A n, m \in LikeNotices(u, p)' : n = m
  BY <1>6 DEF ToldInv
<1> QED BY <1>5, <1>6, <1>7, <1>8, <1>9 DEF ToldInv

LEMMA RefreshTells ==
  ASSUME ForumTypeOK, CallInv, NEW u \in Posters, NEW p \in Posts, ToldInv(u, p),
         NEW call \in LikeCalls(u, p), RefreshLikedPost(call)
  PROVE  ToldInv(u, p)'
<1>1. UNCHANGED <<posts, untold, post_likes, notices>>
  BY DEF RefreshLikedPost, Ends
<1> SUFFICES ASSUME <<u, p>> \notin untold, posts[p] # "deleted" PROVE ToldInv(u, p)'
  BY <1>1 DEF ToldInv
<1>2. /\ LikeCalls(u, p) = {call} /\ call \in forum_calls /\ call \in ForumCall
      /\ call.op \in {"like", "unlike"} /\ call.post = p /\ call.user = u /\ PostIsThere(p)
  BY OnlyCall
<1>3. /\ call.at = "committed"
      /\ call.op = "like" <=> <<u, p>> \in post_likes
      /\ call.op = "like" => ~IsTold(u, p)
      /\ call.op = "unlike" => (IsTold(u, p) <=> u # PostAuthor[p])
      /\ \A n, m \in LikeNotices(u, p) : n = m
  BY DEF RefreshLikedPost, ToldInv
<1>4. /\ LikeNotices(u, p)' = LikeNotices(u, p)
      /\ (IsTold(u, p)' <=> IsTold(u, p)) /\ (ToBeTold(u, p)' <=> ToBeTold(u, p))
  BY <1>1 DEF LikeNotices, IsTold, ToBeTold
<1>5. \/ forum_calls' = forum_calls \ {call} /\ (call.op = "unlike" \/ u = PostAuthor[p])
                                         /\ (call.op = "unlike" => ~IsTold(u, p))
      \/ /\ call.op = "like" /\ u # PostAuthor[p]
         /\ Become(call, {[call EXCEPT !.at = "noting"]})
      \/ /\ call.op = "unlike"
         /\ \E n \in LikeNotices(u, p) : Become(call, {[call EXCEPT !.at = "noting", !.notice = n]})
  <2> DEFINE told == {n \in NoticeIds : /\ notices[n] # NoNotice
                                        /\ notices[n].kind = "like" /\ notices[n].from = call.user
                                        /\ notices[n].post = call.post}
  <2>1. told = LikeNotices(u, p)
    BY <1>2 DEF LikeNotices
  <2>2. \/ Ends(call) /\ (call.op = "unlike" => told = {}) /\ (call.op # "unlike" => PostAuthor[p] = u)
        \/ /\ call.op # "unlike" /\ PostAuthor[p] # u
           /\ Become(call, {[call EXCEPT !.at = "noting"]})
        \/ /\ call.op = "unlike"
           /\ \E n \in told : Become(call, {[call EXCEPT !.at = "noting", !.notice = n]})
    BY <1>2 DEF RefreshLikedPost
  <2> HIDE DEF told
  <2> QED BY <1>2, <2>1, <2>2 DEF IsTold, Ends, Become
<1>6. CASE forum_calls' = forum_calls \ {call} /\ (call.op = "unlike" \/ u = PostAuthor[p])
                                          /\ (call.op = "unlike" => ~IsTold(u, p))
  <2>1. LikeCalls(u, p)' = {}
    BY <1>2, <1>6 DEF LikeCalls
  <2>2. ~IsTold(u, p) /\ ~ToBeTold(u, p)
    BY <1>2, <1>3, <1>6 DEF ToBeTold
  <2> QED BY <1>3, <1>4, <2>1, <2>2 DEF ToldInv
<1>7. ASSUME NEW one, Become(call, {one}), one.op = call.op, one.user = u, one.post = p,
             one.at = "noting", u # PostAuthor[p], one.op = "unlike" => one.notice \in LikeNotices(u, p)
      PROVE  ToldInv(u, p)'
  <2>1. LikeCalls(u, p)' = {one}
    BY <1>2, <1>7 DEF LikeCalls, Become
  <2>2. /\ one.op = "like" <=> <<u, p>> \in post_likes'
        /\ one.op = "like" => ~IsTold(u, p)'
        /\ one.op = "unlike" => (IsTold(u, p)' <=> u # PostAuthor[p])
        /\ one.op = "unlike" => one.notice \in LikeNotices(u, p)'
    BY <1>1, <1>3, <1>4, <1>7
  <2>3. \A n, m \in LikeNotices(u, p)' : n = m
    BY <1>3, <1>4
  <2> QED BY <1>7, <2>1, <2>2, <2>3 DEF ToldInv
<1>8. CASE call.op = "like" /\ u # PostAuthor[p] /\ Become(call, {[call EXCEPT !.at = "noting"]})
  <2> DEFINE one == [call EXCEPT !.at = "noting"]
  <2>1. one.op = call.op /\ one.user = u /\ one.post = p /\ one.at = "noting" /\ Become(call, {one})
    BY <1>2, <1>8 DEF ForumCall
  <2> HIDE DEF one
  <2> QED BY <1>7, <1>8, <2>1
<1>9. ASSUME call.op = "unlike", NEW n \in LikeNotices(u, p),
             Become(call, {[call EXCEPT !.at = "noting", !.notice = n]})
      PROVE  ToldInv(u, p)'
  <2> DEFINE one == [call EXCEPT !.at = "noting", !.notice = n]
  <2>1. one.op = call.op /\ one.user = u /\ one.post = p /\ one.at = "noting" /\ one.notice = n
        /\ Become(call, {one})
    BY <1>2, <1>9 DEF ForumCall
  <2>2. u # PostAuthor[p]
    BY <1>3, <1>9 DEF IsTold
  <2> HIDE DEF one
  <2> QED BY <1>7, <1>9, <2>1, <2>2
<1> QED BY <1>5, <1>6, <1>8, <1>9

LEMMA NoticeTells ==
  ASSUME ForumTypeOK, CallInv, NEW u \in Posters, NEW p \in Posts, ToldInv(u, p),
         NEW call \in LikeCalls(u, p), CommitNotice(call)
  PROVE  ToldInv(u, p)'
<1>1. UNCHANGED <<posts, untold, post_likes>> /\ forum_calls' = forum_calls \ {call}
  BY DEF CommitNotice, Become
<1> SUFFICES ASSUME <<u, p>> \notin untold, posts[p] # "deleted" PROVE ToldInv(u, p)'
  BY <1>1 DEF ToldInv
<1>2. /\ LikeCalls(u, p) = {call} /\ call \in forum_calls /\ call \in ForumCall
      /\ call.op \in {"like", "unlike"} /\ call.post = p /\ call.user = u /\ PostIsThere(p)
  BY OnlyCall
<1>3. /\ call.at = "noting"
      /\ call.op = "like" <=> <<u, p>> \in post_likes
      /\ call.op = "like" => ~IsTold(u, p)
      /\ u # PostAuthor[p]
      /\ call.op = "unlike" => call.notice \in LikeNotices(u, p)
      /\ \A n, m \in LikeNotices(u, p) : n = m
  BY DEF CommitNotice, ToldInv
<1>4. LikeCalls(u, p)' = {}
  BY <1>1, <1>2 DEF LikeCalls
<1>5. ASSUME LikeNotices(u, p)' # {} <=> call.op = "like", \A n, m \in LikeNotices(u, p)' : n = m
      PROVE  ToldInv(u, p)'
  <2>1. IsTold(u, p)' <=> ToBeTold(u, p)'
    BY <1>1, <1>3, <1>5 DEF IsTold, ToBeTold
  <2> QED BY <1>4, <1>5, <2>1 DEF ToldInv
<1>6. CASE call.op = "unlike" /\ notices' = [notices EXCEPT ![call.notice] = NoNotice]
  <2>1. LikeNotices(u, p)' = LikeNotices(u, p) \ {call.notice}
    BY <1>6 DEF LikeNotices, ForumTypeOK
  <2>2. LikeNotices(u, p)' = {}
    BY <1>3, <1>6, <2>1
  <2> QED BY <1>5, <1>6, <2>2
<1>7. ASSUME call.op = "like", NEW n \in NoticeIds, UnusedNotice(n),
             notices' = [notices EXCEPT ![n] = Told(call)]
      PROVE  ToldInv(u, p)'
  <2>1. Told(call).kind = "like" /\ Told(call).from = u /\ Told(call).post = p /\ Told(call) # NoNotice
    <3>1. Told(call) \in Notice
      BY <1>2 DEF Told, Notice, ForumCall
    <3> QED BY <1>2, <1>7, <3>1, RowAssumption DEF Told
  <2>2. LikeNotices(u, p)' = LikeNotices(u, p) \cup {n}
    BY <1>7, <2>1 DEF LikeNotices, ForumTypeOK
  <2>3. LikeNotices(u, p)' = {n}
    BY <1>3, <1>7, <2>2 DEF IsTold
  <2> QED BY <1>5, <1>7, <2>3
<1> QED BY <1>2, <1>6, <1>7 DEF CommitNotice

\* A call that stops takes its user and post out, unless it had only read.
LEMMA DropTells ==
  ASSUME ForumTypeOK, CallInv, NEW u \in Posters, NEW p \in Posts, ToldInv(u, p),
         NEW call \in LikeCalls(u, p), DropCall(call)
  PROVE  ToldInv(u, p)'
<1>1. /\ UNCHANGED <<posts, post_likes, notices>> /\ forum_calls' = forum_calls \ {call}
      /\ untold' = IF call.op # "comment" /\ call.at # "read" THEN untold \cup {<<call.user, call.post>>}
                   ELSE untold
  BY DEF DropCall
<1> SUFFICES ASSUME <<u, p>> \notin untold', posts[p] # "deleted" PROVE ToldInv(u, p)'
  BY <1>1 DEF ToldInv
<1>2. <<u, p>> \notin untold
  BY <1>1
<1>3. /\ LikeCalls(u, p) = {call} /\ call \in ForumCall /\ call.post = p /\ call.user = u
      /\ call.op # "comment"
  BY <1>2, OnlyCall
<1>4. call.at = "read"
  BY <1>1, <1>3
<1>5. LikeCalls(u, p)' = {} /\ LikeNotices(u, p)' = LikeNotices(u, p)
  BY <1>1, <1>3 DEF LikeCalls, LikeNotices
<1>6. (IsTold(u, p) <=> ToBeTold(u, p)) /\ \A n, m \in LikeNotices(u, p) : n = m
  BY <1>2, <1>3, <1>4 DEF ToldInv
<1>7. (IsTold(u, p)' <=> IsTold(u, p)) /\ (ToBeTold(u, p)' <=> ToBeTold(u, p))
  BY <1>1, <1>5 DEF IsTold, ToBeTold
<1> QED BY <1>5, <1>6, <1>7 DEF ToldInv

\* A second call of the same user takes him and the post out.
LEMMA ReadTells ==
  ASSUME ForumTypeOK, NEW u \in Posters, NEW p \in Posts, ToldInv(u, p), ReadPostLike(u, p)
  PROVE  ToldInv(u, p)'
<1> DEFINE new == [op |-> IF <<u, p>> \in post_likes THEN "unlike" ELSE "like", at |-> "read",
                   user |-> u, post |-> p, seen |-> post_likes_count[p], comment |-> NoComment,
                   parent |-> NoComment, notice |-> NoNotice, to |-> PostAuthor[p]]
<1>1. /\ new.op # "comment" /\ new.post = p /\ new.user = u /\ new.at = "read"
      /\ new.op = IF <<u, p>> \in post_likes THEN "unlike" ELSE "like"
  OBVIOUS
<1>2. /\ forum_calls' = forum_calls \cup {new} /\ UNCHANGED <<posts, post_likes, notices>>
      /\ untold' = untold \cup {<<u, p>> : call \in LikeCalls(u, p)}
  BY DEF ReadPostLike
<1> HIDE DEF new
<1> SUFFICES ASSUME <<u, p>> \notin untold', posts[p] # "deleted" PROVE ToldInv(u, p)'
  BY <1>2 DEF ToldInv
<1>3. LikeCalls(u, p) = {} /\ <<u, p>> \notin untold
  BY <1>2
<1>4. LikeCalls(u, p)' = {new} /\ LikeNotices(u, p)' = LikeNotices(u, p)
  BY <1>1, <1>2, <1>3 DEF LikeCalls, LikeNotices
<1>5. (IsTold(u, p) <=> ToBeTold(u, p)) /\ \A n, m \in LikeNotices(u, p) : n = m
  BY <1>3 DEF ToldInv
<1>6. (IsTold(u, p)' <=> IsTold(u, p)) /\ (ToBeTold(u, p)' <=> ToBeTold(u, p))
  BY <1>2, <1>4 DEF IsTold, ToBeTold
<1> QED BY <1>1, <1>2, <1>4, <1>5, <1>6 DEF ToldInv

\* What others do, and what is done to other posts, changes nothing of it.
LEMMA ToldStep ==
  ASSUME ForumTypeOK, CallInv, NEW u \in Posters, NEW p \in Posts, ToldInv(u, p),
         [ForumNext]_forumVars
  PROVE  ToldInv(u, p)'
<1>1. ASSUME posts'[p] # "deleted" => posts[p] # "deleted", untold \subseteq untold',
             UNCHANGED <<post_likes, notices>>, LikeCalls(u, p)' = LikeCalls(u, p)
      PROVE  ToldInv(u, p)'
  BY <1>1, ToldFrame DEF LikeNotices
<1>2. ASSUME NEW q \in Posts, UploadPicture(q)
      PROVE  ToldInv(u, p)'
  BY <1>1, <1>2 DEF UploadPicture, LikeCalls
<1>3. ASSUME NEW q \in Posts, DeletePost(q)
      PROVE  ToldInv(u, p)'
  <2>1. CASE q = p
    BY <1>3, <2>1 DEF DeletePost, ToldInv, ForumTypeOK
  <2>2. CASE q # p
    <3>1. LikeCalls(u, p)' = LikeCalls(u, p) /\ UNCHANGED untold /\ posts'[p] = posts[p]
          /\ (<<u, p>> \in post_likes' <=> <<u, p>> \in post_likes)
      BY <1>3, <2>2 DEF DeletePost, LikeCalls, ForumTypeOK
    <3>2. LikeNotices(u, p)' = LikeNotices(u, p)
      BY <1>3, <2>2 DEF DeletePost, LikeNotices
    <3> QED BY <3>1, <3>2, ToldFrame
  <2> QED BY <2>1, <2>2
<1>4. ASSUME NEW q \in Posts, NEW category \in Categories, UpdatePost(q, category)
      PROVE  ToldInv(u, p)'
  BY <1>1, <1>4 DEF UpdatePost, LikeCalls, PostIsThere, Categories, ForumTypeOK
<1>5. ASSUME NEW q \in Posts, NEW category \in Categories, NEW moved \in BOOLEAN,
             CreatePost(q, category, moved)
      PROVE  ToldInv(u, p)'
  BY <1>1, <1>5 DEF CreatePost, LikeCalls, ForumTypeOK
<1>6. ASSUME NEW v \in Posters, NEW q \in Posts, ReadPostLike(v, q)
      PROVE  ToldInv(u, p)'
  <2>1. CASE v = u /\ q = p
    BY <1>6, <2>1, ReadTells
  <2>2. CASE ~(v = u /\ q = p)
    <3> DEFINE new == [op |-> IF <<v, q>> \in post_likes THEN "unlike" ELSE "like", at |-> "read",
                       user |-> v, post |-> q, seen |-> post_likes_count[q], comment |-> NoComment,
                       parent |-> NoComment, notice |-> NoNotice, to |-> PostAuthor[q]]
    <3>1. new.post = q /\ new.user = v /\ forum_calls' = forum_calls \cup {new}
      BY <1>6 DEF ReadPostLike
    <3> HIDE DEF new
    <3>2. LikeCalls(u, p)' = LikeCalls(u, p)
      BY <2>2, <3>1 DEF LikeCalls
    <3>3. untold \subseteq untold' /\ UNCHANGED <<posts, post_likes, notices>>
      BY <1>6 DEF ReadPostLike
    <3> QED BY <1>1, <3>2, <3>3
  <2> QED BY <2>1, <2>2
<1>7. ASSUME NEW v \in Posters, NEW q \in Posts, NEW parent \in CommentIds \cup {NoComment},
             ReadCommented(v, q, parent)
      PROVE  ToldInv(u, p)'
  BY <1>1, <1>7 DEF ReadCommented, LikeCalls
<1>8. ASSUME NEW call \in forum_calls, call \notin LikeCalls(u, p),
             \/ CommitPostLike(call) \/ RefreshLikedPost(call) \/ RefreshComment(call)
             \/ CommitNotice(call) \/ DropCall(call) \/ \E c \in CommentIds : CommitComment(call, c)
      PROVE  LikeCalls(u, p)' = LikeCalls(u, p)
  <2>1. PICK next : Advances(call, next)
    BY <1>8, CallAdvances
  <2>2. call.op = "comment" \/ call.post # p \/ call.user # u
    BY <1>8 DEF LikeCalls
  <2> QED BY <1>8, <2>1, <2>2, CallElsewhere
<1>9. ASSUME NEW call \in forum_calls, CommitPostLike(call)
      PROVE  ToldInv(u, p)'
  <2>1. CASE call \in LikeCalls(u, p)
    BY <1>9, <2>1, CommitTells
  <2>2. CASE call \notin LikeCalls(u, p)
    <3>1. LikeCalls(u, p)' = LikeCalls(u, p)
      BY <1>8, <1>9, <2>2
    <3>2. <<call.user, call.post>> # <<u, p>>
      BY <1>9, <2>2 DEF LikeCalls, CommitPostLike
    <3>3. <<u, p>> \in post_likes' <=> <<u, p>> \in post_likes
      BY <1>9, <3>2 DEF CommitPostLike, Ends
    <3>4. UNCHANGED <<posts, untold>> /\ LikeNotices(u, p)' = LikeNotices(u, p)
      BY <1>9 DEF CommitPostLike, Ends, LikeNotices
    <3> QED BY <3>1, <3>3, <3>4, ToldFrame
  <2> QED BY <2>1, <2>2
<1>10. ASSUME NEW call \in forum_calls, RefreshLikedPost(call)
       PROVE  ToldInv(u, p)'
  <2>1. CASE call \in LikeCalls(u, p)
    BY <1>10, <2>1, RefreshTells
  <2>2. CASE call \notin LikeCalls(u, p)
    <3>1. UNCHANGED <<posts, untold, post_likes, notices>>
      BY <1>10 DEF RefreshLikedPost, Ends
    <3> QED BY <1>1, <1>8, <1>10, <2>2, <3>1
  <2> QED BY <2>1, <2>2
<1>11. ASSUME NEW call \in forum_calls, RefreshComment(call) \/ \E c \in CommentIds : CommitComment(call, c)
       PROVE  ToldInv(u, p)'
  <2>1. call \notin LikeCalls(u, p) /\ UNCHANGED <<posts, untold, post_likes, notices>>
    BY <1>11 DEF RefreshComment, CommitComment, LikeCalls, Ends
  <2> QED BY <1>1, <1>8, <1>11, <2>1
<1>12. ASSUME NEW call \in forum_calls, CommitNotice(call)
       PROVE  ToldInv(u, p)'
  <2>1. CASE call \in LikeCalls(u, p)
    BY <1>12, <2>1, NoticeTells
  <2>2. CASE call \notin LikeCalls(u, p)
    <3>1. LikeCalls(u, p)' = LikeCalls(u, p)
      BY <1>8, <1>12, <2>2
    <3>2. call.op = "comment" \/ call.post # p \/ call.user # u
      BY <2>2 DEF LikeCalls
    <3>3. ASSUME call.op = "unlike", notices' = [notices EXCEPT ![call.notice] = NoNotice]
          PROVE  LikeNotices(u, p)' = LikeNotices(u, p)
      <4>1. call.notice \in NoticeIds
            /\ (notices[call.notice] # NoNotice =>
                  notices[call.notice].post # p \/ notices[call.notice].from # u)
        BY <1>12, <3>2, <3>3 DEF CallInv, CommitNotice
      <4> QED BY <3>3, <4>1 DEF LikeNotices, ForumTypeOK
    <3>4. ASSUME NEW n \in NoticeIds, UnusedNotice(n), notices' = [notices EXCEPT ![n] = Told(call)]
          PROVE  LikeNotices(u, p)' = LikeNotices(u, p)
      <4>1. notices[n] = NoNotice
        BY <3>4 DEF UnusedNotice
      <4>2. Told(call).kind # "like" \/ Told(call).post # p \/ Told(call).from # u
        BY <3>2 DEF Told
      <4> QED BY <3>4, <4>1, <4>2 DEF LikeNotices, ForumTypeOK
    <3>5. UNCHANGED <<posts, untold, post_likes>>
      BY <1>12 DEF CommitNotice
    <3>6. LikeNotices(u, p)' = LikeNotices(u, p)
      BY <1>12, <3>3, <3>4 DEF CommitNotice
    <3> QED BY <3>1, <3>5, <3>6, ToldFrame
  <2> QED BY <2>1, <2>2
<1>13. ASSUME NEW call \in forum_calls, DropCall(call)
       PROVE  ToldInv(u, p)'
  <2>1. CASE call \in LikeCalls(u, p)
    BY <1>13, <2>1, DropTells
  <2>2. CASE call \notin LikeCalls(u, p)
    <3>1. untold \subseteq untold' /\ UNCHANGED <<posts, post_likes, notices>>
      BY <1>13 DEF DropCall
    <3> QED BY <1>1, <1>8, <1>13, <2>2, <3>1
  <2> QED BY <2>1, <2>2
<1>14. ASSUME NEW v \in Posters, NEW ns \in SUBSET NoticeIds, ReadNotices(v, ns)
       PROVE  ToldInv(u, p)'
  <2>1. notices' = [n \in NoticeIds |-> IF n \in ns THEN [notices[n] EXCEPT !.read = TRUE] ELSE notices[n]]
        /\ \A n \in ns : notices[n] # NoNotice
    BY <1>14 DEF ReadNotices
  <2>2. \A x \in Notice : [x EXCEPT !.read = TRUE] \in Notice /\ [x EXCEPT !.read = TRUE].kind = x.kind
                          /\ [x EXCEPT !.read = TRUE].post = x.post
                          /\ [x EXCEPT !.read = TRUE].from = x.from
    BY DEF Notice
  <2>3. \A n \in NoticeIds : notices[n] # NoNotice => notices[n] \in Notice
    BY DEF ForumTypeOK
  <2>4. \A n \in NoticeIds :
          /\ notices'[n] # NoNotice <=> notices[n] # NoNotice
          /\ notices[n] # NoNotice =>
               /\ notices'[n].kind = notices[n].kind /\ notices'[n].post = notices[n].post
               /\ notices'[n].from = notices[n].from
    BY <2>1, <2>2, <2>3, RowAssumption
  <2>5. LikeNotices(u, p)' = LikeNotices(u, p)
    BY <2>4 DEF LikeNotices
  <2>6. LikeCalls(u, p)' = LikeCalls(u, p) /\ UNCHANGED <<posts, post_likes, untold>>
    BY <1>14 DEF ReadNotices, LikeCalls
  <2> QED BY <2>5, <2>6, ToldFrame
<1>15. ASSUME UNCHANGED forumVars
       PROVE  ToldInv(u, p)'
  BY <1>1, <1>15 DEF forumVars, LikeCalls
<1> QED BY <1>2, <1>3, <1>4, <1>5, <1>6, <1>7, <1>9, <1>10, <1>11, <1>12, <1>13, <1>14, <1>15, ForumCases

LEMMA ForumInvariant == ForumSpec => []ForumInv
<1>1. ForumInv /\ [ForumNext]_forumVars => ForumInv'
  <2> SUFFICES ASSUME ForumInv, [ForumNext]_forumVars PROVE ForumInv'
    OBVIOUS
  <2>1. ForumTypeOK' /\ IsFiniteSet(post_likes)' /\ CallInv'
    BY ForumTypeStep DEF ForumInv
  <2>2. ParentInv'
    BY ParentStep DEF ForumInv
  <2>3. \A p \in Posts : LikeCountInv(p)'
    BY LikeCountStep DEF ForumInv
  <2>4. \A u \in Posters, p \in Posts : ToldInv(u, p)'
    BY ToldStep DEF ForumInv
  <2> QED BY <2>1, <2>2, <2>3, <2>4 DEF ForumInv
<1> QED BY ForumInvInit, <1>1, PTL DEF ForumSpec

\* Every comment of a post that is there is reached from the post: what it
\* answers is a comment of the same post (forum.py:319-379).
THEOREM CommentsShown == ForumSpec => []CommentsAreShown
<1>1. ForumInv => CommentsAreShown
  BY DEF ForumInv, ParentInv, ParentIsThere, CommentsAreShown, PostIsThere, Categories
<1> QED BY <1>1, ForumInvariant, PTL

\* Where likes did not overlap the counter is the number of likes, and of the like
\* of who did not overlap himself the author has been told once, unless the call
\* stopped on its way there (forum.py:588-624).
THEOREM PostLikesCounted == ForumSpec => []PostLikesAddUp
<1>1. ASSUME ForumInv, NEW p \in Posts, PostIsThere(p), p \notin met
      PROVE  post_likes_count[p] = Cardinality(LikesOf(p))
  BY <1>1 DEF ForumInv, LikeCountInv, PostIsThere, Categories
<1>2. ASSUME ForumInv, NEW p \in Posts, PostIsThere(p), NEW u \in Posters,
             <<u, p>> \notin untold, LikeCalls(u, p) = {}
      PROVE  Cardinality(LikeNotices(u, p)) = IF ToBeTold(u, p) THEN 1 ELSE 0
  <2>1. /\ \A n, m \in LikeNotices(u, p) : n = m
        /\ IsTold(u, p) <=> ToBeTold(u, p)
    BY <1>2 DEF ForumInv, ToldInv, PostIsThere, Categories
  <2>2. CASE LikeNotices(u, p) = {}
    BY <2>1, <2>2, FS_EmptySet DEF IsTold, ToBeTold
  <2>3. CASE LikeNotices(u, p) # {}
    <3>1. PICK n : n \in LikeNotices(u, p)
      BY <2>3
    <3>2. LikeNotices(u, p) = {n}
      BY <2>1, <3>1
    <3>3. Cardinality(LikeNotices(u, p)) = 1
      BY <3>2, FS_Singleton
    <3> QED BY <2>1, <2>3, <3>3 DEF IsTold, ToBeTold
  <2> QED BY <2>2, <2>3
<1>3. ForumInv => PostLikesAddUp
  BY <1>1, <1>2 DEF PostLikesAddUp, LikesOf, ToBeTold
<1> QED BY <1>3, ForumInvariant, PTL

-----------------------------------------------------------------------------
(* Offers.                                                                   *)

OfferShown == [offer : Offer, discount : Discount, fee : Terms]
Asked == Codes \cup {NoCode, AsBound}
Deal == [buyer : Accounts, earns : BOOLEAN, discount : Discount, fee : Terms, offer : Offer,
         asked : Asked, agreed : OfferShown \cup {NoDeal}]
Purchase == [deal : Deals, buyer : Accounts, asked : Asked, agreed : OfferShown \cup {NoDeal},
             read : BOOLEAN, offer : Offer, discount : Discount]

\* The type invariant, with what it leaves out.
OfferTypes ==
    /\ OfferTypeOK
    /\ \A p \in Deals : deals[p] # NoDeal => deals[p] \in Deal
    /\ DOMAIN deals = Deals
    /\ buying \subseteq Purchase
    /\ binding \subseteq [user : Accounts, code : Codes, clicked : 0..MaxClick]
    /\ clicks \in 0..MaxClick

\* What a buyer was shown means the same for as long as its version is the
\* current one, and no version comes back.
AgreedInv ==
    \A b \in buying : b.agreed # NoDeal =>
        /\ b.agreed.discount.version <= settings["discount"].version
        /\ b.agreed.discount.version = settings["discount"].version =>
             b.agreed.discount = settings["discount"]
        /\ b.asked # AsBound => b.agreed.offer.code = b.asked
        /\ b.agreed.offer.code = NoCode => b.agreed.offer.terms = None
        /\ b.agreed.offer.code # NoCode =>
             LET now == codes[b.agreed.offer.code]
             IN  /\ b.agreed.offer.version <= now.version
                 /\ b.agreed.offer.version = now.version => b.agreed.offer.terms = now.terms

\* What has been read for an order is what its buyer was shown.
ReadAsShown(b) ==
    b.agreed # NoDeal =>
        /\ b.discount = b.agreed.discount
        /\ b.asked # AsBound =>
             b.offer.code = b.agreed.offer.code /\ b.offer.terms = b.agreed.offer.terms

TakenInv == \A b \in buying : b.read => ReadAsShown(b)

\* A code that is offered has its owner for ever.
OwnerInv ==
    \A b \in buying : b.offer.code # NoCode =>
        /\ b.offer.owner # Unbound /\ b.offer.owner # b.buyer
        /\ b.offer.owner = codes[b.offer.code].owner

OfferInv == OfferTypes /\ AgreedInv /\ TakenInv /\ TermsAreKept /\ OwnerInv /\ CommissionFollowsCode

LEMMA NoneIsTerms == None \in Terms
  BY OfferAssumption DEF None

LEMMA OfferInvInit == OfferInit => OfferInv
<1> SUFFICES ASSUME OfferInit PROVE OfferInv
  OBVIOUS
<1> USE OfferAssumption DEF OfferInit
<1>1. None \in Terms /\ {0, 1} \subseteq Versions
  BY NoneIsTerms DEF Versions
<1>2. PICK u \in Accounts :
        deals = [p \in Deals |->
            IF p # LegacyDeal THEN NoDeal
            ELSE [buyer |-> u, earns |-> TRUE, discount |-> NotSet, fee |-> None,
                  offer |-> [NoOffer(None) EXCEPT !.code = LegacyCode, !.version = 1],
                  asked |-> LegacyCode, agreed |-> NoDeal]]
  OBVIOUS
<1>3. \A p \in Deals : deals[p] # NoDeal =>
        /\ deals[p] \in Deal
        /\ deals[p].buyer = u /\ deals[p].agreed = NoDeal
        /\ deals[p].offer = [code |-> LegacyCode, owner |-> Unbound, terms |-> None, version |-> 1]
  BY <1>1, <1>2 DEF NoOffer, NotSet, Deal, Asked, Discount, Offer
<1>4. OfferTypes
  BY <1>1, <1>2, <1>3 DEF OfferTypes, OfferTypeOK, Deal, NotSet, Discount
<1>7. AgreedInv /\ TakenInv /\ TermsAreKept /\ OwnerInv
  BY <1>3 DEF AgreedInv, TakenInv, TermsAreKept, OwnerInv
<1>8. CommissionFollowsCode
  <2>1. codes[LegacyCode].owner = Unbound /\ u # Unbound
    OBVIOUS
  <2> HIDE DEF OfferInit
  <2> SUFFICES ASSUME NEW p \in Deals, deals[p] # NoDeal
               PROVE  /\ deals[p].offer.owner = codes[deals[p].offer.code].owner
                      /\ deals[p].offer.owner # deals[p].buyer
    BY DEF CommissionFollowsCode
  <2>2. deals[p].offer.code = LegacyCode /\ deals[p].offer.owner = Unbound /\ deals[p].buyer = u
    BY <1>3
  <2> QED BY <2>1, <2>2
<1> QED BY <1>4, <1>7, <1>8 DEF OfferInv

LEMMA BequestTyped ==
  ASSUME NEW d \in Deal, NEW u \in Accounts
  PROVE  [d EXCEPT !.offer.owner = u, !.earns = @ /\ d.buyer # u] \in Deal
<1>1. [d.offer EXCEPT !.owner = u] \in Offer
  BY DEF Deal, Offer
<1>2. (d.earns /\ d.buyer # u) \in BOOLEAN
  BY DEF Deal
<1> QED BY <1>1, <1>2 DEF Deal

\* No step changes what an offer says, except whom its code belongs to.
LEMMA OfferTypeStep ==
  ASSUME OfferTypes, [OfferNext]_offerVars
  PROVE  OfferTypes'
<1>11. \A u \in Accounts : DefaultCode(u) \in Codes \cup {NoCode}
  BY DEF DefaultCode, IsActive
<1> USE OfferAssumption DEF OfferTypes, OfferTypeOK, Versions
<1>1. ASSUME NEW c \in Codes, NEW u \in Accounts, NEW terms \in Terms, NEW usable \in BOOLEAN,
             NEW expected \in Versions, SaveCode(c, u, terms, usable, expected)
      PROVE  OfferTypes'
  <2>1. \A p \in Deals : deals'[p] # NoDeal => deals'[p] \in Deal
    <3> SUFFICES ASSUME NEW p \in Deals, deals'[p] # NoDeal PROVE deals'[p] \in Deal
      OBVIOUS
    <3>1. CASE deals'[p] = deals[p]
      BY <3>1
    <3>2. CASE deals'[p] = [deals[p] EXCEPT !.offer.owner = u, !.earns = @ /\ deals[p].buyer # u]
               /\ deals[p] # NoDeal
      <4>1. deals[p] \in Deal
        BY <3>2
      <4>2. [deals[p] EXCEPT !.offer.owner = u, !.earns = @ /\ deals[p].buyer # u] \in Deal
        BY ONLY <4>1, u \in Accounts, BequestTyped
      <4> QED BY ONLY <3>2, <4>2
    <3> QED BY <1>1, <3>1, <3>2 DEF SaveCode, Bequeathed
  <2>2. DOMAIN deals' = Deals
    BY <1>1 DEF SaveCode, Bequeathed
  <2>3. \A p \in Deals : deals'[p] # NoDeal => deals'[p].offer \in Offer /\ deals'[p].buyer \in Accounts
    BY <2>1 DEF Deal
  <2>4. codes' \in [Codes -> [owner : Accounts \cup {Unbound}, usable : BOOLEAN,
                               terms : Terms, version : Versions]]
    BY <1>1 DEF SaveCode
  <2> QED BY <1>1, <2>1, <2>2, <2>3, <2>4 DEF SaveCode
<1>2. ASSUME NEW c \in Codes, CodeExpires(c)
      PROVE  OfferTypes'
  BY <1>2 DEF CodeExpires
<1>3. ASSUME NEW c \in Codes, NEW time \in 0..MaxClick, RecordVisit(c, time)
      PROVE  OfferTypes'
  BY <1>3 DEF RecordVisit
<1>4. ASSUME NEW k \in {"discount", "shipping"}, NEW value \in Terms, NEW expected \in Versions,
             UpdateSetting(k, value, expected)
      PROVE  OfferTypes'
  BY <1>4 DEF UpdateSetting, Settable, Discount
<1>5. ASSUME NEW u \in Accounts, NEW r \in receipts, ReadReceipt(u, r)
      PROVE  OfferTypes'
  BY <1>5 DEF ReadReceipt
<1>6. ASSUME NEW u \in Accounts, NEW p \in Deals, NEW asked \in Asked, NEW sends \in BOOLEAN,
             ShowOffer(u, p, asked, sends)
      PROVE  OfferTypes'
  <2> DEFINE shown == [offer |-> OfferOf(Named(u, asked)), discount |-> settings["discount"],
                       fee |-> settings["shipping"].value]
             new == [deal |-> p, buyer |-> u, asked |-> asked,
                     agreed |-> IF sends THEN shown ELSE NoDeal,
                     read |-> FALSE, offer |-> NoOffer(None), discount |-> NotSet]
  <2>1. OfferOf(Named(u, asked)) \in Offer /\ NoOffer(None) \in Offer
    BY <1>11, NoneIsTerms DEF Named, OfferOf, NoOffer, Offer, Asked
  <2>2. shown \in OfferShown
    BY <2>1 DEF OfferShown, Discount
  <2>3. NotSet \in Discount
    BY NoneIsTerms DEF NotSet, Discount
  <2>4. buying' = buying \cup {new} /\ UNCHANGED <<codes, settings, clicks, receipts, referrals, binding, deals>>
    BY <1>6 DEF ShowOffer
  <2> HIDE DEF shown
  <2>5. new \in Purchase
    BY <2>1, <2>2, <2>3 DEF Purchase
  <2>6. new.deal \in Deals /\ new.buyer \in Accounts /\ new.asked \in Asked
    OBVIOUS
  <2> HIDE DEF new
  <2> QED BY <2>4, <2>5, <2>6 DEF Asked
<1>12. ASSUME NEW b \in buying, ReadOffer(b)
       PROVE  OfferTypes'
  <2> DEFINE new == [b EXCEPT !.read = TRUE, !.offer = OfferOf(Named(b.buyer, b.asked)),
                              !.discount = settings["discount"]]
  <2>1. b \in Purchase
    OBVIOUS
  <2>2. OfferOf(Named(b.buyer, b.asked)) \in Offer
    BY <1>11, <2>1, NoneIsTerms DEF Named, OfferOf, NoOffer, Offer, Asked, Purchase
  <2>3. settings["discount"] \in Discount
    OBVIOUS
  <2>4. new \in Purchase
    BY <2>1, <2>2, <2>3 DEF Purchase
  <2>5. buying' = (buying \ {b}) \cup {new} /\ UNCHANGED <<codes, settings, clicks, receipts, referrals, binding, deals>>
    BY <1>12 DEF ReadOffer
  <2>6. new.deal \in Deals /\ new.buyer \in Accounts /\ new.asked \in Asked
    BY <2>4 DEF Purchase
  <2> HIDE DEF new
  <2> QED BY <2>4, <2>5, <2>6 DEF Asked
<1>7. ASSUME NEW b \in binding, BindReferral(b)
      PROVE  OfferTypes'
  BY <1>7 DEF BindReferral, Rebound
<1>8. ASSUME NEW b \in buying, CreateDeal(b)
      PROVE  OfferTypes'
  <2> DEFINE d == [buyer |-> b.buyer, earns |-> b.offer.code # NoCode, discount |-> b.discount,
                   fee |-> settings["shipping"].value, offer |-> b.offer, asked |-> b.asked,
                   agreed |-> b.agreed]
  <2>1. d \in Deal /\ b.deal \in Deals
    BY DEF Deal, Purchase, Discount
  <2>2. deals' = [deals EXCEPT ![b.deal] = d]
    BY <1>8 DEF CreateDeal
  <2> HIDE DEF d
  <2>3. \A p \in Deals : deals'[p] # NoDeal => deals'[p] \in Deal
    BY <2>1, <2>2
  <2>4. \A p \in Deals : deals'[p] # NoDeal => deals'[p].offer \in Offer /\ deals'[p].buyer \in Accounts
    BY <2>3 DEF Deal
  <2> QED BY <1>8, <2>2, <2>3, <2>4 DEF CreateDeal
<1>9. ASSUME NEW b \in buying, RefuseDeal(b)
      PROVE  OfferTypes'
  BY <1>9 DEF RefuseDeal
<1>10. CASE UNCHANGED offerVars
  BY <1>10 DEF offerVars
<1> QED
  BY <1>1, <1>2, <1>3, <1>4, <1>5, <1>6, <1>7, <1>8, <1>9, <1>10, <1>12 DEF OfferNext, Asked

\* A setting and a code change with their version only.
LEMMA SettingStep ==
  ASSUME OfferTypes, [OfferNext]_offerVars
  PROVE  /\ \/ settings'["discount"] = settings["discount"]
            \/ settings'["discount"].version = settings["discount"].version + 1
         /\ \A c \in Codes :
              \/ codes'[c].terms = codes[c].terms /\ codes'[c].version = codes[c].version
              \/ codes'[c].version = codes[c].version + 1
<1> USE DEF OfferTypes, OfferTypeOK
<1>1. ASSUME NEW k \in {"discount", "shipping"}, NEW value \in Terms, NEW expected \in Versions,
             UpdateSetting(k, value, expected)
      PROVE  /\ \/ settings'["discount"] = settings["discount"]
                \/ settings'["discount"].version = settings["discount"].version + 1
             /\ UNCHANGED codes
  BY <1>1 DEF UpdateSetting, Settable
<1>2. ASSUME NEW c \in Codes, NEW u \in Accounts, NEW terms \in Terms, NEW usable \in BOOLEAN,
             NEW expected \in Versions, SaveCode(c, u, terms, usable, expected)
      PROVE  /\ UNCHANGED settings
             /\ \A x \in Codes : codes'[x] = codes[x] \/ codes'[x].version = codes[x].version + 1
  BY <1>2 DEF SaveCode
<1>3. ASSUME NEW c \in Codes, CodeExpires(c)
      PROVE  /\ UNCHANGED settings
             /\ \A x \in Codes : codes'[x].terms = codes[x].terms /\ codes'[x].version = codes[x].version
  BY <1>3 DEF CodeExpires
<1>4. \/ UNCHANGED <<settings, codes>>
      \/ \E k \in {"discount", "shipping"}, value \in Terms, expected \in Versions :
            UpdateSetting(k, value, expected)
      \/ \E c \in Codes, u \in Accounts, terms \in Terms, usable \in BOOLEAN, expected \in Versions :
            SaveCode(c, u, terms, usable, expected)
      \/ \E c \in Codes : CodeExpires(c)
  BY DEF OfferNext, offerVars, RecordVisit, ReadReceipt, BindReferral, ShowOffer, ReadOffer, CreateDeal,
         RefuseDeal
<1> QED BY <1>1, <1>2, <1>3, <1>4


LEMMA AgreedStep ==
  ASSUME OfferTypes, OfferTypes', AgreedInv, TakenInv, [OfferNext]_offerVars
  PROVE  AgreedInv' /\ TakenInv'
<1> DEFINE Kept == AgreedInv' /\ TakenInv'
<1>1. \A b \in buying : b \in Purchase /\ (b.agreed # NoDeal => b.agreed \in OfferShown)
  BY DEF OfferTypes, Purchase
<1>2. ASSUME UNCHANGED <<codes, settings>>, buying' \subseteq buying
      PROVE  Kept
  BY <1>2 DEF AgreedInv, TakenInv
<1>3. ASSUME UNCHANGED buying
      PROVE  Kept
  <2>1. TakenInv'
    BY <1>3 DEF TakenInv, ReadAsShown
  <2>2. ASSUME NEW b \in buying, b.agreed # NoDeal
        PROVE  /\ b.agreed.discount.version <= settings'["discount"].version
               /\ b.agreed.discount.version = settings'["discount"].version =>
                    b.agreed.discount = settings'["discount"]
    <3>1. /\ settings["discount"].version \in Nat /\ settings'["discount"].version \in Nat
          /\ b.agreed.discount.version \in Nat
      BY <1>1, <2>2 DEF OfferTypes, OfferTypeOK, Versions, Discount, OfferShown
    <3> QED BY <2>2, <3>1, SettingStep DEF AgreedInv
  <2>3. ASSUME NEW b \in buying, b.agreed # NoDeal, b.agreed.offer.code # NoCode
        PROVE  /\ b.agreed.offer.version <= codes'[b.agreed.offer.code].version
               /\ b.agreed.offer.version = codes'[b.agreed.offer.code].version =>
                    b.agreed.offer.terms = codes'[b.agreed.offer.code].terms
    <3>1. b.agreed.offer.code \in Codes /\ b.agreed.offer.version \in Nat
      BY <1>1, <2>3 DEF OfferShown, Offer, Versions
    <3>2. codes[b.agreed.offer.code].version \in Nat /\ codes'[b.agreed.offer.code].version \in Nat
      BY <3>1 DEF OfferTypes, OfferTypeOK, Versions
    <3>3. /\ b.agreed.offer.version <= codes[b.agreed.offer.code].version
          /\ b.agreed.offer.version = codes[b.agreed.offer.code].version =>
                    b.agreed.offer.terms = codes[b.agreed.offer.code].terms
      BY <2>3 DEF AgreedInv
    <3>4. \/ codes'[b.agreed.offer.code].terms = codes[b.agreed.offer.code].terms
             /\ codes'[b.agreed.offer.code].version = codes[b.agreed.offer.code].version
          \/ codes'[b.agreed.offer.code].version = codes[b.agreed.offer.code].version + 1
      BY <3>1, SettingStep
    <3> QED BY <3>1, <3>2, <3>3, <3>4
  <2>4. AgreedInv'
    BY <1>3, <2>2, <2>3 DEF AgreedInv
  <2> QED BY <2>1, <2>4
<1>4. ASSUME NEW u \in Accounts, NEW p \in Deals, NEW asked \in Asked, NEW sends \in BOOLEAN,
             ShowOffer(u, p, asked, sends)
      PROVE  Kept
  <2> DEFINE c == Named(u, asked)
             shown == [offer |-> OfferOf(c), discount |-> settings["discount"],
                       fee |-> settings["shipping"].value]
             new == [deal |-> p, buyer |-> u, asked |-> asked,
                     agreed |-> IF sends THEN shown ELSE NoDeal,
                     read |-> FALSE, offer |-> NoOffer(None), discount |-> NotSet]
  <2>1. buying' = buying \cup {new} /\ UNCHANGED <<codes, settings>>
    BY <1>4 DEF ShowOffer
  <2>2. c \in Codes \cup {NoCode} /\ (asked # AsBound => c = asked)
    BY DEF Named, Asked, DefaultCode, IsActive
  <2>3. /\ OfferOf(c).code = c
        /\ c = NoCode => OfferOf(c).terms = None
        /\ c # NoCode => /\ OfferOf(c).version = codes[c].version /\ codes[c].version \in Nat
                         /\ OfferOf(c).terms = codes[c].terms
    BY <2>2 DEF OfferOf, NoOffer, OfferTypes, OfferTypeOK, Versions
  <2> HIDE DEF c
  <2>4. /\ shown.offer = OfferOf(c) /\ shown.discount = settings["discount"]
        /\ settings["discount"].version \in Nat
    BY DEF OfferTypes, OfferTypeOK, Discount, Versions
  <2> HIDE DEF shown
  <2>5. new.asked = asked /\ new.agreed \in {shown, NoDeal} /\ new.read = FALSE
    OBVIOUS
  <2> HIDE DEF new
  <2>6. TakenInv'
    BY <2>1, <2>5 DEF TakenInv, ReadAsShown
  <2>7. AgreedInv'
    BY <2>1, <2>2, <2>3, <2>4, <2>5 DEF AgreedInv
  <2> QED BY <2>6, <2>7
<1>5. ASSUME NEW b \in buying, ReadOffer(b)
      PROVE  Kept
  <2> DEFINE c == Named(b.buyer, b.asked)
             new == [b EXCEPT !.read = TRUE, !.offer = OfferOf(c), !.discount = settings["discount"]]
  <2>1. /\ buying' = (buying \ {b}) \cup {new} /\ UNCHANGED <<codes, settings>>
        /\ SameDiscount(b) /\ SameOffer(b, c)
    BY <1>5 DEF ReadOffer, Accepted
  <2>2. c \in Codes \cup {NoCode} /\ (b.asked # AsBound => c = b.asked)
    BY <1>1 DEF Purchase, Named, Asked, DefaultCode, IsActive
  <2>3. /\ new.agreed = b.agreed /\ new.asked = b.asked
        /\ new.offer = OfferOf(c) /\ new.discount = settings["discount"]
    BY <1>1 DEF Purchase
  <2>4. /\ OfferOf(c).code = c
        /\ c = NoCode => OfferOf(c).terms = None
        /\ c # NoCode => OfferOf(c).terms = codes[c].terms
    BY DEF OfferOf, NoOffer
  <2> HIDE DEF c, new
  <2>5. ReadAsShown(new)
    <3> SUFFICES ASSUME b.agreed # NoDeal
                 PROVE  /\ settings["discount"] = b.agreed.discount
                        /\ b.asked # AsBound =>
                             c = b.agreed.offer.code /\ OfferOf(c).terms = b.agreed.offer.terms
      BY <2>3, <2>4 DEF ReadAsShown
    <3>1. settings["discount"] = b.agreed.discount
      BY <2>1 DEF SameDiscount, AgreedInv
    <3>2. ASSUME b.asked # AsBound
          PROVE  c = b.agreed.offer.code /\ OfferOf(c).terms = b.agreed.offer.terms
      <4>1. c = b.agreed.offer.code
        BY <2>2, <3>2 DEF AgreedInv
      <4>2. CASE c = NoCode
        BY <2>4, <4>1, <4>2 DEF AgreedInv
      <4>3. CASE c # NoCode
        BY <2>1, <2>2, <2>4, <4>1, <4>3 DEF SameOffer, AgreedInv
      <4> QED BY <4>1, <4>2, <4>3
    <3> QED BY <3>1, <3>2
  <2>6. TakenInv'
    BY <2>1, <2>5 DEF TakenInv, ReadAsShown
  <2>7. AgreedInv'
    BY <2>1, <2>3 DEF AgreedInv
  <2> QED BY <2>6, <2>7
<1>6. \/ UNCHANGED buying
      \/ UNCHANGED <<codes, settings>> /\ buying' \subseteq buying
      \/ \E u \in Accounts, p \in Deals, asked \in Asked, sends \in BOOLEAN : ShowOffer(u, p, asked, sends)
      \/ \E b \in buying : ReadOffer(b)
  BY DEF OfferNext, Asked, offerVars, SaveCode, CodeExpires, RecordVisit, UpdateSetting, ReadReceipt,
         BindReferral, CreateDeal, RefuseDeal
<1> HIDE DEF Kept
<1>7. Kept
  BY <1>2, <1>3, <1>4, <1>5, <1>6
<1> QED BY <1>7 DEF Kept

\* An order is created with what was read, and the fee it was shown.
LEMMA TermsStep ==
  ASSUME OfferTypes, TakenInv, TermsAreKept, [OfferNext]_offerVars
  PROVE  TermsAreKept'
<1> DEFINE Keeps(d) ==
      d.agreed # NoDeal =>
        /\ d.discount = d.agreed.discount /\ d.fee = d.agreed.fee
        /\ d.asked # AsBound =>
             d.offer.code = d.agreed.offer.code /\ d.offer.terms = d.agreed.offer.terms
<1>1. \A p \in Deals : deals[p] # NoDeal => Keeps(deals[p]) /\ deals[p] \in Deal
  BY DEF TermsAreKept, OfferTypes
<1>2. ASSUME \A p \in Deals : deals'[p] # NoDeal => Keeps(deals'[p])
      PROVE  TermsAreKept'
  BY <1>2 DEF TermsAreKept
<1>3. ASSUME UNCHANGED deals
      PROVE  TermsAreKept'
  BY <1>3 DEF TermsAreKept
<1>4. ASSUME NEW c \in Codes, NEW u \in Accounts, NEW terms \in Terms, NEW usable \in BOOLEAN,
             NEW expected \in Versions, SaveCode(c, u, terms, usable, expected)
      PROVE  TermsAreKept'
  <2> SUFFICES ASSUME NEW p \in Deals, deals'[p] # NoDeal PROVE Keeps(deals'[p])
    BY <1>2
  <2>1. CASE deals'[p] = deals[p]
    BY <1>1, <2>1
  <2>2. CASE deals'[p] = [deals[p] EXCEPT !.offer.owner = u, !.earns = @ /\ deals[p].buyer # u]
             /\ deals[p] # NoDeal
    <3>1. deals[p] \in Deal /\ Keeps(deals[p])
      BY <1>1, <2>2
    <3>2. /\ deals'[p].discount = deals[p].discount /\ deals'[p].fee = deals[p].fee
          /\ deals'[p].agreed = deals[p].agreed /\ deals'[p].asked = deals[p].asked
          /\ deals'[p].offer = [deals[p].offer EXCEPT !.owner = u] /\ deals[p].offer \in Offer
      BY ONLY <2>2, <3>1 DEF Deal
    <3>3. deals'[p].offer.code = deals[p].offer.code /\ deals'[p].offer.terms = deals[p].offer.terms
      BY ONLY <3>2 DEF Offer
    <3> QED BY <3>1, <3>2, <3>3
  <2> QED BY <1>4, <2>1, <2>2 DEF SaveCode, Bequeathed
<1>5. ASSUME NEW b \in buying, CreateDeal(b)
      PROVE  TermsAreKept'
  <2> DEFINE d == [buyer |-> b.buyer, earns |-> b.offer.code # NoCode, discount |-> b.discount,
                   fee |-> settings["shipping"].value, offer |-> b.offer, asked |-> b.asked,
                   agreed |-> b.agreed]
  <2>1. ReadAsShown(b) /\ (b.agreed # NoDeal => settings["shipping"].value = b.agreed.fee)
    BY <1>5 DEF CreateDeal, SameFee, TakenInv
  <2>2. Keeps(d)
    BY <2>1 DEF ReadAsShown
  <2>3. deals' = [deals EXCEPT ![b.deal] = d]
    BY <1>5 DEF CreateDeal
  <2> HIDE DEF d
  <2>4. \A p \in Deals : deals'[p] = d \/ deals'[p] = deals[p]
    BY <2>3 DEF OfferTypes
  <2> HIDE DEF Keeps
  <2> QED BY <1>1, <1>2, <2>2, <2>4
<1>6. \/ UNCHANGED deals
      \/ \E c \in Codes, u \in Accounts, terms \in Terms, usable \in BOOLEAN, expected \in Versions :
            SaveCode(c, u, terms, usable, expected)
      \/ \E b \in buying : CreateDeal(b)
  BY DEF OfferNext, offerVars, CodeExpires, RecordVisit, UpdateSetting, ReadReceipt, BindReferral,
         ShowOffer, ReadOffer, RefuseDeal
<1> QED BY <1>3, <1>4, <1>5, <1>6

\* Only a code without an owner gets one, and with it the orders it has brought.
LEMMA CommissionStep ==
  ASSUME OfferTypes, OfferTypes', OwnerInv, CommissionFollowsCode, [OfferNext]_offerVars
  PROVE  OwnerInv' /\ CommissionFollowsCode'
<1> DEFINE Kept == OwnerInv' /\ CommissionFollowsCode'
<1>1. ASSUME NEW c \in Codes, NEW u \in Accounts, NEW terms \in Terms, NEW usable \in BOOLEAN,
             NEW expected \in Versions, SaveCode(c, u, terms, usable, expected)
      PROVE  Kept
  <2>1. /\ codes[c].owner \in {Unbound, u} /\ codes'[c].owner = u /\ buying' = buying
        /\ \A x \in Codes \ {c} : codes'[x] = codes[x]
    BY <1>1 DEF SaveCode, Ownable, OfferTypes, OfferTypeOK
  <2>2. OwnerInv'
    <3>1. \A b \in buying : b.offer.code # NoCode => b.offer.code \in Codes
      BY DEF OfferTypes, Purchase, Offer
    <3> QED BY <2>1, <3>1 DEF OwnerInv
  <2>3. CommissionFollowsCode'
    <3> SUFFICES ASSUME NEW p \in Deals, deals'[p] # NoDeal, deals'[p].offer.code # NoCode
                 PROVE  /\ deals'[p].offer.owner = codes'[deals'[p].offer.code].owner
                        /\ deals'[p].earns => deals'[p].offer.owner # deals'[p].buyer
      BY DEF CommissionFollowsCode
    <3>1. deals' = Bequeathed(c, u)
      BY <1>1 DEF SaveCode
    <3>2. CASE deals[p] # NoDeal /\ deals[p].offer.code = c /\ deals[p].offer.owner = Unbound
      <4>1. deals[p] \in Deal
        BY <3>2 DEF OfferTypes
      <4>2. deals'[p] = [deals[p] EXCEPT !.offer.owner = u, !.earns = @ /\ deals[p].buyer # u]
        BY <3>1, <3>2 DEF Bequeathed
      <4>3. /\ deals'[p].offer.owner = u /\ deals'[p].buyer = deals[p].buyer
            /\ deals'[p].offer.code = c
            /\ deals'[p].earns => deals[p].buyer # u
        BY ONLY <3>2, <4>1, <4>2 DEF Deal, Offer
      <4> QED BY <2>1, <4>3
    <3>3. CASE ~(deals[p] # NoDeal /\ deals[p].offer.code = c /\ deals[p].offer.owner = Unbound)
      <4>1. deals'[p] = deals[p]
        BY <3>1, <3>3 DEF Bequeathed
      <4>2. deals[p].offer.code \in Codes
        BY <4>1 DEF OfferTypes, Deal, Offer
      <4> QED BY <2>1, <3>3, <4>1, <4>2 DEF CommissionFollowsCode
    <3> QED BY <3>2, <3>3
  <2> QED BY <2>2, <2>3
<1>2. ASSUME NEW c \in Codes, CodeExpires(c)
      PROVE  Kept
  <2>1. \A x \in Codes : codes'[x].owner = codes[x].owner
    BY <1>2 DEF CodeExpires, OfferTypes, OfferTypeOK
  <2>2. \A b \in buying : b.offer.code # NoCode => b.offer.code \in Codes
    BY DEF OfferTypes, Purchase, Offer
  <2>3. \A p \in Deals : deals[p] # NoDeal /\ deals[p].offer.code # NoCode => deals[p].offer.code \in Codes
    BY DEF OfferTypes, Deal, Offer
  <2> QED BY <1>2, <2>1, <2>2, <2>3 DEF CodeExpires, OwnerInv, CommissionFollowsCode
<1>3. ASSUME NEW b \in buying, ReadOffer(b)
      PROVE  Kept
  <2> DEFINE c == Named(b.buyer, b.asked)
             new == [b EXCEPT !.read = TRUE, !.offer = OfferOf(c), !.discount = settings["discount"]]
  <2>1. b \in Purchase
    BY DEF OfferTypes
  <2>2. c \in Codes \cup {NoCode} /\ Selectable(b.buyer, c)
    BY <1>3, <2>1 DEF Purchase, Named, Asked, DefaultCode, IsActive, ReadOffer, Accepted
  <2>3. /\ OfferOf(c).code = c
        /\ c # NoCode => /\ OfferOf(c).owner = codes[c].owner
                         /\ codes[c].owner # Unbound /\ codes[c].owner # b.buyer
    BY <2>2 DEF OfferOf, NoOffer, Selectable, IsActive
  <2>4. buying' = (buying \ {b}) \cup {new} /\ UNCHANGED <<codes, deals>>
    BY <1>3 DEF ReadOffer
  <2>5. new.offer = OfferOf(c) /\ new.buyer = b.buyer
    BY <2>1 DEF Purchase
  <2> HIDE DEF c, new
  <2>6. OwnerInv'
    BY <2>3, <2>4, <2>5 DEF OwnerInv
  <2>7. CommissionFollowsCode'
    BY <2>4 DEF CommissionFollowsCode
  <2> QED BY <2>6, <2>7
<1>9. ASSUME NEW u \in Accounts, NEW p \in Deals, NEW asked \in Asked, NEW sends \in BOOLEAN,
             ShowOffer(u, p, asked, sends)
      PROVE  Kept
  <2> DEFINE new == [deal |-> p, buyer |-> u, asked |-> asked,
                     agreed |-> IF sends THEN [offer |-> OfferOf(Named(u, asked)),
                                               discount |-> settings["discount"],
                                               fee |-> settings["shipping"].value]
                                ELSE NoDeal,
                     read |-> FALSE, offer |-> NoOffer(None), discount |-> NotSet]
  <2>1. buying' = buying \cup {new} /\ UNCHANGED <<codes, deals>>
    BY <1>9 DEF ShowOffer
  <2>2. new.offer.code = NoCode
    BY DEF NoOffer
  <2> HIDE DEF new
  <2> QED BY <2>1, <2>2 DEF OwnerInv, CommissionFollowsCode
<1>4. ASSUME NEW b \in buying, CreateDeal(b)
      PROVE  Kept
  <2>1. b.deal \in Deals
    BY DEF OfferTypes, Purchase
  <2>2. \A p \in Deals \ {b.deal} : deals'[p] = deals[p]
    BY <1>4 DEF CreateDeal, OfferTypes
  <2>3. /\ deals'[b.deal].offer = b.offer /\ deals'[b.deal].buyer = b.buyer
        /\ deals'[b.deal].earns = (b.offer.code # NoCode)
    BY <1>4, <2>1 DEF CreateDeal, OfferTypes
  <2>4. UNCHANGED codes /\ buying' \subseteq buying
    BY <1>4 DEF CreateDeal
  <2> QED BY <2>1, <2>2, <2>3, <2>4 DEF OwnerInv, CommissionFollowsCode
<1>5. ASSUME UNCHANGED <<codes, deals>>, buying' \subseteq buying
      PROVE  Kept
  BY <1>5 DEF OwnerInv, CommissionFollowsCode
<1>7. \/ UNCHANGED <<codes, deals>> /\ buying' \subseteq buying
      \/ \E c \in Codes, u \in Accounts, terms \in Terms, usable \in BOOLEAN, expected \in Versions :
            SaveCode(c, u, terms, usable, expected)
      \/ \E c \in Codes : CodeExpires(c)
      \/ \E u \in Accounts, p \in Deals, asked \in Asked, sends \in BOOLEAN : ShowOffer(u, p, asked, sends)
      \/ \E b \in buying : ReadOffer(b) \/ CreateDeal(b)
  BY DEF Asked, OfferNext, offerVars, RecordVisit, UpdateSetting, ReadReceipt, BindReferral, RefuseDeal
<1> HIDE DEF Kept
<1>8. Kept
  BY <1>1, <1>2, <1>3, <1>4, <1>5, <1>7, <1>9
<1> QED BY <1>8 DEF Kept

LEMMA OfferInvariant == OfferSpec => []OfferInv
<1>1. OfferInv /\ [OfferNext]_offerVars => OfferInv'
  BY OfferTypeStep, AgreedStep, TermsStep, CommissionStep DEF OfferInv
<1> QED BY <1>1, OfferInvInit, PTL DEF OfferSpec

\* An order is sold at the discount, the fee and, where a code was named, the terms
\* its buyer was shown, and its commission stays with its code.
THEOREM OffersKept == OfferSpec => []OrdersFollowOffers
<1>1. OfferInv => OrdersFollowOffers
  BY DEF OfferInv, OrdersFollowOffers
<1> QED BY <1>1, OfferInvariant, PTL

\* The code that brought a user first stays; only a visit as late displaces the last.
THEOREM SourcesKept == OfferSpec => SourcesAreKept
<1>1. OfferInv /\ [OfferNext]_offerVars =>
        [\A u \in Accounts : referrals[u].original # NoCode =>
          /\ referrals'[u].original = referrals[u].original
          /\ referrals'[u].clicked >= referrals[u].clicked]_referrals
  <2> SUFFICES ASSUME OfferInv, [OfferNext]_offerVars, referrals' # referrals
               PROVE  \A u \in Accounts : referrals[u].original # NoCode =>
                        /\ referrals'[u].original = referrals[u].original
                        /\ referrals'[u].clicked >= referrals[u].clicked
    OBVIOUS
  <2>1. PICK b \in binding : BindReferral(b)
    BY DEF OfferNext, offerVars, SaveCode, CodeExpires, RecordVisit, UpdateSetting, ReadReceipt,
           ShowOffer, ReadOffer, CreateDeal, RefuseDeal
  <2>2. b.user \in Accounts /\ b.clicked \in Nat
    BY DEF OfferInv, OfferTypes
  <2>3. \A u \in Accounts : referrals[u].clicked \in Nat
    BY DEF OfferInv, OfferTypes, OfferTypeOK
  <2> QED BY <2>1, <2>2, <2>3 DEF BindReferral, Rebound, OfferInv, OfferTypes, OfferTypeOK
<1> QED BY <1>1, OfferInvariant, PTL DEF OfferSpec, SourcesAreKept

-----------------------------------------------------------------------------
(* The services together.                                                    *)

\* A step of the services is one of each or leaves it alone.
LEMMA ServicesSteps ==
  ASSUME [ServicesNext]_servicesVars
  PROVE  /\ [CreditNext]_creditVars /\ [BillingNext]_billingVars
         /\ [AuthNext]_authVars /\ [AgentNext]_agentVars
         /\ [LibraryNext]_libraryVars /\ [ForumNext]_forumVars /\ [OfferNext]_offerVars
BY Zenon DEF ServicesNext, servicesVars

\* The services share no state: a behaviour of them together is one of each.
LEMMA ServicesAreComposed ==
  ServicesSpec => /\ CreditSpec /\ BillingSpec /\ AuthSpec /\ AgentSpec
                  /\ LibrarySpec /\ ForumSpec /\ OfferSpec
<1>1. ServicesInit => /\ CreditInit /\ BillingInit /\ AuthInit /\ AgentInit
                      /\ LibraryInit /\ ForumInit /\ OfferInit
  BY DEF ServicesInit
<1> QED
  BY <1>1, ServicesSteps, PTL
     DEF ServicesSpec, CreditSpec, BillingSpec, AuthSpec, AgentSpec, LibrarySpec, ForumSpec, OfferSpec

\* Where likes do not overlap, the counters of skins and of posts agree with
\* their rows, through withdrawals and calls that stop, and authors know of a like
\* unless its call stopped (generate.py:1108-1141, skin_withdrawal.py:89-107,
\* forum.py:573-624).
THEOREM LikesCounted == ServicesSpec => []LikesAddUp
BY ServicesAreComposed, SkinLikesCounted, PostLikesCounted, PTL DEF LikesAddUp
===============================================================================
