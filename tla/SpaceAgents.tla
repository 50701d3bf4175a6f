----------------------------- MODULE SpaceAgents -----------------------------
(***************************************************************************)
(* Pairings of external agents with accounts (routers/space_agent_auth.py) *)
(* and the API keys of the accounts (routers/space_accounts.py).  An agent *)
(* asks for a pairing, a user decides on it in the browser, and the agent  *)
(* polls with its device code until it has a key.  Its secret is derived   *)
(* from the device code, so that a poll whose answer was lost can be       *)
(* repeated.                                                               *)
(*                                                                         *)
(* A pairing's row is locked by each of its handlers, and the user's row   *)
(* by each that makes a key, so a handler is one action.                   *)
(***************************************************************************)
EXTENDS Naturals, FiniteSets

CONSTANTS
    Pairings, Owners, Nobody,
    KeyIds,
    MaxKeys         \* SPACE_API_KEY_MAX_PER_USER

ASSUME AgentAssumption == Nobody \notin Owners /\ MaxKeys \in Nat

VARIABLES
    pairing,        \* the rows of SpaceAgentAuthorization
    stale,          \* pairings whose expires_at has passed
    early,          \* pairings whose next_poll_at has not
    keys,           \* the rows of SpaceApiKey
    made,           \* all keys there ever were
    consents        \* approvals by their users

agentVars == <<pairing, stale, early, keys, made, consents>>

Absent == [status |-> "absent", user |-> Nobody, key |-> {}]

Key == [id : KeyIds, user : Owners, for : Pairings \cup {Nobody}]

AgentTypeOK ==
    /\ pairing \in [Pairings ->
           [status : {"absent", "pending", "approved", "denied", "claimed"},
            user : Owners \cup {Nobody}, key : {{}} \cup {{k} : k \in KeyIds}]]
    /\ stale \subseteq Pairings /\ early \subseteq Pairings
    /\ keys \subseteq made /\ made \subseteq Key
    /\ consents \subseteq Pairings \X Owners

AgentInit ==
    /\ pairing = [p \in Pairings |-> Absent]
    /\ stale = {} /\ early = {}
    /\ keys = {} /\ made = {}
    /\ consents = {}

-----------------------------------------------------------------------------
\* start deletes what has expired; codes are never given twice.
Start(p) ==
    /\ pairing[p] = Absent
    /\ p \notin stale
    /\ pairing' = [q \in Pairings |->
                     IF q = p THEN [Absent EXCEPT !.status = "pending"]
                     ELSE IF q \in stale THEN Absent ELSE pairing[q]]
    /\ early' = early \cup {p}
    /\ UNCHANGED <<stale, keys, made, consents>>

\* grant_for_user_code.
Decidable(p, u) ==
    /\ pairing[p] # Absent
    /\ p \notin stale
    /\ pairing[p].user \in {Nobody, u}

Open(p) == pairing[p].status = "pending"

\* decide.
Decide(p, u, status) ==
    /\ Decidable(p, u)
    /\ Open(p)
    /\ pairing' = [pairing EXCEPT ![p].status = status, ![p].user = u]
    /\ consents' = IF status = "approved" THEN consents \cup {<<p, u>>} ELSE consents
    /\ UNCHANGED <<stale, early, keys, made>>

KeysOf(u) == {k \in keys : k.user = u}

\* issue_space_api_key, under the lock of the user's row.
Issue(k) ==
    /\ Cardinality(KeysOf(k.user)) < MaxKeys
    /\ \A other \in made : other.id # k.id
    /\ keys' = keys \cup {k}
    /\ made' = made \cup {k}

\* token stops before it looks at the decision.
PollEnds(p) == pairing[p] = Absent \/ p \in stale \/ pairing[p].status = "denied"

\* A poll that comes too early postpones the next.
PollTooEarly(p) == ~PollEnds(p) /\ p \in early /\ UNCHANGED agentVars

\* Mutant: a key that the user has deleted is made again.
ClaimableAgain(p) ==
    \/ pairing[p].status = "approved"
    \/ pairing[p].status = "claimed" /\ \A k \in keys : k.id \notin pairing[p].key

Claimable(p) == pairing[p].status = "approved"

\* token while nobody has decided.
PollPending(p) ==
    /\ ~PollEnds(p) /\ p \notin early
    /\ Open(p)
    /\ early' = early \cup {p}
    /\ UNCHANGED <<pairing, stale, keys, made, consents>>

\* token of an approved pairing.  At the limit of keys it changes nothing.
Claim(p, id) ==
    /\ ~PollEnds(p) /\ p \notin early
    /\ Claimable(p)
    /\ Issue([id |-> id, user |-> pairing[p].user, for |-> p])
    /\ pairing' = [pairing EXCEPT ![p].status = "claimed", ![p].key = {id}]
    /\ early' = early \cup {p}
    /\ UNCHANGED <<stale, consents>>

\* token again: the same key, if its user still has it.
ClaimedKey(p) == {k \in keys : k.id \in pairing[p].key /\ k.user = pairing[p].user}

PollClaimed(p) ==
    /\ ~PollEnds(p) /\ p \notin early
    /\ pairing[p].status = "claimed"
    /\ ClaimedKey(p) # {}
    /\ early' = early \cup {p}
    /\ UNCHANGED <<pairing, stale, keys, made, consents>>

\* create_space_api_key and revoke_space_api_key of a signed-in user.
CreateKey(u, id) ==
    /\ Issue([id |-> id, user |-> u, for |-> Nobody])
    /\ UNCHANGED <<pairing, stale, early, consents>>

RevokeKey(k) ==
    /\ keys' = keys \ {k}
    /\ UNCHANGED <<pairing, stale, early, made, consents>>

\* TTL_SECONDS and the interval of polls.
PairingExpires(p) ==
    /\ pairing[p] # Absent
    /\ stale' = stale \cup {p}
    /\ UNCHANGED <<pairing, early, keys, made, consents>>

PollIsDue(p) ==
    /\ p \in early
    /\ early' = early \ {p}
    /\ UNCHANGED <<pairing, stale, keys, made, consents>>

AgentNext ==
    \/ \E p \in Pairings :
        \/ Start(p)
        \/ \E u \in Owners, status \in {"approved", "denied"} : Decide(p, u, status)
        \/ PollTooEarly(p) \/ PollPending(p) \/ PollClaimed(p)
        \/ \E id \in KeyIds : Claim(p, id)
        \/ PairingExpires(p) \/ PollIsDue(p)
    \/ \E u \in Owners, id \in KeyIds : CreateKey(u, id)
    \/ \E k \in keys : RevokeKey(k)

AgentSpec == AgentInit /\ [][AgentNext]_agentVars

-----------------------------------------------------------------------------
(* Properties.                                                               *)

\* A pairing makes one key at most, for the one user who approved it, also when
\* polls are repeated and the key has been deleted meanwhile
\* (space_agent_auth.py:125-134, 160-175).
OneKeyPerPairing ==
    \A k \in made : k.for # Nobody =>
        /\ <<k.for, k.user>> \in consents
        /\ \A c \in consents : c[1] = k.for => c[2] = k.user
        /\ \A other \in made : other.for = k.for => other = k

\* A user's keys stay within the limit, though agents and browsers make them
\* at once (space_accounts.py:72-80).
KeysAreLimited == \A u \in Owners : Cardinality(KeysOf(u)) <= MaxKeys

\* Keys come from one consent each and stay few (space_agent_auth.py:139-180,
\* space_accounts.py:66-94).
AgentKeysAreSound == OneKeyPerPairing /\ KeysAreLimited
=============================================================================
