----------------------------- MODULE SkinLibrary -----------------------------
(***************************************************************************)
(* What users do with skins once there are any: collections of them        *)
(* (routers/collections.py), likes (routers/generate.py) and the one a     *)
(* user wears (routers/auth.py), against their deletion                    *)
(* (skin_withdrawal.py); and what is shown of them to whom, the cached     *)
(* list of discoveries included.                                           *)
(*                                                                         *)
(* A handler reads and checks first and commits later, without a lock; the *)
(* handlers of other API processes come in between.  The visibility of a   *)
(* skin and of a collection never changes after its creation, so both are  *)
(* constants.  A deletion is two commits: begin marks the skin, resume     *)
(* removes what refers to it once its files are gone (GenerationJobs has   *)
(* the files).                                                             *)
(***************************************************************************)
EXTENDS Naturals, FiniteSets, Functions

CONSTANTS
    Members,
    Skins, NoSkin, SkinOwner, SkinIsPublic,
    Shelves, ShelfOwner, ShelfIsPublic,     \* collections
    ItemIds, NoItem,
    MaxItems, MaxShelves,   \* 200 items; 100 or 200 collections
    MaxRows,                \* bounds the rows of a like and its counter
    Servers,                \* the API processes
    Background,             \* the process that refreshes the discoveries
    LocalAge,               \* DISCOVERY_LOCAL_CACHE_MAX_AGE_SECONDS
    RedisAge,               \* DISCOVERY_CACHE_TTL_SECONDS
    RefreshTime,            \* bounds the time of one refresh
    LastTick                \* bounds time

ASSUME LibraryAssumption ==
    /\ NoSkin \notin Skins
    /\ SkinOwner \in [Skins -> Members] /\ SkinIsPublic \in [Skins -> BOOLEAN]
    /\ ShelfOwner \in [Shelves -> Members] /\ ShelfIsPublic \in [Shelves -> BOOLEAN]
    /\ MaxItems \in Nat /\ MaxShelves \in Nat /\ MaxRows \in Nat
    /\ {LocalAge, RedisAge, RefreshTime, LastTick} \subseteq Nat

VARIABLES
    skins,          \* GenerationLog: status, "deleted" from begin, "withdrawn" from resume
    subscribers,    \* users whose Pro is active
    shelves,        \* the rows of Collection
    items,          \* CollectionItem: its collection and its skin
    edits,          \* checked changes of items that are to be committed
    worn,           \* User.skin_url
    choices,        \* checked changes of it
    loves,          \* the number of UserLike rows of a user and a skin
    love_counts,    \* GenerationLog.likes_count
    loving,         \* likes that have been read and not written
    crossed,        \* skins whose likes overlapped, with their user where one's own did
    caught,         \* users and the skins they were choosing as these were deleted
    tick,           \* time
    deleted_at,     \* when begin committed
    redis,          \* DISCOVERY_CACHE_KEY: a list and when it was written
    local,          \* discovery_cache_items of a process, and when it was set
    refreshes       \* lists that have been read for the caches and not written

shelfVars == <<shelves, items, edits>>
wornVars == <<worn, choices, caught>>
loveVars == <<loves, love_counts, loving, crossed>>
cacheVars == <<tick, redis, local, refreshes>>
libraryVars == <<skins, deleted_at, subscribers, shelfVars, wornVars, loveVars, cacheVars>>

Item == [shelf : Shelves, skin : Skins]

Gone == {"deleted", "withdrawn"}

\* A list of skins that was in a cache from a time on.
Listing == [list : SUBSET Skins, since : Nat]
Nothing == [list |-> {}, since |-> 0]

LibraryTypeOK ==
    /\ skins \in [Skins -> {"absent", "active", "success", "failed"} \cup Gone]
    /\ subscribers \subseteq Members
    /\ shelves \subseteq Shelves
    /\ items \in [ItemIds -> Item \cup {NoItem}]
    /\ \A e \in edits : e.drop \subseteq ItemIds /\ e.move \subseteq ItemIds /\ e.put \subseteq Item
    /\ worn \in [Members -> Skins \cup {NoSkin}]
    /\ choices \subseteq Members \X Skins
    /\ loves \in [Members -> [Skins -> 0..MaxRows]]
    /\ love_counts \in [Skins -> 0..MaxRows]
    /\ tick \in Nat /\ deleted_at \in [Skins -> Nat]
    /\ redis \in Listing /\ local \in [Servers -> Listing]

LibraryInit ==
    /\ skins = [s \in Skins |-> "absent"]
    /\ subscribers = {}
    /\ shelves = {}
    /\ items = [i \in ItemIds |-> NoItem]
    /\ edits = {}
    /\ worn = [u \in Members |-> NoSkin]
    /\ choices = {}
    /\ loves = [u \in Members |-> [s \in Skins |-> 0]]
    /\ love_counts = [s \in Skins |-> 0]
    /\ loving = {}
    /\ crossed = {}
    /\ caught = {}
    /\ tick = 0
    /\ deleted_at = [s \in Skins |-> 0]
    /\ redis = Nothing
    /\ local = [p \in Servers |-> Nothing]
    /\ refreshes = {}

-----------------------------------------------------------------------------
(* Skins.                                                                    *)

\* generate_image, or an upload, which is a success at once.
AddSkin(s, status) ==
    /\ skins[s] = "absent"
    /\ ~SkinIsPublic[s] => SkinOwner[s] \in subscribers
    /\ skins' = [skins EXCEPT ![s] = status]
    /\ UNCHANGED <<deleted_at, subscribers, shelfVars, wornVars, loveVars, cacheVars>>

FinishSkin(s, status) ==
    /\ skins[s] = "active"
    /\ skins' = [skins EXCEPT ![s] = status]
    /\ UNCHANGED <<deleted_at, subscribers, shelfVars, wornVars, loveVars, cacheVars>>

Undressed(s) == [u \in Members |-> IF worn[u] = s THEN NoSkin ELSE worn[u]]

\* delete_log and the administrator's deletions, up to begin's commit.
DeleteSkin(s) ==
    /\ skins[s] \in {"active", "success", "failed"}
    /\ skins' = [skins EXCEPT ![s] = "deleted"]
    /\ deleted_at' = [deleted_at EXCEPT ![s] = tick]
    /\ worn' = Undressed(s)
    /\ caught' = caught \cup {c \in choices : c[2] = s}
    /\ UNCHANGED <<subscribers, shelfVars, choices, loveVars, cacheVars>>

\* Mutant: the rows of the likes are forgotten.
KeepRows(s) == loves

\* The rows of likes that a withdrawal leaves.
WithoutLikes(s) == [u \in Members |-> [loves[u] EXCEPT ![s] = 0]]

\* The last commit of resume, or of the job that repeats it.
WithdrawSkin(s) ==
    /\ skins[s] = "deleted"
    /\ skins' = [skins EXCEPT ![s] = "withdrawn"]
    /\ items' = [i \in ItemIds |-> IF items[i] # NoItem /\ items[i].skin = s THEN NoItem ELSE items[i]]
    /\ loves' = WithoutLikes(s)
    /\ love_counts' = [love_counts EXCEPT ![s] = 0]
    /\ crossed' = IF \E l \in loving : l.skin = s THEN crossed \cup {s} ELSE crossed
    /\ worn' = Undressed(s)
    /\ caught' = {c \in caught : c[2] = s => c \in choices}
    /\ UNCHANGED <<deleted_at, subscribers, shelves, edits, choices, loving, cacheVars>>

ChangePlan(u) ==
    /\ subscribers' \in {subscribers \cup {u}, subscribers \ {u}}
    /\ UNCHANGED <<skins, deleted_at, shelfVars, wornVars, loveVars, cacheVars>>

\* visible_logs.
Visible(s, u) == skins[s] = "success" /\ (SkinIsPublic[s] \/ SkinOwner[s] = u)

-----------------------------------------------------------------------------
(* Collections.                                                              *)

ItemsIn(k) == {i \in ItemIds : items[i] # NoItem /\ items[i].shelf = k}

\* create_collection.
CreateShelf(k) ==
    LET same == {other \in shelves : /\ ShelfOwner[other] = ShelfOwner[k]
                                     /\ ShelfIsPublic[other] = ShelfIsPublic[k]}
    IN  /\ k \notin shelves
        /\ ~ShelfIsPublic[k] => ShelfOwner[k] \in subscribers
        /\ Cardinality(same) < MaxShelves
        /\ shelves' = shelves \cup {k}
        /\ UNCHANGED <<skins, deleted_at, subscribers, items, edits, wornVars, loveVars, cacheVars>>

\* delete_collection.
DeleteShelf(k) ==
    /\ k \in shelves
    /\ shelves' = shelves \ {k}
    /\ items' = [i \in ItemIds |-> IF i \in ItemsIn(k) THEN NoItem ELSE items[i]]
    /\ UNCHANGED <<skins, deleted_at, subscribers, edits, wornVars, loveVars, cacheVars>>

Fits(s, k) == ShelfIsPublic[k] => SkinIsPublic[s]

Edit(drop, move, put) ==
    /\ edits' = edits \cup {[drop |-> drop, move |-> move, put |-> put]}
    /\ UNCHANGED <<skins, deleted_at, subscribers, shelves, items, wornVars, loveVars, cacheVars>>

\* add_item_to_collection, by the collection's owner, up to its commit.
AddItem(s, k) ==
    /\ k \in shelves
    /\ ~ShelfIsPublic[k] => ShelfOwner[k] \in subscribers
    /\ Cardinality(ItemsIn(k)) < MaxItems
    /\ Visible(s, ShelfOwner[k])
    /\ Fits(s, k)
    /\ Edit({}, {}, {[shelf |-> k, skin |-> s]})

\* Mutant: a move does not ask whom the target shows its items to.
MovableAnywhere(i, k) == Visible(items[i].skin, ShelfOwner[k])

Movable_to(i, k) == Visible(items[i].skin, ShelfOwner[k]) /\ Fits(items[i].skin, k)

\* move_item.  The number of items is not looked at.
MoveItem(i, k) ==
    /\ items[i] # NoItem
    /\ {items[i].shelf, k} \subseteq shelves
    /\ ShelfOwner[items[i].shelf] = ShelfOwner[k]
    /\ Movable_to(i, k)
    /\ Edit({}, {i}, {[items[i] EXCEPT !.shelf = k]})

\* remove_item_from_collection.
RemoveItem(i) ==
    /\ items[i] # NoItem
    /\ items[i].shelf \in shelves
    /\ Edit({i}, {}, {})

\* update_log_collections: the collections of a user that are to hold a skin.
\* Neither the skin's state nor the user's plan is looked at.  A choice that
\* changes nothing commits nothing.
ChooseShelves(u, s, targets) ==
    LET current == {i \in ItemIds : /\ items[i] # NoItem /\ items[i].skin = s
                                    /\ items[i].shelf \in shelves
                                    /\ ShelfOwner[items[i].shelf] = u}
        added == (targets \cap shelves) \ {items[i].shelf : i \in current}
        own == {k \in added : ShelfOwner[k] = u}
        dropped == {i \in current : items[i].shelf \notin targets}
    IN  /\ skins[s] # "absent"
        /\ SkinOwner[s] = u \/ SkinIsPublic[s]
        /\ \A k \in added : Cardinality(ItemsIn(k)) < MaxItems
        /\ \A k \in own : Fits(s, k)
        /\ dropped # {} \/ own # {}
        /\ Edit(dropped, {}, {[shelf |-> k, skin |-> s] : k \in own})

\* The commit.  An item that is to be moved must still be there; one that is to
\* be deleted need not.
CommitEdit(e) ==
    /\ edits' = edits \ {e}
    /\ LET free == {i \in ItemIds : items[i] = NoItem}
       IN  IF e.move \cap free # {}
           THEN UNCHANGED items
           ELSE \E place \in Injection(e.put, IF e.move # {} THEN e.move ELSE free) :
                items' = [i \in ItemIds |->
                            IF i \in Range(place) THEN AntiFunction(place)[i]
                            ELSE IF i \in e.drop THEN NoItem ELSE items[i]]
    /\ UNCHANGED <<skins, deleted_at, subscribers, shelves, wornVars, loveVars, cacheVars>>

-----------------------------------------------------------------------------
(* The skin a user wears: update_minecraft_skin.                             *)

ChooseSkin(u, s) ==
    /\ skins[s] \notin {"absent"} \cup Gone
    /\ SkinOwner[s] = u /\ SkinIsPublic[s]
    /\ choices' = choices \cup {<<u, s>>}
    /\ UNCHANGED <<skins, deleted_at, subscribers, shelfVars, worn, caught, loveVars, cacheVars>>

WearSkin(c) ==
    /\ worn' = [worn EXCEPT ![c[1]] = c[2]]
    /\ choices' = choices \ {c}
    /\ UNCHANGED <<skins, deleted_at, subscribers, shelfVars, caught, loveVars, cacheVars>>

TakeOff(u) ==
    /\ worn' = [worn EXCEPT ![u] = NoSkin]
    /\ UNCHANGED <<skins, deleted_at, subscribers, shelfVars, choices, caught, loveVars, cacheVars>>

-----------------------------------------------------------------------------
(* Likes: toggle_like, whose table has no unique constraint.                 *)

ReadLike(u, s) ==
    /\ skins[s] \notin {"absent"} \cup Gone
    /\ SkinIsPublic[s] \/ SkinOwner[s] = u
    /\ loving' = loving \cup {[user |-> u, skin |-> s, liked |-> loves[u][s] > 0,
                               count |-> love_counts[s]]}
    /\ crossed' = crossed \cup {s : l \in {l \in loving : l.skin = s}}
                          \cup {<<u, s>> : l \in {l \in loving : l.skin = s /\ l.user = u}}
    /\ UNCHANGED <<skins, deleted_at, subscribers, shelfVars, wornVars, loves, love_counts, cacheVars>>

Less(n) == IF n > 0 THEN n - 1 ELSE 0

\* The counter is written as it was read, one less or one more.
NewCount(l) == IF l.liked THEN Less(l.count) ELSE l.count + 1

WriteLike(l) ==
    /\ loves' = [loves EXCEPT ![l.user][l.skin] = IF l.liked THEN Less(@) ELSE @ + 1]
    /\ love_counts' = [love_counts EXCEPT ![l.skin] = NewCount(l)]
    /\ loves'[l.user][l.skin] <= MaxRows /\ love_counts'[l.skin] <= MaxRows
    /\ loving' = loving \ {l}
    /\ UNCHANGED <<skins, deleted_at, subscribers, shelfVars, wornVars, crossed, cacheVars>>

-----------------------------------------------------------------------------
(* The discoveries: a list that the background process and, where Redis has  *)
(* none, an API process read from the database and put into Redis and into   *)
(* their own memory.                                                         *)

TimePassesHere ==
    /\ tick < LastTick
    /\ \A r \in refreshes : tick < r.since + RefreshTime
    /\ tick' = tick + 1
    /\ UNCHANGED <<skins, deleted_at, subscribers, shelfVars, wornVars, loveVars, redis, local, refreshes>>

\* Mutant: the list is written without an end.
InRedisForGood == redis.list # {}

\* The key has an end, EX.
InRedis == redis.list # {} /\ tick < redis.since + RedisAge

\* local_cache_fresh.
IsFresh(p) == local[p].list # {} /\ tick < local[p].since + LocalAge

\* update_discovery_cache up to its last query.  At most 180 skins: all.
ReadDiscoveries(p) ==
    /\ \A r \in refreshes : r.by # p
    /\ p \in Servers => ~IsFresh(p)
    /\ refreshes' = refreshes \cup
         {[by |-> p, list |-> {s \in Skins : skins[s] = "success" /\ SkinIsPublic[s]}, since |-> tick]}
    /\ UNCHANGED <<skins, deleted_at, subscribers, shelfVars, wornVars, loveVars, tick, redis, local>>

\* The rest of it; Redis may fail, which is passed over.
StoreDiscoveries(r, stored) ==
    LET found == [list |-> r.list, since |-> tick]
    IN  /\ refreshes' = refreshes \ {r}
        /\ local' = IF r.by \in Servers THEN [local EXCEPT ![r.by] = found] ELSE local
        /\ redis' = IF stored THEN found ELSE redis
        /\ UNCHANGED <<skins, deleted_at, subscribers, shelfVars, wornVars, loveVars, tick>>

\* get_discovery_cache_items, where another process has put the list into Redis.
FetchDiscoveries(p) ==
    /\ \A r \in refreshes : r.by # p
    /\ ~IsFresh(p)
    /\ InRedis
    /\ local' = [local EXCEPT ![p] = [list |-> redis.list, since |-> tick]]
    /\ UNCHANGED <<skins, deleted_at, subscribers, shelfVars, wornVars, loveVars, tick, redis, refreshes>>

-----------------------------------------------------------------------------
LibraryNext ==
    \/ \E s \in Skins :
        \/ \E status \in {"active", "success"} : AddSkin(s, status)
        \/ \E status \in {"success", "failed"} : FinishSkin(s, status)
        \/ DeleteSkin(s) \/ WithdrawSkin(s)
        \/ \E k \in Shelves : AddItem(s, k)
        \/ \E u \in Members :
            \/ ChooseSkin(u, s) \/ ReadLike(u, s)
            \/ \E targets \in SUBSET Shelves : ChooseShelves(u, s, targets)
    \/ \E u \in Members : ChangePlan(u) \/ TakeOff(u)
    \/ \E k \in Shelves : CreateShelf(k) \/ DeleteShelf(k)
    \/ \E i \in ItemIds : RemoveItem(i) \/ \E k \in Shelves : MoveItem(i, k)
    \/ \E e \in edits : CommitEdit(e)
    \/ \E c \in choices : WearSkin(c)
    \/ \E l \in loving : WriteLike(l)
    \/ TimePassesHere
    \/ \E p \in Servers \cup {Background} : ReadDiscoveries(p)
    \/ \E r \in refreshes, stored \in BOOLEAN : StoreDiscoveries(r, stored)
    \/ \E p \in Servers : FetchDiscoveries(p)

LibrarySpec == LibraryInit /\ [][LibraryNext]_libraryVars

-----------------------------------------------------------------------------
(* What is shown to a user, or to a guest.                                   *)

CONSTANT Guest

ASSUME GuestAssumption == Guest \notin Members

Viewers == Members \cup {Guest}

\* visible_items: the public ones in a public collection.
ShownIn(k, s, v) ==
    /\ ShelfIsPublic[k] \/ ShelfOwner[k] = v
    /\ \E i \in ItemIds : items[i] = [shelf |-> k, skin |-> s]
    /\ Visible(s, IF ShelfIsPublic[k] THEN Guest ELSE v)

\* "My Likes".
ShownAsLiked(s, v) == v \in Members /\ Visible(s, v) /\ loves[v][s] > 0

\* The creations of a user: the public ones, and to the user the others.
ShownAsCreation(s, v) == skins[s] = "success" /\ (SkinIsPublic[s] \/ SkinOwner[s] = v)

ShownInSearch(s) == skins[s] = "success" /\ SkinIsPublic[s]

\* One skin with its details.
DetailsShown(s, v) ==
    skins[s] \notin {"absent"} \cup Gone /\ (SkinIsPublic[s] \/ SkinOwner[s] = v)

\* The character of a user, which carries its skin's address.
ShownAsWorn(s) == \E u \in Members : worn[u] = s

\* The answer of GET /discovery of a process that has a list.
ShownAsDiscovery(s) == \E p \in Servers : IsFresh(p) /\ s \in local[p].list

Shown(s, v) ==
    \/ \E k \in shelves : ShownIn(k, s, v)
    \/ ShownAsLiked(s, v) \/ ShownAsCreation(s, v)
    \/ ShownInSearch(s) \/ DetailsShown(s, v)
    \/ ShownAsWorn(s) \/ ShownAsDiscovery(s)

-----------------------------------------------------------------------------
(* Properties.                                                               *)

\* Whatever edits, moves and choices overlap, a public collection never holds a
\* private skin (collections.py:421, 488, 691), and no list, character or cached
\* answer shows one to others.
PrivateStaysPrivate ==
    /\ \A i \in ItemIds :
        items[i] # NoItem /\ ShelfIsPublic[items[i].shelf] => SkinIsPublic[items[i].skin]
    /\ \A s \in Skins, v \in Viewers : ~SkinIsPublic[s] /\ SkinOwner[s] # v => ~Shown(s, v)

\* A deleted skin is still shown, but in two ways only, and both end.  Users wear
\* it who were choosing it when it was deleted, and when it is withdrawn they
\* lose it, unless their choice is still to be committed.  GET /discovery shows
\* it until the caches' ages have passed (skin_withdrawal.py:40-45, 97-100;
\* generate.py:1252-1265).
DeletedIsForgotten ==
    \A s \in Skins, v \in Viewers : skins[s] \in Gone /\ Shown(s, v) =>
        \/ \E u \in Members : worn[u] = s /\ <<u, s>> \in caught
        \/ ShownAsDiscovery(s) /\ tick < deleted_at[s] + RefreshTime + RedisAge + LocalAge

\* Where its likes overlapped neither each other nor its withdrawal, a skin
\* counts its likes, of which none survives the withdrawal; and who did not like
\* it twice at once likes it once (generate.py:1128-1138, skin_withdrawal.py:94).
SkinLikesAddUp ==
    /\ \A s \in Skins \ crossed :
        /\ love_counts[s] = Cardinality({u \in Members : loves[u][s] > 0})
        /\ skins[s] = "withdrawn" => love_counts[s] = 0
    /\ \A s \in Skins, u \in Members : <<u, s>> \notin crossed => loves[u][s] <= 1

\* What is private is not shown to others, and what is deleted is soon shown to
\* nobody, in whatever order collections, characters, deletions and caches change
\* (routers/collections.py:52-58, skin_withdrawal.py:29-107).
HiddenStaysHidden == PrivateStaysPrivate /\ DeletedIsForgotten
=============================================================================
