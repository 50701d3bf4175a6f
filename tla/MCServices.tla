------------------------------ MODULE MCServices ------------------------------
(* A finite instance of each service, and what bounds it.                    *)
EXTENDS Services, TLC

CONSTANTS u1, u2, x1, x2, x3, i1, i2, i3

\* Credits: a purchase, a generation, and three authorizations of one entity, of
\* which one has two holds and money for one.
MCBuyer == x1 :> u1
MCBought == x1 :> 2
MCAuthor == x1 :> u1
MCPrice == x1 :> 1
MCPayer == x1 :> u1 @@ x2 :> u2 @@ x3 :> u1
MCEntity == x1 :> "e" @@ x2 :> "e" @@ x3 :> "e"
MCBudget == x1 :> 1 @@ x2 :> 1 @@ x3 :> 1
MCAuthOf == x1 :> x1 @@ x2 :> x3 @@ x3 :> x1
MCMonthOf == 1 :> 1 @@ 2 :> 2

\* The library: a public and a private skin and collection of one owner.
MCSkinOwner == x1 :> u1 @@ x2 :> u1
MCSkinIsPublic == x1 :> TRUE @@ x2 :> FALSE

\* The forum: a post with a picture and one without, of one author.
MCPostAuthor == x1 :> u1 @@ x2 :> u1
MCPostHasImage == x1 :> TRUE @@ x2 :> FALSE

-----------------------------------------------------------------------------
(* Constraints: each service does one thing at a time where its things do    *)
(* not meet.                                                                 *)

\* Two gifts or rewards need no generation and no hosting beside them.
FewCredits ==
    /\ given[u1] + given[u2] <= 2
    /\ \A u \in Users : given[u] = 2 => \A c \in log : c.kind = "purchase"
    /\ hold[x3] # "none" => auth[x2] = "absent" /\ given[u1] <= 1 /\ given[u2] = 0 /\ today = 1

Topics ==
    {t \in {"shelves", "wear", "likes", "discoveries"} :
        CASE t = "shelves" -> shelves # {} \/ edits # {} \/ \E i \in ItemIds : items[i] # NoItem
          [] t = "wear" -> choices # {} \/ \E u \in Members : worn[u] # NoSkin
          [] t = "likes" -> \/ loving # {}
                            \/ \E u \in Members, s \in Skins : loves[u][s] > 0 \/ love_counts[s] > 0
          [] OTHER -> tick > 0 \/ refreshes # {} \/ redis # Nothing \/ local[i3] # Nothing}

OneTopic ==
    /\ Cardinality(Topics) <= 1
    /\ crossed # {} => Topics \subseteq {"likes"}
    /\ caught # {} => Topics \subseteq {"wear"}
    /\ Cardinality(edits) + Cardinality(loving) + Cardinality(choices) <= 2
    /\ [drop |-> {}, move |-> {}, put |-> {}] \notin edits
    /\ subscribers \subseteq {u1}
    /\ skins[x2] \in {"absent", "success"} \cup Gone
    /\ edits # {} => subscribers = {u1} /\ {skins[x1], skins[x2]} \cap {"success"} # {}
    /\ "shelves" \in Topics => skins[x1] \in {"success"} \cup Gone /\ skins[x2] # "absent"
    /\ {"wear", "likes", "discoveries"} \cap Topics # {} =>
         skins[x2] = "absent" /\ subscribers = {} /\ skins[x1] \in {"success"} \cup Gone

Commented ==
    (\E c \in CommentIds : comments[c] # NoComment) \/ (\E c \in forum_calls : c.op = "comment")
Liked == post_likes # {} \/ (\E c \in forum_calls : c.op # "comment")

\* Likes and comments share no more than the post and its notifications.
LikesOrComments ==
    /\ Cardinality(forum_calls) <= 2
    /\ (\E n \in NoticeIds : notices[n] # NoNotice /\ notices[n].read) => Cardinality(forum_calls) <= 1
    /\ Liked => ~Commented /\ posts[x2] = "absent"
    /\ posts[x2] # "deleted"
    /\ Liked \/ Commented => posts[x1] # "showcase" /\ pictures[x1] # "temp"
    /\ Liked => pictures[x1] = "active"
    /\ Commented => /\ post_likes_count[x1] = 0 /\ met = {} /\ untold = {}
                    /\ \A n \in NoticeIds : notices[n] # NoNotice => ~notices[n].read

\* Referrals, settings and codes change apart from each other.
FewOffers ==
    LET untouched == \A p \in Deals \ {LegacyDeal} : deals[p] = NoDeal
    IN  /\ Cardinality(binding) + Cardinality(buying) <= 2
        /\ Cardinality(receipts) <= 2
        /\ receipts # {} => codes[x2].version <= 1
        /\ receipts # {} => untouched /\ \A c \in Codes : codes[c].terms = 1
        /\ (\E k \in DOMAIN settings : settings[k].version > 0) =>
             receipts = {} /\ \A c \in Codes : codes[c].version <= 1 /\ codes[c].owner = Unbound
        /\ settings["shipping"].version <= 1
        /\ \A b \in buying : b.asked = AsBound <=> receipts # {}
        /\ \A b \in buying : b.agreed = NoDeal => \A k \in DOMAIN settings : settings[k].version = 0
        /\ settings["discount"].version + settings["shipping"].version <= 2

\* Pairings, and contracts, only differ by name: the first is the one that comes first.
OneNaming ==
    /\ pairing[x2] # Absent \/ x2 \in stale => pairing[x1] # Absent \/ x1 \in stale
    /\ payments # << >> => payments[1].contract = x1

\* A service that does not move begins in one state.
OneBeginning ==
    /\ service # "billing" => payments = << >> /\ \A c \in Contracts : plan[c] = "pro-plus"
    /\ service # "offers" => deals[LegacyDeal].buyer = u1

MCConstraint == OneBeginning /\ OneNaming /\ FewCredits /\ OneTopic /\ LikesOrComments /\ FewOffers

\* The parts share their ids, since one of them moves: what may be exchanged in
\* one part may be in all.
MCSymmetry == Permutations({i1, i2})
=============================================================================
