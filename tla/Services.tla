------------------------------- MODULE Services -------------------------------
(***************************************************************************)
(* The services beside the orders and the jobs, checked together.  They    *)
(* share no variable: what one of them does to another (a subscription     *)
(* that ends Pro, a skin that is deleted) is an action of the environment  *)
(* there.  So every behaviour of one is a behaviour of it alone, and here  *)
(* one of them moves while the others stay as they begin.                  *)
(***************************************************************************)
EXTENDS CreditLedger, SubscriptionBilling, AuthSessions, SpaceAgents, SkinLibrary,
        Forum, CreatorOffers

VARIABLE service    \* the one that moves

servicesVars == <<service, creditVars, billingVars, authVars, agentVars, libraryVars,
                  forumVars, offerVars>>

ServicesInit ==
    /\ service \in {"credits", "billing", "sessions", "agents", "library", "forum", "offers"}
    /\ CreditInit /\ BillingInit /\ AuthInit /\ AgentInit /\ LibraryInit /\ ForumInit /\ OfferInit

ServicesNext ==
    /\ UNCHANGED service
    /\ \/ /\ service = "credits" /\ CreditNext
          /\ UNCHANGED <<billingVars, authVars, agentVars, libraryVars, forumVars, offerVars>>
       \/ /\ service = "billing" /\ BillingNext
          /\ UNCHANGED <<creditVars, authVars, agentVars, libraryVars, forumVars, offerVars>>
       \/ /\ service = "sessions" /\ AuthNext
          /\ UNCHANGED <<creditVars, billingVars, agentVars, libraryVars, forumVars, offerVars>>
       \/ /\ service = "agents" /\ AgentNext
          /\ UNCHANGED <<creditVars, billingVars, authVars, libraryVars, forumVars, offerVars>>
       \/ /\ service = "library" /\ LibraryNext
          /\ UNCHANGED <<creditVars, billingVars, authVars, agentVars, forumVars, offerVars>>
       \/ /\ service = "forum" /\ ForumNext
          /\ UNCHANGED <<creditVars, billingVars, authVars, agentVars, libraryVars, offerVars>>
       \/ /\ service = "offers" /\ OfferNext
          /\ UNCHANGED <<creditVars, billingVars, authVars, agentVars, libraryVars, forumVars>>

ServicesSpec == ServicesInit /\ [][ServicesNext]_servicesVars

\* Where likes did not overlap, every counter of likes agrees with their rows, of
\* skins, withdrawn ones too (routers/generate.py:1108-1141,
\* skin_withdrawal.py:89-107), and of posts, wherever a call stopped; posts'
\* authors know of exactly these, but for calls that stopped between their commits
\* (routers/forum.py:573-624).
LikesAddUp == SkinLikesAddUp /\ PostLikesAddUp
=============================================================================
