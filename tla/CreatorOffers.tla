---------------------------- MODULE CreatorOffers ----------------------------
(***************************************************************************)
(* What a figure is sold at and who earns from it: creator codes, the      *)
(* global discount and the shipping fee that administrators set            *)
(* (routers/creators.py, routers/figure_catalog.py), the code a visit      *)
(* binds to a user (creator_referrals.py) and the offer an order is        *)
(* created with (routers/order.py).                                        *)
(*                                                                         *)
(* Every setting has a version: whoever changes it, or orders by it, sends *)
(* the version he was shown, which may be any earlier one; of the shipping *)
(* fee a buyer sends the fee.  What a setting says is one of a few Terms.  *)
(***************************************************************************)
EXTENDS Naturals

CONSTANTS
    Accounts, Unbound,      \* users: buyers and creators
    Codes, NoCode,
    AsBound,                \* a buyer names no code: the one bound to him is meant
    LegacyCode,             \* a code from before creators had accounts
    Deals, LegacyDeal, NoDeal,
    Terms,
    MaxVersion, MaxClick    \* bound the versions and the times of visits

ASSUME OfferAssumption ==
    /\ Unbound \notin Accounts /\ NoCode \notin Codes /\ AsBound \notin Codes \cup {NoCode}
    /\ LegacyCode \in Codes /\ LegacyDeal \in Deals
    /\ Terms # {} /\ MaxVersion \in Nat \ {0} /\ MaxClick \in Nat

VARIABLES
    codes,          \* CreatorCode; version 0 where there is no row
    settings,       \* the one row of FigureDiscount and of FigureShipping
    clicks,         \* the time of the last visit
    receipts,       \* the signed receipts of visits
    referrals,      \* UserCreatorReferral
    binding,        \* receipts whose code has been looked at
    deals,          \* Order: what creator_snapshot and the prices came from,
                    \* and what its buyer asked for and was shown
    buying          \* the buyers who have been shown an offer, and what create_order
                    \* has read for them

offerVars == <<codes, settings, clicks, receipts, referrals, binding, deals, buying>>

Versions == 0..MaxVersion
Offer == [code : Codes \cup {NoCode}, owner : Accounts \cup {Unbound}, terms : Terms, version : Versions]
Discount == [value : Terms, version : Versions]
NoOffer(t) == [code |-> NoCode, owner |-> Unbound, terms |-> t, version |-> 0]

OfferTypeOK ==
    /\ codes \in [Codes -> [owner : Accounts \cup {Unbound}, usable : BOOLEAN,
                            terms : Terms, version : Versions]]
    /\ settings \in [{"discount", "shipping"} -> Discount]
    /\ receipts \subseteq [code : Codes, clicked : 0..MaxClick]
    /\ referrals \in [Accounts -> [original : Codes \cup {NoCode}, current : Codes \cup {NoCode},
                                   clicked : 0..MaxClick]]
    /\ \A p \in Deals : deals[p] # NoDeal =>
        deals[p].offer \in Offer /\ deals[p].buyer \in Accounts
    /\ \A b \in buying : b.deal \in Deals /\ b.buyer \in Accounts /\ b.asked \in Codes \cup {NoCode, AsBound}

None == CHOOSE t \in Terms : TRUE
NotSet == [value |-> None, version |-> 0]

OfferInit ==
    /\ codes = [c \in Codes |-> [owner |-> Unbound, usable |-> c = LegacyCode, terms |-> None,
                                 version |-> IF c = LegacyCode THEN 1 ELSE 0]]
    /\ settings = [k \in {"discount", "shipping"} |-> NotSet]
    /\ clicks = 0
    /\ receipts = {}
    /\ referrals = [u \in Accounts |-> [original |-> NoCode, current |-> NoCode, clicked |-> 0]]
    /\ binding = {}
    /\ \E u \in Accounts :
        deals = [p \in Deals |->
            IF p # LegacyDeal THEN NoDeal
            ELSE [buyer |-> u, earns |-> TRUE, discount |-> NotSet, fee |-> None,
                  offer |-> [NoOffer(None) EXCEPT !.code = LegacyCode, !.version = 1],
                  asked |-> LegacyCode, agreed |-> NoDeal]]
    /\ buying = {}

-----------------------------------------------------------------------------
(* Settings.                                                                 *)

Ownable(c, u) == codes[c].owner \in {Unbound, u}

\* Orders of a code without an owner go to the owner it gets; nobody earns from
\* his own.
Bequeathed(c, u) ==
    [p \in Deals |->
        IF deals[p] # NoDeal /\ deals[p].offer.code = c /\ deals[p].offer.owner = Unbound
        THEN [deals[p] EXCEPT !.offer.owner = u, !.earns = @ /\ deals[p].buyer # u]
        ELSE deals[p]]

\* save_code.  expected is 0 when a new code is meant.
SaveCode(c, u, terms, usable, expected) ==
    /\ codes[c].version = expected /\ expected < MaxVersion
    /\ Ownable(c, u)
    /\ codes' = [codes EXCEPT ![c] = [owner |-> u, usable |-> usable, terms |-> terms,
                                      version |-> expected + 1]]
    /\ deals' = Bequeathed(c, u)
    /\ UNCHANGED <<settings, clicks, receipts, referrals, binding, buying>>

\* expires_at passes.
CodeExpires(c) ==
    /\ codes[c].usable
    /\ codes' = [codes EXCEPT ![c].usable = FALSE]
    /\ UNCHANGED <<settings, clicks, receipts, referrals, binding, deals, buying>>

\* The first insert of the row, or the conditional UPDATE.
Settable(k, expected) == settings[k].version = expected

\* update_discount and update_shipping.
UpdateSetting(k, value, expected) ==
    /\ Settable(k, expected)
    /\ expected < MaxVersion
    /\ settings' = [settings EXCEPT ![k] = [value |-> value, version |-> expected + 1]]
    /\ UNCHANGED <<codes, clicks, receipts, referrals, binding, deals, buying>>

-----------------------------------------------------------------------------
(* Referrals.                                                                *)

\* active_code.
IsActive(c) == c \in Codes /\ codes[c].version > 0 /\ codes[c].owner # Unbound /\ codes[c].usable

\* record_visit: visits within a second have the same time.
RecordVisit(c, time) ==
    /\ IsActive(c) /\ time \in {clicks, clicks + 1} /\ time <= MaxClick
    /\ clicks' = time
    /\ receipts' = receipts \cup {[code |-> c, clicked |-> time]}
    /\ UNCHANGED <<codes, settings, referrals, binding, deals, buying>>

\* bind_referral up to its lock of the user, for a login, save_referral or quote.
ReadReceipt(u, r) ==
    /\ IsActive(r.code) /\ codes[r.code].owner # u
    /\ binding' = binding \cup {[user |-> u, code |-> r.code, clicked |-> r.clicked]}
    /\ UNCHANGED <<codes, settings, clicks, receipts, referrals, deals, buying>>

\* Mutant: an older receipt that comes late replaces a newer one.
ReboundByAny(saved, b) == [saved EXCEPT !.current = b.code, !.clicked = b.clicked]

Rebound(saved, b) ==
    IF b.clicked >= saved.clicked
    THEN [saved EXCEPT !.current = b.code, !.clicked = b.clicked] ELSE saved

\* The rest, with the user locked.
BindReferral(b) ==
    /\ referrals' = [referrals EXCEPT ![b.user] =
            IF @.original = NoCode
            THEN [original |-> b.code, current |-> b.code, clicked |-> b.clicked]
            ELSE Rebound(@, b)]
    /\ binding' = binding \ {b}
    /\ UNCHANGED <<codes, settings, clicks, receipts, deals, buying>>

-----------------------------------------------------------------------------
(* Orders.                                                                   *)

OfferOf(c) ==
    IF c = NoCode THEN NoOffer(None)
    ELSE [code |-> c, owner |-> codes[c].owner, terms |-> codes[c].terms, version |-> codes[c].version]

\* default_code: the bound one, unless it is no longer active or the buyer's own.
DefaultCode(u) ==
    LET c == referrals[u].current
    IN  IF IsActive(c) /\ codes[c].owner # u THEN c ELSE NoCode

Selectable(u, c) == c \in Codes => IsActive(c) /\ codes[c].owner # u

Named(u, asked) == IF asked = AsBound THEN DefaultCode(u) ELSE asked

\* quote: the offer, the discount and the fee a buyer is shown for an order.
\* Some clients send them back with the order, some do not.
ShowOffer(u, p, asked, sends) ==
    LET c == Named(u, asked)
        shown == [offer |-> OfferOf(c), discount |-> settings["discount"], fee |-> settings["shipping"].value]
    IN  /\ deals[p] = NoDeal /\ \A b \in buying : b.deal # p
        /\ Selectable(u, c)
        /\ buying' = buying \cup {[deal |-> p, buyer |-> u, asked |-> asked,
                                   agreed |-> IF sends THEN shown ELSE NoDeal,
                                   read |-> FALSE, offer |-> NoOffer(None), discount |-> NotSet]}
        /\ UNCHANGED <<codes, settings, clicks, receipts, referrals, binding, deals>>

\* Mutant: the version of the offer is not compared.
AnyOffer(b, c) == TRUE

\* select_offer compares the versions, and not whose they are.
SameOffer(b, c) ==
    b.agreed # NoDeal /\ b.agreed.offer.code # NoCode /\ c \in Codes =>
        codes[c].version = b.agreed.offer.version

\* current_discount.
SameDiscount(b) == b.agreed # NoDeal => settings["discount"].version = b.agreed.discount.version

\* model_shipping_fee.
SameFee(b) == b.agreed # NoDeal => settings["shipping"].value = b.agreed.fee

Accepted(b) ==
    LET c == Named(b.buyer, b.asked)
    IN  SameDiscount(b) /\ Selectable(b.buyer, c) /\ SameOffer(b, c)

\* create_order up to its offer.
ReadOffer(b) ==
    /\ ~b.read /\ Accepted(b)
    /\ buying' = (buying \ {b}) \cup
         {[b EXCEPT !.read = TRUE, !.offer = OfferOf(Named(b.buyer, b.asked)),
                    !.discount = settings["discount"]]}
    /\ UNCHANGED <<codes, settings, clicks, receipts, referrals, binding, deals>>

\* The rest of it, from the shipping fee to the commit.
CreateDeal(b) ==
    /\ b.read /\ SameFee(b)
    /\ deals' = [deals EXCEPT ![b.deal] =
            [buyer |-> b.buyer, earns |-> b.offer.code # NoCode, discount |-> b.discount,
             fee |-> settings["shipping"].value, offer |-> b.offer, asked |-> b.asked, agreed |-> b.agreed]]
    /\ buying' = buying \ {b}
    /\ UNCHANGED <<codes, settings, clicks, receipts, referrals, binding>>

\* 409: what the buyer was shown is no longer so.
RefuseDeal(b) ==
    /\ IF b.read THEN ~SameFee(b) ELSE ~Accepted(b)
    /\ buying' = buying \ {b}
    /\ UNCHANGED <<codes, settings, clicks, receipts, referrals, binding, deals>>

OfferNext ==
    \/ \E c \in Codes :
        \/ \E u \in Accounts, terms \in Terms, usable \in BOOLEAN, expected \in Versions :
            SaveCode(c, u, terms, usable, expected)
        \/ CodeExpires(c)
        \/ \E time \in 0..MaxClick : RecordVisit(c, time)
    \/ \E k \in {"discount", "shipping"}, value \in Terms, expected \in Versions :
        UpdateSetting(k, value, expected)
    \/ \E u \in Accounts :
        \/ \E r \in receipts : ReadReceipt(u, r)
        \/ \E p \in Deals, asked \in Codes \cup {NoCode, AsBound}, sends \in BOOLEAN :
            ShowOffer(u, p, asked, sends)
    \/ \E b \in binding : BindReferral(b)
    \/ \E b \in buying : ReadOffer(b) \/ CreateDeal(b) \/ RefuseDeal(b)

OfferSpec == OfferInit /\ [][OfferNext]_offerVars

-----------------------------------------------------------------------------
(* Properties.                                                               *)

\* However binding calls overlap, the code that first brought a user stays, and
\* an older visit never displaces a newer one (creator_referrals.py:66-76).
SourcesAreKept ==
    [][\A u \in Accounts : referrals[u].original # NoCode =>
        /\ referrals'[u].original = referrals[u].original
        /\ referrals'[u].clicked >= referrals[u].clicked]_referrals

\* An order is sold at the discount, the fee and, where its buyer named a code,
\* the offer he was shown and sent back, whoever changed them in between
\* (creator_referrals.py:85-93, figure_discounts.py:7-12, figure_shipping.py:17-21).
TermsAreKept ==
    \A p \in Deals : deals[p] # NoDeal /\ deals[p].agreed # NoDeal =>
        LET d == deals[p]
        IN  /\ d.discount = d.agreed.discount
            /\ d.fee = d.agreed.fee
            /\ d.asked # AsBound =>
                 /\ d.offer.code = d.agreed.offer.code
                 /\ d.offer.terms = d.agreed.offer.terms

\* The commission of an order belongs to the owner of its code for ever, and
\* nobody earns from an order of his own (creators.py:125-136).
CommissionFollowsCode ==
    \A p \in Deals : deals[p] # NoDeal /\ deals[p].offer.code # NoCode =>
        /\ deals[p].offer.owner = codes[deals[p].offer.code].owner
        /\ deals[p].earns => deals[p].offer.owner # deals[p].buyer

\* An order keeps the terms its buyer was shown and the creator they name,
\* whatever administrators change meanwhile (creators.py:70-141).
OrdersFollowOffers == TermsAreKept /\ CommissionFollowsCode
=============================================================================
