-------------------------------- MODULE Storefront --------------------------------
(***************************************************************************)
(* Offers and what surrounds them: the submissions of users, the catalogue  *)
(* the offers are read from, the settings that decide about both, and the   *)
(* memberships of Ludo that are sold by settings too.  The caches of the    *)
(* catalogue and of the settings are asked by every component and change    *)
(* nothing of it, and memberships share no row with offers; a behaviour is  *)
(* therefore a behaviour of one component, chosen in the initial state.    *)
(***************************************************************************)
EXTENDS OfferSubmissions

CONSTANTS
    Listings, Categories, Readers, Editors, Nobody,                \* OfferCatalogue
    Keys, Asked, LastSlug, CacheMax, MaxEdits, MaxUpsets,
    Askers, NoAsker, MaxUpdates, MaxMishaps,                       \* SettingsCache
    Orders, Plans, AppCalls, Deliveries, Legacy, None,             \* LudoSubscriptions
    MaxChanges, MaxBegun, MaxFaults

\* Bounds are numbers, and nobody is none of those who ask.
ASSUME CatalogueBounds ==
    /\ {MaxEdits, MaxUpsets} \subseteq Nat /\ Nobody \notin Readers /\ IsFiniteSet(Editors)
    /\ LastSlug \in Nat \ {0} /\ Asked \subseteq 1..LastSlug
ASSUME CacheBounds == IsFiniteSet(Keys) /\ CacheMax \in Nat \ {0}
ASSUME SettingsBounds == {MaxUpdates, MaxMishaps} \subseteq Nat /\ NoAsker \notin Askers
ASSUME MembershipBounds ==
    {MaxChanges, MaxBegun, MaxFaults} \subseteq Nat /\ {Legacy, None} \cap Orders = {} /\ Legacy # None

VARIABLES
    part,      \* the component that acts
    row, page, edits, acked, cache, older, generation, reader, editor, misled, upsets,   \* OfferCatalogue
    stored, told, snapshot, version, loading, asker, committing, outdated, mishaps,   \* SettingsCache
    sub, over, stale, cancelled, entitlement, event, receipt, call, worker,   \* LudoSubscriptions
    payment, provider, emitted, ackedEvents, begun, faultCount

Catalogue == INSTANCE OfferCatalogue WITH Offers <- Listings
Cache == INSTANCE SettingsCache
Membership == INSTANCE LudoSubscriptions WITH
    Calls <- AppCalls, Workers <- Deliveries, acked <- ackedEvents

catalogueVars == <<row, page, edits, acked, cache, older, generation, reader, editor, misled, upsets>>
settingsVars == <<stored, told, snapshot, version, loading, asker, committing, outdated, mishaps>>
membershipVars == <<sub, over, stale, cancelled, entitlement, event, receipt, call,
    worker, payment, provider, emitted, ackedEvents, begun, faultCount>>

\* The variables of the components that do not act stay at 0; submissions rest in an
\* initial state.
CatalogueRests ==
    /\ row = 0 /\ page = 0 /\ edits = 0 /\ acked = 0 /\ cache = 0 /\ older = 0
    /\ generation = 0 /\ reader = 0 /\ editor = 0 /\ misled = FALSE /\ upsets = 0
SettingsRest ==
    /\ stored = 0 /\ told = 0 /\ snapshot = 0 /\ version = 0 /\ loading = 0 /\ asker = 0
    /\ committing = 0 /\ outdated = FALSE /\ mishaps = 0
MembershipsRest ==
    /\ sub = 0 /\ over = 0 /\ stale = 0 /\ cancelled = 0 /\ entitlement = 0 /\ event = 0
    /\ receipt = 0 /\ call = 0 /\ worker = 0 /\ payment = 0 /\ provider = 0
    /\ emitted = 0 /\ ackedEvents = 0 /\ begun = 0 /\ faultCount = 0

StorefrontInit ==
    /\ part \in {"submissions", "catalogue", "settings", "memberships"}
    /\ Init /\ (part # "submissions" => price = [o \in Offers |-> CHOOSE coins \in Coins : TRUE])
    /\ IF part = "catalogue" THEN Catalogue!Init ELSE CatalogueRests
    /\ IF part = "settings" THEN Cache!Init ELSE SettingsRest
    /\ IF part = "memberships" THEN Membership!Init ELSE MembershipsRest

StorefrontNext ==
    \/ part = "submissions" /\ Next /\ UNCHANGED <<part, catalogueVars, settingsVars, membershipVars>>
    \/ part = "catalogue" /\ Catalogue!Next /\ UNCHANGED <<part, vars, settingsVars, membershipVars>>
    \/ part = "settings" /\ Cache!Next /\ UNCHANGED <<part, vars, catalogueVars, membershipVars>>
    \/ part = "memberships" /\ Membership!Next /\ UNCHANGED <<part, vars, catalogueVars, settingsVars>>

StorefrontSpec ==
    StorefrontInit /\ [][StorefrontNext]_<<part, vars, catalogueVars, settingsVars, membershipVars>>

\* The types of every part.
TypesOK ==
    /\ part = "submissions" => TypeOK
    /\ part = "catalogue" => Catalogue!TypeOK
    /\ part = "settings" => Cache!TypeOK
    /\ part = "memberships" => Membership!TypeOK

\* "per-user submissions per day" and the "cap on approved rewards" of an offer hold
\* together, for users who submit one proof at a time and one approving admin
\* (submitProof, approveSubmission).
LimitsHold == WithinDailyLimit /\ WithinRewardCap

\* An edit or an update that was acknowledged is in every answer asked for later, of the
\* public catalogue (cachedPublic) and of the settings (overrides).
AcknowledgedIsSeen ==
    /\ part = "catalogue" => Catalogue!EditsAreSeen
    /\ part = "settings" => Cache!UpdatesAreSeen

\* An order is a membership for exactly one payment, and one delivery at a time works on
\* an event of the provider (verifyMembershipOrder, webhook).
PaidAndDeliveredOnce ==
    part = "memberships" => Membership!OnePaymentPerMembership /\ Membership!OneDeliveryPerEvent
===============================================================================
