------------------------------ MODULE MCStorefront ------------------------------
\* TLC instances of Storefront, beside those of OfferSubmissions: two offers that want the
\* slug 1, or 2 if it is taken, and a category; the offer and the page of slug 1 are read,
\* and there is room for one of them.  Three calls ask for the settings.  Two orders beside
\* a subscription of the provider that an earlier version made; a delivery of an event can
\* meet another of the same event and two calls of the app.
EXTENDS Storefront, MCOfferSubmissions, TLC

CONSTANTS a1, a2, b1, b2, d1, d2

\* Readers, editors and offers are alike; so are the calls, deliveries and orders of
\* memberships, which take the same values.
Alike == Permutations({a1, a2}) \cup Permutations({b1, b2}) \cup Permutations({d1, d2})
===============================================================================
