------------------------------ MODULE OfferCatalogue ------------------------------
(***************************************************************************)
(* The offers, categories and feedback pages of the hot-offers module: how   *)
(* admins edit them, and the process-local cache through which anonymous     *)
(* visitors read them (hot-offers.service.ts and its repository).  An offer   *)
(* and a category are rows with a slug, edited by the same steps; a feedback *)
(* page belongs to a category and is read under its slug.                    *)
(*                                                                         *)
(* What a read returns is modelled by the number of edits it has seen.       *)
(***************************************************************************)
EXTENDS Naturals, FiniteSets

CONSTANTS
    Offers, Categories,   \* rows of offers and of categories
    Readers,       \* anonymous requests under way
    Editors,       \* admin calls under way
    Nobody,        \* no reader
    Keys,          \* bound: the keys that are read
    Asked,         \* bound: the slugs an input names
    LastSlug,      \* slugs are numbered: k+1 is the alternative tried after k
    CacheMax,      \* PUBLIC_CACHE_MAX_ENTRIES
    MaxEdits,      \* bound: writes that commit
    MaxUpsets      \* bound: failed queries and restarts

Rows == Offers \cup Categories
Slugs == 1..LastSlug
Freed == 0                   \* "<slug>--deleted--<time>", shared by no two rows
List == 0                           \* keys: the lists of offers and of categories,
Feedback(slug) == LastSlug + slug   \* the page of the category of a slug, and a slug for its offer
Unloaded == MaxEdits + 1     \* the value of an entry that is a promise

VARIABLES
    row,            \* offers and categories: exists, deleted, published, slug
    page,           \* feedbackPage of a category: "none", "draft" or "published"
    edits, acked,   \* ghosts: writes committed; the last one whose call has returned
    cache,          \* publicCache: an entry or none for each key,
    older,          \* and the order of their insertion: pairs of an older key and a newer one
    generation,     \* publicCacheGeneration
    reader, editor,
    misled,         \* ghost: some answer missed an edit acknowledged before it was asked for
    upsets

rowVars == <<row, page, edits>>
cacheVars == <<cache, older, generation>>
vars == <<rowVars, acked, cacheVars, reader, editor, misled, upsets>>

Resting == [does |-> "idle", key |-> List, gen |-> 0, since |-> 0, seen |-> 0, leader |-> Nobody]
Editing(o, slug, what) == [does |-> what, row |-> o, slug |-> slug, edit |-> 0]
Free == Editing(Nobody, Freed, "idle")
NoEntry == [gen |-> 0, value |-> Unloaded, fresh |-> FALSE, by |-> Nobody]
Absent == [exists |-> FALSE, deleted |-> FALSE, published |-> FALSE, slug |-> Freed]

\* One category, with slug 1, and nothing in it yet.
Init ==
    /\ \E c \in Categories : row = [o \in Rows |->
        IF o = c THEN [exists |-> TRUE, deleted |-> FALSE, published |-> TRUE, slug |-> 1] ELSE Absent]
    /\ page = [c \in Categories |-> "none"]
    /\ edits = 0 /\ acked = 0
    /\ cache = [k \in Keys |-> NoEntry] /\ older = {} /\ generation = 0
    /\ reader = [r \in Readers |-> Resting]
    /\ editor = [d \in Editors |-> Free]
    /\ misled = FALSE
    /\ upsets = 0

Written(d) == editor' = [editor EXCEPT ![d] = [Free EXCEPT !.does = "written", !.edit = edits + 1]]
EndEdit(d) == editor' = [editor EXCEPT ![d] = Free]

-------------------------------------------------------------------------------
\* The cache

Has(k) == cache[k] # NoEntry
Present == {k \in Keys : Has(k)}

\* Of the keys that are kept, k among them or not, k gets the entry; a map keeps the
\* place of a key that is there already.
Insert(kept, k, entry) ==
    /\ cache' = [q \in Keys |-> IF q = k THEN entry ELSE IF q \in kept THEN cache[q] ELSE NoEntry]
    /\ older' = (older \cap (kept \X kept)) \cup IF k \in kept THEN {} ELSE kept \X {k}

Drop(k) ==
    /\ cache' = [cache EXCEPT ![k] = NoEntry]
    /\ older' = {p \in older : k \notin {p[1], p[2]}}

\* prunePublicCache: what has expired goes, then the oldest until there is room.
Live == {k \in Present : cache[k].by # Nobody \/ cache[k].fresh}
Newer(k) == {q \in Live : <<k, q>> \in older}
Pruned == {k \in Live : Cardinality(Newer(k)) + 1 < CacheMax}

Usable(k) == Has(k) /\ cache[k].gen = generation
IsHit(k) == Usable(k) /\ cache[k].value # Unloaded /\ cache[k].fresh
IsShared(k) == Usable(k) /\ cache[k].by # Nobody
Promise(r) == [gen |-> generation, value |-> Unloaded, fresh |-> TRUE, by |-> r]
Loaded(value) == [gen |-> generation, value |-> value, fresh |-> TRUE, by |-> Nobody]

IsLive(o) == row[o].exists /\ ~row[o].deleted

\* An offer and a page must be published, the page's category only undeleted.
OfferShown(o, k) == IsLive(o) /\ row[o].published /\ row[o].slug = k
PageShown(c, k) == IsLive(c) /\ page[c] = "published" /\ Feedback(row[c].slug) = k

\* A list is always there, however few it holds.
IsShown(k) == k = List \/ (\E o \in Offers : OfferShown(o, k)) \/ \E c \in Categories : PageShown(c, k)

\* cachedPublic: a value of this generation, the load of another request, or its own.
Read(r, k) ==
    LET asks == [Resting EXCEPT !.key = k, !.gen = generation, !.since = acked]
    IN  /\ reader[r].does = "idle"
        /\ \/ /\ IsHit(k)
              /\ misled' = (misled \/ cache[k].value < acked)
              /\ UNCHANGED <<cache, older, reader>>
           \/ /\ ~IsHit(k) /\ IsShared(k)
              /\ reader' = [reader EXCEPT ![r] = [asks EXCEPT !.does = "join", !.leader = cache[k].by]]
              /\ UNCHANGED <<cache, older, misled>>
           \/ /\ ~IsHit(k) /\ ~IsShared(k)
              /\ reader' = [reader EXCEPT ![r] = [asks EXCEPT !.does = "load"]]
              /\ Insert(Present, k, Promise(r))
              /\ UNCHANGED misled
        /\ UNCHANGED <<rowVars, acked, generation, editor, upsets>>

\* The query is answered, with an offer or with none.
Fetch(r) ==
    /\ reader[r].does = "load"
    /\ reader' = [reader EXCEPT ![r].does = IF IsShown(reader[r].key) THEN "loaded" ELSE "missing",
                                ![r].seen = edits]
    /\ UNCHANGED <<rowVars, acked, cacheVars, editor, upsets, misled>>

\* r and those that share its promise are done, with what r has seen.
Sharing(r) == {q \in Readers : q = r \/ (reader[q].does = "join" /\ reader[q].leader = r)}
Leave(r) == reader' = [q \in Readers |-> IF q \in Sharing(r) THEN Resting ELSE reader[q]]
Answer(r) ==
    /\ Leave(r)
    /\ misled' = (misled \/ \E q \in Sharing(r) : reader[r].seen < reader[q].since)

\* A mutant of MayStore: whatever has been edited meanwhile.
MayStoreAlways(r) == TRUE

MayStore(r) == reader[r].gen = generation

\* The load is stored unless the catalogue was edited meanwhile.
Settle(r) ==
    /\ reader[r].does = "loaded"
    /\ Answer(r)
    /\ IF MayStore(r) THEN Insert(Pruned, reader[r].key, Loaded(reader[r].seen)) ELSE UNCHANGED <<cache, older>>
    /\ UNCHANGED <<rowVars, acked, generation, editor, upsets>>

\* The entry goes if it is still this promise.
DropPromise(r) == IF cache[reader[r].key].by = r THEN Drop(reader[r].key) ELSE UNCHANGED <<cache, older>>

\* Not found.
SettleMissing(r) ==
    /\ reader[r].does = "missing"
    /\ Answer(r)
    /\ DropPromise(r)
    /\ UNCHANGED <<rowVars, acked, generation, editor, upsets>>

\* The query fails, for r and for those that share it.
FetchFails(r) ==
    /\ reader[r].does = "load" /\ upsets < MaxUpsets
    /\ upsets' = upsets + 1
    /\ Leave(r)
    /\ DropPromise(r)
    /\ UNCHANGED <<rowVars, acked, generation, editor, misled>>

\* 30 seconds pass for a value; a promise is shared however old it is.
Expire(k) ==
    /\ cache[k].fresh /\ cache[k].by = Nobody
    /\ cache' = [cache EXCEPT ![k].fresh = FALSE]
    /\ UNCHANGED <<rowVars, acked, older, generation, reader, editor, upsets, misled>>

-------------------------------------------------------------------------------
\* Edits

\* A slug is taken by any row of its kind, deleted ones included.
Kind(o) == IF o \in Offers THEN Offers ELSE Categories
IsTaken(slug, o) == \E p \in Kind(o) \ {o} : row[p].exists /\ row[p].slug = slug

Begins(d, next) ==
    /\ editor[d].does = "idle"
    /\ editor' = [editor EXCEPT ![d] = next]
    /\ UNCHANGED <<rowVars, acked, cacheVars, reader, upsets, misled>>

\* An offer is created and updated in a category that is there.
HasPlace(o) == o \in Offers => \E c \in Categories : IsLive(c)

BeginCreate(d, o, slug) ==
    /\ ~row[o].exists /\ HasPlace(o)
    /\ \A e \in Editors : editor[e].row # o
    /\ Begins(d, Editing(o, slug, "slug"))

\* The row is read, then its category.  Without a slug in the input it keeps its own.
BeginUpdate(d, o, slug) ==
    /\ IsLive(o) /\ HasPlace(o)
    /\ Begins(d, Editing(o, IF slug = Freed THEN row[o].slug ELSE slug, "slug"))

\* uniqueOfferSlug and uniqueCategorySlug: one query for each candidate.
TrySlug(d) ==
    /\ editor[d].does = "slug"
    /\ IF IsTaken(editor[d].slug, editor[d].row)
       THEN editor[d].slug < LastSlug /\ editor' = [editor EXCEPT ![d].slug = editor[d].slug + 1]
       ELSE editor' = [editor EXCEPT ![d].does = "write"]
    /\ UNCHANGED <<rowVars, acked, cacheVars, reader, upsets, misled>>

\* The row is written whole, a deleted one too; a slug that was taken meanwhile makes
\* the write fail.
Write(d) ==
    LET o == editor[d].row
    IN  /\ editor[d].does = "write"
        /\ \/ /\ IsTaken(editor[d].slug, o)
              /\ EndEdit(d)
              /\ UNCHANGED rowVars
           \/ /\ ~IsTaken(editor[d].slug, o) /\ edits < MaxEdits
              /\ edits' = edits + 1
              /\ \E shown \in BOOLEAN : row' = [row EXCEPT ![o] =
                    [exists |-> TRUE, deleted |-> row[o].deleted, published |-> shown, slug |-> editor[d].slug]]
              /\ Written(d)
              /\ UNCHANGED page
        /\ UNCHANGED <<acked, cacheVars, reader, upsets, misled>>

BeginDelete(d, o) == IsLive(o) /\ Begins(d, Editing(o, Freed, "erase"))

\* Deleting gives the slug up.
Erase(d) ==
    /\ editor[d].does = "erase" /\ edits < MaxEdits
    /\ edits' = edits + 1
    /\ row' = [row EXCEPT ![editor[d].row].deleted = TRUE, ![editor[d].row].slug = Freed]
    /\ Written(d)
    /\ UNCHANGED <<page, acked, cacheVars, reader, upsets, misled>>

\* upsertFeedbackPage, of a category that may be deleted before the page is written.
BeginPage(d, c) == IsLive(c) /\ Begins(d, Editing(c, Freed, "page"))
WritePage(d) ==
    /\ editor[d].does = "page" /\ edits < MaxEdits
    /\ edits' = edits + 1
    /\ \E status \in {"draft", "published"} : page' = [page EXCEPT ![editor[d].row] = status]
    /\ Written(d)
    /\ UNCHANGED <<row, acked, cacheVars, reader, upsets, misled>>

\* invalidatePublicCatalog
Emptied == cache' = [k \in Keys |-> NoEntry] /\ older' = {}
Invalidated == Emptied /\ generation' = generation + 1

\* The write has returned: the cache is emptied, and the admin has an answer.
Acknowledge(d) ==
    /\ editor[d].does = "written"
    /\ Invalidated
    /\ acked' = IF editor[d].edit > acked THEN editor[d].edit ELSE acked
    /\ EndEdit(d)
    /\ UNCHANGED <<rowVars, reader, upsets, misled>>

\* The answer of the database is lost: nothing is invalidated.
LoseReply(d) ==
    /\ editor[d].does = "written" /\ upsets < MaxUpsets
    /\ upsets' = upsets + 1
    /\ EndEdit(d)
    /\ UNCHANGED <<rowVars, acked, cacheVars, reader, misled>>

Restart ==
    /\ upsets < MaxUpsets
    /\ upsets' = upsets + 1
    /\ Emptied /\ generation' = 0
    /\ reader' = [r \in Readers |-> Resting]
    /\ editor' = [d \in Editors |-> Free]
    /\ UNCHANGED <<rowVars, acked, misled>>

Next ==
    \/ \E r \in Readers : Fetch(r) \/ Settle(r) \/ SettleMissing(r) \/ FetchFails(r) \/ \E k \in Keys : Read(r, k)
    \/ \E k \in Keys : Expire(k)
    \/ \E d \in Editors, o \in Rows :
        \/ \E slug \in Asked : BeginCreate(d, o, slug)
        \/ \E slug \in Asked \cup {Freed} : BeginUpdate(d, o, slug)
        \/ BeginDelete(d, o)
        \/ o \in Categories /\ BeginPage(d, o)
    \/ \E d \in Editors : TrySlug(d) \/ Write(d) \/ Erase(d) \/ WritePage(d) \/ Acknowledge(d) \/ LoseReply(d)
    \/ Restart

Spec == Init /\ [][Next]_vars

-------------------------------------------------------------------------------
TypeOK ==
    /\ row \in [Rows -> [exists : BOOLEAN, deleted : BOOLEAN, published : BOOLEAN, slug : Slugs \cup {Freed}]]
    /\ page \in [Categories -> {"none", "draft", "published"}]
    /\ edits \in 0..MaxEdits /\ acked \in 0..edits
    /\ generation \in 0..MaxEdits /\ upsets \in 0..MaxUpsets
    /\ cache \in [Keys -> [gen : 0..generation, value : 0..Unloaded, fresh : BOOLEAN, by : Readers \cup {Nobody}]]
    /\ \A k \in Keys : Has(k) => (cache[k].by = Nobody <=> cache[k].value # Unloaded)
    /\ older \subseteq Present \X Present
    /\ \A j, k \in Present : <<j, k>> \in older <=> j # k /\ <<k, j>> \notin older
    /\ \A j, k, q \in Present : <<j, k>> \in older /\ <<k, q>> \in older => <<j, q>> \in older

\* An anonymous request that starts after an admin's edit was acknowledged is answered
\* with that edit, whatever loads were under way (cachedPublic, invalidatePublicCatalog).
EditsAreSeen == ~misled
===============================================================================
