------------------------------ MODULE Addresses ------------------------------
(***************************************************************************)
(* The public addresses of the articles: one slug shared by every          *)
(* language of an article, and the redirects its renames leave behind      *)
(* (core/src/articles.ts, shared-slug.ts, article-translation.ts,          *)
(* purge.ts; read by public-articles.ts and the /news/[slug] page).        *)
(*                                                                         *)
(* A save has three parts.  It reads the slugs it starts from, outside any *)
(* transaction; it commits the translation and, for an English one, moves  *)
(* every sibling with it; and it then writes the 301 rows one by one.      *)
(* Two people, the list's quick edit and the translation job do this at    *)
(* once, and a process may die between the parts.                          *)
(*                                                                         *)
(* The transaction is one step: the row locks of its first statement order *)
(* it against every other one on the same row, and the unique index on     *)
(* (locale, slug) against those of other articles.                         *)
(*                                                                         *)
(* A slug is the sequence of the parts its text is put together from: a    *)
(* name somebody typed, and the suffixes of a collision or a copy.         *)
(***************************************************************************)
EXTENDS Naturals, Sequences, FiniteSets

CONSTANTS
    Article,      \* article ids
    Locale,       \* the languages of the site
    Default,      \* the default locale, English
    FallsBack,    \* the locales whose fallbackCode is the default
    Name,         \* what people type as a slug or a title
    Copy,         \* the suffix of a duplicate
    Request,      \* slots for saves, quick edits and jobs in flight
    MaxRequests,  \* bound: how many of them ever start
    MaxCrashes    \* bound: how many of them die

ASSUME AddressesAssumption ==
    /\ Default \in Locale
    /\ FallsBack \subseteq Locale \ {Default}
    /\ IsFiniteSet(Article) /\ IsFiniteSet(Locale)
    /\ MaxRequests \in Nat
    /\ MaxCrashes \in Nat

VARIABLES
    life,      \* life[a]: "new", "kept", "trash" or "purged"
    shown,     \* the articles that are active and published
    slug,      \* slug[a][l]: the slug of a's row in l
    redirect,  \* the active rows of the redirects table, by fromPath
    request,   \* request[r]: what the request in slot r holds
    started,   \* requests so far, at most MaxRequests
    crashes,   \* crashes so far, at most MaxCrashes
    had,       \* history: had[a] the paths a ever had
    crossed,   \* history: the articles a request read before another's commit
    slipped    \* history: the articles whose requests overlapped or died

rows == <<life, shown, slug, redirect>>
vars == <<rows, request, started, crashes, had, crossed, slipped>>

NoSlug == <<>>     \* there is no row in that locale
Part == Name \cup Locale \cup Article \cup {Copy}
Slug == Seq(Part)
Path == Locale \X Slug
Link == [from : Path, to : Path]

Idle == [op |-> "idle"]
Reading == [op : {"save", "quick", "job"}, article : Article,
            locale : Locale, previous : Slug, next : Slug]
Linking == [op : {"link"}, article : Article, locale : Locale,
            links : SUBSET Link]

-----------------------------------------------------------------------------
(* The rule for slugs.                                                     *)

Kept(a) == life[a] \in {"kept", "trash"}

Taken(table, a, l, s) == \E b \in Article \ {a} : table[b][l] = s

\* The English slug, or the first variant of it no other article holds there.
PickSlug(table, a, l, s) ==
    CASE ~Taken(table, a, l, s) -> s
      [] ~Taken(table, a, l, s \o <<l>>) -> s \o <<l>>
      [] ~Taken(table, a, l, s \o <<l, a>>) -> s \o <<l, a>>
      [] OTHER -> s \o <<a>>

Variants(a, l, s) == {s, s \o <<l>>, s \o <<l, a>>, s \o <<a>>}

\* What a save of locale l stores when somebody typed name n there.
NamedSlug(a, l, n) ==
    IF l = Default \/ slug[a][Default] = NoSlug
    THEN <<n>>
    ELSE PickSlug(slug, a, l, slug[a][Default])

\* After the English row of a was written: its siblings follow it.
Propagated(table, a, s) ==
    [table EXCEPT ![a] = [l \in Locale |->
        IF l = Default \/ table[a][l] \in {NoSlug, s}
        THEN table[a][l]
        ELSE PickSlug(table, a, l, s)]]

\* The unique index on (locale, slug).
Unique(table) ==
    \A a, b \in Article, l \in Locale :
        a # b /\ table[a][l] = table[b][l] => table[a][l] = NoSlug

-----------------------------------------------------------------------------
(* What a visitor gets.                                                    *)

Visible(a) == life[a] = "kept" /\ a \in shown

Page(p) == {a \in Article : Visible(a) /\ slug[a][p[1]] = p[2]}

\* The article another language's row of which has the slug, and where it
\* lives in this language: no path, or one.
Owners(p) ==
    {a \in Article : Visible(a) /\ \E l \in Locale \ {p[1]} : slug[a][l] = p[2]}
HomeOf(a, l) ==
    IF slug[a][l] # NoSlug THEN {<<l, slug[a][l]>>}
    ELSE IF l \in FallsBack /\ slug[a][Default] # NoSlug
         THEN {<<Default, slug[a][Default]>>}
         ELSE {}

OldHome(p) == IF p \in DOMAIN redirect THEN {redirect[p]} ELSE {}

\* Where the page of path p may send a visitor; nowhere when it shows the
\* article or is a 404.
Hops(p) ==
    IF Page(p) # {} THEN {}
    ELSE IF Owners(p) = {} THEN OldHome(p)
    ELSE UNION {IF HomeOf(a, p[1]) = {} THEN OldHome(p) ELSE HomeOf(a, p[1])
                : a \in Owners(p)}

\* Longer than any walk that does not go in circles.
Far == Cardinality(DOMAIN redirect)
         + Cardinality(Article) * Cardinality(Locale) + 1

\* Where a visitor of p may be after so many redirects.
Walk(p) ==
    LET at[n \in 0 .. Far] ==
            IF n = 0 THEN {p} ELSE UNION {Hops(q) : q \in at[n - 1]}
    IN  at
Ends(p) == Walk(p)[Far] = {}
Leads(p, q) ==
    /\ Ends(p)
    /\ \A n \in 0 .. Far : \A o \in Walk(p)[n] : Hops(o) = {} => o = q

-----------------------------------------------------------------------------
(* The requests.                                                           *)

Busy(a) == \E r \in Request : request[r] # Idle /\ request[r].article = a
Uncommitted(r) == request[r].op \in {"save", "quick", "job"}
Reads(a) == \E r \in Request : Uncommitted(r) /\ request[r].article = a

\* A request in slot r reads what it starts from.
Begin(r, a, record) ==
    /\ request[r] = Idle
    /\ started < MaxRequests
    /\ started' = started + 1
    /\ request' = [request EXCEPT ![r] = record]
    /\ crossed' = crossed \cup (IF Reads(a) THEN {a} ELSE {})
    /\ slipped' = slipped \cup (IF Busy(a) THEN {a} ELSE {})
    /\ UNCHANGED <<rows, crashes, had>>

\* prepareArticleTranslation, for saveArticleTranslation and saveArticle.
SaveReads(r, a, l, n) ==
    /\ Kept(a)
    /\ Begin(r, a, [op |-> "save", article |-> a, locale |-> l,
                    previous |-> slug[a][l], next |-> NamedSlug(a, l, n)])

\* quickUpdateArticle with a slug or a title: the English row only.
QuickReads(r, a, n) ==
    /\ Kept(a)
    /\ slug[a][Default] # NoSlug
    /\ Begin(r, a, [op |-> "quick", article |-> a, locale |-> Default,
                    previous |-> slug[a][Default], next |-> <<n>>])

\* translateArticleJob for a language without a row.
JobReads(r, a, l) ==
    /\ life[a] = "kept"
    /\ l # Default
    /\ slug[a][Default] # NoSlug
    /\ slug[a][l] = NoSlug
    /\ Begin(r, a, [op |-> "job", article |-> a, locale |-> l,
                    previous |-> NoSlug, next |-> slug[a][Default]])

\* Mutant: a quick edit leaves the siblings where they are.
WrittenAlone(q) ==
    CASE q.op = "save" /\ q.locale = Default ->
           Propagated([slug EXCEPT ![q.article][q.locale] = q.next],
                      q.article, q.next)
      [] q.op = "job" /\ slug[q.article][q.locale] # NoSlug -> slug
      [] OTHER -> [slug EXCEPT ![q.article][q.locale] = q.next]

\* The slugs after the transaction of request q.
Written(q) ==
    LET own == [slug EXCEPT ![q.article][q.locale] = q.next]
    IN  CASE q.op = "job" ->
               IF slug[q.article][q.locale] # NoSlug THEN slug
               ELSE [slug EXCEPT ![q.article][q.locale] =
                        PickSlug(slug, q.article, q.locale, q.next)]
          [] q.op = "save" /\ q.locale # Default -> own
          [] q.op = "quick" /\ q.next = q.previous -> own
          [] OTHER -> Propagated(own, q.article, q.next)

\* The 301 rows it still owes: its own, from the slug it read, and one for
\* each sibling that moved.
Owed(q) ==
    LET moved(l, from) ==
            [from |-> <<l, from>>, to |-> <<l, Written(q)[q.article][l]>>]
        own == IF q.op # "job" /\ q.previous \notin {NoSlug, q.next}
               THEN {moved(q.locale, q.previous)} ELSE {}
        siblings == {l \in Locale \ {q.locale} :
                        Written(q)[q.article][l] # slug[q.article][l]}
    IN  own \cup {moved(l, slug[q.article][l]) : l \in siblings}

AddressesOf(a, table) == {<<l, table[a][l]>> : l \in {k \in Locale : table[a][k] # NoSlug}}

\* A lone request that moves the siblings puts the article in order again.
Reorders(r) ==
    LET q == request[r] IN
    /\ q.locale = Default
    /\ q.op = "save" \/ q.next # q.previous
    /\ \A s \in Request \ {r} :
          Uncommitted(s) => request[s].article # q.article

Commit(r) ==
    LET q == request[r] IN
    /\ Uncommitted(r)
    /\ Kept(q.article)
    /\ Unique(Written(q))
    /\ slug' = Written(q)
    /\ request' = [request EXCEPT ![r] =
          IF Owed(q) = {} THEN Idle
          ELSE [op |-> "link", article |-> q.article,
                locale |-> q.locale, links |-> Owed(q)]]
    /\ had' = [had EXCEPT ![q.article] = @ \cup AddressesOf(q.article, slug')]
    /\ crossed' = IF Reorders(r) THEN crossed \ {q.article} ELSE crossed
    /\ UNCHANGED <<life, shown, redirect, started, crashes, slipped>>

\* The row is gone, or another article holds the slug: everything rolls back.
Refused(r) ==
    /\ Uncommitted(r)
    /\ ~Kept(request[r].article) \/ ~Unique(Written(request[r]))
    /\ request' = [request EXCEPT ![r] = Idle]
    /\ UNCHANGED <<rows, started, crashes, had, crossed, slipped>>

\* Mutant: a redirect that is there is never pointed elsewhere.
RedirectedOnce(link) ==
    IF link.from \in DOMAIN redirect THEN redirect
    ELSE [p \in DOMAIN redirect \cup {link.from} |->
             IF p = link.from THEN link.to ELSE redirect[p]]

\* createSlugRedirect: one row per fromPath, the last writer's.
Redirected(link) ==
    [p \in DOMAIN redirect \cup {link.from} |->
        IF p = link.from THEN link.to ELSE redirect[p]]

\* The request's own path first, its siblings' after it.
WriteLink(r, link) ==
    LET rest == request[r].links \ {link} IN
    /\ request[r].op = "link"
    /\ link \in request[r].links
    /\ \A other \in rest : other.from[1] # request[r].locale
    /\ redirect' = Redirected(link)
    /\ request' = [request EXCEPT ![r] =
                      IF rest = {} THEN Idle ELSE [@ EXCEPT !.links = rest]]
    /\ UNCHANGED <<life, shown, slug, started, crashes, had, crossed, slipped>>

Crash(r) ==
    /\ request[r] # Idle
    /\ crashes < MaxCrashes
    /\ crashes' = crashes + 1
    /\ request' = [request EXCEPT ![r] = Idle]
    /\ slipped' = slipped \cup
          (IF request[r].op = "link" THEN {request[r].article} ELSE {})
    /\ UNCHANGED <<rows, started, had, crossed>>

-----------------------------------------------------------------------------
(* The articles themselves.                                                *)

Create(a) ==
    /\ life[a] = "new"
    /\ life' = [life EXCEPT ![a] = "kept"]
    /\ UNCHANGED <<shown, slug, redirect, request, started, crashes, had,
                   crossed, slipped>>

\* Every row of the copy carries the copy's English slug.
CopiedSlug(a, l) ==
    IF slug[a][l] = NoSlug THEN NoSlug
    ELSE (IF slug[a][Default] = NoSlug THEN slug[a][l] ELSE slug[a][Default])
            \o <<Copy>>

\* duplicateArticle; the suffix holds the time, so it is never used twice.
Duplicate(a, b) ==
    /\ Kept(a)
    /\ life[b] = "new"
    /\ \A c \in Article, l \in Locale :
          slug[c][l] = NoSlug \/ slug[c][l] # CopiedSlug(a, l)
    /\ life' = [life EXCEPT ![b] = "kept"]
    /\ slug' = [slug EXCEPT ![b] = [l \in Locale |-> CopiedSlug(a, l)]]
    /\ had' = [had EXCEPT ![b] = AddressesOf(b, slug')]
    /\ UNCHANGED <<shown, redirect, request, started, crashes, crossed, slipped>>

\* Publication, the active switch, the category: publicArticleWhere.
Toggle(a) ==
    /\ Kept(a)
    /\ shown' = IF a \in shown THEN shown \ {a} ELSE shown \cup {a}
    /\ UNCHANGED <<life, slug, redirect, request, started, crashes, had,
                   crossed, slipped>>

\* setArticleDeleted, both ways.
Trash(a) ==
    /\ Kept(a)
    /\ life' = [life EXCEPT ![a] = IF @ = "kept" THEN "trash" ELSE "kept"]
    /\ UNCHANGED <<shown, slug, redirect, request, started, crashes, had,
                   crossed, slipped>>

\* purgeContent: the translations go with the row, the redirects stay.
Purge(a) ==
    /\ life[a] = "trash"
    /\ life' = [life EXCEPT ![a] = "purged"]
    /\ shown' = shown \ {a}
    /\ slug' = [slug EXCEPT ![a] = [l \in Locale |-> NoSlug]]
    /\ UNCHANGED <<redirect, request, started, crashes, had, crossed, slipped>>

-----------------------------------------------------------------------------
Init ==
    /\ life = [a \in Article |-> "new"]
    /\ shown = {}
    /\ slug = [a \in Article |-> [l \in Locale |-> NoSlug]]
    /\ redirect = [p \in {} |-> p]
    /\ request = [r \in Request |-> Idle]
    /\ started = 0
    /\ crashes = 0
    /\ had = [a \in Article |-> {}]
    /\ crossed = {}
    /\ slipped = {}

Serve(r) ==
    \/ \E a \in Article, l \in Locale, n \in Name : SaveReads(r, a, l, n)
    \/ \E a \in Article, n \in Name : QuickReads(r, a, n)
    \/ \E a \in Article, l \in Locale : JobReads(r, a, l)
    \/ Commit(r)
    \/ Refused(r)
    \/ \E link \in IF request[r].op = "link" THEN request[r].links ELSE {} :
          WriteLink(r, link)
    \/ Crash(r)

Keep(a) ==
    \/ Create(a)
    \/ \E b \in Article : Duplicate(a, b)
    \/ Toggle(a)
    \/ Trash(a)
    \/ Purge(a)

Next ==
    \/ \E r \in Request : Serve(r)
    \/ \E a \in Article : Keep(a)

Spec == Init /\ [][Next]_vars

-----------------------------------------------------------------------------
(* Properties.                                                             *)

\* The types; and no two articles share a slug in one language, an article
\* that is not there has no translation.
TypeOK ==
    /\ life \in [Article -> {"new", "kept", "trash", "purged"}]
    /\ shown \subseteq {a \in Article : Kept(a)}
    /\ slug \in [Article -> [Locale -> Slug]]
    /\ DOMAIN redirect \subseteq Path
    /\ \A p \in DOMAIN redirect : redirect[p] \in Path
    /\ request \in [Request -> {Idle} \cup Reading \cup Linking]
    /\ started \in 0 .. MaxRequests
    /\ crashes \in 0 .. MaxCrashes
    /\ had \in [Article -> SUBSET Path]
    /\ crossed \subseteq Article
    /\ slipped \subseteq Article
    /\ Unique(slug)
    /\ \A a \in Article : ~Kept(a) => AddressesOf(a, slug) = {}

\* One slug per item, shared by every language (ADR-181): each language of an
\* article has its English slug, or the variant a collision made of it.  Only
\* a request that reads the slugs before another one commits breaks this, and
\* the next English save by itself puts it right.
OneSlug ==
    \A a \in Article \ crossed :
        slug[a][Default] # NoSlug =>
            \A l \in Locale : slug[a][l] # NoSlug =>
                slug[a][l] \in Variants(a, l, slug[a][Default])

SlugsOf(a) == {p[2] : p \in had[a]}
Alone(a) == \A b \in Article \ {a} : SlugsOf(a) \cap SlugsOf(b) = {}

\* Every path a public article ever had still leads to it, in the same
\* language and at its present slug, however often it was renamed; unless its
\* requests overlapped or died, or another article took one of its slugs.
LinksLead ==
    \A a \in Article \ slipped :
        Visible(a) /\ ~Busy(a) /\ Alone(a) =>
            \A p \in had[a] : Leads(p, <<p[1], slug[a][p[1]]>>)

\* Not kept: a visitor of a path of an article that was deleted for good gets
\* to the end of the redirects.  purge.ts says "a redirect to a 404 is the
\* same outcome a reader gets from the page being gone".  See README.
PurgedPathsEnd ==
    \A a \in Article \ slipped :
        life[a] = "purged" /\ ~Busy(a) /\ Alone(a) =>
            \A p \in had[a] : Ends(p)
=============================================================================
