--------------------------- MODULE AddressesProofs ---------------------------
(***************************************************************************)
(* Theorems about Addresses, for any number of articles, languages, names  *)
(* and requests: the types, that the languages of an article share one     *)
(* slug, and that an old link leads to the article's present page.         *)
(***************************************************************************)
EXTENDS Addresses, SequenceTheorems, FiniteSetTheorems, WellFoundedInduction,
        TLAPS

-----------------------------------------------------------------------------
(* What the helpers return.                                                *)

\* A suffix keeps a slug a slug.
LEMMA Suffixed ==
    ASSUME NEW s \in Slug, NEW a \in Article, NEW l \in Locale
    PROVE  /\ s \o <<l>> \in Slug
           /\ s \o <<l, a>> \in Slug
           /\ s \o <<a>> \in Slug
           /\ s \o <<Copy>> \in Slug
<1>1. /\ <<l>> \in Seq(Part) /\ <<l, a>> \in Seq(Part)
      /\ <<a>> \in Seq(Part) /\ <<Copy>> \in Seq(Part)
  BY DEF Part
<1>. QED BY <1>1, ConcatProperties DEF Slug

\* A picked slug is a slug, and a variant of the one it was picked for.
LEMMA Picked ==
    ASSUME NEW table, NEW s \in Slug, NEW a \in Article, NEW l \in Locale
    PROVE  /\ PickSlug(table, a, l, s) \in Slug
           /\ PickSlug(table, a, l, s) \in Variants(a, l, s)
BY Suffixed DEF PickSlug, Variants

\* A typed name is a slug.
LEMMA Named ==
    ASSUME NEW n \in Name
    PROVE  <<n>> \in Slug
BY DEF Slug, Part

Tables == [Article -> [Locale -> Slug]]

\* No slug is a slug too: the empty one.
LEMMA NoSlugTyped == NoSlug \in Slug
BY DEF NoSlug, Slug

\* The English save types.
LEMMA PropagatedTyped ==
    ASSUME NEW table \in Tables, NEW a \in Article, NEW s \in Slug
    PROVE  Propagated(table, a, s) \in Tables
BY Picked DEF Propagated, Tables

\* What a transaction leaves is a table of slugs; it touches one article.
LEMMA WrittenTyped ==
    ASSUME slug \in Tables, NEW q \in Reading
    PROVE  /\ Written(q) \in Tables
           /\ \A a \in Article \ {q.article} : Written(q)[a] = slug[a]
<1>. DEFINE own == [slug EXCEPT ![q.article][q.locale] = q.next]
            job == [slug EXCEPT ![q.article][q.locale] =
                        PickSlug(slug, q.article, q.locale, q.next)]
<1>1. /\ q.article \in Article /\ q.locale \in Locale /\ q.next \in Slug
      /\ q.previous \in Slug
  BY DEF Reading
<1>2. PickSlug(slug, q.article, q.locale, q.next) \in Slug
  BY <1>1, Picked
<1>3. own \in Tables /\ \A a \in Article \ {q.article} : own[a] = slug[a]
  BY <1>1 DEF Tables
<1>4. job \in Tables /\ \A a \in Article \ {q.article} : job[a] = slug[a]
  BY <1>1, <1>2 DEF Tables
<1>5. /\ Propagated(own, q.article, q.next) \in Tables
      /\ \A a \in Article \ {q.article} :
            Propagated(own, q.article, q.next)[a] = slug[a]
  <2>1. Propagated(own, q.article, q.next) \in Tables
    BY <1>1, <1>3, PropagatedTyped
  <2>2. \A a \in Article \ {q.article} :
            Propagated(own, q.article, q.next)[a] = own[a]
    BY <1>1, <1>3 DEF Propagated, Tables
  <2>. QED BY <2>1, <2>2, <1>3
<1>6. Written(q) \in {slug, own, job, Propagated(own, q.article, q.next)}
  BY DEF Written
<1>. QED BY <1>3, <1>4, <1>5, <1>6

\* What is left to write are redirects from path to path.
LEMMA OwedTyped ==
    ASSUME slug \in Tables, NEW q \in Reading
    PROVE  Owed(q) \subseteq Link
<1>1. /\ q.article \in Article /\ q.locale \in Locale /\ q.previous \in Slug
  BY DEF Reading
<1>2. \A l \in Locale : Written(q)[q.article][l] \in Slug /\ slug[q.article][l] \in Slug
  BY <1>1, WrittenTyped DEF Tables
<1>. QED BY <1>1, <1>2 DEF Owed, Link, Path

\* The addresses of a table of slugs are paths.
LEMMA AddressesTyped ==
    ASSUME NEW table \in Tables, NEW a \in Article
    PROVE  AddressesOf(a, table) \subseteq Path
BY DEF AddressesOf, Tables, Path

\* A copy's slugs are slugs.
LEMMA CopiedTyped ==
    ASSUME slug \in Tables, NEW a \in Article, NEW l \in Locale
    PROVE  CopiedSlug(a, l) \in Slug
<1>1. slug[a][l] \in Slug /\ slug[a][Default] \in Slug
  BY AddressesAssumption DEF Tables
<1>. QED BY <1>1, Suffixed, NoSlugTyped DEF CopiedSlug

-----------------------------------------------------------------------------
(* The types.                                                              *)

LEMMA TypeInit == Init => TypeOK
<1>. SUFFICES ASSUME Init PROVE TypeOK
  OBVIOUS
<1>1. slug \in Tables
  BY NoSlugTyped DEF Init, Tables
<1>2. /\ Unique(slug)
      /\ \A a \in Article : AddressesOf(a, slug) = {}
  BY DEF Init, Unique, AddressesOf
<1>. QED BY <1>1, <1>2, AddressesAssumption DEF Init, TypeOK, Tables

\* A request that begins with a typed record.
LEMMA BeginTyped ==
    ASSUME TypeOK, NEW r \in Request, NEW a \in Article,
           NEW record \in Reading, Begin(r, a, record)
    PROVE  TypeOK'
<1>1. /\ request' \in [Request -> {Idle} \cup Reading \cup Linking]
      /\ started' \in 0 .. MaxRequests
      /\ crossed' \subseteq Article /\ slipped' \subseteq Article
  BY AddressesAssumption DEF TypeOK, Begin
<1>2. UNCHANGED <<life, shown, slug, redirect, crashes, had>>
  BY DEF Begin, rows
<1>. QED BY <1>1, <1>2 DEF TypeOK, Unique, AddressesOf, Kept

LEMMA SaveReadsTyped ==
    ASSUME TypeOK, NEW r \in Request, NEW a \in Article, NEW l \in Locale,
           NEW n \in Name, SaveReads(r, a, l, n)
    PROVE  TypeOK'
<1>1. slug[a][l] \in Slug /\ slug[a][Default] \in Slug
  BY AddressesAssumption DEF TypeOK
<1>2. NamedSlug(a, l, n) \in Slug
  BY <1>1, Picked, Named DEF NamedSlug
<1>3. [op |-> "save", article |-> a, locale |-> l,
       previous |-> slug[a][l], next |-> NamedSlug(a, l, n)] \in Reading
  BY <1>1, <1>2 DEF Reading
<1>. QED BY <1>3, BeginTyped DEF SaveReads

LEMMA QuickReadsTyped ==
    ASSUME TypeOK, NEW r \in Request, NEW a \in Article, NEW n \in Name,
           QuickReads(r, a, n)
    PROVE  TypeOK'
<1>1. slug[a][Default] \in Slug /\ Default \in Locale
  BY AddressesAssumption DEF TypeOK
<1>2. [op |-> "quick", article |-> a, locale |-> Default,
       previous |-> slug[a][Default], next |-> <<n>>] \in Reading
  BY <1>1, Named DEF Reading
<1>. QED BY <1>2, BeginTyped DEF QuickReads

LEMMA JobReadsTyped ==
    ASSUME TypeOK, NEW r \in Request, NEW a \in Article, NEW l \in Locale,
           JobReads(r, a, l)
    PROVE  TypeOK'
<1>1. slug[a][Default] \in Slug
  BY AddressesAssumption DEF TypeOK
<1>2. [op |-> "job", article |-> a, locale |-> l,
       previous |-> NoSlug, next |-> slug[a][Default]] \in Reading
  BY <1>1, NoSlugTyped DEF Reading
<1>. QED BY <1>2, BeginTyped DEF JobReads

\* A request that has not committed holds what it read.
LEMMA HoldsItsReading ==
    ASSUME TypeOK, NEW r \in Request, Uncommitted(r)
    PROVE  request[r] \in Reading
BY DEF TypeOK, Uncommitted, Idle, Linking

LEMMA CommitTyped ==
    ASSUME TypeOK, NEW r \in Request, Commit(r)
    PROVE  TypeOK'
<1>. DEFINE q == request[r]
<1>1. q \in Reading /\ q.article \in Article /\ q.locale \in Locale
  BY HoldsItsReading DEF Commit, Reading
<1>2. slug' \in Tables
  BY <1>1, WrittenTyped DEF Commit, TypeOK, Tables
<1>3. request' \in [Request -> {Idle} \cup Reading \cup Linking]
  <2>1. Owed(q) \subseteq Link
    BY <1>1, OwedTyped DEF TypeOK, Tables
  <2>2. [op |-> "link", article |-> q.article, locale |-> q.locale,
         links |-> Owed(q)] \in Linking
    BY <1>1, <2>1 DEF Linking
  <2>. QED BY <2>2 DEF Commit, TypeOK
<1>4. had' \in [Article -> SUBSET Path]
  BY <1>1, <1>2, AddressesTyped DEF Commit, TypeOK
<1>5. crossed' \subseteq Article
  BY DEF Commit, TypeOK
<1>6. Unique(slug')
  BY DEF Commit
<1>7. \A a \in Article : ~Kept(a)' => AddressesOf(a, slug') = {}
  <2>. SUFFICES ASSUME NEW a \in Article, ~Kept(a)'
                PROVE  AddressesOf(a, slug') = {}
    OBVIOUS
  <2>1. ~Kept(a) /\ a # q.article
    BY DEF Commit, Kept
  <2>2. slug'[a] = slug[a]
    BY <1>1, <2>1, WrittenTyped DEF Commit, TypeOK, Tables
  <2>. QED BY <2>1, <2>2 DEF TypeOK, AddressesOf
<1>8. UNCHANGED <<life, shown, redirect, started, crashes, slipped>>
  BY DEF Commit
<1>. QED BY <1>2, <1>3, <1>4, <1>5, <1>6, <1>7, <1>8 DEF TypeOK, Tables, Kept

LEMMA WriteLinkTyped ==
    ASSUME TypeOK, NEW r \in Request, NEW link \in request[r].links,
           WriteLink(r, link)
    PROVE  TypeOK'
<1>1. request[r] \in Linking /\ link \in Link
  BY DEF WriteLink, TypeOK, Idle, Reading, Linking
<1>2. request' \in [Request -> {Idle} \cup Reading \cup Linking]
  <2>. DEFINE rest == request[r].links \ {link}
  <2>1. [request[r] EXCEPT !.links = rest] \in Linking
    BY <1>1 DEF Linking
  <2>2. request' = [request EXCEPT ![r] =
            IF rest = {} THEN Idle ELSE [request[r] EXCEPT !.links = rest]]
    BY DEF WriteLink, TypeOK
  <2>. QED BY <2>1, <2>2 DEF TypeOK
<1>3. /\ DOMAIN redirect' \subseteq Path
      /\ \A p \in DOMAIN redirect' : redirect'[p] \in Path
  BY <1>1 DEF WriteLink, Redirected, TypeOK, Link
<1>4. UNCHANGED <<life, shown, slug, started, crashes, had, crossed, slipped>>
  BY DEF WriteLink
<1>. QED BY <1>2, <1>3, <1>4 DEF TypeOK, Unique, AddressesOf, Kept

LEMMA EndTyped ==
    ASSUME TypeOK, NEW r \in Request, Refused(r) \/ Crash(r)
    PROVE  TypeOK'
<1>1. request' \in [Request -> {Idle} \cup Reading \cup Linking]
  BY DEF TypeOK, Refused, Crash
<1>2. crashes' \in 0 .. MaxCrashes
  BY AddressesAssumption DEF TypeOK, Refused, Crash
<1>3. slipped' \subseteq Article
  <2>1. request[r].op = "link" => request[r].article \in Article
    BY DEF TypeOK, Idle, Reading, Linking
  <2>. QED BY <2>1 DEF TypeOK, Refused, Crash
<1>4. UNCHANGED <<life, shown, slug, redirect, started, had, crossed>>
  BY DEF Refused, Crash, rows
<1>. QED BY <1>1, <1>2, <1>3, <1>4 DEF TypeOK, Unique, AddressesOf, Kept

LEMMA KeepTyped ==
    ASSUME TypeOK, NEW a \in Article, Keep(a)
    PROVE  TypeOK'
<1>1. CASE Create(a)
  BY <1>1 DEF Create, TypeOK, Kept, Unique, AddressesOf
<1>2. CASE Toggle(a)
  BY <1>2 DEF Toggle, TypeOK, Kept, Unique, AddressesOf
<1>3. CASE Trash(a)
  BY <1>3 DEF Trash, TypeOK, Kept, Unique, AddressesOf
<1>4. CASE Purge(a)
  <2>1. slug' \in [Article -> [Locale -> Slug]]
    BY <1>4, NoSlugTyped DEF Purge, TypeOK
  <2>2. Unique(slug')
    BY <1>4 DEF Purge, TypeOK, Unique
  <2>3. \A b \in Article : ~Kept(b)' => AddressesOf(b, slug') = {}
    BY <1>4 DEF Purge, TypeOK, Kept, AddressesOf
  <2>4. /\ life' \in [Article -> {"new", "kept", "trash", "purged"}]
        /\ shown' \subseteq {b \in Article : Kept(b)'}
    BY <1>4 DEF Purge, TypeOK, Kept
  <2>5. UNCHANGED <<redirect, request, started, crashes, had, crossed, slipped>>
    BY <1>4 DEF Purge
  <2>. QED BY <2>1, <2>2, <2>3, <2>4, <2>5 DEF TypeOK
<1>5. CASE \E b \in Article : Duplicate(a, b)
  <2>. PICK b \in Article : Duplicate(a, b)
    BY <1>5
  <2>1. slug' \in Tables
    BY CopiedTyped DEF Duplicate, TypeOK, Tables
  <2>2. Unique(slug')
    <3>1. \A c \in Article, l \in Locale :
             slug'[c][l] = IF c = b THEN CopiedSlug(a, l) ELSE slug[c][l]
      BY DEF Duplicate, TypeOK
    <3>2. \A c \in Article, l \in Locale :
             slug[c][l] = NoSlug \/ slug[c][l] # CopiedSlug(a, l)
      BY DEF Duplicate
    <3>3. Unique(slug)
      BY DEF TypeOK
    <3>4. ASSUME NEW c \in Article, NEW d \in Article, NEW l \in Locale,
                 c # d, slug'[c][l] = slug'[d][l]
          PROVE  slug'[c][l] = NoSlug
      <4>1. CASE c # b /\ d # b
        BY <3>1, <3>3, <3>4, <4>1 DEF Unique
      <4>2. CASE c = b
        BY <3>1, <3>2, <3>4, <4>2
      <4>3. CASE d = b
        BY <3>1, <3>2, <3>4, <4>3
      <4>. QED BY <4>1, <4>2, <4>3
    <3>. QED BY <3>4 DEF Unique
  <2>3. \A c \in Article : ~Kept(c)' => AddressesOf(c, slug') = {}
    <3>1. \A c \in Article : ~Kept(c)' => ~Kept(c) /\ slug'[c] = slug[c]
      BY DEF Duplicate, TypeOK, Kept
    <3>. QED BY <3>1 DEF TypeOK, AddressesOf
  <2>4. /\ life' \in [Article -> {"new", "kept", "trash", "purged"}]
        /\ shown' \subseteq {c \in Article : Kept(c)'}
    BY DEF Duplicate, TypeOK, Kept
  <2>5. had' \in [Article -> SUBSET Path]
    BY <2>1, AddressesTyped DEF Duplicate, TypeOK
  <2>6. UNCHANGED <<redirect, request, started, crashes, crossed, slipped>>
    BY DEF Duplicate
  <2>. QED BY <2>1, <2>2, <2>3, <2>4, <2>5, <2>6 DEF TypeOK, Tables
<1>. QED BY <1>1, <1>2, <1>3, <1>4, <1>5 DEF Keep

LEMMA TypeStep == TypeOK /\ [Next]_vars => TypeOK'
<1>. SUFFICES ASSUME TypeOK, [Next]_vars PROVE TypeOK'
  OBVIOUS
<1>1. ASSUME NEW r \in Request, Serve(r) PROVE TypeOK'
  <2>1. CASE \E a \in Article, l \in Locale, n \in Name : SaveReads(r, a, l, n)
    BY <2>1, SaveReadsTyped
  <2>2. CASE \E a \in Article, n \in Name : QuickReads(r, a, n)
    BY <2>2, QuickReadsTyped
  <2>3. CASE \E a \in Article, l \in Locale : JobReads(r, a, l)
    BY <2>3, JobReadsTyped
  <2>4. CASE Commit(r)
    BY <2>4, CommitTyped
  <2>5. CASE Refused(r) \/ Crash(r)
    BY <2>5, EndTyped
  <2>6. CASE \E link \in IF request[r].op = "link" THEN request[r].links ELSE {} :
                WriteLink(r, link)
    BY <2>6, WriteLinkTyped
  <2>. QED BY <1>1, <2>1, <2>2, <2>3, <2>4, <2>5, <2>6 DEF Serve
<1>2. ASSUME NEW a \in Article, Keep(a) PROVE TypeOK'
  BY <1>2, KeepTyped
<1>3. CASE UNCHANGED vars
  BY <1>3 DEF TypeOK, vars, rows, Unique, AddressesOf, Kept
<1>. QED BY <1>1, <1>2, <1>3 DEF Next

\* In every state the variables have their types, no two articles share a slug
\* in one language, and an article that is not there has no translation.
THEOREM Typing == Spec => []TypeOK
BY TypeInit, TypeStep, PTL DEF Spec

-----------------------------------------------------------------------------
(* One slug.  OneSlug is not inductive: a request commits what it read some *)
(* time ago.  SlugInv adds that an article out of `crossed' has at most one *)
(* request that still has to commit, and that what it read is current.      *)

Lone ==
    \A r, s \in Request :
        r # s /\ Uncommitted(r) /\ Uncommitted(s)
              /\ request[r].article = request[s].article
            => request[r].article \in crossed

Formed ==
    \A r \in Request : Uncommitted(r) =>
        /\ life[request[r].article] # "new"
        /\ request[r].op = "quick" => request[r].locale = Default
        /\ request[r].op = "job" => request[r].locale # Default

UpToDate(q) ==
    /\ q.op = "save" /\ q.locale # Default /\ slug[q.article][Default] # NoSlug
          => q.next \in Variants(q.article, q.locale, slug[q.article][Default])
    /\ q.op = "quick" => q.previous = slug[q.article][Default]
    /\ q.op = "job" => q.next = slug[q.article][Default]

Current ==
    \A r \in Request :
        Uncommitted(r) /\ request[r].article \notin crossed
                       /\ Kept(request[r].article)
            => UpToDate(request[r])

SlugInv == TypeOK /\ Lone /\ Formed /\ Current /\ OneSlug

LEMMA SlugInit == Init => SlugInv
BY TypeInit DEF Init, SlugInv, Lone, Formed, Current, OneSlug, Uncommitted, Idle

\* A step that changes no slug, starts no request and crosses nothing.
LEMMA Calm ==
    ASSUME SlugInv, UNCHANGED <<slug, crossed>>,
           \A r \in Request : Uncommitted(r)' =>
               Uncommitted(r) /\ request'[r] = request[r],
           \A a \in Article : life[a] # "new" =>
               life'[a] # "new" /\ (Kept(a)' => Kept(a))
    PROVE  Lone' /\ Formed' /\ Current' /\ OneSlug'
<1>1. \A r \in Request : Uncommitted(r) => request[r].article \in Article
  BY HoldsItsReading DEF SlugInv, Reading
<1>2. Lone'
  BY DEF SlugInv, Lone
<1>3. Formed'
  BY <1>1 DEF SlugInv, Formed
<1>4. Current'
  BY <1>1 DEF SlugInv, Formed, Current, UpToDate
<1>5. OneSlug'
  BY DEF SlugInv, OneSlug
<1>. QED BY <1>2, <1>3, <1>4, <1>5

\* A request that begins with a current reading of a kept article.
LEMMA BeginOrdered ==
    ASSUME SlugInv, NEW r \in Request, NEW a \in Article,
           NEW record \in Reading, record.article = a, Begin(r, a, record),
           Kept(a), UpToDate(record),
           record.op = "quick" => record.locale = Default,
           record.op = "job" => record.locale # Default
    PROVE  Lone' /\ Formed' /\ Current' /\ OneSlug'
<1>1. /\ UNCHANGED <<slug, life>>
      /\ crossed \subseteq crossed'
      /\ Reads(a) => a \in crossed'
      /\ request' = [request EXCEPT ![r] = record]
      /\ request[r] = Idle
  BY DEF Begin, rows
<1>2. \A s \in Request \ {r} : request'[s] = request[s]
  BY <1>1 DEF SlugInv, TypeOK
<1>3. request'[r] = record /\ ~Uncommitted(r)
  BY <1>1 DEF SlugInv, TypeOK, Uncommitted, Idle
<1>4. Lone'
  <2>1. \A s \in Request \ {r} :
           Uncommitted(s) /\ request[s].article = a => a \in crossed'
    BY <1>1 DEF Reads
  <2>. QED BY <1>1, <1>2, <1>3, <2>1 DEF SlugInv, Lone, Uncommitted
<1>5. Formed'
  BY <1>1, <1>2, <1>3 DEF SlugInv, Formed, Uncommitted, Kept
<1>6. Current'
  <2>1. UpToDate(record)'
    BY <1>1 DEF UpToDate
  <2>2. ASSUME NEW s \in Request \ {r}, Uncommitted(s)',
               request'[s].article \notin crossed', Kept(request[s].article)'
        PROVE  UpToDate(request[s])'
    <3>1. /\ Uncommitted(s) /\ request[s].article \notin crossed
          /\ Kept(request[s].article)
      BY <1>1, <1>2, <2>2 DEF Uncommitted, Kept
    <3>2. UpToDate(request[s])
      BY <3>1 DEF SlugInv, Current
    <3>. QED BY <1>1, <1>2, <3>2 DEF UpToDate
  <2>3. ASSUME NEW s \in Request, Uncommitted(s)',
               request'[s].article \notin crossed', Kept(request[s].article)'
        PROVE  UpToDate(request[s])'
    <3>1. CASE s = r
      BY <1>3, <2>1, <3>1 DEF UpToDate
    <3>2. CASE s # r
      BY <2>2, <2>3, <3>2
    <3>. QED BY <3>1, <3>2
  <2>. QED BY <2>3 DEF Current
<1>7. OneSlug'
  BY <1>1 DEF SlugInv, OneSlug
<1>. QED BY <1>4, <1>5, <1>6, <1>7

LEMMA ReadsOrdered ==
    ASSUME SlugInv, NEW r \in Request, NEW a \in Article,
           \/ \E l \in Locale, n \in Name : SaveReads(r, a, l, n)
           \/ \E n \in Name : QuickReads(r, a, n)
           \/ \E l \in Locale : JobReads(r, a, l)
    PROVE  Lone' /\ Formed' /\ Current' /\ OneSlug'
<1>. \A l \in Locale : slug[a][l] \in Slug
  BY DEF SlugInv, TypeOK
<1>. Default \in Locale
  BY AddressesAssumption
<1>1. CASE \E l \in Locale, n \in Name : SaveReads(r, a, l, n)
  <2>. PICK l \in Locale, n \in Name : SaveReads(r, a, l, n)
    BY <1>1
  <2>. DEFINE q == [op |-> "save", article |-> a, locale |-> l,
                    previous |-> slug[a][l], next |-> NamedSlug(a, l, n)]
  <2>1. NamedSlug(a, l, n) \in Slug
    BY Picked, Named DEF NamedSlug
  <2>2. q \in Reading
    BY <2>1 DEF Reading
  <2>3. UpToDate(q)
    BY Picked DEF UpToDate, NamedSlug
  <2>. QED BY <2>2, <2>3, BeginOrdered DEF SaveReads
<1>2. CASE \E n \in Name : QuickReads(r, a, n)
  <2>. PICK n \in Name : QuickReads(r, a, n)
    BY <1>2
  <2>. DEFINE q == [op |-> "quick", article |-> a, locale |-> Default,
                    previous |-> slug[a][Default], next |-> <<n>>]
  <2>1. q \in Reading /\ UpToDate(q)
    BY Named DEF Reading, UpToDate
  <2>. QED BY <2>1, BeginOrdered DEF QuickReads
<1>3. CASE \E l \in Locale : JobReads(r, a, l)
  <2>. PICK l \in Locale : JobReads(r, a, l)
    BY <1>3
  <2>. DEFINE q == [op |-> "job", article |-> a, locale |-> l,
                    previous |-> NoSlug, next |-> slug[a][Default]]
  <2>1. q \in Reading /\ UpToDate(q)
    BY NoSlugTyped DEF Reading, UpToDate
  <2>. QED BY <2>1, BeginOrdered DEF JobReads, Kept
<1>. QED BY <1>1, <1>2, <1>3

\* What the transaction of one request makes of its article.
LEMMA CommitOrdered ==
    ASSUME SlugInv, NEW r \in Request, Commit(r)
    PROVE  Lone' /\ Formed' /\ Current' /\ OneSlug'
<1>. DEFINE q == request[r]
            a == request[r].article
            own == [slug EXCEPT ![q.article][q.locale] = q.next]
<1>1. /\ q \in Reading /\ a \in Article /\ q.locale \in Locale
      /\ q.next \in Slug /\ q.op \in {"save", "quick", "job"}
      /\ Default \in Locale
  BY HoldsItsReading, AddressesAssumption DEF Commit, Reading, SlugInv
<1>2. /\ slug' = Written(q) /\ slug' \in Tables /\ slug \in Tables
      /\ \A b \in Article \ {a} : slug'[b] = slug[b]
  BY <1>1, WrittenTyped DEF Commit, SlugInv, TypeOK, Tables
<1>3. /\ life' = life /\ Kept(a)
      /\ crossed' = IF Reorders(r) THEN crossed \ {a} ELSE crossed
  BY DEF Commit
<1>4. /\ ~Uncommitted(r)'
      /\ \A s \in Request \ {r} : request'[s] = request[s]
  BY <1>1 DEF Commit, SlugInv, TypeOK, Uncommitted, Idle
<1>5. \A s \in Request \ {r} :
         Uncommitted(s) /\ request[s].article = a => a \in crossed'
  BY <1>1, <1>3 DEF SlugInv, Lone, Reorders, Commit
<1>6. Lone'
  BY <1>3, <1>4, <1>5 DEF SlugInv, Lone, Uncommitted
<1>7. Formed'
  BY <1>3, <1>4 DEF SlugInv, Formed, Uncommitted
<1>8. Current'
  <2>. SUFFICES ASSUME NEW s \in Request, Uncommitted(s)',
                       request'[s].article \notin crossed',
                       Kept(request[s].article)'
                PROVE  UpToDate(request[s])'
    BY DEF Current
  <2>1. /\ s # r /\ request'[s] = request[s] /\ Uncommitted(s)
    BY <1>4 DEF Uncommitted
  <2>2. request[s].article \in Article
    BY <2>1, HoldsItsReading DEF SlugInv, Reading
  <2>3. request[s].article # a
    BY <1>5, <2>1
  <2>4. request[s].article \notin crossed /\ Kept(request[s].article)
    BY <1>3, <2>1, <2>3 DEF Kept
  <2>5. UpToDate(request[s])
    BY <2>1, <2>4 DEF SlugInv, Current
  <2>. QED BY <1>2, <2>1, <2>2, <2>3, <2>5 DEF UpToDate
<1>9. ASSUME a \notin crossed', slug'[a][Default] # NoSlug,
             NEW l \in Locale, slug'[a][l] # NoSlug
      PROVE  slug'[a][l] \in Variants(a, l, slug'[a][Default])
  <2>. DEFINE e == slug[a][Default]
  <2>1. CASE slug' = Propagated(own, a, q.next) /\ q.locale = Default
    <3>1. own[a][Default] = q.next
      BY <1>1, <1>2, <2>1 DEF Tables
    <3>2. own \in Tables
      BY <1>1, <1>2 DEF Tables
    <3>3. slug'[a][l] = IF l = Default \/ own[a][l] \in {NoSlug, q.next}
                        THEN own[a][l] ELSE PickSlug(own, a, l, q.next)
      BY <1>1, <2>1, <3>2 DEF Propagated, Tables
    <3>4. slug'[a][Default] = q.next
      BY <1>1, <2>1, <3>1, <3>2 DEF Propagated, Tables
    <3>5. PickSlug(own, a, l, q.next) \in Variants(a, l, q.next)
      BY <1>1, Picked
    <3>6. q.next \in Variants(a, l, q.next)
      BY DEF Variants
    <3>7. slug'[a][l] \in {q.next, PickSlug(own, a, l, q.next)}
      BY <1>9, <3>1, <3>3
    <3>. QED BY <3>4, <3>5, <3>6, <3>7
  <2>2. CASE ~Reorders(r)
    <3>1. a \notin crossed
      BY <1>3, <1>9, <2>2
    <3>2. \A s \in Request \ {r} : Uncommitted(s) => request[s].article # a
      BY <1>3, <1>5, <1>9
    <3>3. q.locale # Default \/ (q.op # "save" /\ q.next = q.previous)
      BY <2>2, <3>2 DEF Reorders
    <3>4. UpToDate(q) /\ (q.op = "quick" => q.locale = Default)
                     /\ (q.op = "job" => q.locale # Default)
      BY <1>3, <3>1 DEF SlugInv, Current, Formed, Commit
    <3>5. e # NoSlug => \A k \in Locale : slug[a][k] # NoSlug =>
                              slug[a][k] \in Variants(a, k, e)
      BY <1>1, <3>1 DEF SlugInv, OneSlug
    <3>6. CASE q.op = "job"
      <4>1. slug' = slug \/ slug' = [slug EXCEPT ![a][q.locale] =
                                         PickSlug(slug, a, q.locale, q.next)]
        BY <1>2, <3>6 DEF Written
      <4>2. slug'[a][Default] = e /\ q.next = e
        BY <1>1, <1>2, <3>4, <3>6, <4>1 DEF Tables, UpToDate
      <4>3. slug'[a][l] = slug[a][l]
              \/ (l = q.locale /\ slug'[a][l] = PickSlug(slug, a, l, e))
        <5>1. CASE slug' = slug
          BY <5>1
        <5>2. CASE slug' = [slug EXCEPT ![a][q.locale] =
                               PickSlug(slug, a, q.locale, e)]
          BY <1>1, <1>2, <5>2 DEF Tables
        <5>. QED BY <4>1, <4>2, <5>1, <5>2
      <4>. QED BY <1>1, <1>9, <3>5, <4>2, <4>3, Picked
    <3>7. CASE q.op = "quick"
      <4>1. q.next = e /\ q.locale = Default /\ q.next = q.previous
        BY <3>3, <3>4, <3>7 DEF UpToDate
      <4>2. slug' = own
        BY <1>2, <3>7, <4>1 DEF Written
      <4>3. ASSUME NEW k \in Locale PROVE slug'[a][k] = slug[a][k]
        <5>1. slug'[a] = [slug[a] EXCEPT ![Default] = e]
          BY <1>1, <1>2, <4>1, <4>2 DEF Tables
        <5>2. slug[a] \in [Locale -> Slug]
          BY <1>1, <1>2 DEF Tables
        <5>. HIDE DEF a, own
        <5>. QED BY <5>1, <5>2
      <4>. QED BY <1>1, <1>9, <3>5, <4>3
    <3>8. CASE q.op = "save"
      <4>1. q.locale # Default
        BY <3>3, <3>8
      <4>2. slug' = own
        BY <1>2, <3>8, <4>1 DEF Written
      <4>3. slug'[a][Default] = e
        BY <1>1, <1>2, <4>1, <4>2 DEF Tables
      <4>4. slug'[a][l] = slug[a][l] \/ (l = q.locale /\ slug'[a][l] = q.next)
        BY <1>1, <1>2, <4>2 DEF Tables
      <4>5. q.next \in Variants(a, q.locale, e)
        BY <1>9, <3>4, <3>8, <4>1, <4>3 DEF UpToDate
      <4>. QED BY <1>9, <3>5, <4>3, <4>4, <4>5
    <3>. QED BY <1>1, <3>6, <3>7, <3>8
  <2>3. CASE Reorders(r)
    <3>1. q.locale = Default /\ (q.op = "save" \/ q.next # q.previous)
      BY <2>3 DEF Reorders
    <3>2. q.op # "job"
      BY <3>1 DEF SlugInv, Formed, Commit
    <3>3. slug' = Propagated(own, a, q.next)
      BY <1>1, <1>2, <3>1, <3>2 DEF Written
    <3>. QED BY <2>1, <3>1, <3>3
  <2>. QED BY <2>2, <2>3
<1>10. OneSlug'
  <2>. SUFFICES ASSUME NEW b \in Article \ crossed', slug'[b][Default] # NoSlug,
                       NEW l \in Locale, slug'[b][l] # NoSlug
                PROVE  slug'[b][l] \in Variants(b, l, slug'[b][Default])
    BY DEF OneSlug, Variants
  <2>1. CASE b = a
    BY <1>9, <2>1
  <2>2. CASE b # a
    BY <1>2, <1>3, <2>2 DEF SlugInv, OneSlug
  <2>. QED BY <2>1, <2>2
<1>. QED BY <1>6, <1>7, <1>8, <1>10

LEMMA KeepOrdered ==
    ASSUME SlugInv, NEW a \in Article, Keep(a)
    PROVE  Lone' /\ Formed' /\ Current' /\ OneSlug'
<1>1. \A r \in Request : Uncommitted(r) =>
         request[r].article \in Article /\ life[request[r].article] # "new"
  BY HoldsItsReading DEF SlugInv, Formed, Reading
<1>2. CASE Create(a) \/ Toggle(a) \/ Trash(a)
  <2>1. /\ UNCHANGED <<slug, crossed, request>>
        /\ \A b \in Article : life[b] # "new" =>
              life'[b] # "new" /\ (Kept(b)' => Kept(b))
    BY <1>2 DEF Create, Toggle, Trash, SlugInv, TypeOK, Kept
  <2>. QED BY <2>1, Calm DEF Uncommitted
<1>3. CASE Purge(a)
  <2>1. /\ UNCHANGED <<crossed, request>>
        /\ ~Kept(a)' /\ life'[a] # "new"
        /\ \A l \in Locale : slug'[a][l] = NoSlug
        /\ \A b \in Article \ {a} : slug'[b] = slug[b] /\ life'[b] = life[b]
    BY <1>3 DEF Purge, SlugInv, TypeOK, Kept
  <2>2. Lone' /\ Formed'
    BY <1>1, <2>1 DEF SlugInv, Lone, Formed, Uncommitted
  <2>3. Current'
    BY <1>1, <2>1 DEF SlugInv, Current, UpToDate, Uncommitted, Kept
  <2>4. OneSlug'
    BY <2>1, AddressesAssumption DEF SlugInv, OneSlug
  <2>. QED BY <2>2, <2>3, <2>4
<1>4. CASE \E b \in Article : Duplicate(a, b)
  <2>. PICK b \in Article : Duplicate(a, b)
    BY <1>4
  <2>1. /\ UNCHANGED <<crossed, request>>
        /\ life[b] = "new" /\ life'[b] = "kept"
        /\ \A l \in Locale : slug'[b][l] = CopiedSlug(a, l)
        /\ \A c \in Article \ {b} : slug'[c] = slug[c] /\ life'[c] = life[c]
    BY DEF Duplicate, SlugInv, TypeOK
  <2>2. Lone' /\ Formed'
    BY <1>1, <2>1 DEF SlugInv, Lone, Formed, Uncommitted
  <2>3. Current'
    BY <1>1, <2>1 DEF SlugInv, Current, UpToDate, Uncommitted, Kept
  <2>4. OneSlug'
    <3>1. ASSUME slug'[b][Default] # NoSlug, NEW l \in Locale, slug'[b][l] # NoSlug
          PROVE  slug'[b][l] = slug'[b][Default]
      BY <2>1, <3>1, AddressesAssumption DEF CopiedSlug
    <3>2. \A l \in Locale : slug'[b][Default] \in Variants(b, l, slug'[b][Default])
      BY DEF Variants
    <3>3. \A c \in (Article \ crossed') \ {b} : slug'[c][Default] # NoSlug =>
             \A l \in Locale : slug'[c][l] # NoSlug =>
                slug'[c][l] \in Variants(c, l, slug'[c][Default])
      BY <2>1 DEF SlugInv, OneSlug
    <3>. QED BY <3>1, <3>2, <3>3 DEF OneSlug
  <2>. QED BY <2>2, <2>3, <2>4
<1>. QED BY <1>2, <1>3, <1>4 DEF Keep

LEMMA SlugStep == SlugInv /\ [Next]_vars => SlugInv'
<1>. SUFFICES ASSUME SlugInv, [Next]_vars
              PROVE  Lone' /\ Formed' /\ Current' /\ OneSlug'
  BY TypeStep DEF SlugInv
<1>1. ASSUME NEW r \in Request, Serve(r)
      PROVE  Lone' /\ Formed' /\ Current' /\ OneSlug'
  <2>1. CASE \E a \in Article :
                \/ \E l \in Locale, n \in Name : SaveReads(r, a, l, n)
                \/ \E n \in Name : QuickReads(r, a, n)
                \/ \E l \in Locale : JobReads(r, a, l)
    BY <2>1, ReadsOrdered
  <2>2. CASE Commit(r)
    BY <2>2, CommitOrdered
  <2>3. CASE Refused(r) \/ Crash(r) \/ \E link \in request[r].links : WriteLink(r, link)
    <3>1. /\ UNCHANGED <<slug, crossed, life>>
          /\ \A s \in Request : Uncommitted(s)' =>
                Uncommitted(s) /\ request'[s] = request[s]
      <4>1. CASE Refused(r) \/ Crash(r)
        BY <4>1 DEF Refused, Crash, SlugInv, TypeOK, Uncommitted, Idle, rows
      <4>2. CASE \E link \in request[r].links : WriteLink(r, link)
        <5>1. PICK link : WriteLink(r, link)
          BY <4>2
        <5>2. /\ UNCHANGED <<slug, crossed, life>>
              /\ request[r].op = "link"
              /\ \A s \in Request \ {r} : request'[s] = request[s]
          BY <5>1 DEF WriteLink, SlugInv, TypeOK
        <5>3. request'[r].op \in {"idle", "link"}
          <6>1. request[r] \in Linking
            BY <5>2 DEF SlugInv, TypeOK, Idle, Reading
          <6>2. \A new : [request[r] EXCEPT !.links = new].op = "link"
            BY <6>1 DEF Linking
          <6>. QED BY <5>1, <6>2 DEF WriteLink, SlugInv, TypeOK, Idle
        <5>. QED BY <5>2, <5>3 DEF Uncommitted
      <4>. QED BY <2>3, <4>1, <4>2
    <3>. QED BY <3>1, Calm DEF Kept
  <2>. QED BY <1>1, <2>1, <2>2, <2>3 DEF Serve
<1>2. ASSUME NEW a \in Article, Keep(a)
      PROVE  Lone' /\ Formed' /\ Current' /\ OneSlug'
  BY <1>2, KeepOrdered
<1>3. CASE UNCHANGED vars
  <2>1. UNCHANGED <<slug, crossed, life, request>>
    BY <1>3 DEF vars, rows
  <2>. QED BY <2>1, Calm DEF Uncommitted, Kept
<1>. QED BY <1>1, <1>2, <1>3 DEF Next

\* In every state each language of an article has its English slug or the
\* variant a collision made of it, unless a request read the article's slugs
\* before another one committed and no English save has run alone since.
THEOREM Shared == Spec => []OneSlug
<1>1. Spec => []SlugInv
  BY SlugInit, SlugStep, PTL DEF Spec
<1>2. SlugInv => OneSlug
  BY DEF SlugInv
<1>. QED BY <1>1, <1>2, PTL

-----------------------------------------------------------------------------
(* Links.  What LinksLead needs of an article whose requests never         *)
(* overlapped, while it is there and nobody shares a slug with it           *)
(* (`Steady'): every path it had is its present one, or is about to be     *)
(* redirected to it (`Owing'), or is redirected to another of its paths    *)
(* (MovedOn); and no set of former paths is closed under these redirects   *)
(* (CircleFree).                                                           *)

Steady(a) == a \notin slipped /\ Kept(a) /\ Alone(a)
Here(a, l) == <<l, slug[a][l]>>
Old(a) == {p \in had[a] : p # Here(a, p[1])}
Owing(a, p) ==
    \E r \in Request :
        /\ request[r].op = "link" /\ request[r].article = a
        /\ \E k \in request[r].links : k.from = p

MovedOn(a) ==
    \A p \in Old(a) :
        Owing(a, p) \/ /\ p \in DOMAIN redirect
                       /\ redirect[p] \in had[a]
                       /\ redirect[p][1] = p[1]
CircleFree(a) ==
    \A S \in SUBSET Old(a) :
        S # {} => \E p \in S : Owing(a, p) \/ redirect[p] \notin S

\* An article out of `slipped' has one request at work at most.
Single ==
    \A a \in Article \ slipped : \A r, s \in Request :
        (/\ request[r] # Idle /\ request[r].article = a
         /\ request[s] # Idle /\ request[s].article = a)
            => r = s

\* What a request read is a path of its article, and the present one if it
\* is the only request.
ReadIsKnown(q) ==
    /\ q.next # NoSlug
    /\ q.previous # NoSlug => <<q.locale, q.previous>> \in had[q.article]
    /\ q.op # "job" /\ q.article \notin slipped /\ Kept(q.article) =>
          q.previous = slug[q.article][q.locale]
Begun ==
    \A r \in Request : request[r] # Idle =>
        /\ life[request[r].article] # "new"
        /\ Uncommitted(r) => ReadIsKnown(request[r])

\* The redirects a request owes lead from paths of its article to its
\* present ones.
LinksOwn ==
    \A r \in Request : request[r].op = "link" =>
        \A k \in request[r].links :
            /\ k.from \in had[request[r].article]
            /\ request[r].article \notin slipped /\ Kept(request[r].article) =>
                  k.to = Here(request[r].article, k.from[1])

\* The history of paths is complete, and of a kept article's translations
\* none goes away.
HadAll ==
    \A a \in Article :
        /\ AddressesOf(a, slug) \subseteq had[a]
        /\ life[a] = "new" => had[a] = {}
        /\ \A p \in had[a] : p[2] # NoSlug /\ (Kept(a) => slug[a][p[1]] # NoSlug)

PathInv == Single /\ Begun /\ LinksOwn /\ HadAll /\ IsFiniteSet(DOMAIN redirect)
LinkInv == PathInv /\ \A a \in Article : Steady(a) => MovedOn(a) /\ CircleFree(a)

LEMMA LinkInit == Init => LinkInv
<1>. SUFFICES ASSUME Init PROVE LinkInv
  OBVIOUS
<1>1. Single /\ Begun /\ LinksOwn
  <2>1. \A r \in Request : request[r] = Idle
    BY DEF Init
  <2>2. Idle.op # "link"
    BY DEF Idle
  <2>3. Single
    BY <2>1 DEF Single
  <2>5. Begun
    BY <2>1 DEF Begun
  <2>4. LinksOwn
    BY <2>1, <2>2 DEF LinksOwn
  <2>. QED BY <2>3, <2>4, <2>5
<1>2. HadAll
  BY DEF Init, HadAll, AddressesOf, Kept
<1>3. IsFiniteSet(DOMAIN redirect)
  BY FS_EmptySet DEF Init
<1>4. \A a \in Article : MovedOn(a) /\ CircleFree(a)
  BY DEF Init, MovedOn, CircleFree, Old
<1>. QED BY <1>1, <1>2, <1>3, <1>4 DEF LinkInv, PathInv

\* A suffix or a collision leaves no slug empty.
LEMMA PickedSomething ==
    ASSUME NEW table, NEW s \in Slug, s # NoSlug, NEW a \in Article, NEW l \in Locale
    PROVE  PickSlug(table, a, l, s) # NoSlug
<1>1. /\ <<l>> \in Seq(Part) /\ <<l, a>> \in Seq(Part) /\ <<a>> \in Seq(Part)
      /\ s \in Seq(Part)
  BY DEF Part, Slug
<1>2. /\ Len(s \o <<l>>) = Len(s) + 1
      /\ Len(s \o <<l, a>>) = Len(s) + 2
      /\ Len(s \o <<a>>) = Len(s) + 1
  BY <1>1, ConcatProperties
<1>3. Len(s) \in Nat /\ Len(NoSlug) = 0
  BY <1>1, LenProperties DEF NoSlug
<1>. QED BY <1>2, <1>3 DEF PickSlug

\* What a transaction makes of the row it writes and of the siblings.
LEMMA WrittenRow ==
    ASSUME slug \in Tables, NEW q \in Reading, q.next # NoSlug
    PROVE  /\ q.op # "job" => Written(q)[q.article][q.locale] = q.next
           /\ q.op = "job" /\ slug[q.article][q.locale] # NoSlug => Written(q) = slug
           /\ Written(q)[q.article][q.locale] # NoSlug
           /\ \A l \in Locale \ {q.locale} :
                 (Written(q)[q.article][l] = NoSlug) <=> (slug[q.article][l] = NoSlug)
<1>. DEFINE a == q.article
            own == [slug EXCEPT ![a][q.locale] = q.next]
            job == [slug EXCEPT ![a][q.locale] = PickSlug(slug, a, q.locale, q.next)]
<1>1. a \in Article /\ q.locale \in Locale /\ q.next \in Slug
  BY DEF Reading
<1>2. own \in Tables /\ own[a][q.locale] = q.next
      /\ \A l \in Locale \ {q.locale} : own[a][l] = slug[a][l]
  BY <1>1 DEF Tables
<1>3. job[a][q.locale] = PickSlug(slug, a, q.locale, q.next)
      /\ \A l \in Locale \ {q.locale} : job[a][l] = slug[a][l]
  BY <1>1 DEF Tables
<1>4. \A l \in Locale : Propagated(own, a, q.next)[a][l] =
          IF l = Default \/ own[a][l] \in {NoSlug, q.next}
          THEN own[a][l] ELSE PickSlug(own, a, l, q.next)
  BY <1>1, <1>2 DEF Propagated, Tables
<1>5. \A l \in Locale : /\ PickSlug(own, a, l, q.next) # NoSlug
                        /\ PickSlug(slug, a, l, q.next) # NoSlug
  BY <1>1, PickedSomething
<1>6. CASE q.op = "job"
  <2>1. CASE slug[a][q.locale] # NoSlug
    BY <1>6, <2>1 DEF Written
  <2>2. CASE slug[a][q.locale] = NoSlug
    <3>1. Written(q) = job
      BY <1>6, <2>2 DEF Written
    <3>. HIDE DEF job, a
    <3>2. Written(q)[a][q.locale] # NoSlug
      BY <1>1, <1>3, <1>5, <3>1
    <3>3. \A l \in Locale \ {q.locale} : Written(q)[a][l] = slug[a][l]
      BY <1>3, <3>1
    <3>. QED BY <1>6, <2>2, <3>2, <3>3 DEF a
  <2>. QED BY <2>1, <2>2
<1>7. CASE q.op # "job"
  <2>1. Written(q) \in {own, Propagated(own, a, q.next)}
    BY <1>7 DEF Written
  <2>. HIDE DEF own, a
  <2>2. CASE Written(q) = own
    BY <1>1, <1>2, <1>7, <2>2 DEF a
  <2>3. CASE Written(q) = Propagated(own, a, q.next)
    <3>1. Written(q)[a][q.locale] = q.next
      BY <1>1, <1>2, <1>4, <2>3
    <3>2. \A l \in Locale \ {q.locale} :
             (Written(q)[a][l] = NoSlug) <=> (slug[a][l] = NoSlug)
      BY <1>2, <1>4, <1>5, <2>3
    <3>. QED BY <1>7, <3>1, <3>2 DEF a
  <2>. QED BY <2>1, <2>2, <2>3
<1>. QED BY <1>6, <1>7

\* The redirects a transaction leaves to be written: from paths of the article
\* to where it is now, and from every path it moved away from.
LEMMA OwedLinks ==
    ASSUME slug \in Tables, NEW q \in Reading
    PROVE  /\ \A k \in Owed(q) : \E l \in Locale :
                 /\ k = [from |-> k.from, to |-> <<l, Written(q)[q.article][l]>>]
                 /\ \/ k.from = <<l, slug[q.article][l]>>
                       /\ l # q.locale /\ slug[q.article][l] # Written(q)[q.article][l]
                    \/ k.from = <<l, q.previous>> /\ l = q.locale /\ q.previous # NoSlug
           /\ \A l \in Locale \ {q.locale} :
                 Written(q)[q.article][l] # slug[q.article][l] =>
                     \E k \in Owed(q) : k.from = <<l, slug[q.article][l]>>
           /\ q.op # "job" /\ q.previous \notin {NoSlug, q.next} =>
                 \E k \in Owed(q) : k.from = <<q.locale, q.previous>>
<1>. DEFINE moved(l, from) == [from |-> <<l, from>>,
                               to |-> <<l, Written(q)[q.article][l]>>]
            siblings == {l \in Locale \ {q.locale} :
                           Written(q)[q.article][l] # slug[q.article][l]}
            own == IF q.op # "job" /\ q.previous \notin {NoSlug, q.next}
                   THEN {moved(q.locale, q.previous)} ELSE {}
<1>1. q.locale \in Locale
  BY DEF Reading
<1>2. Owed(q) = own \cup {moved(l, slug[q.article][l]) : l \in siblings}
  BY DEF Owed
<1>3. \A k \in Owed(q) : k \in own \/ \E l \in siblings : k = moved(l, slug[q.article][l])
  BY <1>2
<1>4. \A l, f : moved(l, f).from = <<l, f>> /\ moved(l, f) = [from |-> moved(l, f).from,
                               to |-> <<l, Written(q)[q.article][l]>>]
  OBVIOUS
<1>5. \A k \in own : k = moved(q.locale, q.previous) /\ q.previous # NoSlug
  OBVIOUS
<1>6. \A l \in siblings : moved(l, slug[q.article][l]) \in Owed(q)
  BY <1>2
<1>7. q.op # "job" /\ q.previous \notin {NoSlug, q.next} =>
          moved(q.locale, q.previous) \in Owed(q)
  BY <1>2
<1>. HIDE DEF moved, own
<1>. QED BY <1>1, <1>3, <1>4, <1>5, <1>6, <1>7

\* The paths of an article are paths; the present one is not a former one.
LEMMA PathFacts ==
    ASSUME TypeOK, HadAll, NEW a \in Article
    PROVE  /\ \A p \in had[a] : p[1] \in Locale /\ p = <<p[1], p[2]>> /\ p \in Path
           /\ \A l \in Locale : Here(a, l) \notin Old(a)
           /\ \A l \in Locale : slug[a][l] # NoSlug => Here(a, l) \in had[a]
           /\ \A l \in Locale : Here(a, l)[1] = l /\ Here(a, l)[2] = slug[a][l]
<1>1. \A p \in had[a] : p[1] \in Locale /\ p = <<p[1], p[2]>> /\ p \in Path
  BY DEF TypeOK, Path
<1>2. \A l \in Locale : slug[a][l] # NoSlug => Here(a, l) \in AddressesOf(a, slug)
  BY DEF AddressesOf, Here
<1>. QED BY <1>1, <1>2 DEF HadAll, Here, Old

\* A step that neither moves an article nor touches what its redirects are,
\* but may write one that is owed.
LEMMA OneArticle ==
    ASSUME TypeOK, LinkInv, NEW a \in Article, Steady(a),
           slug'[a] = slug[a], had'[a] = had[a],
           \A p \in Old(a) : Owing(a, p) =>
               \/ Owing(a, p)'
               \/ p \in DOMAIN redirect' /\ redirect'[p] = Here(a, p[1]),
           \A p \in Old(a) : ~Owing(a, p) /\ p \in DOMAIN redirect =>
               p \in DOMAIN redirect' /\ redirect'[p] = redirect[p]
    PROVE  MovedOn(a)' /\ CircleFree(a)'
<1>1. MovedOn(a) /\ CircleFree(a)
  BY DEF LinkInv
<1>2. Old(a)' = Old(a)
  BY DEF Old, Here
<1>3. \A p \in Old(a) : /\ p[1] \in Locale
                       /\ Here(a, p[1]) \in had[a] /\ Here(a, p[1]) \notin Old(a)
                       /\ Here(a, p[1])[1] = p[1]
  BY PathFacts DEF Old, LinkInv, PathInv, HadAll, Steady
<1>4. MovedOn(a)'
  <2>. SUFFICES ASSUME NEW p \in Old(a), ~Owing(a, p)'
                PROVE  /\ p \in DOMAIN redirect'
                       /\ redirect'[p] \in had'[a]
                       /\ redirect'[p][1] = p[1]
    BY <1>2 DEF MovedOn
  <2>1. CASE Owing(a, p)
    BY <1>3, <2>1
  <2>2. CASE ~Owing(a, p)
    BY <1>1, <2>2 DEF MovedOn
  <2>. QED BY <2>1, <2>2
<1>5. CircleFree(a)'
  <2>. SUFFICES ASSUME NEW S \in SUBSET Old(a), S # {}
                PROVE  \E p \in S : Owing(a, p)' \/ redirect'[p] \notin S
    BY <1>2 DEF CircleFree
  <2>1. PICK p \in S : Owing(a, p) \/ redirect[p] \notin S
    BY <1>1 DEF CircleFree
  <2>2. CASE Owing(a, p)
    <3>1. Owing(a, p)' \/ redirect'[p] = Here(a, p[1])
      BY <2>2
    <3>. QED BY <1>3, <3>1
  <2>3. CASE ~Owing(a, p)
    <3>1. p \in DOMAIN redirect
      BY <1>1, <2>3 DEF MovedOn
    <3>. QED BY <2>1, <2>3, <3>1
  <2>. QED BY <2>2, <2>3
<1>. QED BY <1>4, <1>5

\* What a step leaves to each article that was already there.
LEMMA AloneBefore ==
    ASSUME NEW a \in Article, \A b \in Article : had[b] \subseteq had'[b], Alone(a)'
    PROVE  Alone(a)
<1>1. \A b \in Article : SlugsOf(b) \subseteq SlugsOf(b)'
  BY DEF SlugsOf
<1>. QED BY <1>1 DEF Alone

\* The requests are the same, or what one of them holds is no redirect before
\* and none after: what is owed is the same.
LEMMA OwingStays ==
    ASSUME NEW a \in Article,
           \A s \in Request :
               \/ request'[s] = request[s]
               \/ /\ request[s].op = "link" => request[s].article # a
                  /\ request'[s].op = "link" => request'[s].article # a
    PROVE  \A p : Owing(a, p)' <=> Owing(a, p)
<1>. QED BY DEF Owing

\* A request that begins, with what it has just read.
LEMMA BeginLinked ==
    ASSUME TypeOK, LinkInv, NEW r \in Request, NEW a \in Article,
           NEW record \in Reading, record.article = a, Begin(r, a, record),
           Kept(a), ReadIsKnown(record)
    PROVE  LinkInv'
<1>1. /\ UNCHANGED <<slug, life, redirect, had>>
      /\ request' = [request EXCEPT ![r] = record]
      /\ request[r] = Idle /\ slipped \subseteq slipped'
      /\ Busy(a) => a \in slipped'
  BY DEF Begin, rows
<1>2. /\ \A s \in Request \ {r} : request'[s] = request[s]
      /\ request'[r] = record
  BY <1>1 DEF TypeOK
<1>3. request[r].op # "link" /\ record.op # "link" /\ record # Idle
  BY <1>1 DEF Idle, Reading
<1>4. Single'
  <2>. SUFFICES ASSUME NEW b \in Article \ slipped', NEW s \in Request, NEW t \in Request,
                       request'[s] # Idle, request'[s].article = b,
                       request'[t] # Idle, request'[t].article = b
                PROVE  s = t
    BY DEF Single
  <2>1. CASE b = a
    <3>1. \A u \in Request \ {r} : request[u] # Idle => request[u].article # a
      BY <1>1, <2>1 DEF Busy
    <3>. QED BY <1>2, <2>1, <3>1
  <2>2. CASE b # a
    <3>1. s # r /\ t # r
      BY <1>2, <2>2
    <3>. QED BY <1>1, <1>2, <3>1 DEF LinkInv, PathInv, Single
  <2>. QED BY <2>1, <2>2
<1>5. Begun'
  <2>1. ASSUME NEW s \in Request \ {r}, request'[s] # Idle
        PROVE  life'[request'[s].article] # "new"
                  /\ (Uncommitted(s)' => ReadIsKnown(request[s])')
    <3>1. request[s] # Idle /\ (Uncommitted(s)' => Uncommitted(s))
      BY <1>2, <2>1 DEF Uncommitted
    <3>2. life[request[s].article] # "new" /\ (Uncommitted(s) => ReadIsKnown(request[s]))
      BY <3>1 DEF LinkInv, PathInv, Begun
    <3>. QED BY <1>1, <1>2, <3>1, <3>2 DEF ReadIsKnown, Kept
  <2>2. life'[a] # "new" /\ ReadIsKnown(record)'
    BY <1>1 DEF ReadIsKnown, Kept
  <2>3. ASSUME NEW s \in Request, request'[s] # Idle
        PROVE  life'[request'[s].article] # "new"
                  /\ (Uncommitted(s)' => ReadIsKnown(request[s])')
    <3>1. CASE s = r
      BY <1>2, <2>2, <3>1 DEF ReadIsKnown
    <3>2. CASE s # r
      BY <2>1, <2>3, <3>2
    <3>. QED BY <3>1, <3>2
  <2>. QED BY <2>3 DEF Begun
<1>6. LinksOwn'
  BY <1>1, <1>2, <1>3 DEF LinkInv, PathInv, LinksOwn, Kept, Here
<1>7. HadAll' /\ IsFiniteSet(DOMAIN redirect')
  BY <1>1 DEF LinkInv, PathInv, HadAll, Kept, AddressesOf
<1>8. ASSUME NEW b \in Article, Steady(b)' PROVE MovedOn(b)' /\ CircleFree(b)'
  <2>1. Steady(b)
    BY <1>1, <1>8 DEF Steady, Kept, Alone, SlugsOf
  <2>2. \A p : Owing(b, p)' <=> Owing(b, p)
    BY <1>2, <1>3, OwingStays
  <2>. QED BY <1>1, <2>1, <2>2, OneArticle
<1>. QED BY <1>4, <1>5, <1>6, <1>7, <1>8 DEF LinkInv, PathInv

LEMMA ReadsLinked ==
    ASSUME TypeOK, LinkInv, NEW r \in Request, NEW a \in Article,
           \/ \E l \in Locale, n \in Name : SaveReads(r, a, l, n)
           \/ \E n \in Name : QuickReads(r, a, n)
           \/ \E l \in Locale : JobReads(r, a, l)
    PROVE  LinkInv'
<1>1. Default \in Locale /\ \A l \in Locale : slug[a][l] \in Slug
  BY AddressesAssumption DEF TypeOK
<1>2. \A n \in Name : <<n>> \in Slug /\ <<n>> # NoSlug
  BY Named DEF NoSlug
<1>3. \A l \in Locale : slug[a][l] # NoSlug => <<l, slug[a][l]>> \in had[a]
  BY PathFacts DEF LinkInv, PathInv, Here
<1>4. CASE \E l \in Locale, n \in Name : SaveReads(r, a, l, n)
  <2>. PICK l \in Locale, n \in Name : SaveReads(r, a, l, n)
    BY <1>4
  <2>. DEFINE q == [op |-> "save", article |-> a, locale |-> l,
                    previous |-> slug[a][l], next |-> NamedSlug(a, l, n)]
  <2>1. NamedSlug(a, l, n) \in Slug /\ NamedSlug(a, l, n) # NoSlug
    BY <1>1, <1>2, Picked, PickedSomething DEF NamedSlug
  <2>2. q \in Reading /\ ReadIsKnown(q)
    BY <1>1, <1>3, <2>1 DEF Reading, ReadIsKnown
  <2>. QED BY <2>2, BeginLinked DEF SaveReads
<1>5. CASE \E n \in Name : QuickReads(r, a, n)
  <2>. PICK n \in Name : QuickReads(r, a, n)
    BY <1>5
  <2>. DEFINE q == [op |-> "quick", article |-> a, locale |-> Default,
                    previous |-> slug[a][Default], next |-> <<n>>]
  <2>1. q \in Reading /\ ReadIsKnown(q)
    BY <1>1, <1>2, <1>3 DEF Reading, ReadIsKnown
  <2>. QED BY <2>1, BeginLinked DEF QuickReads
<1>6. CASE \E l \in Locale : JobReads(r, a, l)
  <2>. PICK l \in Locale : JobReads(r, a, l)
    BY <1>6
  <2>. DEFINE q == [op |-> "job", article |-> a, locale |-> l,
                    previous |-> NoSlug, next |-> slug[a][Default]]
  <2>1. q \in Reading /\ ReadIsKnown(q)
    BY <1>1, NoSlugTyped DEF Reading, ReadIsKnown, JobReads
  <2>. QED BY <2>1, BeginLinked DEF JobReads, Kept
<1>. QED BY <1>4, <1>5, <1>6

\* The transaction of a request: what its article leaves behind is owed.
LEMMA CommitLinked ==
    ASSUME TypeOK, LinkInv, NEW r \in Request, NEW a \in Article,
           request[r].article = a, Commit(r)
    PROVE  LinkInv'
<1>. DEFINE q == request[r]
            new == Written(request[r])[a]
<1>1. /\ q \in Reading /\ q.article = a /\ q.locale \in Locale
      /\ Uncommitted(r) /\ Kept(a) /\ ReadIsKnown(q) /\ q # Idle /\ q.op # "link"
  <2>1. q \in Reading /\ Uncommitted(r) /\ Kept(a)
    BY HoldsItsReading DEF Commit
  <2>2. q # Idle /\ q.op # "link"
    BY <2>1 DEF Uncommitted, Idle
  <2>. QED BY <2>1, <2>2 DEF LinkInv, PathInv, Begun, Reading
<1>2. /\ slug \in Tables /\ slug' \in Tables
      /\ slug'[a] = new /\ \A b \in Article \ {a} : slug'[b] = slug[b]
  BY <1>1, WrittenTyped DEF Commit, TypeOK, Tables
<1>3. /\ UNCHANGED <<life, redirect, slipped>>
      /\ \A s \in Request \ {r} : request'[s] = request[s]
      /\ \A b \in Article \ {a} : had'[b] = had[b]
      /\ had'[a] = had[a] \cup AddressesOf(a, slug')
  BY <1>1 DEF Commit, TypeOK
<1>4. \/ Owed(q) = {} /\ request'[r] = Idle
      \/ /\ request'[r].op = "link" /\ request'[r].article = a
         /\ request'[r].links = Owed(q)
  BY <1>1 DEF Commit, TypeOK
<1>5. /\ request'[r] # Idle => request'[r].article = a
      /\ ~Uncommitted(r)'
  BY <1>4 DEF Uncommitted, Idle
<1>6. \A p \in had[a] : slug[a][p[1]] # NoSlug /\ p[2] # NoSlug /\ p[1] \in Locale
                        /\ p = <<p[1], p[2]>>
  BY <1>1, PathFacts DEF LinkInv, PathInv, HadAll
<1>7. \A l \in Locale : slug[a][l] # NoSlug => <<l, slug[a][l]>> \in had[a]
  BY <1>1, PathFacts DEF LinkInv, PathInv, Here
<1>8. /\ \A l \in Locale : slug[a][l] # NoSlug => new[l] # NoSlug
      /\ new[q.locale] # NoSlug
  BY <1>1, <1>2, WrittenRow DEF ReadIsKnown
<1>9. \A k \in Owed(q) : k.from \in had[a] /\ k.to = <<k.from[1], new[k.from[1]]>>
  <2>. SUFFICES ASSUME NEW k \in Owed(q)
                PROVE  k.from \in had[a] /\ k.to = <<k.from[1], new[k.from[1]]>>
    OBVIOUS
  <2>1. PICK l \in Locale :
           /\ k = [from |-> k.from, to |-> <<l, new[l]>>]
           /\ \/ k.from = <<l, slug[a][l]>> /\ l # q.locale /\ slug[a][l] # new[l]
              \/ k.from = <<l, q.previous>> /\ l = q.locale /\ q.previous # NoSlug
    BY <1>1, <1>2, OwedLinks
  <2>2. k.from[1] = l /\ k.to = <<l, new[l]>>
    BY <2>1
  <2>3. CASE k.from = <<l, slug[a][l]>> /\ l # q.locale /\ slug[a][l] # new[l]
    <3>1. slug[a][l] # NoSlug
      BY <1>1, <1>2, <2>3, WrittenRow DEF ReadIsKnown
    <3>. QED BY <1>7, <2>2, <2>3, <3>1
  <2>4. CASE k.from = <<l, q.previous>> /\ l = q.locale /\ q.previous # NoSlug
    BY <1>1, <2>2, <2>4 DEF ReadIsKnown
  <2>. QED BY <2>1, <2>3, <2>4
<1>10. Single'
  BY <1>1, <1>3, <1>5 DEF LinkInv, PathInv, Single
<1>11. Begun'
  <2>. SUFFICES ASSUME NEW s \in Request, request'[s] # Idle
                PROVE  life'[request'[s].article] # "new"
                          /\ (Uncommitted(s)' => ReadIsKnown(request[s])')
    BY DEF Begun
  <2>1. CASE s = r
    BY <1>1, <1>3, <1>5, <2>1 DEF Kept
  <2>2. CASE s # r
    <3>1. request'[s] = request[s] /\ (Uncommitted(s)' => Uncommitted(s))
      BY <1>3, <2>2 DEF Uncommitted
    <3>2. life[request[s].article] # "new" /\ (Uncommitted(s) => ReadIsKnown(request[s]))
      BY <3>1 DEF LinkInv, PathInv, Begun
    <3>3. ASSUME Uncommitted(s) PROVE ReadIsKnown(request[s])'
      <4>1. request[s] \in Reading /\ request[s].article \in Article
        BY <3>3, HoldsItsReading DEF Reading
      <4>2. request[s].article = a => a \in slipped
        BY <1>1, <2>2, <3>1 DEF LinkInv, PathInv, Single
      <4>3. had[request[s].article] \subseteq had'[request[s].article]
        BY <1>3, <4>1
      <4>. QED BY <1>2, <1>3, <3>1, <3>2, <3>3, <4>1, <4>2, <4>3 DEF ReadIsKnown, Kept
    <3>. QED BY <1>3, <3>1, <3>2, <3>3
  <2>. QED BY <2>1, <2>2
<1>12. LinksOwn'
  <2>. SUFFICES ASSUME NEW s \in Request, request'[s].op = "link", NEW k \in request'[s].links
                PROVE  /\ k.from \in had'[request'[s].article]
                       /\ request'[s].article \notin slipped' /\ Kept(request[s].article)' =>
                             k.to = Here(request[s].article, k.from[1])'
    BY DEF LinksOwn
  <2>1. CASE s = r
    <3>1. k \in Owed(q) /\ request'[s].article = a
      BY <1>4, <2>1 DEF Idle
    <3>. QED BY <1>2, <1>3, <1>9, <3>1 DEF Here
  <2>2. CASE s # r
    <3>1. /\ request'[s] = request[s] /\ request[s].op = "link" /\ request[s] # Idle
          /\ request[s].article \in Article
      BY <1>3, <2>2 DEF TypeOK, Idle, Reading, Linking
    <3>2. request[s].article = a => a \in slipped
      BY <1>1, <2>2, <3>1 DEF LinkInv, PathInv, Single
    <3>3. /\ k.from \in had[request[s].article]
          /\ request[s].article \notin slipped /\ Kept(request[s].article) =>
                 k.to = Here(request[s].article, k.from[1])
      BY <3>1 DEF LinkInv, PathInv, LinksOwn
    <3>. QED BY <1>2, <1>3, <3>1, <3>2, <3>3 DEF Here, Kept
  <2>. QED BY <2>1, <2>2
<1>13. HadAll'
  <2>. SUFFICES ASSUME NEW b \in Article
                PROVE  /\ AddressesOf(b, slug') \subseteq had'[b]
                       /\ life'[b] = "new" => had'[b] = {}
                       /\ \A p \in had'[b] : p[2] # NoSlug /\ (Kept(b)' => slug'[b][p[1]] # NoSlug)
    BY DEF HadAll
  <2>1. CASE b # a
    BY <1>2, <1>3, <2>1 DEF LinkInv, PathInv, HadAll, Kept, AddressesOf
  <2>2. CASE b = a
    <3>1. \A p \in AddressesOf(a, slug') : p[2] # NoSlug /\ slug'[a][p[1]] # NoSlug
      BY DEF AddressesOf
    <3>. QED BY <1>1, <1>2, <1>3, <1>6, <1>8, <2>2, <3>1 DEF Kept
  <2>. QED BY <2>1, <2>2
<1>14. \A b \in Article : had[b] \subseteq had'[b]
  BY <1>3
<1>15. ASSUME NEW b \in Article \ {a}, Steady(b)' PROVE MovedOn(b)' /\ CircleFree(b)'
  <2>1. Steady(b)
    BY <1>3, <1>14, <1>15, AloneBefore DEF Steady, Kept
  <2>2. \A p : Owing(b, p)' <=> Owing(b, p)
    <3>1. \A s \in Request :
               \/ request'[s] = request[s]
               \/ /\ request[s].op = "link" => request[s].article # b
                  /\ request'[s].op = "link" => request'[s].article # b
      BY <1>3, <1>4, <1>15 DEF Idle
    <3>. QED BY <3>1, OwingStays
  <2>. QED BY <1>2, <1>3, <2>1, <2>2, OneArticle
<1>16. ASSUME Steady(a)' PROVE MovedOn(a)' /\ CircleFree(a)'
  <2>1. Steady(a)
    BY <1>1, <1>3, <1>14, <1>16, AloneBefore DEF Steady
  <2>2. \A p : ~Owing(a, p)
    BY <1>1, <2>1 DEF LinkInv, PathInv, Single, Owing, Steady, Idle
  <2>3. MovedOn(a) /\ CircleFree(a)
    BY <1>1, <2>1 DEF LinkInv
  <2>4. \A p \in Old(a)' : p \in had[a]
    <3>1. \A p \in AddressesOf(a, slug') : p = Here(a, p[1])'
      BY DEF AddressesOf, Here
    <3>. QED BY <1>3, <3>1 DEF Old
  <2>5. ASSUME NEW p \in Old(a)', p \notin Old(a) PROVE Owing(a, p)'
    <3>1. p = <<p[1], slug[a][p[1]]>> /\ p[1] \in Locale /\ slug[a][p[1]] # NoSlug
      BY <1>6, <2>4, <2>5 DEF Old, Here
    <3>2. new[p[1]] # slug[a][p[1]]
      BY <1>2, <3>1, <2>5 DEF Old, Here
    <3>3. \E k \in Owed(q) : k.from = p
      <4>1. CASE p[1] # q.locale
        BY <1>1, <1>2, <3>1, <3>2, <4>1, OwedLinks
      <4>2. CASE p[1] = q.locale
        <5>1. q.op # "job" /\ new[q.locale] = q.next
          <6>1. q.op = "job" => Written(q) = slug
            BY <1>1, <1>2, <3>1, <4>2, WrittenRow DEF ReadIsKnown
          <6>2. q.op # "job"
            BY <3>2, <6>1
          <6>. QED BY <1>1, <1>2, <6>2, WrittenRow DEF ReadIsKnown
        <5>2. q.previous = slug[a][q.locale]
          BY <1>1, <2>1, <5>1 DEF ReadIsKnown, Steady
        <5>. QED BY <1>1, <1>2, <3>1, <3>2, <4>2, <5>1, <5>2, OwedLinks
      <4>. QED BY <4>1, <4>2
    <3>4. request'[r].op = "link" /\ request'[r].article = a /\ request'[r].links = Owed(q)
      BY <1>4, <3>3
    <3>. QED BY <3>3, <3>4 DEF Owing
  <2>6. MovedOn(a)'
    <3>. SUFFICES ASSUME NEW p \in Old(a)', ~Owing(a, p)'
                  PROVE  /\ p \in DOMAIN redirect'
                         /\ redirect'[p] \in had'[a]
                         /\ redirect'[p][1] = p[1]
      BY DEF MovedOn
    <3>1. p \in Old(a)
      BY <2>5
    <3>. QED BY <1>3, <1>14, <2>2, <2>3, <3>1 DEF MovedOn
  <2>7. CircleFree(a)'
    <3>. SUFFICES ASSUME NEW S \in SUBSET Old(a)', S # {}
                  PROVE  \E p \in S : Owing(a, p)' \/ redirect'[p] \notin S
      BY DEF CircleFree
    <3>1. CASE \E p \in S : p \notin Old(a)
      BY <2>5, <3>1
    <3>2. CASE S \subseteq Old(a)
      BY <1>3, <2>2, <2>3, <3>2 DEF CircleFree
    <3>. QED BY <3>1, <3>2
  <2>. QED BY <2>6, <2>7
<1>17. \A b \in Article : Steady(b)' => MovedOn(b)' /\ CircleFree(b)'
  BY <1>15, <1>16
<1>18. IsFiniteSet(DOMAIN redirect')
  BY <1>3 DEF LinkInv, PathInv
<1>. QED BY <1>10, <1>11, <1>12, <1>13, <1>17, <1>18 DEF LinkInv, PathInv

\* One redirect more: the path it leads from is no longer owed.
LEMMA WriteLinkLinked ==
    ASSUME TypeOK, LinkInv, NEW r \in Request, NEW a \in Article,
           request[r].article = a, NEW link \in request[r].links, WriteLink(r, link)
    PROVE  LinkInv'
<1>. DEFINE rest == request[r].links \ {link}
<1>1. /\ request[r] \in Linking /\ request[r].op = "link" /\ request[r] # Idle
      /\ link \in Link
  BY DEF WriteLink, TypeOK, Idle, Reading, Linking
<1>2. /\ UNCHANGED <<life, slug, had, slipped>>
      /\ redirect' = Redirected(link)
      /\ \A s \in Request \ {r} : request'[s] = request[s]
      /\ request'[r] = IF rest = {} THEN Idle ELSE [request[r] EXCEPT !.links = rest]
  BY DEF WriteLink, TypeOK
<1>3. \/ rest = {} /\ request'[r] = Idle
      \/ /\ request'[r].op = "link" /\ request'[r].article = a
         /\ request'[r].links = rest
  BY <1>1, <1>2 DEF Linking
<1>4. ~Uncommitted(r)' /\ (request'[r] # Idle => request'[r].article = a)
  BY <1>3 DEF Uncommitted, Idle
<1>5. /\ DOMAIN redirect' = DOMAIN redirect \cup {link.from}
      /\ \A p \in DOMAIN redirect \ {link.from} : redirect'[p] = redirect[p]
      /\ redirect'[link.from] = link.to
  BY <1>2 DEF Redirected
<1>6. link.from \in had[a]
  BY <1>1 DEF LinkInv, PathInv, LinksOwn
<1>7. Single'
  <2>1. \A s \in Request : request'[s] # Idle =>
           request[s] # Idle /\ request'[s].article = request[s].article
    <3>1. request'[r] # Idle => request[r] # Idle /\ request'[r].article = request[r].article
      BY <1>1, <1>4
    <3>. QED BY <1>2, <3>1
  <2>. QED BY <1>2, <2>1 DEF LinkInv, PathInv, Single
<1>8. Begun'
  <2>. SUFFICES ASSUME NEW s \in Request, request'[s] # Idle
                PROVE  life'[request'[s].article] # "new"
                          /\ (Uncommitted(s)' => ReadIsKnown(request[s])')
    BY DEF Begun
  <2>1. CASE s = r
    BY <1>1, <1>2, <1>4, <2>1 DEF LinkInv, PathInv, Begun
  <2>2. CASE s # r
    BY <1>2, <2>2 DEF LinkInv, PathInv, Begun, Uncommitted, ReadIsKnown, Kept
  <2>. QED BY <2>1, <2>2
<1>9. LinksOwn'
  <2>. SUFFICES ASSUME NEW s \in Request, request'[s].op = "link", NEW k \in request'[s].links
                PROVE  /\ k.from \in had'[request'[s].article]
                       /\ request'[s].article \notin slipped' /\ Kept(request[s].article)' =>
                             k.to = Here(request[s].article, k.from[1])'
    BY DEF LinksOwn
  <2>1. /\ request[s].op = "link" /\ k \in request[s].links
        /\ request'[s].article = request[s].article
    <3>1. CASE s = r
      BY <1>1, <1>3, <3>1 DEF Idle
    <3>2. CASE s # r
      BY <1>2, <3>2
    <3>. QED BY <3>1, <3>2
  <2>2. /\ k.from \in had[request[s].article]
        /\ request[s].article \notin slipped /\ Kept(request[s].article) =>
              k.to = Here(request[s].article, k.from[1])
    BY <2>1 DEF LinkInv, PathInv, LinksOwn
  <2>. QED BY <1>2, <2>1, <2>2 DEF Here, Kept
<1>10. HadAll'
  BY <1>2 DEF LinkInv, PathInv, HadAll, AddressesOf, Kept
<1>11. IsFiniteSet(DOMAIN redirect')
  BY <1>5, FS_AddElement DEF LinkInv, PathInv
<1>12. ASSUME NEW b \in Article, Steady(b)' PROVE MovedOn(b)' /\ CircleFree(b)'
  <2>1. Steady(b)
    BY <1>2, <1>12 DEF Steady, Kept, Alone, SlugsOf
  <2>2. CASE b # a
    <3>1. \A p : Owing(b, p)' <=> Owing(b, p)
      <4>1. \A s \in Request :
               \/ request'[s] = request[s]
               \/ /\ request[s].op = "link" => request[s].article # b
                  /\ request'[s].op = "link" => request'[s].article # b
        <5>1. request'[r].op = "link" => request'[r].article # b
          BY <1>3, <2>2 DEF Idle
        <5>. QED BY <1>2, <2>2, <5>1
      <4>. QED BY <4>1, OwingStays
    <3>2. link.from \notin had[b]
      <4>1. SlugsOf(b) \cap SlugsOf(a) = {}
        BY <2>1, <2>2 DEF Steady, Alone
      <4>. QED BY <1>6, <4>1 DEF SlugsOf
    <3>3. \A p \in Old(b) : p \in DOMAIN redirect =>
             p \in DOMAIN redirect' /\ redirect'[p] = redirect[p]
      BY <1>5, <3>2 DEF Old
    <3>. QED BY <1>2, <2>1, <3>1, <3>3, OneArticle
  <2>3. CASE b = a
    <3>1. link.to = Here(a, link.from[1])
      BY <1>1, <2>1, <2>3 DEF LinkInv, PathInv, LinksOwn, Steady
    <3>2. ASSUME NEW p \in Old(a), Owing(a, p)
          PROVE  \/ Owing(a, p)'
                 \/ p \in DOMAIN redirect' /\ redirect'[p] = Here(a, p[1])
      <4>1. PICK s \in Request : /\ request[s].op = "link" /\ request[s].article = a
                                 /\ \E k \in request[s].links : k.from = p
        BY <3>2 DEF Owing
      <4>2. s = r
        BY <1>1, <2>1, <2>3, <4>1 DEF LinkInv, PathInv, Single, Steady, Idle
      <4>3. PICK k \in request[r].links : k.from = p
        BY <4>1, <4>2
      <4>4. CASE k = link
        BY <1>5, <3>1, <4>3, <4>4
      <4>5. CASE k # link
        <5>1. k \in rest /\ rest # {}
          BY <4>5
        <5>. QED BY <1>3, <4>3, <5>1 DEF Owing
      <4>. QED BY <4>4, <4>5
    <3>3. ASSUME NEW p \in Old(a), ~Owing(a, p), p \in DOMAIN redirect
          PROVE  p \in DOMAIN redirect' /\ redirect'[p] = redirect[p]
      <4>1. p # link.from
        BY <1>1, <3>3 DEF Owing
      <4>. QED BY <1>5, <3>3, <4>1
    <3>4. Steady(a) /\ slug'[a] = slug[a] /\ had'[a] = had[a]
      BY <1>2, <2>1, <2>3
    <3>. QED BY <2>3, <3>2, <3>3, <3>4, OneArticle
  <2>. QED BY <2>2, <2>3
<1>. QED BY <1>7, <1>8, <1>9, <1>10, <1>11, <1>12 DEF LinkInv, PathInv

\* A request that is refused, or dies: one that still owed redirects is
\* remembered in `slipped'.
LEMMA EndLinked ==
    ASSUME TypeOK, LinkInv, NEW r \in Request, Refused(r) \/ Crash(r)
    PROVE  LinkInv'
<1>1. /\ UNCHANGED <<life, slug, redirect, had>>
      /\ \A s \in Request \ {r} : request'[s] = request[s]
      /\ request'[r] = Idle /\ slipped \subseteq slipped'
      /\ request[r].op = "link" => request[r].article \in slipped'
  <2>1. Refused(r) => request[r].op # "link"
    BY DEF Refused, Uncommitted
  <2>. QED BY <2>1 DEF Refused, Crash, TypeOK, rows
<1>2. ~Uncommitted(r)' /\ Idle.op # "link"
  BY <1>1 DEF Uncommitted, Idle
<1>3. Single'
  BY <1>1 DEF LinkInv, PathInv, Single
<1>4. Begun'
  <2>. SUFFICES ASSUME NEW s \in Request, request'[s] # Idle
                PROVE  life'[request'[s].article] # "new"
                          /\ (Uncommitted(s)' => ReadIsKnown(request[s])')
    BY DEF Begun
  <2>1. s # r /\ request'[s] = request[s]
    BY <1>1
  <2>. QED BY <1>1, <2>1 DEF LinkInv, PathInv, Begun, Uncommitted, ReadIsKnown, Kept
<1>5. LinksOwn'
  <2>. SUFFICES ASSUME NEW s \in Request, request'[s].op = "link", NEW k \in request'[s].links
                PROVE  /\ k.from \in had'[request'[s].article]
                       /\ request'[s].article \notin slipped' /\ Kept(request[s].article)' =>
                             k.to = Here(request[s].article, k.from[1])'
    BY DEF LinksOwn
  <2>1. request'[s] = request[s] /\ s # r
    BY <1>1, <1>2
  <2>. QED BY <1>1, <2>1 DEF LinkInv, PathInv, LinksOwn, Here, Kept
<1>6. HadAll' /\ IsFiniteSet(DOMAIN redirect')
  BY <1>1 DEF LinkInv, PathInv, HadAll, AddressesOf, Kept
<1>7. ASSUME NEW b \in Article, Steady(b)' PROVE MovedOn(b)' /\ CircleFree(b)'
  <2>1. Steady(b)
    BY <1>1, <1>7 DEF Steady, Kept, Alone, SlugsOf
  <2>2. request[r].op = "link" => request[r].article # b
    BY <1>1, <1>7 DEF Steady
  <2>3. \A p : Owing(b, p)' <=> Owing(b, p)
    <3>1. \A s \in Request :
               \/ request'[s] = request[s]
               \/ /\ request[s].op = "link" => request[s].article # b
                  /\ request'[s].op = "link" => request'[s].article # b
      BY <1>1, <1>2, <2>2
    <3>. QED BY <3>1, OwingStays
  <2>. QED BY <1>1, <2>1, <2>3, OneArticle
<1>. QED BY <1>3, <1>4, <1>5, <1>6, <1>7 DEF LinkInv, PathInv

\* Nothing but the lives of articles changes, and no article comes back.
LEMMA Quiet ==
    ASSUME TypeOK, LinkInv, UNCHANGED <<slug, redirect, request, had, slipped>>,
           \A a \in Article : life[a] # "new" =>
               life'[a] # "new" /\ (Kept(a)' => Kept(a)),
           \A a \in Article : life[a] = "new" => life'[a] # "purged"
    PROVE  LinkInv'
<1>1. \A r \in Request : request[r] # Idle => request[r].article \in Article
  BY DEF TypeOK, Reading, Linking
<1>2. Single' /\ IsFiniteSet(DOMAIN redirect')
  BY DEF LinkInv, PathInv, Single
<1>3. Begun'
  BY <1>1 DEF LinkInv, PathInv, Begun, Uncommitted, ReadIsKnown
<1>4. LinksOwn'
  <2>1. \A r \in Request : request[r].op = "link" =>
           request[r] # Idle /\ life[request[r].article] # "new"
    BY DEF LinkInv, PathInv, Begun, Idle
  <2>. QED BY <1>1, <2>1 DEF LinkInv, PathInv, LinksOwn, Here
<1>5. HadAll'
  BY DEF LinkInv, PathInv, HadAll, AddressesOf, Kept
<1>6. ASSUME NEW a \in Article, Steady(a)' PROVE MovedOn(a)' /\ CircleFree(a)'
  <2>1. CASE life[a] = "new"
    <3>1. Old(a)' = {}
      BY <2>1 DEF LinkInv, PathInv, HadAll, Old
    <3>. QED BY <3>1 DEF MovedOn, CircleFree
  <2>2. CASE life[a] # "new"
    <3>1. Steady(a)
      BY <1>6, <2>2 DEF Steady, Alone, SlugsOf
    <3>2. \A p : Owing(a, p)' <=> Owing(a, p)
      BY OwingStays
    <3>. QED BY <3>1, <3>2, OneArticle
  <2>. QED BY <2>1, <2>2
<1>. QED BY <1>2, <1>3, <1>4, <1>5, <1>6 DEF LinkInv, PathInv

\* What staff do to whole articles: a purge takes the article out of the
\* statement, a copy starts with no former path.
LEMMA KeepLinked ==
    ASSUME TypeOK, LinkInv, NEW a \in Article, Keep(a)
    PROVE  LinkInv'
<1>1. \A r \in Request : request[r] # Idle =>
         request[r].article \in Article /\ life[request[r].article] # "new"
  BY DEF TypeOK, Reading, Linking, LinkInv, PathInv, Begun
<1>2. \A r \in Request : request[r].op = "link" => request[r] # Idle
  BY DEF Idle
<1>3. CASE Create(a) \/ Toggle(a) \/ Trash(a)
  <2>1. /\ UNCHANGED <<slug, redirect, request, had, slipped>>
        /\ \A b \in Article : life[b] # "new" =>
               life'[b] # "new" /\ (Kept(b)' => Kept(b))
        /\ \A b \in Article : life[b] = "new" => life'[b] # "purged"
    BY <1>3 DEF Create, Toggle, Trash, TypeOK, Kept
  <2>. QED BY <2>1, Quiet
<1>4. CASE Purge(a)
  <2>1. /\ UNCHANGED <<redirect, request, had, slipped>>
        /\ ~Kept(a)' /\ life'[a] # "new"
        /\ \A l \in Locale : slug'[a][l] = NoSlug
        /\ \A b \in Article \ {a} : slug'[b] = slug[b] /\ life'[b] = life[b]
    BY <1>4 DEF Purge, TypeOK, Kept
  <2>2. Single' /\ IsFiniteSet(DOMAIN redirect')
    BY <2>1 DEF LinkInv, PathInv, Single
  <2>3. Begun'
    BY <1>1, <2>1 DEF LinkInv, PathInv, Begun, Uncommitted, ReadIsKnown, Kept
  <2>4. LinksOwn'
    BY <1>1, <1>2, <2>1 DEF LinkInv, PathInv, LinksOwn, Here, Kept
  <2>5. HadAll'
    BY <2>1 DEF LinkInv, PathInv, HadAll, AddressesOf, Kept
  <2>6. ASSUME NEW b \in Article, Steady(b)' PROVE MovedOn(b)' /\ CircleFree(b)'
    <3>1. b # a /\ Steady(b)
      BY <2>1, <2>6 DEF Steady, Kept, Alone, SlugsOf
    <3>2. \A p : Owing(b, p)' <=> Owing(b, p)
      BY <2>1, OwingStays
    <3>. QED BY <2>1, <3>1, <3>2, OneArticle
  <2>. QED BY <2>2, <2>3, <2>4, <2>5, <2>6 DEF LinkInv, PathInv
<1>5. CASE \E b \in Article : Duplicate(a, b)
  <2>. PICK b \in Article : Duplicate(a, b)
    BY <1>5
  <2>1. /\ UNCHANGED <<redirect, request, slipped>>
        /\ life[b] = "new" /\ life'[b] = "kept"
        /\ had'[b] = AddressesOf(b, slug')
        /\ \A c \in Article \ {b} :
              slug'[c] = slug[c] /\ life'[c] = life[c] /\ had'[c] = had[c]
    BY DEF Duplicate, TypeOK
  <2>2. had[b] = {}
    BY <2>1 DEF LinkInv, PathInv, HadAll
  <2>3. Single' /\ IsFiniteSet(DOMAIN redirect')
    BY <2>1 DEF LinkInv, PathInv, Single
  <2>4. Begun'
    <3>1. \A r \in Request : request[r] # Idle => request[r].article \in Article \ {b}
      BY <1>1, <2>1
    <3>. QED BY <1>1, <2>1, <3>1 DEF LinkInv, PathInv, Begun, Uncommitted, ReadIsKnown, Kept
  <2>5. LinksOwn'
    <3>1. \A r \in Request : request[r].op = "link" => request[r].article \in Article \ {b}
      BY <1>1, <1>2, <2>1
    <3>. QED BY <2>1, <3>1 DEF LinkInv, PathInv, LinksOwn, Here, Kept
  <2>6. HadAll'
    <3>1. \A p \in AddressesOf(b, slug') : p[2] # NoSlug /\ slug'[b][p[1]] # NoSlug
      BY DEF AddressesOf
    <3>. QED BY <2>1, <3>1 DEF LinkInv, PathInv, HadAll, AddressesOf, Kept
  <2>7. ASSUME NEW c \in Article, Steady(c)' PROVE MovedOn(c)' /\ CircleFree(c)'
    <3>1. CASE c = b
      <4>1. \A p \in AddressesOf(b, slug') : p = Here(b, p[1])'
        BY DEF AddressesOf, Here
      <4>2. Old(b)' = {}
        BY <2>1, <4>1 DEF Old
      <4>. QED BY <3>1, <4>2 DEF MovedOn, CircleFree
    <3>2. CASE c # b
      <4>1. Alone(c)
        BY <2>1, <2>2, <2>7, AloneBefore DEF Steady
      <4>2. Steady(c)
        BY <2>1, <2>7, <3>2, <4>1 DEF Steady, Kept
      <4>3. \A p : Owing(c, p)' <=> Owing(c, p)
        BY <2>1, OwingStays
      <4>. QED BY <2>1, <3>2, <4>2, <4>3, OneArticle
    <3>. QED BY <3>1, <3>2
  <2>. QED BY <2>3, <2>4, <2>5, <2>6, <2>7 DEF LinkInv, PathInv
<1>. QED BY <1>3, <1>4, <1>5 DEF Keep

LEMMA LinkStep == TypeOK /\ LinkInv /\ [Next]_vars => LinkInv'
<1>. SUFFICES ASSUME TypeOK, LinkInv, [Next]_vars PROVE LinkInv'
  OBVIOUS
<1>1. ASSUME NEW r \in Request, Serve(r) PROVE LinkInv'
  <2>1. CASE \E a \in Article :
                \/ \E l \in Locale, n \in Name : SaveReads(r, a, l, n)
                \/ \E n \in Name : QuickReads(r, a, n)
                \/ \E l \in Locale : JobReads(r, a, l)
    BY <2>1, ReadsLinked
  <2>2. CASE Commit(r)
    <3>1. request[r].article \in Article
      BY <2>2, HoldsItsReading DEF Commit, Reading
    <3>. QED BY <2>2, <3>1, CommitLinked
  <2>3. CASE Refused(r) \/ Crash(r)
    BY <2>3, EndLinked
  <2>4. CASE \E link \in request[r].links : WriteLink(r, link)
    <3>1. request[r].article \in Article
      BY <2>4 DEF WriteLink, TypeOK, Idle, Reading, Linking
    <3>. QED BY <2>4, <3>1, WriteLinkLinked
  <2>. QED BY <1>1, <2>1, <2>2, <2>3, <2>4 DEF Serve
<1>2. ASSUME NEW a \in Article, Keep(a) PROVE LinkInv'
  BY <1>2, KeepLinked
<1>3. CASE UNCHANGED vars
  <2>1. UNCHANGED <<slug, redirect, request, had, slipped, life>>
    BY <1>3 DEF vars, rows
  <2>. QED BY <2>1, Quiet DEF Kept
<1>. QED BY <1>1, <1>2, <1>3 DEF Next

-----------------------------------------------------------------------------
(* The walk.  The library's induction over the naturals is used by way of   *)
(* least numbers of sets.                                                   *)

\* A set of numbers has a least one.
LEMMA LeastNumber ==
    ASSUME NEW T \in SUBSET Nat, T # {}
    PROVE  \E n \in T : \A m \in T : ~ (m < n)
<1>. DEFINE R == OpToRel(<, Nat)
<1>1. \E n \in T : \A m \in T : ~ (<<m, n>> \in R)
  <2>. HIDE DEF R
  <2>. QED BY NatLessThanWellFounded, WFMin DEF R
<1>2. ASSUME NEW m \in Nat, NEW n \in Nat, m < n PROVE <<m, n>> \in R
  BY <1>2 DEF OpToRel
<1>. QED BY <1>1, <1>2

\* Where a visitor may be one redirect later.
After(X) == UNION {Hops(q) : q \in X}

\* The recursion of Walk has a solution, so Walk is one.
LEMMA WalkUnfolds ==
    ASSUME Far \in Nat, NEW p
    PROVE  /\ Walk(p)[0] = {p}
           /\ \A n \in 1 .. Far : Walk(p)[n] = After(Walk(p)[n - 1])
<1>. DEFINE Good(k, g) ==
                g = [n \in 0 .. k |-> IF n = 0 THEN {p} ELSE After(g[n - 1])]
            T == {k \in 0 .. Far : ~ \E g : Good(k, g)}
<1>1. T = {}
  <2>. SUFFICES ASSUME T # {} PROVE FALSE
    OBVIOUS
  <2>0. T \in SUBSET Nat
    <3>. HIDE DEF Good
    <3>. QED OBVIOUS
  <2>1. PICK k \in T : \A m \in T : ~ (m < k)
    <3>. HIDE DEF T
    <3>. QED BY <2>0, LeastNumber
  <2>2. k # 0
    <3>. DEFINE g == [n \in 0 .. 0 |-> {p}]
    <3>1. g = [n \in 0 .. 0 |-> IF n = 0 THEN {p} ELSE After(g[n - 1])]
      OBVIOUS
    <3>2. Good(0, g)
      BY <3>1
    <3>. QED BY <3>2
  <2>3. k \in 1 .. Far /\ k - 1 \in 0 .. Far /\ k - 1 < k
    BY <2>2
  <2>4. PICK h : Good(k - 1, h)
    BY <2>1, <2>3
  <2>. DEFINE g == [n \in 0 .. k |-> IF n = k THEN After(h[k - 1]) ELSE h[n]]
  <2>5. ASSUME NEW n \in 0 .. k
        PROVE  g[n] = IF n = 0 THEN {p} ELSE After(g[n - 1])
    <3>1. CASE n = k
      BY <2>3, <3>1
    <3>2. CASE n # k
      <4>1. n \in 0 .. (k - 1) /\ (n # 0 => n - 1 \in 0 .. (k - 1) /\ n - 1 # k)
        BY <2>3, <3>2
      <4>2. h[n] = IF n = 0 THEN {p} ELSE After(h[n - 1])
        BY <2>4, <4>1
      <4>. QED BY <2>3, <3>2, <4>1, <4>2
    <3>. QED BY <3>1, <3>2
  <2>6. Good(k, g)
    <3>. HIDE DEF g
    <3>1. g = [n \in 0 .. k |-> g[n]]
      BY DEF g
    <3>. QED BY <2>5, <3>1
  <2>. QED BY <2>6
<1>2. \E g : Good(Far, g)
  <2>. HIDE DEF Good
  <2>. QED BY <1>1
<1>3. Walk(p) = CHOOSE g : Good(Far, g)
  BY DEF Walk, After
<1>4. Good(Far, Walk(p))
  <2>. HIDE DEF Good
  <2>1. Good(Far, CHOOSE g : Good(Far, g))
    BY <1>2
  <2>. QED BY <1>3, <2>1
<1>5. ASSUME NEW g, Good(Far, g)
      PROVE  g[0] = {p} /\ \A n \in 1 .. Far : g[n] = After(g[n - 1])
  <2>1. \A n \in 0 .. Far : g[n] = IF n = 0 THEN {p} ELSE After(g[n - 1])
    BY <1>5
  <2>. HIDE DEF Good
  <2>. QED BY <2>1
<1>. HIDE DEF Good
<1>. QED BY <1>4, <1>5

\* There is room for every redirect, and two steps more.
LEMMA FarEnough ==
    ASSUME LinkInv, NEW a \in Article
    PROVE  /\ Cardinality(DOMAIN redirect) \in Nat
           /\ Far \in Nat
           /\ Far >= Cardinality(DOMAIN redirect) + 2
<1>. DEFINE A == Cardinality(Article)
            L == Cardinality(Locale)
            D == Cardinality(DOMAIN redirect)
<1>1. A \in Nat /\ L \in Nat /\ D \in Nat
  BY FS_CardinalityType, AddressesAssumption DEF LinkInv, PathInv
<1>2. A # 0 /\ L # 0
  BY FS_EmptySet, AddressesAssumption
<1>3. Far = D + A * L + 1
  BY DEF Far
<1>. HIDE DEF A, L, D
<1>4. A * L \in Nat /\ A * L >= 1
  BY <1>1, <1>2
<1>. QED BY <1>1, <1>3, <1>4 DEF D

\* Where a path of a public article leads that is steady and owes nothing:
\* the present one shows it, a former one leads to the present one or to
\* where it was redirected.
LEMMA HopsFrom ==
    ASSUME TypeOK, LinkInv, NEW a \in Article, Steady(a), Visible(a), ~Busy(a),
           NEW p \in had[a]
    PROVE  /\ p \notin Old(a) => Hops(p) = {}
           /\ p \in Old(a) =>
                 /\ p \in DOMAIN redirect /\ redirect[p] \in had[a]
                 /\ redirect[p][1] = p[1]
                 /\ Hops(p) \in {{Here(a, p[1])}, {redirect[p]}}
<1>1. /\ p[1] \in Locale /\ p = <<p[1], p[2]>> /\ p[2] # NoSlug
      /\ slug[a][p[1]] # NoSlug
  BY PathFacts DEF LinkInv, PathInv, HadAll, Steady
<1>2. ASSUME NEW b \in Article, NEW l \in Locale, slug[b][l] = p[2] PROVE b = a
  <2>1. <<l, p[2]>> \in had[b]
    BY <1>1, <1>2, PathFacts DEF LinkInv, PathInv, Here
  <2>2. p[2] \in SlugsOf(b)
    BY <2>1 DEF SlugsOf
  <2>3. p[2] \in SlugsOf(a)
    BY DEF SlugsOf
  <2>. QED BY <2>2, <2>3 DEF Steady, Alone
<1>3. CASE p \notin Old(a)
  <2>1. slug[a][p[1]] = p[2]
    BY <1>1, <1>3 DEF Old, Here
  <2>2. a \in Page(p)
    BY <2>1 DEF Page
  <2>. QED BY <1>3, <2>2 DEF Hops
<1>4. CASE p \in Old(a)
  <2>1. slug[a][p[1]] # p[2]
    BY <1>1, <1>4 DEF Old, Here
  <2>2. Page(p) = {}
    BY <1>1, <1>2, <2>1 DEF Page
  <2>3. ~Owing(a, p)
    BY DEF Owing, Busy, Idle
  <2>4. /\ p \in DOMAIN redirect /\ redirect[p] \in had[a]
        /\ redirect[p][1] = p[1]
    BY <1>4, <2>3 DEF LinkInv, MovedOn
  <2>5. CASE Owners(p) = {}
    BY <1>4, <2>2, <2>4, <2>5 DEF Hops, OldHome
  <2>6. CASE Owners(p) # {}
    <3>1. Owners(p) = {a}
      BY <1>2, <2>6 DEF Owners
    <3>2. HomeOf(a, p[1]) = {Here(a, p[1])}
      BY <1>1 DEF HomeOf, Here
    <3>3. Hops(p) = {Here(a, p[1])}
      BY <2>2, <3>1, <3>2 DEF Hops
    <3>. QED BY <1>4, <2>4, <3>3
  <2>. QED BY <2>5, <2>6
<1>. QED BY <1>3, <1>4

\* Under LinkInv a walk from any path of such an article ends, and at its
\* present page.
LEMMA WalkLeads ==
    ASSUME TypeOK, LinkInv, NEW a \in Article, Steady(a), Visible(a), ~Busy(a),
           NEW p \in had[a]
    PROVE  Leads(p, Here(a, p[1]))
<1>. DEFINE W == Walk(p)
            D == DOMAIN redirect
            N == Cardinality(D)
            On(n, q) == q \in had[a] /\ q[1] = p[1] /\ W[n] = {q}
<1>1. N \in Nat /\ Far \in Nat /\ Far >= N + 2
  BY FarEnough
<1>2. W[0] = {p} /\ \A n \in 1 .. Far : W[n] = After(W[n - 1])
  BY <1>1, WalkUnfolds
<1>3. p[1] \in Locale /\ Here(a, p[1]) \in had[a] /\ Here(a, p[1])[1] = p[1]
      /\ Here(a, p[1]) \notin Old(a)
  BY PathFacts DEF LinkInv, PathInv, HadAll, Steady
<1>4. ASSUME NEW q \in had[a], q[1] = p[1]
      PROVE  /\ q \notin Old(a) => q = Here(a, p[1]) /\ After({q}) = {}
             /\ q \in Old(a) => /\ q \in D /\ redirect[q] \in had[a] /\ redirect[q][1] = p[1]
                                /\ After({q}) \in {{Here(a, p[1])}, {redirect[q]}}
  <2>1. After({q}) = Hops(q)
    BY DEF After
  <2>2. q \notin Old(a) => q = Here(a, p[1])
    BY <1>4 DEF Old
  <2>. QED BY <1>4, <2>1, <2>2, HopsFrom
<1>5. After({}) = {}
  BY DEF After
<1>. HIDE DEF W, D, N
\* Nowhere or at one path of the article, in the language it was asked in.
<1>6. \A n \in 0 .. Far : W[n] = {} \/ \E q : On(n, q)
  <2>. DEFINE T == {n \in 0 .. Far : ~ (W[n] = {} \/ \E q : On(n, q))}
  <2>. SUFFICES ASSUME T # {} PROVE FALSE
    OBVIOUS
  <2>1. T \in SUBSET Nat
    BY <1>1
  <2>2. PICK n \in T : \A m \in T : ~ (m < n)
    BY <2>1, LeastNumber
  <2>3. n # 0
    BY <1>2
  <2>4. n \in 1 .. Far /\ n - 1 \in 0 .. Far /\ n - 1 < n
    BY <1>1, <2>3
  <2>5. W[n - 1] = {} \/ \E q : On(n - 1, q)
    BY <2>2, <2>4
  <2>6. W[n] = After(W[n - 1])
    BY <1>2, <2>4
  <2>7. CASE W[n - 1] = {}
    BY <1>5, <2>6, <2>7
  <2>8. CASE \E q : On(n - 1, q)
    <3>1. PICK q : On(n - 1, q)
      BY <2>8
    <3>2. W[n] = After({q})
      BY <2>6, <3>1
    <3>3. W[n] \in {{}, {Here(a, p[1])}, {redirect[q]}}
             /\ (W[n] = {redirect[q]} /\ q \in Old(a) =>
                    redirect[q] \in had[a] /\ redirect[q][1] = p[1])
      BY <1>4, <3>1, <3>2
    <3>4. q \notin Old(a) => W[n] = {}
      BY <1>4, <3>1, <3>2
    <3>. QED BY <1>3, <3>3, <3>4
  <2>. QED BY <2>5, <2>7, <2>8
\* Who stopped does not go on.
<1>7. \A m \in 0 .. Far : W[m] # {} => \A n \in 0 .. m : W[n] # {}
  <2>. DEFINE T == {m \in 0 .. Far : W[m] # {} /\ \E n \in 0 .. m : W[n] = {}}
  <2>. SUFFICES ASSUME T # {} PROVE FALSE
    OBVIOUS
  <2>1. T \in SUBSET Nat
    BY <1>1
  <2>2. PICK m \in T : \A k \in T : ~ (k < m)
    BY <2>1, LeastNumber
  <2>3. PICK n \in 0 .. m : W[n] = {}
    BY <2>2
  <2>4. n # m /\ m \in 1 .. Far /\ m - 1 \in 0 .. Far /\ m - 1 < m /\ n \in 0 .. (m - 1)
    BY <1>1, <2>2, <2>3
  <2>5. W[m - 1] # {}
    BY <1>2, <1>5, <2>2, <2>4
  <2>6. m - 1 \in T
    BY <2>3, <2>4, <2>5
  <2>. QED BY <2>2, <2>4, <2>6
\* So many redirects would go round, and none does.
<1>8. W[Far] = {}
  <2>. SUFFICES ASSUME W[Far] # {} PROVE FALSE
    OBVIOUS
  <2>1. \A n \in 0 .. Far : W[n] # {}
    BY <1>1, <1>7
  <2>2. \A n \in 0 .. Far : \E q : On(n, q)
    BY <1>6, <2>1
  <2>. DEFINE f == [n \in 0 .. (N + 1) |-> CHOOSE q : On(n, q)]
  <2>3. \A n \in 0 .. (N + 1) : On(n, f[n])
    <3>. HIDE DEF On
    <3>. QED BY <1>1, <2>2
  <2>. HIDE DEF f
  <2>4. ASSUME NEW n \in 0 .. (N + 1) PROVE f[n] \in Old(a)
    <3>1. n + 1 \in 1 .. Far /\ (n + 1) - 1 = n /\ n + 1 \in 0 .. Far
      BY <1>1
    <3>2. W[n + 1] = After({f[n]})
      BY <1>2, <2>3, <3>1
    <3>. QED BY <1>4, <2>1, <2>3, <3>1, <3>2
  <2>5. ASSUME NEW n \in 0 .. N PROVE f[n] \in D /\ f[n + 1] = redirect[f[n]]
    <3>1. /\ n \in 0 .. (N + 1) /\ n + 1 \in 0 .. (N + 1)
          /\ n + 1 \in 1 .. Far /\ (n + 1) - 1 = n
      BY <1>1
    <3>2. W[n + 1] = After({f[n]}) /\ W[n + 1] = {f[n + 1]}
      BY <1>2, <2>3, <3>1
    <3>3. f[n] \in Old(a) /\ f[n + 1] \in Old(a)
      BY <2>4, <3>1
    <3>4. f[n] \in had[a] /\ f[n][1] = p[1]
      BY <2>3, <3>1
    <3>5. f[n + 1] # Here(a, p[1])
      BY <1>3, <3>3
    <3>6. f[n] \in D /\ After({f[n]}) \in {{Here(a, p[1])}, {redirect[f[n]]}}
      BY <1>4, <3>3, <3>4
    <3>. QED BY <3>2, <3>5, <3>6
  <2>6. \E x, y \in 0 .. N : x < y /\ f[x] = f[y]
    <3>. DEFINE g == [n \in 0 .. N |-> f[n]]
    <3>1. g \in [0 .. N -> D]
      BY <2>5
    <3>2. IsFiniteSet(0 .. N) /\ Cardinality(0 .. N) = N + 1
      BY <1>1, FS_Interval
    <3>3. IsFiniteSet(D) /\ Cardinality(D) < Cardinality(0 .. N)
      BY <1>1, <3>2 DEF LinkInv, PathInv, D, N
    <3>4. \E x, y \in 0 .. N : x # y /\ g[x] = g[y]
      <4>. HIDE DEF g
      <4>. QED BY <3>1, <3>2, <3>3, FS_PigeonHole
    <3>. QED BY <1>1, <3>4
  <2>7. PICK x \in 0 .. N, y \in 0 .. N : x < y /\ f[x] = f[y]
    BY <2>6
  <2>. DEFINE S == {f[n] : n \in x .. (y - 1)}
  <2>8. S \in SUBSET Old(a) /\ f[x] \in S
    BY <1>1, <2>4, <2>7
  <2>9. \A s \in S : redirect[s] \in S
    <3>. SUFFICES ASSUME NEW n \in x .. (y - 1) PROVE redirect[f[n]] \in S
      OBVIOUS
    <3>1. n \in 0 .. N /\ n + 1 \in x .. y
      BY <1>1, <2>7
    <3>2. redirect[f[n]] = f[n + 1]
      BY <2>5, <3>1
    <3>3. n + 1 = y \/ n + 1 \in x .. (y - 1)
      BY <1>1, <2>7, <3>1
    <3>. QED BY <2>7, <2>8, <3>2, <3>3
  <2>10. \A q : ~Owing(a, q)
    BY DEF Owing, Busy, Idle
  <2>11. CircleFree(a)
    BY DEF LinkInv
  <2>. HIDE DEF S
  <2>. QED BY <2>8, <2>9, <2>10, <2>11 DEF CircleFree
<1>9. ASSUME NEW n \in 0 .. Far, NEW o \in W[n], Hops(o) = {}
      PROVE  o = Here(a, p[1])
  <2>1. On(n, o)
    BY <1>6, <1>9
  <2>2. o \notin Old(a)
    BY <1>9, <2>1, HopsFrom
  <2>. QED BY <1>4, <2>1, <2>2
<1>. QED BY <1>8, <1>9 DEF Leads, Ends, W

\* Every path a public article ever had still leads to it, in the same
\* language and at its present slug, however many renames, requests, crashes,
\* copies and purges there were; unless its requests overlapped or died, or
\* another article took one of its slugs.
THEOREM LinksLeadAlways == Spec => []LinksLead
<1>1. Init => TypeOK /\ LinkInv
  BY TypeInit, LinkInit
<1>2. (TypeOK /\ LinkInv) /\ [Next]_vars => (TypeOK /\ LinkInv)'
  BY TypeStep, LinkStep
<1>3. TypeOK /\ LinkInv => LinksLead
  <2>. SUFFICES ASSUME TypeOK, LinkInv, NEW a \in Article \ slipped,
                       Visible(a), ~Busy(a), Alone(a), NEW p \in had[a]
                PROVE  Leads(p, <<p[1], slug[a][p[1]]>>)
    BY DEF LinksLead
  <2>1. Steady(a)
    BY DEF Steady, Visible, Kept
  <2>. QED BY <2>1, WalkLeads DEF Here
<1>. QED BY <1>1, <1>2, <1>3, PTL DEF Spec
=============================================================================
