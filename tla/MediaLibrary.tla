---------------------------- MODULE MediaLibrary ----------------------------
(***************************************************************************)
(* The media library and the pictures that use it: core/src/media.ts (the  *)
(* rows, the stored objects, replace and delete), cms/references.ts (the   *)
(* usage index), and two kinds of holder, the articles with their          *)
(* translations (articles.ts, purge.ts) and the brand slot                 *)
(* (brand-assets.ts).                                                      *)
(*                                                                         *)
(* A holder keeps the id of an asset and a COPY of its url, and the index  *)
(* has a row for it.  Replace puts the bytes under a new key, points the   *)
(* row at it and drops the old object; delete reads the index, then marks  *)
(* the row.  None of these is one statement, so requests interleave, and a *)
(* process may die between any two of their writes.                        *)
(***************************************************************************)
EXTENDS Naturals

CONSTANTS
    Asset,        \* media asset ids
    Article,      \* article ids
    Brand,        \* the brand slot
    None,         \* no row, no picture
    Request,      \* slots for requests in flight
    MaxObjects,   \* bound: how many objects are ever put
    MaxPicks,     \* bound: how many saves of a picture ever start
    MaxCrashes    \* bound: how many requests die

VARIABLES
    asset,     \* asset[m]: the row of m, or None
    objects,   \* the keys in the storage
    image,     \* image[s]: the id and the url the holder s shows
    counted,   \* the usage index: <<s, m>> says that s uses m
    life,      \* life[a]: "new", "kept", "trash" or "purged"
    request,   \* request[r]: what the request in slot r holds
    spent,     \* how many objects, picks and crashes there have been
    excused,   \* history: keys whose request died or met another replace
    late       \* history: holders that were given an asset while it went

vars == <<asset, objects, image, counted, life, request, spent, excused, late>>

Key == 1 .. MaxObjects
Row == [key : Key, deleted : BOOLEAN]
Image == [asset : Asset, key : Key]

ASSUME MediaAssumption ==
    /\ Brand \notin Article
    /\ None \notin Row
    /\ MaxObjects \in Nat /\ MaxPicks \in Nat /\ MaxCrashes \in Nat

\* Who shows a picture: an article, its translation, or the brand slot.  The
\* index keeps the first two under the ids `id' and `id:locale'.
Cover == Article \X {"cover"}
Og == Article \X {"og"}
Holder == Cover \cup Og \cup {<<Brand, "logo">>}

Idle == [op |-> "idle"]
Steps == [op : {"upload"}, key : Key]
            \cup [op : {"replace", "drop"}, asset : Asset, old : Key, key : Key]
            \cup [op : {"delete"}, asset : Asset]
            \cup [op : {"pick"}, holder : Holder, asset : Asset, key : Key]
            \cup [op : {"copy"}, to : Article,
                   shows : [{"cover", "og"} -> Image \cup {None}]]

-----------------------------------------------------------------------------
(* What the tables say.                                                    *)

Rows == {m \in Asset : asset[m] # None}
Live(m) == m \in Rows /\ ~asset[m].deleted
Named == {asset[m].key : m \in Rows}

InUse(m) == \E s \in Holder : <<s, m>> \in counted

\* Whether a holder has a row to keep its picture in.
Present(s) == s[1] \in Article => life[s[1]] \in {"kept", "trash"}

\* A mutant: the translations' pictures under the article's own id.
SyncedTogether(s, picture) ==
    {u \in counted : u[1][1] # s[1]}
        \cup (IF picture = None THEN {} ELSE {<<s, picture.asset>>})

\* syncReferences: the rows of source s are those of what it shows now.
Synced(s, picture) ==
    {u \in counted : u[1] # s}
        \cup (IF picture = None THEN {} ELSE {<<s, picture.asset>>})

Does(r, op) == request[r].op = op
Replaces(r, m) == request[r].op \in {"replace", "drop"} /\ request[r].asset = m
Deletes(m) == \E r \in Request : Does(r, "delete") /\ request[r].asset = m

Start(r, record) ==
    /\ request[r] = Idle
    /\ request' = [request EXCEPT ![r] = record]

Finish(r) == request' = [request EXCEPT ![r] = Idle]

-----------------------------------------------------------------------------
(* storeMedia                                                              *)

\* The next object key; keys are random in the code, so never used twice.
NextKey == spent.objects + 1

PutsObject ==
    /\ NextKey \in Key
    /\ objects' = objects \cup {NextKey}
    /\ spent' = [spent EXCEPT !.objects = NextKey]

StorePuts(r) ==
    /\ Start(r, [op |-> "upload", key |-> NextKey])
    /\ PutsObject
    /\ UNCHANGED <<asset, image, counted, life, excused, late>>

StoreRows(r, m) ==
    /\ Does(r, "upload")
    /\ asset[m] = None
    /\ asset' = [asset EXCEPT ![m] = [key |-> request[r].key, deleted |-> FALSE]]
    /\ Finish(r)
    /\ UNCHANGED <<objects, image, counted, life, spent, excused, late>>

-----------------------------------------------------------------------------
(* replaceMedia                                                            *)

\* The row is read and the new object put: nobody else knows its key yet.
ReplacePuts(r, m) ==
    /\ Live(m)
    /\ Start(r, [op |-> "replace", asset |-> m, old |-> asset[m].key,
                 key |-> NextKey])
    /\ PutsObject
    /\ excused' = excused \cup
          UNION {{NextKey, request[s].key} : s \in {t \in Request : Replaces(t, m)}}
    /\ UNCHANGED <<asset, image, counted, life, late>>

\* A mutant: the old object goes before the row is moved off it.
ReplaceRowsLast(r) ==
    LET q == request[r] IN
    /\ Does(r, "replace")
    /\ objects' = objects \ {q.old}
    /\ request' = [request EXCEPT ![r].op = "drop"]
    /\ UNCHANGED <<asset, image, counted, life, spent, excused, late>>

\* The row by its id, deleted or not; then the caches of what uses it.
ReplaceRows(r) ==
    LET q == request[r] IN
    /\ Does(r, "replace")
    /\ asset' = [asset EXCEPT ![q.asset].key = q.key]
    /\ request' = [request EXCEPT ![r].op = "drop"]
    /\ UNCHANGED <<objects, image, counted, life, spent, excused, late>>

\* A mutant: the storage is asked to drop the key that was just put.
ReplaceDropsNew(r) ==
    /\ Does(r, "drop")
    /\ objects' = objects \ {request[r].key}
    /\ Finish(r)
    /\ UNCHANGED <<asset, image, counted, life, spent, excused, late>>

ReplaceDrops(r) ==
    /\ Does(r, "drop")
    /\ objects' = objects \ {request[r].old}
    /\ Finish(r)
    /\ UNCHANGED <<asset, image, counted, life, spent, excused, late>>

-----------------------------------------------------------------------------
(* deleteMedia                                                             *)

DeleteReads(r, m) ==
    /\ Live(m)
    /\ ~InUse(m)
    /\ Start(r, [op |-> "delete", asset |-> m])
    /\ UNCHANGED <<asset, objects, image, counted, life, spent, excused, late>>

DeleteMarks(r) ==
    /\ Does(r, "delete")
    /\ asset' = [asset EXCEPT ![request[r].asset].deleted = TRUE]
    /\ Finish(r)
    /\ UNCHANGED <<objects, image, counted, life, spent, excused, late>>

-----------------------------------------------------------------------------
(* The holders.                                                            *)

\* An editor's form takes a picture from the library, which lists what is not
\* deleted; setBrandAsset reads the row itself and does not ask.
PickReads(r, s, m) ==
    /\ Present(s)
    /\ IF s[1] = Brand THEN m \in Rows ELSE Live(m)
    /\ spent.picks < MaxPicks
    /\ spent' = [spent EXCEPT !.picks = @ + 1]
    /\ Start(r, [op |-> "pick", holder |-> s, asset |-> m, key |-> asset[m].key])
    /\ UNCHANGED <<asset, objects, image, counted, life, excused, late>>

\* History: which of these holders are given an asset that is deleted, or is
\* being deleted; the others are given theirs in time.
Going(m) == asset[m].deleted \/ Deletes(m)
Timed(holders, gone) == (late \ holders) \cup gone

\* applyArticleMeta, applyArticleTranslation and setBrandAsset: the picture
\* and its row in the index, in one transaction.
PickSaves(r) ==
    LET q == request[r]
        picture == [asset |-> q.asset, key |-> q.key]
    IN
    /\ Does(r, "pick")
    /\ Present(q.holder)
    /\ image' = [image EXCEPT ![q.holder] = picture]
    /\ counted' = Synced(q.holder, picture)
    /\ late' = Timed({q.holder}, {s \in {q.holder} : Going(q.asset)})
    /\ Finish(r)
    /\ UNCHANGED <<asset, objects, life, spent, excused>>

\* The article was purged: the update finds no row and the save rolls back.
PickFails(r) ==
    /\ Does(r, "pick")
    /\ ~Present(request[r].holder)
    /\ Finish(r)
    /\ UNCHANGED <<asset, objects, image, counted, life, spent, excused, late>>

\* A save without the picture; clearBrandAsset.
Clear(s) ==
    /\ Present(s)
    /\ image[s] # None
    /\ image' = [image EXCEPT ![s] = None]
    /\ counted' = Synced(s, None)
    /\ late' = Timed({s}, {})
    /\ UNCHANGED <<asset, objects, life, request, spent, excused>>

Create(a) ==
    /\ life[a] = "new"
    /\ life' = [life EXCEPT ![a] = "kept"]
    /\ UNCHANGED <<asset, objects, image, counted, request, spent, excused, late>>

\* duplicateArticle: the article is read, then the copy is made of what was
\* read, and counts from the moment it exists.
CopyReads(r, a, b) ==
    /\ life[a] \in {"kept", "trash"}
    /\ life[b] = "new"
    /\ Start(r, [op |-> "copy", to |-> b,
                 shows |-> [k \in {"cover", "og"} |-> image[<<a, k>>]]])
    /\ UNCHANGED <<asset, objects, image, counted, life, spent, excused, late>>

\* A mutant: the copy is not counted.
CopySavesBare(r) ==
    LET b == request[r].to IN
    /\ Does(r, "copy")
    /\ life[b] = "new"
    /\ life' = [life EXCEPT ![b] = "kept"]
    /\ image' = [s \in Holder |->
          IF s[1] = b THEN request[r].shows[s[2]] ELSE image[s]]
    /\ Finish(r)
    /\ UNCHANGED <<asset, objects, counted, spent, excused, late>>

CopySaves(r) ==
    LET b == request[r].to
        shows == request[r].shows
        kinds == {k \in {"cover", "og"} : shows[k] # None}
    IN
    /\ Does(r, "copy")
    /\ life[b] = "new"
    /\ life' = [life EXCEPT ![b] = "kept"]
    /\ image' = [s \in Holder |-> IF s[1] = b THEN shows[s[2]] ELSE image[s]]
    /\ counted' = counted \cup {<<<<b, k>>, shows[k].asset>> : k \in kinds}
    /\ late' = late \cup {<<b, k>> : k \in {j \in kinds : Going(shows[j].asset)}}
    /\ Finish(r)
    /\ UNCHANGED <<asset, objects, spent, excused>>

\* setArticleDeleted, both ways.
Trash(a) ==
    /\ life[a] \in {"kept", "trash"}
    /\ life' = [life EXCEPT ![a] = IF @ = "kept" THEN "trash" ELSE "kept"]
    /\ UNCHANGED <<asset, objects, image, counted, request, spent, excused, late>>

\* A mutant: the row goes and its translations stay.
PurgeRowOnly(a) ==
    /\ life[a] = "trash"
    /\ life' = [life EXCEPT ![a] = "purged"]
    /\ image' = [image EXCEPT ![<<a, "cover">>] = None]
    /\ counted' = {u \in counted : u[1] # <<a, "cover">>}
    /\ UNCHANGED <<asset, objects, request, spent, excused, late>>

\* purgeContent: the translations go with the article; of the index, what is
\* held under the article's own id.
Purge(a) ==
    /\ life[a] = "trash"
    /\ life' = [life EXCEPT ![a] = "purged"]
    /\ image' = [s \in Holder |-> IF s[1] = a THEN None ELSE image[s]]
    /\ counted' = {u \in counted : u[1] # <<a, "cover">>}
    /\ late' = Timed({<<a, "cover">>, <<a, "og">>}, {})
    /\ UNCHANGED <<asset, objects, request, spent, excused>>

-----------------------------------------------------------------------------
\* A process dies; what it had put, or not yet dropped, stays behind.
Crash(r) ==
    LET q == request[r] IN
    /\ q # Idle
    /\ spent.crashes < MaxCrashes
    /\ spent' = [spent EXCEPT !.crashes = @ + 1]
    /\ excused' = excused \cup (CASE q.op = "upload" -> {q.key}
                                  [] q.op \in {"replace", "drop"} -> {q.key, q.old}
                                  [] OTHER -> {})
    /\ Finish(r)
    /\ UNCHANGED <<asset, objects, image, counted, life, late>>

Init ==
    /\ asset = [m \in Asset |-> None]
    /\ objects = {}
    /\ image = [s \in Holder |-> None]
    /\ counted = {}
    /\ life = [a \in Article |-> "new"]
    /\ request = [r \in Request |-> Idle]
    /\ spent = [objects |-> 0, picks |-> 0, crashes |-> 0]
    /\ excused = {}
    /\ late = {}

Library(r) ==
    \/ StorePuts(r)
    \/ \E m \in Asset : StoreRows(r, m) \/ ReplacePuts(r, m) \/ DeleteReads(r, m)
    \/ ReplaceRows(r)
    \/ ReplaceDrops(r)
    \/ DeleteMarks(r)

Desk(r) ==
    \/ \E s \in Holder, m \in Asset : PickReads(r, s, m)
    \/ PickSaves(r)
    \/ PickFails(r)
    \/ \E a, b \in Article : CopyReads(r, a, b)
    \/ CopySaves(r)

Keep(a) ==
    \/ Create(a)
    \/ Trash(a)
    \/ Purge(a)

Next ==
    \/ \E r \in Request : Library(r) \/ Desk(r) \/ Crash(r)
    \/ \E s \in Holder : Clear(s)
    \/ \E a \in Article : Keep(a)

Spec == Init /\ [][Next]_vars

-----------------------------------------------------------------------------
(* Properties.                                                             *)

\* The types, and that an article that is not there shows nothing.
TypeOK ==
    /\ asset \in [Asset -> Row \cup {None}]
    /\ objects \subseteq Key
    /\ image \in [Holder -> Image \cup {None}]
    /\ counted \subseteq Holder \X Asset
    /\ life \in [Article -> {"new", "kept", "trash", "purged"}]
    /\ request \in [Request -> {Idle} \cup Steps]
    /\ spent \in [objects : 0 .. MaxObjects, picks : 0 .. MaxPicks,
                  crashes : 0 .. MaxCrashes]
    /\ excused \subseteq Key
    /\ late \subseteq Holder
    /\ \A s \in Holder : ~Present(s) => image[s] = None

\* Every row names an object that is in the storage, whatever replaces cross
\* or die: "the old object is removed only after" (replaceMedia).
RowIsStored == Named \subseteq objects

\* Every picture in use is counted, so the library never takes it for unused
\* (syncReferences, in the transaction of the save).
UseIsCounted ==
    \A s \in Holder : image[s] # None => <<s, image[s].asset>> \in counted

\* An object no row names belongs to a request that is under way, or was left
\* by one that died or crossed another replace of the same asset.
NothingLeaks ==
    \A k \in (objects \ Named) \ excused :
        \E r \in Request : \/ Does(r, "upload") /\ request[r].key = k
                           \/ Does(r, "replace") /\ request[r].key = k
                           \/ Does(r, "drop") /\ request[r].old = k

\* A picture that is in use is not deleted (ADR-034 #4), unless it was given
\* to its holder after it was deleted or while the delete was under way.
UsedIsKept ==
    \A s \in Holder \ late : image[s] # None => Live(image[s].asset)

\* Not kept: what the index counts is in use.  purge.ts says of a purged
\* article's references that "a picture it used stops counting as in use".  See README.
CountedIsUsed ==
    \A u \in counted : image[u[1]] # None /\ image[u[1]].asset = u[2]

\* Not kept: what a holder shows is in the storage, at least while nobody is
\* replacing it.  The url of a holder is a copy, and replaceMedia only
\* invalidates the caches it is read through.  See README.
ShownIsStored ==
    \A s \in Holder :
        image[s] # None /\ (\A r \in Request : request[r] = Idle)
            => image[s].key \in objects
=============================================================================
