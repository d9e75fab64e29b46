------------------------- MODULE MediaLibraryProofs -------------------------
(***************************************************************************)
(* Theorems about MediaLibrary, for any number of assets, articles and     *)
(* requests: the types; rows name what is stored and nothing is left over; *)
(* what is shown is counted, and is not deleted.                           *)
(***************************************************************************)
EXTENDS MediaLibrary, TLAPS

-----------------------------------------------------------------------------
(* The invariants.                                                         *)

\* A request with a key that no row has yet; one that moves a row off a key.
Puts(r) == request[r].op \in {"upload", "replace"}
Moves(r) == request[r].op \in {"replace", "drop"}

\* What is written down of an asset is of one that has a row.
RowsStay ==
    /\ \A r \in Request :
          Moves(r) \/ Does(r, "delete") \/ Does(r, "pick") => request[r].asset \in Rows
    /\ \A r \in Request : Does(r, "copy") =>
          \A k \in {"cover", "og"} :
             request[r].shows[k] # None => request[r].shows[k].asset \in Rows
    /\ \A s \in Holder : image[s] # None => image[s].asset \in Rows

TypeInv == TypeOK /\ RowsStay

\* No key that is in use anywhere is still to be given out.
Issued ==
    /\ \A k \in objects \cup Named : k <= spent.objects
    /\ \A r \in Request :
          /\ Puts(r) => request[r].key <= spent.objects
          /\ Moves(r) => request[r].old <= spent.objects

\* A key that was put for a row is stored, and its request's alone.
Fresh ==
    \A r \in Request : Puts(r) =>
        /\ request[r].key \in objects \ Named
        /\ \A s \in Request : Moves(s) => request[s].old # request[r].key
        /\ \A s \in Request \ {r} : Puts(s) => request[s].key # request[r].key

\* Two rows never name one key.
OneRowEach == \A m, n \in Rows : asset[m].key = asset[n].key => m = n

\* The key a replace is about to move its row off is of no other row, ...
OldIsOwn ==
    \A r \in Request : Does(r, "replace") =>
        \A n \in Rows : asset[n].key = request[r].old => n = request[r].asset

\* ... and the one it is about to drop is of none.
Unnamed == \A r \in Request : Does(r, "drop") => request[r].old \notin Named

KeyInv ==
    /\ Issued
    /\ Fresh
    /\ OneRowEach
    /\ OldIsOwn
    /\ Unnamed
    /\ RowIsStored

\* A row that was moved while a replace of it is under way, was moved to a key
\* that is excused; and so would the replace move it.
Crossed ==
    \A r \in Request : Does(r, "replace") =>
        /\ \/ asset[request[r].asset].key = request[r].old
           \/ asset[request[r].asset].key \in excused
        /\ \A s \in Request \ {r} :
              Does(s, "replace") /\ request[s].asset = request[r].asset
                  => request[r].key \in excused

LeakInv == Crossed /\ NothingLeaks

\* What a holder was given in time is not being deleted.
NoneGoes ==
    \A s \in Holder \ late : image[s] # None => ~Deletes(image[s].asset)

UseInv ==
    /\ UseIsCounted
    /\ NoneGoes
    /\ UsedIsKept

-----------------------------------------------------------------------------
(* The types.                                                              *)

\* What each kind of request holds.
LEMMA Shapes ==
    ASSUME TypeOK, NEW r \in Request
    PROVE  /\ Does(r, "upload") => request[r] \in [op : {"upload"}, key : Key]
           /\ Moves(r) => request[r] \in [op : {"replace", "drop"}, asset : Asset,
                                          old : Key, key : Key]
           /\ Does(r, "delete") => request[r] \in [op : {"delete"}, asset : Asset]
           /\ Does(r, "pick") => request[r] \in [op : {"pick"}, holder : Holder,
                                                 asset : Asset, key : Key]
           /\ Does(r, "copy") =>
                 request[r] \in [op : {"copy"}, to : Article,
                                 shows : [{"cover", "og"} -> Image \cup {None}]]
BY DEF TypeOK, Steps, Idle, Does, Moves

\* A holder is an article's picture, its translation's, or the brand's.
LEMMA Holders ==
    /\ \A a \in Article, k \in {"cover", "og"} :
          <<a, k>> \in Holder /\ <<a, k>>[1] = a /\ <<a, k>>[2] = k
    /\ \A s \in Holder : s[1] \in Article => s[2] \in {"cover", "og"} /\ s = <<s[1], s[2]>>
BY MediaAssumption DEF Holder, Cover, Og

\* A new request, of a kind that has its shape.
LEMMA StartTyped ==
    ASSUME TypeOK, NEW r \in Request, NEW q \in Steps, Start(r, q)
    PROVE  /\ request' \in [Request -> {Idle} \cup Steps]
           /\ request[r] = Idle
           /\ request'[r] = q
           /\ \A s \in Request \ {r} : request'[s] = request[s]
BY DEF TypeOK, Start

LEMMA FinishTyped ==
    ASSUME TypeOK, NEW r \in Request, Finish(r)
    PROVE  /\ request' \in [Request -> {Idle} \cup Steps]
           /\ request'[r] = Idle
           /\ \A s \in Request \ {r} : request'[s] = request[s]
BY DEF TypeOK, Finish

\* A row that there is.
LEMMA RowsTyped ==
    ASSUME TypeOK
    PROVE  /\ \A m \in Rows : m \in Asset /\ asset[m] \in Row /\ asset[m].key \in Key
           /\ \A m \in Asset : asset[m] \in Row => m \in Rows
           /\ \A m \in Asset \ Rows : asset[m] = None
BY MediaAssumption DEF TypeOK, Rows, Row

\* An object is put under the next key.
LEMMA PutsTyped ==
    ASSUME TypeOK, PutsObject
    PROVE  /\ NextKey \in Key
           /\ objects' \subseteq Key
           /\ objects' = objects \cup {NextKey}
           /\ spent' \in [objects : 0 .. MaxObjects, picks : 0 .. MaxPicks,
                          crashes : 0 .. MaxCrashes]
           /\ spent'.objects = spent.objects + 1
           /\ spent.objects \in Nat
BY MediaAssumption DEF TypeOK, PutsObject, NextKey, Key

LEMMA TypeInit == Init => TypeInv
<1>. SUFFICES ASSUME Init PROVE TypeInv
  OBVIOUS
<1>1. TypeOK
  BY MediaAssumption DEF Init, TypeOK
<1>2. RowsStay
  BY DEF Init, RowsStay, Rows, Moves, Does, Idle
<1>. QED BY <1>1, <1>2 DEF TypeInv

\* Requests that do no more than begin or end leave the types as they are.
LEMMA QuietTyped ==
    ASSUME TypeOK, UNCHANGED <<asset, image, life>>,
           request' \in [Request -> {Idle} \cup Steps],
           objects' \subseteq Key, counted' \subseteq Holder \X Asset,
           spent' \in [objects : 0 .. MaxObjects, picks : 0 .. MaxPicks,
                       crashes : 0 .. MaxCrashes],
           excused' \subseteq Key, late' \subseteq Holder
    PROVE  TypeOK'
BY DEF TypeOK, Present

LEMMA StorePutsTyped ==
    ASSUME TypeInv, NEW r \in Request, StorePuts(r)
    PROVE  TypeInv'
<1>. DEFINE q == [op |-> "upload", key |-> NextKey]
<1>. USE DEF TypeInv
<1>1. PutsObject /\ Start(r, q) /\ UNCHANGED <<asset, image, counted, life, excused, late>>
  BY DEF StorePuts
<1>2. q \in Steps
  BY <1>1, PutsTyped DEF Steps
<1>3. TypeOK'
  BY <1>1, <1>2, PutsTyped, StartTyped, QuietTyped DEF TypeOK
<1>4. RowsStay'
  BY <1>1, <1>2, StartTyped DEF RowsStay, Rows, Moves, Does
<1>. QED BY <1>3, <1>4

LEMMA StoreRowsTyped ==
    ASSUME TypeInv, NEW r \in Request, NEW m \in Asset, StoreRows(r, m)
    PROVE  TypeInv'
<1>. USE DEF TypeInv
<1>1. request[r].key \in Key
  BY Shapes DEF StoreRows
<1>2. /\ asset' = [asset EXCEPT ![m] = [key |-> request[r].key, deleted |-> FALSE]]
      /\ [key |-> request[r].key, deleted |-> FALSE] \in Row
  BY <1>1 DEF StoreRows, Row
<1>3. asset' \in [Asset -> Row \cup {None}]
  BY <1>2 DEF TypeOK
<1>4. TypeOK'
  BY <1>3, FinishTyped DEF StoreRows, TypeOK, Present
<1>5. Rows \subseteq Rows'
  BY <1>2, MediaAssumption DEF TypeOK, Rows
<1>6. RowsStay'
  BY <1>5, FinishTyped DEF StoreRows, RowsStay, Moves, Does, Idle
<1>. QED BY <1>4, <1>6

LEMMA ReplacePutsTyped ==
    ASSUME TypeInv, NEW r \in Request, NEW m \in Asset, ReplacePuts(r, m)
    PROVE  TypeInv'
<1>. DEFINE q == [op |-> "replace", asset |-> m, old |-> asset[m].key, key |-> NextKey]
<1>. USE DEF TypeInv
<1>1. PutsObject /\ Start(r, q) /\ UNCHANGED <<asset, image, counted, life, late>>
  BY DEF ReplacePuts
<1>2. m \in Rows /\ asset[m].key \in Key
  BY RowsTyped DEF ReplacePuts, Live
<1>3. q \in Steps
  BY <1>1, <1>2, PutsTyped DEF Steps
<1>4. excused' \subseteq Key
  <2>1. \A t \in Request : Replaces(t, m) => request[t].key \in Key
    BY Shapes DEF Replaces, Moves
  <2>. QED BY <1>1, <2>1, PutsTyped DEF ReplacePuts, TypeOK
<1>5. TypeOK'
  BY <1>1, <1>3, <1>4, PutsTyped, StartTyped, QuietTyped DEF TypeOK
<1>6. RowsStay'
  BY <1>1, <1>2, <1>3, StartTyped DEF RowsStay, Rows, Moves, Does
<1>. QED BY <1>5, <1>6

\* A row rewritten is a row, and rows stay.
LEMMA Rewritten ==
    ASSUME TypeOK, NEW m \in Rows, NEW x \in Row, asset' = [asset EXCEPT ![m] = x]
    PROVE  /\ asset' \in [Asset -> Row \cup {None}]
           /\ Rows' = Rows
           /\ asset'[m] = x
           /\ \A n \in Rows \ {m} : asset'[n] = asset[n]
BY MediaAssumption DEF TypeOK, Rows

\* What the two writes of rows do.
LEMMA ReplaceRowsDoes ==
    ASSUME TypeInv, NEW r \in Request, ReplaceRows(r)
    PROVE  LET q == request[r] IN
           /\ q.asset \in Rows /\ q.asset \in Asset /\ q.key \in Key /\ q.old \in Key
           /\ asset' \in [Asset -> Row \cup {None}]
           /\ Rows' = Rows
           /\ asset'[q.asset].key = q.key
           /\ asset'[q.asset].deleted = asset[q.asset].deleted
           /\ \A n \in Rows \ {q.asset} : asset'[n] = asset[n]
           /\ request'[r] = [op |-> "drop", asset |-> q.asset, old |-> q.old, key |-> q.key]
           /\ \A s \in Request \ {r} : request'[s] = request[s]
           /\ request' \in [Request -> {Idle} \cup Steps]
<1>. DEFINE q == request[r]
            x == [asset[q.asset] EXCEPT !.key = q.key]
<1>. USE DEF TypeInv
<1>1. q \in [op : {"replace", "drop"}, asset : Asset, old : Key, key : Key]
  BY Shapes DEF ReplaceRows, Does, Moves
<1>2. q.asset \in Rows
  BY DEF ReplaceRows, RowsStay, Moves, Does
<1>3. asset[q.asset] \in Row
  BY <1>2, RowsTyped
<1>4. x \in Row /\ x.key = q.key /\ x.deleted = asset[q.asset].deleted
  BY <1>1, <1>3 DEF Row
<1>5. asset' = [asset EXCEPT ![q.asset] = x]
  BY DEF ReplaceRows
<1>6. /\ request'[r] = [op |-> "drop", asset |-> q.asset, old |-> q.old, key |-> q.key]
      /\ \A s \in Request \ {r} : request'[s] = request[s]
      /\ request' \in [Request -> {Idle} \cup Steps]
  <2>1. [q EXCEPT !.op = "drop"]
            = [op |-> "drop", asset |-> q.asset, old |-> q.old, key |-> q.key]
    BY <1>1
  <2>2. [q EXCEPT !.op = "drop"] \in Steps
    BY <1>1, <2>1 DEF Steps
  <2>3. request' = [request EXCEPT ![r] = [q EXCEPT !.op = "drop"]]
    BY DEF ReplaceRows
  <2>. QED BY <2>1, <2>2, <2>3 DEF TypeOK
<1>. QED BY <1>1, <1>2, <1>4, <1>5, <1>6, Rewritten

LEMMA DeleteMarksDoes ==
    ASSUME TypeInv, NEW r \in Request, DeleteMarks(r)
    PROVE  LET m == request[r].asset IN
           /\ m \in Rows
           /\ asset' \in [Asset -> Row \cup {None}]
           /\ Rows' = Rows
           /\ asset'[m].key = asset[m].key
           /\ \A n \in Rows \ {m} : asset'[n] = asset[n]
           /\ Named' = Named
<1>. DEFINE m == request[r].asset
            x == [asset[m] EXCEPT !.deleted = TRUE]
<1>. USE DEF TypeInv
<1>1. m \in Rows /\ m \in Asset /\ asset[m] \in Row
  BY Shapes, RowsTyped DEF DeleteMarks, RowsStay
<1>2. x \in Row /\ x.key = asset[m].key
  BY <1>1 DEF Row
<1>3. asset' = [asset EXCEPT ![m] = x]
  BY DEF DeleteMarks
<1>4. /\ asset' \in [Asset -> Row \cup {None}]
      /\ Rows' = Rows
      /\ asset'[m] = x
      /\ \A n \in Rows \ {m} : asset'[n] = asset[n]
  BY <1>1, <1>2, <1>3, Rewritten
<1>5. Named' = Named
  <2>1. \A n \in Rows : asset'[n].key = asset[n].key
    BY <1>2, <1>4
  <2>. HIDE DEF m, x
  <2>. QED BY <1>4, <2>1 DEF Named
<1>. QED BY <1>1, <1>2, <1>4, <1>5

\* One request moves on, and the rows it knows of stay.
LEMMA StayStep ==
    ASSUME RowsStay, NEW r \in Request, UNCHANGED image, Rows \subseteq Rows',
           \A s \in Request \ {r} : request'[s] = request[s],
           request'[r] = Idle \/ (request'[r].op = "drop" /\ request'[r].asset \in Rows)
    PROVE  RowsStay'
<1>1. \A s \in Request : Moves(s)' \/ Does(s, "delete")' \/ Does(s, "pick")' =>
         request'[s].asset \in Rows'
  BY DEF RowsStay, Moves, Does, Idle
<1>2. \A s \in Request : Does(s, "copy")' => s # r
  BY DEF Does, Idle
<1>3. \A s \in Request : Does(s, "copy")' =>
         \A k \in {"cover", "og"} :
            request'[s].shows[k] # None => request'[s].shows[k].asset \in Rows'
  BY <1>2 DEF RowsStay, Does
<1>. QED BY <1>1, <1>3 DEF RowsStay

LEMMA RewritesTyped ==
    ASSUME TypeInv, NEW r \in Request, ReplaceRows(r) \/ DeleteMarks(r)
    PROVE  TypeInv'
<1>. USE DEF TypeInv
<1>1. CASE ReplaceRows(r)
  <2>1. TypeOK'
    BY <1>1, ReplaceRowsDoes DEF ReplaceRows, TypeOK, Present
  <2>2. RowsStay'
    <3>1. /\ Rows' = Rows /\ request[r].asset \in Rows
          /\ request'[r] = [op |-> "drop", asset |-> request[r].asset,
                            old |-> request[r].old, key |-> request[r].key]
          /\ \A s \in Request \ {r} : request'[s] = request[s]
      BY <1>1, ReplaceRowsDoes
    <3>2. request'[r].op = "drop" /\ request'[r].asset \in Rows
      BY <3>1
    <3>3. UNCHANGED image
      BY <1>1 DEF ReplaceRows
    <3>. QED BY <3>1, <3>2, <3>3, StayStep
  <2>. QED BY <2>1, <2>2
<1>2. CASE DeleteMarks(r)
  <2>1. TypeOK'
    BY <1>2, DeleteMarksDoes, FinishTyped DEF DeleteMarks, TypeOK, Present
  <2>2. RowsStay'
    BY <1>2, DeleteMarksDoes, FinishTyped, StayStep DEF DeleteMarks
  <2>. QED BY <2>1, <2>2
<1>. QED BY <1>1, <1>2

LEMMA ReadsTyped ==
    ASSUME TypeInv, NEW r \in Request, NEW m \in Asset,
           DeleteReads(r, m) \/ \E s \in Holder : PickReads(r, s, m)
    PROVE  TypeInv'
<1>. USE DEF TypeInv
<1>1. CASE DeleteReads(r, m)
  <2>. DEFINE q == [op |-> "delete", asset |-> m]
  <2>1. q \in Steps /\ Start(r, q)
    BY <1>1 DEF DeleteReads, Steps
  <2>2. m \in Rows
    BY <1>1 DEF DeleteReads, Live
  <2>3. TypeOK'
    BY <1>1, <2>1, StartTyped, QuietTyped DEF DeleteReads, TypeOK
  <2>4. RowsStay'
    BY <1>1, <2>1, <2>2, StartTyped DEF DeleteReads, RowsStay, Rows, Moves, Does
  <2>. QED BY <2>3, <2>4
<1>2. ASSUME NEW s \in Holder, PickReads(r, s, m)
      PROVE  TypeInv'
  <2>. DEFINE q == [op |-> "pick", holder |-> s, asset |-> m, key |-> asset[m].key]
  <2>1. m \in Rows
    BY <1>2 DEF PickReads, Live
  <2>2. q \in Steps /\ Start(r, q)
    BY <1>2, <2>1, RowsTyped DEF PickReads, Steps
  <2>3. spent' \in [objects : 0 .. MaxObjects, picks : 0 .. MaxPicks,
                    crashes : 0 .. MaxCrashes]
    BY <1>2, MediaAssumption DEF PickReads, TypeOK
  <2>4. TypeOK'
    BY <1>2, <2>2, <2>3, StartTyped, QuietTyped DEF PickReads, TypeOK
  <2>5. RowsStay'
    BY <1>2, <2>1, <2>2, StartTyped DEF PickReads, RowsStay, Rows, Moves, Does
  <2>. QED BY <2>4, <2>5
<1>. QED BY <1>1, <1>2

\* The index of one holder is written anew.
LEMMA SyncedTyped ==
    ASSUME TypeOK, NEW s \in Holder, NEW picture \in Image \cup {None}
    PROVE  Synced(s, picture) \subseteq Holder \X Asset
BY DEF TypeOK, Synced, Image

\* One holder's picture is written.
LEMMA PictureTyped ==
    ASSUME TypeOK, NEW s \in Holder, NEW picture \in Image \cup {None},
           Present(s), image' = [image EXCEPT ![s] = picture], UNCHANGED life
    PROVE  /\ image' \in [Holder -> Image \cup {None}]
           /\ \A u \in Holder : ~Present(u)' => image'[u] = None
           /\ image'[s] = picture
           /\ \A u \in Holder \ {s} : image'[u] = image[u]
BY DEF TypeOK, Present

LEMMA PickSavesTyped ==
    ASSUME TypeInv, NEW r \in Request, PickSaves(r)
    PROVE  TypeInv'
<1>. DEFINE h == request[r].holder
            picture == [asset |-> request[r].asset, key |-> request[r].key]
<1>. USE DEF TypeInv
<1>1. h \in Holder /\ picture \in Image
  BY Shapes DEF PickSaves, Image
<1>2. /\ Present(h) /\ Finish(r)
      /\ image' = [image EXCEPT ![h] = picture]
      /\ counted' = Synced(h, picture)
      /\ late' \subseteq late \cup {h}
      /\ UNCHANGED <<asset, objects, life, spent, excused>>
  BY DEF PickSaves, Timed
<1>3. request[r].asset \in Rows
  BY DEF PickSaves, RowsStay
<1>4. picture.asset = request[r].asset
  OBVIOUS
<1>. HIDE DEF h, picture
<1>5. counted' \subseteq Holder \X Asset
  BY <1>1, <1>2, SyncedTyped
<1>6. TypeOK'
  BY <1>1, <1>2, <1>5, PictureTyped, FinishTyped DEF TypeOK
<1>7. \A s \in Holder : image'[s] # None => image'[s].asset \in Rows
  BY <1>1, <1>2, <1>3, <1>4, PictureTyped DEF RowsStay
<1>8. RowsStay'
  BY <1>2, <1>7, FinishTyped DEF RowsStay, Rows, Moves, Does, Idle
<1>. QED BY <1>6, <1>8

LEMMA ClearTyped ==
    ASSUME TypeInv, NEW s \in Holder, Clear(s)
    PROVE  TypeInv'
<1>. USE DEF TypeInv
<1>1. counted' \subseteq Holder \X Asset
  BY SyncedTyped DEF Clear
<1>2. TypeOK'
  BY <1>1, PictureTyped DEF Clear, TypeOK, Timed
<1>3. \A u \in Holder : image'[u] # None => image'[u] = image[u]
  BY DEF Clear, TypeOK
<1>4. RowsStay'
  BY <1>3 DEF Clear, RowsStay, Rows, Moves, Does
<1>. QED BY <1>2, <1>4

\* An article comes, or goes to the trash and back.
LEMMA LifeTyped ==
    ASSUME TypeInv, NEW a \in Article, Create(a) \/ Trash(a)
    PROVE  TypeInv'
<1>. USE DEF TypeInv
<1>1. TypeOK'
  BY DEF Create, Trash, TypeOK, Present
<1>2. RowsStay'
  BY DEF Create, Trash, RowsStay, Rows, Moves, Does
<1>. QED BY <1>1, <1>2

LEMMA PurgeTyped ==
    ASSUME TypeInv, NEW a \in Article, Purge(a)
    PROVE  TypeInv'
<1>. USE DEF TypeInv
<1>1. /\ image' \in [Holder -> Image \cup {None}]
      /\ \A s \in Holder : image'[s] = IF s[1] = a THEN None ELSE image[s]
  BY DEF Purge, TypeOK
<1>2. life' \in [Article -> {"new", "kept", "trash", "purged"}]
  BY DEF Purge, TypeOK
<1>3. \A s \in Holder : ~Present(s)' => image'[s] = None
  BY <1>1 DEF Purge, TypeOK, Present
<1>4. TypeOK'
  BY <1>1, <1>2, <1>3 DEF Purge, TypeOK, Timed
<1>5. RowsStay'
  BY <1>1 DEF Purge, RowsStay, Rows, Moves, Does
<1>. QED BY <1>4, <1>5

LEMMA CopyReadsTyped ==
    ASSUME TypeInv, NEW r \in Request, NEW a \in Article, NEW b \in Article,
           CopyReads(r, a, b)
    PROVE  TypeInv'
<1>. DEFINE shows == [k \in {"cover", "og"} |-> image[<<a, k>>]]
            q == [op |-> "copy", to |-> b, shows |-> shows]
<1>. USE DEF TypeInv
<1>1. shows \in [{"cover", "og"} -> Image \cup {None}]
  BY Holders DEF TypeOK
<1>2. q \in Steps /\ Start(r, q) /\ q.op = "copy" /\ q.shows = shows
  BY <1>1 DEF CopyReads, Steps
<1>3. \A k \in {"cover", "og"} : shows[k] # None => shows[k].asset \in Rows
  BY Holders DEF RowsStay
<1>. HIDE DEF shows, q
<1>4. TypeOK'
  BY <1>2, StartTyped, QuietTyped DEF CopyReads, TypeOK
<1>5. RowsStay'
  BY <1>2, <1>3, StartTyped DEF CopyReads, RowsStay, Rows, Moves, Does
<1>. QED BY <1>4, <1>5

\* What a copy writes.
LEMMA CopySavesDoes ==
    ASSUME TypeInv, NEW r \in Request, CopySaves(r)
    PROVE  LET b == request[r].to
               shows == request[r].shows
           IN
           /\ b \in Article /\ life[b] = "new"
           /\ shows \in [{"cover", "og"} -> Image \cup {None}]
           /\ \A s \in Holder : s[1] = b =>
                 /\ s[2] \in {"cover", "og"} /\ s = <<b, s[2]>>
                 /\ image'[s] = shows[s[2]]
                 /\ image'[s] # None =>
                       /\ <<s, image'[s].asset>> \in counted'
                       /\ Going(image'[s].asset) => s \in late'
           /\ \A s \in Holder : s[1] # b => image'[s] = image[s]
           /\ image' \in [Holder -> Image \cup {None}]
           /\ counted \subseteq counted' /\ counted' \subseteq Holder \X Asset
           /\ late \subseteq late' /\ late' \subseteq Holder
<1>. DEFINE b == request[r].to
            shows == request[r].shows
            kinds == {k \in {"cover", "og"} : shows[k] # None}
<1>. USE DEF TypeInv
<1>1. b \in Article /\ shows \in [{"cover", "og"} -> Image \cup {None}]
  BY Shapes DEF CopySaves
<1>2. /\ life[b] = "new"
      /\ image' = [s \in Holder |-> IF s[1] = b THEN shows[s[2]] ELSE image[s]]
      /\ counted' = counted \cup {<<<<b, k>>, shows[k].asset>> : k \in kinds}
      /\ late' = late \cup {<<b, k>> : k \in {j \in kinds : Going(shows[j].asset)}}
  BY DEF CopySaves
<1>. HIDE DEF b, shows
<1>3. \A s \in Holder : s[1] = b =>
         s[2] \in {"cover", "og"} /\ s = <<b, s[2]>> /\ image'[s] = shows[s[2]]
  BY <1>1, <1>2, Holders
<1>4. \A s \in Holder : s[1] # b => image'[s] = image[s]
  BY <1>2
<1>5. image' \in [Holder -> Image \cup {None}]
  BY <1>1, <1>2, <1>3 DEF TypeOK
<1>6. \A k \in kinds : shows[k].asset \in Asset /\ <<b, k>> \in Holder
  <2>1. \A k \in kinds : shows[k] \in Image
    BY <1>1
  <2>2. \A k \in kinds : shows[k].asset \in Asset
    BY <2>1 DEF Image
  <2>. QED BY <1>1, <2>2, Holders
<1>7. /\ counted \subseteq counted' /\ counted' \subseteq Holder \X Asset
      /\ late \subseteq late' /\ late' \subseteq Holder
  BY <1>2, <1>6 DEF TypeOK
<1>8. \A s \in Holder : s[1] = b /\ image'[s] # None =>
         /\ <<s, image'[s].asset>> \in counted'
         /\ Going(image'[s].asset) => s \in late'
  BY <1>2, <1>3
<1>. QED BY <1>1, <1>2, <1>3, <1>4, <1>5, <1>7, <1>8 DEF b, shows

LEMMA CopySavesTyped ==
    ASSUME TypeInv, NEW r \in Request, CopySaves(r)
    PROVE  TypeInv'
<1>. DEFINE b == request[r].to
            shows == request[r].shows
<1>. USE DEF TypeInv
<1>1. /\ life' = [life EXCEPT ![b] = "kept"] /\ Finish(r)
      /\ UNCHANGED <<asset, objects, spent, excused>>
  BY DEF CopySaves
<1>2. \A s \in Holder : ~Present(s)' => image'[s] = None
  BY <1>1, CopySavesDoes DEF Present, TypeOK
<1>3. TypeOK'
  BY <1>1, <1>2, CopySavesDoes, FinishTyped DEF TypeOK
<1>4. \A s \in Holder : image'[s] # None => image'[s].asset \in Rows
  BY CopySavesDoes DEF RowsStay, CopySaves
<1>5. RowsStay'
  BY <1>1, <1>4, FinishTyped DEF RowsStay, Rows, Moves, Does, Idle
<1>. QED BY <1>3, <1>5

\* A request ends and leaves the pictures alone.
LEMMA EndsTyped ==
    ASSUME TypeInv, NEW r \in Request, ReplaceDrops(r) \/ PickFails(r) \/ Crash(r)
    PROVE  TypeInv'
<1>. USE DEF TypeInv
<1>1. Finish(r) /\ UNCHANGED <<asset, image, counted, life, late>>
  BY DEF ReplaceDrops, PickFails, Crash
<1>2. objects' \subseteq Key
  BY DEF ReplaceDrops, PickFails, Crash, TypeOK
<1>3. spent' \in [objects : 0 .. MaxObjects, picks : 0 .. MaxPicks,
                  crashes : 0 .. MaxCrashes]
  BY MediaAssumption DEF ReplaceDrops, PickFails, Crash, TypeOK
<1>4. excused' \subseteq Key
  <2>1. CASE Crash(r)
    <3>1. /\ Does(r, "upload") => request[r].key \in Key
          /\ Moves(r) => request[r].key \in Key /\ request[r].old \in Key
      BY Shapes
    <3>. QED BY <2>1, <3>1 DEF Crash, TypeOK, Does, Moves
  <2>. QED BY <2>1 DEF ReplaceDrops, PickFails, TypeOK
<1>5. TypeOK'
  BY <1>1, <1>2, <1>3, <1>4, FinishTyped, QuietTyped DEF TypeOK
<1>6. RowsStay'
  BY <1>1, FinishTyped DEF RowsStay, Rows, Moves, Does, Idle
<1>. QED BY <1>5, <1>6

LEMMA TypeStep == TypeInv /\ [Next]_vars => TypeInv'
<1>. SUFFICES ASSUME TypeInv, [Next]_vars PROVE TypeInv'
  OBVIOUS
<1>1. ASSUME NEW r \in Request, Library(r) PROVE TypeInv'
  BY <1>1, StorePutsTyped, StoreRowsTyped, ReplacePutsTyped, ReadsTyped,
     RewritesTyped, EndsTyped DEF Library
<1>2. ASSUME NEW r \in Request, Desk(r) PROVE TypeInv'
  BY <1>2, ReadsTyped, PickSavesTyped, EndsTyped, CopyReadsTyped, CopySavesTyped DEF Desk
<1>3. ASSUME NEW r \in Request, Crash(r) PROVE TypeInv'
  BY <1>3, EndsTyped
<1>4. ASSUME NEW s \in Holder, Clear(s) PROVE TypeInv'
  BY <1>4, ClearTyped
<1>5. ASSUME NEW a \in Article, Keep(a) PROVE TypeInv'
  BY <1>5, LifeTyped, PurgeTyped DEF Keep
<1>6. CASE UNCHANGED vars
  BY <1>6 DEF vars, TypeInv, TypeOK, RowsStay, Rows, Present, Moves, Does
<1>. QED BY <1>1, <1>2, <1>3, <1>4, <1>5, <1>6 DEF Next

LEMMA Typed == Spec => []TypeInv
BY TypeInit, TypeStep, PTL DEF Spec

\* Every variable of the library keeps its type, and an article that is not
\* there shows nothing (purgeContent clears what it removes).
THEOREM Typing == Spec => []TypeOK
BY Typed, PTL DEF TypeInv

-----------------------------------------------------------------------------
(* Keys: what rows name is stored.                                         *)

LEMMA KeyInit == Init => KeyInv
<1>. SUFFICES ASSUME Init PROVE KeyInv
  OBVIOUS
<1>1. Rows = {} /\ Named = {} /\ objects = {}
  BY DEF Init, Rows, Named
<1>2. \A r \in Request : request[r].op = "idle"
  BY DEF Init, Idle
<1>. QED BY <1>1, <1>2 DEF KeyInv, Issued, Fresh, OneRowEach, OldIsOwn, Unnamed,
                           RowIsStored, Puts, Moves, Does

\* Steps that leave objects and keys alone.
LEMMA KeyQuiet ==
    ASSUME KeyInv, Rows' = Rows, \A m \in Rows : asset'[m].key = asset[m].key,
           UNCHANGED objects, spent'.objects = spent.objects,
           \A s \in Request : request'[s] = request[s] \/ (~Puts(s)' /\ ~Moves(s)')
    PROVE  KeyInv'
<1>1. Named' = Named
  BY DEF Named
<1>2. \A s \in Request :
         /\ Puts(s)' => Puts(s) /\ request'[s] = request[s]
         /\ Moves(s)' => Moves(s) /\ request'[s] = request[s]
         /\ Does(s, "replace")' => Does(s, "replace") /\ request'[s] = request[s]
         /\ Does(s, "drop")' => Does(s, "drop") /\ request'[s] = request[s]
  BY DEF Puts, Moves, Does
<1>3. Issued'
  BY <1>1, <1>2 DEF KeyInv, Issued
<1>4. Fresh'
  BY <1>1, <1>2 DEF KeyInv, Fresh
<1>5. OneRowEach'
  BY DEF KeyInv, OneRowEach
<1>6. OldIsOwn'
  BY <1>2 DEF KeyInv, OldIsOwn
<1>7. Unnamed'
  BY <1>1, <1>2 DEF KeyInv, Unnamed
<1>8. RowIsStored'
  BY <1>1 DEF KeyInv, RowIsStored
<1>. QED BY <1>3, <1>4, <1>5, <1>6, <1>7, <1>8 DEF KeyInv

\* A request that begins with an object put under the next key; a replace also
\* holds the key of the row it read.
LEMMA KeyPuts ==
    ASSUME TypeInv, KeyInv, NEW r \in Request, PutsObject, UNCHANGED asset,
           request[r] = Idle, Puts(r)', request'[r].key = NextKey,
           \A s \in Request \ {r} : request'[s] = request[s],
           Moves(r)' => /\ Does(r, "replace")'
                        /\ request'[r].asset \in Rows
                        /\ request'[r].old = asset[request'[r].asset].key
    PROVE  KeyInv'
<1>. USE DEF TypeInv
<1>1. Rows' = Rows /\ Named' = Named
  BY DEF Rows, Named
<1>2. /\ NextKey \in Key /\ NextKey \in Nat /\ NextKey = spent.objects + 1
      /\ spent.objects \in Nat /\ spent'.objects = spent.objects + 1
      /\ objects' = objects \cup {NextKey}
  BY PutsTyped DEF NextKey, Key
<1>3. \A k \in objects \cup Named : k \in Nat /\ k <= spent.objects
  <2>1. objects \cup Named \subseteq Key
    BY RowsTyped DEF TypeOK, Named
  <2>. QED BY <2>1 DEF KeyInv, Issued, Key
<1>4. \A s \in Request :
         /\ Puts(s) => request[s].key \in Nat /\ request[s].key <= spent.objects
         /\ Moves(s) => request[s].old \in Nat /\ request[s].old <= spent.objects
  <2>1. \A s \in Request : (Puts(s) => request[s].key \in Key)
                           /\ (Moves(s) => request[s].old \in Key)
    BY Shapes DEF Puts, Moves, Does
  <2>. QED BY <2>1 DEF KeyInv, Issued, Key
<1>5. NextKey \notin objects \cup Named
  BY <1>2, <1>3
<1>6. \A s \in Request \ {r} :
         /\ Puts(s)' <=> Puts(s)
         /\ Moves(s)' <=> Moves(s)
         /\ Does(s, "replace")' <=> Does(s, "replace")
         /\ Does(s, "drop")' <=> Does(s, "drop")
  BY DEF Puts, Moves, Does
<1>7. \A s \in Request \ {r} :
         /\ Puts(s) => request[s].key # NextKey
         /\ Moves(s) => request[s].old # NextKey
  BY <1>2, <1>4
<1>8. Moves(r)' => request'[r].old \in Named /\ request'[r].asset \in Rows
                   /\ request'[r].old = asset[request'[r].asset].key
  BY DEF Named
<1>9. Issued'
  <2>1. \A k \in (objects \cup Named)' : k <= spent'.objects
    BY <1>1, <1>2, <1>3
  <2>2. \A s \in Request \ {r} : /\ Puts(s)' => request'[s].key <= spent'.objects
                                 /\ Moves(s)' => request'[s].old <= spent'.objects
    BY <1>2, <1>4, <1>6
  <2>3. /\ Puts(r)' => request'[r].key <= spent'.objects
        /\ Moves(r)' => request'[r].old <= spent'.objects
    BY <1>2, <1>3, <1>8
  <2>. QED BY <2>1, <2>2, <2>3 DEF Issued
<1>10. Fresh'
  <2>1. ASSUME NEW p \in Request, Puts(p)'
        PROVE  /\ request'[p].key \in objects' \ Named'
               /\ \A s \in Request : Moves(s)' => request'[s].old # request'[p].key
               /\ \A s \in Request \ {p} : Puts(s)' => request'[s].key # request'[p].key
    <3>1. CASE p = r
      BY <3>1, <1>1, <1>2, <1>5, <1>6, <1>7, <1>8
    <3>2. CASE p # r
      <4>1. /\ Puts(p) /\ request'[p] = request[p]
            /\ request[p].key \in objects \ Named
        BY <3>2, <2>1, <1>6 DEF KeyInv, Fresh
      <4>2. \A s \in Request \ {r} : Moves(s)' => request'[s].old # request[p].key
        BY <4>1, <1>6 DEF KeyInv, Fresh
      <4>3. \A s \in Request \ {p} : Puts(s)' => request'[s].key # request[p].key
        BY <4>1, <1>6, <1>7, <3>2 DEF KeyInv, Fresh
      <4>. QED BY <4>1, <4>2, <4>3, <1>1, <1>2, <1>8
    <3>. QED BY <3>1, <3>2
  <2>. QED BY <2>1 DEF Fresh
<1>11. OneRowEach' /\ RowIsStored'
  BY <1>1, <1>2 DEF KeyInv, OneRowEach, RowIsStored
<1>12. OldIsOwn'
  <2>1. ASSUME NEW p \in Request, Does(p, "replace")', NEW n \in Rows,
               asset'[n].key = request'[p].old
        PROVE  n = request'[p].asset
    <3>1. CASE p = r
      <4>1. Moves(r)'
        BY <3>1, <2>1 DEF Moves, Does
      <4>. QED BY <3>1, <2>1, <4>1, <1>8 DEF KeyInv, OneRowEach
    <3>2. CASE p # r
      BY <3>2, <2>1, <1>6 DEF KeyInv, OldIsOwn
    <3>. QED BY <3>1, <3>2
  <2>. QED BY <2>1, <1>1 DEF OldIsOwn
<1>13. Unnamed'
  <2>1. ~Does(r, "drop")'
    BY DEF Puts, Does
  <2>. QED BY <2>1, <1>1, <1>6 DEF KeyInv, Unnamed
<1>. QED BY <1>9, <1>10, <1>11, <1>12, <1>13 DEF KeyInv

\* A key that was put becomes a row's.
LEMMA KeyStoreRows ==
    ASSUME TypeInv, KeyInv, NEW r \in Request, NEW m \in Asset, StoreRows(r, m)
    PROVE  KeyInv'
<1>. DEFINE key == request[r].key
<1>. USE DEF TypeInv
<1>1. /\ Puts(r) /\ key \in Key
      /\ key \in objects \ Named
      /\ \A s \in Request : Moves(s) => request[s].old # key
      /\ \A s \in Request \ {r} : Puts(s) => request[s].key # key
      /\ key <= spent.objects
  <2>1. Puts(r) /\ key \in Key
    BY Shapes DEF StoreRows, Puts, Does
  <2>. QED BY <2>1 DEF KeyInv, Issued, Fresh
<1>2. /\ Rows' = Rows \cup {m} /\ m \notin Rows
      /\ asset'[m].key = key
      /\ \A n \in Rows : asset'[n] = asset[n]
  <2>1. [key |-> key, deleted |-> FALSE] \in Row
    BY <1>1 DEF Row
  <2>. QED BY <2>1, MediaAssumption DEF StoreRows, TypeOK, Rows
<1>3. Named' = Named \cup {key}
  BY <1>2 DEF Named
<1>4. UNCHANGED <<objects, spent>>
  BY DEF StoreRows
<1>5. \A s \in Request :
         /\ Puts(s)' => Puts(s) /\ s # r /\ request'[s] = request[s]
         /\ Moves(s)' => Moves(s) /\ s # r /\ request'[s] = request[s]
         /\ Does(s, "replace")' => Does(s, "replace") /\ s # r /\ request'[s] = request[s]
         /\ Does(s, "drop")' => Does(s, "drop") /\ s # r /\ request'[s] = request[s]
  BY FinishTyped DEF StoreRows, Puts, Moves, Does, Idle
<1>. HIDE DEF key
<1>6. Issued'
  BY <1>1, <1>3, <1>4, <1>5 DEF KeyInv, Issued
<1>7. Fresh'
  BY <1>1, <1>3, <1>4, <1>5 DEF KeyInv, Fresh
<1>8. OneRowEach'
  <2>1. \A n \in Rows : asset[n].key # key
    BY <1>1 DEF Named
  <2>. QED BY <1>2, <2>1 DEF KeyInv, OneRowEach
<1>9. OldIsOwn'
  <2>1. \A s \in Request : Does(s, "replace") => Moves(s)
    BY DEF Does, Moves
  <2>. QED BY <1>1, <1>2, <1>5, <2>1 DEF KeyInv, OldIsOwn
<1>10. Unnamed'
  <2>1. \A s \in Request : Does(s, "drop") => Moves(s)
    BY DEF Does, Moves
  <2>. QED BY <1>1, <1>3, <1>5, <2>1 DEF KeyInv, Unnamed
<1>11. RowIsStored'
  BY <1>1, <1>3, <1>4 DEF KeyInv, RowIsStored
<1>. QED BY <1>6, <1>7, <1>8, <1>9, <1>10, <1>11 DEF KeyInv

\* The row moves to the new key, and nothing names the old one any more.
LEMMA KeyReplaceRows ==
    ASSUME TypeInv, KeyInv, NEW r \in Request, ReplaceRows(r)
    PROVE  KeyInv'
<1>. DEFINE q == request[r]
<1>1. /\ Puts(r) /\ Moves(r) /\ Does(r, "replace")
      /\ UNCHANGED <<objects, spent>>
  BY DEF ReplaceRows, Puts, Moves, Does
<1>2. /\ q.asset \in Rows /\ Rows' = Rows
      /\ asset'[q.asset].key = q.key
      /\ \A n \in Rows \ {q.asset} : asset'[n].key = asset[n].key
      /\ request'[r] = [op |-> "drop", asset |-> q.asset, old |-> q.old, key |-> q.key]
      /\ \A s \in Request \ {r} : request'[s] = request[s]
  BY ReplaceRowsDoes
<1>3. ~Puts(r)' /\ ~Does(r, "replace")' /\ request'[r].old = q.old
  BY <1>2 DEF Puts, Does
<1>4. \A s \in Request :
         /\ Puts(s)' => Puts(s) /\ s # r /\ request'[s] = request[s]
         /\ Moves(s)' => Moves(s) /\ request'[s].old = request[s].old
         /\ Does(s, "replace")' => Does(s, "replace") /\ s # r /\ request'[s] = request[s]
         /\ Does(s, "drop")' => s = r \/ (Does(s, "drop") /\ request'[s] = request[s])
  BY <1>1, <1>2, <1>3 DEF Puts, Moves, Does
<1>5. /\ q.key \in objects \ Named
      /\ \A s \in Request : Moves(s) => request[s].old # q.key
      /\ \A s \in Request \ {r} : Puts(s) => request[s].key # q.key
      /\ q.key <= spent.objects
  BY <1>1 DEF KeyInv, Issued, Fresh
<1>. HIDE DEF q
<1>6. Named' \subseteq Named \cup {q.key}
  BY <1>2 DEF Named
<1>7. Issued'
  BY <1>1, <1>4, <1>5, <1>6 DEF KeyInv, Issued
<1>8. Fresh'
  BY <1>1, <1>4, <1>5, <1>6 DEF KeyInv, Fresh
<1>9. OneRowEach'
  <2>1. \A n \in Rows : asset[n].key # q.key
    BY <1>5 DEF Named
  <2>. QED BY <1>2, <2>1 DEF KeyInv, OneRowEach
<1>10. OldIsOwn'
  <2>1. \A s \in Request : Does(s, "replace") => Moves(s)
    BY DEF Does, Moves
  <2>. QED BY <1>2, <1>4, <1>5, <2>1 DEF KeyInv, OldIsOwn
<1>11. Unnamed'
  <2>1. q.old \notin Named'
    <3>1. \A n \in Rows : asset[n].key = q.old => n = q.asset
      BY <1>1 DEF KeyInv, OldIsOwn, q
    <3>2. q.old # q.key
      BY <1>1, <1>5 DEF q
    <3>. QED BY <1>2, <3>1, <3>2 DEF Named
  <2>2. \A s \in Request : Does(s, "drop") => Moves(s)
    BY DEF Does, Moves
  <2>. QED BY <1>3, <1>4, <1>5, <1>6, <2>1, <2>2 DEF KeyInv, Unnamed
<1>12. RowIsStored'
  BY <1>1, <1>5, <1>6 DEF KeyInv, RowIsStored
<1>. QED BY <1>7, <1>8, <1>9, <1>10, <1>11, <1>12 DEF KeyInv

\* The old object goes: no row names it, and no other request put it.
LEMMA KeyReplaceDrops ==
    ASSUME TypeInv, KeyInv, NEW r \in Request, ReplaceDrops(r)
    PROVE  KeyInv'
<1>. DEFINE old == request[r].old
<1>1. /\ UNCHANGED <<asset, spent>> /\ objects' = objects \ {old}
      /\ Moves(r) /\ Does(r, "drop")
  BY DEF ReplaceDrops, Moves, Does
<1>2. Rows' = Rows /\ Named' = Named
  BY <1>1 DEF Rows, Named
<1>3. old \notin Named /\ \A s \in Request : Puts(s) => request[s].key # old
  BY <1>1 DEF KeyInv, Unnamed, Fresh
<1>4. \A s \in Request :
         /\ Puts(s)' => Puts(s) /\ request'[s] = request[s]
         /\ Moves(s)' => Moves(s) /\ request'[s] = request[s]
         /\ Does(s, "replace")' => Does(s, "replace") /\ request'[s] = request[s]
         /\ Does(s, "drop")' => Does(s, "drop") /\ request'[s] = request[s]
  BY FinishTyped DEF ReplaceDrops, TypeInv, Puts, Moves, Does, Idle
<1>. HIDE DEF old
<1>5. Issued'
  BY <1>1, <1>2, <1>4 DEF KeyInv, Issued
<1>6. Fresh'
  BY <1>1, <1>2, <1>3, <1>4 DEF KeyInv, Fresh
<1>7. OneRowEach'
  BY <1>1, <1>2 DEF KeyInv, OneRowEach
<1>8. OldIsOwn'
  BY <1>1, <1>2, <1>4 DEF KeyInv, OldIsOwn
<1>9. Unnamed'
  BY <1>2, <1>4 DEF KeyInv, Unnamed
<1>10. RowIsStored'
  BY <1>1, <1>2, <1>3 DEF KeyInv, RowIsStored
<1>. QED BY <1>5, <1>6, <1>7, <1>8, <1>9, <1>10 DEF KeyInv

\* The steps that put, name or drop no object.
Plain ==
    \/ \E r \in Request, m \in Asset : DeleteReads(r, m)
    \/ \E r \in Request : DeleteMarks(r) \/ PickSaves(r) \/ PickFails(r) \/ CopySaves(r)
    \/ \E r \in Request, s \in Holder, m \in Asset : PickReads(r, s, m)
    \/ \E r \in Request, a, b \in Article : CopyReads(r, a, b)
    \/ \E s \in Holder : Clear(s)
    \/ \E a \in Article : Keep(a)
    \/ UNCHANGED vars

LEMMA PlainDoes ==
    ASSUME TypeInv, Plain
    PROVE  /\ Rows' = Rows
           /\ \A m \in Rows : asset'[m].key = asset[m].key
           /\ UNCHANGED <<objects, excused>>
           /\ spent'.objects = spent.objects
           /\ \A s \in Request :
                 \/ request'[s] = request[s]
                 \/ ~Puts(s) /\ ~Moves(s) /\ ~Puts(s)' /\ ~Moves(s)'
<1>. USE DEF TypeInv
<1>1. ASSUME NEW r \in Request, NEW m \in Asset, DeleteReads(r, m)
      PROVE  /\ UNCHANGED <<asset, objects, excused, spent>>
             /\ \A s \in Request :
                   \/ request'[s] = request[s]
                   \/ ~Puts(s) /\ ~Moves(s) /\ ~Puts(s)' /\ ~Moves(s)'
  BY <1>1 DEF DeleteReads, Start, TypeOK, Puts, Moves, Idle
<1>2. ASSUME NEW r \in Request, DeleteMarks(r)
      PROVE  /\ Rows' = Rows
             /\ \A m \in Rows : asset'[m].key = asset[m].key
             /\ UNCHANGED <<objects, excused, spent>>
             /\ \A s \in Request :
                   \/ request'[s] = request[s]
                   \/ ~Puts(s) /\ ~Moves(s) /\ ~Puts(s)' /\ ~Moves(s)'
  <2>1. \A m \in Rows : asset'[m].key = asset[m].key
    BY <1>2, DeleteMarksDoes
  <2>2. /\ UNCHANGED <<objects, excused, spent>> /\ Finish(r) /\ Does(r, "delete")
    BY <1>2 DEF DeleteMarks
  <2>3. \A s \in Request :
           request'[s] = request[s] \/ (~Puts(s) /\ ~Moves(s) /\ ~Puts(s)' /\ ~Moves(s)')
    BY <2>2, FinishTyped DEF Does, Puts, Moves, Idle
  <2>4. Rows' = Rows
    BY <1>2, DeleteMarksDoes
  <2>. QED BY <2>1, <2>2, <2>3, <2>4
<1>3. ASSUME NEW r \in Request, PickSaves(r) \/ PickFails(r) \/ CopySaves(r)
      PROVE  /\ UNCHANGED <<asset, objects, excused, spent>>
             /\ \A s \in Request :
                   \/ request'[s] = request[s]
                   \/ ~Puts(s) /\ ~Moves(s) /\ ~Puts(s)' /\ ~Moves(s)'
  <2>1. /\ UNCHANGED <<asset, objects, excused, spent>>
        /\ Finish(r) /\ (Does(r, "pick") \/ Does(r, "copy"))
    BY <1>3 DEF PickSaves, PickFails, CopySaves
  <2>. QED BY <2>1, FinishTyped DEF Does, Puts, Moves, Idle
<1>4. ASSUME NEW r \in Request, NEW h \in Holder, NEW m \in Asset, PickReads(r, h, m)
      PROVE  /\ UNCHANGED <<asset, objects, excused>>
             /\ spent'.objects = spent.objects
             /\ \A s \in Request :
                   \/ request'[s] = request[s]
                   \/ ~Puts(s) /\ ~Moves(s) /\ ~Puts(s)' /\ ~Moves(s)'
  BY <1>4 DEF PickReads, Start, TypeOK, Puts, Moves, Idle
<1>5. ASSUME NEW r \in Request, NEW a \in Article, NEW b \in Article, CopyReads(r, a, b)
      PROVE  /\ UNCHANGED <<asset, objects, excused, spent>>
             /\ \A s \in Request :
                   \/ request'[s] = request[s]
                   \/ ~Puts(s) /\ ~Moves(s) /\ ~Puts(s)' /\ ~Moves(s)'
  BY <1>5 DEF CopyReads, Start, TypeOK, Puts, Moves, Idle
<1>6. ASSUME \/ \E s \in Holder : Clear(s)
             \/ \E a \in Article : Keep(a)
             \/ UNCHANGED vars
      PROVE  UNCHANGED <<asset, objects, excused, spent, request>>
  BY <1>6 DEF Clear, Keep, Create, Trash, Purge, vars
<1>7. UNCHANGED asset => Rows' = Rows /\ \A m \in Rows : asset'[m].key = asset[m].key
  BY DEF Rows
<1>. QED BY <1>1, <1>2, <1>3, <1>4, <1>5, <1>6, <1>7 DEF Plain

LEMMA OtherSteps ==
    ASSUME [Next]_vars
    PROVE  \/ Plain
           \/ \E r \in Request : StorePuts(r) \/ ReplaceRows(r) \/ ReplaceDrops(r) \/ Crash(r)
           \/ \E r \in Request, m \in Asset : StoreRows(r, m) \/ ReplacePuts(r, m)
BY DEF Next, Library, Desk, Plain

LEMMA StorePutsDoes ==
    ASSUME TypeInv, NEW r \in Request, StorePuts(r)
    PROVE  /\ PutsObject /\ UNCHANGED <<asset, excused>>
           /\ request[r] = Idle
           /\ request'[r] = [op |-> "upload", key |-> NextKey]
           /\ \A s \in Request \ {r} : request'[s] = request[s]
BY DEF StorePuts, Start, TypeInv, TypeOK

LEMMA ReplacePutsDoes ==
    ASSUME TypeInv, NEW r \in Request, NEW m \in Asset, ReplacePuts(r, m)
    PROVE  /\ PutsObject /\ UNCHANGED asset
           /\ m \in Rows
           /\ request[r] = Idle
           /\ request'[r] = [op |-> "replace", asset |-> m, old |-> asset[m].key,
                             key |-> NextKey]
           /\ \A s \in Request \ {r} : request'[s] = request[s]
BY DEF ReplacePuts, Start, Live, TypeInv, TypeOK

LEMMA CrashDoes ==
    ASSUME TypeInv, NEW r \in Request, Crash(r)
    PROVE  /\ UNCHANGED <<asset, objects>>
           /\ spent'.objects = spent.objects
           /\ request'[r] = Idle
           /\ \A s \in Request \ {r} : request'[s] = request[s]
           /\ excused \subseteq excused'
           /\ Puts(r) => request[r].key \in excused'
           /\ Moves(r) => request[r].old \in excused'
<1>1. /\ UNCHANGED <<asset, objects>>
      /\ spent'.objects = spent.objects
  BY DEF Crash, TypeInv, TypeOK
<1>2. /\ request'[r] = Idle
      /\ \A s \in Request \ {r} : request'[s] = request[s]
  BY FinishTyped DEF Crash, TypeInv
<1>3. /\ excused \subseteq excused'
      /\ Puts(r) => request[r].key \in excused'
      /\ Moves(r) => request[r].old \in excused'
  BY DEF Crash, Puts, Moves
<1>. QED BY <1>1, <1>2, <1>3

LEMMA KeyStep == TypeInv /\ KeyInv /\ [Next]_vars => KeyInv'
<1>. SUFFICES ASSUME TypeInv, KeyInv, [Next]_vars PROVE KeyInv'
  OBVIOUS
<1>1. CASE Plain
  BY <1>1, PlainDoes, KeyQuiet
<1>2. ASSUME NEW r \in Request, StorePuts(r) PROVE KeyInv'
  <2>1. Puts(r)' /\ ~Moves(r)' /\ request'[r].key = NextKey
    BY <1>2, StorePutsDoes DEF Puts, Moves
  <2>2. /\ PutsObject /\ UNCHANGED asset
        /\ request[r] = Idle
        /\ \A s \in Request \ {r} : request'[s] = request[s]
    BY <1>2, StorePutsDoes
  <2>. QED BY <2>1, <2>2, KeyPuts
<1>3. ASSUME NEW r \in Request, NEW m \in Asset, ReplacePuts(r, m) PROVE KeyInv'
  <2>1. /\ Puts(r)' /\ Does(r, "replace")' /\ request'[r].key = NextKey
        /\ request'[r].asset = m /\ request'[r].old = asset[m].key
    <3>1. request'[r] = [op |-> "replace", asset |-> m, old |-> asset[m].key,
                         key |-> NextKey]
      BY <1>3, ReplacePutsDoes
    <3>. QED BY <3>1 DEF Puts, Does
  <2>2. /\ PutsObject /\ UNCHANGED asset /\ m \in Rows
        /\ request[r] = Idle
        /\ \A s \in Request \ {r} : request'[s] = request[s]
    BY <1>3, ReplacePutsDoes
  <2>. QED BY <2>1, <2>2, KeyPuts
<1>4. ASSUME NEW r \in Request, NEW m \in Asset, StoreRows(r, m) PROVE KeyInv'
  BY <1>4, KeyStoreRows
<1>5. ASSUME NEW r \in Request, ReplaceRows(r) PROVE KeyInv'
  BY <1>5, KeyReplaceRows
<1>6. ASSUME NEW r \in Request, ReplaceDrops(r) PROVE KeyInv'
  BY <1>6, KeyReplaceDrops
<1>7. ASSUME NEW r \in Request, Crash(r) PROVE KeyInv'
  <2>1. ~Puts(r)' /\ ~Moves(r)'
    BY <1>7, CrashDoes DEF Puts, Moves, Idle
  <2>2. Rows' = Rows /\ \A m \in Rows : asset'[m].key = asset[m].key
    BY <1>7, CrashDoes DEF Rows
  <2>. QED BY <1>7, <2>1, <2>2, CrashDoes, KeyQuiet
<1>. QED BY <1>1, <1>2, <1>3, <1>4, <1>5, <1>6, <1>7, OtherSteps

LEMMA Keys == Spec => []KeyInv
BY Typed, KeyInit, KeyStep, PTL DEF Spec

\* Every row names an object that is in the storage, whatever replaces cross or
\* die: replaceMedia removes the old object only after the row has moved.
THEOREM StoredAlways == Spec => []RowIsStored
BY Keys, PTL DEF KeyInv

-----------------------------------------------------------------------------
(* Keys: what no row names is in somebody's hands, or excused.             *)

\* Who is still to name, or to drop, the object k.
Owns(r, k) ==
    \/ Puts(r) /\ request[r].key = k
    \/ Does(r, "drop") /\ request[r].old = k

LEMMA LeaksOwned ==
    NothingLeaks <=> \A k \in (objects \ Named) \ excused : \E r \in Request : Owns(r, k)
BY DEF NothingLeaks, Owns, Puts, Does

LEMMA LeakInit == Init => LeakInv
BY DEF Init, LeakInv, Crossed, NothingLeaks, Does, Idle

\* Steps that leave objects and keys alone, and whose request, if it ends, has
\* its keys excused.
LEMMA LeakQuiet ==
    ASSUME TypeInv, LeakInv, Rows' = Rows, \A m \in Rows : asset'[m].key = asset[m].key,
           UNCHANGED objects, excused \subseteq excused',
           \A s \in Request :
              \/ request'[s] = request[s]
              \/ /\ ~Puts(s)' /\ ~Moves(s)'
                 /\ Puts(s) => request[s].key \in excused'
                 /\ Moves(s) => request[s].old \in excused'
    PROVE  LeakInv'
<1>1. Named' = Named
  BY DEF Named
<1>2. \A s \in Request : Does(s, "replace")' => Does(s, "replace") /\ request'[s] = request[s]
  BY DEF Does, Puts
<1>3. Crossed'
  <2>1. \A s \in Request : Does(s, "replace") => request[s].asset \in Rows
    BY DEF TypeInv, RowsStay, Moves, Does
  <2>. QED BY <1>2, <2>1 DEF LeakInv, Crossed
<1>4. \A s \in Request, k \in objects : Owns(s, k) => Owns(s, k)' \/ k \in excused'
  BY DEF Owns, Puts, Moves, Does
<1>5. \A k \in (objects' \ Named') \ excused' : \E r \in Request : Owns(r, k)'
  BY <1>1, <1>4, LeaksOwned DEF LeakInv
<1>6. NothingLeaks'
  BY <1>5 DEF NothingLeaks, Owns, Puts, Does
<1>. QED BY <1>3, <1>6 DEF LeakInv

\* A request that begins with an object put under the next key: it owns it.  A
\* replace excuses its key and that of every other replace of its row.
LEMMA LeakPuts ==
    ASSUME TypeInv, KeyInv, LeakInv, NEW r \in Request, PutsObject, UNCHANGED asset,
           request[r] = Idle, Puts(r)', request'[r].key = NextKey,
           \A s \in Request \ {r} : request'[s] = request[s],
           excused \subseteq excused',
           Does(r, "replace")' =>
               /\ asset[request'[r].asset].key = request'[r].old
               /\ \A s \in Request \ {r} :
                     Does(s, "replace") /\ request[s].asset = request'[r].asset
                         => NextKey \in excused' /\ request[s].key \in excused'
    PROVE  LeakInv'
<1>1. Named' = Named /\ objects' = objects \cup {NextKey}
  BY PutsTyped DEF TypeInv, Named, Rows
<1>2. Crossed'
  <2>1. ASSUME NEW p \in Request, Does(p, "replace")'
        PROVE  \/ asset'[request'[p].asset].key = request'[p].old
               \/ asset'[request'[p].asset].key \in excused'
    <3>1. CASE p = r
      BY <3>1, <2>1
    <3>2. CASE p # r
      BY <3>2, <2>1 DEF LeakInv, Crossed, Does
    <3>. QED BY <3>1, <3>2
  <2>2. ASSUME NEW p \in Request, Does(p, "replace")', NEW s \in Request \ {p},
               Does(s, "replace")', request'[s].asset = request'[p].asset
        PROVE  request'[p].key \in excused'
    <3>1. CASE p = r
      BY <3>1, <2>2 DEF Does
    <3>2. CASE s = r
      BY <3>2, <2>2 DEF Does
    <3>3. CASE p # r /\ s # r
      BY <3>3, <2>2 DEF LeakInv, Crossed, Does
    <3>. QED BY <3>1, <3>2, <3>3
  <2>. QED BY <2>1, <2>2 DEF Crossed
<1>3. \A k \in objects : (\E s \in Request : Owns(s, k)) => \E s \in Request : Owns(s, k)'
  <2>1. \A s \in Request : \A k \in objects : Owns(s, k) => s # r
    BY DEF Owns, Puts, Does, Idle
  <2>2. \A s \in Request \ {r} : \A k \in objects : Owns(s, k) => Owns(s, k)'
    BY DEF Owns, Puts, Does
  <2>. QED BY <2>1, <2>2
<1>4. \A k : k = NextKey => Owns(r, k)'
  BY DEF Owns
<1>5. \A k \in (objects' \ Named') \ excused' : \E s \in Request : Owns(s, k)'
  <2>1. ASSUME NEW k \in (objects' \ Named') \ excused' PROVE \E s \in Request : Owns(s, k)'
    <3>1. CASE k \in objects
      BY <3>1, <2>1, <1>1, <1>3, LeaksOwned DEF LeakInv
    <3>2. CASE k = NextKey
      BY <3>2, <1>4
    <3>. QED BY <3>1, <3>2, <2>1, <1>1
  <2>. QED BY <2>1
<1>6. NothingLeaks'
  BY <1>5 DEF NothingLeaks, Owns, Puts, Does
<1>. QED BY <1>2, <1>6 DEF LeakInv

\* The key that was put gets its name.
LEMMA LeakStoreRows ==
    ASSUME TypeInv, KeyInv, LeakInv, NEW r \in Request, NEW m \in Asset, StoreRows(r, m)
    PROVE  LeakInv'
<1>1. [key |-> request[r].key, deleted |-> FALSE] \in Row
  BY Shapes DEF StoreRows, TypeInv, Row
<1>2. /\ UNCHANGED <<objects, excused>>
      /\ m \notin Rows /\ m \in Rows' /\ asset'[m].key = request[r].key
      /\ \A n \in Rows : asset'[n] = asset[n] /\ n \in Rows'
  BY <1>1, MediaAssumption DEF StoreRows, TypeInv, TypeOK, Rows
<1>3. Named \subseteq Named' /\ request[r].key \in Named'
  BY <1>2 DEF Named
<1>4. /\ Does(r, "upload") /\ request'[r] = Idle
      /\ \A s \in Request \ {r} : request'[s] = request[s]
  BY FinishTyped DEF StoreRows, TypeInv
<1>5. Crossed'
  <2>1. \A s \in Request : Does(s, "replace")' =>
           /\ Does(s, "replace") /\ request'[s] = request[s]
           /\ request[s].asset \in Rows
    BY <1>4 DEF Does, Idle, TypeInv, RowsStay, Moves
  <2>. QED BY <1>2, <2>1 DEF LeakInv, Crossed
<1>6. \A s \in Request, k \in objects : Owns(s, k) => Owns(s, k)' \/ k \in Named'
  BY <1>3, <1>4 DEF Owns, Puts, Does
<1>7. \A k \in (objects' \ Named') \ excused' : \E s \in Request : Owns(s, k)'
  BY <1>2, <1>3, <1>6, LeaksOwned DEF LeakInv
<1>8. NothingLeaks'
  BY <1>7 DEF NothingLeaks, Owns, Puts, Does
<1>. QED BY <1>5, <1>8 DEF LeakInv

\* The key the row had is the one to drop, or one that is excused.
LEMMA LeakReplaceRows ==
    ASSUME TypeInv, KeyInv, LeakInv, NEW r \in Request, ReplaceRows(r)
    PROVE  LeakInv'
<1>. DEFINE q == request[r]
<1>1. /\ q.asset \in Rows /\ Rows' = Rows
      /\ asset'[q.asset].key = q.key
      /\ \A n \in Rows \ {q.asset} : asset'[n] = asset[n]
      /\ request'[r] = [op |-> "drop", asset |-> q.asset, old |-> q.old, key |-> q.key]
      /\ \A s \in Request \ {r} : request'[s] = request[s]
  BY ReplaceRowsDoes
<1>2. UNCHANGED <<objects, excused>> /\ Does(r, "replace") /\ Does(r, "drop")'
      /\ ~Does(r, "replace")' /\ request'[r].old = q.old
  BY <1>1 DEF ReplaceRows, Does
<1>. HIDE DEF q
<1>3. asset[q.asset].key = q.old \/ asset[q.asset].key \in excused
  BY <1>2 DEF LeakInv, Crossed, q
<1>4. Crossed'
  <2>1. \A s \in Request : Does(s, "replace")' => s # r /\ request'[s] = request[s]
                                                  /\ Does(s, "replace")
    BY <1>1, <1>2 DEF Does
  <2>2. \A s \in Request : Does(s, "replace") => request[s].asset \in Rows
    BY DEF TypeInv, RowsStay, Moves, Does
  <2>3. ASSUME NEW s \in Request \ {r}, Does(s, "replace"), request[s].asset = q.asset
        PROVE  q.key \in excused
    BY <2>3, <1>2 DEF LeakInv, Crossed, q
  <2>4. ASSUME NEW p \in Request, Does(p, "replace")'
        PROVE  \/ asset'[request'[p].asset].key = request'[p].old
               \/ asset'[request'[p].asset].key \in excused'
    <3>1. CASE request[p].asset = q.asset
      BY <3>1, <2>1, <2>3, <2>4, <1>1, <1>2
    <3>2. CASE request[p].asset # q.asset
      BY <3>2, <2>1, <2>2, <2>4, <1>1, <1>2 DEF LeakInv, Crossed
    <3>. QED BY <3>1, <3>2
  <2>5. ASSUME NEW p \in Request, Does(p, "replace")', NEW s \in Request \ {p},
               Does(s, "replace")', request'[s].asset = request'[p].asset
        PROVE  request'[p].key \in excused'
    BY <2>5, <2>1, <1>2 DEF LeakInv, Crossed
  <2>. QED BY <2>4, <2>5 DEF Crossed
<1>5. \A k \in Named : k \in Named' \/ k = q.old \/ k \in excused
  BY <1>1, <1>3 DEF Named
<1>6. q.key \in Named'
  BY <1>1 DEF Named
<1>7. \A s \in Request, k \in objects : Owns(s, k) => Owns(s, k)' \/ k \in Named'
  <2>1. Puts(r) => request[r].key \in Named'
    BY <1>6 DEF q
  <2>2. ~Does(r, "drop")
    BY <1>2 DEF Does
  <2>3. \A s \in Request \ {r} : \A k \in objects : Owns(s, k) => Owns(s, k)'
    BY <1>1 DEF Owns, Puts, Does
  <2>. QED BY <2>1, <2>2, <2>3 DEF Owns
<1>8. \A k : k = q.old => Owns(r, k)'
  BY <1>2 DEF Owns
<1>9. \A k \in (objects' \ Named') \ excused' : \E s \in Request : Owns(s, k)'
  <2>1. ASSUME NEW k \in (objects' \ Named') \ excused' PROVE \E s \in Request : Owns(s, k)'
    <3>1. CASE k \in Named
      BY <3>1, <2>1, <1>2, <1>5, <1>8
    <3>2. CASE k \notin Named
      BY <3>2, <2>1, <1>2, <1>7, LeaksOwned DEF LeakInv
    <3>. QED BY <3>1, <3>2
  <2>. QED BY <2>1
<1>10. NothingLeaks'
  BY <1>9 DEF NothingLeaks, Owns, Puts, Does
<1>. QED BY <1>4, <1>10 DEF LeakInv

\* What its owner dropped is gone.
LEMMA LeakReplaceDrops ==
    ASSUME TypeInv, LeakInv, NEW r \in Request, ReplaceDrops(r)
    PROVE  LeakInv'
<1>1. /\ UNCHANGED <<asset, excused>> /\ objects' = objects \ {request[r].old}
      /\ Does(r, "drop") /\ request'[r] = Idle
      /\ \A s \in Request \ {r} : request'[s] = request[s]
  BY FinishTyped DEF ReplaceDrops, TypeInv
<1>2. Named' = Named
  BY <1>1 DEF Named, Rows
<1>3. Crossed'
  <2>1. \A s \in Request : Does(s, "replace")' => Does(s, "replace") /\ request'[s] = request[s]
    BY <1>1 DEF Does, Idle
  <2>. QED BY <1>1, <2>1 DEF LeakInv, Crossed
<1>4. \A s \in Request, k \in objects' : Owns(s, k) => Owns(s, k)'
  BY <1>1 DEF Owns, Puts, Does
<1>5. \A k \in (objects' \ Named') \ excused' : \E s \in Request : Owns(s, k)'
  BY <1>1, <1>2, <1>4, LeaksOwned DEF LeakInv
<1>6. NothingLeaks'
  BY <1>5 DEF NothingLeaks, Owns, Puts, Does
<1>. QED BY <1>3, <1>6 DEF LeakInv

LEMMA LeakStep == TypeInv /\ KeyInv /\ LeakInv /\ [Next]_vars => LeakInv'
<1>. SUFFICES ASSUME TypeInv, KeyInv, LeakInv, [Next]_vars PROVE LeakInv'
  OBVIOUS
<1>1. CASE Plain
  BY <1>1, PlainDoes, LeakQuiet
<1>2. ASSUME NEW r \in Request, StorePuts(r) PROVE LeakInv'
  <2>1. /\ Puts(r)' /\ ~Does(r, "replace")' /\ request'[r].key = NextKey
        /\ excused \subseteq excused'
    BY <1>2, StorePutsDoes DEF Puts, Does
  <2>2. /\ PutsObject /\ UNCHANGED asset
        /\ request[r] = Idle
        /\ \A s \in Request \ {r} : request'[s] = request[s]
    BY <1>2, StorePutsDoes
  <2>. QED BY <2>1, <2>2, LeakPuts
<1>3. ASSUME NEW r \in Request, NEW m \in Asset, ReplacePuts(r, m) PROVE LeakInv'
  <2>1. /\ Puts(r)' /\ Does(r, "replace")' /\ request'[r].key = NextKey
        /\ request'[r].asset = m /\ request'[r].old = asset[m].key
    <3>1. request'[r] = [op |-> "replace", asset |-> m, old |-> asset[m].key,
                         key |-> NextKey]
      BY <1>3, ReplacePutsDoes
    <3>. QED BY <3>1 DEF Puts, Does
  <2>2. /\ PutsObject /\ UNCHANGED asset
        /\ request[r] = Idle
        /\ \A s \in Request \ {r} : request'[s] = request[s]
    BY <1>3, ReplacePutsDoes
  <2>3. /\ excused \subseteq excused'
        /\ \A s \in Request : Does(s, "replace") /\ request[s].asset = m
              => NextKey \in excused' /\ request[s].key \in excused'
    BY <1>3 DEF ReplacePuts, Replaces, Does
  <2>. QED BY <2>1, <2>2, <2>3, LeakPuts
<1>4. ASSUME NEW r \in Request, NEW m \in Asset, StoreRows(r, m) PROVE LeakInv'
  BY <1>4, LeakStoreRows
<1>5. ASSUME NEW r \in Request, ReplaceRows(r) PROVE LeakInv'
  BY <1>5, LeakReplaceRows
<1>6. ASSUME NEW r \in Request, ReplaceDrops(r) PROVE LeakInv'
  BY <1>6, LeakReplaceDrops
<1>7. ASSUME NEW r \in Request, Crash(r) PROVE LeakInv'
  <2>1. ~Puts(r)' /\ ~Moves(r)'
    BY <1>7, CrashDoes DEF Puts, Moves, Idle
  <2>2. Rows' = Rows /\ \A m \in Rows : asset'[m].key = asset[m].key
    BY <1>7, CrashDoes DEF Rows
  <2>. QED BY <1>7, <2>1, <2>2, CrashDoes, LeakQuiet
<1>. QED BY <1>1, <1>2, <1>3, <1>4, <1>5, <1>6, <1>7, OtherSteps

LEMMA Leaks == Spec => []LeakInv
BY Typed, Keys, LeakInit, LeakStep, PTL DEF Spec

\* An object that no row names is in the hands of a request that is under way, or
\* was left by a replace that died or crossed another (replaceMedia).
THEOREM NothingLeaksAlways == Spec => []NothingLeaks
BY Leaks, PTL DEF LeakInv

-----------------------------------------------------------------------------
(* Uses: what is shown is counted and, if it was given in time, kept.      *)

LEMMA UseInit == Init => UseInv
BY DEF Init, UseInv, UseIsCounted, NoneGoes, UsedIsKept

\* Steps that touch neither pictures nor index, nor delete anything.
LEMMA UseQuiet ==
    ASSUME TypeInv, UseInv, UNCHANGED <<image, counted, late>>,
           Rows \subseteq Rows', \A m \in Rows : asset'[m].deleted = asset[m].deleted,
           \A s \in Request : Does(s, "delete")' => request'[s] = request[s]
    PROVE  UseInv'
<1>1. UseIsCounted'
  BY DEF UseInv, UseIsCounted
<1>2. \A m \in Asset : Deletes(m)' => Deletes(m)
  BY DEF Deletes, Does
<1>3. \A s \in Holder : image[s] # None => image[s].asset \in Rows /\ image[s].asset \in Asset
  BY RowsTyped DEF TypeInv, RowsStay
<1>4. NoneGoes'
  BY <1>2, <1>3 DEF UseInv, NoneGoes
<1>5. UsedIsKept'
  BY <1>3 DEF UseInv, UsedIsKept, Live
<1>. QED BY <1>1, <1>4, <1>5 DEF UseInv

\* Steps that only write pictures: every one written is counted, and is given in
\* time or marked.
LEMMA UsePictures ==
    ASSUME TypeInv, UseInv, UNCHANGED asset,
           \A s \in Request : Does(s, "delete")' => request'[s] = request[s],
           \A s \in Holder : image'[s] # None =>
              \/ /\ image'[s] = image[s] /\ (s \in late => s \in late')
                 /\ <<s, image[s].asset>> \in counted'
              \/ /\ image'[s].asset \in Rows
                 /\ <<s, image'[s].asset>> \in counted'
                 /\ Going(image'[s].asset) => s \in late'
    PROVE  UseInv'
<1>1. Rows' = Rows
  BY DEF Rows
<1>2. UseIsCounted'
  BY DEF UseIsCounted
<1>3. \A m : Deletes(m)' => Deletes(m)
  BY DEF Deletes, Does
<1>4. NoneGoes'
  BY <1>3 DEF UseInv, NoneGoes, Going
<1>5. UsedIsKept'
  BY <1>1 DEF UseInv, UsedIsKept, Live, Going
<1>. QED BY <1>2, <1>4, <1>5 DEF UseInv

\* A request that begins with something else than a delete, or ends.
Turns(r) ==
    /\ UNCHANGED <<image, counted, late>>
    /\ \/ request'[r] = Idle
       \/ request'[r].op \in {"upload", "replace", "drop", "pick", "copy"}
    /\ \A s \in Request \ {r} : request'[s] = request[s]

LEMMA UseTurns ==
    ASSUME TypeInv, UseInv, NEW r \in Request, Turns(r), Rows \subseteq Rows',
           \A m \in Rows : asset'[m].deleted = asset[m].deleted
    PROVE  UseInv'
<1>1. \A s \in Request : Does(s, "delete")' => request'[s] = request[s]
  BY DEF Turns, Does, Idle
<1>. QED BY <1>1, UseQuiet DEF Turns

LEMMA UseLibrary ==
    ASSUME TypeInv, UseInv, NEW r \in Request,
           \/ StorePuts(r) \/ ReplaceRows(r) \/ ReplaceDrops(r) \/ Crash(r)
           \/ \E m \in Asset : StoreRows(r, m) \/ ReplacePuts(r, m)
    PROVE  UseInv'
<1>. DEFINE kept == Rows \subseteq Rows' /\ \A m \in Rows : asset'[m].deleted = asset[m].deleted
<1>1. UNCHANGED asset => kept
  BY DEF Rows
<1>2. CASE StorePuts(r)
  <2>1. Turns(r) /\ UNCHANGED asset
    BY <1>2, StorePutsDoes DEF StorePuts, Turns
  <2>. QED BY <2>1, <1>1, UseTurns
<1>3. CASE ReplaceRows(r)
  <2>1. request'[r].op = "drop"
    <3>1. request'[r] = [op |-> "drop", asset |-> request[r].asset,
                         old |-> request[r].old, key |-> request[r].key]
      BY <1>3, ReplaceRowsDoes
    <3>. QED BY <3>1
  <2>2. Turns(r)
    BY <1>3, <2>1, ReplaceRowsDoes DEF ReplaceRows, Turns
  <2>3. kept
    BY <1>3, ReplaceRowsDoes
  <2>. QED BY <2>2, <2>3, UseTurns
<1>4. CASE ReplaceDrops(r) \/ Crash(r)
  <2>1. Turns(r) /\ UNCHANGED asset
    BY <1>4, FinishTyped DEF ReplaceDrops, Crash, Turns, TypeInv
  <2>. QED BY <2>1, <1>1, UseTurns
<1>5. ASSUME NEW m \in Asset, StoreRows(r, m) PROVE UseInv'
  <2>1. Turns(r)
    BY <1>5, FinishTyped DEF StoreRows, Turns, TypeInv
  <2>2. [key |-> request[r].key, deleted |-> FALSE] \in Row
    BY <1>5, Shapes DEF StoreRows, TypeInv, Row
  <2>3. kept
    BY <1>5, <2>2, MediaAssumption DEF StoreRows, TypeInv, TypeOK, Rows
  <2>. QED BY <2>1, <2>3, UseTurns
<1>6. ASSUME NEW m \in Asset, ReplacePuts(r, m) PROVE UseInv'
  <2>1. request'[r].op = "replace"
    <3>1. request'[r] = [op |-> "replace", asset |-> m, old |-> asset[m].key,
                         key |-> NextKey]
      BY <1>6, ReplacePutsDoes
    <3>. QED BY <3>1
  <2>2. Turns(r) /\ UNCHANGED asset
    BY <1>6, <2>1, ReplacePutsDoes DEF ReplacePuts, Turns
  <2>. QED BY <2>2, <1>1, UseTurns
<1>. QED BY <1>2, <1>3, <1>4, <1>5, <1>6

\* Nothing that the index counts begins to go ...
LEMMA UseDeleteReads ==
    ASSUME TypeInv, UseInv, NEW r \in Request, NEW m \in Asset, DeleteReads(r, m)
    PROVE  UseInv'
<1>1. /\ UNCHANGED <<asset, image, counted, late>> /\ ~InUse(m)
      /\ request'[r] = [op |-> "delete", asset |-> m]
      /\ \A s \in Request \ {r} : request'[s] = request[s]
  BY DEF DeleteReads, Start, TypeInv, TypeOK
<1>2. UseIsCounted'
  BY <1>1 DEF UseInv, UseIsCounted
<1>3. \A n : Deletes(n)' => Deletes(n) \/ n = m
  BY <1>1 DEF Deletes, Does
<1>4. \A s \in Holder : image[s] # None => image[s].asset # m
  BY <1>1 DEF UseInv, UseIsCounted, InUse
<1>5. NoneGoes'
  BY <1>1, <1>3, <1>4 DEF UseInv, NoneGoes
<1>6. UsedIsKept'
  BY <1>1 DEF UseInv, UsedIsKept, Live, Rows
<1>. QED BY <1>2, <1>5, <1>6 DEF UseInv

\* ... and what goes, nobody was given in time.
LEMMA UseDeleteMarks ==
    ASSUME TypeInv, UseInv, NEW r \in Request, DeleteMarks(r)
    PROVE  UseInv'
<1>. DEFINE m == request[r].asset
<1>1. /\ UNCHANGED <<image, counted, late>> /\ Rows' = Rows
      /\ \A n \in Rows \ {m} : asset'[n] = asset[n]
      /\ request'[r] = Idle /\ Does(r, "delete")
      /\ \A s \in Request \ {r} : request'[s] = request[s]
  BY DeleteMarksDoes, FinishTyped DEF DeleteMarks, TypeInv
<1>2. Deletes(m)
  BY <1>1 DEF Deletes
<1>3. \A n : Deletes(n)' => Deletes(n)
  BY <1>1 DEF Deletes, Does, Idle
<1>. HIDE DEF m
<1>4. UseIsCounted'
  BY <1>1 DEF UseInv, UseIsCounted
<1>5. NoneGoes'
  BY <1>1, <1>3 DEF UseInv, NoneGoes
<1>6. UsedIsKept'
  BY <1>1, <1>2 DEF UseInv, NoneGoes, UsedIsKept, Live
<1>. QED BY <1>4, <1>5, <1>6 DEF UseInv

\* A save writes the picture and its row in the index together.
LEMMA UsePickSaves ==
    ASSUME TypeInv, UseInv, NEW r \in Request, PickSaves(r)
    PROVE  UseInv'
<1>. DEFINE h == request[r].holder
            m == request[r].asset
            picture == [asset |-> request[r].asset, key |-> request[r].key]
<1>1. /\ h \in Holder /\ picture \in Image /\ m \in Rows
      /\ picture.asset = m
  BY Shapes DEF PickSaves, TypeInv, RowsStay, Image
<1>2. /\ Present(h) /\ UNCHANGED <<asset, life>>
      /\ image' = [image EXCEPT ![h] = picture]
      /\ counted' = Synced(h, picture)
      /\ late' = Timed({h}, {s \in {h} : Going(m)})
      /\ Does(r, "pick") /\ Finish(r)
  BY DEF PickSaves
<1>3. \A s \in Request : Does(s, "delete")' => request'[s] = request[s]
  BY <1>2, FinishTyped DEF TypeInv, Does, Idle
<1>. HIDE DEF h, m, picture
<1>4. /\ image'[h] = picture
      /\ \A u \in Holder \ {h} : image'[u] = image[u]
  BY <1>1, <1>2, PictureTyped DEF TypeInv
<1>5. ASSUME NEW s \in Holder, image'[s] # None
      PROVE  \/ /\ image'[s] = image[s] /\ (s \in late => s \in late')
                /\ <<s, image[s].asset>> \in counted'
             \/ /\ image'[s].asset \in Rows
                /\ <<s, image'[s].asset>> \in counted'
                /\ Going(image'[s].asset) => s \in late'
  <2>1. CASE s = h
    <3>1. <<s, m>> \in counted'
      BY <2>1, <1>1, <1>2, <1>4, <1>5 DEF Synced
    <3>2. Going(m) => s \in late'
      BY <2>1, <1>2 DEF Timed
    <3>. QED BY <2>1, <3>1, <3>2, <1>1, <1>4
  <2>2. CASE s # h
    <3>1. <<s, image[s].asset>> \in counted
      BY <2>2, <1>4, <1>5 DEF UseInv, UseIsCounted
    <3>2. <<s, image[s].asset>> \in counted'
      BY <2>2, <3>1, <1>2 DEF Synced
    <3>. QED BY <2>2, <3>2, <1>2, <1>4 DEF Timed
  <2>. QED BY <2>1, <2>2
<1>. QED BY <1>2, <1>3, <1>5, UsePictures

\* A picture goes, and the index forgets no other holder.
LEMMA UseClears ==
    ASSUME TypeInv, UseInv,
           (\E h \in Holder : Clear(h)) \/ (\E a \in Article : Purge(a))
    PROVE  UseInv'
<1>1. /\ UNCHANGED <<asset, request>>
      /\ \A s \in Holder : image'[s] # None =>
            /\ image'[s] = image[s]
            /\ s \in late => s \in late'
            /\ <<s, image[s].asset>> \in counted'
  <2>1. ASSUME NEW h \in Holder, Clear(h)
        PROVE  /\ UNCHANGED <<asset, request>>
               /\ \A s \in Holder : image'[s] # None =>
                     /\ image'[s] = image[s]
                     /\ s \in late => s \in late'
                     /\ <<s, image[s].asset>> \in counted'
    <3>1. /\ image'[h] = None
          /\ \A s \in Holder \ {h} : image'[s] = image[s]
      BY <2>1 DEF Clear, TypeInv, TypeOK
    <3>2. counted' = {u \in counted : u[1] # h} /\ late' = late \ {h}
      BY <2>1 DEF Clear, Synced, Timed
    <3>3. UNCHANGED <<asset, request>>
      BY <2>1 DEF Clear
    <3>. QED BY <3>1, <3>2, <3>3 DEF UseInv, UseIsCounted
  <2>2. ASSUME NEW a \in Article, Purge(a)
        PROVE  /\ UNCHANGED <<asset, request>>
               /\ \A s \in Holder : image'[s] # None =>
                     /\ image'[s] = image[s]
                     /\ s \in late => s \in late'
                     /\ <<s, image[s].asset>> \in counted'
    <3>1. \A s \in Holder : image'[s] = IF s[1] = a THEN None ELSE image[s]
      BY <2>2 DEF Purge
    <3>2. /\ counted' = {u \in counted : u[1] # <<a, "cover">>}
          /\ late' = late \ {<<a, "cover">>, <<a, "og">>}
      BY <2>2 DEF Purge, Timed
    <3>3. UNCHANGED <<asset, request>>
      BY <2>2 DEF Purge
    <3>4. \A s \in Holder : image'[s] # None => s # <<a, "cover">> /\ s # <<a, "og">>
      BY <3>1
    <3>. QED BY <3>1, <3>2, <3>3, <3>4 DEF UseInv, UseIsCounted
  <2>. QED BY <2>1, <2>2
<1>2. \A s \in Request : Does(s, "delete")' => request'[s] = request[s]
  BY <1>1
<1>. QED BY <1>1, <1>2, UsePictures

\* What a copy shows is counted from the moment it exists.
LEMMA UseCopySaves ==
    ASSUME TypeInv, UseInv, NEW r \in Request, CopySaves(r)
    PROVE  UseInv'
<1>. DEFINE b == request[r].to
<1>1. UNCHANGED asset /\ Finish(r) /\ Does(r, "copy")
  BY DEF CopySaves
<1>2. \A s \in Request : Does(s, "delete")' => request'[s] = request[s]
  BY <1>1, FinishTyped DEF TypeInv, Does, Idle
<1>3. \A s \in Holder : image'[s] # None => image'[s].asset \in Rows
  BY CopySavesDoes DEF TypeInv, RowsStay, CopySaves
<1>4. \A s \in Holder : s[1] = b /\ image'[s] # None =>
         /\ <<s, image'[s].asset>> \in counted'
         /\ Going(image'[s].asset) => s \in late'
  BY CopySavesDoes
<1>5. \A s \in Holder : s[1] # b => image'[s] = image[s]
  BY CopySavesDoes
<1>6. counted \subseteq counted' /\ late \subseteq late'
  BY CopySavesDoes
<1>. HIDE DEF b
<1>7. \A s \in Holder : image'[s] # None =>
         \/ /\ image'[s] = image[s] /\ (s \in late => s \in late')
            /\ <<s, image[s].asset>> \in counted'
         \/ /\ image'[s].asset \in Rows
            /\ <<s, image'[s].asset>> \in counted'
            /\ Going(image'[s].asset) => s \in late'
  BY <1>3, <1>4, <1>5, <1>6 DEF UseInv, UseIsCounted
<1>. QED BY <1>1, <1>2, <1>7, UsePictures

LEMMA UsePlain ==
    ASSUME TypeInv, UseInv, Plain
    PROVE  UseInv'
<1>1. UNCHANGED asset =>
         Rows \subseteq Rows' /\ \A m \in Rows : asset'[m].deleted = asset[m].deleted
  BY DEF Rows
<1>2. ASSUME NEW r \in Request, NEW s \in Holder, NEW m \in Asset, PickReads(r, s, m)
      PROVE  UseInv'
  <2>1. Turns(r) /\ UNCHANGED asset
    BY <1>2 DEF PickReads, Start, Turns, TypeInv, TypeOK
  <2>. QED BY <2>1, <1>1, UseTurns
<1>3. ASSUME NEW r \in Request, PickFails(r) PROVE UseInv'
  <2>1. Turns(r) /\ UNCHANGED asset
    BY <1>3, FinishTyped DEF PickFails, Turns, TypeInv
  <2>. QED BY <2>1, <1>1, UseTurns
<1>4. ASSUME NEW r \in Request, NEW a \in Article, NEW b \in Article, CopyReads(r, a, b)
      PROVE  UseInv'
  <2>1. Turns(r) /\ UNCHANGED asset
    BY <1>4 DEF CopyReads, Start, Turns, TypeInv, TypeOK
  <2>. QED BY <2>1, <1>1, UseTurns
<1>5. CASE (\E a \in Article : Create(a) \/ Trash(a)) \/ UNCHANGED vars
  <2>1. UNCHANGED <<asset, request, image, counted, late>>
    BY <1>5 DEF Create, Trash, vars
  <2>2. \A s \in Request : Does(s, "delete")' => request'[s] = request[s]
    BY <2>1
  <2>. QED BY <2>1, <2>2, <1>1, UseQuiet
<1>. QED BY <1>2, <1>3, <1>4, <1>5, UseDeleteReads, UseDeleteMarks, UsePickSaves,
           UseCopySaves, UseClears DEF Plain, Keep

LEMMA UseStep == TypeInv /\ UseInv /\ [Next]_vars => UseInv'
BY UsePlain, UseLibrary, OtherSteps

LEMMA Uses == Spec => []UseInv
BY Typed, UseInit, UseStep, PTL DEF Spec

\* Every picture that is shown is counted as in use: the save writes both in one
\* transaction (syncReferences).
THEOREM CountedAlways == Spec => []UseIsCounted
BY Uses, PTL DEF UseInv

\* A picture in use is not deleted, unless its holder was given it after, or
\* while, it was deleted (deleteMedia).
THEOREM KeptAlways == Spec => []UsedIsKept
BY Uses, PTL DEF UseInv
=============================================================================
