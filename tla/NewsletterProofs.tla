-------------------------- MODULE NewsletterProofs --------------------------
(***************************************************************************)
(* What holds of the newsletter's list for any number of requests, however *)
(* they interleave and wherever they die, checked by TLAPS.                *)
(***************************************************************************)
EXTENDS Newsletter, TLAPS

\* The ways the row is changed keep its type.
LEMMA RowForms ==
    ASSUME NEW r \in Row, NEW b \in BOOLEAN
    PROVE  /\ Pending(r) \in Row
           /\ [r EXCEPT !.signup = b] \in Row
           /\ NoRow \in Row /\ Blank \in Mem
  <1>1. NoRow \in Row
    BY DEF NoRow, Row, None, Status
  <1>2. Pending(r) \in Row /\ [r EXCEPT !.signup = b] \in Row
    BY DEF Pending, Row, Status
  <1>3. Blank \in Mem
    BY DEF Blank, Mem, None
  <1> QED
    BY <1>1, <1>2, <1>3

LEMMA Issues ==
    ASSUME TypeOK, NEW r \in Row, NEW b \in BOOLEAN
    PROVE  /\ Fresh(b) \in Row
           /\ Tokened(r) \in Row
           /\ issued.id + 1 \in Serial /\ issued.token + 1 \in Serial /\ issued.link + 1 \in Serial
           /\ issued.id \in Nat /\ issued.token \in Nat /\ issued.link \in Nat
           /\ 1..issued.token \subseteq Serial
  <1>1. /\ issued.id \in Nat /\ issued.token \in Nat /\ issued.link \in Nat
    BY DEF TypeOK
  <1>2. issued.id + 1 \in Serial /\ issued.token + 1 \in Serial /\ issued.link + 1 \in Serial
    BY <1>1 DEF Serial
  <1>3. Tokened(r) \in Row
    BY <1>2 DEF Tokened, Row
  <1>4. \A x \in Row, n \in Serial : [x EXCEPT !.id = n, !.signup = b] \in Row
    BY DEF Row
  <1>5. Fresh(b) \in Row
    BY <1>2, <1>4, RowForms DEF Fresh
  <1>6. 1..issued.token \subseteq Serial
    BY <1>1 DEF Serial
  <1> QED
    BY <1>1, <1>2, <1>3, <1>5, <1>6

LEMMA TypeInit == Init => TypeOK
  <1> SUFFICES ASSUME Init PROVE TypeOK
    OBVIOUS
  <1>1. row \in Row /\ mem \in [Request -> Mem]
    BY DEF Init, NoRow, Row, Blank, Mem, None, Status
  <1>2. pc \in [Request -> Phase] /\ past \in Past /\ left \in Left /\ mailed \in Mailed
    BY NewsletterAssumption DEF Init, Phase, Past, Left, Mailed
  <1> QED
    BY <1>1, <1>2 DEF Init, TypeOK, NoRow

\* A request that goes to a phase with a memory of the right type.
LEMMA GotoType ==
    ASSUME TypeOK, NEW q \in Request, NEW phase \in Phase, NEW memory \in Mem,
           Goto(q, phase, memory)
    PROVE  pc' \in [Request -> Phase] /\ mem' \in [Request -> Mem]
  BY DEF TypeOK, Goto

LEMMA DoneType ==
    ASSUME TypeOK, NEW q \in Request, Done(q)
    PROVE  pc' \in [Request -> Phase] /\ mem' \in [Request -> Mem]
  <1>1. "idle" \in Phase /\ Blank \in Mem
    BY DEF Phase, Blank, Mem, None
  <1> QED
    BY <1>1, GotoType DEF Done

\* A message that went out, or that was refused, of either kind.
LEMMA Posted ==
    ASSUME TypeOK, NEW n \in Nat
    PROVE  /\ [mailed EXCEPT !.token = @ \cup {n}] \in Mailed
           /\ [mailed EXCEPT !.noToken = @ \cup {n}] \in Mailed
           /\ [mailed EXCEPT !.link = @ \cup {n}] \in Mailed
           /\ [mailed EXCEPT !.noLink = @ \cup {n}] \in Mailed
           /\ Fails => left' \in Left
  <1>1. mailed \in Mailed /\ left \in Left
    BY DEF TypeOK
  <1>2. /\ [mailed EXCEPT !.token = @ \cup {n}] \in Mailed
        /\ [mailed EXCEPT !.noToken = @ \cup {n}] \in Mailed
        /\ [mailed EXCEPT !.link = @ \cup {n}] \in Mailed
        /\ [mailed EXCEPT !.noLink = @ \cup {n}] \in Mailed
    BY <1>1 DEF Mailed
  <1>3. Fails => left' \in Left
    BY <1>1, NewsletterAssumption DEF Fails, Left
  <1> QED
    BY <1>2, <1>3

LEMMA TypeStep == TypeOK /\ [Next]_vars => TypeOK'
  <1> SUFFICES ASSUME TypeOK, [Next]_vars PROVE TypeOK'
    OBVIOUS
  <1> USE DEF requestVars
  <1>a. Blank \in Mem /\ \A n \in Serial \cup {None}, b \in BOOLEAN :
             /\ [Blank EXCEPT !.id = n] \in Mem /\ [Blank EXCEPT !.serial = n] \in Mem
             /\ [Blank EXCEPT !.id = n, !.flag = b] \in Mem
    BY DEF Blank, Mem, None
  <1>b. /\ row \in Row /\ row.id \in Serial \cup {None} /\ row.token \in Serial \cup {None}
        /\ past \in Past /\ left \in Left /\ verified \in BOOLEAN
    BY DEF TypeOK, Row
  <1>c. \A q \in Request : left.requests > 0 =>
             [left EXCEPT !.requests = @ - 1] \in Left
    BY NewsletterAssumption DEF TypeOK, Left
  <1>d. [past EXCEPT !.proved = FALSE, !.withdrawn = FALSE, !.handled = FALSE] \in Past
    BY <1>b DEF Past
  <1>e. ASSUME NEW q \in Request, NEW phase, Lost(q, phase) PROVE TypeOK'
    BY <1>e, DoneType DEF Lost, TypeOK
  <1>f. \A q \in Request : mem[q].serial \in Serial \cup {None}
    BY DEF TypeOK, Mem
  <1>g. ASSUME NEW q \in Request, ReadersNo(q) PROVE past' \in Past
    <2>1. 1..issued.token \in SUBSET Nat
      BY DEF TypeOK
    <2> QED
      BY <1>b, <1>g, <2>1 DEF ReadersNo, Past
  <1>h. ASSUME NEW who \in {"subscriber", "admin"}, Off(who)
        PROVE  row' \in Row /\ ~row'.fresh
    BY <1>b, <1>h DEF Off, Row, Status, None
  <1>i. ASSUME NEW q \in Request, RestoreOrInvite(q)
        PROVE  pc' \in [Request -> Phase] /\ mem' \in [Request -> Mem]
    <2>1. CooledDown \in BOOLEAN
      BY <1>b DEF CooledDown, Row
    <2>2. \/ Goto(q, "restore", [Blank EXCEPT !.id = row.id])
          \/ Goto(q, "invite", [Blank EXCEPT !.id = row.id, !.flag = CooledDown])
      BY <1>i DEF RestoreOrInvite
    <2> QED
      BY <2>1, <2>2, <1>a, <1>b, GotoType DEF Phase, Deciding
  <1>1. ASSUME NEW q \in Request, Subscribe(q) PROVE TypeOK'
    <2>1. pc' \in [Request -> Phase] /\ mem' \in [Request -> Mem]
      BY <1>1, <1>a, <1>b, GotoType DEF Subscribe, Phase, Deciding
    <2> QED
      BY <1>1, <1>c, <2>1 DEF Subscribe, Arrive, TypeOK
  <1>2. ASSUME NEW q \in Request, Upsert(q) PROVE TypeOK'
    <2>1. pc' \in [Request -> Phase] /\ mem' \in [Request -> Mem]
      BY <1>2, <1>a, <1>b, Issues, GotoType DEF Upsert, Phase
    <2>2. row' \in Row
      <3>1. Pending(row) \in Row
        BY <1>b, RowForms
      <3>2. [Pending(row) EXCEPT !.signup = FALSE] \in Row
        BY <3>1, RowForms
      <3>3. Fresh(FALSE) \in Row
        BY <1>b, Issues
      <3> QED
        BY <1>2, <3>2, <3>3, Issues DEF Upsert
    <2>3. issued' \in [id : Nat, token : Nat, link : Nat]
      <3>1. CASE Here
        BY <1>2, <3>1 DEF Upsert, TypeOK
      <3>2. CASE ~Here
        <4>1. issued' = [issued EXCEPT !.token = issued.token + 1, !.id = issued.id + 1]
          BY <1>2, <3>2 DEF Upsert
        <4>2. /\ issued.id + 1 \in Nat /\ issued.token + 1 \in Nat
              /\ issued \in [id : Nat, token : Nat, link : Nat]
          BY DEF TypeOK
        <4> QED
          BY <4>1, <4>2
      <3> QED
        BY <3>1, <3>2
    <2>4. row'.token # None
      <3>1. \E r : r \in Row /\ row' = Tokened(r)
        <4>1. Pending(row) \in Row
          BY <1>b, RowForms
        <4>2. [Pending(row) EXCEPT !.signup = FALSE] \in Row /\ Fresh(FALSE) \in Row
          BY <1>b, <4>1, RowForms, Issues
        <4> QED
          BY <1>2, <4>2 DEF Upsert
      <3> QED
        BY <1>b, <3>1, Issues DEF Tokened, Row, Serial, None
    <2>5. past' \in Past
      BY <1>2, <1>b, <1>d DEF Upsert, Birth
    <2> QED
      BY <1>2, <2>1, <2>2, <2>3, <2>4, <2>5 DEF Upsert, TypeOK
  <1>3. ASSUME NEW q \in Request, Outrun(q) PROVE TypeOK'
    BY <1>3, DoneType DEF Outrun, TypeOK
  <1>4. ASSUME NEW q \in Request, MailConfirm(q) PROVE TypeOK'
    <2>1. mem[q].serial \in Nat
      BY <1>f DEF Serial, None
    <2>2. mailed' \in Mailed /\ left' \in Left
      BY <1>4, <1>b, <2>1, Posted DEF MailConfirm
    <2> QED
      BY <1>4, <2>2, DoneType DEF MailConfirm, TypeOK
  <1>5. ASSUME NEW q \in Request, Click(q) PROVE TypeOK'
    <2>1. pc' \in [Request -> Phase] /\ mem' \in [Request -> Mem]
      BY <1>5, <1>a, <1>b, GotoType DEF Click, Phase, Deciding
    <2> QED
      BY <1>5, <1>c, <2>1 DEF Click, Arrive, TypeOK
  <1>6. ASSUME NEW q \in Request, Confirm(q) PROVE TypeOK'
    <2>1. pc' \in [Request -> Phase] /\ mem' \in [Request -> Mem]
      BY <1>6, <1>a, <1>b, GotoType DEF Confirm, Phase
    <2>2. row' \in Row /\ row'.token = None /\ ~row'.fresh
      BY <1>6, <1>b DEF Confirm, Row, Status, None
    <2>3. past' \in Past
      <3>1. mem[q].serial \in Nat
        BY <1>f DEF Serial, None
      <3>2. past.spent \cup {mem[q].serial} \in SUBSET Nat
        BY <1>b, <3>1 DEF Past
      <3>3. (past.overtaken \/ Overtakes(q)) \in BOOLEAN
            /\ (past.revived \/ mem[q].serial \in past.spent) \in BOOLEAN
        OBVIOUS
      <3> QED
        BY <1>6, <1>b, <3>2, <3>3 DEF Confirm, Past
    <2> QED
      BY <1>6, <2>1, <2>2, <2>3 DEF Confirm, TypeOK
  <1>7. ASSUME NEW q \in Request, Beaten(q) PROVE TypeOK'
    BY <1>7, DoneType DEF Beaten, TypeOK
  <1>8. ASSUME NEW q \in Request, Rotate(q) PROVE TypeOK'
    <2>1. CASE Lost(q, "rotate")
      BY <2>1, <1>e
    <2>2. CASE ~Lost(q, "rotate")
      <3>1. pc' \in [Request -> Phase] /\ mem' \in [Request -> Mem]
        BY <1>8, <2>2, <1>a, <1>b, Issues, GotoType DEF Rotate, Phase
      <3>2. row' \in Row /\ row'.token = row.token /\ row'.fresh = row.fresh
        BY <1>8, <2>2, <1>b, Issues DEF Rotate, Row
      <3>3. issued' \in [id : Nat, token : Nat, link : Nat]
        BY <1>8, <2>2 DEF Rotate, TypeOK
      <3> QED
        BY <1>8, <2>2, <3>1, <3>2, <3>3 DEF Rotate, TypeOK
    <2> QED
      BY <2>1, <2>2
  <1>9. ASSUME NEW q \in Request, Welcome(q) PROVE TypeOK'
    <2>1. mem[q].serial \in Nat
      BY <1>f DEF Serial, None
    <2>2. mailed' \in Mailed /\ left' \in Left
      BY <1>9, <1>b, <2>1, Posted DEF Welcome
    <2> QED
      BY <1>9, <2>2, DoneType DEF Welcome, TypeOK
  <1>10. ASSUME NEW q \in Request, FollowLink(q) PROVE TypeOK'
    <2>1. past' \in Past
      BY <1>10, <1>b DEF FollowLink, Past
    <2>2. pc' \in [Request -> Phase] /\ mem' \in [Request -> Mem]
      <3>1. CASE row.status = "UNSUBSCRIBED"
        BY <1>10, <3>1 DEF FollowLink, TypeOK
      <3>2. CASE row.status # "UNSUBSCRIBED"
        BY <1>10, <3>2, <1>a, <1>b, GotoType DEF FollowLink, Phase, Deciding
      <3> QED
        BY <3>1, <3>2
    <2> QED
      BY <1>10, <1>c, <2>1, <2>2 DEF FollowLink, Arrive, TypeOK
  <1>11. ASSUME NEW q \in Request, Unsubscribe(q) PROVE TypeOK'
    <2>1. CASE Lost(q, "unsubscribe")
      BY <2>1, <1>e
    <2>2. CASE ~Lost(q, "unsubscribe")
      BY <1>11, <2>2, <1>g, <1>h, DoneType DEF Unsubscribe, TypeOK
    <2> QED
      BY <2>1, <2>2
  <1>12. ASSUME NEW q \in Request, UnsubscribeByAnnouncement(q) PROVE TypeOK'
    BY <1>12, <1>c, <1>g, <1>h DEF UnsubscribeByAnnouncement, Arrive, TypeOK
  <1>13. ASSUME NEW q \in Request, OptIn(q) PROVE TypeOK'
    <2>1. [Blank EXCEPT !.id = row.id, !.flag = verified] \in Mem
      BY <1>a, <1>b
    <2>2. pc' \in [Request -> Phase] /\ mem' \in [Request -> Mem]
      BY <1>13, <2>1, GotoType DEF OptIn, Phase, Deciding
    <2> QED
      BY <1>13, <1>c, <2>2 DEF OptIn, Arrive, TypeOK
  <1>14. ASSUME NEW q \in Request, WriteOptIn(q) PROVE TypeOK'
    <2>1. CASE Lost(q, "optIn")
      BY <2>1, <1>e
    <2>2. CASE ~Lost(q, "optIn")
      <3>1. [Pending(row) EXCEPT !.signup = TRUE] \in Row /\ Fresh(TRUE) \in Row
        <4>1. Pending(row) \in Row
          BY <1>b, RowForms
        <4> QED
          BY <1>b, <4>1, RowForms, Issues
      <3>2. [Pending(row) EXCEPT !.signup = TRUE].token = row.token
            /\ [Pending(row) EXCEPT !.signup = TRUE].fresh = row.fresh
            /\ ~Fresh(TRUE).fresh
        BY <1>b DEF Pending, Fresh, NoRow, Row
      <3>3. row' \in Row /\ (row'.fresh => row'.token # None)
        BY <1>14, <2>2, <3>1, <3>2 DEF WriteOptIn, TypeOK
      <3>4. row'.id \in Serial \cup {None}
        BY <3>3 DEF Row
      <3>5. pc' \in [Request -> Phase] /\ mem' \in [Request -> Mem]
        <4>1. \/ Goto(q, "activate", [Blank EXCEPT !.id = row'.id])
              \/ Done(q)
          BY <1>14, <2>2 DEF WriteOptIn
        <4> QED
          BY <4>1, <1>a, <3>4, GotoType, DoneType DEF Phase, Deciding
      <3>6. past' \in Past
        BY <1>14, <2>2, <1>b DEF WriteOptIn, Birth, Past
      <3>7. issued' \in [id : Nat, token : Nat, link : Nat]
        <4>1. issued' = issued \/ issued' = [issued EXCEPT !.id = @ + 1]
          BY <1>14, <2>2 DEF WriteOptIn
        <4> QED
          BY <4>1 DEF TypeOK
      <3> QED
        BY <1>14, <2>2, <3>3, <3>5, <3>6, <3>7 DEF WriteOptIn, TypeOK
    <2> QED
      BY <2>1, <2>2
  <1>15. ASSUME NEW q \in Request, Verify(q) PROVE TypeOK'
    <2>1. pc' \in [Request -> Phase] /\ mem' \in [Request -> Mem]
      BY <1>15, <1>a, <1>b, GotoType DEF Verify, Phase, Deciding
    <2> QED
      BY <1>15, <1>c, <2>1 DEF Verify, Arrive, TypeOK
  <1>16. ASSUME NEW q \in Request, ReadSignup(q) PROVE TypeOK'
    <2>1. \/ Goto(q, "activate", [Blank EXCEPT !.id = row.id])
          \/ Done(q)
      BY <1>16 DEF ReadSignup
    <2>2. pc' \in [Request -> Phase] /\ mem' \in [Request -> Mem]
      BY <2>1, <1>a, <1>b, GotoType, DoneType DEF Phase, Deciding
    <2> QED
      BY <1>16, <2>2 DEF ReadSignup, TypeOK
  <1>17. ASSUME NEW q \in Request, Activate(q) PROVE TypeOK'
    <2>1. \/ Goto(q, "rotate", [Blank EXCEPT !.id = row.id])
          \/ Done(q)
      BY <1>17 DEF Activate
    <2>2. pc' \in [Request -> Phase] /\ mem' \in [Request -> Mem]
      BY <2>1, <1>a, <1>b, GotoType, DoneType DEF Phase
    <2>3. row' \in Row /\ (row'.fresh => row'.token # None)
      BY <1>17, <1>b DEF Activate, Row, Status, None, TypeOK
    <2>4. past' \in Past
      BY <1>17, <1>b DEF Activate, Past
    <2> QED
      BY <1>17, <2>2, <2>3, <2>4 DEF Activate, TypeOK
  <1>18. ASSUME NEW q \in Request, AdminUnsubscribe(q) PROVE TypeOK'
    <2>1. pc' \in [Request -> Phase] /\ mem' \in [Request -> Mem]
      BY <1>18, <1>a, <1>b, GotoType DEF AdminUnsubscribe, Phase, Deciding
    <2> QED
      BY <1>18, <1>c, <2>1 DEF AdminUnsubscribe, Arrive, TypeOK
  <1>19. ASSUME NEW q \in Request, Stop(q) PROVE TypeOK'
    <2>1. CASE Lost(q, "stop")
      BY <2>1, <1>e
    <2>2. CASE ~Lost(q, "stop")
      <3>1. past' \in Past
        <4>1. 1..issued.token \in SUBSET Nat
          BY DEF TypeOK
        <4> QED
          BY <1>19, <2>2, <1>b, <4>1 DEF Stop, Past
      <3> QED
        BY <1>19, <2>2, <3>1, <1>h, DoneType DEF Stop, TypeOK
    <2> QED
      BY <2>1, <2>2
  <1>20. ASSUME NEW q \in Request, AdminResubscribe(q) PROVE TypeOK'
    BY <1>20, <1>c, <1>i DEF AdminResubscribe, Arrive, TypeOK
  <1>21. ASSUME NEW q \in Request, AdminAdd(q) PROVE TypeOK'
    <2>1. pc' \in [Request -> Phase] /\ mem' \in [Request -> Mem]
      <3>1. [id |-> row.id, serial |-> None, flag |-> CooledDown, admin |-> TRUE] \in Mem
        BY <1>b DEF Mem, CooledDown, Row
      <3>2. \/ RestoreOrInvite(q)
            \/ Goto(q, "invite", [id |-> row.id, serial |-> None, flag |-> CooledDown, admin |-> TRUE])
            \/ Goto(q, "add", Blank)
        BY <1>21 DEF AdminAdd
      <3> QED
        BY <3>1, <3>2, <1>a, <1>i, GotoType DEF Phase, Deciding
    <2> QED
      BY <1>21, <1>c, <2>1 DEF AdminAdd, Arrive, TypeOK
  <1>22. ASSUME NEW q \in Request, Add(q) PROVE TypeOK'
    <2>1. row' \in Row /\ row'.id \in Serial \cup {None} /\ ~row'.fresh
      BY <1>22, <1>b, Issues DEF Add, Row, Fresh, NoRow
    <2>2. [Blank EXCEPT !.id = row'.id, !.flag = TRUE] \in Mem
      BY <2>1, <1>a
    <2>3. pc' \in [Request -> Phase] /\ mem' \in [Request -> Mem]
      BY <1>22, <2>2, GotoType DEF Add, Phase, Deciding
    <2>4. issued' \in [id : Nat, token : Nat, link : Nat]
      BY <1>22 DEF Add, TypeOK
    <2> QED
      BY <1>22, <1>d, <2>1, <2>3, <2>4 DEF Add, Birth, TypeOK
  <1>23. ASSUME NEW q \in Request, Restore(q) PROVE TypeOK'
    <2>1. CASE Lost(q, "restore")
      BY <2>1, <1>e
    <2>2. CASE ~Lost(q, "restore")
      <3>1. row' \in Row /\ (row'.fresh => row'.token # None)
        BY <1>23, <2>2, <1>b DEF Restore, Row, Status, TypeOK
      <3> QED
        BY <1>23, <2>2, <3>1, DoneType DEF Restore, TypeOK
    <2> QED
      BY <2>1, <2>2
  <1>24. ASSUME NEW q \in Request, Invite(q) PROVE TypeOK'
    <2>1. CASE Lost(q, "invite")
      BY <2>1, <1>e
    <2>2. CASE ~Lost(q, "invite")
      <3> DEFINE invited == [Pending(row) EXCEPT !.signup = @ /\ ~mem[q].admin]
      <3>1. /\ invited \in Row /\ invited.token = row.token /\ invited.fresh = row.fresh
        <4>1. Pending(row) \in Row
          BY <1>b, RowForms
        <4>2. invited = [Pending(row) EXCEPT !.signup = Pending(row).signup /\ ~mem[q].admin]
          OBVIOUS
        <4>3. (Pending(row).signup /\ ~mem[q].admin) \in BOOLEAN
          OBVIOUS
        <4>4. invited \in Row
          BY <4>1, <4>2, <4>3, RowForms
        <4>5. Pending(row).token = row.token /\ Pending(row).fresh = row.fresh
          BY <1>b DEF Pending, Row
        <4> QED
          BY <4>1, <4>4, <4>5 DEF Row
      <3>2. \/ row' = invited
            \/ row' = Tokened(invited)
        BY <1>24, <2>2 DEF Invite
      <3> HIDE DEF invited
      <3>3. row' \in Row /\ (row'.fresh => row'.token # None)
        BY <3>1, <3>2, Issues DEF Tokened, TypeOK, Row, Serial, None
      <3>4. \/ Goto(q, "mailConfirm", [Blank EXCEPT !.serial = issued.token + 1])
            \/ Done(q)
        BY <1>24, <2>2 DEF Invite
      <3>5. pc' \in [Request -> Phase] /\ mem' \in [Request -> Mem]
        BY <3>4, <1>a, <1>b, Issues, GotoType, DoneType DEF Phase
      <3>6. issued' \in [id : Nat, token : Nat, link : Nat]
        BY <1>24, <2>2 DEF Invite, TypeOK
      <3>7. past' \in Past
        BY <1>24, <2>2, <1>b DEF Invite, Past
      <3> QED
        BY <1>24, <2>2, <3>3, <3>5, <3>6, <3>7 DEF Invite, TypeOK
    <2> QED
      BY <2>1, <2>2
  <1>25. ASSUME NEW q \in Request, Delete(q) PROVE TypeOK'
    BY <1>25, <1>c, <1>d, RowForms DEF Delete, Arrive, Birth, TypeOK, NoRow
  <1>26. ASSUME NEW q \in Request, SetEmailVerified(q) PROVE TypeOK'
    BY <1>26, <1>c DEF SetEmailVerified, Arrive, TypeOK
  <1>27. ASSUME NEW q \in Request, Crash(q) PROVE TypeOK'
    <2>1. past' \in Past
      BY <1>27, <1>b DEF Crash, Past
    <2>2. left' \in Left
      BY <1>27, <1>b, NewsletterAssumption DEF Crash, Left
    <2> QED
      BY <1>27, <2>1, <2>2, DoneType DEF Crash, TypeOK
  <1>28. CASE Purge
    BY <1>28, <1>b, <1>d, RowForms DEF Purge, Birth, TypeOK, NoRow
  <1>29. CASE Wait
    <2>1. row' \in Row /\ (row'.fresh => row'.token # None)
      BY <1>29, <1>b DEF Wait, Row, TypeOK
    <2> QED
      BY <1>29, <2>1 DEF Wait, TypeOK
  <1>30. CASE UNCHANGED vars
    BY <1>30 DEF vars, TypeOK
  <1> QED
    BY <1>1, <1>2, <1>3, <1>4, <1>5, <1>6, <1>7, <1>8, <1>9, <1>10, <1>11, <1>12,
       <1>13, <1>14, <1>15, <1>16, <1>17, <1>18, <1>19, <1>20, <1>21, <1>22, <1>23,
       <1>24, <1>25, <1>26, <1>27, <1>28, <1>29, <1>30
       DEF Next, Reader, Administrator

\* The row, the requests and the messages keep their types.
THEOREM Typing == Spec => []TypeOK
  BY TypeInit, TypeStep, PTL DEF Spec

-----------------------------------------------------------------------------
(***************************************************************************)
(* What the steps with alternatives do, field by field.                    *)
(***************************************************************************)
Others(q) == \A r \in Request : r # q => pc'[r] = pc[r] /\ mem'[r] = mem[r]

\* The step that only ends a request.
Ends(q) ==
    /\ pc'[q] = "idle" /\ mem'[q].id = None /\ mem'[q].serial = None /\ Others(q)
    /\ UNCHANGED <<row, issued, mailed, past>>

\* The fields of the past that a step leaves alone.
PastKept == /\ past'.proved = past.proved /\ past'.withdrawn = past.withdrawn
            /\ past'.handled = past.handled /\ past'.overtaken = past.overtaken
            /\ past'.crashed = past.crashed /\ past'.spent = past.spent
            /\ past'.revived = past.revived

\* A row is created: it has a new number and nothing behind it.
Born(q) ==
    /\ ~Here /\ row'.id = issued.id + 1 /\ issued'.id = issued.id + 1
    /\ row'.status = "PENDING" /\ row'.via = "nobody" /\ ~row'.confirmed
    /\ ~past'.proved /\ ~past'.withdrawn /\ ~past'.handled
    /\ past'.overtaken = past.overtaken /\ past'.crashed = past.crashed
    /\ past'.spent = past.spent /\ past'.revived = past.revived

\* A row becomes pending; what it was confirmed with stays.
Reopened ==
    /\ Here /\ row'.id = row.id /\ issued'.id = issued.id
    /\ row'.status = "PENDING" /\ row'.via = "nobody"
    /\ row'.confirmed = row.confirmed /\ row'.link = row.link

\* A confirm token is minted, and goes to the post.
Minted(q) ==
    /\ row'.token = issued.token + 1 /\ issued'.token = issued.token + 1
    /\ pc'[q] = "mailConfirm" /\ mem'[q].id = None /\ mem'[q].serial = issued.token + 1
Unminted == row'.token = row.token /\ issued'.token = issued.token

LEMMA GotoFields ==
    ASSUME TypeOK, NEW q \in Request, NEW phase, NEW memory, Goto(q, phase, memory)
    PROVE  pc'[q] = phase /\ mem'[q] = memory /\ Others(q)
  BY DEF TypeOK, Goto, Others

LEMMA DoneFields ==
    ASSUME TypeOK, NEW q \in Request, Done(q)
    PROVE  pc'[q] = "idle" /\ mem'[q].id = None /\ mem'[q].serial = None /\ Others(q)
  BY GotoFields DEF Done, Blank

LEMMA LostEnds ==
    ASSUME TypeOK, NEW q \in Request, NEW phase, Lost(q, phase)
    PROVE  Ends(q) /\ pc[q] = phase /\ ~Finds(q)
  BY DoneFields DEF Lost, Ends

LEMMA BirthFields ==
    ASSUME TypeOK, Birth
    PROVE  /\ ~past'.proved /\ ~past'.withdrawn /\ ~past'.handled
           /\ past'.overtaken = past.overtaken /\ past'.crashed = past.crashed
           /\ past'.spent = past.spent /\ past'.revived = past.revived
  BY DEF TypeOK, Birth, Past

LEMMA RowFields ==
    ASSUME TypeOK, NEW r \in Row, NEW b \in BOOLEAN
    PROVE  /\ Pending(r).id = r.id /\ Pending(r).status = "PENDING" /\ Pending(r).via = "nobody"
           /\ Pending(r).confirmed = r.confirmed /\ Pending(r).link = r.link
           /\ Pending(r).token = r.token /\ Pending(r).signup = r.signup
           /\ Tokened(r).id = r.id /\ Tokened(r).status = r.status /\ Tokened(r).via = r.via
           /\ Tokened(r).confirmed = r.confirmed /\ Tokened(r).link = r.link
           /\ Tokened(r).token = issued.token + 1 /\ Tokened(r).signup = r.signup
           /\ Fresh(b).id = issued.id + 1 /\ Fresh(b).status = "PENDING"
           /\ Fresh(b).via = "nobody" /\ ~Fresh(b).confirmed /\ Fresh(b).token = None
           /\ Fresh(b).signup = b
  <1>1. /\ Pending(r).id = r.id /\ Pending(r).status = "PENDING" /\ Pending(r).via = "nobody"
        /\ Pending(r).confirmed = r.confirmed /\ Pending(r).link = r.link
        /\ Pending(r).token = r.token /\ Pending(r).signup = r.signup
    BY DEF Pending, Row
  <1>2. /\ Tokened(r).id = r.id /\ Tokened(r).status = r.status /\ Tokened(r).via = r.via
        /\ Tokened(r).confirmed = r.confirmed /\ Tokened(r).link = r.link
        /\ Tokened(r).token = issued.token + 1 /\ Tokened(r).signup = r.signup
    BY DEF Tokened, Row
  <1>3. /\ Fresh(b).id = issued.id + 1 /\ Fresh(b).status = "PENDING"
        /\ Fresh(b).via = "nobody" /\ ~Fresh(b).confirmed /\ Fresh(b).token = None
        /\ Fresh(b).signup = b
    BY DEF Fresh, NoRow
  <1> QED
    BY <1>1, <1>2, <1>3

LEMMA Edits ==
    ASSUME NEW r \in Row, NEW b \in BOOLEAN
    PROVE  /\ [r EXCEPT !.signup = b].id = r.id
           /\ [r EXCEPT !.signup = b].status = r.status
           /\ [r EXCEPT !.signup = b].via = r.via
           /\ [r EXCEPT !.signup = b].confirmed = r.confirmed
           /\ [r EXCEPT !.signup = b].link = r.link
           /\ [r EXCEPT !.signup = b].token = r.token
           /\ [r EXCEPT !.signup = b].signup = b
  BY DEF Row

LEMMA UpsertDoes ==
    ASSUME TypeOK, NEW q \in Request, Upsert(q)
    PROVE  /\ Minted(q) /\ Others(q) /\ mailed' = mailed /\ ~row'.signup
           /\ \/ Born(q)
              \/ Reopened /\ PastKept
  <1>1. row \in Row /\ Pending(row) \in Row /\ [Pending(row) EXCEPT !.signup = FALSE] \in Row
        /\ Fresh(FALSE) \in Row
    <2>1. row \in Row
      BY DEF TypeOK
    <2>2. Pending(row) \in Row
      BY <2>1, RowForms
    <2> QED
      BY <2>1, <2>2, RowForms, Issues
  <1>2. pc'[q] = "mailConfirm" /\ mem'[q] = [Blank EXCEPT !.serial = issued.token + 1] /\ Others(q)
    BY GotoFields DEF Upsert
  <1>3. mem'[q].id = None /\ mem'[q].serial = issued.token + 1 /\ mailed' = mailed
    BY <1>2 DEF Upsert, Blank
  <1>4. CASE Here
    <2> DEFINE r == [Pending(row) EXCEPT !.signup = FALSE]
    <2>1. /\ r \in Row /\ row' = Tokened(r) /\ past' = past
          /\ issued' = [issued EXCEPT !.token = @ + 1]
      BY <1>1, <1>4 DEF Upsert
    <2>2. /\ r.id = row.id /\ r.status = "PENDING" /\ r.via = "nobody" /\ ~r.signup
          /\ r.confirmed = row.confirmed /\ r.link = row.link
      <3>1. /\ Pending(row).id = row.id /\ Pending(row).status = "PENDING"
            /\ Pending(row).via = "nobody" /\ Pending(row).confirmed = row.confirmed
            /\ Pending(row).link = row.link
        BY <1>1, RowFields
      <3>2. /\ r.id = Pending(row).id /\ r.status = Pending(row).status
            /\ r.via = Pending(row).via /\ r.confirmed = Pending(row).confirmed
            /\ r.link = Pending(row).link /\ r.signup = FALSE
        BY <1>1, Edits
      <3> QED
        BY <3>1, <3>2
    <2> HIDE DEF r
    <2>3. /\ row'.id = row.id /\ row'.status = "PENDING" /\ row'.via = "nobody" /\ ~row'.signup
          /\ row'.confirmed = row.confirmed /\ row'.link = row.link
          /\ row'.token = issued.token + 1
      BY <2>1, <2>2, RowFields
    <2>4. issued'.id = issued.id /\ issued'.token = issued.token + 1
      BY <2>1 DEF TypeOK
    <2> QED
      BY <1>2, <1>3, <1>4, <2>1, <2>3, <2>4 DEF Minted, Reopened, PastKept
  <1>5. CASE ~Here
    <2>1. /\ row' = Tokened(Fresh(FALSE)) /\ Birth
          /\ issued' = [issued EXCEPT !.token = issued.token + 1, !.id = issued.id + 1]
      BY <1>5 DEF Upsert
    <2>2. /\ Fresh(FALSE).id = issued.id + 1 /\ Fresh(FALSE).status = "PENDING"
          /\ Fresh(FALSE).via = "nobody" /\ ~Fresh(FALSE).confirmed /\ ~Fresh(FALSE).signup
      BY <1>1, RowFields
    <2>3. /\ row'.id = issued.id + 1 /\ row'.status = "PENDING" /\ row'.via = "nobody"
          /\ ~row'.confirmed /\ ~row'.signup /\ row'.token = issued.token + 1
      BY <1>1, <2>1, <2>2, RowFields
    <2>4. issued'.id = issued.id + 1 /\ issued'.token = issued.token + 1
      BY <2>1 DEF TypeOK
    <2>5. Minted(q)
      BY <1>2, <1>3, <2>3, <2>4 DEF Minted
    <2>6. Born(q)
      BY <1>5, <2>1, <2>3, <2>4, BirthFields DEF Born
    <2> QED
      BY <1>2, <1>3, <2>3, <2>5, <2>6
  <1> QED
    BY <1>4, <1>5

\* A message goes out or is refused, and its request ends.
LEMMA MailConfirmDoes ==
    ASSUME TypeOK, NEW q \in Request, MailConfirm(q)
    PROVE  /\ pc[q] = "mailConfirm" /\ pc'[q] = "idle"
           /\ mem'[q].id = None /\ mem'[q].serial = None /\ Others(q)
           /\ UNCHANGED <<row, past, issued>>
           /\ mailed'.token \subseteq mailed.token \cup {mem[q].serial}
           /\ mailed'.token \cup mailed'.noToken
                  = (mailed.token \cup mailed.noToken) \cup {mem[q].serial}
           /\ mailed'.link = mailed.link /\ mailed'.noLink = mailed.noLink
  <1>1. /\ pc[q] = "mailConfirm" /\ Done(q) /\ UNCHANGED <<row, past, issued>>
        /\ \/ mailed' = [mailed EXCEPT !.token = @ \cup {mem[q].serial}]
           \/ mailed' = [mailed EXCEPT !.noToken = @ \cup {mem[q].serial}]
    BY DEF MailConfirm
  <1>2. mailed \in Mailed
    BY DEF TypeOK
  <1>3. /\ mailed'.token \subseteq mailed.token \cup {mem[q].serial}
        /\ mailed'.token \cup mailed'.noToken
               = (mailed.token \cup mailed.noToken) \cup {mem[q].serial}
        /\ mailed'.link = mailed.link /\ mailed'.noLink = mailed.noLink
    BY <1>1, <1>2 DEF Mailed
  <1> QED
    BY <1>1, <1>3, DoneFields

LEMMA WelcomeDoes ==
    ASSUME TypeOK, NEW q \in Request, Welcome(q)
    PROVE  /\ pc[q] = "welcome" /\ pc'[q] = "idle"
           /\ mem'[q].id = None /\ mem'[q].serial = None /\ Others(q)
           /\ UNCHANGED <<row, past, issued>>
           /\ mailed'.link \cup mailed'.noLink
                  = (mailed.link \cup mailed.noLink) \cup {mem[q].serial}
           /\ mailed'.token = mailed.token /\ mailed'.noToken = mailed.noToken
  <1>1. /\ pc[q] = "welcome" /\ Done(q) /\ UNCHANGED <<row, past, issued>>
        /\ \/ mailed' = [mailed EXCEPT !.link = @ \cup {mem[q].serial}]
           \/ mailed' = [mailed EXCEPT !.noLink = @ \cup {mem[q].serial}]
    BY DEF Welcome
  <1>2. mailed \in Mailed
    BY DEF TypeOK
  <1>3. /\ mailed'.link \cup mailed'.noLink
               = (mailed.link \cup mailed.noLink) \cup {mem[q].serial}
        /\ mailed'.token = mailed.token /\ mailed'.noToken = mailed.noToken
    BY <1>1, <1>2 DEF Mailed
  <1> QED
    BY <1>1, <1>3, DoneFields

LEMMA RotateDoes ==
    ASSUME TypeOK, NEW q \in Request, Rotate(q), ~Lost(q, "rotate")
    PROVE  /\ pc[q] = "rotate" /\ Finds(q)
           /\ row'.id = row.id /\ row'.status = row.status /\ row'.via = row.via
           /\ row'.confirmed = row.confirmed /\ row'.token = row.token
           /\ row'.signup = row.signup
           /\ pc'[q] = "welcome" /\ mem'[q].id = None /\ mem'[q].serial = row'.link /\ Others(q)
           /\ issued'.id = issued.id /\ issued'.token = issued.token
           /\ UNCHANGED <<mailed, past>>
  <1>1. /\ pc[q] = "rotate" /\ Finds(q)
        /\ row' = [row EXCEPT !.link = issued.link + 1]
        /\ issued' = [issued EXCEPT !.link = @ + 1]
        /\ Goto(q, "welcome", [Blank EXCEPT !.serial = issued.link + 1])
        /\ UNCHANGED <<mailed, past>>
    BY DEF Rotate
  <1>2. pc'[q] = "welcome" /\ mem'[q] = [Blank EXCEPT !.serial = issued.link + 1] /\ Others(q)
    BY <1>1, GotoFields
  <1>3. mem'[q].id = None /\ mem'[q].serial = issued.link + 1
    BY <1>2 DEF Blank
  <1>4. issued'.id = issued.id /\ issued'.token = issued.token
    BY <1>1 DEF TypeOK
  <1> QED
    BY <1>1, <1>2, <1>3, <1>4 DEF TypeOK, Row

\* A no, whoever gives it.
Offed(q) ==
    /\ Finds(q) /\ row'.id = row.id /\ row'.status = "UNSUBSCRIBED" /\ row'.token = None
    /\ row'.signup = row.signup /\ row'.confirmed = row.confirmed /\ row'.link = row.link
    /\ pc'[q] = "idle" /\ mem'[q].id = None /\ mem'[q].serial = None /\ Others(q)
    /\ past'.spent = 1..issued.token
    /\ past'.overtaken = (past.overtaken \/ Overtakes(q))
    /\ past'.proved = past.proved /\ past'.crashed = past.crashed
    /\ past'.revived = past.revived
    /\ UNCHANGED <<issued, mailed>>

LEMMA UnsubscribeDoes ==
    ASSUME TypeOK, NEW q \in Request, Unsubscribe(q), ~Lost(q, "unsubscribe")
    PROVE  /\ Offed(q) /\ pc[q] = "unsubscribe" /\ row'.via = "subscriber"
           /\ past'.withdrawn /\ past'.handled = past.handled
  <1>1. /\ pc[q] = "unsubscribe" /\ Finds(q) /\ Off("subscriber") /\ ReadersNo(q) /\ Done(q)
        /\ UNCHANGED <<issued, mailed>>
    BY DEF Unsubscribe
  <1>2. pc'[q] = "idle" /\ mem'[q].id = None /\ mem'[q].serial = None /\ Others(q)
    BY <1>1, DoneFields
  <1>3. /\ row'.id = row.id /\ row'.status = "UNSUBSCRIBED" /\ row'.token = None
        /\ row'.signup = row.signup /\ row'.confirmed = row.confirmed /\ row'.link = row.link
        /\ row'.via = "subscriber"
    BY <1>1 DEF Off, TypeOK, Row
  <1>4. /\ past'.spent = 1..issued.token
        /\ past'.overtaken = (past.overtaken \/ Overtakes(q))
        /\ past'.proved = past.proved /\ past'.crashed = past.crashed
        /\ past'.revived = past.revived
        /\ past'.withdrawn /\ past'.handled = past.handled
    BY <1>1 DEF ReadersNo, TypeOK, Past
  <1> QED
    BY <1>1, <1>2, <1>3, <1>4 DEF Offed

LEMMA StopDoes ==
    ASSUME TypeOK, NEW q \in Request, Stop(q), ~Lost(q, "stop")
    PROVE  /\ Offed(q) /\ pc[q] = "stop" /\ row'.via = "admin"
           /\ past'.withdrawn = past.withdrawn /\ past'.handled
  <1>1. /\ pc[q] = "stop" /\ Finds(q) /\ Off("admin") /\ Done(q)
        /\ past' = [past EXCEPT !.handled = TRUE, !.overtaken = @ \/ Overtakes(q),
                                !.spent = 1..issued.token]
        /\ UNCHANGED <<issued, mailed>>
    BY DEF Stop
  <1>2. pc'[q] = "idle" /\ mem'[q].id = None /\ mem'[q].serial = None /\ Others(q)
    BY <1>1, DoneFields
  <1>3. /\ row'.id = row.id /\ row'.status = "UNSUBSCRIBED" /\ row'.token = None
        /\ row'.signup = row.signup /\ row'.confirmed = row.confirmed /\ row'.link = row.link
        /\ row'.via = "admin"
    BY <1>1 DEF Off, TypeOK, Row
  <1>4. /\ past'.spent = 1..issued.token
        /\ past'.overtaken = (past.overtaken \/ Overtakes(q))
        /\ past'.proved = past.proved /\ past'.crashed = past.crashed
        /\ past'.revived = past.revived
        /\ past'.withdrawn = past.withdrawn /\ past'.handled
    BY <1>1 DEF TypeOK, Past
  <1> QED
    BY <1>1, <1>2, <1>3, <1>4 DEF Offed

LEMMA WriteOptInDoes ==
    ASSUME TypeOK, NEW q \in Request, WriteOptIn(q), ~Lost(q, "optIn")
    PROVE  /\ pc[q] = "optIn" /\ row'.signup /\ Others(q) /\ mailed' = mailed
           /\ \/ pc'[q] = "activate" /\ mem'[q].id = row'.id /\ mem'[q].serial = None
              \/ pc'[q] = "idle" /\ mem'[q].id = None /\ mem'[q].serial = None
           /\ issued'.token = issued.token /\ row'.token \in {row.token, None}
           /\ ~past'.withdrawn
           /\ \/ Born(q) /\ row'.token = None
              \/ /\ Reopened /\ row'.token = row.token
                 /\ past'.proved = past.proved /\ past'.handled = past.handled
                 /\ past'.overtaken = past.overtaken /\ past'.crashed = past.crashed
                 /\ past'.spent = past.spent /\ past'.revived = past.revived
  <1>1. row \in Row /\ Pending(row) \in Row /\ Fresh(TRUE) \in Row
    <2>1. row \in Row
      BY DEF TypeOK
    <2> QED
      BY <2>1, RowForms, Issues
  <1>2. /\ pc[q] = "optIn" /\ mailed' = mailed
        /\ \/ /\ mem[q].id # None /\ Finds(q)
              /\ row' = [Pending(row) EXCEPT !.signup = TRUE]
              /\ past' = [past EXCEPT !.withdrawn = FALSE]
              /\ UNCHANGED issued
           \/ /\ mem[q].id = None /\ ~Here
              /\ row' = Fresh(TRUE)
              /\ Birth
              /\ issued' = [issued EXCEPT !.id = @ + 1]
        /\ \/ Goto(q, "activate", [Blank EXCEPT !.id = row'.id])
           \/ Done(q)
    BY DEF WriteOptIn
  <1>3. /\ Others(q)
        /\ \/ pc'[q] = "activate" /\ mem'[q].id = row'.id /\ mem'[q].serial = None
           \/ pc'[q] = "idle" /\ mem'[q].id = None /\ mem'[q].serial = None
    <2>1. CASE Goto(q, "activate", [Blank EXCEPT !.id = row'.id])
      <3>1. pc'[q] = "activate" /\ mem'[q] = [Blank EXCEPT !.id = row'.id] /\ Others(q)
        BY <2>1, GotoFields
      <3> QED
        BY <3>1 DEF Blank
    <2>2. CASE Done(q)
      BY <2>2, DoneFields
    <2> QED
      BY <1>2, <2>1, <2>2
  <1>4. CASE /\ mem[q].id # None /\ Finds(q)
             /\ row' = [Pending(row) EXCEPT !.signup = TRUE]
             /\ past' = [past EXCEPT !.withdrawn = FALSE]
             /\ UNCHANGED issued
    <2>1. /\ row'.id = row.id /\ row'.status = "PENDING" /\ row'.via = "nobody" /\ row'.signup
          /\ row'.confirmed = row.confirmed /\ row'.link = row.link /\ row'.token = row.token
      <3>1. /\ Pending(row).id = row.id /\ Pending(row).status = "PENDING"
            /\ Pending(row).via = "nobody" /\ Pending(row).confirmed = row.confirmed
            /\ Pending(row).link = row.link /\ Pending(row).token = row.token
        BY <1>1, RowFields
      <3> DEFINE r == [Pending(row) EXCEPT !.signup = TRUE]
      <3>2. /\ r.id = Pending(row).id /\ r.status = Pending(row).status
            /\ r.via = Pending(row).via /\ r.confirmed = Pending(row).confirmed
            /\ r.link = Pending(row).link /\ r.token = Pending(row).token /\ r.signup = TRUE
        BY <1>1, Edits
      <3> QED
        BY <1>4, <3>1, <3>2
    <2>2. /\ past'.proved = past.proved /\ past'.handled = past.handled
          /\ past'.overtaken = past.overtaken /\ past'.crashed = past.crashed
          /\ past'.spent = past.spent /\ past'.revived = past.revived /\ ~past'.withdrawn
      BY <1>4 DEF TypeOK, Past
    <2> QED
      BY <1>2, <1>3, <1>4, <2>1, <2>2 DEF Reopened, Finds
  <1>5. CASE /\ mem[q].id = None /\ ~Here
             /\ row' = Fresh(TRUE)
             /\ Birth
             /\ issued' = [issued EXCEPT !.id = @ + 1]
    <2>1. /\ row'.id = issued.id + 1 /\ row'.status = "PENDING" /\ row'.via = "nobody"
          /\ ~row'.confirmed /\ row'.signup /\ row'.token = None
      BY <1>1, <1>5, RowFields
    <2>2. issued'.id = issued.id + 1 /\ issued'.token = issued.token
      BY <1>5 DEF TypeOK
    <2> QED
      BY <1>2, <1>3, <1>5, <2>1, <2>2, BirthFields DEF Born
  <1> QED
    BY <1>2, <1>4, <1>5

LEMMA ActivateDoes ==
    ASSUME TypeOK, NEW q \in Request, Activate(q)
    PROVE  \/ Ends(q) /\ pc[q] = "activate"
           \/ /\ pc[q] = "activate" /\ Finds(q) /\ row.status = "PENDING"
              /\ row'.id = row.id /\ row'.status = "ACTIVE" /\ row'.confirmed
              /\ row'.token = None /\ row'.via = row.via /\ row'.link = row.link
              /\ pc'[q] = "rotate" /\ mem'[q].id = row.id /\ mem'[q].serial = None /\ Others(q)
              /\ past'.proved /\ past'.overtaken = (past.overtaken \/ Overtakes(q))
              /\ past'.withdrawn = past.withdrawn /\ past'.handled = past.handled
              /\ past'.crashed = past.crashed /\ past'.spent = past.spent
              /\ past'.revived = past.revived
              /\ UNCHANGED <<issued, mailed>>
  <1>1. CASE Finds(q) /\ row.status = "PENDING"
    <2>1. /\ pc[q] = "activate"
          /\ row' = [row EXCEPT !.status = "ACTIVE", !.confirmed = TRUE, !.token = None, !.fresh = FALSE]
          /\ past' = [past EXCEPT !.proved = TRUE, !.overtaken = @ \/ Overtakes(q)]
          /\ Goto(q, "rotate", [Blank EXCEPT !.id = row.id])
          /\ UNCHANGED <<issued, mailed>>
      BY <1>1 DEF Activate
    <2>2. pc'[q] = "rotate" /\ mem'[q] = [Blank EXCEPT !.id = row.id] /\ Others(q)
      BY <2>1, GotoFields
    <2>3. mem'[q].id = row.id /\ mem'[q].serial = None
      BY <2>2 DEF Blank
    <2>4. /\ row'.id = row.id /\ row'.status = "ACTIVE" /\ row'.confirmed
          /\ row'.token = None /\ row'.via = row.via /\ row'.link = row.link
      BY <2>1 DEF TypeOK, Row
    <2>5. /\ past'.proved /\ past'.overtaken = (past.overtaken \/ Overtakes(q))
          /\ past'.withdrawn = past.withdrawn /\ past'.handled = past.handled
          /\ past'.crashed = past.crashed /\ past'.spent = past.spent
          /\ past'.revived = past.revived
      BY <2>1 DEF TypeOK, Past
    <2> QED
      BY <1>1, <2>1, <2>2, <2>3, <2>4, <2>5
  <1>2. CASE ~(Finds(q) /\ row.status = "PENDING")
    <2>1. pc[q] = "activate" /\ Done(q) /\ UNCHANGED <<row, issued, mailed, past>>
      BY <1>2 DEF Activate
    <2> QED
      BY <2>1, DoneFields DEF Ends
  <1> QED
    BY <1>1, <1>2

LEMMA RestoreOrInviteDoes ==
    ASSUME TypeOK, NEW q \in Request, RestoreOrInvite(q)
    PROVE  /\ mem'[q].id = row.id /\ mem'[q].serial = None /\ Others(q)
           /\ \/ pc'[q] = "restore" /\ row.via = "admin" /\ row.confirmed
              \/ pc'[q] = "invite"
  <1>1. CASE row.via = "admin" /\ row.confirmed
    <2>1. pc'[q] = "restore" /\ mem'[q] = [Blank EXCEPT !.id = row.id] /\ Others(q)
      BY <1>1, GotoFields DEF RestoreOrInvite
    <2> QED
      BY <1>1, <2>1 DEF Blank
  <1>2. CASE ~(row.via = "admin" /\ row.confirmed)
    <2>1. /\ pc'[q] = "invite" /\ Others(q)
          /\ mem'[q] = [Blank EXCEPT !.id = row.id, !.flag = CooledDown]
      BY <1>2, GotoFields DEF RestoreOrInvite
    <2> QED
      BY <2>1 DEF Blank
  <1> QED
    BY <1>1, <1>2

LEMMA RestoreDoes ==
    ASSUME TypeOK, NEW q \in Request, Restore(q), ~Lost(q, "restore")
    PROVE  /\ pc[q] = "restore" /\ Finds(q)
           /\ row'.id = row.id /\ row'.status = "ACTIVE" /\ row'.via = "nobody"
           /\ row'.confirmed = row.confirmed /\ row'.link = row.link /\ row'.token = row.token
           /\ pc'[q] = "idle" /\ mem'[q].id = None /\ mem'[q].serial = None /\ Others(q)
           /\ UNCHANGED <<issued, mailed, past>>
  <1>1. /\ pc[q] = "restore" /\ Finds(q)
        /\ row' = [row EXCEPT !.status = "ACTIVE", !.via = "nobody"]
        /\ Done(q) /\ UNCHANGED <<issued, mailed, past>>
    BY DEF Restore
  <1>2. /\ row'.id = row.id /\ row'.status = "ACTIVE" /\ row'.via = "nobody"
        /\ row'.confirmed = row.confirmed /\ row'.link = row.link /\ row'.token = row.token
    BY <1>1 DEF TypeOK, Row
  <1> QED
    BY <1>1, <1>2, DoneFields

LEMMA InviteDoes ==
    ASSUME TypeOK, NEW q \in Request, Invite(q), ~Lost(q, "invite")
    PROVE  /\ pc[q] = "invite" /\ Finds(q) /\ Reopened /\ Others(q) /\ mailed' = mailed
           /\ \/ Minted(q) /\ mem[q].flag
              \/ Unminted /\ ~mem[q].flag /\ pc'[q] = "idle" /\ mem'[q].id = None /\ mem'[q].serial = None
           /\ past'.handled /\ past'.proved = past.proved /\ past'.withdrawn = past.withdrawn
           /\ past'.overtaken = past.overtaken /\ past'.crashed = past.crashed
           /\ past'.spent = past.spent /\ past'.revived = past.revived
  <1> DEFINE b == Pending(row).signup /\ ~mem[q].admin
             invited == [Pending(row) EXCEPT !.signup = @ /\ ~mem[q].admin]
  <1>1. row \in Row /\ Pending(row) \in Row
    <2>1. row \in Row
      BY DEF TypeOK
    <2> QED
      BY <2>1, RowForms
  <1>2. b \in BOOLEAN /\ invited = [Pending(row) EXCEPT !.signup = b]
    OBVIOUS
  <1> HIDE DEF b, invited
  <1>3. /\ invited \in Row
        /\ invited.id = row.id /\ invited.status = "PENDING" /\ invited.via = "nobody"
        /\ invited.confirmed = row.confirmed /\ invited.link = row.link
        /\ invited.token = row.token
    BY <1>1, <1>2, RowForms, RowFields, Edits
  <1>4. /\ pc[q] = "invite" /\ Finds(q) /\ mailed' = mailed
        /\ \/ /\ mem[q].flag
              /\ row' = Tokened(invited)
              /\ issued' = [issued EXCEPT !.token = @ + 1]
              /\ Goto(q, "mailConfirm", [Blank EXCEPT !.serial = issued.token + 1])
           \/ /\ ~mem[q].flag
              /\ row' = invited
              /\ Done(q)
              /\ UNCHANGED issued
        /\ past' = [past EXCEPT !.handled = TRUE]
    BY DEF Invite, invited
  <1>5. /\ past'.handled /\ past'.proved = past.proved /\ past'.withdrawn = past.withdrawn
        /\ past'.overtaken = past.overtaken /\ past'.crashed = past.crashed
        /\ past'.spent = past.spent /\ past'.revived = past.revived
    BY <1>4 DEF TypeOK, Past
  <1>6. CASE /\ mem[q].flag
             /\ row' = Tokened(invited)
             /\ issued' = [issued EXCEPT !.token = @ + 1]
             /\ Goto(q, "mailConfirm", [Blank EXCEPT !.serial = issued.token + 1])
    <2>1. /\ row'.id = row.id /\ row'.status = "PENDING" /\ row'.via = "nobody"
          /\ row'.confirmed = row.confirmed /\ row'.link = row.link
          /\ row'.token = issued.token + 1
      BY <1>3, <1>6, RowFields
    <2>2. issued'.id = issued.id /\ issued'.token = issued.token + 1
      BY <1>6 DEF TypeOK
    <2>3. pc'[q] = "mailConfirm" /\ mem'[q] = [Blank EXCEPT !.serial = issued.token + 1] /\ Others(q)
      BY <1>6, GotoFields
    <2>4. mem'[q].id = None /\ mem'[q].serial = issued.token + 1
      BY <2>3 DEF Blank
    <2> QED
      BY <1>4, <1>5, <1>6, <2>1, <2>2, <2>3, <2>4 DEF Reopened, Minted, Finds
  <1>7. CASE ~mem[q].flag /\ row' = invited /\ Done(q) /\ UNCHANGED issued
    BY <1>3, <1>4, <1>5, <1>7, DoneFields DEF Reopened, Unminted, Finds
  <1> QED
    BY <1>4, <1>6, <1>7

-----------------------------------------------------------------------------
(***************************************************************************)
(* The safety of the list, by an invariant in five parts.                  *)
(***************************************************************************)
\* Serial numbers are handed out once.
Numbered ==
    /\ row.id <= issued.id /\ row.token <= issued.token
    /\ \A q \in Request : mem[q].id <= issued.id
    /\ \A t \in past.spent : t <= issued.token

\* A request that has a confirm token in hand has a real one, and so has a message.
Carried ==
    /\ None \notin past.spent /\ None \notin mailed.token
    /\ \A q \in Request : pc[q] \in {"confirm", "mailConfirm"} => mem[q].serial # None

\* A confirmed row was proved; what is on the list was confirmed, and so is what an
\* administrator is about to restore, which the list itself had stopped.
Proved ==
    /\ Here /\ row.confirmed => past.proved
    /\ Here /\ row.status = "ACTIVE" => row.confirmed
    /\ Here /\ row.via = "admin" => past.handled
    /\ \A q \in Request : pc[q] = "restore" /\ Finds(q) => row.confirmed /\ past.handled

\* The row never has a token that was spent.
Unspent == row.token \notin past.spent /\ ~past.revived

\* Where a no has been given and no administrator or race has come between, the row is
\* not pending as a sign-up, and no activation of it is on its way.
Excused == past.handled \/ past.overtaken
Withdrawn ==
    /\ Here /\ row.status = "ACTIVE" /\ past.withdrawn => Excused
    /\ Here /\ row.status = "UNSUBSCRIBED" => past.withdrawn \/ Excused
    /\ Here /\ row.status = "PENDING" /\ row.signup /\ past.withdrawn => Excused
    /\ \A q \in Request : pc[q] = "activate" /\ Finds(q) /\ past.withdrawn => Excused

\* The link of a confirmed row is in a message, sent or refused, or its welcome is on the
\* way.
Welcomed ==
    \/ row.link \in mailed.link \cup mailed.noLink
    \/ \E q \in Request : \/ pc[q] = "rotate" /\ Finds(q)
                          \/ pc[q] = "welcome" /\ mem[q].serial = row.link
Held == Here /\ row.confirmed /\ ~past.crashed => Welcomed

ListInv == Numbered /\ Carried /\ Proved /\ Unspent /\ Withdrawn /\ Held

LEMMA ListInit == Init => ListInv
  <1> SUFFICES ASSUME Init PROVE ListInv
    OBVIOUS
  <1>1. ~Here
    BY DEF Init, Here, NoRow
  <1> QED
    BY <1>1 DEF Init, ListInv, Numbered, Carried, Proved, Unspent, Withdrawn, Held, Finds,
                NoRow, Blank, None

\* A step of a request that was posting no welcome keeps the one that is on the way.
LEMMA KeepsHeld ==
    ASSUME TypeOK, Held, Here, NEW q \in Request, Others(q), pc[q] \notin {"rotate", "welcome"},
           row'.id = row.id, row'.link = row.link, row'.confirmed = row.confirmed,
           mailed' = mailed, past'.crashed = past.crashed
    PROVE  Held'
  <1> SUFFICES ASSUME row'.confirmed, ~past'.crashed PROVE Welcomed'
    BY DEF Held
  <1>1. Welcomed
    BY DEF Held
  <1>2. CASE row.link \in mailed.link \cup mailed.noLink
    BY <1>2 DEF Welcomed
  <1>3. CASE row.link \notin mailed.link \cup mailed.noLink
    <2>1. PICK r \in Request : \/ pc[r] = "rotate" /\ Finds(r)
                               \/ pc[r] = "welcome" /\ mem[r].serial = row.link
      BY <1>1, <1>3 DEF Welcomed
    <2>2. r # q /\ pc'[r] = pc[r] /\ mem'[r] = mem[r]
      BY <2>1 DEF Others
    <2> QED
      BY <2>1, <2>2 DEF Welcomed, Finds, Here
  <1> QED
    BY <1>2, <1>3

LEMMA EndsHeld ==
    ASSUME TypeOK, Held, NEW q \in Request, Ends(q),
           \/ pc[q] \notin {"rotate", "welcome"}
           \/ pc[q] = "rotate" /\ ~Finds(q)
    PROVE  Held'
  <1> SUFFICES ASSUME Here, row.confirmed, ~past.crashed PROVE Welcomed'
    BY DEF Ends, Held, Here
  <1>1. Welcomed
    BY DEF Held
  <1>2. CASE row.link \in mailed.link \cup mailed.noLink
    BY <1>2 DEF Welcomed, Ends
  <1>3. CASE row.link \notin mailed.link \cup mailed.noLink
    <2>1. PICK r \in Request : \/ pc[r] = "rotate" /\ Finds(r)
                               \/ pc[r] = "welcome" /\ mem[r].serial = row.link
      BY <1>1, <1>3 DEF Welcomed
    <2>2. r # q /\ pc'[r] = pc[r] /\ mem'[r] = mem[r]
      BY <2>1 DEF Ends, Others
    <2> QED
      BY <2>1, <2>2 DEF Ends, Welcomed, Finds, Here
  <1> QED
    BY <1>2, <1>3

LEMMA NumberedStep == TypeOK /\ TypeOK' /\ ListInv /\ [Next]_vars => Numbered'
  <1> SUFFICES ASSUME TypeOK, TypeOK', ListInv, [Next]_vars PROVE Numbered'
    OBVIOUS
  <1> USE DEF requestVars
  <1>a. /\ row \in Row /\ row' \in Row /\ past \in Past /\ past' \in Past
        /\ issued.id \in Nat /\ issued.token \in Nat /\ issued.link \in Nat
        /\ \A q \in Request : mem[q] \in Mem
    BY DEF TypeOK
  <1>1. ASSUME NEW q \in Request, Subscribe(q) PROVE Numbered'
    BY <1>1, <1>a DEF Subscribe, Goto, Arrive, Here, Blank, TypeOK, Row, Mem, Past, Serial,
         None, ListInv, Numbered
  <1>2. ASSUME NEW q \in Request, Upsert(q) PROVE Numbered'
    <2>1. /\ row'.id <= issued'.id /\ row'.token <= issued'.token /\ past'.spent = past.spent
          /\ issued.id <= issued'.id /\ issued.token <= issued'.token
      <3>1. CASE Born(q)
        BY <1>2, <1>a, <3>1, UpsertDoes DEF Born, Minted, Row, Serial, None
      <3>2. CASE Reopened /\ PastKept
        BY <1>2, <1>a, <3>2, UpsertDoes DEF Reopened, PastKept, Minted, ListInv, Numbered, Row, Serial, None
      <3> QED
        BY <1>2, <3>1, <3>2, UpsertDoes
    <2>2. mem'[q].id = None /\ Others(q)
      BY <1>2, UpsertDoes DEF Minted
    <2>3. \A t \in past'.spent : t <= issued'.token
      BY <1>a, <2>1 DEF TypeOK, ListInv, Numbered, Past
    <2>4. \A r \in Request : mem'[r].id <= issued'.id
      BY <1>a, <2>1, <2>2 DEF Others, TypeOK, ListInv, Numbered, Mem, Serial, None
    <2> QED
      BY <2>1, <2>3, <2>4 DEF Numbered
  <1>3. ASSUME NEW q \in Request, Outrun(q) PROVE Numbered'
    BY <1>3, <1>a DEF Outrun, Goto, Done, Here, Blank, TypeOK, Row, Mem, Past, Serial, None,
         ListInv, Numbered
  <1>4. ASSUME NEW q \in Request, MailConfirm(q) PROVE Numbered'
    BY <1>4, <1>a, MailConfirmDoes DEF ListInv, Numbered, Others, None
  <1>5. ASSUME NEW q \in Request, Click(q) PROVE Numbered'
    BY <1>5, <1>a DEF Click, Goto, Arrive, Here, Blank, TypeOK, Row, Mem, Past, Serial,
         None, ListInv, Numbered
  <1>6. ASSUME NEW q \in Request, Confirm(q) PROVE Numbered'
    BY <1>6, <1>a DEF Confirm, Goto, Here, Blank, TypeOK, Row, Mem, Past, Serial, None,
         ListInv, Numbered
  <1>7. ASSUME NEW q \in Request, Beaten(q) PROVE Numbered'
    BY <1>7, <1>a DEF Beaten, Goto, Done, Here, Blank, TypeOK, Row, Mem, Past, Serial, None,
         ListInv, Numbered
  <1>8. ASSUME NEW q \in Request, Rotate(q) PROVE Numbered'
    <2>1. CASE Lost(q, "rotate")
      BY <1>a, <2>1, LostEnds DEF Ends, Others, Finds, Here, TypeOK, Row, Mem, Past, Serial, None, ListInv, Numbered
    <2>2. CASE ~Lost(q, "rotate")
      BY <1>8, <1>a, <2>2, RotateDoes
         DEF Others, Ends, PastKept, Born, Reopened, Minted, Unminted, Offed, Finds, Here,
             TypeOK, Row, Mem, Past, Serial, None, ListInv, Numbered
    <2> QED
      BY <2>1, <2>2
  <1>9. ASSUME NEW q \in Request, Welcome(q) PROVE Numbered'
    BY <1>9, <1>a, WelcomeDoes DEF ListInv, Numbered, Others, None
  <1>10. ASSUME NEW q \in Request, FollowLink(q) PROVE Numbered'
    BY <1>10, <1>a DEF FollowLink, Goto, Arrive, Here, Blank, TypeOK, Row, Mem, Past,
         Serial, None, ListInv, Numbered
  <1>11. ASSUME NEW q \in Request, Unsubscribe(q) PROVE Numbered'
    <2>1. CASE Lost(q, "unsubscribe")
      BY <1>a, <2>1, LostEnds DEF Ends, Others, Finds, Here, TypeOK, Row, Mem, Past, Serial, None, ListInv, Numbered
    <2>2. CASE ~Lost(q, "unsubscribe")
      BY <1>11, <1>a, <2>2, UnsubscribeDoes
         DEF Others, Ends, PastKept, Born, Reopened, Minted, Unminted, Offed, Finds, Here,
             TypeOK, Row, Mem, Past, Serial, None, ListInv, Numbered
    <2> QED
      BY <2>1, <2>2
  <1>12. ASSUME NEW q \in Request, UnsubscribeByAnnouncement(q) PROVE Numbered'
    BY <1>12, <1>a DEF UnsubscribeByAnnouncement, Arrive, Here, Off, ReadersNo, TypeOK, Row,
         Mem, Past, Serial, None, ListInv, Numbered
  <1>13. ASSUME NEW q \in Request, OptIn(q) PROVE Numbered'
    BY <1>13, <1>a DEF OptIn, Goto, Arrive, Here, Blank, TypeOK, Row, Mem, Past, Serial,
         None, ListInv, Numbered
  <1>14. ASSUME NEW q \in Request, WriteOptIn(q) PROVE Numbered'
    <2>1. CASE Lost(q, "optIn")
      BY <1>a, <2>1, LostEnds DEF Ends, Others, Finds, Here, TypeOK, Row, Mem, Past, Serial, None, ListInv, Numbered
    <2>2. CASE ~Lost(q, "optIn")
      <3>1. /\ row'.id <= issued'.id /\ issued'.id \in Nat /\ issued.id <= issued'.id
            /\ past'.spent = past.spent /\ issued'.token = issued.token
            /\ row'.token \in {row.token, None} /\ Others(q)
            /\ mem'[q].id \in {row'.id, None}
        <4>1. CASE Born(q)
          BY <1>14, <1>a, <2>2, <4>1, WriteOptInDoes DEF Born
        <4>2. CASE Reopened /\ past'.spent = past.spent
          BY <1>14, <1>a, <2>2, <4>2, WriteOptInDoes DEF Reopened, ListInv, Numbered
        <4> QED
          BY <1>14, <2>2, <4>1, <4>2, WriteOptInDoes
      <3>2. \A r \in Request : mem'[r].id <= issued'.id
        BY <1>a, <3>1 DEF Others, ListInv, Numbered, Mem, Serial, None
      <3> QED
        BY <1>a, <3>1, <3>2 DEF ListInv, Numbered, None
    <2> QED
      BY <2>1, <2>2
  <1>15. ASSUME NEW q \in Request, Verify(q) PROVE Numbered'
    BY <1>15, <1>a DEF Verify, Goto, Arrive, Blank, TypeOK, Row, Mem, Past, Serial, None,
         ListInv, Numbered
  <1>16. ASSUME NEW q \in Request, ReadSignup(q) PROVE Numbered'
    BY <1>16, <1>a DEF ReadSignup, Goto, Done, Here, Blank, TypeOK, Row, Mem, Past, Serial,
         None, ListInv, Numbered
  <1>17. ASSUME NEW q \in Request, Activate(q) PROVE Numbered'
    BY <1>17, <1>a, ActivateDoes
       DEF Others, Ends, PastKept, Born, Reopened, Minted, Unminted, Offed, Finds, Here,
           TypeOK, Row, Mem, Past, Serial, None, ListInv, Numbered
  <1>18. ASSUME NEW q \in Request, AdminUnsubscribe(q) PROVE Numbered'
    BY <1>18, <1>a DEF AdminUnsubscribe, Goto, Arrive, Here, Blank, TypeOK, Row, Mem, Past,
         Serial, None, ListInv, Numbered
  <1>19. ASSUME NEW q \in Request, Stop(q) PROVE Numbered'
    <2>1. CASE Lost(q, "stop")
      BY <1>a, <2>1, LostEnds DEF Ends, Others, Finds, Here, TypeOK, Row, Mem, Past, Serial, None, ListInv, Numbered
    <2>2. CASE ~Lost(q, "stop")
      BY <1>19, <1>a, <2>2, StopDoes
         DEF Others, Ends, PastKept, Born, Reopened, Minted, Unminted, Offed, Finds, Here,
             TypeOK, Row, Mem, Past, Serial, None, ListInv, Numbered
    <2> QED
      BY <2>1, <2>2
  <1>20. ASSUME NEW q \in Request, AdminResubscribe(q) PROVE Numbered'
    <2>1. RestoreOrInvite(q) /\ UNCHANGED <<row, issued, past>>
      BY <1>20 DEF AdminResubscribe
    <2> QED
      BY <1>a, <2>1, RestoreOrInviteDoes DEF Others, TypeOK, Row, Mem, Past, Serial, None, ListInv, Numbered
  <1>21. ASSUME NEW q \in Request, AdminAdd(q) PROVE Numbered'
    <2>1. UNCHANGED <<row, issued, past>>
      BY <1>21 DEF AdminAdd
    <2>2. CASE RestoreOrInvite(q)
      BY <1>a, <2>1, <2>2, RestoreOrInviteDoes
         DEF Others, TypeOK, Row, Mem, Past, Serial, None, ListInv, Numbered
    <2>3. CASE Goto(q, "invite", [id |-> row.id, serial |-> None, flag |-> CooledDown, admin |-> TRUE])
      BY <1>a, <2>1, <2>3, GotoFields
         DEF Others, TypeOK, Row, Mem, Past, Serial, None, ListInv, Numbered
    <2>4. CASE Goto(q, "add", Blank)
      BY <1>a, <2>1, <2>4, GotoFields
         DEF Blank, Others, TypeOK, Row, Mem, Past, Serial, None, ListInv, Numbered
    <2> QED
      BY <1>21, <2>2, <2>3, <2>4 DEF AdminAdd
  <1>22. ASSUME NEW q \in Request, Add(q) PROVE Numbered'
    BY <1>22, <1>a DEF Add, Goto, Here, Birth, Fresh, NoRow, Blank, TypeOK, Row, Mem, Past,
         Serial, None, ListInv, Numbered
  <1>23. ASSUME NEW q \in Request, Restore(q) PROVE Numbered'
    <2>1. CASE Lost(q, "restore")
      BY <1>a, <2>1, LostEnds DEF Ends, Others, Finds, Here, TypeOK, Row, Mem, Past, Serial, None, ListInv, Numbered
    <2>2. CASE ~Lost(q, "restore")
      BY <1>23, <1>a, <2>2, RestoreDoes
         DEF Others, Ends, PastKept, Born, Reopened, Minted, Unminted, Offed, Finds, Here,
             TypeOK, Row, Mem, Past, Serial, None, ListInv, Numbered
    <2> QED
      BY <2>1, <2>2
  <1>24. ASSUME NEW q \in Request, Invite(q) PROVE Numbered'
    <2>1. CASE Lost(q, "invite")
      BY <1>a, <2>1, LostEnds DEF Ends, Others, Finds, Here, TypeOK, Row, Mem, Past, Serial, None, ListInv, Numbered
    <2>2. CASE ~Lost(q, "invite")
      <3>1. /\ row'.id = row.id /\ issued'.id = issued.id /\ past'.spent = past.spent
            /\ Others(q) /\ mem'[q].id = None
            /\ \/ row'.token = issued.token + 1 /\ issued'.token = issued.token + 1
               \/ row'.token = row.token /\ issued'.token = issued.token
        BY <1>24, <2>2, InviteDoes DEF Reopened, Minted, Unminted
      <3>2. \A r \in Request : mem'[r].id <= issued'.id
        BY <1>a, <3>1 DEF Others, ListInv, Numbered, None
      <3>3. \A n \in past'.spent : n <= issued'.token
        BY <1>a, <3>1 DEF ListInv, Numbered, Past
      <3> QED
        BY <1>a, <3>1, <3>2, <3>3 DEF ListInv, Numbered
    <2> QED
      BY <2>1, <2>2
  <1>25. ASSUME NEW q \in Request, Delete(q) PROVE Numbered'
    BY <1>25, <1>a DEF Delete, Arrive, Here, Birth, NoRow, TypeOK, Row, Mem, Past, Serial,
         None, ListInv, Numbered
  <1>26. ASSUME NEW q \in Request, SetEmailVerified(q) PROVE Numbered'
    BY <1>26, <1>a DEF SetEmailVerified, Arrive, TypeOK, Row, Mem, Past, Serial, None,
         ListInv, Numbered
  <1>27. ASSUME NEW q \in Request, Crash(q) PROVE Numbered'
    BY <1>27, <1>a DEF Crash, Goto, Done, Blank, TypeOK, Row, Mem, Past, Serial, None,
         ListInv, Numbered
  <1>28. CASE Purge
    BY <1>28, <1>a DEF Purge, Here, Birth, NoRow, TypeOK, Row, Mem, Past, Serial, None,
         ListInv, Numbered
  <1>29. CASE Wait
    BY <1>29, <1>a DEF Wait, Here, TypeOK, Row, Mem, Past, Serial, None, ListInv, Numbered
  <1>30. CASE UNCHANGED vars
    BY <1>30, <1>a DEF vars, TypeOK, Row, Mem, Past, Serial, None, ListInv, Numbered
  <1> QED
    BY <1>1, <1>2, <1>3, <1>4, <1>5, <1>6, <1>7, <1>8, <1>9, <1>10, <1>11, <1>12,
       <1>13, <1>14, <1>15, <1>16, <1>17, <1>18, <1>19, <1>20, <1>21, <1>22, <1>23,
       <1>24, <1>25, <1>26, <1>27, <1>28, <1>29, <1>30
       DEF Next, Reader, Administrator

LEMMA CarriedStep == TypeOK /\ TypeOK' /\ ListInv /\ [Next]_vars => Carried'
  <1> SUFFICES ASSUME TypeOK, TypeOK', ListInv, [Next]_vars PROVE Carried'
    OBVIOUS
  <1> USE DEF requestVars
  <1>a. /\ row \in Row /\ row' \in Row /\ past \in Past /\ past' \in Past
        /\ issued.id \in Nat /\ issued.token \in Nat /\ issued.link \in Nat
        /\ \A q \in Request : mem[q] \in Mem
    BY DEF TypeOK
  <1>1. ASSUME NEW q \in Request, Subscribe(q) PROVE Carried'
    BY <1>1, <1>a DEF Subscribe, Goto, Arrive, Here, Blank, TypeOK, Row, Mem, Past, Serial,
         None, ListInv, Carried
  <1>2. ASSUME NEW q \in Request, Upsert(q) PROVE Carried'
    BY <1>2, <1>a, UpsertDoes
       DEF Others, Ends, PastKept, Born, Reopened, Minted, Unminted, Offed, Finds, Here,
           TypeOK, Row, Mem, Past, Serial, None, ListInv, Carried
  <1>3. ASSUME NEW q \in Request, Outrun(q) PROVE Carried'
    BY <1>3, <1>a DEF Outrun, Goto, Done, Here, Blank, TypeOK, Row, Mem, Past, Serial, None,
         ListInv, Carried
  <1>4. ASSUME NEW q \in Request, MailConfirm(q) PROVE Carried'
    BY <1>4, MailConfirmDoes DEF ListInv, Carried, Others
  <1>5. ASSUME NEW q \in Request, Click(q) PROVE Carried'
    BY <1>5, <1>a DEF Click, Goto, Arrive, Here, Blank, TypeOK, Row, Mem, Past, Serial,
         None, ListInv, Carried
  <1>6. ASSUME NEW q \in Request, Confirm(q) PROVE Carried'
    BY <1>6, <1>a DEF Confirm, Goto, Here, Blank, TypeOK, Row, Mem, Past, Serial, None,
         ListInv, Carried
  <1>7. ASSUME NEW q \in Request, Beaten(q) PROVE Carried'
    BY <1>7, <1>a DEF Beaten, Goto, Done, Here, Blank, TypeOK, Row, Mem, Past, Serial, None,
         ListInv, Carried
  <1>8. ASSUME NEW q \in Request, Rotate(q) PROVE Carried'
    <2>1. CASE Lost(q, "rotate")
      BY <1>a, <2>1, LostEnds DEF Ends, Others, Finds, Here, TypeOK, Row, Mem, Past, Serial, None, ListInv, Carried
    <2>2. CASE ~Lost(q, "rotate")
      BY <1>8, <2>2, RotateDoes DEF Others, ListInv, Carried
    <2> QED
      BY <2>1, <2>2
  <1>9. ASSUME NEW q \in Request, Welcome(q) PROVE Carried'
    BY <1>9, WelcomeDoes DEF ListInv, Carried, Others
  <1>10. ASSUME NEW q \in Request, FollowLink(q) PROVE Carried'
    BY <1>10, <1>a DEF FollowLink, Goto, Arrive, Here, Blank, TypeOK, Row, Mem, Past,
         Serial, None, ListInv, Carried
  <1>11. ASSUME NEW q \in Request, Unsubscribe(q) PROVE Carried'
    <2>1. CASE Lost(q, "unsubscribe")
      BY <1>a, <2>1, LostEnds DEF Ends, Others, Finds, Here, TypeOK, Row, Mem, Past, Serial, None, ListInv, Carried
    <2>2. CASE ~Lost(q, "unsubscribe")
      BY <1>11, <1>a, <2>2, UnsubscribeDoes DEF Offed, Others, ListInv, Carried, None
    <2> QED
      BY <2>1, <2>2
  <1>12. ASSUME NEW q \in Request, UnsubscribeByAnnouncement(q) PROVE Carried'
    BY <1>12, <1>a DEF UnsubscribeByAnnouncement, Arrive, Here, Off, ReadersNo, TypeOK, Row,
         Mem, Past, Serial, None, ListInv, Carried
  <1>13. ASSUME NEW q \in Request, OptIn(q) PROVE Carried'
    BY <1>13, <1>a DEF OptIn, Goto, Arrive, Here, Blank, TypeOK, Row, Mem, Past, Serial,
         None, ListInv, Carried
  <1>14. ASSUME NEW q \in Request, WriteOptIn(q) PROVE Carried'
    <2>1. CASE Lost(q, "optIn")
      BY <1>a, <2>1, LostEnds DEF Ends, Others, Finds, Here, TypeOK, Row, Mem, Past, Serial, None, ListInv, Carried
    <2>2. CASE ~Lost(q, "optIn")
      <3>1. CASE Born(q)
        BY <1>14, <1>a, <2>2, <3>1, WriteOptInDoes
           DEF Others, Ends, PastKept, Born, Reopened, Minted, Unminted, Offed, Finds, Here,
               TypeOK, Row, Mem, Past, Serial, None, ListInv, Carried
      <3>2. CASE ~Born(q)
        BY <1>14, <1>a, <2>2, <3>2, WriteOptInDoes
           DEF Others, Ends, PastKept, Born, Reopened, Minted, Unminted, Offed, Finds, Here,
               TypeOK, Row, Mem, Past, Serial, None, ListInv, Carried
      <3> QED
        BY <3>1, <3>2
    <2> QED
      BY <2>1, <2>2
  <1>15. ASSUME NEW q \in Request, Verify(q) PROVE Carried'
    BY <1>15, <1>a DEF Verify, Goto, Arrive, Blank, TypeOK, Row, Mem, Past, Serial, None,
         ListInv, Carried
  <1>16. ASSUME NEW q \in Request, ReadSignup(q) PROVE Carried'
    BY <1>16, <1>a DEF ReadSignup, Goto, Done, Here, Blank, TypeOK, Row, Mem, Past, Serial,
         None, ListInv, Carried
  <1>17. ASSUME NEW q \in Request, Activate(q) PROVE Carried'
    BY <1>17, <1>a, ActivateDoes
       DEF Others, Ends, PastKept, Born, Reopened, Minted, Unminted, Offed, Finds, Here,
           TypeOK, Row, Mem, Past, Serial, None, ListInv, Carried
  <1>18. ASSUME NEW q \in Request, AdminUnsubscribe(q) PROVE Carried'
    BY <1>18, <1>a DEF AdminUnsubscribe, Goto, Arrive, Here, Blank, TypeOK, Row, Mem, Past,
         Serial, None, ListInv, Carried
  <1>19. ASSUME NEW q \in Request, Stop(q) PROVE Carried'
    <2>1. CASE Lost(q, "stop")
      BY <1>a, <2>1, LostEnds DEF Ends, Others, Finds, Here, TypeOK, Row, Mem, Past, Serial, None, ListInv, Carried
    <2>2. CASE ~Lost(q, "stop")
      BY <1>19, <1>a, <2>2, StopDoes
         DEF Others, Ends, PastKept, Born, Reopened, Minted, Unminted, Offed, Finds, Here,
             TypeOK, Row, Mem, Past, Serial, None, ListInv, Carried
    <2> QED
      BY <2>1, <2>2
  <1>20. ASSUME NEW q \in Request, AdminResubscribe(q) PROVE Carried'
    BY <1>20, <1>a DEF AdminResubscribe, Goto, Arrive, Here, RestoreOrInvite, Blank, TypeOK,
         Row, Mem, Past, Serial, None, ListInv, Carried
  <1>21. ASSUME NEW q \in Request, AdminAdd(q) PROVE Carried'
    BY <1>21, <1>a DEF AdminAdd, Goto, Arrive, Here, RestoreOrInvite, Blank, TypeOK, Row,
         Mem, Past, Serial, None, ListInv, Carried
  <1>22. ASSUME NEW q \in Request, Add(q) PROVE Carried'
    BY <1>22, <1>a DEF Add, Goto, Here, Birth, Fresh, NoRow, Blank, TypeOK, Row, Mem, Past,
         Serial, None, ListInv, Carried
  <1>23. ASSUME NEW q \in Request, Restore(q) PROVE Carried'
    <2>1. CASE Lost(q, "restore")
      BY <1>a, <2>1, LostEnds DEF Ends, Others, Finds, Here, TypeOK, Row, Mem, Past, Serial, None, ListInv, Carried
    <2>2. CASE ~Lost(q, "restore")
      BY <1>23, <1>a, <2>2, RestoreDoes
         DEF Others, Ends, PastKept, Born, Reopened, Minted, Unminted, Offed, Finds, Here,
             TypeOK, Row, Mem, Past, Serial, None, ListInv, Carried
    <2> QED
      BY <2>1, <2>2
  <1>24. ASSUME NEW q \in Request, Invite(q) PROVE Carried'
    <2>1. CASE Lost(q, "invite")
      BY <1>a, <2>1, LostEnds DEF Ends, Others, Finds, Here, TypeOK, Row, Mem, Past, Serial, None, ListInv, Carried
    <2>2. CASE ~Lost(q, "invite")
      BY <1>24, <1>a, <2>2, InviteDoes
         DEF Others, Ends, PastKept, Born, Reopened, Minted, Unminted, Offed, Finds, Here,
             TypeOK, Row, Mem, Past, Serial, None, ListInv, Carried
    <2> QED
      BY <2>1, <2>2
  <1>25. ASSUME NEW q \in Request, Delete(q) PROVE Carried'
    BY <1>25, <1>a DEF Delete, Arrive, Here, Birth, NoRow, TypeOK, Row, Mem, Past, Serial,
         None, ListInv, Carried
  <1>26. ASSUME NEW q \in Request, SetEmailVerified(q) PROVE Carried'
    BY <1>26, <1>a DEF SetEmailVerified, Arrive, TypeOK, Row, Mem, Past, Serial, None,
         ListInv, Carried
  <1>27. ASSUME NEW q \in Request, Crash(q) PROVE Carried'
    BY <1>27, <1>a DEF Crash, Goto, Done, Blank, TypeOK, Row, Mem, Past, Serial, None,
         ListInv, Carried
  <1>28. CASE Purge
    BY <1>28, <1>a DEF Purge, Here, Birth, NoRow, TypeOK, Row, Mem, Past, Serial, None,
         ListInv, Carried
  <1>29. CASE Wait
    BY <1>29, <1>a DEF Wait, Here, TypeOK, Row, Mem, Past, Serial, None, ListInv, Carried
  <1>30. CASE UNCHANGED vars
    BY <1>30, <1>a DEF vars, TypeOK, Row, Mem, Past, Serial, None, ListInv, Carried
  <1> QED
    BY <1>1, <1>2, <1>3, <1>4, <1>5, <1>6, <1>7, <1>8, <1>9, <1>10, <1>11, <1>12,
       <1>13, <1>14, <1>15, <1>16, <1>17, <1>18, <1>19, <1>20, <1>21, <1>22, <1>23,
       <1>24, <1>25, <1>26, <1>27, <1>28, <1>29, <1>30
       DEF Next, Reader, Administrator

LEMMA ProvedStep == TypeOK /\ TypeOK' /\ ListInv /\ [Next]_vars => Proved'
  <1> SUFFICES ASSUME TypeOK, TypeOK', ListInv, [Next]_vars PROVE Proved'
    OBVIOUS
  <1> USE DEF requestVars
  <1>a. /\ row \in Row /\ row' \in Row /\ past \in Past /\ past' \in Past
        /\ issued.id \in Nat /\ issued.token \in Nat /\ issued.link \in Nat
        /\ \A q \in Request : mem[q] \in Mem
    BY DEF TypeOK
  <1>1. ASSUME NEW q \in Request, Subscribe(q) PROVE Proved'
    BY <1>1, <1>a DEF Subscribe, Goto, Arrive, Finds, Here, Blank, TypeOK, Row, Mem, Past,
         Serial, None, ListInv, Proved, Numbered
  <1>2. ASSUME NEW q \in Request, Upsert(q) PROVE Proved'
    <2>1. pc'[q] = "mailConfirm" /\ Others(q)
      BY <1>2, UpsertDoes DEF Minted
    <2>2. row'.status = "PENDING" /\ row'.via = "nobody"
      BY <1>2, UpsertDoes DEF Born, Reopened
    <2>3. Here' /\ row'.confirmed => past'.proved
      BY <1>2, UpsertDoes DEF Born, Reopened, PastKept, ListInv, Proved
    <2>4. ASSUME NEW r \in Request, pc'[r] = "restore", Finds(r)' PROVE row'.confirmed /\ past'.handled
      <3>1. r # q /\ pc[r] = "restore" /\ mem'[r] = mem[r]
        BY <2>1, <2>4 DEF Others
      <3>2. CASE Born(q)
        BY <1>a, <2>4, <3>1, <3>2 DEF Born, Finds, ListInv, Numbered, Mem, Serial, None
      <3>3. CASE Reopened /\ PastKept
        BY <2>4, <3>1, <3>3 DEF Reopened, PastKept, Finds, Here, ListInv, Proved
      <3> QED
        BY <1>2, <3>2, <3>3, UpsertDoes
    <2> QED
      BY <2>2, <2>3, <2>4 DEF Proved
  <1>3. ASSUME NEW q \in Request, Outrun(q) PROVE Proved'
    BY <1>3, <1>a DEF Outrun, Goto, Done, Finds, Here, Blank, TypeOK, Row, Mem, Past,
         Serial, None, ListInv, Proved, Numbered
  <1>4. ASSUME NEW q \in Request, MailConfirm(q) PROVE Proved'
    BY <1>4, <1>a DEF MailConfirm, Goto, Done, Finds, Here, Blank, TypeOK, Row, Mem, Past,
         Serial, None, ListInv, Proved, Numbered
  <1>5. ASSUME NEW q \in Request, Click(q) PROVE Proved'
    BY <1>5, <1>a DEF Click, Goto, Arrive, Finds, Here, Blank, TypeOK, Row, Mem, Past,
         Serial, None, ListInv, Proved, Numbered
  <1>6. ASSUME NEW q \in Request, Confirm(q) PROVE Proved'
    BY <1>6, <1>a DEF Confirm, Goto, Finds, Here, Blank, TypeOK, Row, Mem, Past, Serial,
         None, ListInv, Proved, Numbered
  <1>7. ASSUME NEW q \in Request, Beaten(q) PROVE Proved'
    BY <1>7, <1>a DEF Beaten, Goto, Done, Finds, Here, Blank, TypeOK, Row, Mem, Past,
         Serial, None, ListInv, Proved, Numbered
  <1>8. ASSUME NEW q \in Request, Rotate(q) PROVE Proved'
    <2>1. CASE Lost(q, "rotate")
      BY <1>a, <2>1, LostEnds DEF Ends, Others, Finds, Here, TypeOK, Row, Mem, Past, Serial, None, ListInv, Proved, Numbered
    <2>2. CASE ~Lost(q, "rotate")
      BY <1>8, <1>a, <2>2, RotateDoes
         DEF Others, Ends, PastKept, Born, Reopened, Minted, Unminted, Offed, Finds, Here,
             TypeOK, Row, Mem, Past, Serial, None, ListInv, Proved, Numbered
    <2> QED
      BY <2>1, <2>2
  <1>9. ASSUME NEW q \in Request, Welcome(q) PROVE Proved'
    BY <1>9, <1>a DEF Welcome, Goto, Done, Finds, Here, Blank, TypeOK, Row, Mem, Past,
         Serial, None, ListInv, Proved, Numbered
  <1>10. ASSUME NEW q \in Request, FollowLink(q) PROVE Proved'
    BY <1>10, <1>a DEF FollowLink, Goto, Arrive, Finds, Here, Blank, TypeOK, Row, Mem, Past,
         Serial, None, ListInv, Proved, Numbered
  <1>11. ASSUME NEW q \in Request, Unsubscribe(q) PROVE Proved'
    <2>1. CASE Lost(q, "unsubscribe")
      BY <1>a, <2>1, LostEnds DEF Ends, Others, Finds, Here, TypeOK, Row, Mem, Past, Serial, None, ListInv, Proved, Numbered
    <2>2. CASE ~Lost(q, "unsubscribe")
      BY <1>11, <1>a, <2>2, UnsubscribeDoes
         DEF Others, Ends, PastKept, Born, Reopened, Minted, Unminted, Offed, Finds, Here,
             TypeOK, Row, Mem, Past, Serial, None, ListInv, Proved, Numbered
    <2> QED
      BY <2>1, <2>2
  <1>12. ASSUME NEW q \in Request, UnsubscribeByAnnouncement(q) PROVE Proved'
    BY <1>12, <1>a DEF UnsubscribeByAnnouncement, Arrive, Finds, Here, Off, ReadersNo,
         TypeOK, Row, Mem, Past, Serial, None, ListInv, Proved, Numbered
  <1>13. ASSUME NEW q \in Request, OptIn(q) PROVE Proved'
    BY <1>13, <1>a DEF OptIn, Goto, Arrive, Finds, Here, Blank, TypeOK, Row, Mem, Past,
         Serial, None, ListInv, Proved, Numbered
  <1>14. ASSUME NEW q \in Request, WriteOptIn(q) PROVE Proved'
    <2>1. CASE Lost(q, "optIn")
      BY <1>a, <2>1, LostEnds DEF Ends, Others, Finds, Here, TypeOK, Row, Mem, Past, Serial, None, ListInv, Proved, Numbered
    <2>2. CASE ~Lost(q, "optIn")
      BY <1>14, <1>a, <2>2, WriteOptInDoes
         DEF Others, Ends, PastKept, Born, Reopened, Minted, Unminted, Offed, Finds, Here,
             TypeOK, Row, Mem, Past, Serial, None, ListInv, Proved, Numbered
    <2> QED
      BY <2>1, <2>2
  <1>15. ASSUME NEW q \in Request, Verify(q) PROVE Proved'
    BY <1>15, <1>a DEF Verify, Goto, Arrive, Finds, Here, Blank, TypeOK, Row, Mem, Past,
         Serial, None, ListInv, Proved, Numbered
  <1>16. ASSUME NEW q \in Request, ReadSignup(q) PROVE Proved'
    BY <1>16, <1>a DEF ReadSignup, Goto, Done, Finds, Here, Blank, TypeOK, Row, Mem, Past,
         Serial, None, ListInv, Proved, Numbered
  <1>17. ASSUME NEW q \in Request, Activate(q) PROVE Proved'
    <2>1. CASE Ends(q)
      BY <1>a, <2>1 DEF Ends, Others, Finds, Here, ListInv, Proved
    <2>2. CASE ~Ends(q)
      <3>1. /\ pc[q] = "activate" /\ Finds(q)
            /\ row'.id = row.id /\ row'.confirmed /\ row'.via = row.via
            /\ pc'[q] = "rotate" /\ Others(q) /\ past'.proved /\ past'.handled = past.handled
        BY <1>17, <2>2, ActivateDoes
      <3>2. ASSUME NEW r \in Request, pc'[r] = "restore", Finds(r)' PROVE past'.handled
        BY <3>1, <3>2 DEF Others, Finds, Here, ListInv, Proved
      <3> QED
        BY <3>1, <3>2 DEF Finds, Here, ListInv, Proved
    <2> QED
      BY <2>1, <2>2
  <1>18. ASSUME NEW q \in Request, AdminUnsubscribe(q) PROVE Proved'
    BY <1>18, <1>a DEF AdminUnsubscribe, Goto, Arrive, Finds, Here, Blank, TypeOK, Row, Mem,
         Past, Serial, None, ListInv, Proved, Numbered
  <1>19. ASSUME NEW q \in Request, Stop(q) PROVE Proved'
    <2>1. CASE Lost(q, "stop")
      BY <1>a, <2>1, LostEnds DEF Ends, Others, Finds, Here, TypeOK, Row, Mem, Past, Serial, None, ListInv, Proved, Numbered
    <2>2. CASE ~Lost(q, "stop")
      BY <1>19, <1>a, <2>2, StopDoes
         DEF Others, Ends, PastKept, Born, Reopened, Minted, Unminted, Offed, Finds, Here,
             TypeOK, Row, Mem, Past, Serial, None, ListInv, Proved, Numbered
    <2> QED
      BY <2>1, <2>2
  <1>20. ASSUME NEW q \in Request, AdminResubscribe(q) PROVE Proved'
    BY <1>20, <1>a DEF AdminResubscribe, Goto, Arrive, Finds, Here, RestoreOrInvite, Blank,
         TypeOK, Row, Mem, Past, Serial, None, ListInv, Proved, Numbered
  <1>21. ASSUME NEW q \in Request, AdminAdd(q) PROVE Proved'
    BY <1>21, <1>a DEF AdminAdd, Goto, Arrive, Finds, Here, RestoreOrInvite, Blank, TypeOK,
         Row, Mem, Past, Serial, None, ListInv, Proved, Numbered
  <1>22. ASSUME NEW q \in Request, Add(q) PROVE Proved'
    BY <1>22, <1>a DEF Add, Goto, Finds, Here, Birth, Fresh, NoRow, Blank, TypeOK, Row, Mem,
         Past, Serial, None, ListInv, Proved, Numbered
  <1>23. ASSUME NEW q \in Request, Restore(q) PROVE Proved'
    <2>1. CASE Lost(q, "restore")
      BY <1>a, <2>1, LostEnds DEF Ends, Others, Finds, Here, TypeOK, Row, Mem, Past, Serial, None, ListInv, Proved, Numbered
    <2>2. CASE ~Lost(q, "restore")
      BY <1>23, <1>a, <2>2, RestoreDoes
         DEF Others, Ends, PastKept, Born, Reopened, Minted, Unminted, Offed, Finds, Here,
             TypeOK, Row, Mem, Past, Serial, None, ListInv, Proved, Numbered
    <2> QED
      BY <2>1, <2>2
  <1>24. ASSUME NEW q \in Request, Invite(q) PROVE Proved'
    <2>1. CASE Lost(q, "invite")
      BY <1>a, <2>1, LostEnds DEF Ends, Others, Finds, Here, TypeOK, Row, Mem, Past, Serial, None, ListInv, Proved, Numbered
    <2>2. CASE ~Lost(q, "invite")
      BY <1>24, <1>a, <2>2, InviteDoes
         DEF Others, Ends, PastKept, Born, Reopened, Minted, Unminted, Offed, Finds, Here,
             TypeOK, Row, Mem, Past, Serial, None, ListInv, Proved, Numbered
    <2> QED
      BY <2>1, <2>2
  <1>25. ASSUME NEW q \in Request, Delete(q) PROVE Proved'
    BY <1>25, <1>a DEF Delete, Arrive, Finds, Here, Birth, NoRow, TypeOK, Row, Mem, Past,
         Serial, None, ListInv, Proved, Numbered
  <1>26. ASSUME NEW q \in Request, SetEmailVerified(q) PROVE Proved'
    BY <1>26, <1>a DEF SetEmailVerified, Arrive, Finds, Here, TypeOK, Row, Mem, Past,
         Serial, None, ListInv, Proved, Numbered
  <1>27. ASSUME NEW q \in Request, Crash(q) PROVE Proved'
    BY <1>27, <1>a DEF Crash, Goto, Done, Finds, Here, Blank, TypeOK, Row, Mem, Past,
         Serial, None, ListInv, Proved, Numbered
  <1>28. CASE Purge
    BY <1>28, <1>a DEF Purge, Finds, Here, Birth, NoRow, TypeOK, Row, Mem, Past, Serial,
         None, ListInv, Proved, Numbered
  <1>29. CASE Wait
    BY <1>29, <1>a DEF Wait, Finds, Here, TypeOK, Row, Mem, Past, Serial, None, ListInv,
         Proved, Numbered
  <1>30. CASE UNCHANGED vars
    BY <1>30, <1>a DEF vars, Finds, Here, TypeOK, Row, Mem, Past, Serial, None, ListInv,
         Proved, Numbered
  <1> QED
    BY <1>1, <1>2, <1>3, <1>4, <1>5, <1>6, <1>7, <1>8, <1>9, <1>10, <1>11, <1>12,
       <1>13, <1>14, <1>15, <1>16, <1>17, <1>18, <1>19, <1>20, <1>21, <1>22, <1>23,
       <1>24, <1>25, <1>26, <1>27, <1>28, <1>29, <1>30
       DEF Next, Reader, Administrator

LEMMA UnspentStep == TypeOK /\ TypeOK' /\ ListInv /\ [Next]_vars => Unspent'
  <1> SUFFICES ASSUME TypeOK, TypeOK', ListInv, [Next]_vars PROVE Unspent'
    OBVIOUS
  <1> USE DEF requestVars
  <1>a. /\ row \in Row /\ row' \in Row /\ past \in Past /\ past' \in Past
        /\ issued.id \in Nat /\ issued.token \in Nat /\ issued.link \in Nat
        /\ \A q \in Request : mem[q] \in Mem
    BY DEF TypeOK
  <1>1. ASSUME NEW q \in Request, Subscribe(q) PROVE Unspent'
    BY <1>1, <1>a DEF Subscribe, Goto, Arrive, Here, Blank, TypeOK, Row, Mem, Past, Serial,
         None, ListInv, Unspent, Numbered, Carried
  <1>2. ASSUME NEW q \in Request, Upsert(q) PROVE Unspent'
    BY <1>2, <1>a, UpsertDoes
       DEF Others, Ends, PastKept, Born, Reopened, Minted, Unminted, Offed, Finds, Here,
           TypeOK, Row, Mem, Past, Serial, None, ListInv, Unspent, Numbered, Carried
  <1>3. ASSUME NEW q \in Request, Outrun(q) PROVE Unspent'
    BY <1>3, <1>a DEF Outrun, Goto, Done, Here, Blank, TypeOK, Row, Mem, Past, Serial, None,
         ListInv, Unspent, Numbered, Carried
  <1>4. ASSUME NEW q \in Request, MailConfirm(q) PROVE Unspent'
    BY <1>4, <1>a DEF MailConfirm, Goto, Done, Blank, TypeOK, Row, Mem, Past, Serial, None,
         ListInv, Unspent, Numbered, Carried
  <1>5. ASSUME NEW q \in Request, Click(q) PROVE Unspent'
    BY <1>5, <1>a DEF Click, Goto, Arrive, Here, Blank, TypeOK, Row, Mem, Past, Serial,
         None, ListInv, Unspent, Numbered, Carried
  <1>6. ASSUME NEW q \in Request, Confirm(q) PROVE Unspent'
    BY <1>6, <1>a DEF Confirm, Goto, Here, Blank, TypeOK, Row, Mem, Past, Serial, None,
         ListInv, Unspent, Numbered, Carried
  <1>7. ASSUME NEW q \in Request, Beaten(q) PROVE Unspent'
    BY <1>7, <1>a DEF Beaten, Goto, Done, Here, Blank, TypeOK, Row, Mem, Past, Serial, None,
         ListInv, Unspent, Numbered, Carried
  <1>8. ASSUME NEW q \in Request, Rotate(q) PROVE Unspent'
    <2>1. CASE Lost(q, "rotate")
      BY <1>a, <2>1, LostEnds DEF Ends, Others, Finds, Here, TypeOK, Row, Mem, Past, Serial, None, ListInv, Unspent, Numbered, Carried
    <2>2. CASE ~Lost(q, "rotate")
      BY <1>8, <1>a, <2>2, RotateDoes
         DEF Others, Ends, PastKept, Born, Reopened, Minted, Unminted, Offed, Finds, Here,
             TypeOK, Row, Mem, Past, Serial, None, ListInv, Unspent, Numbered, Carried
    <2> QED
      BY <2>1, <2>2
  <1>9. ASSUME NEW q \in Request, Welcome(q) PROVE Unspent'
    BY <1>9, <1>a DEF Welcome, Goto, Done, Blank, TypeOK, Row, Mem, Past, Serial, None,
         ListInv, Unspent, Numbered, Carried
  <1>10. ASSUME NEW q \in Request, FollowLink(q) PROVE Unspent'
    BY <1>10, <1>a DEF FollowLink, Goto, Arrive, Here, Blank, TypeOK, Row, Mem, Past,
         Serial, None, ListInv, Unspent, Numbered, Carried
  <1>11. ASSUME NEW q \in Request, Unsubscribe(q) PROVE Unspent'
    <2>1. CASE Lost(q, "unsubscribe")
      BY <1>a, <2>1, LostEnds DEF Ends, Others, Finds, Here, TypeOK, Row, Mem, Past, Serial, None, ListInv, Unspent, Numbered, Carried
    <2>2. CASE ~Lost(q, "unsubscribe")
      BY <1>11, <1>a, <2>2, UnsubscribeDoes
         DEF Others, Ends, PastKept, Born, Reopened, Minted, Unminted, Offed, Finds, Here,
             TypeOK, Row, Mem, Past, Serial, None, ListInv, Unspent, Numbered, Carried
    <2> QED
      BY <2>1, <2>2
  <1>12. ASSUME NEW q \in Request, UnsubscribeByAnnouncement(q) PROVE Unspent'
    BY <1>12, <1>a DEF UnsubscribeByAnnouncement, Arrive, Here, Off, ReadersNo, TypeOK, Row,
         Mem, Past, Serial, None, ListInv, Unspent, Numbered, Carried
  <1>13. ASSUME NEW q \in Request, OptIn(q) PROVE Unspent'
    BY <1>13, <1>a DEF OptIn, Goto, Arrive, Here, Blank, TypeOK, Row, Mem, Past, Serial,
         None, ListInv, Unspent, Numbered, Carried
  <1>14. ASSUME NEW q \in Request, WriteOptIn(q) PROVE Unspent'
    <2>1. CASE Lost(q, "optIn")
      BY <1>a, <2>1, LostEnds DEF Ends, Others, Finds, Here, TypeOK, Row, Mem, Past, Serial, None, ListInv, Unspent, Numbered, Carried
    <2>2. CASE ~Lost(q, "optIn")
      BY <1>14, <1>a, <2>2, WriteOptInDoes
         DEF Others, Ends, PastKept, Born, Reopened, Minted, Unminted, Offed, Finds, Here,
             TypeOK, Row, Mem, Past, Serial, None, ListInv, Unspent, Numbered, Carried
    <2> QED
      BY <2>1, <2>2
  <1>15. ASSUME NEW q \in Request, Verify(q) PROVE Unspent'
    BY <1>15, <1>a DEF Verify, Goto, Arrive, Blank, TypeOK, Row, Mem, Past, Serial, None,
         ListInv, Unspent, Numbered, Carried
  <1>16. ASSUME NEW q \in Request, ReadSignup(q) PROVE Unspent'
    BY <1>16, <1>a DEF ReadSignup, Goto, Done, Here, Blank, TypeOK, Row, Mem, Past, Serial,
         None, ListInv, Unspent, Numbered, Carried
  <1>17. ASSUME NEW q \in Request, Activate(q) PROVE Unspent'
    BY <1>17, <1>a, ActivateDoes
       DEF Others, Ends, PastKept, Born, Reopened, Minted, Unminted, Offed, Finds, Here,
           TypeOK, Row, Mem, Past, Serial, None, ListInv, Unspent, Numbered, Carried
  <1>18. ASSUME NEW q \in Request, AdminUnsubscribe(q) PROVE Unspent'
    BY <1>18, <1>a DEF AdminUnsubscribe, Goto, Arrive, Here, Blank, TypeOK, Row, Mem, Past,
         Serial, None, ListInv, Unspent, Numbered, Carried
  <1>19. ASSUME NEW q \in Request, Stop(q) PROVE Unspent'
    <2>1. CASE Lost(q, "stop")
      BY <1>a, <2>1, LostEnds DEF Ends, Others, Finds, Here, TypeOK, Row, Mem, Past, Serial, None, ListInv, Unspent, Numbered, Carried
    <2>2. CASE ~Lost(q, "stop")
      BY <1>19, <1>a, <2>2, StopDoes
         DEF Others, Ends, PastKept, Born, Reopened, Minted, Unminted, Offed, Finds, Here,
             TypeOK, Row, Mem, Past, Serial, None, ListInv, Unspent, Numbered, Carried
    <2> QED
      BY <2>1, <2>2
  <1>20. ASSUME NEW q \in Request, AdminResubscribe(q) PROVE Unspent'
    BY <1>20, <1>a DEF AdminResubscribe, Goto, Arrive, Here, RestoreOrInvite, Blank, TypeOK,
         Row, Mem, Past, Serial, None, ListInv, Unspent, Numbered, Carried
  <1>21. ASSUME NEW q \in Request, AdminAdd(q) PROVE Unspent'
    BY <1>21, <1>a DEF AdminAdd, Goto, Arrive, Here, RestoreOrInvite, Blank, TypeOK, Row,
         Mem, Past, Serial, None, ListInv, Unspent, Numbered, Carried
  <1>22. ASSUME NEW q \in Request, Add(q) PROVE Unspent'
    BY <1>22, <1>a DEF Add, Goto, Here, Birth, Fresh, NoRow, Blank, TypeOK, Row, Mem, Past,
         Serial, None, ListInv, Unspent, Numbered, Carried
  <1>23. ASSUME NEW q \in Request, Restore(q) PROVE Unspent'
    <2>1. CASE Lost(q, "restore")
      BY <1>a, <2>1, LostEnds DEF Ends, Others, Finds, Here, TypeOK, Row, Mem, Past, Serial, None, ListInv, Unspent, Numbered, Carried
    <2>2. CASE ~Lost(q, "restore")
      BY <1>23, <1>a, <2>2, RestoreDoes
         DEF Others, Ends, PastKept, Born, Reopened, Minted, Unminted, Offed, Finds, Here,
             TypeOK, Row, Mem, Past, Serial, None, ListInv, Unspent, Numbered, Carried
    <2> QED
      BY <2>1, <2>2
  <1>24. ASSUME NEW q \in Request, Invite(q) PROVE Unspent'
    <2>1. CASE Lost(q, "invite")
      BY <1>a, <2>1, LostEnds DEF Ends, Others, Finds, Here, TypeOK, Row, Mem, Past, Serial, None, ListInv, Unspent, Numbered, Carried
    <2>2. CASE ~Lost(q, "invite")
      BY <1>24, <1>a, <2>2, InviteDoes
         DEF Others, Ends, PastKept, Born, Reopened, Minted, Unminted, Offed, Finds, Here,
             TypeOK, Row, Mem, Past, Serial, None, ListInv, Unspent, Numbered, Carried
    <2> QED
      BY <2>1, <2>2
  <1>25. ASSUME NEW q \in Request, Delete(q) PROVE Unspent'
    BY <1>25, <1>a DEF Delete, Arrive, Here, Birth, NoRow, TypeOK, Row, Mem, Past, Serial,
         None, ListInv, Unspent, Numbered, Carried
  <1>26. ASSUME NEW q \in Request, SetEmailVerified(q) PROVE Unspent'
    BY <1>26, <1>a DEF SetEmailVerified, Arrive, TypeOK, Row, Mem, Past, Serial, None,
         ListInv, Unspent, Numbered, Carried
  <1>27. ASSUME NEW q \in Request, Crash(q) PROVE Unspent'
    BY <1>27, <1>a DEF Crash, Goto, Done, Blank, TypeOK, Row, Mem, Past, Serial, None,
         ListInv, Unspent, Numbered, Carried
  <1>28. CASE Purge
    BY <1>28, <1>a DEF Purge, Here, Birth, NoRow, TypeOK, Row, Mem, Past, Serial, None,
         ListInv, Unspent, Numbered, Carried
  <1>29. CASE Wait
    BY <1>29, <1>a DEF Wait, Here, TypeOK, Row, Mem, Past, Serial, None, ListInv, Unspent,
         Numbered, Carried
  <1>30. CASE UNCHANGED vars
    BY <1>30, <1>a DEF vars, TypeOK, Row, Mem, Past, Serial, None, ListInv, Unspent,
         Numbered, Carried
  <1> QED
    BY <1>1, <1>2, <1>3, <1>4, <1>5, <1>6, <1>7, <1>8, <1>9, <1>10, <1>11, <1>12,
       <1>13, <1>14, <1>15, <1>16, <1>17, <1>18, <1>19, <1>20, <1>21, <1>22, <1>23,
       <1>24, <1>25, <1>26, <1>27, <1>28, <1>29, <1>30
       DEF Next, Reader, Administrator

LEMMA WithdrawnStep == TypeOK /\ TypeOK' /\ ListInv /\ [Next]_vars => Withdrawn'
  <1> SUFFICES ASSUME TypeOK, TypeOK', ListInv, [Next]_vars PROVE Withdrawn'
    OBVIOUS
  <1> USE DEF requestVars
  <1>a. /\ row \in Row /\ row' \in Row /\ past \in Past /\ past' \in Past
        /\ issued.id \in Nat /\ issued.token \in Nat /\ issued.link \in Nat
        /\ \A q \in Request : mem[q] \in Mem
    BY DEF TypeOK
  <1>1. ASSUME NEW q \in Request, Subscribe(q) PROVE Withdrawn'
    BY <1>1, <1>a DEF Subscribe, Goto, Arrive, Finds, Here, Blank, TypeOK, Row, Mem, Past,
         Serial, None, ListInv, Withdrawn, Proved, Numbered, Excused, Overtakes, Deciding
  <1>2. ASSUME NEW q \in Request, Upsert(q) PROVE Withdrawn'
    BY <1>2, <1>a, UpsertDoes
       DEF Others, Ends, PastKept, Born, Reopened, Minted, Unminted, Offed, Finds, Here,
           TypeOK, Row, Mem, Past, Serial, None, ListInv, Withdrawn, Proved, Numbered, Excused, Overtakes, Deciding
  <1>3. ASSUME NEW q \in Request, Outrun(q) PROVE Withdrawn'
    BY <1>3, <1>a DEF Outrun, Goto, Done, Finds, Here, Blank, TypeOK, Row, Mem, Past,
         Serial, None, ListInv, Withdrawn, Proved, Numbered, Excused, Overtakes, Deciding
  <1>4. ASSUME NEW q \in Request, MailConfirm(q) PROVE Withdrawn'
    BY <1>4, MailConfirmDoes DEF ListInv, Withdrawn, Excused, Others, Finds, Here
  <1>5. ASSUME NEW q \in Request, Click(q) PROVE Withdrawn'
    BY <1>5, <1>a DEF Click, Goto, Arrive, Finds, Here, Blank, TypeOK, Row, Mem, Past,
         Serial, None, ListInv, Withdrawn, Proved, Numbered, Excused, Overtakes, Deciding
  <1>6. ASSUME NEW q \in Request, Confirm(q) PROVE Withdrawn'
    BY <1>6, <1>a DEF Confirm, Goto, Finds, Here, Blank, TypeOK, Row, Mem, Past, Serial,
         None, ListInv, Withdrawn, Proved, Numbered, Excused, Overtakes, Deciding
  <1>7. ASSUME NEW q \in Request, Beaten(q) PROVE Withdrawn'
    BY <1>7, <1>a DEF Beaten, Goto, Done, Finds, Here, Blank, TypeOK, Row, Mem, Past,
         Serial, None, ListInv, Withdrawn, Proved, Numbered, Excused, Overtakes, Deciding
  <1>8. ASSUME NEW q \in Request, Rotate(q) PROVE Withdrawn'
    <2>1. CASE Lost(q, "rotate")
      BY <1>a, <2>1, LostEnds DEF Ends, Others, Finds, Here, TypeOK, Row, Mem, Past, Serial, None, ListInv, Withdrawn, Proved, Numbered, Excused, Overtakes, Deciding
    <2>2. CASE ~Lost(q, "rotate")
      BY <1>8, <1>a, <2>2, RotateDoes
         DEF Others, Ends, PastKept, Born, Reopened, Minted, Unminted, Offed, Finds, Here,
             TypeOK, Row, Mem, Past, Serial, None, ListInv, Withdrawn, Proved, Numbered, Excused, Overtakes, Deciding
    <2> QED
      BY <2>1, <2>2
  <1>9. ASSUME NEW q \in Request, Welcome(q) PROVE Withdrawn'
    <2>1. pc'[q] = "idle" /\ Others(q) /\ UNCHANGED <<row, past>>
      BY <1>9, WelcomeDoes
    <2> QED
      BY <2>1 DEF ListInv, Withdrawn, Excused, Others, Finds, Here
  <1>10. ASSUME NEW q \in Request, FollowLink(q) PROVE Withdrawn'
    <2>1. CASE row.status = "UNSUBSCRIBED"
      <3>1. /\ row' = row /\ pc' = pc /\ mem' = mem
            /\ past'.handled = past.handled /\ past'.overtaken = past.overtaken
            /\ past'.withdrawn
        BY <1>10, <1>a, <2>1 DEF FollowLink, Past
      <3>2. \A r \in Request : ~(pc[r] = "activate" /\ Finds(r)) \/ Excused \/ ~past.withdrawn
        BY DEF ListInv, Withdrawn
      <3> QED
        BY <2>1, <3>1, <3>2 DEF ListInv, Withdrawn, Excused, Finds, Here
    <2>2. CASE row.status # "UNSUBSCRIBED"
      <3>1. pc'[q] = "unsubscribe" /\ Others(q) /\ UNCHANGED <<row, past>>
        BY <1>10, <2>2, GotoFields DEF FollowLink
      <3> QED
        BY <3>1 DEF ListInv, Withdrawn, Excused, Others, Finds, Here
    <2> QED
      BY <2>1, <2>2
  <1>11. ASSUME NEW q \in Request, Unsubscribe(q) PROVE Withdrawn'
    <2>1. CASE Lost(q, "unsubscribe")
      BY <1>a, <2>1, LostEnds DEF Ends, Others, Finds, Here, TypeOK, Row, Mem, Past, Serial, None, ListInv, Withdrawn, Proved, Numbered, Excused, Overtakes, Deciding
    <2>2. CASE ~Lost(q, "unsubscribe")
      BY <1>11, <1>a, <2>2, UnsubscribeDoes
         DEF Others, Ends, PastKept, Born, Reopened, Minted, Unminted, Offed, Finds, Here,
             TypeOK, Row, Mem, Past, Serial, None, ListInv, Withdrawn, Proved, Numbered, Excused, Overtakes, Deciding
    <2> QED
      BY <2>1, <2>2
  <1>12. ASSUME NEW q \in Request, UnsubscribeByAnnouncement(q) PROVE Withdrawn'
    BY <1>12, <1>a DEF UnsubscribeByAnnouncement, Arrive, Finds, Here, Off, ReadersNo,
         TypeOK, Row, Mem, Past, Serial, None, ListInv, Withdrawn, Proved, Numbered, Excused,
         Overtakes, Deciding
  <1>13. ASSUME NEW q \in Request, OptIn(q) PROVE Withdrawn'
    BY <1>13, <1>a DEF OptIn, Goto, Arrive, Finds, Here, Blank, TypeOK, Row, Mem, Past,
         Serial, None, ListInv, Withdrawn, Proved, Numbered, Excused, Overtakes, Deciding
  <1>14. ASSUME NEW q \in Request, WriteOptIn(q) PROVE Withdrawn'
    <2>1. CASE Lost(q, "optIn")
      BY <1>a, <2>1, LostEnds DEF Ends, Others, Finds, Here, TypeOK, Row, Mem, Past, Serial, None, ListInv, Withdrawn, Proved, Numbered, Excused, Overtakes, Deciding
    <2>2. CASE ~Lost(q, "optIn")
      BY <1>14, <1>a, <2>2, WriteOptInDoes
         DEF Others, Ends, PastKept, Born, Reopened, Minted, Unminted, Offed, Finds, Here,
             TypeOK, Row, Mem, Past, Serial, None, ListInv, Withdrawn, Proved, Numbered, Excused, Overtakes, Deciding
    <2> QED
      BY <2>1, <2>2
  <1>15. ASSUME NEW q \in Request, Verify(q) PROVE Withdrawn'
    BY <1>15, <1>a DEF Verify, Goto, Arrive, Finds, Here, Blank, TypeOK, Row, Mem, Past,
         Serial, None, ListInv, Withdrawn, Proved, Numbered, Excused, Overtakes, Deciding
  <1>16. ASSUME NEW q \in Request, ReadSignup(q) PROVE Withdrawn'
    BY <1>16, <1>a DEF ReadSignup, Goto, Done, Finds, Here, Blank, TypeOK, Row, Mem, Past,
         Serial, None, ListInv, Withdrawn, Proved, Numbered, Excused, Overtakes, Deciding
  <1>17. ASSUME NEW q \in Request, Activate(q) PROVE Withdrawn'
    <2>1. CASE Ends(q)
      BY <1>a, <2>1 DEF Ends, Others, Finds, Here, ListInv, Withdrawn, Excused
    <2>2. CASE ~Ends(q)
      <3>1. /\ pc[q] = "activate" /\ Finds(q) /\ row'.status = "ACTIVE" /\ row'.id = row.id
            /\ pc'[q] = "rotate" /\ Others(q) /\ past'.withdrawn = past.withdrawn
            /\ past'.handled = past.handled /\ past'.overtaken = (past.overtaken \/ Overtakes(q))
        BY <1>17, <2>2, ActivateDoes
      <3>2. past.withdrawn => Excused
        BY <3>1 DEF ListInv, Withdrawn
      <3>3. Excused => Excused'
        BY <3>1 DEF Excused
      <3> QED
        BY <3>1, <3>2, <3>3 DEF Withdrawn
    <2> QED
      BY <2>1, <2>2
  <1>18. ASSUME NEW q \in Request, AdminUnsubscribe(q) PROVE Withdrawn'
    BY <1>18, <1>a DEF AdminUnsubscribe, Goto, Arrive, Finds, Here, Blank, TypeOK, Row, Mem,
         Past, Serial, None, ListInv, Withdrawn, Proved, Numbered, Excused, Overtakes, Deciding
  <1>19. ASSUME NEW q \in Request, Stop(q) PROVE Withdrawn'
    <2>1. CASE Lost(q, "stop")
      BY <1>a, <2>1, LostEnds DEF Ends, Others, Finds, Here, TypeOK, Row, Mem, Past, Serial, None, ListInv, Withdrawn, Proved, Numbered, Excused, Overtakes, Deciding
    <2>2. CASE ~Lost(q, "stop")
      BY <1>19, <1>a, <2>2, StopDoes
         DEF Others, Ends, PastKept, Born, Reopened, Minted, Unminted, Offed, Finds, Here,
             TypeOK, Row, Mem, Past, Serial, None, ListInv, Withdrawn, Proved, Numbered, Excused, Overtakes, Deciding
    <2> QED
      BY <2>1, <2>2
  <1>20. ASSUME NEW q \in Request, AdminResubscribe(q) PROVE Withdrawn'
    BY <1>20, <1>a DEF AdminResubscribe, Goto, Arrive, Finds, Here, RestoreOrInvite, Blank,
         TypeOK, Row, Mem, Past, Serial, None, ListInv, Withdrawn, Proved, Numbered, Excused,
         Overtakes, Deciding
  <1>21. ASSUME NEW q \in Request, AdminAdd(q) PROVE Withdrawn'
    BY <1>21, <1>a DEF AdminAdd, Goto, Arrive, Finds, Here, RestoreOrInvite, Blank, TypeOK,
         Row, Mem, Past, Serial, None, ListInv, Withdrawn, Proved, Numbered, Excused, Overtakes,
         Deciding
  <1>22. ASSUME NEW q \in Request, Add(q) PROVE Withdrawn'
    BY <1>22, <1>a DEF Add, Goto, Finds, Here, Birth, Fresh, NoRow, Blank, TypeOK, Row, Mem,
         Past, Serial, None, ListInv, Withdrawn, Proved, Numbered, Excused, Overtakes, Deciding
  <1>23. ASSUME NEW q \in Request, Restore(q) PROVE Withdrawn'
    <2>1. CASE Lost(q, "restore")
      BY <1>a, <2>1, LostEnds DEF Ends, Others, Finds, Here, TypeOK, Row, Mem, Past, Serial, None, ListInv, Withdrawn, Proved, Numbered, Excused, Overtakes, Deciding
    <2>2. CASE ~Lost(q, "restore")
      BY <1>23, <1>a, <2>2, RestoreDoes
         DEF Others, Ends, PastKept, Born, Reopened, Minted, Unminted, Offed, Finds, Here,
             TypeOK, Row, Mem, Past, Serial, None, ListInv, Withdrawn, Proved, Numbered, Excused, Overtakes, Deciding
    <2> QED
      BY <2>1, <2>2
  <1>24. ASSUME NEW q \in Request, Invite(q) PROVE Withdrawn'
    <2>1. CASE Lost(q, "invite")
      BY <1>a, <2>1, LostEnds DEF Ends, Others, Finds, Here, TypeOK, Row, Mem, Past, Serial, None, ListInv, Withdrawn, Proved, Numbered, Excused, Overtakes, Deciding
    <2>2. CASE ~Lost(q, "invite")
      BY <1>24, <1>a, <2>2, InviteDoes
         DEF Others, Ends, PastKept, Born, Reopened, Minted, Unminted, Offed, Finds, Here,
             TypeOK, Row, Mem, Past, Serial, None, ListInv, Withdrawn, Proved, Numbered, Excused, Overtakes, Deciding
    <2> QED
      BY <2>1, <2>2
  <1>25. ASSUME NEW q \in Request, Delete(q) PROVE Withdrawn'
    BY <1>25, <1>a DEF Delete, Arrive, Finds, Here, Birth, NoRow, TypeOK, Row, Mem, Past,
         Serial, None, ListInv, Withdrawn, Proved, Numbered, Excused, Overtakes, Deciding
  <1>26. ASSUME NEW q \in Request, SetEmailVerified(q) PROVE Withdrawn'
    BY <1>26, <1>a DEF SetEmailVerified, Arrive, Finds, Here, TypeOK, Row, Mem, Past,
         Serial, None, ListInv, Withdrawn, Proved, Numbered, Excused, Overtakes, Deciding
  <1>27. ASSUME NEW q \in Request, Crash(q) PROVE Withdrawn'
    BY <1>27, <1>a DEF Crash, Goto, Done, Finds, Here, Blank, TypeOK, Row, Mem, Past,
         Serial, None, ListInv, Withdrawn, Proved, Numbered, Excused, Overtakes, Deciding
  <1>28. CASE Purge
    BY <1>28, <1>a DEF Purge, Finds, Here, Birth, NoRow, TypeOK, Row, Mem, Past, Serial,
         None, ListInv, Withdrawn, Proved, Numbered, Excused, Overtakes, Deciding
  <1>29. CASE Wait
    BY <1>29, <1>a DEF Wait, Finds, Here, TypeOK, Row, Mem, Past, Serial, None, ListInv,
         Withdrawn, Proved, Numbered, Excused, Overtakes, Deciding
  <1>30. CASE UNCHANGED vars
    BY <1>30, <1>a DEF vars, Finds, Here, TypeOK, Row, Mem, Past, Serial, None, ListInv,
         Withdrawn, Proved, Numbered, Excused, Overtakes, Deciding
  <1> QED
    BY <1>1, <1>2, <1>3, <1>4, <1>5, <1>6, <1>7, <1>8, <1>9, <1>10, <1>11, <1>12,
       <1>13, <1>14, <1>15, <1>16, <1>17, <1>18, <1>19, <1>20, <1>21, <1>22, <1>23,
       <1>24, <1>25, <1>26, <1>27, <1>28, <1>29, <1>30
       DEF Next, Reader, Administrator

LEMMA HeldStep == TypeOK /\ TypeOK' /\ ListInv /\ [Next]_vars => Held'
  <1> SUFFICES ASSUME TypeOK, TypeOK', ListInv, [Next]_vars PROVE Held'
    OBVIOUS
  <1> USE DEF requestVars
  <1>a. /\ row \in Row /\ row' \in Row /\ past \in Past /\ past' \in Past
        /\ issued.id \in Nat /\ issued.token \in Nat /\ issued.link \in Nat
        /\ \A q \in Request : mem[q] \in Mem
    BY DEF TypeOK
  <1>b. TypeOK /\ Held
    BY DEF ListInv
  <1>1. ASSUME NEW q \in Request, Subscribe(q) PROVE Held'
    BY <1>1, <1>a DEF Subscribe, Goto, Arrive, Finds, Here, Blank, TypeOK, Row, Mem, Past,
         Serial, None, ListInv, Held, Welcomed, Proved, Numbered
  <1>2. ASSUME NEW q \in Request, Upsert(q) PROVE Held'
    <2>1. CASE Born(q)
      BY <2>1 DEF Born, Held
    <2>2. CASE Reopened /\ PastKept
      BY <1>2, <2>2, UpsertDoes, <1>b, KeepsHeld DEF Upsert, Reopened, PastKept
    <2> QED
      BY <1>2, <2>1, <2>2, UpsertDoes
  <1>3. ASSUME NEW q \in Request, Outrun(q) PROVE Held'
    BY <1>3, <1>a DEF Outrun, Goto, Done, Finds, Here, Blank, TypeOK, Row, Mem, Past,
         Serial, None, ListInv, Held, Welcomed, Proved, Numbered
  <1>4. ASSUME NEW q \in Request, MailConfirm(q) PROVE Held'
    <2>1. pc[q] = "mailConfirm" /\ Others(q) /\ UNCHANGED <<row, past>>
          /\ mailed'.link = mailed.link /\ mailed'.noLink = mailed.noLink
      BY <1>4, <1>b, MailConfirmDoes
    <2> QED
      BY <1>b, <2>1 DEF Held, Welcomed, Others, Finds, Here
  <1>5. ASSUME NEW q \in Request, Click(q) PROVE Held'
    BY <1>5, <1>a DEF Click, Goto, Arrive, Finds, Here, Blank, TypeOK, Row, Mem, Past,
         Serial, None, ListInv, Held, Welcomed, Proved, Numbered
  <1>6. ASSUME NEW q \in Request, Confirm(q) PROVE Held'
    BY <1>6, <1>a DEF Confirm, Goto, Finds, Here, Blank, TypeOK, Row, Mem, Past, Serial,
         None, ListInv, Held, Welcomed, Proved, Numbered
  <1>7. ASSUME NEW q \in Request, Beaten(q) PROVE Held'
    BY <1>7, <1>a DEF Beaten, Goto, Done, Finds, Here, Blank, TypeOK, Row, Mem, Past,
         Serial, None, ListInv, Held, Welcomed, Proved, Numbered
  <1>8. ASSUME NEW q \in Request, Rotate(q) PROVE Held'
    <2>1. CASE Lost(q, "rotate")
      BY <2>1, LostEnds, <1>b, EndsHeld
    <2>2. CASE ~Lost(q, "rotate")
      <3>1. Welcomed'
        BY <1>8, <2>2, RotateDoes DEF Welcomed
      <3> QED
        BY <3>1 DEF Held
    <2> QED
      BY <2>1, <2>2
  <1>9. ASSUME NEW q \in Request, Welcome(q) PROVE Held'
    <2>1. /\ pc[q] = "welcome" /\ Others(q) /\ UNCHANGED <<row, past>>
          /\ mailed'.link \cup mailed'.noLink
                 = (mailed.link \cup mailed.noLink) \cup {mem[q].serial}
      BY <1>9, <1>b, WelcomeDoes
    <2> QED
      BY <1>b, <2>1 DEF Held, Welcomed, Others, Finds, Here
  <1>10. ASSUME NEW q \in Request, FollowLink(q) PROVE Held'
    BY <1>10, <1>a DEF FollowLink, Goto, Arrive, Finds, Here, Blank, TypeOK, Row, Mem, Past,
         Serial, None, ListInv, Held, Welcomed, Proved, Numbered
  <1>11. ASSUME NEW q \in Request, Unsubscribe(q) PROVE Held'
    <2>1. CASE Lost(q, "unsubscribe")
      BY <2>1, LostEnds, <1>b, EndsHeld
    <2>2. CASE ~Lost(q, "unsubscribe")
      BY <1>11, <2>2, UnsubscribeDoes, <1>b, KeepsHeld DEF Offed, Finds
    <2> QED
      BY <2>1, <2>2
  <1>12. ASSUME NEW q \in Request, UnsubscribeByAnnouncement(q) PROVE Held'
    BY <1>12, <1>a DEF UnsubscribeByAnnouncement, Arrive, Finds, Here, Off, ReadersNo,
         TypeOK, Row, Mem, Past, Serial, None, ListInv, Held, Welcomed, Proved, Numbered
  <1>13. ASSUME NEW q \in Request, OptIn(q) PROVE Held'
    BY <1>13, <1>a DEF OptIn, Goto, Arrive, Finds, Here, Blank, TypeOK, Row, Mem, Past,
         Serial, None, ListInv, Held, Welcomed, Proved, Numbered
  <1>14. ASSUME NEW q \in Request, WriteOptIn(q) PROVE Held'
    <2>1. CASE Lost(q, "optIn")
      BY <2>1, LostEnds, <1>b, EndsHeld
    <2>2. CASE ~Lost(q, "optIn")
      <3>1. CASE Born(q)
        BY <3>1 DEF Born, Held
      <3>2. CASE ~Born(q)
        BY <1>14, <2>2, <3>2, WriteOptInDoes, <1>b, KeepsHeld DEF Reopened
      <3> QED
        BY <3>1, <3>2
    <2> QED
      BY <2>1, <2>2
  <1>15. ASSUME NEW q \in Request, Verify(q) PROVE Held'
    BY <1>15, <1>a DEF Verify, Goto, Arrive, Finds, Here, Blank, TypeOK, Row, Mem, Past,
         Serial, None, ListInv, Held, Welcomed, Proved, Numbered
  <1>16. ASSUME NEW q \in Request, ReadSignup(q) PROVE Held'
    BY <1>16, <1>a DEF ReadSignup, Goto, Done, Finds, Here, Blank, TypeOK, Row, Mem, Past,
         Serial, None, ListInv, Held, Welcomed, Proved, Numbered
  <1>17. ASSUME NEW q \in Request, Activate(q) PROVE Held'
    <2>1. CASE Ends(q)
      BY <1>17, <2>1, <1>b, EndsHeld DEF Activate
    <2>2. CASE ~Ends(q)
      BY <1>17, <2>2, ActivateDoes DEF Held, Welcomed, Finds, Here
    <2> QED
      BY <2>1, <2>2
  <1>18. ASSUME NEW q \in Request, AdminUnsubscribe(q) PROVE Held'
    BY <1>18, <1>a DEF AdminUnsubscribe, Goto, Arrive, Finds, Here, Blank, TypeOK, Row, Mem,
         Past, Serial, None, ListInv, Held, Welcomed, Proved, Numbered
  <1>19. ASSUME NEW q \in Request, Stop(q) PROVE Held'
    <2>1. CASE Lost(q, "stop")
      BY <2>1, LostEnds, <1>b, EndsHeld
    <2>2. CASE ~Lost(q, "stop")
      BY <1>19, <2>2, StopDoes, <1>b, KeepsHeld DEF Offed, Finds
    <2> QED
      BY <2>1, <2>2
  <1>20. ASSUME NEW q \in Request, AdminResubscribe(q) PROVE Held'
    BY <1>20, <1>a DEF AdminResubscribe, Goto, Arrive, Finds, Here, RestoreOrInvite, Blank,
         TypeOK, Row, Mem, Past, Serial, None, ListInv, Held, Welcomed, Proved, Numbered
  <1>21. ASSUME NEW q \in Request, AdminAdd(q) PROVE Held'
    BY <1>21, <1>a DEF AdminAdd, Goto, Arrive, Finds, Here, RestoreOrInvite, Blank, TypeOK,
         Row, Mem, Past, Serial, None, ListInv, Held, Welcomed, Proved, Numbered
  <1>22. ASSUME NEW q \in Request, Add(q) PROVE Held'
    BY <1>22, <1>a DEF Add, Goto, Finds, Here, Birth, Fresh, NoRow, Blank, TypeOK, Row, Mem,
         Past, Serial, None, ListInv, Held, Welcomed, Proved, Numbered
  <1>23. ASSUME NEW q \in Request, Restore(q) PROVE Held'
    <2>1. CASE Lost(q, "restore")
      BY <2>1, LostEnds, <1>b, EndsHeld
    <2>2. CASE ~Lost(q, "restore")
      BY <1>23, <2>2, RestoreDoes, <1>b, KeepsHeld DEF Finds
    <2> QED
      BY <2>1, <2>2
  <1>24. ASSUME NEW q \in Request, Invite(q) PROVE Held'
    <2>1. CASE Lost(q, "invite")
      BY <2>1, LostEnds, <1>b, EndsHeld
    <2>2. CASE ~Lost(q, "invite")
      BY <1>24, <2>2, InviteDoes, <1>b, KeepsHeld DEF Reopened, Finds
    <2> QED
      BY <2>1, <2>2
  <1>25. ASSUME NEW q \in Request, Delete(q) PROVE Held'
    BY <1>25, <1>a DEF Delete, Arrive, Finds, Here, Birth, NoRow, TypeOK, Row, Mem, Past,
         Serial, None, ListInv, Held, Welcomed, Proved, Numbered
  <1>26. ASSUME NEW q \in Request, SetEmailVerified(q) PROVE Held'
    BY <1>26, <1>a DEF SetEmailVerified, Arrive, Finds, Here, TypeOK, Row, Mem, Past,
         Serial, None, ListInv, Held, Welcomed, Proved, Numbered
  <1>27. ASSUME NEW q \in Request, Crash(q) PROVE Held'
    BY <1>27, <1>a DEF Crash, Goto, Done, Finds, Here, Blank, TypeOK, Row, Mem, Past,
         Serial, None, ListInv, Held, Welcomed, Proved, Numbered
  <1>28. CASE Purge
    BY <1>28, <1>a DEF Purge, Finds, Here, Birth, NoRow, TypeOK, Row, Mem, Past, Serial,
         None, ListInv, Held, Welcomed, Proved, Numbered
  <1>29. CASE Wait
    BY <1>29, <1>a DEF Wait, Finds, Here, TypeOK, Row, Mem, Past, Serial, None, ListInv,
         Held, Welcomed, Proved, Numbered
  <1>30. CASE UNCHANGED vars
    BY <1>30, <1>a DEF vars, Finds, Here, TypeOK, Row, Mem, Past, Serial, None, ListInv,
         Held, Welcomed, Proved, Numbered
  <1> QED
    BY <1>1, <1>2, <1>3, <1>4, <1>5, <1>6, <1>7, <1>8, <1>9, <1>10, <1>11, <1>12,
       <1>13, <1>14, <1>15, <1>16, <1>17, <1>18, <1>19, <1>20, <1>21, <1>22, <1>23,
       <1>24, <1>25, <1>26, <1>27, <1>28, <1>29, <1>30
       DEF Next, Reader, Administrator

LEMMA ListStep == TypeOK /\ TypeOK' /\ ListInv /\ [Next]_vars => ListInv'
  BY NumberedStep, CarriedStep, ProvedStep, UnspentStep, WithdrawnStep, HeldStep DEF ListInv

LEMMA ListAlways == Spec => []ListInv
  BY ListInit, ListStep, Typing, PTL DEF Spec

\* Nobody is on the list whose mailbox was not proved since their row was created: every
\* way to ACTIVE is a confirmed one, also when an administrator restores the row.
THEOREM Consent == Spec => []ConsentGiven
  <1>1. ListInv => ConsentGiven
    BY DEF ListInv, Proved, ConsentGiven
  <1> QED
    BY <1>1, ListAlways, PTL

\* A confirmation link works once, and not after a later no: the write that confirms
\* matches the token again, and no row has a token that was spent.
THEOREM Revivals == Spec => []NeverRevived
  <1>1. ListInv => NeverRevived
    BY DEF ListInv, Unspent, NeverRevived
  <1> QED
    BY <1>1, ListAlways, PTL

\* A reader who said no is on the list again only by a yes, an administrator or a race.
THEOREM Withdrawals == Spec => []WithdrawnStays
  <1>1. ListInv => WithdrawnStays
    BY DEF ListInv, Withdrawn, Excused, WithdrawnStays
  <1> QED
    BY <1>1, ListAlways, PTL

\* Whoever is on the list holds the link that takes them off it, or it is on its way, unless
\* a process died or the welcome that carried it was refused or suppressed.
THEOREM Links == Spec => []LinkHeld
  <1>1. ListInv => LinkHeld
    BY DEF ListInv, Proved, Held, Welcomed, LinkHeld, Welcomes, Finds
  <1> QED
    BY <1>1, ListAlways, PTL

-----------------------------------------------------------------------------
(***************************************************************************)
(* Whoever is asked to confirm can, by a second invariant.                 *)
(***************************************************************************)
\* The message that carries a confirm token was sent or refused, or is on its way.
Sending(t) ==
    t \in mailed.token \cup mailed.noToken \/ \E q \in Request : pc[q] = "mailConfirm" /\ mem[q].serial = t

\* The row is to be confirmed by a click.
Awaits == Here /\ row.status = "PENDING" /\ ~row.signup

\* A token on the row is in a message, or its process died.
TokenSent == Here /\ row.token # None => Sending(row.token) \/ past.crashed

\* An invitation that found a usable confirmation, and will send no other, finds it
\* still, unless something overtook it.
Spared ==
    \A q \in Request :
        pc[q] = "invite" /\ Finds(q) /\ ~mem[q].flag => row.token # None \/ past.overtaken

\* A row that is to be confirmed is being asked, or about to be.
Asked ==
    Awaits =>
        \/ Sending(row.token)
        \/ \E q \in Request : pc[q] = "invite" /\ Finds(q) /\ mem[q].flag
        \/ past.overtaken \/ past.crashed

AskInv == TokenSent /\ Spared /\ Asked

LEMMA AskInit == Init => AskInv
  <1> SUFFICES ASSUME Init PROVE AskInv
    OBVIOUS
  <1>1. ~Here
    BY DEF Init, Here, NoRow
  <1> QED
    BY <1>1 DEF AskInv, TokenSent, Spared, Asked, Awaits, Finds

\* Posting goes on while other requests move.
LEMMA SendingStays ==
    ASSUME NEW q \in Request, Others(q), pc[q] # "mailConfirm", NEW t,
           mailed'.token = mailed.token, mailed'.noToken = mailed.noToken, Sending(t)
    PROVE  t \in mailed'.token \cup mailed'.noToken
           \/ \E r \in Request : pc'[r] = "mailConfirm" /\ mem'[r].serial = t
  BY DEF Sending, Others

\* A step that leaves the token where it is and asks for no confirmation; an invitation
\* it begins, or ends, is one that need not.
LEMMA AsideAsks ==
    ASSUME TypeOK, AskInv, NEW q \in Request, Others(q), pc[q] # "mailConfirm",
           pc[q] = "invite" => ~Finds(q),
           pc'[q] = "invite" => mem'[q].flag \/ row.token # None,
           row'.id = row.id, row'.token = row.token,
           mailed'.token = mailed.token, mailed'.noToken = mailed.noToken,
           Awaits' => Awaits,
           past'.overtaken = past.overtaken, past'.crashed = past.crashed
    PROVE  AskInv'
  <1>1. \A t : Sending(t) => t \in mailed'.token \cup mailed'.noToken
                             \/ \E r \in Request : pc'[r] = "mailConfirm" /\ mem'[r].serial = t
    BY SendingStays
  <1>2. TokenSent'
    BY <1>1 DEF AskInv, TokenSent, Sending, Here
  <1>3. Spared'
    BY DEF AskInv, Spared, Others, Finds, Here
  <1>4. Asked'
    <2> SUFFICES ASSUME Awaits', ~past'.overtaken, ~past'.crashed
                 PROVE  \/ Sending(row.token)'
                        \/ (\E r \in Request : pc[r] = "invite" /\ Finds(r) /\ mem[r].flag)'
      BY DEF Asked
    <2>1. CASE Sending(row.token)
      BY <1>1, <2>1 DEF Sending
    <2>2. CASE \E r \in Request : pc[r] = "invite" /\ Finds(r) /\ mem[r].flag
      <3>1. PICK r \in Request : pc[r] = "invite" /\ Finds(r) /\ mem[r].flag
        BY <2>2
      <3>2. r # q
        BY <3>1
      <3>3. pc'[r] = "invite" /\ Finds(r)' /\ mem'[r].flag
        BY <3>1, <3>2 DEF Others, Finds, Here
      <3> QED
        BY <3>3
    <2> QED
      BY <2>1, <2>2 DEF AskInv, Asked
  <1> QED
    BY <1>2, <1>3, <1>4 DEF AskInv

\* A yes or a no: the token goes, and whoever was about to invite was overtaken.
LEMMA ClearedAsks ==
    ASSUME TypeOK, AskInv, NEW q \in Request, Others(q), pc'[q] # "invite",
           row'.token = None, row'.status # "PENDING",
           past'.overtaken = (past.overtaken \/ Overtakes(q))
    PROVE  AskInv'
  <1>1. \A r \in Request : pc'[r] = "invite" => past'.overtaken
    BY DEF Others, Overtakes, Deciding
  <1> QED
    BY <1>1 DEF AskInv, TokenSent, Spared, Asked, Awaits

\* A request that posts the token that the row now has.
LEMMA MintedAsks ==
    ASSUME TypeOK, NEW q \in Request, Minted(q)
    PROVE  AskInv'
  <1>1. row'.token # None /\ Sending(row.token)'
    BY DEF Minted, Sending, TypeOK, None
  <1> QED
    BY <1>1 DEF AskInv, TokenSent, Spared, Asked

\* A row of one's own: no invitation under way is for it.
LEMMA BornAsks ==
    ASSUME TypeOK, Numbered, NEW q \in Request, Others(q),
           row'.id = issued.id + 1, row'.token = None,
           pc'[q] = "invite" => mem'[q].flag,
           Awaits' => pc'[q] = "invite" /\ mem'[q].id = row'.id
    PROVE  AskInv'
  <1>1. \A r \in Request : r # q => ~Finds(r)'
    BY DEF Others, Finds, Numbered, TypeOK, Mem, Serial, None
  <1>2. Awaits' => Finds(q)' /\ mem'[q].flag /\ pc'[q] = "invite"
    BY DEF Awaits, Finds
  <1> QED
    BY <1>1, <1>2 DEF AskInv, TokenSent, Spared, Asked

LEMMA GoneAsks == ASSUME ~Here' PROVE AskInv'
  BY DEF AskInv, TokenSent, Spared, Asked, Awaits, Finds

\* What a lost update leaves.
LEMMA LostAsks ==
    ASSUME TypeOK, AskInv, NEW q \in Request, NEW phase, Lost(q, phase), phase # "mailConfirm"
    PROVE  AskInv'
  BY LostEnds, AsideAsks DEF Ends, Awaits, Here

LEMMA InvitationFits ==
    ASSUME TypeOK, NEW q \in Request, RestoreOrInvite(q)
    PROVE  pc'[q] = "invite" => mem'[q].flag \/ row.token # None
  <1>1. CASE row.via = "admin" /\ row.confirmed
    BY <1>1, GotoFields DEF RestoreOrInvite
  <1>2. CASE ~(row.via = "admin" /\ row.confirmed)
    <2>1. mem'[q] = [Blank EXCEPT !.id = row.id, !.flag = CooledDown]
      BY <1>2, GotoFields DEF RestoreOrInvite
    <2>2. mem'[q].flag = CooledDown
      BY <2>1 DEF Blank
    <2> QED
      BY <2>2 DEF CooledDown
  <1> QED
    BY <1>1, <1>2

LEMMA AskStep == TypeOK /\ TypeOK' /\ ListInv /\ AskInv /\ [Next]_vars => AskInv'
  <1> SUFFICES ASSUME TypeOK, TypeOK', ListInv, AskInv, [Next]_vars PROVE AskInv'
    OBVIOUS
  <1> USE DEF requestVars
  <1>a. TypeOK /\ AskInv /\ Numbered
    BY DEF ListInv
  <1>1. ASSUME NEW q \in Request, Subscribe(q) PROVE AskInv'
    BY <1>1, <1>a, GotoFields, AsideAsks DEF Subscribe, Arrive, Awaits, Here
  <1>2. ASSUME NEW q \in Request, Upsert(q) PROVE AskInv'
    BY <1>2, <1>a, UpsertDoes, MintedAsks
  <1>3. ASSUME NEW q \in Request, Outrun(q) PROVE AskInv'
    BY <1>3, <1>a, DoneFields, AsideAsks DEF Outrun, Awaits, Here
  <1>4. ASSUME NEW q \in Request, MailConfirm(q) PROVE AskInv'
    <2>1. /\ pc[q] = "mailConfirm" /\ pc'[q] = "idle" /\ Others(q)
          /\ mailed'.token \cup mailed'.noToken
                 = (mailed.token \cup mailed.noToken) \cup {mem[q].serial}
          /\ UNCHANGED <<row, past>>
      BY <1>4, <1>a, MailConfirmDoes
    <2>2. \A t : Sending(t) => t \in mailed'.token \cup mailed'.noToken
                              \/ \E r \in Request : pc'[r] = "mailConfirm" /\ mem'[r].serial = t
      BY <2>1 DEF Sending, Others
    <2>3. TokenSent'
      BY <1>a, <2>1, <2>2 DEF AskInv, TokenSent, Sending, Here
    <2>4. Spared'
      BY <1>a, <2>1 DEF AskInv, Spared, Finds, Here, Others
    <2>5. (\E r \in Request : pc[r] = "invite" /\ Finds(r) /\ mem[r].flag) =>
              \E r \in Request : pc'[r] = "invite" /\ Finds(r)' /\ mem'[r].flag
      BY <2>1 DEF Finds, Here, Others
    <2>6. Sending(row.token) => Sending(row.token)'
      BY <2>1, <2>2 DEF Sending
    <2>7. Asked'
      BY <1>a, <2>1, <2>5, <2>6 DEF AskInv, Asked, Awaits, Here
    <2> QED
      BY <2>3, <2>4, <2>7 DEF AskInv
  <1>5. ASSUME NEW q \in Request, Click(q) PROVE AskInv'
    BY <1>5, <1>a, GotoFields, AsideAsks DEF Click, Arrive, Awaits, Here
  <1>6. ASSUME NEW q \in Request, Confirm(q) PROVE AskInv'
    <2>1. pc'[q] = "rotate" /\ Others(q)
      BY <1>6, GotoFields DEF Confirm
    <2>2. row'.token = None /\ row'.status = "ACTIVE"
      BY <1>6 DEF Confirm, TypeOK, Row
    <2>3. past'.overtaken = (past.overtaken \/ Overtakes(q))
      BY <1>6 DEF Confirm, TypeOK, Past
    <2> QED
      BY <1>a, <2>1, <2>2, <2>3, ClearedAsks
  <1>7. ASSUME NEW q \in Request, Beaten(q) PROVE AskInv'
    BY <1>7, <1>a, DoneFields, AsideAsks DEF Beaten, Awaits, Here
  <1>8. ASSUME NEW q \in Request, Rotate(q) PROVE AskInv'
    <2>1. CASE Lost(q, "rotate")
      BY <1>a, <2>1, LostAsks
    <2>2. CASE ~Lost(q, "rotate")
      BY <1>8, <1>a, <2>2, RotateDoes, AsideAsks DEF Awaits, Here
    <2> QED
      BY <2>1, <2>2
  <1>9. ASSUME NEW q \in Request, Welcome(q) PROVE AskInv'
    BY <1>9, <1>a, WelcomeDoes, AsideAsks DEF Awaits, Here
  <1>10. ASSUME NEW q \in Request, FollowLink(q) PROVE AskInv'
    <2>1. past'.overtaken = past.overtaken /\ past'.crashed = past.crashed
      BY <1>10 DEF FollowLink, TypeOK, Past
    <2>2. Others(q) /\ pc'[q] # "invite" /\ pc[q] = "idle" /\ UNCHANGED <<row, mailed>>
      <3>1. CASE UNCHANGED requestVars
        BY <1>10, <3>1 DEF FollowLink, Arrive, Others
      <3>2. CASE Goto(q, "unsubscribe", [Blank EXCEPT !.id = row.id])
        BY <1>10, <3>2, GotoFields DEF FollowLink, Arrive
      <3> QED
        BY <1>10, <3>1, <3>2 DEF FollowLink
    <2> QED
      BY <1>a, <2>1, <2>2, AsideAsks DEF Awaits, Here
  <1>11. ASSUME NEW q \in Request, Unsubscribe(q) PROVE AskInv'
    <2>1. CASE Lost(q, "unsubscribe")
      BY <1>a, <2>1, LostAsks
    <2>2. CASE ~Lost(q, "unsubscribe")
      BY <1>11, <1>a, <2>2, UnsubscribeDoes, ClearedAsks DEF Offed
    <2> QED
      BY <2>1, <2>2
  <1>12. ASSUME NEW q \in Request, UnsubscribeByAnnouncement(q) PROVE AskInv'
    <2>1. Others(q) /\ pc'[q] # "invite"
      BY <1>12 DEF UnsubscribeByAnnouncement, Arrive, Others
    <2>2. row'.token = None /\ row'.status = "UNSUBSCRIBED"
      BY <1>12 DEF UnsubscribeByAnnouncement, Off, TypeOK, Row
    <2>3. past'.overtaken = (past.overtaken \/ Overtakes(q))
      BY <1>12 DEF UnsubscribeByAnnouncement, ReadersNo, TypeOK, Past
    <2> QED
      BY <1>a, <2>1, <2>2, <2>3, ClearedAsks
  <1>13. ASSUME NEW q \in Request, OptIn(q) PROVE AskInv'
    BY <1>13, <1>a, GotoFields, AsideAsks DEF OptIn, Arrive, Awaits, Here
  <1>14. ASSUME NEW q \in Request, WriteOptIn(q) PROVE AskInv'
    <2>1. CASE Lost(q, "optIn")
      BY <1>a, <2>1, LostAsks
    <2>2. CASE ~Lost(q, "optIn")
      <3>1. /\ pc[q] = "optIn" /\ row'.signup /\ Others(q) /\ mailed' = mailed
            /\ pc'[q] \in {"activate", "idle"}
        BY <1>14, <1>a, <2>2, WriteOptInDoes
      <3>2. CASE Born(q) /\ row'.token = None
        BY <1>a, <3>1, <3>2, BornAsks DEF Born, Awaits
      <3>3. CASE /\ Reopened /\ row'.token = row.token
                 /\ past'.overtaken = past.overtaken /\ past'.crashed = past.crashed
        BY <1>a, <3>1, <3>3, AsideAsks DEF Reopened, Awaits
      <3> QED
        BY <1>14, <1>a, <2>2, <3>2, <3>3, WriteOptInDoes
    <2> QED
      BY <2>1, <2>2
  <1>15. ASSUME NEW q \in Request, Verify(q) PROVE AskInv'
    BY <1>15, <1>a, GotoFields, AsideAsks DEF Verify, Arrive, Awaits, Here
  <1>16. ASSUME NEW q \in Request, ReadSignup(q) PROVE AskInv'
    <2>1. Others(q) /\ pc'[q] # "invite"
      <3>1. \/ Goto(q, "activate", [Blank EXCEPT !.id = row.id])
            \/ Done(q)
        BY <1>16 DEF ReadSignup
      <3> QED
        BY <1>a, <3>1, GotoFields, DoneFields
    <2> QED
      BY <1>16, <1>a, <2>1, AsideAsks DEF ReadSignup, Awaits, Here
  <1>17. ASSUME NEW q \in Request, Activate(q) PROVE AskInv'
    <2>1. CASE Ends(q) /\ pc[q] = "activate"
      BY <1>a, <2>1, AsideAsks DEF Ends, Awaits, Here
    <2>2. CASE ~(Ends(q) /\ pc[q] = "activate")
      BY <1>17, <1>a, <2>2, ActivateDoes, ClearedAsks
    <2> QED
      BY <2>1, <2>2
  <1>18. ASSUME NEW q \in Request, AdminUnsubscribe(q) PROVE AskInv'
    BY <1>18, <1>a, GotoFields, AsideAsks DEF AdminUnsubscribe, Arrive, Awaits, Here
  <1>19. ASSUME NEW q \in Request, Stop(q) PROVE AskInv'
    <2>1. CASE Lost(q, "stop")
      BY <1>a, <2>1, LostAsks
    <2>2. CASE ~Lost(q, "stop")
      BY <1>19, <1>a, <2>2, StopDoes, ClearedAsks DEF Offed
    <2> QED
      BY <2>1, <2>2
  <1>20. ASSUME NEW q \in Request, AdminResubscribe(q) PROVE AskInv'
    BY <1>20, <1>a, RestoreOrInviteDoes, InvitationFits, AsideAsks
       DEF AdminResubscribe, Arrive, Awaits, Here
  <1>21. ASSUME NEW q \in Request, AdminAdd(q) PROVE AskInv'
    <2>1. pc[q] = "idle" /\ UNCHANGED <<row, mailed, past>>
      BY <1>21 DEF AdminAdd, Arrive
    <2>2. Others(q) /\ (pc'[q] = "invite" => mem'[q].flag \/ row.token # None)
      <3> DEFINE naming == [id |-> row.id, serial |-> None, flag |-> CooledDown, admin |-> TRUE]
      <3>1. CASE RestoreOrInvite(q)
        BY <1>a, <3>1, RestoreOrInviteDoes, InvitationFits
      <3>2. CASE Goto(q, "invite", naming)
        <4>1. Others(q) /\ mem'[q] = naming
          BY <1>a, <3>2, GotoFields
        <4>2. naming.flag = CooledDown
          OBVIOUS
        <4> QED
          BY <4>1, <4>2 DEF CooledDown
      <3>3. CASE Goto(q, "add", Blank)
        BY <1>a, <3>3, GotoFields
      <3> QED
        BY <1>21, <3>1, <3>2, <3>3 DEF AdminAdd
    <2> QED
      BY <1>a, <2>1, <2>2, AsideAsks DEF Awaits, Here
  <1>22. ASSUME NEW q \in Request, Add(q) PROVE AskInv'
    <2>1. row'.id = issued.id + 1 /\ row'.token = None
      BY <1>22, <1>a, RowFields DEF Add, TypeOK
    <2>2. pc'[q] = "invite" /\ mem'[q] = [Blank EXCEPT !.id = row'.id, !.flag = TRUE] /\ Others(q)
      BY <1>22, <1>a, GotoFields DEF Add
    <2>3. mem'[q].id = row'.id /\ mem'[q].flag
      BY <2>2 DEF Blank
    <2> QED
      BY <1>a, <2>1, <2>2, <2>3, BornAsks
  <1>23. ASSUME NEW q \in Request, Restore(q) PROVE AskInv'
    <2>1. CASE Lost(q, "restore")
      BY <1>a, <2>1, LostAsks
    <2>2. CASE ~Lost(q, "restore")
      BY <1>23, <1>a, <2>2, RestoreDoes, AsideAsks DEF Awaits
    <2> QED
      BY <2>1, <2>2
  <1>24. ASSUME NEW q \in Request, Invite(q) PROVE AskInv'
    <2>1. CASE Lost(q, "invite")
      BY <1>a, <2>1, LostAsks
    <2>2. CASE ~Lost(q, "invite")
      <3>1. /\ pc[q] = "invite" /\ Finds(q) /\ Reopened /\ Others(q) /\ mailed' = mailed
            /\ past'.overtaken = past.overtaken /\ past'.crashed = past.crashed
        BY <1>24, <1>a, <2>2, InviteDoes
      <3>2. CASE Minted(q)
        BY <1>a, <3>2, MintedAsks
      <3>3. CASE Unminted /\ ~mem[q].flag /\ pc'[q] = "idle"
        <4>1. row.token # None \/ past.overtaken
          BY <1>a, <3>1, <3>3 DEF AskInv, Spared
        <4>2. \/ row.token # None /\ Sending(row.token)
              \/ past.overtaken \/ past.crashed
          BY <1>a, <3>1, <4>1 DEF AskInv, TokenSent, Finds
        <4>3. Sending(row.token) => Sending(row.token)'
          BY <3>1, <3>3, SendingStays DEF Unminted, Sending
        <4>4. TokenSent'
          BY <1>a, <3>1, <3>3, <4>3 DEF AskInv, TokenSent, Unminted, Finds
        <4>5. Spared'
          BY <1>a, <3>1, <3>3 DEF AskInv, Spared, Unminted, Reopened, Finds, Here, Others
        <4>6. Asked'
          BY <3>1, <4>2, <4>3 DEF Asked
        <4> QED
          BY <4>4, <4>5, <4>6 DEF AskInv
      <3> QED
        BY <1>24, <1>a, <2>2, <3>2, <3>3, InviteDoes
    <2> QED
      BY <2>1, <2>2
  <1>25. ASSUME NEW q \in Request, Delete(q) PROVE AskInv'
    BY <1>25, GoneAsks DEF Delete, Here, NoRow
  <1>26. ASSUME NEW q \in Request, SetEmailVerified(q) PROVE AskInv'
    BY <1>26, <1>a, AsideAsks DEF SetEmailVerified, Arrive, Others, Awaits, Here
  <1>27. ASSUME NEW q \in Request, Crash(q) PROVE AskInv'
    <2>1. /\ pc'[q] = "idle" /\ Others(q) /\ row' = row
          /\ past'.crashed /\ past'.overtaken = past.overtaken
      BY <1>27, <1>a, DoneFields DEF Crash, TypeOK, Past
    <2> QED
      BY <1>a, <2>1 DEF AskInv, TokenSent, Spared, Asked, Finds, Here, Others
  <1>28. CASE Purge
    BY <1>28, GoneAsks DEF Purge, Here, NoRow
  <1>29. CASE Wait
    <2>1. /\ row'.id = row.id /\ row'.status = row.status /\ row'.signup = row.signup
          /\ row'.token = row.token
      BY <1>29, <1>a DEF Wait, TypeOK, Row
    <2> QED
      BY <1>29, <1>a, <2>1 DEF Wait, AskInv, TokenSent, Spared, Asked, Awaits, Sending, Finds, Here
  <1>30. CASE UNCHANGED vars
    BY <1>30, <1>a DEF vars, AskInv, TokenSent, Spared, Asked, Awaits, Sending, Finds, Here
  <1> QED
    BY <1>1, <1>2, <1>3, <1>4, <1>5, <1>6, <1>7, <1>8, <1>9, <1>10, <1>11, <1>12,
       <1>13, <1>14, <1>15, <1>16, <1>17, <1>18, <1>19, <1>20, <1>21, <1>22, <1>23,
       <1>24, <1>25, <1>26, <1>27, <1>28, <1>29, <1>30
       DEF Next, Reader, Administrator

\* A pending reader who is to confirm has been sent a confirmation, however subscribers,
\* sign-ups and administrators cross, if none overtook another, no process died, and that
\* message was not refused or suppressed.
THEOREM Confirmations == Spec => []Confirmable
  <1>1. AskInv => Confirmable
    BY DEF AskInv, Asked, Awaits, Sending, Confirmable, Idle
  <1>2. Spec => []AskInv
    BY AskInit, AskStep, Typing, ListAlways, PTL DEF Spec
  <1> QED
    BY <1>1, <1>2, PTL

=============================================================================
