----------------------------- MODULE Newsletter -----------------------------
(***************************************************************************)
(* One address on the newsletter's list (packages/core/src/newsletter.ts). *)
(*                                                                         *)
(* Every operation reads the row, decides, and writes it in a statement of *)
(* its own: nothing is held in between.  Some writes are guarded by what   *)
(* they expect to find, others only by the row's id.  A request is in one  *)
(* of the phases below; a read whose answer is an early return takes no    *)
(* step.                                                                   *)
(***************************************************************************)
EXTENDS Naturals

CONSTANTS
    Request,      \* slots for concurrent requests
    MaxRequests,  \* bound on the requests
    MaxCrashes,   \* bound on crashes
    MaxFailures   \* bound on messages that are refused or suppressed

ASSUME NewsletterAssumption ==
    MaxRequests \in Nat /\ MaxCrashes \in Nat /\ MaxFailures \in Nat

VARIABLES
    row,        \* the NewsletterSubscriber row of the address
    verified,   \* User.emailVerified of the account of the address
    pc, mem,    \* where each request is, and what it remembers
    issued,     \* how many ids, confirm and unsubscribe tokens were issued
    mailed,     \* which confirm and unsubscribe tokens were put in a message
    past,       \* what has happened to the row (auxiliary)
    left        \* requests, crashes and failures still allowed (auxiliary)

requestVars == <<pc, mem>>
vars == <<row, verified, requestVars, issued, mailed, past, left>>

-----------------------------------------------------------------------------
Serial == Nat \ {0}
None == 0                                   \* null, or no row

Status == {"PENDING", "ACTIVE", "UNSUBSCRIBED"}

\* signup: source is "signup".  token: confirmTokenHash.  fresh: confirmExpiresAt is to
\* come.  cool: lastConfirmSentAt is null or ten minutes ago.  confirmed: confirmedAt.
\* via: unsubscribedVia.  old: createdAt is seven days ago.  link: unsubscribeTokenHash,
\* None while it is one that was minted and thrown away.
Row == [id : Serial \cup {None}, status : Status, signup : BOOLEAN,
        token : Serial \cup {None}, fresh : BOOLEAN, cool : BOOLEAN,
        confirmed : BOOLEAN, via : {"nobody", "subscriber", "admin"},
        old : BOOLEAN, link : Serial \cup {None}]

NoRow == [id |-> None, status |-> "PENDING", signup |-> FALSE, token |-> None,
          fresh |-> FALSE, cool |-> TRUE, confirmed |-> FALSE, via |-> "nobody",
          old |-> FALSE, link |-> None]

\* Before a write, and after one.
Deciding == {"upsert", "confirm", "unsubscribe", "optIn", "activate", "stop",
             "restore", "invite", "add"}
Phase == Deciding \cup {"idle", "verified", "mailConfirm", "rotate", "welcome"}

\* id: the row that was read.  serial: a token in hand.  flag: emailVerified as
\* read (optIn), cooledDown (invite).  admin: the invitation names its source.
Mem == [id : Serial \cup {None}, serial : Serial \cup {None}, flag : BOOLEAN, admin : BOOLEAN]
Blank == [id |-> None, serial |-> None, flag |-> FALSE, admin |-> FALSE]

\* proved: the mailbox was proved since the row was created.  withdrawn: its reader said
\* no and has not since said yes.  handled: an administrator stopped or invited it.
\* overtaken: the reader's click landed while another request was deciding.  spent: the
\* confirm tokens that were used, or issued before a no.  revived: one of those confirmed.
Past == [proved : BOOLEAN, withdrawn : BOOLEAN, handled : BOOLEAN, overtaken : BOOLEAN,
         crashed : BOOLEAN, spent : SUBSET Nat, revived : BOOLEAN]

Left == [requests : 0..MaxRequests, crashes : 0..MaxCrashes, failures : 0..MaxFailures]

\* token, link: those in a message that went out.  noToken, noLink: those whose message
\* was refused by the provider, or suppressed because e-mail is switched off.
Mailed == [token : SUBSET Nat, link : SUBSET Nat, noToken : SUBSET Nat, noLink : SUBSET Nat]

\* The type invariant of the list: an expiry goes with its token.
TypeOK ==
    /\ row \in Row
    /\ row.fresh => row.token # None
    /\ verified \in BOOLEAN
    /\ pc \in [Request -> Phase]
    /\ mem \in [Request -> Mem]
    /\ issued \in [id : Nat, token : Nat, link : Nat]
    /\ mailed \in Mailed
    /\ past \in Past
    /\ left \in Left

Init ==
    /\ row = NoRow
    /\ verified = FALSE
    /\ pc = [q \in Request |-> "idle"]
    /\ mem = [q \in Request |-> Blank]
    /\ issued = [id |-> 0, token |-> 0, link |-> 0]
    /\ mailed = [token |-> {}, link |-> {}, noToken |-> {}, noLink |-> {}]
    /\ past = [proved |-> FALSE, withdrawn |-> FALSE, handled |-> FALSE,
               overtaken |-> FALSE, crashed |-> FALSE, spent |-> {}, revived |-> FALSE]
    /\ left = [requests |-> MaxRequests, crashes |-> MaxCrashes, failures |-> MaxFailures]

Here == row.id # None

\* A request arrives, reads, and is to write what it decided.
Arrive(q) ==
    /\ pc[q] = "idle"
    /\ left.requests > 0
    /\ left' = [left EXCEPT !.requests = @ - 1]

Goto(q, phase, memory) ==
    /\ pc' = [pc EXCEPT ![q] = phase]
    /\ mem' = [mem EXCEPT ![q] = memory]

Done(q) == Goto(q, "idle", Blank)

\* The row that a request read is still that row: an update by id finds it.
Finds(q) == Here /\ row.id = mem[q].id

\* An update by id throws when the row has gone.
Lost(q, phase) ==
    /\ pc[q] = phase /\ ~Finds(q)
    /\ Done(q)
    /\ UNCHANGED <<row, verified, issued, mailed, past, left>>

\* What a no or a confirmation does to a decision that was taken before it.
Overtakes(q) == \E r \in Request \ {q} : pc[r] \in Deciding

Fresh(signup) == [NoRow EXCEPT !.id = issued.id + 1, !.signup = signup]
Pending(r) == [r EXCEPT !.status = "PENDING", !.via = "nobody"]
Tokened(r) == [r EXCEPT !.token = issued.token + 1, !.fresh = TRUE, !.cool = FALSE]

\* A row is born without a past.
Birth == past' = [past EXCEPT !.proved = FALSE, !.withdrawn = FALSE, !.handled = FALSE]

-----------------------------------------------------------------------------
(***************************************************************************)
(* The public form: subscribe, confirmSubscription, unsubscribe.           *)
(***************************************************************************)
Subscribe(q) ==
    /\ Arrive(q)
    /\ Here => row.status # "ACTIVE" /\ row.cool
    /\ Goto(q, "upsert", [Blank EXCEPT !.id = row.id])
    /\ UNCHANGED <<row, verified, issued, mailed, past>>

\* createOrRefreshPending, by e-mail address.
Upsert(q) ==
    /\ pc[q] = "upsert"
    /\ \/ /\ Here
          /\ row' = Tokened([Pending(row) EXCEPT !.signup = FALSE])
          /\ issued' = [issued EXCEPT !.token = @ + 1]
          /\ UNCHANGED past
       \/ /\ ~Here
          /\ row' = Tokened(Fresh(FALSE))
          /\ issued' = [issued EXCEPT !.token = @ + 1, !.id = @ + 1]
          /\ Birth
    /\ Goto(q, "mailConfirm", [Blank EXCEPT !.serial = issued.token + 1])
    /\ UNCHANGED <<verified, mailed, left>>

\* The unique constraint: the address was added since the request looked.
Outrun(q) ==
    /\ Here
    /\ \/ pc[q] \in {"upsert", "optIn"} /\ mem[q].id = None
       \/ pc[q] = "add"
    /\ Done(q)
    /\ UNCHANGED <<row, verified, issued, mailed, past, left>>

\* sendTemplatedEmail answers FAILED or SUPPRESSED, and nobody looks.
Fails == left.failures > 0 /\ left' = [left EXCEPT !.failures = @ - 1]

MailConfirm(q) ==
    /\ pc[q] = "mailConfirm"
    /\ \/ mailed' = [mailed EXCEPT !.token = @ \cup {mem[q].serial}] /\ UNCHANGED left
       \/ mailed' = [mailed EXCEPT !.noToken = @ \cup {mem[q].serial}] /\ Fails
    /\ Done(q)
    /\ UNCHANGED <<row, verified, issued, past>>

\* A link that is not the row's, or has expired, is invalid.
Click(q) ==
    /\ Arrive(q)
    /\ Here /\ row.token \in mailed.token /\ row.fresh
    /\ Goto(q, "confirm", [Blank EXCEPT !.serial = row.token])
    /\ UNCHANGED <<row, verified, issued, mailed, past>>

\* Mutant: the token is not matched again in the write.
ConfirmUnmatched(q) ==
    /\ pc[q] = "confirm" /\ Here
    /\ row' = [row EXCEPT !.status = "ACTIVE", !.confirmed = TRUE, !.token = None, !.fresh = FALSE]
    /\ past' = [past EXCEPT !.proved = TRUE, !.withdrawn = FALSE,
                            !.overtaken = @ \/ Overtakes(q),
                            !.revived = @ \/ mem[q].serial \in past.spent,
                            !.spent = @ \cup {mem[q].serial}]
    /\ Goto(q, "rotate", [Blank EXCEPT !.id = row.id])
    /\ UNCHANGED <<verified, issued, mailed, left>>

\* updateMany, where the token is still the row's.
Confirm(q) ==
    /\ pc[q] = "confirm"
    /\ Here /\ row.token = mem[q].serial
    /\ row' = [row EXCEPT !.status = "ACTIVE", !.confirmed = TRUE, !.token = None, !.fresh = FALSE]
    /\ past' = [past EXCEPT !.proved = TRUE, !.withdrawn = FALSE,
                            !.overtaken = @ \/ Overtakes(q),
                            !.revived = @ \/ mem[q].serial \in past.spent,
                            !.spent = @ \cup {mem[q].serial}]
    /\ Goto(q, "rotate", [Blank EXCEPT !.id = row.id])
    /\ UNCHANGED <<verified, issued, mailed, left>>

Beaten(q) ==
    /\ pc[q] = "confirm"
    /\ ~(Here /\ row.token = mem[q].serial)
    /\ Done(q)
    /\ UNCHANGED <<row, verified, issued, mailed, past, left>>

\* sendWelcome: rotateUnsubscribeToken ...
Rotate(q) ==
    \/ Lost(q, "rotate")
    \/ /\ pc[q] = "rotate" /\ Finds(q)
       /\ row' = [row EXCEPT !.link = issued.link + 1]
       /\ issued' = [issued EXCEPT !.link = @ + 1]
       /\ Goto(q, "welcome", [Blank EXCEPT !.serial = issued.link + 1])
       /\ UNCHANGED <<verified, mailed, past, left>>

\* ... and the message that carries the new one.
Welcome(q) ==
    /\ pc[q] = "welcome"
    /\ \/ mailed' = [mailed EXCEPT !.link = @ \cup {mem[q].serial}] /\ UNCHANGED left
       \/ mailed' = [mailed EXCEPT !.noLink = @ \cup {mem[q].serial}] /\ Fails
    /\ Done(q)
    /\ UNCHANGED <<row, verified, issued, past>>

\* The reader follows the link of a message.  An address that is off the list already is
\* told so, and nothing is written.
FollowLink(q) ==
    /\ Arrive(q)
    /\ Here /\ row.link \in mailed.link
    /\ \/ /\ row.status = "UNSUBSCRIBED"
          /\ past' = [past EXCEPT !.withdrawn = TRUE]
          /\ UNCHANGED requestVars
       \/ /\ row.status # "UNSUBSCRIBED"
          /\ Goto(q, "unsubscribe", [Blank EXCEPT !.id = row.id])
          /\ UNCHANGED past
    /\ UNCHANGED <<row, verified, issued, mailed>>

\* The no of the reader (who is "subscriber") or of the list ("admin").
Off(who) ==
    row' = [row EXCEPT !.status = "UNSUBSCRIBED", !.via = who, !.token = None, !.fresh = FALSE]

ReadersNo(q) ==
    past' = [past EXCEPT !.withdrawn = TRUE, !.overtaken = @ \/ Overtakes(q),
                         !.spent = 1..issued.token]

Unsubscribe(q) ==
    \/ Lost(q, "unsubscribe")
    \/ /\ pc[q] = "unsubscribe" /\ Finds(q)
       /\ Off("subscriber")
       /\ ReadersNo(q)
       /\ Done(q)
       /\ UNCHANGED <<verified, issued, mailed, left>>

\* unsubscribeNewsletterByAnnouncementToken: one guarded statement.
UnsubscribeByAnnouncement(q) ==
    /\ Arrive(q)
    /\ Here /\ row.status # "UNSUBSCRIBED"
    /\ Off("subscriber")
    /\ ReadersNo(q)
    /\ UNCHANGED <<verified, requestVars, issued, mailed>>

-----------------------------------------------------------------------------
(***************************************************************************)
(* Consent given with an account: subscribeAccount, and the verification   *)
(* of its address.                                                         *)
(***************************************************************************)
OptIn(q) ==
    /\ Arrive(q)
    /\ Here => row.status # "ACTIVE"
    /\ Goto(q, "optIn", [Blank EXCEPT !.id = row.id, !.flag = verified])
    /\ UNCHANGED <<row, verified, issued, mailed, past>>

\* The ticked box is a yes.  A form's confirm token stays.
WriteOptIn(q) ==
    \/ mem[q].id # None /\ Lost(q, "optIn")
    \/ /\ pc[q] = "optIn"
       /\ \/ /\ mem[q].id # None /\ Finds(q)
             /\ row' = [Pending(row) EXCEPT !.signup = TRUE]
             /\ past' = [past EXCEPT !.withdrawn = FALSE]
             /\ UNCHANGED issued
          \/ /\ mem[q].id = None /\ ~Here
             /\ row' = Fresh(TRUE)
             /\ Birth
             /\ issued' = [issued EXCEPT !.id = @ + 1]
       /\ IF mem[q].flag THEN Goto(q, "activate", [Blank EXCEPT !.id = row'.id]) ELSE Done(q)
       /\ UNCHANGED <<verified, mailed, left>>

\* The verification link, whose hook is activateAccountSubscription.
Verify(q) ==
    /\ Arrive(q)
    /\ ~verified
    /\ verified' = TRUE
    /\ Goto(q, "verified", Blank)
    /\ UNCHANGED <<row, issued, mailed, past>>

\* Mutant: any pending row is taken for the account's.
ReadSignupAny(q) ==
    /\ pc[q] = "verified"
    /\ IF verified /\ Here /\ row.status = "PENDING"
       THEN Goto(q, "activate", [Blank EXCEPT !.id = row.id])
       ELSE Done(q)
    /\ UNCHANGED <<row, verified, issued, mailed, past, left>>

ReadSignup(q) ==
    /\ pc[q] = "verified"
    /\ IF verified /\ Here /\ row.status = "PENDING" /\ row.signup
       THEN Goto(q, "activate", [Blank EXCEPT !.id = row.id])
       ELSE Done(q)
    /\ UNCHANGED <<row, verified, issued, mailed, past, left>>

\* Mutant: no welcome.
ActivateSilently(q) ==
    /\ pc[q] = "activate"
    /\ IF Finds(q) /\ row.status = "PENDING"
       THEN /\ row' = [row EXCEPT !.status = "ACTIVE", !.confirmed = TRUE, !.token = None, !.fresh = FALSE]
            /\ past' = [past EXCEPT !.proved = TRUE, !.overtaken = @ \/ Overtakes(q)]
       ELSE UNCHANGED <<row, past>>
    /\ Done(q)
    /\ UNCHANGED <<verified, issued, mailed, left>>

\* updateMany, where the row is still pending.
Activate(q) ==
    /\ pc[q] = "activate"
    /\ IF Finds(q) /\ row.status = "PENDING"
       THEN /\ row' = [row EXCEPT !.status = "ACTIVE", !.confirmed = TRUE, !.token = None, !.fresh = FALSE]
            /\ past' = [past EXCEPT !.proved = TRUE, !.overtaken = @ \/ Overtakes(q)]
            /\ Goto(q, "rotate", [Blank EXCEPT !.id = row.id])
       ELSE /\ UNCHANGED <<row, past>>
            /\ Done(q)
    /\ UNCHANGED <<verified, issued, mailed, left>>

-----------------------------------------------------------------------------
(***************************************************************************)
(* The administrators.                                                     *)
(***************************************************************************)
AdminUnsubscribe(q) ==
    /\ Arrive(q)
    /\ Here /\ row.status # "UNSUBSCRIBED"
    /\ Goto(q, "stop", [Blank EXCEPT !.id = row.id])
    /\ UNCHANGED <<row, verified, issued, mailed, past>>

Stop(q) ==
    \/ Lost(q, "stop")
    \/ /\ pc[q] = "stop" /\ Finds(q)
       /\ Off("admin")
       /\ past' = [past EXCEPT !.handled = TRUE, !.overtaken = @ \/ Overtakes(q),
                               !.spent = 1..issued.token]
       /\ Done(q)
       /\ UNCHANGED <<verified, issued, mailed, left>>

\* Mutant: held back on lastConfirmSentAt alone.
CooledDownByClock == row.cool

\* invite's cooledDown: a usable confirmation went out lately, or not.
CooledDown == row.token = None \/ ~row.fresh \/ row.cool

\* Mutant: whatever the list stopped is restored, confirmed or not.
RestoreOrInviteUnproved(q) ==
    IF row.via = "admin"
    THEN Goto(q, "restore", [Blank EXCEPT !.id = row.id])
    ELSE Goto(q, "invite", [Blank EXCEPT !.id = row.id, !.flag = CooledDown])

\* A stop of the list's own is undone; anything else is invited.
RestoreOrInvite(q) ==
    IF row.via = "admin" /\ row.confirmed
    THEN Goto(q, "restore", [Blank EXCEPT !.id = row.id])
    ELSE Goto(q, "invite", [Blank EXCEPT !.id = row.id, !.flag = CooledDown])

AdminResubscribe(q) ==
    /\ Arrive(q)
    /\ Here /\ row.status = "UNSUBSCRIBED"
    /\ RestoreOrInvite(q)
    /\ UNCHANGED <<row, verified, issued, mailed, past>>

AdminAdd(q) ==
    /\ Arrive(q)
    /\ \/ Here /\ row.status = "UNSUBSCRIBED" /\ RestoreOrInvite(q)
       \/ /\ Here /\ row.status = "PENDING"
          /\ Goto(q, "invite", [id |-> row.id, serial |-> None, flag |-> CooledDown, admin |-> TRUE])
       \/ ~Here /\ Goto(q, "add", Blank)
    /\ UNCHANGED <<row, verified, issued, mailed, past>>

\* The row that adminAddSubscriber creates, which it then invites.
Add(q) ==
    /\ pc[q] = "add" /\ ~Here
    /\ row' = Fresh(FALSE)
    /\ Birth
    /\ issued' = [issued EXCEPT !.id = @ + 1]
    /\ Goto(q, "invite", [Blank EXCEPT !.id = row'.id, !.flag = TRUE])
    /\ UNCHANGED <<verified, mailed, left>>

Restore(q) ==
    \/ Lost(q, "restore")
    \/ /\ pc[q] = "restore" /\ Finds(q)
       /\ row' = [row EXCEPT !.status = "ACTIVE", !.via = "nobody"]
       /\ Done(q)
       /\ UNCHANGED <<verified, issued, mailed, past, left>>

Invite(q) ==
    \/ Lost(q, "invite")
    \/ /\ pc[q] = "invite" /\ Finds(q)
       /\ LET invited == [Pending(row) EXCEPT !.signup = @ /\ ~mem[q].admin]
          IN  \/ /\ mem[q].flag
                 /\ row' = Tokened(invited)
                 /\ issued' = [issued EXCEPT !.token = @ + 1]
                 /\ Goto(q, "mailConfirm", [Blank EXCEPT !.serial = issued.token + 1])
              \/ /\ ~mem[q].flag
                 /\ row' = invited
                 /\ Done(q)
                 /\ UNCHANGED issued
       /\ past' = [past EXCEPT !.handled = TRUE]
       /\ UNCHANGED <<verified, mailed, left>>

\* deleteSubscriber.
Delete(q) ==
    /\ Arrive(q)
    /\ Here
    /\ row' = NoRow
    /\ Birth
    /\ UNCHANGED <<verified, requestVars, issued, mailed>>

\* setUserEmailVerified: the switch of the user's record runs no hook.
SetEmailVerified(q) ==
    /\ Arrive(q)
    /\ verified' = ~verified
    /\ UNCHANGED <<row, requestVars, issued, mailed, past>>

-----------------------------------------------------------------------------
\* purgeExpiredPending.
Purge ==
    /\ Here /\ row.status = "PENDING" /\ row.old
    /\ row' = NoRow
    /\ Birth
    /\ UNCHANGED <<verified, requestVars, issued, mailed, left>>

\* Ten minutes, two days or a week go by, while nothing runs.
Wait ==
    /\ Here
    /\ \A q \in Request : pc[q] = "idle"
    /\ row' \in { [row EXCEPT !.cool = TRUE],
                  [row EXCEPT !.cool = TRUE, !.fresh = FALSE],
                  [row EXCEPT !.cool = TRUE, !.fresh = FALSE, !.old = TRUE] }
    /\ UNCHANGED <<verified, requestVars, issued, mailed, past, left>>

Crash(q) ==
    /\ left.crashes > 0
    /\ pc[q] # "idle"
    /\ left' = [left EXCEPT !.crashes = @ - 1]
    /\ Done(q)
    /\ past' = [past EXCEPT !.crashed = TRUE]
    /\ UNCHANGED <<row, verified, issued, mailed>>

Reader(q) ==
    \/ Subscribe(q) \/ Upsert(q) \/ Outrun(q) \/ MailConfirm(q) \/ Click(q) \/ Confirm(q)
    \/ Beaten(q) \/ Rotate(q) \/ Welcome(q) \/ FollowLink(q) \/ Unsubscribe(q)
    \/ UnsubscribeByAnnouncement(q)
    \/ OptIn(q) \/ WriteOptIn(q) \/ Verify(q) \/ ReadSignup(q) \/ Activate(q)

Administrator(q) ==
    \/ AdminUnsubscribe(q) \/ Stop(q) \/ AdminResubscribe(q) \/ AdminAdd(q) \/ Add(q)
    \/ Restore(q) \/ Invite(q) \/ Delete(q) \/ SetEmailVerified(q)

Next ==
    \/ \E q \in Request : Reader(q) \/ Administrator(q) \/ Crash(q)
    \/ Purge \/ Wait

Spec == Init /\ [][Next]_vars

-----------------------------------------------------------------------------
Idle == \A q \in Request : pc[q] = "idle"

\* Nobody is on the list whose mailbox was not proved since its row was created: by a
\* click on its own confirmation, or by an account whose address is verified.
ConsentGiven == Here /\ row.status = "ACTIVE" => past.proved

\* A confirmation link works once, and not at all after a later no of the reader or the
\* list, however its click races the others.
NeverRevived == ~past.revived

\* A reader who said no is not put back by a form, a verification or the housekeeping:
\* that takes a yes of their own, unless an administrator had a hand in it or the no
\* overtook a decision already taken.
WithdrawnStays ==
    Here /\ row.status = "ACTIVE" /\ past.withdrawn => past.handled \/ past.overtaken

\* q is to give this row a new link, or has its link in hand for the welcome.
Welcomes(q) ==
    \/ pc[q] = "rotate" /\ mem[q].id = row.id
    \/ pc[q] = "welcome" /\ mem[q].serial = row.link

\* Whoever is on the list holds the link that takes them off it, or is about to be sent
\* it: unless a process died on the way, or that very welcome was refused or suppressed,
\* which sendWelcome does not look at.
LinkHeld ==
    Here /\ row.status = "ACTIVE" /\ ~past.crashed =>
        \/ row.link \in mailed.link \cup mailed.noLink
        \/ \E q \in Request : Welcomes(q)

\* A pending reader who is to confirm was sent a confirmation that works, or worked till
\* it expired (the comment on invite): unless a click overtook a decision, a process died,
\* or that very message was refused or suppressed, which subscribe and invite ignore.
Confirmable ==
    Here /\ row.status = "PENDING" /\ ~row.signup /\ Idle =>
        row.token \in mailed.token \cup mailed.noToken \/ past.overtaken \/ past.crashed

\* An administrator cannot put a reader who withdrew back on the list; only the reader's
\* click can (the comment on adminResubscribe).  Not kept: see README.
OnlyTheReader ==
    [][row.status = "UNSUBSCRIBED" /\ row'.status = "ACTIVE" => ~past.withdrawn]_vars

=============================================================================
