# A formal model of the MBFX Learning Center's concurrent work

The repository is a learning platform: a Next.js application (`apps/web`) over
sixteen packages, with MariaDB through Prisma and a handful of queues that
routes under `/api/cron` and `after()` callbacks drain. Most of it is forms and
pages over single statements. What is hard in it, and what this project models,
is the work that several processes do at once, that a crash interrupts and a
timer resumes; and the requests that read, decide and write with nothing held in
between.

## Inventory

| part | state | operations | what is hard | what makes it correct |
| --- | --- | --- | --- | --- |
| Announcement desk (`core/src/announcements.ts`, `custom-emails.ts`) | campaign row, recipient rows | send, schedule, unschedule, cancel, retry, delete, direct e-mail | most requests check the status in one statement and write in another | a draft goes out because somebody pressed Send; a cancelled campaign sends nothing more than what was in hand |
| Announcement runner (`core/src/announcement-runner.ts`) | claims, attempts, leases on the rows | drain: expire, start due, claim, send, settle, close | overlapping drains, crashes in mid-send, answers that come late, switches flipped under way | nobody is mailed twice; the report is true; what is begun ends |
| Suppression (`announcements.ts`, unsubscribe links) | suppression list | opt out, opt in | lands in the middle of a send | no message to somebody who has said no |
| Mail transport (`packages/email`) | none here | one send | answers can be lost | errors are classed for the retry |
| Translation queue (`translate/src/jobs.ts`) | job rows | enqueue, recover, claim, finish, requeue, fail, pause, retry | a save during a job, leases, `rerun` | a finished job is of the present source |
| Translation handler (`core/src/translation-engine.ts`) and saves (`translation-queue.ts`, `courses.ts`) | translation rows | translate and write, flag, save | people and the machine write one row | the machine never writes over a person |
| Locale backfill (`jobs.ts`, `translation-admin.ts`) | one job with a cursor per locale | Sync, activate, walk a page, hand back | walks over many ticks, pressed again on the way | Sync walks everything |
| AI budget (`packages/ai`, `core/src/ai-admin.ts`) | one row per month, the limits' settings | check, answer, meter, notify; save and reset the limits | check, spend and notice are transactions of their own | the overrun is bounded by what is in flight, one notice per threshold |
| Learner progress (`core/src/progress.ts`) | enrolments, lesson progress | complete, undo, touch | a denormalised counter under concurrency | counter and completion date agree with the rows |
| Quiz attempts (`core/src/quizzes.ts`) | attempts with JSON answers | start, answer, submit | read, change, write without a lock; a pass credits elsewhere | the score is that of the answers; a pass is credited |
| Newsletter (`core/src/newsletter.ts`) | subscriber row, tokens, the account's verified flag | subscribe, confirm, account opt-in, both unsubscribe links, the administrators' requests, purge | each reads, decides and writes by id or by what it expects | nobody is on the list without a proof, nobody who said no is put back, everybody on it holds a link off it |
| Addresses (`core/src/articles.ts`, `shared-slug.ts`, `article-translation.ts`, the redirects table) | a slug per language, redirects | save, quick edit, translation job, copy, trash, purge | the slug is read before the transaction, the redirects are written after it | one slug for all languages; an old link leads to the article |
| Media library (`core/src/media.ts`, `cms/references.ts`, `brand-assets.ts`) | asset rows, stored objects, usage index, copies of urls in the holders | upload, replace, delete, attach, copy | storage and database are two systems, the count of uses is read before the delete | rows name what is stored, what is used is counted and kept |
| Users and roles (`core/src/users.ts`, `packages/rbac`) | users, roles, sessions | status, assign, remove | count, then write | one super-admin is left |
| Publication (`core/src/articles.ts`, `content.ts`) | status and dates of a row | publish, schedule, unpublish, the sweep | the sweep lists, then writes by id | what is public was published |
| Navigation, site text, theme, blocks, market data, settings, support, pages | rows and files | edits and reads | little concurrency of their own | references stay valid |

Interactions: staff requests and runners share the campaign tables and nothing
else; a Send also starts a drain of that campaign in `after()`, and a cron
calls the drain every minute. An English save enqueues translation jobs and
starts a runner for its entity in `after()`; a cron drains all of them every
five minutes, and before its batch expands one backfill, which enqueues jobs in
its turn. An English save also moves the slugs of its siblings, and writes the
redirects from the old ones; the translation job takes the English slug of the
moment it read. An announcement's footer link ends a newsletter subscription; the
verification of an account's address activates one. There are no locks across
statements except the `SELECT ... FOR UPDATE` transactions (the start of a
campaign, the machine's write of a translation, the learner's enrolment) and the
row locks inside a transaction; everything else rests on the WHERE of one UPDATE.

`PROJECT.json` names every part, with the reason for each that is not modelled,
and the hazards, each at its line.

## Modules

| module | what it is |
| --- | --- |
| `CampaignStore` | the shared tables, switches and suppression list, and the statements that several parts issue |
| `CampaignDesk` | the staff's requests, each in two actions: `Check` reads and refuses, `Write` writes later |
| `AnnouncementRunner` | `drainAnnouncementQueue`, one action per statement, two per send (`HandOver`, `Settle`) |
| `Announcements` | composes the three with readers, editors and the clock; the properties |
| `AtMostOnceMail` | the abstract promise to one recipient: told at most once, reported only if told |
| `TranslationQueue` | job queue, handler, saves of sources and of translations |
| `LocaleBackfill` | the walk of a locale, pages and cursor |
| `LearnerProgress` | lesson rows, course rows, and the transaction that recounts under the course row's lock |
| `QuizAttempts` | start, answer, submit, and the credit of a pass, which goes through that transaction |
| `Learning` | composes the two with editors who publish, hide and purge; the properties |
| `AiBudget` | calls and the limits screen over the month's row |
| `Newsletter` | one address on the list: every operation that writes its row |
| `Addresses` | the slugs of articles in every language, the redirects, and where a visitor ends up |
| `MediaLibrary` | assets, stored objects, the usage index, and the pictures of articles and of the brand slot |
| `MCAnnouncements`, `MCTranslationQueue`, `MCLocaleBackfill`, `MCLearning`, `MCAiBudget`, `MCNewsletter`, `MCAddresses`, `MCMediaLibrary` | the small worlds for TLC |
| `AnnouncementsProofs`, `TranslationQueueProofs`, `LocaleBackfillProofs`, `LearningProofs`, `AiBudgetProofs`, `NewsletterProofs`, `AddressesProofs`, `MediaLibraryProofs` | the theorems and their proofs |

### Announcements

A campaign is its status and two booleans (`sendWhenLive`, and whether
`scheduledFor` has come); a recipient row is its status, its attempts, whether
`runAfter` has come, its claim token and whether the claim is older than the
lease. A drain is a program counter, the rows it holds, the row in flight and
its locals. `mailed` counts what the provider accepted and is what the properties
are about.

Each UPDATE is an action with the WHERE of the code and no more: `Settle`
writes by id alone because `settle` does, `ExpireLeases` re-checks SENDING
because `expireLeases` does, and reads the list of stale rows one step earlier
(`Begin`). A request of the desk holds what it read in `ask`, so
cancels, deletes and starts interleave with it. `StartCampaign` is one action:
its transaction locks the campaign row.

Where the model is coarser than the code: the claim's read-back and the update
that gives up rows of dead campaigns are one action (`Select`); so are the
settling and the release in a pause (`Pause`); the attempts are read from the
row, not from the drain's copy; settings are read as they are, not through the
cache; a message that cannot be prepared is an outcome (`render`) of the
hand-over; the link secret is present; a campaign's audience does not change
after the draft; `sendWhenLive` is read when a due campaign is started, not when
the list was made. That list is the code's: `Gate` takes the `DueLimit` oldest by
`CreatedAt` (20 in the code) of those that are due. A drain's token becomes `Nobody` when it has lost sight of
its rows, by crash, exception or pause, so that nothing but a lease can reach
them. A drain's budget (240 s) is shorter than the lease (10 min), so a claim
of a live drain grows old only if the drain has used up its budget and hangs in
one send (`LeaseEnds`). `Purge` acts 90 days later: no call or request of then
is still under way.

### Translation queue

A text is the number of the source version it is or was made from, which is
what comparing two hashes tells. A job is its status, attempts, due,
token, `rerun` and age. A runner goes through its batch statement by statement;
`finish`, `settle` and the requeue write by id alone, as in the code. An English
save is four steps (commit, hash read back, sweep, enqueue), and may die between
them; a translator's save reads the hash in one step and writes in another. The
transaction of the handler is one action (`Write`): it locks source and target.
Its branch for a row that a person created meanwhile is the same outcome as the
check under the lock. Not modelled: that a drain stops after a pause (a
runner here just goes on later), the deletion of DONE jobs after seven days, the
restoring of what was deleted, and the DRAFT status, which neither the machine nor these saves write.

`TranslationQueue` and `LocaleBackfill` choose a *world* in `Init` and keep it: the
kinds of event that may happen, and how many saves and upsets (`World`, `Worlds`).
A property that some events break says so itself (`InStep`, `Calm`, `"slow" \notin
world.may`), so one run checks what holds come what may, and what holds while
nothing moves underneath.

### Locale backfill

The pages of all types are numbered; a cursor is the next page and NULL is page
0. Which ids are on a page, and that entities come and go during a walk, is left
out. A press writes at any moment, as in the code: on a RUNNING job it sets `rerun`,
any other begins again. `RetryFailed` re-arms a FAILED walk where it stood. `fresh`
records the pages enqueued since the last press, `walked` those since the cursor was
NULL, and `skipped` the cursor of the claim that cleared the mark of the last press: the
claim that follows a hand-back, a failure or a crash goes on from the cursor and forgets
that somebody pressed. `SyncWalksAll` says what a press can count on, the pages in `Owed`:
all of them, unless its mark was forgotten, else those from that cursor on.

### Learning

One learner: rows and locks are a learner's own, so learners do not meet. The
learner has any number of requests under way (two tabs, a touch beside a
submit). A lesson is in the public's sight or not, a quiz is open, hidden or
purged; the courses stay public, an open quiz has questions, and which lessons
are required and which quiz belongs where does not change (`moveLesson` refuses
another course). A completion date is the number of the completion (`clock`), 0
is none.

`withEnrollmentLock` runs at READ COMMITTED. So `TakeLock` waits for the row,
each read after it (`CountCompleted`, `CountOutstanding`, `CheckFinal`) is a step
that sees what others have committed, and `Commit` makes what was written
visible at once; before it only the transaction sees its own lesson row (`Rows`).
`submitQuizAttempt` reads in one step and writes by id in `Finalise`; what a pass
does goes through the same transaction, lesson by lesson, then course by course
(`op` "credit" and "recount"). An exception, a time-out of the transaction and a
crash are all `Die`.

Nothing recounts a course when an editor publishes or hides a lesson: the
counter is corrected by the next visit (`touchLesson`, "the self-healing path").
`stale` marks the courses whose data moved since, or during, the last recount;
`CounterIsTrue` and `DateIsTrue` speak of the others.

Coarser than the code: the two counts of required lessons are one step, so are
the two reads about the final quiz, and the reads with which a request finds
its lesson, quiz or attempt. Left out: `lastLessonId`, visit times, the
completion dates of lessons (`progress.ts:459` says the first is kept, the
update beneath writes a new one), the deletion of lessons and courses for good.

### AI budget

A call is four transactions with nothing held in between: the check, the metering,
the read and the stamp of a notice. Each is in the month of the moment
it runs, so a call may be checked in one month and metered in the next. Money is
counted in units of which the dearest call costs `Worst`, and every call is checked
for that much (`worstCaseCost`); what it costs in the end is any amount up to it. The
limits screen saves its settings, then the month's row: two steps, of which the
first is one step though `writeUsageLimits` writes setting by setting. `log` is what
happened to a row, for the properties only: the highest cap it had, whether it was ever
unlimited, how often its flags were cleared, the notices sent. Left out: which
feature, model and provider, the hourly limit's own count, the daily totals, the
purge of old usage.

### Newsletter

Every operation is a read step and a write step, and a step for each message, with
what was read kept in `mem`. A read whose answer is an early return takes no step.
Ids and tokens are serial numbers, since what matters of a token is only
whether it is the one that was mailed. Time is three facts of the row (`fresh`, `cool`,
`old`), which `Wait` lets pass while nothing runs. A message goes out (`mailed.token`,
`mailed.link`) or is refused by the provider or suppressed because e-mail or its template is
off (`noToken`, `noLink`): `sendTemplatedEmail` answers FAILED or SUPPRESSED and does not
throw, and no caller looks, so the request goes on as if it had gone out. `past` is the history the
properties are about: what was proved, withdrawn or spent, and whether a reader's click
landed while another request was deciding (`overtaken`). Other addresses are other
rows, and no statement touches two.

### Addresses

A slug is the sequence of the parts its text is put together from: a name that
somebody typed, and the suffixes of a collision or a copy. A request reads the slugs
it starts from, commits, and then writes its redirects one by one; a
process may die in between. The transaction is one step: the row lock of its first
write orders it against every other one of that article, and the unique index on
(locale, slug) against those of other articles. `duplicateArticle` is one step:
every row of the copy gets one slug with the time in it, so nothing that happens
between its read and its write can matter. `Hops` is what `/news/[slug]` does with a
path: show the article, go to where another language's slug leads, or follow a
redirect. Articles stand for the other kinds, which share `createSlugRedirect` and
`propagateSharedSlug`. Left out: the caches in front of public reads, the
translation job's requeue (it writes nothing here), the text of the slug.

`crossed` has the articles for which a request read the slugs before another one
committed, until a save by itself puts them in order; `slipped` those whose
requests ever overlapped or died before the last redirect. The two properties
speak of the others, and "What else the code does not keep" says what happens to these.

### Media library

A holder keeps the id of an asset and a copy of its url, here the key of an
object; the index has a row for it, under the article's id or, for a translation, under
`id:locale`. Replace is three steps (put the new object, move the row, drop the
old one), upload and delete two, an attachment two. The copy of an article shows what was
read a step earlier. Keys are never used twice, as they are random in the code. The
cover stands for the header image too, the picture of a translation for its two, the
brand slot for the five. The invalidation of caches belongs to `ReplaceRows`, and no
cache is modelled. `excused` and `late` are histories: the keys whose request died
or met another replace, and the holders that got an asset while it went.

## Runs

Passing runs:

| run | bounds | shows |
| --- | --- | --- |
| `delivery` | 1 course campaign, 2 addresses, 2 drains, 1 request at a time, 3 upsets | `OneHolder`, `TriesBounded`, `ReportIsTrue`, `SentIsFinal`; `FailedComesBackUnsent`: what a lease or an error failed waits again only if nothing went out for it; `KeepsPromise`, the refinement of `AtMostOnceMail`, in which nobody is told twice |
| `retry` | a custom campaign and a direct e-mail, 2 drains, refusals, retries, kicks, 4 upsets | retry without crashes mails nobody twice (`AtMostOnce`), and a campaign reported as sent is closed (`SentIsClosed`) |
| `finish` | a course campaign and a younger custom one, a list of one due campaign, 2 drains, 2 upsets, fair | `SendingEnds`, `DueStarts` |
| `queue` | 1 entity and locale, 2 runners, in two worlds: every event, 1 edit, 2 upsets; 2 edits and 3 upsets of those that keep texts in step; fair | types; `PersonWins`, `OneRunner`, `DoneIsCurrent`, `SavesAreTranslated` |
| `walk` | 3 pages, 2 a tick, 2 locales, 2 runners, in three worlds: every event, 2 upsets; late runners, 3; crashes and errors, 4; fair | `CursorIsHonest` in all; `OneWalker`, `SyncWalksAll`, `SyncIsWalked` in the third, with presses at any moment of a walk |
| `learning` | a course of 2 lessons with one quiz, final too, 2 requests at once, every request and event, 5 upsets, fair | `CounterIsTrue`, `DateIsTrue`, `FirstDateStays`, `AttemptsBounded`, `OnlyUndoReopens`, `PassReaches` |
| `budget` | 2 calls at once, 4 in all, caps 0 and 3 with calls of up to 2, a save or reset, 2 months, every event, 1 upset, fair | `OverrunBounded`, `NoticeOnce`, `CapIsNoticed` |
| `newsletter` | 2 requests at once, 7 in all, 1 crash, 1 failed message | `ConsentGiven`, `NeverRevived`, `WithdrawnStays`, `LinkHeld`, `Confirmable` |
| `addresses` | 2 articles, 2 languages, 3 names, 2 requests at once, 4 in all, 1 crash | `OneSlug`, `LinksLead` |
| `media` | 1 asset, 2 articles and the brand slot, 2 requests at once, 3 objects, 3 attachments, 1 crash | types; `RowIsStored`, `UseIsCounted`, `NothingLeaks`, `UsedIsKept` |

An *upset* is anything a world need not do: a request, a crash, a switch, an
opt-out. `MaxUpsets` bounds their number; one to five let a crash, a lease
and a request meet in every order, which the counterexamples below show to be
enough to go wrong. Two drains, two rows and a batch of two are
enough for drains to share a campaign and for a batch to be left half sent.
`MaxAttempts` is 2 instead of 3: one retry and one giving up. A list of one
due campaign, where the code's has twenty, is full as soon as an older one waits for its
course. Three pages at two
a tick make a walk span two ticks. Three requests pass a quiz, and five let a pass
that finishes the course meet a second request and an editor. A cap of 3 with
calls of 2 lets two calls overrun it and a third find it reached; four calls reach
both thresholds and the next month. Seven requests take an address onto the
list, off it, back, and let two more race; what a message that fails does to a row
shows after one, as each rotated or issued token has one message. Three names let an article be renamed
back and forth while another holds the third, and four requests are two renames and
two that cross them. Three objects are an upload and two replaces, which may cross.
Drains, addresses, assets, articles, names and requests are interchangeable
and reduced by symmetry in runs without liveness. Types are proved in all modules;
`queue` and `media` check them too.

Each passing property is broken by a mutant of the definition it depends on;
the mutants stand before the definitions they change.

Runs that end in a counterexample: each checks something the repository says
of itself and finds how the code breaks it (`findings` quotes both).

| run | what happens |
| --- | --- |
| `pause_strands` | e-mail is switched off during a batch of two campaigns: the second campaign's rows are never given back and fail ten minutes later unsent |
| `withdrawn_returns` | the list stops an address, its reader then clicks unsubscribe, and an administrator's Resubscribe puts it back: the click found the row unsubscribed already and left no mark |

### What else the code does not keep

The events and requests that a passing run leaves out of its `Events` and `Ops`
are left out for a reason: with them TLC finds the following. Each takes one
campaign, entity, locale or quiz, and can be had by changing the constants of
a cfg as shown; in the queue and the backfill, `Events` stands for the `may` of the only
world, and the property is asked without its condition on the world.

| property | constants | what happens |
| --- | --- | --- |
| `AtMostOnce` | `Events = {"lostReply"}` | the answer to an accepted message is lost: `classifySendError` calls it transient and it is retried (`transport.ts:339`), against `announcement-runner.ts:7-11` |
| `AtMostOnce` | `Ops = {"queue", "retry"}`, `Events = {"crash"}` | a row failed by its lease had been sent; Retry sends it again, against `announcements.ts:972-973` |
| `SentIsClosed` | as in `retry`, `Ops = {"queue"}`, `Events = {"late", "slowSend", "refusal"}` | a send that hangs past the lease is answered in the end, and the answer, if transient, puts its FAILED row back to wait (`announcement-runner.ts:249`), against `:131`, in a campaign that was reported SENT meanwhile; what holds is `FailedComesBackUnsent` |
| `DueStarts` without `~Crowded` | as in `finish` | an older campaign that is due and waits for its course stays on the list at every drain (`announcement-runner.ts:105-106`, `:115`) and a due one behind it is never looked at; in the code it takes twenty |
| `SentIsClosed` | as in `retry`, 1 campaign to 2 addresses, a batch of 1, `Events = {"late", "refusal", "target"}`, 6 upsets | a campaign cancelled for its missing words during a send is retried and closed, and the send's transient answer puts its row back to wait |
| `CancelledHasNoPending` | `Ops = {"queue", "cancel"}`, `Events = {"refusal"}` | a transient failure settled after the cancel puts a row back to wait in the cancelled campaign (`announcement-runner.ts:249`), against `announcements.ts:938-941` |
| `OptOutIsHonoured` | `Events = {"optOut"}` | the suppression list is read once per batch: an opt-out during it does not stop its message, against ADR-171 |
| `DraftWaitsForSend` | `Ops = {"schedule", "unschedule"}` | unscheduling loses against a runner that has already listed the campaign, since `startCampaign` accepts a DRAFT; against `announcements.ts:920` |
| `OnlyDraftsVanish` | `Ops = {"queue", "delete"}`, 2 admins | a delete checked on a draft removes a campaign being sent, against `changes-54-notifications.md:557` |
| `DoneIsCurrent` | `Events = {"person", "suggestion"}` | a machine suggestion saved unchanged records a hash that is out of date |
| `DoneIsFlagged` | `Events = {"person"}`, `MaxEdits = 2` | a person's translation of the previous text, saved after the sweep, is never flagged |
| `FlagsOnlyStale` | 2 editors, `Events = {"person"}` | the slower of two saves flags a translation of the newer text, against `translation-queue.ts:66-68` |
| `OnlyActiveIsTranslated` | `Events = {"locale"}` | a locale switched off is translated to the end of the batch, against ADR-163 |
| `SyncWalksAll` | `Events = {"locale"}` | a tick older than the activation finishes the backfill unwalked, against `jobs.ts:135-137` |
| `DoneIsCurrent` | `Events = {"slow"}` | a runner past its lease finishes, by id, the job its successor holds, and takes with it the `rerun` a save had left (`jobs.ts:280`), against `jobs.ts:11-13` |
| `SyncAlwaysWalks` | `Events = {}` | a press of Sync during a walk of more than one tick sets `rerun`, which the next claim clears (`jobs.ts:386`), against `jobs.ts:135-137`; what holds is `SyncWalksAll` |
| `PassIsCredited` | `Ops = {"start", "answer", "submit"}`, `Events = {"crash"}` | the process dies between `completedAt` and the credit, and no second submit gets past `completedAt` (`quizzes.ts:1272`), against `quizzes.ts:1232-1235` |
| `OneOpenAttempt` | `Ops = {"start"}`, `MaxAttempts = 2` | two starts, the second counting after the first's create, leave two open attempts, against `quizzes.ts:1133-1135` |
| `ScoreIsOfGrades` | `Ops = {"start", "answer", "submit"}` | an answer written after submit's read is in the grades and not in the score, against `quizzes.ts:1228-1229` |
| `AnswersStay` | 2 questions, `Ops = {"start", "answer"}` | two answers recorded at once write the whole JSON each, and one is lost |
| `CapIsCopied` | `Cap = {3}`, `Events = {"refuse"}` | a call that is refused before anybody read the budget is the month's first write: its row has `budgetUsd` 0, unlimited, and the next reads keep it (`usage.ts:147-151`), against `schema.prisma:2920` |
| `PurgedPathsEnd` | 1 article, 2 names | renamed from a to b and back, then purged: the redirects a→b and b→a are left, and a visitor goes round, against `purge.ts:24-26` |
| `CountedIsUsed` | as in `media` | a purge drops the index rows under the article's id, not those under `id:locale`: a picture of a translation counts as in use for ever, against `purge.ts:15-18` |
| `ShownIsStored` | as in `media` | a replaced asset has a new key, the holders keep the old url and its object is dropped; `media.ts:1222-1228` says the caches are all there is to refresh |

A press in the middle of a walk is kept when one tick is enough for the whole
walk and nothing dies or fails: `SyncAlwaysWalks` holds with `Events = {}` and
`PagesPerTick = Pages`.

Some properties name an exception, and each exception is a thing the code does:

- `OverrunBounded` and `CapIsNoticed`: a call let through by NOTIFY_ONLY or a row
  without a cap is not bounded. The alt-text caller passes no `onBudgetEvent`
  (`core/src/ai-media.ts:57`), so a cap it reaches is stamped and never told. A stamp
  decided before an admin clears the flags lands after it and swallows the next notice.
  A call that is metered in one month and settles in the next leaves the first
  month's cap unnoticed. A cap lowered below the spend is never noticed under
  DISABLE, as no call gets as far as a notice. A streamed call that is abandoned
  is metered for the tokens seen so far, which may be none (`run.ts:304-307`).
- `WithdrawnStays`, `Confirmable`: a click that lands while another request decides is
  overwritten by it (`past.overtaken`). An administrator's invitation that was held
  back for ten minutes and a form that read PENDING both write PENDING over an
  address that is ACTIVE by then.
- `Confirmable`: a confirmation that is refused or suppressed leaves a PENDING row with a
  token nobody holds, and for ten minutes `lastConfirmSentAt` keeps the next one back,
  as if one had gone out (`newsletter.ts:138-155`, `:169-174`, `:845-850`).
- `LinkHeld`: a process that dies between the confirmation and the welcome, or a welcome
  that is refused or suppressed (`newsletter.ts:276-293`, `send.ts:523-540`, `:630-640`),
  leaves an address on the list whose only link was never mailed. Rotating it also kills the links
  in older messages (`newsletter.ts:17-20`, `318-319`).
- Of an account: `setUserEmailVerified` runs no hook, so a sign-up row stays PENDING;
  the purge goes by `createdAt`, so an old row that was just subscribed again goes with
  the others.
- `OneSlug`: a German save that read before an English rename commits keeps the old
  slug; two renames that cross leave siblings at the first one's. The next English
  save by itself mends both.
- `LinksLead`: a process that dies between commit and redirects loses them; renames that
  cross can lose a redirect or make two point at each other; an article that takes
  a slug another had once takes its visitors too.
- `NothingLeaks`: a replace that dies, or crosses another of the same asset, leaves an
  object no row names, and nothing collects those.
- `UsedIsKept`: `deleteMedia` counts uses in one statement and marks the row in
  another; the brand slot does not ask whether the asset is deleted. A deleted asset's
  object stays and is still served.

Two places need no model to see, and have none. `setUserStatus` and `removeRole`
count the other super-admins and write in the next statement (`users.ts:147`,
`200`): two super-admins who demote each other at once both find one, and none is left.
`publishDueArticles` and `publishDueContent` list what is due and then
write by id (`articles.ts:912-935`, `content.ts:266-302`): an item that is unscheduled or
archived in between is published.

## Fairness

`docs/ops/cron.md`: the announcements route is called every minute and the
translate route every five. Fairness assumes that a free cron slot is called,
that a call under way takes its next step (a process that runs goes on, until it
crashes), and that time passes (leases, back-offs, `scheduledFor`). In
`Announcements` a request that has been checked is written. Nothing is assumed of
staff, of readers, of kicks, or of `after()` callbacks: `CronTick` is fair and
`Kick` is not, and in `TranslationQueue` only `Cron` runners are called again.
In `Learning` a request under way goes on, and gets a lock it waits for when it is
free; nothing makes the learner or an editor do anything. That the system may
stop, when nobody asks for anything any more, is why `learning` does not check for
deadlock; `PassReaches` shows that no request waits for ever. In `AiBudget` a call
goes on: the provider answers, or the client times out. `budget`, `newsletter`,
`addresses` and `media` do not check for deadlock either: their worlds end when the
bounded requests are spent. The last three state no fairness, as nothing in them has
to happen.
`SendingEnds` and `DueStarts` are stated for worlds in which e-mail is on from
some time on.

## Proofs

| theorem | statement | assumes |
| --- | --- | --- |
| `AnnouncementsProofs!Typing` | `Spec => []TypeOK` | |
| `AnnouncementsProofs!Claims`, `OneHolderAlways` | `[]ClaimInv`, `[]OneHolder` | `RetryIsSafe` |
| `AnnouncementsProofs!Promise`, `AtMostOnceAlways`, `ReportIsTrueAlways` | `[]MailInv`, `[]AtMostOnce`, `[]ReportIsTrue` | `RetryIsSafe`, no answer is lost |
| `AnnouncementsProofs!KeepsPromiseAlways` | the refinement `KeepsPromise` of `AtMostOnceMail` | `RetryIsSafe`, no answer is lost |
| `AnnouncementsProofs!SentIsFinalAlways` | `[][...]` `SentIsFinal` | `RetryIsSafe` |
| `AnnouncementsProofs!Tries`, `TriesBoundedAlways` | `[](GoneForGood /\ TriesFit)`, `[]TriesBounded` | `RetryIsSafe` |
| `AnnouncementsProofs!FailedComesBackUnsentAlways` | `FailedComesBackUnsent` | `RetryIsSafe`, no answer is lost |
| `AnnouncementsProofs!SentIsClosedAlways` | `[]SentIsClosed` | `LeasesLast`, no target moves |
| `TranslationQueueProofs!Typing`, `OneRunnerAlways`, `DoneIsCurrentAlways` | `[]TypeOK`, `[]OneRunner`, `[]DoneIsCurrent` | (in the last two: `"slow"`, `InStep`) |
| `TranslationQueueProofs!PersonWinsAlways` | `PersonWins` | |
| `LocaleBackfillProofs!Typing`, `Honest` | `[]TypeOK`, `[]CursorIsHonest` | |
| `LocaleBackfillProofs!OneWalkerAlways`, `SyncWalksAllAlways` | `[]OneWalker`, `[]SyncWalksAll` | (in the properties: `Calm`) |
| `LearningProofs!Typing`, `CounterAlways`, `DateAlways`, `AttemptsBoundedAlways` | `[]TypeOK`, `[]CounterIsTrue`, `[]DateIsTrue`, `[]AttemptsBounded` | |
| `LearningProofs!UndoAlways`, `FirstDateAlways` | `OnlyUndoReopens`, `FirstDateStays` | |
| `AiBudgetProofs!Typing`, `Overruns`, `Notices` | `[]TypeOK`, `[]OverrunBounded`, `[]NoticeOnce` | |
| `NewsletterProofs!Typing`, `Consent`, `Revivals`, `Withdrawals`, `Links`, `Confirmations` | `[]TypeOK`, `[]ConsentGiven`, `[]NeverRevived`, `[]WithdrawnStays`, `[]LinkHeld`, `[]Confirmable` | |
| `AddressesProofs!Typing`, `Shared`, `LinksLeadAlways` | `[]TypeOK`, `[]OneSlug`, `[]LinksLead` | |
| `MediaLibraryProofs!Typing`, `StoredAlways`, `NothingLeaksAlways`, `CountedAlways`, `KeptAlways` | `[]TypeOK`, `[]RowIsStored`, `[]NothingLeaks`, `[]UseIsCounted`, `[]UsedIsKept` | |

All hold for any sets of campaigns, addresses, accounts, drains, requests, entities,
locales, workers, runners, lessons, courses, quizzes, names, assets and holders, any
number of pages, attempts, months, requests and upsets, and any finite sets of
concurrent AI calls and of articles and languages. The assumptions, those in the
properties included, are not for convenience: without them there are the counterexamples
listed under "What else the code does not keep". `LeasesLast` is the instances in which
no drain loses a claim: no process dies, no send outlasts its lease, sending is not
switched off and no campaign is deleted. `RetryIsSafe` is that nobody retries, or
`LeasesLast`. In `delivery` nobody retries, `retry` is one of `LeasesLast`; with both, a
retry of a row that a lost claim still points at gives it a second holder.
`SentIsClosed` needs more. A send that hangs past its lease is answered in the end, and
the answer, if transient, puts the row back to wait under a campaign that was closed
meanwhile. The same happens without a lost claim when a target moves: while one drain is
in a send, a second one finds the words gone and cancels the campaign with the row in
hand, a retry that was checked before starts it again, and the second drain closes it.

*Why at most once.* `AtMostOnce` alone is not inductive: a row with one message
that is PENDING would be sent again. `MailInv` adds that nothing has gone out for
a row that waits, or that a drain holds and has not handed over
(`UnsentIsUnsent`), and that a row deleted after its message cannot be listed
again (`GoneForGood`). For a settlement to keep this, the settled row must be
this drain's or closed: that is `ClaimInv`, in which a token in the table has
one drain that knows of it (`ClaimIsKnown`), a row in hand is that drain's or
has been closed (`HeldIsOwn`), and what is in hand and in flight fits where the
drain is (`HeldWhileSending`). `Retry` breaks `HeldIsOwn`: it re-arms a row that a
hanging drain still holds. Where no drain loses a claim it does not, by two more
invariants: nothing but a drain's own settlement fails a row (`ClaimsKept`), and a failed
row was not sent (`FailedIsUnsent`).

*Why a failed row comes back unsent.* A row that waits again was FAILED, so by
`HeldIsOwn` whoever had it in hand may still be in its send; only the settlement of
that very flight can release it, and `MailInv` says that a flight whose
answer releases has mailed nothing.

*Why a promise is kept.* With `ClaimInv` and `MailInv` every action of the system is shown
to be a step of `AtMostOnceMail`, or none of it: a hand-over is the one that tells, a
settlement the one that reports, and a cancel, a lease or a purge closes. *Why three
tries:* a settlement writes the attempts of the row it finds, so `TriesFit` keeps, for
each place a row can be in, what has been handed over against what was charged
(`Room`). *Why a sent campaign is closed:* the two statements of `completeIfDone` are one,
so the campaign is closed at that moment; what can reopen a row later is a
settlement, and `SourceThere` and `ClaimsKept` say that a row in hand is SENDING,
so its campaign could not have been closed.

*Why a cursor is honest.* `HonestInv` adds that a claim's owner knows which
locale and page it is at (`ClaimIsKnown`) and that before it saves, the pages
before its page have been enqueued. A runner that lost its claim writes nothing
but `finish`, which clears the cursor. `SyncInv` needs more: that whoever works on
a locale holds its claim (`WalkerOwns`), that switches have not moved
(`NothingMoved`), and that of the pages a press can count on, those before the cursor
were enqueued since, as long as the job has no mark (`FreshSoFar`). A marked job owes
nothing yet: it is either finished, which begins a walk from the first page, or claimed
again, which leaves what is owed after the cursor.

*Why the counter is true.* A commit writes what was read three steps earlier, so
`CounterIsTrue` is not inductive. `RecountInv` adds that who is in a transaction
holds its course's row (`Held`), and that what it has read so far, unless the
course's data moved meanwhile, is still what it would read now
(`ReadsAreTrue`): nobody else writes the lesson rows of that course, and a pass,
a purge or a publication says so in `clean`. `AbsentFails` keeps a new attempt from
looking like a lost pass. For the limit on attempts, `LimitInv` says that the number
past the limit is free and in nobody's hands.

*Why the overrun is bounded.* What a month costs is not yet what it will cost: `Provided`
counts the worst case of every call in flight as spent, and that sum stays below
`Ceiling`, since a call is let through only if its own worst case fits in what is
left, whatever the others still owe. `Closed` says the same of the
months gone by, for which the cost can only stand still, `Future` that no call
is ahead of its time, and `Capped` that the cap that admitted a call is not above the
peak. *Why a notice is sent once:* `Counted` counts those about to be sent as sent, and
compares them with the flag in the row: whoever sends has turned it.

*Why the list is honest.* `ListInv` ties each request to what it holds. `Proved`: a
confirmed row was proved, and what an administrator is about to restore was
confirmed. `Numbered` and `Unspent`: tokens are numbered in order, so one that is issued
after a no is not among the spent ones, and the row never has a spent one. `Withdrawn`
says what may be on its way for a reader who said no; `Held` that the welcome with the
row's link was sent, was refused, or is in somebody's hands. `AskInv` does the same for whoever is to
confirm: a token on the row was sent, was refused, or is about to be mailed (`TokenSent`), a row that waits is
being asked (`Asked`), and an invitation that will send nothing found a confirmation that
is still there (`Spared`).

*Why the slugs agree.* `OneSlug` is not inductive: a request commits what it read some
time ago. `SlugInv` adds that an article that is not in `crossed` has one request
to commit at most (`Lone`), and that what it read is still so (`Current`).

*Why old links lead.* `LinksLead` follows redirects, and says nothing of those still to
be written. `LinkInv` speaks of an article that is there, whose requests never
overlapped and whose slugs are its own (`Steady`): each path it had is the present one,
is about to be redirected to it, or is redirected to another of its paths (`MovedOn`),
and no set of former paths is closed under that (`CircleFree`). A transaction keeps the
last because what it moves is owed a redirect to a path that is not former. Then the walk:
a visitor who is still walking after as many steps as there are redirects was somewhere
twice, and the paths in between would be such a set.

*Why one runner, and why a finished job is current.* `HoldInv`: a job in hand is RUNNING
with its runner's token, and its lease has not ended, as long as none outlasts it.
`StepInv` follows the text a runner read: the one that stands, or a save is going to ask
for the job again (`RunIsCurrent`). A person's translation is never written over because
the handler's transaction reads the row under its lock: `PersonWins` needs the types only.

*Why rows name what is stored.* Keys are never issued twice (`Issued`); a key that was put
for a row is stored and in one request's hands (`Fresh`); two rows never name one key
(`OneRowEach`); and what a replace is about to drop is named by no row (`Unnamed`), since
the row's transaction moved it off. `LeakInv` excuses the keys of replaces that
crossed (`Crossed`). *Why what is used is kept:* a holder that got its asset in time saw
no delete under way, and a delete that begins later counts it (`NoneGoes`); the index and
the holders are written in one transaction, which is `UseIsCounted`.

Only model-checked: liveness (`SendingEnds`, `DueStarts`, `SavesAreTranslated`,
`SyncIsWalked`, `PassReaches`, `CapIsNoticed`), which is out of the prover's reach, and
the two properties of the runs that end in a counterexample. Every other invariant and
action property of the runs is proved. Where a proof needs induction (the walk of
`LinksLead`), it takes the least element of a set of numbers, from the
library's theorem about well-founded relations: the ones that take a predicate cannot be
instantiated by the provers here.

## Plan and what is not modelled

Done: announcements, translation queue, backfill, learning, AI budget, newsletter,
addresses and media, with the runs and proofs above.

Left: nothing that the runs check and the provers reach. What the theorems leave to their
hypotheses stands under "What else the code does not keep".

Not modelled: the last super-admin and the publication sweep (each one read and
one write, of which a model would say what the section above says);
rendering, search, the pages and server actions of `apps/web` (they call the
operations modelled here, or single statements); texts, tags and other fields of
content, menus, site text, theme and blocks (single-statement edits); market data
(fetch and upsert by key); notifications and support (inserts and read marks); the
permission algebra (a pure function with its own tests); Better Auth's sessions (a
library); seeds and fixtures. They make up most of the repository's lines. Where they
keep state, one statement or one transaction writes it, and there is nothing for a
model to interleave.
