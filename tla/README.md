# BrewNotes: a TLA+ verification project

This directory holds a TLA+ model of the BrewNotes coffee-tasting community
(`src/`: a Go backend of gin and gorm over PostgreSQL, a Vue frontend, Docker
Compose), the TLC runs that check it on small instances, and proofs that TLAPS
checks for every value of the parameters. `PROJECT.json` maps every definition
to the source lines it models and lists the runs, theorems, hazards and
findings.

    tlc -workers 2 -config MCNotes.cfg MCCommunity     # a run
    tlapm CommunityProofs.tla                          # a proof module

## 1. The system

| Component | Source | State | Operations | Modelled in |
| --- | --- | --- | --- | --- |
| Tasting notes | `handler/`, `service/`, `repository/` note files | table `tasting_notes`, its id sequence | create, get, update, delete; list | `NoteService`, `Lists` |
| Comments | the comment files | table `comments` | create, delete; list | `CommentService` |
| Likes | the like files | table `likes`, unique (user, note) | like, unlike, count | `LikeService`, `LikeBoard` |
| Errors | `error_handler.go`, `errors.go`, `app_error.go` | none | error to HTTP status | `CommunityState` (`Finish`, `Statuses`), `DirectoryState` (`Reject`) |
| Rate limiter | `middleware/rate_limiter.go` | map of buckets under a mutex | admit or refuse | `RateLimiter` |
| Process | `cmd/server`, `docker-compose.yml`, `init.sql` | the process, the seed rows | connect, migrate, seed, serve, drain, restart | `Startup` |
| Accounts, tokens | the user files, `jwt.go`, `auth.go`, `rbac.go` | table `users`, unique name and email; claims in the token | register, login, me, update, profile | `UserService`, `Directory`, `DirectoryRegistry` |
| Follows | the follow files | table `user_follows` | follow, unfollow; counts | `FollowService`, `Directory`, `DirectoryRegistry` |
| Bean library | the bean files | table `coffee_beans`, unique name | admin create, update, delete; list | `BeanService`, `Directory`, `DirectoryRegistry`, `Lists` |
| Brew recipes | the recipe files | table `brew_recipes` | create, get; list | `RecipeService`, `Directory`, `Lists` |
| Lists, statistics | `List`, `Profile` | none | count then page; six queries | `Lists`; the queries are one step of `UserService` |
| Uploads | `upload_handler.go`, `util/file.go` | the upload directory | save | `Uploads` |
| Browser | `frontend/src` | token in store and localStorage, page state, calls under way | login, logout, like, publish, upload, reload | `Browser` |
| Logging, CORS, formatters | `logger.go`, `cors.go`, `formatters.go` | none | headers, log lines, wording | not modelled: no state |

**How they interact.** A request passes recovery, logging, CORS, the error
handler, for most POSTs the rate limiter, and for most writes the token check;
then the handler binds it, calls a service, which calls a repository, which
sends SQL. Errors travel back up to the error handler, which makes a status of
them. The services share nothing in memory. They meet in the tables: comments
and likes look notes up, a note is shown with a count of likes, and deleting a
note leaves both in place. Accounts meet the rest only through tokens: a
request carries the user id, name and role its token was issued with, and the
users table is not asked again. The one piece of shared memory is the limiter's
map. The browser talks to the backend by calls whose answers come in any order;
its tabs share localStorage and nothing else.

**What is hard.** No service opens a transaction or takes a lock: a handler
sends one to three statements, each atomic by itself, and any statement of
another request may come between. gorm's `Save` is itself two statements when
its UPDATE finds no row: the second INSERTs the row again. A statement that
failed and one that did its work while the word of it was lost look alike to the
code: both are answered 500. There are two
schemas: `init.sql` has a foreign key from comments to notes, a database
AutoMigrate made has none. The process may die between any two statements, and
Compose starts it again. The limiter reads the clock before it takes its mutex.
`PROJECT.json` lists every hazard at its line, and the properties that cover it.

**What makes each part correct.**
- Notes: a note keeps its owner and its photo; only its owner changes it; it
  does not come back after a delete but by an update already under way.
- Answers: a success was done, a 4xx was not; only a 500 may leave it open.
- Comments: never on a note that never existed; one request removes each.
- Likes: one per user and note, taken back only by the user who gave it; a late
  unlike does not hit a like given again since.
- Requests: each one ends.
- Accounts, follows, beans together: what 201, 409, 404 and 200 say was so at
  one instant of the request.
- Accounts: names and emails unique; name, email, password and role never
  change; a row changes only for a token that speaks of it; tokens say what is
  true until the data is reset.
- Beans: changed by admins only, names unique; deleted beans stay away but for
  an update under way; an update nobody overlaps does what it says.
- Lists: a page is the window asked for; a walk over the pages misses and
  repeats nothing but what moved meanwhile.
- Browser: the token sent is the one the tab believes in; the like count is
  right while nobody else likes and the tab hears how its calls ended; a
  published photo is whole; no button of `request.ts` spins for ever.
- Limiter: a bounded burst, no refusal without cause, separate windows.
- Process: the seed is stored in order and once; an admin exists whenever
  requests are taken; it comes up and goes down.

## 2. The modules

`CommunityState` declares the tables, the request slots and the moves of a
slot. `NoteService`, `CommentService` and `LikeService` extend it with one
action per statement; `Community` composes them, adds what all requests share
(arrival, the reply, a failing statement, a process restart), the
specification and the properties. `CommunityBoard` maps the composed system to
`LikeBoard`. `MCCommunity` holds the workloads. `CommunityProofs`, `TalkProofs`
and `BoardProofs`, each on top of the one before, hold the proofs.
`RateLimiter`, `MCRateLimiter`, `RateLimiterProofs` and `Startup`,
`StartupProofs` stand on their own.

`DirectoryState` declares the tables of the account side, the tokens clients
hold, the middleware and the request slots; `UserService`, `FollowService`,
`BeanService` and `RecipeService` extend it in the same way, and `Directory`
composes them and adds arrival, reply, failing statement, process restart and
the reset of the data. `DirectoryRegistry` maps it to `Registry`, the abstract
specification of accounts, follows and beans. `MCDirectory` holds the workloads,
`DirectoryProofs` the proofs. `Lists` (`MCLists`, `ListsProofs`) is one reader
of a paged list among writers. `Uploads` is the upload endpoint over a directory
and a clock; `Browser` (`MCBrowser`) extends it with the tabs, the calls and a
server of one note; `BrowserProofs` holds the proofs.

**A request** is a slot `req[r]`: the call, the statement it is about to send
(`pc`), the row it holds in memory, the like it found, and when it is `"done"`
its HTTP status. An action is everything the handler does from one statement up
to and with the next: binding, checks and early returns are disjuncts of the
action whose statement they follow. So `UpdateFind` is the SELECT of
`NoteService.Update` with the owner check, the roast check and the patch;
`SaveUpdate` is the UPDATE of `Save`, and `SaveInsert` the INSERT ... ON
CONFLICT (id) DO UPDATE that gorm sends when the UPDATE matched nothing.
`SaveInsert`, the reply and the process death are external: they model gorm,
net/http and the operating system by how the code uses them.

**Statements that fail.** With `Faults` (`offered.faults` in the directory) any
statement may end in an error, in two ways. It fails before it took effect: the
`...StatementFails` actions, which change no table. Or it takes effect and the
word of it is lost, a connection broken behind the COMMIT: `Written` finishes the
request with any of the `Outcomes` of its success, the 500 among them, and the
table has changed. The code cannot tell one from the other (it wraps `err` and
answers 500), and neither can the client. A SELECT has no effect to keep, so for
it both are the first. Where the code drops the error the model does too: the
like lookup answers 404 to any error, a note whose likes cannot be counted is
answered 200 with none, the profile shows zeros. A registration whose row was
stored may also be answered 500 because the token could not be signed.

**Data.** A note row keeps its owner, roast level, one JSON column (`tags`; the
JSON type refuses the text `"nutty"`), one of the three sub-scores (`aroma`),
the overall score, and one of the fields the update handler does not pass on
(`image`). Comments and likes are reduced to user and note. Ids come from
sequences that never go back; a refused INSERT has used one up. A user row keeps
every field but the timestamps, a bean its name, process and tags, a recipe its
author and steps. A password is a value that is equal or not, or one (`"long"`)
that binds and that bcrypt refuses.

**Tokens.** `live` holds the claims of every token a client received and that
has not expired; expiry is the 401 by which the client finds out. `epoch` counts
resets (history), so that a property can tell a token of this database from one
of an earlier one; the code cannot, and neither do the actions.

**Lists.** A row is in the list or not (the filter), and the hot list sorts by
its score; `Sorted` is ORDER BY, `Select` its OFFSET and LIMIT. `Count` and
`Fetch` are the two statements, `Turn` the pager of `Home.vue`, `Write` any
write of another request. Numbers wrap at `Width` bits. The walk's history
records what was shown, shown twice, stayed, or moved down.

**Uploads.** Two readings of the clock make the name; `CreateFile` empties a
file that is there; `CopyFile` writes piece by piece at the upload's own offset.

**Browser.** `tab[t]` is the user store and the component of the page; `local`
is localStorage. A call takes the token localStorage holds when it is sent. An
answer to a call whose component is gone changes the store and the router, as
the code after `await` does, but no page (`here`). A reload keeps localStorage
only. `Serve` answers in one step: the races inside the server are `Community`'s
matter. With "fault" a call may fail before anything was done (`ServeFails`), do
its work and be told of a 500 (`Told`), be given a note without the count of its
likes (`ServeNote`), or time out. The login page has two addresses, with and
without the form to come back to; the router keeps its component from the one to
the other (`Open`). In `Scenes` a behaviour is given its tabs, users, kinds of event and
number of calls.

**History variables** (`born`, `erased`, `removals`, and `wrote` in a slot;
`judged` in the limiter; `epoch`, `fresh`, `era`; `walk`; `apart`, `alone`) are
written by the actions and read by properties only.

**The limiter.** `ReadClock` is `time.Now()`; `Judge` is the section under the
mutex with the verdict; a goroutine holds its reading in between, for at most
`MaxDelay` ticks. `Expired` and `Counted` are the two branches of the section.

**The process.** `proc` follows `main`; `rows` counts how often each of the
nine parts of the seed is stored; `orphans` are INSERTs whose process died or
lost its connection and that Postgres may still execute; `Scripted` says how
far `init.sql` got before. Of the seed rows only their unique keys matter.

**LikeBoard** promises: a like is on the board or not; a call takes effect at
one instant between its request and its answer; an unlike that sees its like
taken by another unlike first is answered as done and touches nothing. The
refinement maps the rows of `likes`, ids aside, to the board; an unlike between
its two statements has "seen" the like while the id it found is in the table and
is "moot" once it is not. That `Delete` goes by id is what makes this hold. Who
is told "none" (a 500) cannot know whether the call was done; the board says that
it was done once or not at all, and within the request.

**Registry** promises: a holder - an account, a bean, a pair of users - has keys
(its name and email; its name; the pair itself), no key is entered while it is
held, and entering, striking and amending take effect at one instant between
the request and its answer. Who asks to amend a bean sees it first. If it is
struck meanwhile, the amendment may bring it back with the keys it remembers -
that is gorm's second statement - but never with a key another has since. The
mapping makes a row of `users`, `coffee_beans` or `user_follows` its holder's
keys and a request slot the call; 201 is told as "entered", 409 "taken", 404
"absent", 200 "struck" or "amended", any other status "none": the call was given
up, or done without the word of it getting through, but not in part, not twice
and not later. So a delete of a bean that is not there and a rename to a
taken name, both answered 500, count as given up. Logins, profiles and recipes
are no calls: their steps must leave the book as it is, and so must a profile
save, which writes the name and the email back. A reset opens a new book.

## 3. The runs

| Run | Bounds | Checks |
| --- | --- | --- |
| `notes` | 2 users, 3 slots, 1 note, 1 comment; foreign key | `TypeOK`, `OwnerPinned`, `AnswerTellsEffect`, `ScoresTogether`, `OnlyOwnerWrites`, `GoneForGood` |
| `talk` | 2 users, 2 slots, 1 note, 1 comment, 2 likes; no foreign key; faults | `AnswerTellsEffect`, `RefsWereCreated`, `RemovedOnce`, `EveryRequestEnds`, `OnlyLikerUnlikes`, `ImplementsBoard` |
| `limiter` | 2 addresses, 2 goroutines, quota 1, window 2, delay 1, time 5 | `LimiterTypeOK`, `BurstBound`, `RefusalsAreEarned`, `WindowsDoNotOverlap` |
| `startup` | every state `init.sql` may leave, 3 faults, 1 open request | `SeededOnce`, `SeedHasNoHoles`, `AdminWhenListening`, `ComesUp`, `GoesDown` |
| `directory` | 2 slots, 3 users, 3 beans, 1 recipe; five workloads, with faults or one reset | `DirectoryTypeOK`, `NamesUnique`, `TokensSpeakTrue`, `DirectoryAnswers`, `AuthorsExist`, `NoneStuck`, `IdentityPinned`, `AloneItDoesWhatItSays`, `ProfileOfItsOwn`, `BeansByAdmins`, `BeanGoneForGood`, `ImplementsRegistry` |
| `lists` | 3 rows, pages of 1 and 2, ints of 5 bits | `ListsTypeOK`, `WalkShowsAllOnce`, `PageIsTheWindow` |
| `browser` | eight scenes: 1 or 2 tabs, 1 or 2 users, 2 to 5 calls; 2 uploads of 2 pieces, 2 clock values | `GoodTokenIsSent`, `AloneTheCountIsRight`, `PublishedPhotoIsWhole`, `NoButtonSpinsForever` |
| `erased` | as `notes`, 2 slots | `ErasedStayErased` is violated |
| `owner_delete` | foreign key | `OwnerCanDelete` is violated |
| `hot` | as `lists`; the second of three rows is the one liked | `HotByLikesOrRecency` is violated |
| `token_bucket` | quota 2, window 3, no delay | `TokenBucket` is violated |
| `default_accounts` | empty database, 1 fault | `DefaultAccounts` is violated |

**Why the bounds are enough.** The rows of two notes never meet in one
statement, so one note shows every race on a note; three slots are needed and
suffice for the longest of them, two updates that both find the row gone, one
inserting it and the other taking the ON CONFLICT branch. A like needs two ids to
be given, taken back and given again under a late unlike. Faults are on where
liveness and the refinement are checked; `notes` checks the answers without
them, so that there a success and a refusal are told apart to the full. The ids of calls go
up to the bound of the sequence and calls may come before anything was created,
so that calls to ids not handed out happen. In the limiter two goroutines make a
late judge and an early one, and the clock runs past the end of the second
window. Three faults let two seeding processes die and a third meet both their
late INSERTs. In the directory two slots make every race of a read and a write
with one other request, as at most one row is read and one written by each;
three ids let an account register twice and once be refused, and one bean be
made anew after another was deleted; one reset is what tells an old token from a
new one. One update names no name, so that the registry keeps the one it sees.
Three rows and pages of two make a second page that is short, and a row that
crosses the cut; five bits make every wrap of the offset (negative, zero,
positive) happen. In the browser a late 401 that meets a new token takes four
calls of one tab, a like refused as a duplicate five, and the sessions of two
tabs disturb each other within two or three; two uploads and two clock values
give equal and different names; publishing has a scene with process death and
one with failing calls. Users and slots are permuted (SYMMETRY) only in
the runs without liveness. Bounds are guards of the actions that hand out ids
(`noteSeq < MaxNotes` and so on), of the clock (`MaxTime`), of the judged
requests (`MaxCount`), of the faults (`MaxFaults`), of the open requests
(`MaxOpen`), of resets (`resets` of a workload) and of calls (`calls` of a
scene). The limiter's runs stop at the end of bounded time and the browser's
when no call may be sent any more, so they do not check for deadlock; all others
do.

**Fairness.** `Community`: weak fairness of each slot's own steps. Go schedules
every runnable goroutine and no statement waits for a lock held across
statements. Nothing is assumed of clients, failures or restarts. A request that
never ends would need an outcome of a statement no branch handles, which is what
`EveryRequestEnds` would find. `Startup`: weak fairness of `main` and of
Compose's restart policy; none of clients, operators or faults, whose number
is bounded by `MaxFaults`: if every start failed nothing would come up. The
drain ends by its five-second context, so `GoesDown` needs no request to end.
`Browser`: weak fairness of serving and hearing calls, which the number of calls
bounds: the server's requests end (above), and where it may not answer, axios
gives up after 15 seconds (`Timeout`). Nothing is assumed of the user, nor of
uploads, which have no timeout: `NoButtonSpinsForever` is not claimed for the
upload button. `Directory` has no liveness property: `NoneStuck` says that a
request with a statement to send can send it, and none sends more than three.

**Mutants.** Each property of a passing run is broken by a mutated definition
kept beside the original (`Mut...`), a plausible bug of that code: an owner
check dropped, `RowsAffected` not looked at, an unlike that deletes by user and
note, an index missing, a token made before its row has an id, a page counted
from 0, any error ending the session, a window that ends early, a shutdown
without deadline, a second follow answered as if it were the first.

## 4. What the runs found

1. **A deleted note can come back** (`erased`). An update reads the note, its
   owner deletes it and is answered 200, the update saves: the UPDATE matches no
   row, gorm INSERTs it under its old id. What does hold is `GoneForGood`: only
   an update under way at the time can do this.
2. **An owner's DELETE fails once there is a comment** (`owner_delete`): the
   foreign key of `init.sql` refuses it, and the answer is 500. On a database
   AutoMigrate made it works and leaves the comments behind.
3. **The limiter is not a token bucket** (`token_bucket`), but a fixed window:
   two quotas can pass around its end. `BurstBound` is what does hold.
4. **The hot list is not sorted by likes** (`hot`): a comment in the repository
   says "by like count or recency", the query sorts by the author's own overall
   score. `PageIsTheWindow` is about the order the query has.
5. **The default accounts may be missing for ever** (`default_accounts`) when
   the first start on an empty database dies between two INSERTs. What holds:
   the admin is there, and the seed is a prefix of its order.

## 5. What is proved

All for every value of the constants, from the named ASSUMEs of the modules.

- `CommunityProofs`
  - `TypeCorrect`: `Spec => []TypeOK`. `TypeOK` alone is not inductive: a slot
    that saves must hold a row and name a note, a slot that deletes a like must
    hold its id. `TypeInv` adds that (`SlotOK`). One lemma per action.
  - `NotesStayWithTheirOwner`: `Spec => []OwnerPinned`. A save writes back what
    the slot holds, so the invariant must speak of rows in memory
    (`HeldRowsPinned`), and an INSERT must not hit a row that is there
    (`BornBySequence`). `PinInv` is their conjunction with `TypeInv`.
  - `DeletedNotesStayAway`: `Spec => GoneForGood`, an action property, from
    `PinInv`: a row appears only by an INSERT above the sequence or by a save.
- `TalkProofs`: what a request relies on between two of its statements. No lock
  keeps it true, so each has to stay true whatever the others do (`Relied`): the
  note it found was created (`NoteWasFound`), the note it is about to write is
  its caller's (`NoteIsMine`), the like it is about to delete is its caller's or
  gone (`LikeIsMine`), what its answer says it wrote is what it wrote, a 500
  under faults aside (`Told`).
  With `OneEach` (the unique index), `CommentsTrue` and `LikesTrue` (references
  and ids handed out) this gives `AnswersTellTheEffect`, `ReferencesWereCreated`,
  `CommentsGoOnce`, `OnlyTheLikerUnlikes` and
  `OnlyTheOwnerWrites`. `ScoresOfOneRequest` adds that rows held in memory are
  whole too (`ScoreInv`).
- `BoardProofs`: `ServicesImplementBoard`, `Spec => ImplementsBoard`. Each step
  of `Community` is a step of `LikeBoard` or a stutter under the mapping of
  `CommunityBoard`; the note lookup is the stutter, the unique index makes two
  unlikes that saw one mark hold one id, so that the first DELETE makes the
  other moot.
- `RateLimiterProofs`: `LimiterInv` relates the history to the map: the requests
  of a bucket are numbered from one, buckets of one address open more than a
  window apart, and a goroutine's reading is at most `MaxDelay` old. It gives
  `LimiterTypeCorrect`, `WindowsAdvance` and `BurstIsBounded`, the last by a
  counting argument: a short interval meets two buckets at most, and each admits
  `reqs`. `RefusalsEarned` needs the converse, that the requests of a bucket are
  numbered without a gap, each judged no later than the next (`EarnedInv`).
- `StartupProofs`: `StartupInv` says that orphans only wait for what is complete
  before them (`OrphansFit`) and that a process that seeds is alone but for a
  late first INSERT (`SeedIsAlone`), which the unique user name refuses. It gives
  `StartupTypeCorrect`, `SeedIsStoredOnce`, `SeedIsAPrefix` and `AdminIsThere`.
- `DirectoryProofs`: all properties of the `directory` run but `NoneStuck`. The
  invariant `Inv` is the types (`TablesOK`, `SettingsOK`); `SlotsTrue`, what a
  slot at each statement holds: a row of the right table, the claims of a token
  that `live` had, an admin's where a bean is written, an id in range;
  `UsersBySequence`, that no row is stored above its sequence, so that an INSERT
  never hits one; and `TokensTrue`, which extends `TokensSpeakTrue` from the
  tokens clients hold to the claims and copied rows of requests under way - a
  save writes back what a slot copied, so a copy must say of its account what
  the table says. From `Inv` follow `TokensSpeakTrueAlways`,
  `IdentityPinnedAlways`, `ProfileOfItsOwnAlways`, `BeansByAdminsAlways`,
  `NamesUniqueAlways` and `AuthorsExistAlways`; `BeansBySequence` gives
  `BeanGoneForGoodAlways`, `AnswersTrue`, that a slot has written nothing
  until it is done and then what its status tells, gives `DirectoryAnswersAlways`, and
  `FreshTrue`, that a copy nobody overtook is the patched stored row, gives
  `AloneItDoesWhatItSaysAlways`.
  `DirectoryImplementsRegistry`, `Spec => ImplementsRegistry`, is the refinement:
  under `Inv` and `BeansBySequence` each step of `Directory` is a step of
  `Registry` or a stutter. A write of one row changes the keys of one holder
  (`BookOfAccount`, `BookOfBean`, `BookOfFollow`), a unique index refuses a row
  exactly when one of its keys is held (`AccountHeld`, `BeanNameHeld`,
  `PairHeld`), an INSERT finds a holder without keys because ids come from
  sequences, and a save of a profile stutters because the copy it writes back
  has the stored name and email (`SlotRow`).
- `BrowserProofs`: a token anywhere in the browser was given out by a login that
  has been served (`Settled`), so the token of a login still under way is a new
  one and a 401 to anything but a login stays true of its token (`CallTrue`);
  no two calls are one (`OneCallEach`). Then a 401 that throws away what
  localStorage holds speaks of a token no tab can believe in:
  `GoodTokenIsSentAlways`. A photo in a form, a call or a note has been saved
  (`Pictured`), and a saved file that shares its name with nobody holds all its
  pieces (`UploadInv`): `PublishedPhotoIsWholeAlways`. A page waits for one call
  at a time (`PageFits`), and that call's answer is all that a count can lag
  behind the server while nobody else changes the likes: count and answer add up
  to the likes there are (`CountFits`), before the server has judged the call,
  after it has, and when the page hears of it. A page is counted in only when it
  is given the count, and out when a like of its own was done and told as an
  error. So `AloneInv` holds, and a page
  that waits for nothing shows the right count: `AloneTheCountIsRightAlways`.
- `ListsProofs`: in a sorted sequence of all rows the i-th row is the one with
  i - 1 rows before it, for any finite strict order (`SortedExists`,
  `SortedRanks`), so OFFSET and LIMIT select by rank (`SelectWindow`), unless the
  product wraps (`Fits`). That is `PagesAreWindows`. A walk over the pages keeps
  `WalkInv`, which speaks of ranks only: a row that stayed and is not shown yet
  ranks behind the pages read, one that is shown and neither came in nor moved
  down ranks within them, and until a row comes in the list is no longer than the
  last COUNT. A write that moves a row takes it out of those the walk vouches for
  that way: `WalksShowAllOnce`; `ListsTypeCorrect` comes with it.

**Only model-checked.** `EveryRequestEnds`, `ComesUp`, `GoesDown` and
`NoButtonSpinsForever` are liveness and `NoneStuck` is ENABLED: out of the
prover's reach. Every other property of a passing run is a theorem;
`StartupTypeOK` is only a theorem.

## 6. What is not modelled, and the plan

A statement that takes effect late, after its request was answered or its
process died, is modelled in `Startup` only, where it meets the next seeding. In
the community and the directory a request's last statement takes effect before
the answer, and a restart ends the requests with the statement they are at done
or not. The save of a dead process that lands after the restart is left out:
`GoneForGood` and `BeanGoneForGood` would have to count it among the saves under
way that may bring a row back, although no request is left to hold it.

Not modelled at all: wording, logging, CORS headers, the panic recovery,
hashing and signatures, connection pools (statements wait, they do not
interact), Postgres itself beyond atomic statements, keys and sequences, and its
operators (LIKE on a JSON column fails, see the hazards). Of the lists, which
rows a filter selects; of the profile page, what its aggregates compute. Of the
browser, the pages that only show what they are given (comments, lists,
profiles, the bean and recipe pages), and the order in which answers to list
requests arrive: the store keeps the last answer, whatever was asked last.

Next:

1. **Browser**: comments, which a lost answer may store twice, beside likes.
2. **Profile page**: its six queries one by one, which may disagree.
