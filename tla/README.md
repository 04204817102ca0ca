# A verification of the PDS

These modules specify the parts of the personal data server (PDS) of this
repository whose behaviour depends on what runs at the same time, on what fails and
on what was stored before. TLC checks each on a small instance; TLAPS proves what the runs
check, but for liveness, for instances of any size.

Paths below are relative to `src/src/`. `PROJECT.json` maps every definition that
models code to the lines it models, lists the hazards of the code with the
properties that would catch them, and gives for each property a mutation of the
code that breaks it.

## 1. The system

A PDS is one Node.js process. It hosts accounts; each has a signed repository of
records, the blobs these refer to, and sessions. What it writes it announces on a
firehose. Handlers run on one event loop: between two `await`s nothing else runs, at
an `await` anything may. State is kept in

| where | what | transactions |
| --- | --- | --- |
| account database (SQLite, one connection) | accounts, repo roots, refresh tokens, app passwords, invite codes, e-mail tokens, OAuth tokens, devices | own |
| sequencer database (SQLite) | `repo_seq`, the rows of the firehose | own |
| an actor store per account (SQLite, WAL, and a key file) | blocks, records, backlinks, repo root, blobs, preferences | own; one connection per use, so that requests contend for its write lock |
| blob store (disk) | temporary, stored and quarantined files | none |
| PLC directory (another service) | the DID document | none |
| memory | listeners and buffers of subscribers, the poller's position, the background queue | lost at a stop |

No transaction spans two of these. Most of what can go wrong follows from that: the
order in which the places are written, what is read before an `await` and used after
it, and what is cleaned up when a later step fails.

### Components

*Event sequencer* (`sequencer/sequencer.ts`). State: the table, `lastSeen`. Events
are inserted by everybody; a poller reads rows past `lastSeen` and emits them in
batches; the rows of a deleted account are deleted; at the start `lastSeen` is the
last row. Correct if what it emits leaves no row out.

*Outbox* (`sequencer/outbox.ts`, `subscribeRepos.ts`), one per subscriber. Pages of
old rows are read from the table (backfill); when it is close to the poller it listens
to it, queries once more what it lacks (cutover), and streams from a bounded buffer.
Correct if a subscriber, over any number of reconnects and restarts, gets every event
that still exists, in order.

*Repository writes* (`api/com/atproto/repo`, `actor-store/repo`, `actor-store/record`,
`db`). A write reads a snapshot, formats and signs a commit, takes the write lock,
stores blocks and records, puts the event on the firehose and commits; it is run again
if the file has changed. Then the root is copied to the account database. Correct if
commits are as if they ran one after the other, swaps hold when they are made, the
index agrees with the tree, and the firehose tells exactly the commits.

*Account lifecycle* (`account-manager`, `actor-store/actor-store.ts`, handlers of
`server`, `admin`, `identity`). Creation by two paths, moving in, activation, takedown,
renaming, deletion; each writes several of the places above and ends with events.
Correct if nothing is left in pieces, deletion is final, and what is announced is true.

*Sessions* (`account-manager/helpers/auth.ts`, handlers of sessions). Refresh tokens
rotate; an old one works for a grace period and has one successor; takedown, new
password and revocation of an app password delete rows. Correct if racing refreshes
agree and no rotation outlives a revocation.

*Invite codes* (`account-manager/helpers/invite.ts` and handlers). Codes are earned
with time or given, checked, later used in the sign-up's transaction, disabled.

*Blobs* (`actor-store/blob`, `disk-blobstore.ts`, `background.ts`). An upload is a
temporary file and a row; a commit that refers to it moves the file and makes it
permanent; a commit that frees it deletes the row, and after the commit the file, in
the background; a takedown quarantines the file. Correct if the rows tell which blobs
records refer to, files of live blobs stay, and others go.

*Credentials* (`account-manager/oauth-store.ts`, `helpers/token.ts`,
`helpers/authorization-request.ts`, `helpers/email-token.ts` and handlers). The
authorization server library asks the store for requests, codes and tokens, a query at
a time; a mailed token is checked by one query, and deleted after what it allows is
done. Correct if a code, a refresh token or a mailed token takes effect once, and a
stolen refresh token is recognised.

*Authentication* (`auth-verifier.ts`, `pipethrough.ts`, `getServiceAuth.ts`). A verifier
reads the header, verifies the credential, then reads the status of the account; a
handler or the proxy makes further checks. Correct if a request is the one that its
header says, or is refused.

*Readers* (`com/atproto/sync`, `repo/listRecords.ts`, `db/pagination.ts`, `listRepos.ts`,
`getInviteCodes.ts`, `listBlobs.ts`). They read in several queries, page by page, while
others write. Correct if what is there all the time is not left out.

*Read after write* (`read-after-write/`, handlers of `app/bsky`). The answer of an app
view, that may not have seen the last commits yet, is completed with the records of the
account that are newer. Correct if an account sees what it wrote.

The other components, with the reason why they are not modelled, are in the
`components` of `PROJECT.json`: the recovery scripts and the DID cache are planned
(section 7); handles, mail, images, configuration and migrations are functions of their
input or plain I/O.

### How they interact

    handler --> actor store (lock, snapshot) --> blob store (files)
       |             |  inside of the transaction
       |             +--> sequencer table --> poller --> outboxes --> subscribers
       +--> account database (account, root, tokens, codes)
       +--> PLC directory                background queue --> blob store

Each module takes one of these groups and keeps the edge to its neighbours as small
as the code does: RepoWrite has the firehose as the list of its commits, Firehose has
an event as a number and an account, Blobs has one transaction at a time because
RepoWrite is about how they contend, Accounts has a repository write as four steps
because RepoWrite is about what is in them, the readers have a commit as one step
because RepoWrite shows that commits are serial. All but Access begin where a handler has
been told who calls; Access is about that. OAuthStore and EmailTokens meet in Credentials,
where one account is taken down, deleted and comes back.

### What is hard

* a poll, a page or a cutover query that is stale when it is used (Firehose);
* two databases written one after the other, with a crash between (RepoWrite, Accounts);
* a row read, a token signed, and only then a transaction (Sessions, Invites,
  OAuthStore, EmailTokens);
* a read in many queries, or of two servers, with writes between (RepoExport, Listings,
  ReadAfterWrite);
* files that follow no transaction, and jobs that go on after their transaction has
  failed (Blobs);
* clean-up of what a failed request has made, or has found (Accounts);
* retries of what was partly done (RepoWrite, Sessions); bounded buffers (Firehose).

## 2. The modules

| module | about | lines it is read with |
| --- | --- | --- |
| `EventStream` | what a subscriber is promised, abstractly | – |
| `Firehose` | sequencer, poller, outboxes; implements EventStream | `sequencer/`, `subscribeRepos.ts` |
| `FirehoseProofs` | its type correctness, its inductive invariant, and that it implements EventStream, proved | – |
| `SerialRepo` | writes one after another, told on a feed | – |
| `RepoWrite` | transactions of writes to one repository; implements SerialRepo | `api/…/repo`, `actor-store/repo`, `db/` |
| `RepoWriteProofs` | its properties and that it implements SerialRepo, proved | – |
| `Accounts` | accounts over four places | `account-manager/`, `actor-store.ts`, handlers |
| `AccountsProofs` | its properties, proved | – |
| `Sessions` | refresh tokens of one account | `account-manager.ts`, `helpers/auth.ts` |
| `SessionsProofs` | its type correctness, its inductive invariant and its properties, proved | – |
| `Invites` | invite codes of one account | `helpers/invite.ts`, handlers |
| `InvitesProofs` | its properties, proved | – |
| `Blobs` | rows and files of the blobs of one account | `actor-store/blob`, `disk-blobstore.ts` |
| `BlobsProofs` | its safety properties, proved | – |
| `Requests` | requests of one account at their awaits, its status and password | – |
| `OAuthStore` | authorization requests, codes, tokens, used refresh tokens | `oauth-store.ts`, `helpers/token.ts`, … |
| `EmailTokens` | tokens mailed for five purposes | `helpers/email-token.ts`, handlers of `server` and `identity` |
| `Credentials` | both, and the deletion and return of the account | `account-manager.ts` |
| `CredentialsProofs` | its properties, proved | – |
| `Access` | verifiers, and the checks beside them | `auth-verifier.ts`, `pipethrough.ts`, `getServiceAuth.ts` |
| `Pages` | pages by the key of their last row | `db/pagination.ts` |
| `RepoHistory` | a repository and its account, as readers find them | `actor-store/repo`, `actor-store/record` |
| `RepoExport` | exports, proofs, heads, listings of records | `api/…/sync`, `repo/listRecords.ts` |
| `Listings` | repositories, invite codes and blobs, by pages | `listRepos.ts`, `getInviteCodes.ts`, `blob/reader.ts` |
| `ReadAfterWrite` | the answer of an app view, completed | `read-after-write/`, `app/bsky/feed`, `app/bsky/actor` |
| `Readers` | one reader of these, among writes | – |
| `ReadersProofs` | its properties, proved | – |
| `MC…` | instances of these for TLC | – |

A definition named `…` with the comment "Mutant" is never part of a specification. It
is the same definition with a plausible bug, kept to show that a property can fail.

**Firehose.** An event is its sequence number, since all the code does with it is
compare numbers; `log` remembers the account, for deletions. `rows` is the table,
`seqSeen` the poller's `lastSeen`; `st[c]` says where the handler of subscriber `c`
stands, and `cursor`, `seen`, `fetched`, `pending`, `out` are its variables. A query
and the use of its result are two actions (`PollQuery`/`PollEmit`,
`BackfillQuery`/`BackfillYield`, `CutoverQuery`/`CutoverMerge`), because the code
awaits in between. `Restart` forgets all but the table. `got` is a history variable:
what the client has. A client reconnects with it as its cursor.

**RepoWrite.** `repo` is the committed actor store: revision, the revision inside of
the signed commit, tree, index, and blocks of records. A request is a phase of a
transaction; `Format` reads the snapshot, `Write` takes the lock and needs the
snapshot to be fresh (SQLite in WAL mode refuses it otherwise: `Busy`, `Retry`),
`SequenceCommit` puts the event into the other database, where it stays, `Commit`
ends. `Rollback`, `CommitFails` and `Crash` cut a transaction off. The Merkle tree is
a library, `@atproto/repo` and its successors: a tree is the function from paths to
contents. A commit is a sequence of writes, which may name a path several times: the tree
takes them in order (`Before`, `Fits`). `RemovedCids` and `NewCids` are what the diff of the
library reports. What it says of contents that go at one path and come at another depends
on the order of the paths, which the model does not have: any part of them (`moved`) may
be both.

**Accounts.** `Script` lists for each operation the awaits of its handler in their
order; `req[r].todo` is what is left of it. Each kind of await is one action. `Throw`
is what the `catch` of the handler does. `undo` is a deletion that a failed sign-up by
OAuth starts and does not wait for. `ActorStore.create` and `destroy` make and remove a
directory, a key and a database over several awaits: `HalfMade` and `HalfDestroyed` are
their failing in between. `litter` is history: whose store such a failure has left.

**Sessions.** A token is a number; `rows` the table `refresh_token`. `Tidy` and
`Rotate` are separate because the code signs tokens between. `epoch` and `since` are
history: the last revocation, and the one a token was granted after. So are `granted`
(who was answered with what), `family` (the first token of the session of a token) and
`out` (the tokens that were logged out); the code has none of them.

**Invites.** `Precheck` and `Register` of a sign-up, and the five steps of
`getAccountInviteCodes` (account, codes, what is earned, insert, count).

**Blobs.** `db` and `work` are the committed tables and those the transaction sees;
`jobs` are calls of `makePermanent`, which go on when their transaction has failed;
`tmp`, `disk`, `jail` the files; `pending` the background queue. `writeFile` is two
actions, since it empties the file first. Any operation on files may fail (`JobFails`,
`Fail`, `UnlinkFails`). Three histories keep which blobs the code has treated so that it
does not make up for it: `spoiled`, `stray` and `forgotten`, see section 6.

**Credentials.** Each query or transaction of the store is an action, in the order in
which the OAuth provider calls them; `taken` is history: which refresh token was handed
out for which code or refresh token. A mailed token is `mail[p]`, one row for each
purpose; `sent` is what was mailed, `finished` what took effect, `proven` the addresses at
which a token was received.

**Access.** A verifier is an operator from a request to a principal or an error, in the
order of the code's checks (`FirstOf`); `VerifyStatus`, which awaits, is an action of its
own. A header is its written type, its number of words and a credential that somebody
holds. Two things of the code at this commit are taken as they are meant: `proxyHandler`
and the handlers of `app.bsky` pass the request of Express to verifiers that take a
`Request`, and `index.ts` still re-exports `bearerTokenFromReq`, which is gone.

**Readers.** `reader` is one request and what it has in hand; commits, takedowns, changes
of status and rows of the tables happen between its steps. `RepoHistory` keeps what is
stored with its revision, `deleted` which blocks commits removed meanwhile. A commit of it is of
one record and leaves exactly the blocks of the records: commits of several writes, and the
blocks that they or imports may take away (section 6), are in RepoWrite only. The app view of
`ReadAfterWrite` has seen a revision, and answers with any feed, thread or profile of what
it has seen.

External parts, modelled from how the code uses them: SQLite (a transaction is
isolated; the rules of the write lock as above), the diff of the tree, `AsyncBuffer`
(a bounded buffer that fails when read over its limit), the queue of `background.ts`.

## 3. The runs

All numbers are bounds of the model, except where a line of the code is named.

**Firehose** (`Firehose.cfg`): one account, one subscriber, three events, pages and
polls of two rows, a buffer of two. Three events are more than a page, a poll and the
buffer, so there is a second page, a second poll, an overflow with a reconnect, and a
cutover that overlaps the poller. One subscriber is enough because subscribers share only
what the poller and the table are, which they do not write; for any number of them
OnItsWay and CutoverCovers are proved. It checks

* `OnItsWay`, `CutoverCovers`: nothing lost in the hand-over, and why;
* `KeepsPromise`: the server implements `EventStream`, over reconnects and restarts:
  order, no gap but for deleted rows, no repetition within a connection. A connection may
  begin at an event the consumer has had, and then repeats all from there to its old
  position;
* `EventuallySent`: who stays connected is sent every row.

**FirehoseCursor** finds such a beginning: see section 6.

**RepoWrite**: two writers, two paths, two contents that link to one subject, two
requests, each run at most twice, and two faults. A request of `applyWrites` has up to two
writes (200 in the code), which may be on one path. Any two of the five kinds of request
meet, in all orders, and the loser runs again. Paths, contents and writers are
interchangeable (symmetry; no temporal property needs them told apart, and IsSerial is
a safety property). It checks that a committed write is on the firehose exactly once
(`Sequenced`) and an event without its commit needs a fault (`PhantomOnlyByFault`),
`BlocksKept` (of the records that a commit does not name, and of those it names with
contents that no path loses by it: see `AllBlocksKept`, section 6), `SwapHonoured`,
`OneRecordPerSubject`, and the refinement `IsSerial`: events chain by `since` and
`prevData`, without a gap, their ops lead from tree to tree in order and back as a whole, and
the index is the tree. IsSerial says nothing of blocks.

**AccountLife**: two DIDs, one with an account, two handles, all operations, and a
budget `MaxEvents` of three: a request costs one, a second beside another of its
account one more, a fault or a crash one. So three requests in sequence, two at once,
or two with a failed step or a stop are explored. `Announced`, `AllOrNothing`,
`DeletionFinal`, `StoreHasAccount` are about accounts at rest, whose requests have not
overlapped; `AnnouncedWasTrue` about every event, whatever races. Announced and AllOrNothing
also exclude failed steps and stops, StoreHasAccount stops and the failed making or
destroying of a store (`litter`): these the code leaves as they are.

**AccountMove**: see section 6.

**Sessions**: three requests of all eight kinds at once, two ticks of the clock, a life of
three ticks and a grace of two, so that a token can expire within its grace period and
a retry of a retry happens. Initially one session of the owner and one of an app. It
checks that racing and repeated refreshes of a token get one successor
(`SameSuccessor`, of a session nobody has logged out of: see `LogoutHolds`, section 6), that
the successor of a token is there as long as the token is, unless its session was logged
out of, and expires no earlier (`SuccessorOutlives`), and that no rotation under way brings back what was revoked (`RevocationHolds`). All are proved for any number
of requests; the instance is where they were found out, and where the mutants fail.

**Credentials**: three requests at once, of all kinds if all are about OAuth or all about
mail, and two of any kinds; each is cut at every query. Two requests race for one code, one
refresh token or one mailed token; the third grants, revokes, asks anew, takes down,
deletes, or returns. It checks `TakenOnce`, `ReplayRecognised`, `UsedIsGone` and
`ConfirmedIsProven`.

**Access** finds a disagreement: see section 6.

**Readers**: two posts, the second of which answers the first, a profile, three revisions,
pages of two rows, one request at a time. A behaviour is about one topic, because what
is read of one database is independent of the other. Three revisions are an old state,
the one the app view or the page has seen, and one that comes in between; with three rows
and pages of two there is a second page. Reduced: only the profile changes its text, only
posts are taken down, nothing happens between an answer and its end, the revision of the
record of a blob is its name, feeds and limits are of one or two items (the code merges up to
ten). It checks

* `ExportLosesNothing`: whoever had all of revision `since` has all of the root after the
  export, but for blocks that commits deleted meanwhile. It is about reading: that the store
  has the blocks of its records to begin with is the matter of BlocksKept;
* `PagesMissNothing`: a row that is there from the first page to the last is listed once
  the pages have passed it, though rows come, go and change;
* `ReadYourWrites`: what the account had written when it asked, and the app view had not
  seen, is in the answer, under conditions that `Promised` and `Reaches` spell out.

**Invites**: three requests, two at a time, at moments around the epoch and where six
codes would be earned, with the limit of five (`getAccountInviteCodes.ts:109`).

**Blobs**: two blobs, two records of one blob each, two uploads, commits of one or two
writes, imports, takedowns, and three requests or faults (a failing transaction, a
crash). Two records share a blob, two references race for one file, and a blob is
freed and referred to again. `BytesKept`: the bytes of a row are in some file, and those
of a blob that is permanent and not taken down in the file it is served from. `TakenIsAway`:
the file of a taken-down blob is not there. What they do not promise is listed in section 6.

**BlobLive**: one blob, commits of one write, and four requests or faults of all kinds, so
that a blob can be taken down, lose its record, and have its takedown lifted, with
something failing; under fairness, `Collected`: a file without a row is deleted or needed
again, unless its deletion failed, was lost or was never queued.

`CHECK_DEADLOCK FALSE` is in the configurations where requests, events and faults are
bounded: a behaviour ends when they are used up and all has been handled. In Readers one can
always ask again.

## 4. Fairness

`Firehose!Fairness`: the poller runs again after every poll (`pollDb` ends with a call
of itself, also after an error), so PollQuery and PollEmit are weakly fair; the handler
of an open connection runs on, and its client reads, so `OutboxStep(c)` is weakly fair.
Nothing is assumed of new events, deletions, reconnects or restarts: EventuallySent
is about a subscriber that stays connected, which includes that no restart comes.

`Blobs!FairSpec`: a request that has begun and a job in the queue are carried on
with (promises resolve; the queue of `background.ts` starts its tasks). Nothing is assumed of
failures and crashes: what a deletion that failed, or that was in memory at a stop, has left
is not collected again, and Collected excepts it (`forgotten`).

The other modules state safety only, which no fairness affects.

## 5. The proofs

### The event stream

`FirehoseProofs` proves, for any sets of accounts and subscribers, any page, poll and
buffer size greater than zero (`SizesAssumption`) and any bound on events:

* `TypeCorrect`: `Spec => []TypeOK`;
* `NothingLostInvariant`: `Spec => []NothingLost`;
* `HandOverLosesNothing`: `Spec => []OnItsWay`;
* `CutoverLeavesNoGap`: `Spec => []CutoverCovers`.

OnItsWay is not inductive. That a row is in the out buffer at the time of streaming
depends on the merge, the merge on what listener and query had, and that on the poller
emitting in order. `NothingLost` says all of it:

* `PolledClosed`: a batch leaves out no row between the poller and its end. It needs
  `FirstRowsClosed`, about the first `n` of a finite set;
* `OutboxShape`: in which phase which buffer is empty, and where the client is then;
* `PendingClosed`, `OutClosed`: the buffers are closed upwards to the poller: what
  follows an event of the buffer, up to the poller, is in it. This is the strengthening
  that is easily missed: a row that is deleted or sent may leave, a row that is between
  two others may not be absent;
* `CutoverHolds`, `StreamHolds`: the two properties.

The proof goes action by action, in groups: those of the table only take rows away or add
one past the poller (`TableNothingLost`); `PollQuery`, `PollEmit`; those of one outbox
disturb no other (`OthersUnchanged`, `OutboxFrame`), and those that leave the
buffers empty need the shape only (`QuietOutbox`); cutover, merge and pull have a lemma
each; a restart establishes the invariant anew.

### The sessions

`SessionsProofs` proves, for any number of requests of any kinds, any lifetime and grace
period greater than zero (`SessionsAssumption`):

* `TypeCorrect`: `Spec => []TypeOK`;
* `SessionsInv`: `Spec => []IInv`;
* `RefreshesAgree`: `Spec => []SameSuccessor`;
* `RevokedForGood`: `Spec => []RevocationHolds`;
* `SuccessorsLast`: `Spec => []SuccessorOutlives`.

A rotation acts on a row it read before others acted; so what is said of the table must
also be said of what each refresh holds, and `IInv` is the six parts of that:

* `Types`;
* `Links`: a successor, in a row or in a refresh's hands, was granted to its predecessor,
  or was drawn by this refresh and nobody else knows it; successors are later tokens, of
  the same session;
* `Kin`: the rows of a session agree on the password they are of and on the revocation they
  are after, and so does what a refresh has read of any of them, as long as one is left.
  This carries RevocationHolds through a rotation: its transaction requires that the row of
  the token is still there (`addRefreshGracePeriod`), hence is after the last revocation;
* `Times`: expiries lie at most a life, or a grace period, from now;
* `Order`: a predecessor expires no later than its successor, for each combination of a row
  that is there, one about to be changed and one about to be put: six inequalities. It
  carries SuccessorOutlives, and why tidying leaves no token without its successor;
* `Successors`: while nobody has logged out of the session, a token that is there has its
  successor there, and what it was granted is what its row says.

SameSuccessor alone is not inductive: that a refresh which found no successor grants the
same as another needs that the row, if there, names what was granted. After a logout it
is false (section 6), which the proof found: the instance had been too small.

Actions that put no row and have no refresh read anything need one argument, `Quiet`;
`GetTokenInv`, `TidyInv`, `StoreSessionInv` and `RotateInv` have their own.

### The promise to a consumer

The second part of `FirehoseProofs` proves `StreamKept`: `Spec => KeepsPromise`, that Firehose implements
EventStream, which has no buffers, pages or poller. Every step of an outbox is a step of
EventStream for its subscriber, or a stutter; a restart closes all connections; and the
one thing to show is that an event that is sent leaves out none that is there still.
NothingLost says that rows wait somewhere, not in which order they leave. `NoneSkipped`
(theorem `NoneSkippedInvariant`) says that:

* `FetchedClosed`: what a page or a cutover query found leaves out no row between the
  client and what it found;
* `PendingOrdered`, `OutOrdered`: no batch of a buffer holds an event ahead of a row that
  is in a later batch, or in none. Batches, not just buffers: of two batches the first
  is sent first. What a batch may repeat is told apart from what it may not leave out
  (`Reached`): that is the exception of FirehoseCursor, in the invariant.

### The writes

`RepoWriteProofs` proves all that `RepoWrite.cfg` checks, for any writers, keys, contents,
subjects and any bounds on requests, tries and faults: `TypeCorrect`, `EveryCommitSequenced`,
`SwapsHold`, `OneLikeLeft`, `SharedBlocksKept`, `OnlyFaultsLeavePhantoms` and the
refinement `WritesAreSerial`. The invariant is about a transaction between its read and
its commit:

* `Locked`: the write lock has a holder exactly while a transaction has written;
* `Snapshots`: what a transaction has computed is what its request makes of the store, *if*
  the store is still the one it read; who holds the lock has read the store that is
  there. So swaps, conflicts and duplicates that were looked for in the snapshot are right
  at the commit, which is what the three action properties say;
* `FreshRevs`, `OnFirehose`: a revision is given out once, so that an event says which
  commit it is of; the holder's event is the last one there is;
* the phantoms are counted: at most one for each fault, and one for the holder.

For the refinement, `feed` of SerialRepo is the subsequence of events that are committed.
`CommittedEvents` defines it by the ranks of their positions (`Nth`), since a subsequence
that the library defines recursively cannot be reasoned about here; that a commit appends
to it, and nothing else changes it, follows from the ranks.

### The accounts

`AccountsProofs` proves all that AccountLife checks, for any accounts, handles, set of
operations and bound: `TypeCorrect`, `StoresHaveAccounts`, `NothingInPieces`,
`DeletionsAreFinal`, `LastEventsTell` and `AnnouncedWasSo`. Its assumptions are that the
accounts that exist have different handles and that the operations are those of the table
`Script`. First the table is turned into a relation: `Succ` says which step may follow which
in an operation, `OnTrack` that what is left of a request is a tail of its script or a
clean-up; `Along` proves that a step leads to a successor. Then the invariant:

* `Typed`, `Saw`: what a request has in hand, and that it has seen what it is going to say
  (for AnnouncedWasTrue, whatever races);
* `Account(d)`: as long as no two requests for an account overlap, one is at work on it, with
  the clean-up it may have left, and `Facts` hold at the point where it is. They are in three
  parts, for what may have gone wrong before: `Buried` under failures and crashes (what a
  deletion has removed stays removed, and which operations an account that is gone
  admits), `Housed` under failures (who owns a store without an account, unless it is left as litter), `Orderly` without
  either (what the four places and the last events say at each step; what is owed);
* `Signed`: an event is of a request that has begun. Without it a deletion could find,
  and spare, an event that is signed with its number and is not its own.

An induction over the log is not needed: `LastOf` and `Spared` name the greatest index
of an event that qualifies, and what `Append` does to it is a lemma (`LastOf` and `Spared`
of the model are written so for this reason).

### The credentials

`CredentialsProofs` proves for OAuthStore and EmailTokens together, for any number of
requests: `TypeCorrect`, `CodesAndTokensTakenOnce`, `ReplaysRecognised`, `UsedTokensGone`,
`ConfirmedAddressesProven`. Each of the two parts of the invariant has to say what a
handler holds between its queries:

* `CodesOnce`: a code is with its authorization request, with one handler, or was taken;
* `RowsApart`, `RotatesCurrent`: rows share no id and no current refresh token, and who is
  about to rotate by the id of a token found the refresh token that is current under that
  id, because a rotation changes both;
* `TakenOut`: what is deleted before it takes effect is not in the table when it does;
* `Addressed`, `MailAddressed`: as long as no change of the address has raced with another
  request (`raced`), every token and every handler that relies on one is of the address
  of the account. That after a deletion nobody relies on any is part of it.

### The invite codes

`InvitesProofs` proves `TypeCorrect`, `UsesAreBounded` and `ExcessTold`, for any number of
requests, any interval, epoch and clock. That no code is used too often is an invariant by
itself, as the sign-up's transaction counts again. ExcessIsTold is not: `Excess` says that as
long as nobody was refused, the codes are no more than were earned and no more than five
are open, or somebody is about to count more than he has computed (`WillTell`). `Listing`
says what a listing knows at each step: its insertion is right for the codes it has read; if
others were inserted since, its count will tell. `Divides`, `EarnedGrows` and
`CouldCreateIsEarned` are about the integer division in calculateCodesToCreate.

### The blobs

`BlobsProofs` proves `TypeCorrect`, `BytesAreKept`, `TakenStaysAway`,
`ReferencedStaysPermanent` and `TetherStaysExact`, for any blobs, records, uploads and
bounds. The invariant:

* `Bytes`: what either view of a row stands for, of a blob that is not `spoiled`, is in one of
  the three places (`Held`); a stored file that is not whole is being written; and the
  background queue holds no deletion for a blob with a row;
* `Places`: for each blob that is not `stray`, the file is where the row says (`Placed`): the
  committed row until a takedown in progress has moved the file, the row of the transaction
  after that;
* `Sure`: a job that is past writing, and whose key is the row's, has left the blob somewhere;
* `Names`: a temporary key is of one content and of an upload that is past;
* `Running`: what the transaction has done to the tables: a takedown touches one row, a
  write none that is taken down; every reference in record_blob is permanent or has a
  job; and, as long as no commit names a record twice, references and record_blob agree
  but for what is still to be processed (`Promised`).

The first attempt failed, and rightly: a job that is left over from a failed transaction
could begin to write the file of a blob while a takedown of it was under way, or after it,
and TakenIsAway does not survive that. `OpenStored` now counts a blob that is taken down, in either
view, when such a job writes it among the stray ones; without it TLC
shows the violation with `MaxEvents = 5`. That bytes are kept is proved for these too, and
for blobs with a takedown that was rolled back after its rename: the two parts of the
invariant are separate for that. Which write of a record counts is `LastWrite`, by
its greatest position, for the same reason as `LastOf` of Accounts. `TetherStaysExact` has the hypothesis `"twice" \notin Kinds`; section 6
says why it is needed.

### The readers

`ReadersProofs` proves `TypeCorrect`, `ExportsWhole`, `PagesWhole` and `OwnWritesAreRead`, for
any repository, tables, revisions, limits and pages of any sizes. First the pages: `PageIs` says of any finite set of keys
that a page is empty only if nothing comes after the cursor, and that it has exactly what
comes after the old cursor and not after the new one; it needs that the keys are in a total
order (`Ordered`) and that an earlier row has a smaller rank (`Ranks`). Then the invariant:

* `BlocksKeepRev`: a block is in every commit since the revision that it is stored with. A commit
  that stored a block again under its new revision would break it, and with it exports
  since a revision;
* `Exporting`: a block of the root that was not deleted is known to the reader (`since`), was sent,
  or comes after the cursor. Commits add only blocks of later revisions, which come before
  a descending cursor, and never move one;
* `Marked`: a row that was there from the start and did not change is on no page if it comes after the
  cursor, and on one if not. It holds of each keyset in each direction (`PageMarks`),
  and for blobs because rows of one blob have one key (`KeysAre`).

A hash is the constant `TreeCid`: an injection from what the records say to cids that no
other block has. An instance names one; the proofs use only that cids are numbers.

ReadYourWrites speaks of the end of a request; `MergeInv` says what has to hold on the way:

* `Kept`, `LocalKept`: what was there when the request came and did not change is there still,
  and so is every row with a revision of that time. So the limit of getRecordsSinceRev, which
  takes the oldest first, is never used up by what is written meanwhile (`OldestTaken`);
* `Gathering`: until the answer is completed, all that is promised is in hand; if the request
  ends before that (no record, none as old as the revision, a failure), nothing is promised;
* `Placing`: while posts are looked at, one that is promised and may have a place is shown, or still
  to come, or was passed over for good: its parent is neither shown nor still to come. This
  needs the order in which they are looked at (`NextPostIs`): the post that was asked for
  first, and a parent before its replies.

That a merged feed is still a sequence of items, with one more, is a group of lemmas of its
own (`InsertedView`, `FeedInserted`, `ProfileUpdated`, `AnswersAreViews`). The proof of
`Placing` failed at first for a reply whose parent is updated during the request: the
parent's record then has a later revision, and comes after the reply. TLC shows it with
three posts and four revisions; the run has two and three. `Reaches` now asks for a
parent that was not changed (section 6).

### What the proofs assume, and what is not proved

The assumptions on constants are named (`…Assumption`) in the modules that declare them,
and TLC evaluates them on every run. `NoneAssumption` of several modules says that the
value for nothing is none of the values that it is compared with, as `null` is of no type it is a
default of.

Only model-checked: the liveness properties EventuallySent and Collected, since liveness under
fairness, and ENABLED, are out of the prover's reach. So are theorems that take an
operator as a parameter, hence induction over a predicate; where an induction was
needed (the least and the greatest index with a property), the set of counterexamples and
the well-foundedness of `<` on Nat serve. What a recursive function computes for every input
is not proved: of the one there is, the thread that the app view answers with
(`ThreadOf`), the proofs use only that it is a sequence of items.

## 6. What disagrees

Three runs end in a counterexample, because the code does other than a comment or a
test of it says (`findings` in `PROJECT.json`):

* `FirehoseCursor`/`OnlyAfterCursor`: an outbox that has yielded nothing compares with
  -1, not with its cursor, so events up to the cursor which the poller emits late are
  sent again, all of them. Hence `EventStream` lets a connection begin at an event that the
  consumer has had, and repeat what follows it.
* `AccountMove`/`DestroysOwnStore`: two creations that bring the same DID both pass the
  check for the store; the one that fails destroys the store of the other.
* `Access`/`CaseInsensitive`: the type of a header is looked for among the indices of the
  list of types, so that every request with a header is refused.

Further properties are stated next to the others, and are not run: what the code's
tests or comments say holds when requests come one at a time, or without a fault, but
not in general. They explain the conditions of the properties that are run:

| property | does not hold when | instead |
| --- | --- | --- |
| `RepoWrite!AllBlocksKept` | one commit deletes a record and leaves another that it names with the same contents (an update to what is there, a created record that is its own backlink conflict): the diff has the contents as gone, and `getDuplicateRecordCids` does not look at the paths the commit updates or deletes (`transactor.ts:130`). The block is deleted. | `BlocksKept`, of the others |
| `Accounts!DocOnlyIfRenamed` | a user asks for the handle of an account that is taken down, or an administrator renames an account that was deleted: the DID document is changed, then the rename fails | `Announced` |
| `Accounts!DeletionHasEvent` | two deletions of one account race: each deletes the event of the other | `DeletionFinal`, without overlaps |
| `Invites!FewOpen` | two listings race past the limit; one is refused, and its codes stay | `ExcessIsTold` |
| `Sessions!LogoutHolds` | a token is logged out while its predecessor is in its grace period, and the predecessor is used again: its rotation puts the row back | `SameSuccessor`, of sessions without a logout |
| `OAuthStore!RevokedIsGone` | a token is rotated between the look-up and the deletion of its revocation, which is by the old id | `ReplayRecognised` |
| `EmailTokens!SingleUse` | two requests have both checked one token before either deletes it | `UsedIsGone` |
| `EmailTokens!ConfirmedNeedsToken` | the address is confirmed between the check of an update and the update | `ConfirmedIsProven`, `raced` |
| `Credentials!TokensOfThisAccount` | an account with OAuth tokens is deleted and its DID returns: the rows are still there | – |
| `Blobs!MovedOnceReferenced` | an import refers to a blob that was uploaded before it | `TetheredPermanent`, of writes |
| `Blobs!CanFetch` | a blob is freed, uploaded and referred to again before the background queue deletes its file | `BytesKept`, `spoiled` |
| `Blobs!NotStoredIfFailed` | a commit fails after its file was moved | `BytesKept` |
| `Blobs!TakedownHolds` | the row of a blob that is taken down goes with its record: the next upload is served | `TakenIsAway`, of rows that are there |

To see one, name it in the configuration of its module (AccountLife, Invites, Sessions,
Credentials, Blobs; for TakedownHolds one blob and one record, writes and takedowns, and `MaxEvents = 4`).

Files follow no transaction, and three histories of Blobs collect what the code does not
make up for:

* `spoiled`, excepted from `BytesKept`: the blob was uploaded again while a deletion of it was
  queued; a takedown or its lifting renamed it while a left-over job wrote it; its
  `writeFile` failed or was cut off by a crash (the file is then there, and later calls take
  it for whole);
* `stray`, excepted from `TakenIsAway`, and from BytesKept as to where the file is, not
  whether its bytes are left: a takedown, or its lifting, failed or was cut off after its
  rename (`blob/transactor.ts:173`: the row is rolled back, the rename is not); or a job of a
  failed transaction came late and wrote the file when it was taken down;
* `forgotten`, excepted from `Collected`: a deletion failed (`blob/transactor.ts:238`: it is
  logged) or was in the queue at a crash; a transaction that stored a file for a new row
  was rolled back; a job of a failed transaction wrote the file when the row was gone;
  the lifting of a takedown put back a file whose row had gone (`disk-blobstore.ts:126`).

What the runs leave out because it does not hold. `TetherExact` is of commits that name a
record once, unless `Kinds` of Blobs.cfg has "twice" added: one that creates and deletes a record leaves its
reference to the blob, and the blob.
`ReadYourWrites` leaves out: a post that was updated or made again is twice in a merged feed;
of more newer records than the limit the newest are dropped, and with no record older than
what the app view has seen nothing is merged, nor when the look-up of an embed fails; an
unseen post older than the last item of a full feed is dropped; a reply is dropped if its
parent was not seen either and is updated before the records are read, as it then comes
after the reply; posts of the account that are taken down are merged. `ExportLosesNothing` leaves out blocks that a commit removes during
the export: they may lack, and a block that is removed and comes back is missed.
`PagesMissNothing` leaves out codes that are used while they are listed by use. A reader
between the check of the status and the read is served after a takedown.

Also seen while reading, and not modelled: the column `invalidated` is never set;
`importRepo` stores the removed blocks of the diff without `getDuplicateRecordCids`, so
BlocksKept is about writes; where a commit names a path twice, the `prev` of each of its ops is
what the path had before the commit, so that they undo it together, not one by
one; the formatting of embedded records in `read-after-write/viewer.ts:237` uses a name that
is not imported, and so fails, which the model has as a look-up that may fail; the root in the account database is written after the
commit and a failure of it is only logged.

## 7. The plan

Done: Firehose and RepoWrite with their abstract specifications, Accounts, Sessions,
Invites, Blobs, Credentials and Readers, with their proofs; Access. Left, in this order:

1. `Recovery`: the recoverer of `scripts/sequencer-recovery` replays the firehose with a
   queue per account; an abstract specification says that a store is what its events
   say.
2. The DID cache (a stale entry refreshed in the background), crawlers and preferences.
3. Of what is modelled partly: reserved keys, the devices and authorized clients of OAuth.

Not to be modelled: what is a function of its input (handles, formats, image URLs, the
validity of a mail address), what is plain I/O (mail, proxied streams, configuration), the
entryway, a second server whose code is elsewhere, and the libraries (`@atproto/repo`,
the OAuth provider, SQLite, JWT and DPoP), which the modules take as the code uses them.

## 8. Running

    tlc -workers 2 -config Firehose.cfg MCFirehose
    tlapm FirehoseProofs.tla

and so on for the other runs and the other modules `…Proofs`.
Each run takes a minute or two, the proofs of each module a few minutes.
