# A TLA+ model of email-archiver

email-archiver copies mailboxes from source IMAP servers (or Google Workspace)
into an archive: message bytes and manifests in an S3 bucket, an index in
PostgreSQL. It serves the archive read-only over IMAP and through a web client.
This directory holds TLA+ modules that model the parts of it where order,
concurrency and failure matter, the TLC runs that check them, and theorems that
TLAPS proves about them. Paths below are relative to the repository's `src/`
(the Rust sources) unless they say otherwise.

## The system

### Components, state, operations

| component | state | operations | model |
|---|---|---|---|
| index transactions, `db.rs` | tables `folders` (`uidnext`, `source_uidvalidity`, `last_source_uid`), `messages` (one row per hash and user), `placements` (folder, UID, message, `source_uid`, `seen`) | `upsert_message`, `place_message`, `repoint_placement`, `drop_empty_message_if_unused`, `Scope` | `Placements`, refines `UidLog` |
| ingest of a folder, `ingest.rs` | watermark and UIDVALIDITY per folder; per pass the UIDs to fetch, the batch, its `store_message` tasks | EXAMINE, `folder_for_ingest`, UID SEARCH, held filter, UID FETCH, `store_message`, `advance_source_uid` | `Ingest` |
| refresh scheduler, `ingest.rs` | tick, the accounts and folders a sweep has left, attempts, the session | `scheduler`, `refresh`, `run_sweep`, `connect` | `Sweeps`, in `Serve` |
| repair, `repair.rs` | its list of gaps | list, `refetch`, repoint, final delete | index side in `Placements`, with the bucket in `Maintenance` |
| bucket store, `store.rs` | objects by key: `messages/<hash>`, `manifest/<account>/<folder>/<uid>` | put, get with hash check, list, list versions, delete | puts in `Ingest`, versions in `Maintenance` |
| check and rebuild, `check.rs` | none of its own | compare counts, purge and rewrite manifests, backfill headers | `Maintenance`; the backfill in `ImapSession` |
| IMAP server, `server.rs`, `naming.rs` | per connection: user, selected folder | LOGIN, LIST, SELECT, FETCH, UID FETCH, LOGOUT | `ImapSession`, `Naming` |
| web API, `web.rs` | none; cursors live in the client | folders, pages of a folder, search, message, read state | pages and search in `Paging`, read state in `Maintenance` and `Shell`, message in `Shell` |
| web sessions, `session.rs`, `ratelimit.rs`, `web.rs` | signed cookie; failures per login and per address in a window | `login`, `logout`, `whoami`, issue, verify, record, block, clear | `WebSessions` |
| users and logins, `db.rs`, commands in `main.rs` | `users`, `user_logins` | add-user, rename-user, alias, remove-alias, set-password | `Logins` |
| accounts and credentials, `db.rs` | `accounts`, `google_domains` | follow, set-source, set-google, `source_for_address` | the operator of `Sweeps` |
| certificates, `tls.rs`, `listen.rs` | acceptor and the timestamp it was read at | `new`, `acceptor` | `CertReloader`, in `Serve` |
| web client, `web-ui/` | session, open nodes, selection, query, pages loaded so far, next cursor, opened message and its images | sign in and out, load, load more, search, open, read | the lists in `Paging`, the panes in `Shell`, the tabs in `WebSessions` |
| Google token requests, MIME, sanitising, config, diagnose, probe | – | – | not modelled, see below |

### How they interact

A pass of `ingest_folder` reads the source over one IMAP session. The bodies of
a batch are stored concurrently (`buffer_unordered`): each `store_message` puts
the blob, then commits the message row and its placement in one transaction,
then puts the manifest. When all of them are done the watermark of the folder
is raised to the highest UID of the batch. The scheduler runs passes one after
the other inside the service, but `email ingest`, `email refresh` and `email
repair` are separate processes on the same database and bucket. Readers (IMAP,
web) see what is committed and fetch bodies from the bucket by hash.

The web client talks to the handlers of `web.rs` over HTTP, a request at a
time from each thing that can be clicked; its answers may be lost, late, or
overtaken by the next click. The operator's commands (logins, accounts,
credentials, following) write tables which the service reads whenever it needs
them. certbot writes the certificate's two files, which each connection looks at.

Between components there is nothing but these stores, files and requests, so
what is hard is what one writer may do between two steps of another.

### What is hard here

* store tasks, overlapping passes and repair in one another's way: UIDs handed
  out twice or lost, lock cycles, a row deleted under a reference;
* interruption between blob, commit, manifest and watermark, and retries of
  steps that did go through;
* the watermark and the set of held UIDs, which decide together what is never
  asked for again, under batches, expunges, renumbering and stale passes;
* failed fetches, which must not stop the folder and must stay findable;
* one loop that serves every account and must outlive any of them, whatever
  the operator changes under it;
* a certificate renewed in two files while connections are accepted;
* sign-ins, sign-outs and session checks of several tabs that overtake one
  another, and logins that change hands between two awaits of a handler;
* a client that shows things before the server has heard of them, and asks for
  something else before the answer has come.

`PROJECT.json` lists each of these at its line, with the property that covers
it or the reason why none does.

### What makes each component correct

* index: UIDs gapless and never reissued, one placement per message and folder,
  every placement has its message, no lock cycle, source UIDs kept;
* ingest: every row backed by the bucket, no message skipped, watermark
  monotone but for a late reset, every message eventually archived or recorded as a gap;
* scheduler: every folder of every working account is swept again and again;
* repair: fills gaps and touches nothing else; rebuild: what it writes
  reproduces the index;
* readers: sequence numbers and cursors address what the client means, pages
  neither repeat nor skip;
* logins: every user has one canonical address, whatever commands meet;
* sessions: whoever has one gave that user's password, a sign-out lasts, the
  limiter overshoots by what is under way at most and lets in again;
* certificates: what is served is what is on disk, or the next connection
  notices; every renewal is served in the end;
* client: the pane shows what is open, and its images only when asked for; a
  badge conceals no unread message; a grey row is read or known to the server.

## The modules

### UidLog

The abstract specification of what a folder promises its clients: entries
numbered from 1, appended one at a time, never removed, never twice for one
message. Only the message of a gap (the empty message) may be replaced.

### Placements (`db.rs`, with the callers in `ingest.rs` and `repair.rs`)

One action per SQL statement under READ COMMITTED. `uidnext`, `placed` and
`messages` are the committed tables; what a transaction has done so far is its
program counter `pc`, its `job` and the UID it `claimed`. Row locks are derived
from these: the upsert holds its message row (`HoldsMessage`), the UPDATE of
`uidnext` its folder row (`HoldsFolder`), the UPDATE of a placement its row
(`HoldsPlacement`). A statement runs when no other transaction holds the row it
needs. `Commit` publishes, `Abort` rolls back and may happen at any statement,
which also stands for a crash. `repair` is a process of its own whose list
`gaps` is read once. The state starts from placements made before
`source_uid` existed (migration 0002), given by the constants `Legacy` and
`LegacyNext`.

Correspondence worth knowing: `Lookup` is not locked and reads committed rows;
what makes it safe is that the message row is locked by then, which is what
the mutant `HoldsInsertedMessage` (`DO NOTHING` instead of `DO UPDATE`) takes
away. `Drop` first evaluates its NOT EXISTS on a snapshot (`BeginDrop`), then
waits for the row lock, then the foreign key is checked.

### Ingest (`ingest.rs`, `db.rs`, `store.rs`)

The whole pipeline of one folder, from the source mailbox to the stores. Every
`await` that reads or changes shared state is an action; the transaction of
`store_message` is one step (`CommitRows`), justified by `Placements`. A placement's
archive UID is its index in `list`, which is what gapless UIDs amount to. The source
may deliver, expunge, or change its UIDVALIDITY at any time. `folder_for_ingest` is
a SELECT without a lock (`ReadFolder`) and what is decided on it: the UPDATE that
resets the watermark (`ResetFolder`), or the INSERT (`CreateFolder`), which `UNIQUE
(account_id, name)` refuses if another pass was first (`CreateRefused`). In between
other passes move, so a reset may come after another pass has made the same reset
and gone on (`Late`). Failures are of four kinds, chosen per run by the constant
`Faults`: `retry` (a step failed, or succeeded and was reported failed), `abandon`
(the pass ends: lost connection, attempts used up, process killed), `short` (a body
comes cut off), `omit` (a FETCH item without UID or body, which the code drops
before it stores anything). `Undeliverable` messages always come short. A short body
is kept as the empty message if the server declared a length, and as what has come
(`Scraps`) if it did not.

With `ByIdentity` the folder is a Gmail account's All Mail. `elsewhere` is what the
account's other folders hold, and `Identify` leaves out what is known by its
Message-ID (`Twins` share one). Reading the known IDs and asking for the envelopes
is one step that may drop any part of what is known by then: what became known in
between, is not answered or has no Message-ID is kept, as in the code. `Archived`
is then the weaker promise that the account has the message or a twin of it.
`ImplementsUidLog` maps the folder's `list` to `UidLog`.

Three history variables, which properties use and no guard does, say what may not
be expected: `cut` and `omitted`, the source UIDs whose body came short, or not at
all, under the current UIDVALIDITY; and `taken`, the source UIDs that were in use
when the UIDVALIDITY last changed, because a placement had them or a batch was at
them or beyond (`InUse`).

### Sweeps (`ingest.rs`, `db.rs`)

The scheduler loop: `sleep`, then for each followed account the steps of
`connect`, LIST, and each folder with up to `MaxAttempts` attempts and a
reconnect in between. A step of the network is answered, fails, or falls
silent; `Deadlines` names the steps that have a timeout in the code (TCP, TLS,
authentication). `Dead` accounts may fail at any step, others at most
`MaxFaults` times; `Broken` folders never go through.

What a sweep has left are the sets `accounts` and `folders`; `First` takes them
in the order they are swept. Meanwhile the operator follows and unfollows
(`SetFollow`), stores new credentials (`SetSource`), and a source may stop taking
the stored ones (`Revoke`): `valid` says whether it takes those in the table,
`held` whether it takes those the sweep resolved, which `Resolve` reads again
before each connection and which outlive a failed refresh. If the accounts cannot be
read at all (`WakeInVain`), that tick sweeps nothing.

### CertReloader (`tls.rs`) and Serve (`main.rs`, `server.rs`)

`CertReloader` has `new` as three actions (certificate, key, modification time)
and `acceptor` as three others (modification time first, then certificate, then
key), beside a certbot that truncates and writes each of the two files. The mutex
makes at most one call of `acceptor` be under way. A modification time is the
number of writes so far. `raced` (history) is that the certificate was replaced
after `new` read it and before it took the time.

`Serve` puts the two into one process, as `serve --refresh` does: the scheduler
runs while the listener is up, a restart ends both at any step and the
scheduler begins its first sleep anew, and a certificate that cannot be used
keeps both down.

### Logins (`db.rs`, `main.rs`) and WebSessions (`web.rs`, `session.rs`, `ratelimit.rs`, `web-ui/`)

`Logins` has the tables `users` and `user_logins` and the operator's commands. A
command that is one statement, or a transaction that stands or falls with its last
one, is an action; `alias` and `remove-alias` are a lookup and a write without a
transaction, so each is two, and the process may be interrupted in between. What is
refused (a login that is taken, a second canonical address, removing a canonical
one) is not enabled, or leaves the tables as they are. Two history variables name
the users without a canonical address: `nameless` and `overtaken`.

`WebSessions` extends it by the tabs of one browser. A request of a tab goes
through the stages `login` (limiter), `checked` (`authenticate`), `verified`
(record or clear), `identify` (`user_by_id`), or `session` (`whoami`), or
`logout`; its answer waits in `Answers` until the browser receives it, sets or
clears the cookie and tells the app. `Lose` is a lost request or answer or a
failing database, `Restart` empties the limiter, `Expire` ends a cookie. Time is
abstract: `Forget` takes a failure out of its window at any moment.
`proved` (history) are the users whose password was given; `ended` (history) is
that a sign-out was answered while nothing else could bring a session.

### Shell (`web-ui/src/main.rs`, `web.rs`)

The three panes. A folder is its path; `Nodes` is what `build_tree` makes of all
paths, `OnScreen` what is visible with the nodes in `expanded` open, `Counted`
the folders a badge adds up. `list` is the component mounted in the middle pane:
remounting, which the keys `folder.id` and `query-scope` bring about, starts it
anew. `fetch`, `shown`, `remote` and `html` are the signals of the Reader and the
view in it; `Read` mounts another Reader only for another message. `marks` are
`set_seen` requests under way, `failed` (history) the places for which one was lost.
`consent` (history) is the message "Load images" was pressed for since it was
opened. Searching while a folder is selected, selecting a folder while a search is
shown, and changing the scope of a search are as in the code, where only some
of them close the message.

### Maintenance (`check.rs`, with `ingest.rs`, `repair.rs`, `web.rs`, `store.rs`)

The commands an operator runs while the service goes on, and the manifests they
all leave together. One folder is enough: a manifest's key contains folder and
UID. The bucket keeps versions, so `versions` is a set of (UID, number,
contents): `Put` adds the next number, `Purge` removes one version for good,
`Shown` is the newest. `rebuild_manifests` first lists every version, deletes
each, and only then reads the rows and writes a manifest for each; ingest goes
on throughout. `check::run --deep` takes its four counts one after the other
and then reads every message's blob; `Verify` says what it prints. Both are
processes of their own beside one `store_message` per source UID, one repair
and the read state of the web API.

At the start some blobs may have been lost since they were put, and the rows of
`Legacy` have the manifests a rebuild gave them. Two history variables say what
a property may not expect: `owed`, the UIDs for which a process died before it
wrote the manifest, and `alone`, that nothing else wrote while the rebuild, or
the check, was under way.

### Paging (`web.rs`, `db.rs`, `web-ui/`)

The client's list, the handler and the query behind it, for a folder
(`MessageList`, `messages`, `messages_page`) and a search (`SearchResults`,
`search`), which are built alike: `Listed` says what the view covers,
`Candidates` what is below the cursor, `Answers` which rows are sent and with
which cursor. Rows that tie come in an order PostgreSQL chooses. A request is
sent, answered from one snapshot and received, or fails at any point; `Mount`
is the remount under another key, which drops what is on its way. Meanwhile
`Arrive` and `Repoint` change the folder, and a repair changes a row's date.

A date is its milliseconds and the microseconds beside them, because the cursor
keeps only the former. A row on the screen knows its place, the key it was sorted
by and the number of its page; `there` and `moved` (history) are the places the
first page was chosen from and those repaired since.

### Naming and ImapSession (`naming.rs`, `server.rs`)

`Naming` has the translation of a folder's name from its source's delimiter to
ours and back. `ImapSession` is one connection of the server with the client
behind it. Connections share only the database, which the module extends from
`UidLog`: `Arrive` is a `Deliver`, `Repair` a `Fill`, each with the header cache
(`cached`) of `messages.headers`; `Backfill` and `SetDelimiter` are the other
writes the server can notice. What `Placements` shows to be a `Deliver` or a
`Fill` is all this module knows of ingest.

A SELECT is two actions, because `folder_meta` reads `uidnext` and counts in two
statements with a snapshot each: `Select` leaves `pending`, `Count` answers.
INBOX selects nothing; a SELECT that fails leaves the server's selection as it
was, and the client believes none. A FETCH reads its rows in one snapshot
(`Wanted`), numbers them by their order, takes the number of rows for `*`, and
decides once for the command whether it needs objects (`NeedsObject`) and per
row whether the cached header will do (`Response`). Responses wait in `queue`
until the client receives them; `Close`, at any time, is LOGOUT, a lost
connection or an error of the database or the bucket. Items are grouped by what
they are made of; ENVELOPE, BODYSTRUCTURE and parts of a message are those that
`build_item` leaves out.

The client keeps what it received of a folder across connections (`mirror`) and
brings it up to date with `UID FETCH n:*`, n being the first UID it does not hold.
`due` (history) is what was there when it last asked. How the IMAP library reads
a range that runs backwards, as `9:*` does in a folder of 8, is the constant
`Backwards`; the proofs hold for both.

### MC modules

`MCPlacements`, `MCIngest`, `MCServe`, `MCMaintenance`, `MCPaging`,
`MCImapSession`, `MCWebSessions` and `MCShell` give the constants their values
for TLC and define symmetry (interchangeable passes or tasks; not in the liveness
runs). Four of them restrict the interleavings that a run looks at, see the
bounds below; the proofs are of the unrestricted specifications.

## The runs

| run | shows | bounds |
|---|---|---|
| `placements` | all properties of `Placements`, and that it refines `UidLog` | 2 tasks and repair, 2 folders, 1 message besides the empty one, a legacy row; stores begin up to UID `MaxUid` |
| `ingest` | `TypeOK`, `IndexBacked`, `NeverSkipped`, `WatermarkForward` | All Mail, 2 passes, 2 interchangeable messages, batches of 1, 2 UIDs, 2 UIDVALIDITYs, 1 failure of any kind (a retry, an abandoned pass, a body that comes short or not at all) |
| `ingest_live` | `EventuallyArchived` | All Mail, 1 pass, batches of 2, 3 UIDs, 1 failure (a body cut off without a declared length is one); one message comes short every time, its twin may be archived in another folder |
| `serve` | `SweepEnds`, `StampHonest`, `EveryFolderSwept`, `RenewalNoticed` | 2 accounts (one dead, behind it one with three folders, the last of them broken), 3 attempts, 2 faults, silence where there is a deadline, 2 renewals, 1 restart |
| `maintenance` | `ManifestsKept`, `RebuildReproduces`, `VerdictTrue`, and that the folder refines `UidLog` | a placement without source UID and one message that comes in (the same, another or the empty one), repair, read state, a rebuild and a check that begin again and again, 1 crash, any blobs lost at the start |
| `paging` | `TypeOK`, `NothingTwice`, `NewestFirst`, `ReachesAll`, `MoreComes` | 2 folders of up to 3 placements, pages of 1 row, 4 requests per list, 3 messages, two of one date, the third within a millisecond of the gaps |
| `imap` | `SelectionAgrees`, `ExistsCovers`, `SequenceHolds`, `NoHoles`, `NothingMissed`, `NeverWrong`, `ListedOpens` | 2 users with an account of the same label, a folder each of up to 2 entries (one starts with a gap), 2 messages, all ranges up to 2 and `*`, four sets of items |
| `access` | `Addressable`, `FailuresBounded`, `SessionsEarned`, `SignedOutStays`, `BlockEnds`, `BlockFades` | 2 tabs, 2 users of whom one is there, 3 addresses, 1 command process, 3 changes of the tables, 2 failures to be blocked |
| `reader` | `TypeOK`, `NothingConcealed`, `ReaderShows`, `GreyHonest` | a folder that has one message twice and a folder under it, a node that is none; 2 searches, 1 request per place under way |
| `uidvalidity` | violated: a rescan after a UIDVALIDITY change skips messages | 1 or 2 messages, 2 UIDVALIDITYs |
| `gaps` | violated: a second failed fetch leaves no gap of its own | 1 pass, batch of 2 |
| `consistent` | violated: after a repair the check finds consistent what a rebuild of the index would get wrong | as `maintenance` |

Why the bounds are enough. In `placements` every conflict is between two
transactions about one row, and the third process (repair) is there as well; two
tasks meet on one message and one folder, on one message in turn, and with repair on
the empty message. The proofs cover every other size. In `ingest` two passes overlap
in every way two sweeps can; a batch of one makes the second UID a second batch, so
the watermark is raised twice, while `ingest_live` has batches with more than one
task. Every behaviour of an ordinary folder is one of All Mail in which `Identify`
drops nothing, and with `Twins` empty `Archived` asks of either that the account has
the message itself; the proofs are for both. A body cut off without a declared
length (`Scraps`) comes in `ingest_live` only: to a pass it is one more message, and
the proofs have it. `FewAtOnce` keeps what multiplies the states apart: other
folders receive messages while nothing fails, and they do, and bodies come short or
not at all, under the first UIDVALIDITY only; the proofs leave nothing out.
`MaxSourceUid` and `MaxValidity` bound the source's counters, `MaxFaults` the
failures. In `serve` the account under test stands behind a dead one and its good
folders in front of a broken one; a certificate is renewed and loaded while the
scheduler sleeps (`Asleep`), because the two share nothing but the restart; an
account without INBOX, which a quick sweep passes over, is left to the proofs. In
`maintenance` one incoming message meets the rebuild at each of its steps, as a new
placement or as one that the rebuild rewrites; `MaxVersions` is 3 and TLC never
needs more than the two a rewrite over an ingest's manifest makes; the proofs hold
for every bound. In `paging` pages of one row put a page boundary between any two
rows, and four requests leave one to fail; a row and a gap share a millisecond, so a
page does end inside one, in the folders and in the search, and the gaps of two
folders share a date and a UID. Without the exception `PassedOver`, TLC finds
`ReachesAll` violated in both and `MoreComes` in a folder. Page size and folder size
are free in the proofs. In `imap` a second entry can arrive at each step of a SELECT
or between two commands, and the two users' folders have the same label, one with a
delimiter that is translated and one without; names are sequences of one-letter
parts. More entries, users and names are the proofs'. In `access` the limiter's
counters and the tables of the logins have nothing to do with each other, so changes
to both at once are left out (`Apart`); beside a change of the tables one tab is
busy at a time, which is every interleaving of one request with the commands. Two
tabs are what it takes for attempts under way together and for an answer that
overtakes a sign-out. In `reader` at most one request to mark a message is lost
(`OneLost`); a message twice in a folder is what tells places from messages, and a
node without a folder, a folder with a child and a leaf are what the tree has.

### Fairness

`Ingest!FairSpec` has weak fairness of each pass's own steps: the loop has no exit
but those modelled, each await is answered or fails, and the scheduler begins
another pass for ever. Arrivals, expunges and failures have no fairness; failures
are finitely many. `Serve!Fairness` is weak fairness of the scheduler's next step,
of the reloader's and of certbot's: the loop is sequential, so the only thing that
can happen next happens, unless the server is silent at a step without a deadline,
where no action is enabled and none is assumed; connections keep coming, and each
looks at the certificate; the process is started again when it ends; certbot
finishes what it began. The operator and the sources are not fair:
`EveryFolderSwept` says nothing of an account that is unfollowed, or whose
credentials are refused, again and again. `WebSessions!TimePasses` is weak fairness
of each key's window moving on, and nothing else; nobody has to try, answer or sign
out.

## What is proved

`PlacementsProofs`, `IngestProofs`, `MaintenanceProofs`, `PagingProofs`,
`ImapProofs`, `WebSessionsProofs`, `ServeProofs` and `ShellProofs` are checked by
TLAPS for every value of the constants that satisfies the named assumptions
(`ConstantsAssumption`, `LegacyAssumption`, `IngestAssumption`,
`MaintenanceAssumption`, `PagingAssumption`, `NamingAssumption`,
`ImapAssumption`, `LoginsAssumption`, `SessionsAssumption`, `SweepsAssumption`,
`RenewalsAssumption`, `RestartsAssumption`, `ShellAssumption`): any number of
tasks, passes, folders and messages, any batch size, any number of faults, tabs,
logins, accounts, renewals and folders of any depth. Type correctness is proved
of each; for `Placements`, `ImapSession`, `Maintenance`, `WebSessions` and `Serve`
the runs do not repeat it.

*Placements.* The invariant `IndInv` adds to the types and the three safety
properties: `ClaimsAreNext` (a claimed UID is still the folder's next, and at most
one transaction holds a claim per folder – so what commits extends the folder by
exactly one), `OneHolder` (one transaction per message row – so nothing places a
message between another's lookup and its insert), `NewIsAbsent` (what a task is
about to insert is not there), `JobsFit` (which statements a process gets to), and
`GapsAreEmpty` (what repair has listed, or is about to repoint, still is a gap –
because only repair repoints). From it follow `Gapless`, `NothingEverDangles`,
`SourceUidsKept` (an action property), `DeadlockFree` – a set that waited on itself
would contain a transaction that holds a folder row and waits, and there is none –
and `Refinement`: each commit is a `Deliver`, a `Fill` or a stutter of `UidLog`,
every other step a stutter. `UidsAreForGood` draws from it what an IMAP client
relies on: an entry it has seen is there for good, under its UID and with its
message unless it was a gap, and one it has not seen comes under the UID that was
announced as the next.

*Ingest.* `TypeCorrect`; `Backed`, from `TasksBacked` (a task past a stage finds
what that stage wrote); `WatermarkKept`, that the watermark goes back within one
UIDVALIDITY only to the start and only in a late reset, which is why
`folder_for_ingest` stands in it as two steps; `WatermarkNeverBack`, that without a
second pass it never does (`ResumeCases`: who writes the watermark, and what it has
read); `Refinement` (the folder implements `UidLog`, as `Placements` does statement
by statement, so what the pages and the IMAP sessions rest on is proved of the
pipeline); and `NothingSkipped`, for all faults and any number of changes of
UIDVALIDITY: what no later pass will ask for, because it is behind the watermark or
its UID is held, is accounted for. Three exceptions are named: the message came
short and is a gap or a scrap (`cut`), its item had no body (`omitted`), or its UID
was in use when the UIDVALIDITY last changed (`taken`). Its invariant `SkipInv` says
that everything behind the watermark, or behind the copy of it a pass has read, is
taken care of (`BehindIsSafe`), that rows and tasks hold what belongs to their UID
(`RowsRight`), that a pass leaves out no UID below one it still has to fetch
(`TodoIsAll`), and that a batch begun under an older UIDVALIDITY touches only UIDs
that are taken (`StaleIsTaken`). A pass with a stale copy of the watermark is
harmless because the copy was safe when it was read and the archive only grows; what
`Identify` drops is `Safe` for the same reason, because a Message-ID once known
stays known. A change of UIDVALIDITY (`RenumberStep`) makes everything that rows and
batches hold `taken` at once, while the watermark and the passes that could raise it
belong to a UIDVALIDITY that is no more; so the invariant starts over, which is why
it needs no assumption on when changes come. That the exception `taken` is not too
wide is what `uidvalidity` shows: within it messages are skipped.

*Maintenance.* `KeepsManifests`, `Reproduces`, `VerdictsTrue` and `Refinement`,
each for every number of placements, messages and crashes. None of the first three
is inductive. `ManifestsKept` speaks of the time after a rebuild; what holds
during one is `Covered` (a placement without manifest is one the rebuild has
yet to write, or one whose `store_message` is) and `RowsRead` (the rows read are
no more than there are: a placement that came later has a writer of its own).
`RebuildReproduces` needs `Reproduced`, what has been written so far;
`VerdictTrue` needs `Counted`, what each count still says, and the fact that
there is no manifest without a row (`HaveRows`), which makes two equal numbers
mean two equal sets. `Refinement` shows the folder to implement `UidLog` beside all
commands; it needs `RepairsGap`: between the two steps of a repair the placement
it is about to fill stays a gap, so the second step is a `Fill`.

*Paging.* `ShownOnce` and `ShownInOrder` hold for every view and any dates:
everything shown lies at or above the cursor (`CursorsBehind`), what comes next
strictly below it, and what a row says of a place is still so unless it was
repaired (`RowsTruthful`). `Complete` and `OfferKept` hold for every view and any
dates as well. The cursor keeps milliseconds, and in a search it is no key, so
both name what it passes over (`PassedOver`): a row that does not come before the
last row of some page, nor after the cursor made of it. Whatever else was there is
shown, in the answer under way or below the cursor (`NothingLost`), and a cursor
has something below it or has passed something over (`MoreIsThere`); `CompleteInv`
is their inductive conjunction.

*IMAP.* All seven properties. The server says nothing of arrivals and numbers
rows anew in each command; that this is harmless rests on one lemma,
`PositionIsUid`: in a folder whose UIDs are 1 to n (`Numbered`, which is what
`Gapless` proves of the transactions) a row's position is its UID and the number
of rows is the highest UID. It makes sequence numbers last, EXISTS cover UIDNEXT
(`ViewFits`) and `*` mean what it should. `HoldsWithoutHoles` needs
`MirrorFits` (what is held is an initial segment) and `SyncFits` (below each
response of a sync everything is held or on its way). `NamesOpen` is
arithmetic on sequences: a label has no delimiter, so the first one in a name
ends it (`SplitsAtLabel`), and a translation that may be undone is
(`RoundTrip`).

*Logins and sessions.* `UsersAddressable`, `LoginsNeverMove`, `LimiterBounded`,
`SessionsAreEarned` and `SignOutLasts`. `Addressable` needs `CommandsHonest`: what
a process looked up was so once, and no canonical row is to be removed – that it
may have become one since is what `overtaken` is for. `FailuresBounded` is not
inductive; `FailuresAhead` is: the failures of a key together with the attempts
that have passed its check stay under the bound, because a check lets through
only what is below the limit, and there are at most as many attempts as
tabs. The same lemma (`AheadStep`: only an attempt that is let through adds to
what is against a key, and none is let through while the key is blocked) gives
`BlocksFade`, an action property: while a key is blocked, failures and attempts
under way together never increase, so with the window moving on the block ends.
`SignedOutStays` needs `NothingComes` (after such a sign-out what is on
its way has no token) and `InIsQuiet` (a tab that shows the archive asks for
nothing but to be signed out).

*Serve.* `TypeCorrect`, which includes that no folder is attempted more than
`MaxAttempts` times, from `LoopInv` (what the loop has left where it stands, and
that a reconnect has an attempt to spend); and `StampIsHonest`, from
`ReadWhole`, `NoneAhead` and `ReadPresent`: the time was read before the file, so
if it is still the file's time the file has not changed since. `SweepsEnd` is the
part of `EveryFolderSwept` that needs no fairness: every step of a sweep lowers a
lexicographic measure of accounts, folders, attempts and stages (`Advances`), so no
order of errors, rejections and timeouts keeps the loop in one sweep for ever. Only a
server's silence lowers nothing but the last component, and where there is no
deadline nothing follows it.

*Shell.* `ReaderIsHonest`, from `RequestHonest` (the request that is awaited is
for the message that is open, and so is the consent); `GreyIsHonest`; and
`NothingIsConcealed`, for trees of any shape: of the nodes on the way to a folder the
least one that is not open, or the folder itself, is on the screen and counts it,
and no other node does.

Only model-checked: liveness (`EventuallyArchived`, `EveryFolderSwept`,
`RenewalNoticed`, `BlockEnds`), which the prover cannot do. Of two of them the
safety half is proved: `SweepsEnd` says that a sweep has only so many steps, and
`BlocksFade` that nothing done during a block prolongs it. The violated
properties are shown by their counterexamples.

## Where code and documentation differ

1. *UIDVALIDITY* (`uidvalidity`). `folder_for_ingest` resets the watermark and
   says the folder is rescanned from the start, but the held filter
   (`archived_source_uids`) does not know under which UIDVALIDITY a UID was
   recorded: new messages at old UIDs are taken for held. A pass that started
   before the change can also raise the reset watermark. `NeverSkipped`
   therefore leaves out the UIDs that were in use when the UIDVALIDITY last changed
   (`taken`); of all others it is proved.
2. *Gaps* (`gaps`). Two failed fetches in one folder are one placement, so
   `repair` is told of the first UID only.
3. *Check* (`consistent`). `repair` gives a placement its message and leaves the
   manifest with the hash of no bytes. The check compares how many manifests
   there are, not what they say, and calls the archive consistent, although the
   index can no longer be derived from the bucket.

Others, met while modelling, have no run of their own:

* The greeting, LIST, EXAMINE, SEARCH, FETCH, LOGOUT and the token request have no
  deadline, contrary to the comment above `CONNECT_TIMEOUT` (ingest.rs:398-403);
  with `"greeting"` in the constant `Silent`, TLC finds `EveryFolderSwept` violated: a
  server that accepts the connection and says nothing stops the one loop for good.
* Of two messages with one Message-ID that are only in All Mail, the second may
  never be fetched. ingest.rs:217 says that "every uncertainty resolves towards
  fetching" and db.rs:1011-1015 calls the ID weaker and the cost "never a lost
  message", of a missing or unrecognised ID; for a shared one it is. `NeverSkipped`
  and `EventuallyArchived` are stated up to the ID (`Archived`).
* The cursor (internaldate, uid) of a search is no key across folders: hits that
  tie at the end of a page are lost, although the extra row that came back is
  said to mean that there is another page (web.rs:626-627): one message in two
  folders under one UID is enough.
* The cursor keeps milliseconds of a date that has microseconds (web.rs:674). Of
  the rows within one millisecond, those that a page did not reach before it ended
  are on no later page, in a folder as in a search, and "load more" may then bring
  nothing. Only the time that stands in for a missing Date header has microseconds
  (envelope.rs:37-40, ingest.rs:1128), so this is about undated messages, and every
  gap is one. `ReachesAll` and `MoreComes` except these rows and those of the
  previous point, and no others (`PassedOver`).
* ingest.rs:3-12 gives the order of a message as blob, manifest, rows, and calls an
  orphan manifest harmless; `store_message` (ingest.rs:1144-1191) commits the rows
  first and writes the manifest last. So there are rows without a manifest after a
  crash, and no manifests without a row: `IndexBacked` states the second, and holds
  of the code for this order only.
* "Only ever moves forward" (db.rs:923) is true of `advance_source_uid`, not of the
  watermark: `folder_for_ingest` decides on a plain SELECT and resets later
  (db.rs:741-767), so of two passes that both read the old UIDVALIDITY the second one's
  reset undoes what the first has advanced. Nothing is lost by it, only searched
  again: the held filter takes out what is archived. `WatermarkForward` names the
  case, and `NeverSkipped` holds beside it.
* A body shorter than the message is stored as a failed fetch only if the server
  declared a length (ingest.rs:1009-1010). Without RFC822.SIZE what has come is
  stored as a message of its own, and `repair`, which asks for the empty hash, does
  not find it, although ingest.rs:1007-1008 says of truncation that it "is routed
  into that same detector". `NeverSkipped` and `EventuallyArchived` count it as what
  there is of the message (`Scraps`, `cut`).
* `add-user` with a login that somebody has goes through and leaves a user without
  any, although db.rs:505-507 says such a user "could not be addressed by any
  command" and creates both rows together to prevent it; the error text beside the
  INSERT is never seen, because ON CONFLICT DO NOTHING does not fail. `Addressable`
  names these users.
* `remove-alias` may delete a canonical row it looked up as an alias; "refuses to
  remove a user's last or canonical address" (db.rs:429) holds for one command at
  a time.
* A user without a canonical address gets a server error at the web's sign-in and
  loses the session they have at the next `whoami`, which the code takes for a user
  "who no longer exists" (web.rs:504). Over IMAP they can log in by an alias.
* `rename-user` also renames an alias; migration 0011 says it changes the canonical
  address.
* api.rs:17-19 says the app returns to the login screen when a session is gone;
  nothing in main.rs reacts to `Unauthorized` but to show its text.
* `sign_out` shows the form even if the server never heard of it: the cookie is
  still there and the next load signs in again. And a `whoami` of another tab may
  bring a fresh cookie after the one that cleared it. `SignedOutStays` says when
  there is none.
* `CertReloader::new` reads the certificate before its time: a renewal in between
  is noticed only at the next one (`raced`).
* The token cache of gmail.rs is made anew in each call of `source_for_address`, so
  no token is ever used twice.
* Selecting a folder while a search is shown changes the selection and closes the
  message, but the search stays in the list until it is cleared.
* A FETCH item that comes without UID or body is dropped without a word
  (ingest.rs:989-994) and the watermark passes it, contrary to "a message is never
  skipped" (ingest.rs:12-14); `NeverSkipped` and `EventuallyArchived` except the
  message (`omitted`).
* An interruption between the commit and the manifest: the held filter keeps the
  next pass from storing the message again, so its manifest stays missing until a
  rebuild, contrary to ingest.rs:1175-1178. `ManifestsKept` says so (`owed`).
* server.rs:150-155 says an archive does not change underneath the client and
  accepts IDLE with nothing to report; ingest does append meanwhile. No EXISTS is
  ever sent, so a client learns of new mail from its next SELECT or FETCH;
  `SequenceHolds` shows that this misleads it about nothing it holds.
* server.rs says S3 is touched only "when a body was actually asked for"; a FETCH
  of metadata reads the object of every row without a cached header.
* naming.rs:7-9 calls the translation lossless. A '/' in a name of a source with
  another delimiter comes back as that delimiter and selects nothing;
  `ListedOpens` assumes there is none (`Reversible`).
* A part's header or text (`BODY[1.TEXT]`) is answered with the whole message's,
  although "say nothing rather than return wrong bytes" is said of parts
  (`NeverWrong` groups these items with the whole message's).

## What is not modelled

* Row-level security: the policies are PostgreSQL's to enforce; a model would
  restate them.
* MIME parsing, header slicing, HTML sanitising: byte-level functions
  over libraries with unit tests of their own.
* Encryption of credentials, password hashing, cookie signatures, the signing and
  the request for a Google token: libraries, or one request and its answer.
* `diagnose`, `probe`: read-only reports. Reading the configuration: no state.
  Of the commands, add-account and remove-google, one statement each.
* The limiter's bound on its own map, which drops only keys without a recent
  failure, and a poisoned mutex, which needs a panic in a `Vec` operation.
* Part downloads, inline images, layout preferences; more than one browser. Two
  folders shown under one path (see `Reversible`), of which the tree keeps one.
* Of the IMAP server: CAPABILITY, NOOP, IDLE and a failed LOGIN, which change
  nothing; LIST's pattern (its names are in `Names`); flags; partial ranges of a body;
  the part sections named above.
* Repair beside a change of UIDVALIDITY (`repair.rs:156`): what a UID meant before
  is nowhere recorded, so no state of the program tells a right refetch from a
  wrong one. `Maintenance` lets repair bring any message.
* Two `email repair` at once: both would repoint one gap, the second over the first
  (`repoint_placement` has no condition on the message that is there). They ask for
  one source UID, so both bring the same message unless the source renumbered.
* S3 keys and the S3 client.

## What could follow

In order of what would add most:

1. Compose `Shell` with `Paging`: the reader's requests over the very pages the
   list holds, instead of places.
2. `fetch.rs` beyond whole items: partial ranges and part sections, with their
   wrong answers as a run of their own.
3. `EveryFolderSwept` with `ingest_folder` as the steps of `Ingest` rather than one.
