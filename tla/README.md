# Job Provenance: models, checks and proofs

This directory holds TLA+ specifications of the gLite Job Provenance service, the
TLC instances that model-check them and TLAPS proofs of their safety properties.
`PROJECT.json` connects every definition to the lines of the source it stands for,
lists the runs, the mutants that show that each property can fail, the hazards found
in the code, the findings and the theorems.

Paths below are relative to the repository; `primary/`, `index/`, `common/` and
`client/` stand for `org.glite.jp.primary/` and so on.

## 1. The system

Job Provenance keeps records of grid jobs for a long time. There are two
servers.

* The **Primary Storage** (PS) keeps the primary data: a row per job, the files
  uploaded for it and the annotations (tags) users add.
* An **Index Server** (IS) keeps a copy of selected attributes of selected jobs
  and answers user queries. It gets the data in *feeds*: it asks a PS for past
  jobs that match a query (history, sent in batches) and for future updates
  (continuous).

Both are master processes that fork slaves (`server-bones`). A slave serves one
call at a time, and slaves share nothing but the database and the disk; no
request is enclosed in a transaction. So most of what is hard here is what
happens between two statements of one slave when another runs.

### Components

| component | state | operations | hard parts |
|---|---|---|---|
| PS job and file tables (`primary/src/new_ftp_backend.c`, `soap_ops.c`, `authz.c`) | tables `jobs`, `users`, `files`; data directories | RegisterJob, StartUpload, CommitUpload | several statements per call without a transaction; upload deadlines; slaves that die between statements |
| PS user tags (`tags.c`, `new_ftp_backend.c`) | one compressed file per job | RecordTag, RecordMultiTags, reading | a file is read whole and rewritten whole without a lock |
| PS feeding (`feed.c`, `is_client.c`, `attrs.c`, `common/src/context.c`) | tables `feeds`, `fed_jobs`; the feeds cached by each slave; the queue of deferred functions | matching of new attributes, history feeds, registration, purge | work done after the reply; caches that go stale; faults of the IS |
| Feed session (`index/src/bones_server.c`, `db_ops.c`, `soap_ps_calls.c`, `soap_ops.c`; FeedIndex, FeedIndexRefresh of the PS) | table `feeds` of the IS with lock, state and expiry; the feed loop; table `feeds` of the PS | feed loop, FeedIndex, FeedIndexRefresh, UpdateJobs, purge | lost replies and retries, two sides with their own expiry, restarts, order of reply and first batch |
| PS file contents (`jp_callouts.c`, `new_ftp_backend.c`, `soap_ops.c`, `attrs.c`) | uploaded files, their names and open handles | FTP transfers, compression on commit, reading | a transfer that outlives the commit; two commits that compress at once; a slave that dies while it compresses |
| PS attribute retrieval (`attrs.c`, plugins) | open file handles | GetJobAttributes, GetJobFiles | mostly pure reading |
| IS data (`index/src/soap_ops.c`, `db_ops.c`) | tables `jobs`, `users`, `attr_*` | UpdateJobs (per job), QueryJobs | check-then-insert by several slaves; failures in the middle of a call; statements put together from user queries |
| Importer (`client/src/jpimporter.c`, `jpimp_lib.c`) | maildir queues, dumps and tarballs on its disk, a few variables per slave | registration, dump and sandbox slaves with retries; `upload_files` of the client library | crash between commit and the end of the transaction; the queues of registrations and dumps race; an attempt that outlives the repeat timeout; lost answers |
| Common library, database layer, web service types, configuration, clients | none of their own | | |

How they interact: a client calls the PS; the PS slave replies and then runs its
deferred functions, which match the new attributes against the feeds it knows
and call UpdateJobs of the IS. The feed loop of the IS calls FeedIndex (once per
configured feed) and FeedIndexRefresh (before the feed expires); the PS slave
that answers FeedIndex replies, then queries its database for past jobs, sends
them in batches and registers the feed, upon which all PS slaves are told to
restart so that they read the table of feeds again.

What makes the components correct:

* tables: joins never lose rows; one registration per job; a commit that comes
  in time succeeds; what is committed stays; an abandoned upload does not block
  its file;
* tags: recorded tags are added and never lost, repeated, reordered or split;
* feeding: what is stored gets to every feed that asks for it, nothing that does
  not match gets there, and `fed_jobs` tells the truth;
* file contents: a reader of a committed file gets what was uploaded, whole;
* IS data: what UpdateJobs has answered is stored, and a query is answered with
  the jobs that match it and nothing else;
* importer: nothing leaves a queue, or the disk, before the PS has it, and
  everything announced gets there;
* session: no feed is left locked or forgotten; feeds are refreshed before they
  expire; a feed nobody wants goes away; DONE means what it says.

## 2. Modules

| module | what it is |
|---|---|
| `PSStore` | RegisterJob, StartUpload, CommitUpload over the tables of the PS |
| `TagStore` | RecordTag and RecordMultiTags over the tag files |
| `TagLog` | what a tag store promises: an append-only log per job |
| `PSFeed` | deferred matching, history feeds and registration in the PS |
| `FeedSession` | one IS and one PS keeping feeds alive |
| `FileData` | contents of one uploaded file: transfers, commits, compression, a reader |
| `IndexStore` | UpdateJobs and QueryJobs over the data tables of the IS |
| `Importer` | the importer between the maildir queues and the PS |
| `PSStoreProofs`, `TagStoreProofs`, `PSFeedProofs`, `FeedSessionProofs`, `FileDataProofs`, `IndexStoreProofs`, `ImporterProofs` | theorems about the module they are named after |
| `MC...` | instances for TLC |

### PSStore

Every SQL statement of the backend is a step of the slave that executes it; a
record per slave holds the request and its local variables, `pc` says which
statement is next. RegisterJob: `store_user`, insert into `jobs`, `mkdirpath`,
matching. StartUpload: the job is looked up, `store_user`, the expired uploads of
the job are deleted, the row is inserted. CommitUpload: the row is selected and
checked, updated by key, looked up again by `destination_info` (asserted to
succeed), matched. `Failures` lets a statement fail or a slave die at every step;
the master then forks a new slave (`Restart`). The identity of a client is its
certificate subject; the URL of a file stands for the job and the base name, from
which the code computes it. `updated` is a history variable.

### TagStore and TagLog

`open_file` reads the whole file, `tag_append` appends in memory, `close_file`
closes the descriptor, opens the file again with "w" (which empties it), writes
and closes. Each gzopen and gzclose is a step, because files of tags are small
and zlib keeps their data until they are closed. The first call for a job creates
the file with "w+"; its descriptor has an empty stream to write when it is
closed. A file is absent, corrupt (what is left when a stream is written over a
longer one) or holds a sequence of tags; a reader fails on anything else. Whether
calls for one job overlap and whether slaves die are constants, so that what
holds in each case can be told apart.

`TagLog` is the abstract specification: a log per job and calls that append
their items one after another. The refinement mapping takes the log from the file,
and from the memory of the slave while the file is being rewritten.

### PSFeed

A call that stores attributes puts a function into the queue of its slave and
replies; the slave then runs the queue.

The tags of a job are in a file that every slave reads and rewrites without a lock,
and the feeds feel it, so the file is here too, with the steps of `TagStore` and less
data: `RecordTags` begins a call, `OpenTags` reads the file, `CreateTags` and
`CloseTags` make one that was not there, `RewriteTags` empties it and `WriteTags`
writes it, for one job after another, before the reply. `stored` is what can be read
at the moment, so tags leave it while their file is rewritten, and for good when the
slave dies then or another overwrites them; two slaves that write at once may leave a
file that cannot be read (`file`). A file of tags is never locked by a reader either:
attributes are read one at a time (`GetAttr`), and `get_attrs` takes an error for no
value (`attrs.c:212`). The metadata are one row of a table, read at once.

What a slave reads at the wrong moment it does not look for again: a job found unfed
whose tags another slave is rewriting is sent without them and marked, and the
other slave then sends only its own. `missed` collects the jobs this has happened to,
by what happens and not by its result: a tag was looked for while a slave had it in
memory only, or a call failed after it had recorded one. KeptUpToDate and
FedIsComplete are about the other jobs; without the exception TLC finds the
trace above at once. In the same way a job whose tags cannot be read is left out of a
feed of past jobs, so HistoryDelivered promises what could be read when FeedIndex was
called *and ever since* (`before` shrinks with the file).

`Matching` is `is_feed_matching`: the
conditions on attributes of the call, then those on attributes stored before. Two
places in it have undefined behaviour, and there the operator returns every
outcome a build can give: an array one item too short when a satisfied item
precedes one that is missing, and a count that is never set when none of the
missing attributes exists. The names that do fit into the short array are read, so a
stored attribute that does not fit among the first of them still excludes the job.
`CheckFed`, `FullFeed` (after a `GetAttr` for every attribute), `Send` and `SetFed` are
the steps of `match_feed` between which other slaves run. `RunQuery`, `QueryCallback`,
`StackJob` (again after the attributes), `DrainFeed` and `QueryEnds` are the history
feed, `RegisterFeed` the registration, which counts as done when `store_feed` fails,
and `StartSlave` the start of a slave, which purges the feeds that have expired
(any feed that is not in `Subscribed`) and reads the rest. A deferred function that
fails stays at the head of the queue. A feed of past jobs has freed its argument then;
calling it again is modelled as the death of the slave. `match_file_deferred` that cannot
open the file has freed nothing and is called again.

An attribute has one value per job; a set says which values satisfy the
queries of which feed. A job that has anything stored has its owner stored, which
RegisterJob sees to. The values themselves, time stamps and origins make no difference
to the properties.

### FeedSession

The IS side is the single feed loop (`feed_caller`): it locks a due row, tries the
call up to 10 times, stores the answer and unlocks the row, or sets a time to
reconnect. The PS side is a session per feed identifier: the slave that answered
FeedIndex, running the batches and the registration. UpdateJobs reads the state
of a row and writes it back later, as the feed loop does; the model keeps the two
statements apart. Times are the time that remains, so there is no clock to bound.
`IndexExpires` keeps the arithmetic of the code, which halves the time to expiry
twice. Faults of calls (the request lost, refused, or served and the reply lost),
faults of the credentials and crashes are constants of their own.

### FileData

One file of the PS. A file on the disk has two cells that are written one after the
other, so that every file can be found half written; a cell holds what an upload
wrote there and how many times it has been compressed, which is not bounded. Names
and files are kept apart, as the file system does: a transfer or a slave that has
opened a file goes on with it after the name refers to another one. `AuthzWrite` is
the select of `authz_write` (an upload in progress, started by this client); the FTP
server asks once, before a transfer (`StartTransfer`). CommitUpload is the select of
the row, the update by key, `destination_info`, the plugins' reading, the size, and
`compress_and_remove_file` with its open, copy and rename as steps (`FOpen`,
`GzOpen`, `Copy`, `Rename`). A slave may die at each of them, and a client may stop
waiting and call again, so that two slaves serve the same commit. `OpenFile`,
`ReadFile` and `CloseFile` are a slave that reads attributes: it holds the file open
while others compress it.

The code relies on its clients here: nothing stops a transfer that was let through
from writing after the deadline or the commit. `Late` says whether clients do;
`CommittedReadable` is about clients that do not.

Reading through the FTP server is not an action: `authz_read` compares the hash
stored in `jobs.owner` with a certificate subject, so it never lets anyone read;
`authz_del` refuses always.

### IndexStore

UpdateJobs goes over the job records of a call and, for each, selects the job,
inserts it when it is missing, does the same with the owner, and inserts the
attributes one at a time, with the column of table `jobs` for attributes of one
value. Every statement is a step, may fail, and a slave may die before it; what was
stored stays. `Select` keeps the code's third case: a select that fails is neither
"found" nor "not found" and nothing is inserted.

QueryJobs is taken apart as the code puts its statement together: `Accepted` are the
two checks, `Texts` the records that get into the text, `Parsable` says where "AND"
is missing or one too many, `RowFits` and `Joined` what the joined tables select,
with values cut to the length of the index (`IndexValue`, which keeps the order of
values but does not tell all of them apart). `Matches` is the reference definition,
written from what a query means; it compares the values themselves and knows nothing
of the index. QueryExact says what holds between the two. Nothing but jobs of the
client is selected, and nothing but matching jobs unless an "equal" or "within"
names a value that the index takes for another one that is stored. Every matching
job is selected by a query in which no attribute has two conditions and EXISTS
stands alone (`Plain`), unless an "unequal", "greater" or "less" names such a value.
Where it promises nothing the code does select wrong jobs and leave out right ones:
without `ToldApart`, or without `Plain`, TLC finds them in the instance of
index_update, which has values that are alike in the index and queries of each kind.
A condition has at least one record and a call at least one job, which the interface
requires of a list that is not optional (`minOccurs`,
`ws-interface/src/puke-schema.xsl:84` and 117).

### Importer

A message goes through unsent, new, in work (with the time since the first and
the last attempt) and done; a slave takes new messages until there are none, then
those to be repeated, and back. The registration slave calls RegisterJob. A dump
slave calls StartUpload; if that fails it asks whether the job exists and if not
registers it itself (with the importer as the owner) and tries once more; then it puts the
file, commits, removes the dump and ends the transaction. The sandbox slave does
not look at the fault of StartUpload. `PutFile` is one attempt of the "one lost
connection survival cycle", which is repeated once from where the file position is.
Every call (`Call`) may be answered, refused, lost, or served with its answer
lost. Slaves are killed at any step (`Restart`) or end after a number of messages
(`Retire`).

External: the maildir library (a message is kept until its transaction ends with OK;
it is offered again JP_REPEAT_TIMEOUT after the last attempt began until it is
JP_GIVUP_TIMEOUT old), the FTP library (in stream mode the offset of a buffer is not
looked at), and the PS, whose calls are one step here (`PSStore` has their
statements) and which is the same one for all messages.

## 3. Runs

Runs marked V show a disagreement between the code and what a document, a
comment or an assertion of the repository says of it; TLC finds the
counterexample, and "findings" in `PROJECT.json` quotes the line.

| run | checks | shows |
|---|---|---|
| store_tables | TypeOK, References, OneRegistration, InTimeCommit, CommittedForever, AbandonedUploadReclaimed | with failures at every step of two slaves the tables stay consistent, registration is exclusive, commits in time succeed and are durable, and an abandoned upload is replaced when StartUpload is repeated |
| session_retry | TypeOK, LockedInHand, FeedsComeBack | whatever calls fail, no row stays locked and the loop gets an identifier for the feed again and again |
| session_refresh | RefreshedInTime, DoneMeansSent | with the real proportions of the times two feeds are refreshed before they expire, beside a third one that the PS refuses |
| session_orphan | OrphansExpire | feeds the IS does not know disappear from the PS, after lost replies and crashes too |
| tags_log | ImplementsLog | calls that do not overlap on a job implement `TagLog` |
| tags_whole | TypeOK, WholeItems | with overlaps and failures, tags of one call for a job are in a readable file whole and once, or not at all |
| feed_live | KeptUpToDate, FedIsComplete | without faults, what two slaves store reaches the feeds they know and marked jobs are complete, while files of tags are emptied and rewritten under their hands; only of jobs with a tag that was looked for while it was not in its file (`missed`) may something be missing |
| feed_history | TypeOK, HistoryDelivered, FedMeansDelivered, OnlyMatching | a history feed sends all that could be read when it was asked for and ever since, with jobs registered and files of tags rewritten meanwhile, calls refused and slaves dying; marks are true unless a call was refused; no job of another owner gets through |
| importer_deliver | TypeOK, GoneMeansStored, Delivered | a registration and a dump of one job race through their queues, two slaves on the dumps, two faults anywhere: nothing leaves a queue or the disk before the PS has acknowledged it, and both get there before the queues give up |
| importer_whole (V) | GoneMeansWhole | the message about a tarball is stored before `tar_close` has written its end; the file is sent and committed without it |
| files_commit | TypeOK, CommittedReadable, DataKept | uploads of two clients expire, break off and are repeated, slaves compress and die: a reader gets the whole upload or nothing; overlapping commits do not lose data |
| index_update | TypeOK, AnsweredIsStored, QueryExact, AnswerRight, OwnerFound | three calls that meet at a job and an owner are stored by two slaves with a failure anywhere, while twelve kinds of queries are answered, some of them for values the index does not tell apart |

Other behaviours of the code that the models contain and that a maintainer should
know of (the hazards in `PROJECT.json` have the lines): a commit that comes after
its deadline commits the upload another client has started since; a slave that dies
while it rewrites a file of tags loses the old ones, and a reader finds the file
empty meanwhile, so that a job can be marked as fed without them, or be left out of
the feed of past jobs, and nobody sends them later; the first batch of a feed can
come before the IS has stored the identifier, and is refused; a refresh of a feed
that has been purged is answered OK; no batch with feedDone is sent when the number
of past jobs is zero or a multiple of the batch size; a batch refused by the IS is
marked as fed; the conditions of a query on attributes that are not stored are
decided by a count that has no value.

Six more contradict what the repository says of itself:

* The comment at `primary/src/soap_ops.c:168`, "XXX: should not fail when
  commit_upload was OK", stands over an assertion that fails when another
  StartUpload expires the row between the select and the update of a commit; the
  slave aborts (`ComDestinationInfo` of `PSStore`).
* `index/src/bones_server.c:285` says "when unintialized feed: always reconnect",
  but when `refresh_gsoap` fails in all attempts the row stays locked, and locked
  rows are never looked at again (`Attempt`, `GiveUp` of `FeedSession`).
* The user's guide says annotations are added "on top of the already stored data,
  never re-writing the old annotations" (`JPUG-Introduction.tex:36`); of two
  overlapping calls for one job, one loses the tags of the other (`TagStore` with
  `Overlap`).
* "This type of query allows JPIS to be kept up to date"
  (`JPUG-Introduction.tex:440`); a job stored after the query for past jobs, by a
  slave that has not read the new feed yet, is never sent (`PSFeed`).
* QueryJobs returns the "List of jobs matching the query."
  (`ws-interface/src/JobProvenanceIS.xml:54`), but the index keeps the first 255 characters of a
  value (`attr.c:143`) and nothing else is compared, so EQUAL selects jobs with another value that
  begins in the same way (`IndexValue` of `IndexStore`).
* The records of a condition "are logically ORed" (`JobProvenanceTypes.xml:110`), but EXISTS
  has no text in the statement (`soap_ops.c:333`): beside another record it is ignored, and a
  job that has the attribute is not selected (`Texts` of `IndexStore`).

In the importer, GoneMeansWhole also fails when a connection is lost in the middle
of a file (the second attempt puts the rest of it only) and when a sandbox slave
goes on after a failed StartUpload with the destination of the message before. In
`FileData`: a file uploaded compressed and not larger than 1024 bytes is read
decompressed, since `gzread` cannot tell it from one the PS has compressed;
overlapping commits compress a file twice or, for a time, hide it. In `IndexStore`:
a condition on the job identifier after another one, or a condition on an attribute
after nothing but EXISTS on the job identifier, makes a statement that cannot be
parsed; two conditions on one attribute must be met by one and the same value;
without an indexed attribute in the configuration no query is accepted; values are
compared as far as the index goes, so that "unequal", "greater" and "less" miss jobs
with long values, as "equal" and "within" select too many; a failed select in
`lazyInsertJob` passes for "found", and the call is answered OK although the job is
not there; with `no_auth` a job whose owner is missing makes `get_owner` free a
string twice; a call of UpdateJobs that is repeated stores its attributes twice.

### Bounds

* Two slaves: every race listed is between two of them. That a third one adds nothing
  is proved for the invariants below, which hold for any number of slaves, except for
  `DataKept`: three commits of one upload at once can lose its data (the third slave
  compresses what the second has not written yet, when the first has renamed it). Two
  calls of a client are what the theorem and the run allow.
* `PSStore`: one file of one job, two clients, `UploadTTL` = 1 and a clock up to
  2, so that a deadline is met exactly, missed, and followed by a second upload.
  The theorems below cover any number of jobs and files.
* `TagStore`: calls for one job, for two jobs, for none, with several tags, with a
  job the client may not touch. Each is made once, so these instances stop;
  deadlock is not checked there, and only there.
* `PSFeed`: in feed_live two jobs, one of them older than the subscription, a feed with a
  query on the owner, two tags, an attribute of a file, and three calls that store
  attributes (`MaxCalls`): two that meet at a file of tags and a third one that finds what
  they have left there, a file that cannot be read among it. In feed_history two feeds,
  one asked for in the run, with a query on the owner and a tag, the other subscribed
  before; three jobs: one of another owner, one not registered yet and one stored
  before; and one call besides registrations, which may rewrite the file of tags of the old
  job. Batches of two jobs, so that the last batch may be full or not.
* `FeedSession`: two identifiers for one or two rows, so that a lost reply leaves
  a second feed at the PS. A tick is 90 s in the runs that depend on the
  proportions (FEED_TTL 360 s, RECONNECT_TIME 1200 s, REACTION_TIME 120 s give 4,
  13 and 2); the other runs use shorter times, on which their properties do not
  depend. A third row is one the PS refuses (neither history nor continuous).
  `MaxTries` is 1 or 2 for the 10 attempts of the loop: all attempts are
  alike, except that the first one may be followed by another. `Prompt` lets calls
  take no time, which `RefreshedInTime` needs: a call that hangs for the two-hour
  timeout of the code delays every other feed.

* `Importer`: one registration and one dump of the same job, one slave for
  registrations and two for dumps. A tick is the repeat timeout (`Repeat` = 1; 360 s
  for dumps), and the PS lets an upload last less than that (`UploadTTL` = 0; 300 s
  whatever the importer asks for). `GivUp` = 4 repetitions stand for the about ten of the code:
  with two faults at most, and one attempt lost to the race of the two queues, three
  would not be enough, and more make no difference. A message that cannot be parsed
  is dropped; with one added the run passes too, in six times the time.
* `FileData`: three uploads, two of them by one client; one is large enough to be
  compressed; two slaves, two crashes, two calls of CommitUpload for an upload. Five files on
  the disk are enough (TypeOK has it that there is always one free); the theorems
  assume a disk with more files than there are names and handles.
* `IndexStore`: three calls with five job records, twelve queries (each way of being
  accepted, refused, parsed and joined), one failing statement or crash. Values 2
  and 3 have the same index value, as long values with a common beginning do.

Slaves (and identifiers) are interchangeable, so runs with safety properties only
use symmetry; runs with liveness or refinement do not.

### Fairness

* `PSStore`: a slave in the middle of a call goes on, time passes, and clients
  repeat StartUpload of a file they need (strong fairness, because slaves are
  sometimes busy). The last is an assumption on clients: the code expires an
  upload only in a later StartUpload of the same job. A statement of an upload
  that is repeated again and again succeeds some time; any number of failures may
  come before.
* `FeedSession`: the feed loop, slaves and time go on. A call of the PS that is
  tried again and again is served some time, and credentials are valid some time
  (strong fairness of `Served` and of a successful `Attempt`); nothing is assumed
  about the first, the tenth or any particular attempt. PS slaves are restarted
  after a bounded number of calls, so expired feeds are purged now and then.

* `Importer`: slaves go on (they, or the ones the master forks in their place) and
  time passes; nothing is assumed about calls: the number of faults is bounded
  instead, since the queues really give up after a time.

## 4. Proofs

All invariants, action properties and refinements that the passing runs check are
proved, for any number of slaves, clients, jobs, files, feeds, calls, queries and
messages and any bounds; only liveness is not. The assumptions on constants are the
`ASSUME`s of the modules, which TLC evaluates in the runs. What a theorem assumes
beyond them is in the third column, and is what the run of the property assumes too
or follows from the constants of the code.

| theorem | proves | when |
|---|---|---|
| PSStoreProofs: TypeCorrect, ReferentialIntegrity, RegistrationIsExclusive, CommitInTimeSucceeds, CommitsAreDurable | TypeOK, References, OneRegistration, InTimeCommit, CommittedForever | always |
| TagStoreProofs: TypeCorrect | TypeOK | always |
| TagStoreProofs: ImplementsTheLog | ImplementsLog | calls for a job do not overlap, slaves do not fail |
| TagStoreProofs: ItemsAreWhole | WholeItems | the tags recorded for a job can be told apart (`DistinctTags`) |
| PSFeedProofs: TypeCorrect, FedJobsWereSent, HistoryIsDelivered, OnlyMatchingJobs | TypeOK, FedMeansDelivered, HistoryDelivered, OnlyMatching | always |
| PSFeedProofs: FeedsAreKeptUpToDate, FedJobsAreComplete | KeptUpToDate, FedIsComplete (of all jobs but those in `missed`) | no faults and crashes, queries on metadata only (`MetadataOnly`) |
| FeedSessionProofs: TypeCorrect | TypeOK | always |
| FeedSessionProofs: NoFeedStaysLocked | LockedInHand | credentials can be got, the server does not die |
| FeedSessionProofs: DoneFeedsAreComplete | DoneMeansSent | calls do not fail; crashes may happen |
| FeedSessionProofs: FeedsAreRefreshedInTime | RefreshedInTime | nothing fails, calls take no time, IndexExpires(FeedTTL) + ReactionTime <= FeedTTL |
| FileDataProofs: TypeCorrect, CommittedFilesAreReadable | TypeOK, CommittedReadable | the disk has room (`Room`) |
| FileDataProofs: OverlapsKeepTheData | DataKept | `Room`, a client repeats its call at most once (MaxCalls <= 2) |
| IndexStoreProofs: TypeCorrect, AnsweredUpdatesAreStored, OwnersAreFound, QueriesAreExact, AnswersAreRight | TypeOK, AnsweredIsStored, OwnerFound, QueryExact, AnswerRight | always |
| IndexStoreProofs: TablesOnlyGrow | jobs, owners and rows stay; a column that is set is never emptied, and changes only to the value of a row of its job | always |
| ImporterProofs: TypeCorrect, NothingIsDropped | TypeOK, GoneMeansStored | always, with the sandbox slaves or without |

Why these conditions and exceptions. Overlapping calls lose tags and a slave that
dies in the middle of a rewrite loses the file, so the log is implemented only
without them; the tags of a job are told apart so that "once" has a meaning. Queries
on attributes that are not stored may be decided by a count that has no value or by
an array that is overrun, and a refused batch is marked as fed, so that feeds are
not kept up to date then. Nor are they, even without any fault, when a slave reads a
file of tags that another one has emptied: what is proved is that nothing else
leaves a hole. The lock, the DONE bit and the refreshes fail when the condition next
to them does: that is what the findings and hazards are about. The code has FEED_TTL
360 s (`primary/src/feed.c:44`), a refresh after a quarter of it and REACTION_TIME
120 s (`index/src/bones_server.c:57`): 90 + 120 <= 360. `Room` says that there are
more files on the disk than names and handles (an upload has one handle, a slave
two, the reader one).

The arguments. An invariant is seldom inductive; every module of proofs says what has to
be known of the processes in the middle of their work.

* `PSStore`. References needs `StepReferences`: a slave about to insert a row that
  refers to a user or a job has stored or seen it, and rows of users and jobs are never
  deleted. InTimeCommit needs `Deadlines` (an upload has a deadline, a committed file
  has none, so that the expiry cannot touch it) and `StepRows` (a slave that commits
  holds a row that was an upload with a deadline; the time that an expiry uses is not in
  the future): as long as the deadline is not past, no expiry deletes the row, so nobody
  inserts another one and the only change left is a commit.
* `TagStore`. The refinement needs `LogInv`: slaves at work have different jobs, the
  handle of a slave holds what the file held when it was opened, and the items a call has
  been through are in the log. For WholeItems every file, and every copy a slave holds,
  is put together from whole items that nobody will write any more (`Built`), each of
  which is there once.
* `PSFeed`. `FeedInv` says of every process (`Honest`) that it sends only jobs whose
  metadata fit, marks only what it has sent, and that a job which satisfied the query of
  its history feed is still to be looked at, being read, in the batch, or sent;
  `before` only shrinks, with `stored`, so what it still has at the end was there
  at every read. For KeptUpToDate, `LiveInv` speaks of all attributes that are in a file or in the memory of a slave that
  rewrites it (`Held`), so that emptying a file changes nothing. One of them that is not at
  the index server yet (`Covered`) is `Pending` at some slave: in the call it serves, in
  its queue, ahead of the function being done, among the attributes `full_feed` has read or
  has yet to read, or in a batch. It is what is new of a job that satisfies the query, or
  anything of a job that is marked or about to be (`Whole`). A read that loses an
  attribute from "yet to read" puts the job into `missed`.
* `FeedSession`. `LockInv`: only the row in hand is locked, and not when the loop gives
  up. `DoneInv`: the state the loop has read is still that of its row, and a batch with
  feedDone that is on its way has been counted. `TimeInv`: a feed has, at the PS, at
  least the time the index server counts down to the refresh, plus three quarters of
  FEED_TTL, less what the loop may be late; a slave that registers a feed does it with all
  of its time left.
* `FileData`. `InTime`: a client in time writes only to the upload in the table, and
  slaves serve only commits of it, of what has been transferred. `ReadInv`: a slave that
  compresses reads the complete original and writes to a file that no reader has open
  and that the name does not refer to, so a name always refers to a complete file. With overlaps
  `KeptInv` tells two phases apart: before the first rename all slaves write the same
  file, which is complete once the last one is through; after it one slave is left
  (`AllCounted`: each has got a call of its own, and there are two), which
  compresses the file once more or goes on writing what has become the file, from the original,
  which it still has open.
* `IndexStore`. `IndexInv`: a slave past a step of its call has stored what the steps
  before it store (`SoFar`), nothing is ever deleted (`Grow`), and of every row there was
  when the jobs were selected the job is still to be read or the row has been.
  QueryExact is a fact about all contents of the tables: the index keeps the order of
  values, so a record that is satisfied by what the index has of two values is satisfied by
  the values, or they are different and alike in the index, which only "equal" and "within"
  take for satisfied (`IndexSound`); the other way round with "unequal", "greater" and "less"
  (`IndexComplete`).
* `Importer`. A slave about to remove a dump or to end its transaction with OK has seen
  the PS acknowledge its message (`Acked`), the PS does not take back what it has
  acknowledged, and an announced dump that is not on the disk is committed (`Unlinked`).

Each module has a lemma per action that says what it does to the record of its process,
and one case per action in the step lemmas. The inductive invariants were checked by TLC
on the instances of the runs before they were proved.

Two things came out of the proofs. OnlyMatching was not true of queries with three
items in an earlier version of `Matching`, which let the overrun of the array decide
everything; what the code reads of it for certain is now in the operator. And three
overlapping commits can lose a file, which two cannot.

What stays with TLC: the liveness properties AbandonedUploadReclaimed, FeedsComeBack,
OrphansExpire and Delivered, since the prover has no rules for fairness and ENABLED.
GoneMeansWhole is violated by the code.

## 5. What is not modelled

* The creation of the tables of the IS (`glite_jpis_initDatabase`) and the import of
  a CSV file (`glite_jpis_feeding`): start-up and testing, by a single process.
* File plugins (`sandbox_plugin.c`, `classad_plugin.c`): parsers of tar and ClassAd
  files behind external libraries; `FileData` has what they read.
* Statistics of the importer (`JP_PERF`), a build for measurements.
* Conversions: storing and reading back a query of a feed (`read_feeds` escapes
  again what `store_feed` escaped), attribute unions and comparison.
* GetJobAttributes, GetJobFiles, GetJobAttr: they change nothing; what they see
  of tags is `TagsRead`.
* Option parsing, logging, sockets, credentials beyond "valid or not", SOAP types.

Abstractions to know about: a SQL statement is atomic (each runs in autocommit
mode), and an update counts the rows it finds; data of a tag file reach the disk at
gzclose; what a query of the IS reads of one job is read in one step (so are the
metadata of a job in `PSFeed`, one row of a table, and the attributes of an uploaded
file that `match_file_deferred` opens, which does not change any more); a slave told
to restart does so when it is idle; a call with freed memory kills the slave; the
purge of a feed and of its rows in `fed_jobs` is one step of `PSFeed`; feeds send no
attribute with the name of the job identifier.

## 6. Plan

Done: `PSStore`, `TagStore` with `TagLog`, `PSFeed`, `FeedSession`, `Importer`,
`FileData` and `IndexStore`, with proofs of all their safety properties.

Left to prove: what the components promise one another, as action properties and
refinements. A commit of `FileData` is one of `PSStore` (its row is the row of
`PSStore` without the deadline), and the PS of `Importer` is an abstraction of
`PSStore`; `fed_jobs` and the index servers of `PSFeed` only grow except for a purge.

Modelling that is left: a composition of `PSFeed` and `FeedSession` with the expiry
of feeds, for the race of purge and refresh; conversions as operators over bounded
inputs (stored queries, attribute unions, value comparison); the start of the IS.
