------------------------------- MODULE PSStore -------------------------------
(***************************************************************************)
(* The job and file tables of the JP Primary Storage and the slave         *)
(* processes that serve RegisterJob, StartUpload and CommitUpload over     *)
(* them.  Every SQL statement of the backend is one atomic step; nothing   *)
(* encloses the statements of a request in a transaction, so the steps of  *)
(* different slaves interleave freely.                                     *)
(*                                                                         *)
(* A file is named by its job and its basename.  The destination URL that  *)
(* StartUpload returns is computed from the same two values and from the   *)
(* immutable row of the job, so the pair stands for the URL too.           *)
(***************************************************************************)
EXTENDS Integers

CONSTANTS Slave,       \* forked server processes
          Peer,        \* certificate subjects (clients and job owners)
          Trusted,     \* subjects of the trusted_peers file
          Job, Name,   \* job identifiers and basenames of files
          UploadTTL,   \* 5*60 of start_upload, in ticks of the clock
          MaxClock,    \* bound on the clock
          Failures,    \* do slaves crash and statements fail?
          None         \* no row, no subject

ASSUME StoreAssumption ==
  /\ Trusted \subseteq Peer
  /\ None \notin Peer
  /\ UploadTTL \in Nat
  /\ MaxClock \in Nat
  /\ Failures \in BOOLEAN

VARIABLES
  jobs,       \* table jobs: the owner of every registered job
  users,      \* table users
  dirs,       \* jobs that have a data directory
  files,      \* table files, primary key (jobid, filename)
  clock,      \* time(NULL)
  slave       \* the request every slave is serving and its local variables

vars == <<jobs, users, dirs, files, clock, slave>>

File == Job \X Name
NULL == -1    \* SQL NULL in the deadline column

\* A row of the table files; state "absent" means that there is no row.
Row == [state: {"absent", "uploading", "committed"},
        deadline: Nat \cup {NULL},
        uploader: Peer \cup {None}]

NoRow == [state |-> "absent", deadline |-> NULL, uploader |-> None]

Uploading(d, p) == [state |-> "uploading", deadline |-> d, uploader |-> p]

Committed(r) == [state |-> "committed", deadline |-> NULL, uploader |-> r.uploader]

RegPC == {"reg_user", "reg_insert", "reg_mkdir", "reg_match"}
UpPC == {"up_user", "up_expire", "up_insert"}
ComPC == {"com_update", "com_info", "com_match"}
PC == {"idle", "aborted"} \cup RegPC \cup UpPC \cup ComPC

\* What a slave holds while it serves a request.
Local == [pc: PC,
          peer: Peer \cup {None},        \* StartUpload, CommitUpload: the client
          owner: Peer \cup {None},       \* RegisterJob: owner of the job
          job: Job \cup {None},          \* RegisterJob: the job
          file: File \cup {None},        \* StartUpload, CommitUpload: the file
          deadline: Nat,                 \* start_upload: *commit_before_inout
          now: Nat,                      \* start_upload: time of the expiry
          seen: Row,                     \* commit_upload: the row selected
          updated: Nat]                  \* history: when the update ran

\* A slave in the middle of an operation has the inputs the operation uses.
Serving == {l \in Local :
              /\ l.pc \in RegPC => l.job \in Job /\ l.owner \in Peer
              /\ l.pc \in UpPC \cup ComPC => l.file \in File /\ l.peer \in Peer}

Idle == [pc |-> "idle", peer |-> None, owner |-> None, job |-> None, file |-> None,
         deadline |-> 0, now |-> 0, seen |-> NoRow, updated |-> 0]

Init ==
  /\ jobs = [j \in Job |-> None]
  /\ users = {}
  /\ dirs = {}
  /\ files = [f \in File |-> NoRow]
  /\ clock = 0
  /\ slave = [s \in Slave |-> Idle]

At(s, label) == slave[s].pc = label
Becomes(s, l) == slave' = [slave EXCEPT ![s] = l]
Goto(s, label) == Becomes(s, [slave[s] EXCEPT !.pc = label])
Done(s) == Becomes(s, Idle)

\* glite_jpps_authz for the three operations; anyone else gets a fault and
\* nothing changes.
Authorized(p) == p \in Trusted

-----------------------------------------------------------------------------
(* RegisterJob *)

\* Mutant: the owner is not handed on.
RegisterJob_NoOwner(s, p, j, o) ==
  /\ At(s, "idle")
  /\ Authorized(p)
  /\ Becomes(s, [Idle EXCEPT !.pc = "reg_user", !.job = j])
  /\ UNCHANGED <<jobs, users, dirs, files, clock>>

RegisterJob(s, p, j, o) ==
  /\ At(s, "idle")
  /\ Authorized(p)
  /\ Becomes(s, [Idle EXCEPT !.pc = "reg_user", !.owner = o, !.job = j])
  /\ UNCHANGED <<jobs, users, dirs, files, clock>>

\* store_user: a duplicate key is not an error.
RegStoreUser(s) ==
  /\ At(s, "reg_user")
  /\ users' = users \cup {slave[s].owner}
  /\ Goto(s, "reg_insert")
  /\ UNCHANGED <<jobs, dirs, files, clock>>

\* Mutant: a second registration replaces the row.
RegInsertJob_Replace(s) ==
  /\ At(s, "reg_insert")
  /\ jobs' = [jobs EXCEPT ![slave[s].job] = slave[s].owner]
  /\ Goto(s, "reg_mkdir")
  /\ UNCHANGED <<users, dirs, files, clock>>

\* The primary key makes the second of two racing registrations fail.
RegInsertJob(s) ==
  LET j == slave[s].job IN
  /\ At(s, "reg_insert")
  /\ \/ /\ jobs[j] = None
        /\ jobs' = [jobs EXCEPT ![j] = slave[s].owner]
        /\ Goto(s, "reg_mkdir")
     \/ /\ jobs[j] # None
        /\ UNCHANGED jobs
        /\ Done(s)
  /\ UNCHANGED <<users, dirs, files, clock>>

\* mkdirpath reports the failure of a parent directory but not that of the
\* last component; the row inserted before stays either way.
RegMkdir(s) ==
  /\ At(s, "reg_mkdir")
  /\ \/ dirs' = dirs \cup {slave[s].job} /\ Goto(s, "reg_match")
     \/ Failures /\ UNCHANGED dirs /\ Goto(s, "reg_match")
     \/ Failures /\ UNCHANGED dirs /\ Done(s)
  /\ UNCHANGED <<jobs, users, files, clock>>

\* The reply is sent and the deferred glite_jpps_match_attr runs, which
\* leaves these tables alone; the slave is free again.
RegMatch(s) ==
  /\ At(s, "reg_match")
  /\ Done(s)
  /\ UNCHANGED <<jobs, users, dirs, files, clock>>

-----------------------------------------------------------------------------
(* StartUpload *)

\* authz, the select of the job's row (no row: ENOENT) and the deadline,
\* which ignores what the client asked for.
StartUpload(s, p, f) ==
  /\ At(s, "idle")
  /\ Authorized(p)
  /\ jobs[f[1]] # None
  /\ Becomes(s, [Idle EXCEPT !.pc = "up_user", !.peer = p, !.file = f,
                             !.deadline = clock + UploadTTL])
  /\ UNCHANGED <<jobs, users, dirs, files, clock>>

\* Mutant: the uploader is not stored.
UpStoreUser_Skipped(s) ==
  /\ At(s, "up_user")
  /\ Becomes(s, [slave[s] EXCEPT !.pc = "up_expire", !.now = clock])
  /\ UNCHANGED <<jobs, users, dirs, files, clock>>

UpStoreUser(s) ==
  /\ At(s, "up_user")
  /\ users' = users \cup {slave[s].peer}
  /\ Becomes(s, [slave[s] EXCEPT !.pc = "up_expire", !.now = clock])
  /\ UNCHANGED <<jobs, dirs, files, clock>>

\* Mutant: an upload expires at its deadline already.
Expired_AtDeadline(r, t) == r.state = "uploading" /\ r.deadline # NULL /\ r.deadline <= t

\* The where clause of the delete.
Expired(r, t) == r.state = "uploading" /\ r.deadline # NULL /\ r.deadline < t

\* Mutant: nothing is expired.
UpDeleteExpired_Skipped(s) ==
  /\ At(s, "up_expire")
  /\ Goto(s, "up_insert")
  /\ UNCHANGED <<jobs, users, dirs, files, clock>>

\* All expired uploads of the job go, not only those of this file.
UpDeleteExpired(s) ==
  /\ At(s, "up_expire")
  /\ files' = [f \in File |->
                 IF f[1] = slave[s].file[1] /\ Expired(files[f], slave[s].now)
                 THEN NoRow ELSE files[f]]
  /\ Goto(s, "up_insert")
  /\ UNCHANGED <<jobs, users, dirs, clock>>

\* Mutant: the insert replaces a row that is there.
UpInsert_Replace(s) ==
  /\ At(s, "up_insert")
  /\ files' = [files EXCEPT ![slave[s].file] = Uploading(slave[s].deadline, slave[s].peer)]
  /\ Done(s)
  /\ UNCHANGED <<jobs, users, dirs, clock>>

\* A row that is still there: "File already stored or upload in progress".
UpInsert(s) ==
  LET f == slave[s].file IN
  /\ At(s, "up_insert")
  /\ \/ /\ files[f].state = "absent"
        /\ files' = [files EXCEPT ![f] = Uploading(slave[s].deadline, slave[s].peer)]
     \/ /\ files[f].state # "absent"
        /\ UNCHANGED files
  /\ Done(s)
  /\ UNCHANGED <<jobs, users, dirs, clock>>

-----------------------------------------------------------------------------
(* CommitUpload *)

\* What the select looks for, and the check of the identity that follows it.
MayCommit(r, p) == r.state = "uploading" /\ r.uploader = p

CommitUpload(s, p, f) ==
  /\ At(s, "idle")
  /\ Authorized(p)
  /\ MayCommit(files[f], p)
  /\ Becomes(s, [Idle EXCEPT !.pc = "com_update", !.peer = p, !.file = f,
                             !.seen = files[f]])
  /\ UNCHANGED <<jobs, users, dirs, files, clock>>

\* The update names the row by its key alone; it succeeds on no row too.
ComUpdate(s) ==
  LET f == slave[s].file IN
  /\ At(s, "com_update")
  /\ \/ files[f].state = "absent" /\ UNCHANGED files
     \/ /\ files[f].state # "absent"
        /\ files' = [files EXCEPT ![f] = Committed(files[f])]
  /\ Becomes(s, [slave[s] EXCEPT !.pc = "com_info", !.updated = clock])
  /\ UNCHANGED <<jobs, users, dirs, clock>>

\* assert(glite_jppsbe_destination_info(...) == 0)
ComDestinationInfo(s) ==
  LET f == slave[s].file IN
  /\ At(s, "com_info")
  /\ \/ files[f].state # "absent" /\ Goto(s, "com_match")
     \/ files[f].state = "absent" /\ Goto(s, "aborted")
     \/ Failures /\ Goto(s, "aborted")
  /\ UNCHANGED <<jobs, users, dirs, files, clock>>

\* The file plugins and the compression work on the data of the file, not on
\* the tables; then the reply is sent and glite_jpps_match_file runs.
ComMatch(s) ==
  /\ At(s, "com_match")
  /\ Done(s)
  /\ UNCHANGED <<jobs, users, dirs, files, clock>>

-----------------------------------------------------------------------------
(* The environment *)

\* A statement fails (EIO, the request faults) or the slave is killed; the
\* statements already executed stay executed.
Abandon(s) ==
  /\ Failures
  /\ slave[s].pc \notin {"idle", "aborted"}
  /\ Done(s)
  /\ UNCHANGED <<jobs, users, dirs, files, clock>>

\* The master forks a new slave in place of one that died in an assertion.
Restart(s) ==
  /\ At(s, "aborted")
  /\ Done(s)
  /\ UNCHANGED <<jobs, users, dirs, files, clock>>

Tick ==
  /\ clock < MaxClock
  /\ clock' = clock + 1
  /\ UNCHANGED <<jobs, users, dirs, files, slave>>

SlaveStep(s) ==
  \/ RegStoreUser(s) \/ RegInsertJob(s) \/ RegMkdir(s) \/ RegMatch(s)
  \/ UpStoreUser(s) \/ UpDeleteExpired(s) \/ UpInsert(s)
  \/ ComUpdate(s) \/ ComDestinationInfo(s) \/ ComMatch(s)
  \/ Restart(s)

Call(s) ==
  \/ \E p \in Peer, j \in Job, o \in Peer : RegisterJob(s, p, j, o)
  \/ \E p \in Peer, f \in File : StartUpload(s, p, f)
  \/ \E p \in Peer, f \in File : CommitUpload(s, p, f)

Next ==
  \/ \E s \in Slave : Call(s) \/ SlaveStep(s) \/ Abandon(s)
  \/ Tick

Spec == Init /\ [][Next]_vars

(***************************************************************************)
(* Clients repeat StartUpload for a file they want stored (the importer    *)
(* keeps the message in its maildir), the time passes, a slave that has    *)
(* taken a request goes on with it, and the statements of an upload that   *)
(* is repeated do not fail every time.                                     *)
(***************************************************************************)
FairSpec ==
  /\ Spec
  /\ WF_vars(Tick)
  /\ \A s \in Slave : WF_vars(SlaveStep(s))
  /\ \A f \in File : SF_vars(\E s \in Slave, p \in Peer : StartUpload(s, p, f))
  /\ \A s \in Slave, f \in File :
       /\ SF_vars(slave[s].file = f /\ UpStoreUser(s))
       /\ SF_vars(slave[s].file = f /\ UpDeleteExpired(s))

-----------------------------------------------------------------------------
(* Properties *)

\* Every variable holds a value of its type, and a slave in the middle of an
\* operation has the inputs that operation uses.
TypeOK ==
  /\ jobs \in [Job -> Peer \cup {None}]
  /\ users \subseteq Peer
  /\ dirs \subseteq Job
  /\ files \in [File -> Row]
  /\ clock \in Nat
  /\ slave \in [Slave -> Serving]

\* Joins never lose a row: the owner of every job and the uploader of every
\* file have a row in users, and every file belongs to a registered job (the
\* joins of get_job_metadata, get_job_url and destination_info), whatever
\* step a slave crashes at.
References ==
  /\ \A j \in Job : jobs[j] # None => jobs[j] \in users
  /\ \A f \in File : files[f].state # "absent" =>
       files[f].uploader \in users /\ jobs[f[1]] # None

\* Of all the slaves that are registering a job, at most one gets past the
\* insert and answers OK, and the owner it was given is the one stored.
OneRegistration ==
  \A s, t \in Slave :
    slave[s].pc \in {"reg_mkdir", "reg_match"} =>
      /\ jobs[slave[s].job] = slave[s].owner
      /\ t # s /\ slave[t].pc \in {"reg_mkdir", "reg_match"} => slave[t].job # slave[s].job

\* While the deadline of the upload has not passed, the row commit_upload
\* selected is still there when its update runs (or a concurrent commit of
\* the same client already made it committed); and a commit whose update ran
\* in time finds its own row committed when it looks up the destination,
\* however much later that is.
InTimeCommit ==
  \A s \in Slave : LET me == slave[s] IN
    /\ me.pc = "com_update" /\ clock <= me.seen.deadline =>
         files[me.file] \in {me.seen, Committed(me.seen)}
    /\ me.pc \in {"com_info", "com_match"} /\ me.updated <= me.seen.deadline =>
         files[me.file] = Committed(me.seen)

\* A committed file is never deleted, reopened or given to another uploader,
\* by a late commit, an expiry or a new upload; a registered job keeps its
\* owner.
CommittedForever ==
  [][/\ \A f \in File : files[f].state = "committed" => files'[f] = files[f]
     /\ \A j \in Job : jobs[j] # None => jobs'[j] = jobs[j]]_vars

\* An upload whose client disappeared does not block its file for ever: the
\* row with a given deadline goes away (replaced by a later upload) or is
\* committed.
AbandonedUploadReclaimed ==
  \A f \in File, d \in 0..(MaxClock - 1) :
    (files[f].state = "uploading" /\ files[f].deadline = d)
      ~> ~(files[f].state = "uploading" /\ files[f].deadline = d)

\* The parts that make the invariants above inductive.

\* A slave past store_user relies on the row in users, and one past the
\* select of the job on the row in jobs.
StepReferences ==
  \A s \in Slave : LET me == slave[s] IN
    /\ me.pc = "reg_insert" => me.owner \in users
    /\ me.pc \in UpPC => jobs[me.file[1]] # None
    /\ me.pc \in {"up_expire", "up_insert"} => me.peer \in users

\* Uploads have a deadline and committed files have none.
Deadlines ==
  \A f \in File :
    /\ files[f].state = "uploading" => files[f].deadline \in Nat
    /\ files[f].state = "committed" => files[f].deadline = NULL

\* The row a commit holds was an upload, and the time an expiry uses is past.
StepRows ==
  \A s \in Slave : LET me == slave[s] IN
    /\ me.pc \in ComPC => me.seen.state = "uploading" /\ me.seen.deadline \in Nat
    /\ me.pc = "up_expire" => me.now <= clock

StoreInv ==
  TypeOK /\ References /\ StepReferences /\ OneRegistration
    /\ Deadlines /\ StepRows /\ InTimeCommit
=============================================================================
