------------------------------ MODULE Importer ------------------------------
(***************************************************************************)
(* The importer (client/src/jpimporter.c): slaves take announcements of    *)
(* jobs, dumps and sandboxes from maildir queues, repeat what fails until  *)
(* a time limit and call the Primary Storage.                              *)
(*                                                                         *)
(* The maildir library, the FTP library and the Primary Storage are not    *)
(* part of the importer.  A message that is taken stays in the queue until *)
(* its transaction ends well; it may be taken again Repeat after the last  *)
(* attempt began, as long as it is not older than GivUp.  Calls of the     *)
(* Primary Storage are atomic here (PSStore has their statements).  Times  *)
(* count how long something has lasted, in ticks.                          *)
(***************************************************************************)
EXTENDS Integers, FiniteSets

CONSTANTS
  Slave,        \* slave processes
  Serves,       \* queue each slave reads: [Slave -> Queue]
  Msg,          \* messages
  QueueOf,      \* queue of a message: [Msg -> Queue]
  JobOf,        \* job a message is about: [Msg -> Job]
  Job,
  Malformed,    \* messages that cannot be parsed
  Chunks,       \* length of a file in buffers of gftp_put_file
  Repeat,       \* JP_REPEAT_TIMEOUT, JPREG_REPEAT_TIMEOUT
  GivUp,        \* JP_GIVUP_TIMEOUT, JPREG_GIVUP_TIMEOUT
  UploadTTL,    \* time an upload may take (start_upload of the PS)
  MaxFaults,    \* bound: faults, crashes and delays in a behaviour
  None

Queue == {"reg", "dump", "sandbox"}
File == Job \X (Queue \ {"reg"})
FileOf(m) == <<JobOf[m], QueueOf[m]>>

ASSUME ImporterAssumption ==
  /\ Serves \in [Slave -> Queue]
  /\ QueueOf \in [Msg -> Queue]
  /\ JobOf \in [Msg -> Job]
  /\ Malformed \subseteq Msg
  /\ {Chunks, Repeat, GivUp, UploadTTL, MaxFaults} \subseteq Nat
  /\ Chunks > 0
  /\ None \notin Msg \cup File

VARIABLES
  mail,     \* the queues
  archive,  \* the file a message names, on the disk of the importer
  slave,    \* slave processes
  owner,    \* PS: owner of a registered job
  row,      \* PS: row of a file
  data,     \* PS: contents of a file
  faults    \* faults so far

psVars == <<owner, row, data>>
vars == <<mail, archive, slave, owner, row, data, faults>>

First == [reg |-> "register", dump |-> "start", sandbox |-> "sandbox_start"]
PC == {"idle", "check", "failsafe", "open", "put", "commit", "remove", "succeeded"}
      \cup {First[q] : q \in Queue}

Mail == [st: {"unsent", "new", "work", "done"}, age: 0 .. GivUp, last: 0 .. Repeat]
Row == [st: {"absent", "uploading", "committed"}, left: -1 .. UploadTTL]
Data == [of: Msg \cup {None}, whole: BOOLEAN]

Local == [pc: PC,
          readnew: BOOLEAN,           \* new messages first, or repeated ones
          msg: Msg \cup {None},
          retry: 0 .. 2,              \* retry_upload
          dest: File \cup {None},     \* su_out.destination, None for NULL
          old: File \cup {None},      \* what the variable held before
          pos: 0 .. Chunks,           \* position in the file
          puts: 0 .. 1]               \* gftp_retried

Fresh == [pc |-> "idle", readnew |-> TRUE, msg |-> None, retry |-> 2, dest |-> None,
          old |-> None, pos |-> 0, puts |-> 0]

Init ==
  /\ mail = [m \in Msg |-> [st |-> "unsent", age |-> 0, last |-> 0]]
  /\ archive = [m \in Msg |-> "absent"]
  /\ slave = [s \in Slave |-> Fresh]
  /\ owner = [j \in Job |-> "nobody"]
  /\ row = [f \in File |-> [st |-> "absent", left |-> 0]]
  /\ data = [f \in File |-> [of |-> None, whole |-> FALSE]]
  /\ faults = 0

Min2(x, y) == IF x < y THEN x ELSE y
At(s, label) == slave[s].pc = label
Becomes(s, l) == slave' = [slave EXCEPT ![s] = l]
Goto(s, label) == Becomes(s, [slave[s] EXCEPT !.pc = label])
M(s) == slave[s].msg

Fine == UNCHANGED faults
Fault == faults < MaxFaults /\ faults' = faults + 1

-----------------------------------------------------------------------------
(* Announcements *)

\* The LB server stores a message about a job, or about a dump it has written.
Announce(m) ==
  /\ QueueOf[m] # "sandbox"
  /\ mail[m].st = "unsent"
  /\ mail' = [mail EXCEPT ![m].st = "new"]
  /\ archive' = [archive EXCEPT ![m] = "complete"]
  /\ UNCHANGED <<slave, psVars, faults>>

\* The message is stored before tar_close writes the end of the archive.
UploadFiles(m) ==
  /\ QueueOf[m] = "sandbox"
  /\ mail[m].st = "unsent"
  /\ archive[m] = "absent"
  /\ mail' = [mail EXCEPT ![m].st = "new"]
  /\ archive' = [archive EXCEPT ![m] = "open"]
  /\ UNCHANGED <<slave, psVars, faults>>

TarClose(m) ==
  /\ archive[m] = "open"
  /\ archive' = [archive EXCEPT ![m] = "complete"]
  /\ UNCHANGED <<mail, slave, psVars, faults>>

-----------------------------------------------------------------------------
(* Transactions of the queues *)

\* MaildirTransStart and MaildirRetryTransStart.
New(q) == {m \in Msg : QueueOf[m] = q /\ mail[m].st = "new"}
Repeated(q) == {m \in Msg : /\ QueueOf[m] = q /\ mail[m].st = "work"
                            /\ mail[m].last = Repeat /\ mail[m].age < GivUp}
Offered(q, readnew) == IF readnew THEN New(q) ELSE Repeated(q)

ParseMsg(m) == m \notin Malformed

\* A slave goes on with one kind of messages until none is left, then tries
\* the other kind.  A message that cannot be parsed is dropped.
TransStart(s, m) ==
  LET q == Serves[s]
      readnew == IF Offered(q, slave[s].readnew) # {}
                 THEN slave[s].readnew ELSE ~slave[s].readnew
  IN /\ At(s, "idle")
     /\ m \in Offered(q, readnew)
     /\ mail' = [mail EXCEPT ![m].st = "work", ![m].last = 0]
     /\ Becomes(s, [Fresh EXCEPT
          !.pc = IF ParseMsg(m) THEN First[q] ELSE "succeeded",
          !.readnew = readnew, !.msg = m, !.old = slave[s].old])
     /\ UNCHANGED <<archive, psVars, faults>>

\* What is left in the process after a message.  The pointers the sandbox importer
\* got stay where they were.
After(s) ==
  LET l == slave[s] IN
  [Fresh EXCEPT !.readnew = l.readnew,
                !.old = IF Serves[s] # "sandbox" THEN None
                        ELSE IF l.dest # None THEN l.dest ELSE l.old]

\* LBMD_TRANS_OK removes the message, LBMD_TRANS_FAILED_RETRY leaves it as it is:
\* Failed is where a failed attempt leaves the slave.
Failed(s) == After(s)

TransEnd(s) ==
  /\ At(s, "succeeded")
  /\ mail' = [mail EXCEPT ![M(s)].st = "done"]
  /\ Becomes(s, After(s))
  /\ UNCHANGED <<archive, psVars, faults>>

-----------------------------------------------------------------------------
(* Calls of the Primary Storage *)

\* A call is served and answered, served without the answer getting through
\* (JPPS_NO_RESPONSE_TIMEOUT), refused, or does not get there.
Call(s, possible, Effect, ok, fault) ==
  \/ possible /\ Effect /\ Fine /\ Becomes(s, ok)
  \/ possible /\ Effect /\ Fault /\ Becomes(s, fault)
  \/ ~possible /\ UNCHANGED psVars /\ Fine /\ Becomes(s, fault)
  \/ UNCHANGED psVars /\ Fault /\ Becomes(s, fault)

To(s, label) == [slave[s] EXCEPT !.pc = label]

RegisterEffect(j, o) == owner' = [owner EXCEPT ![j] = o] /\ UNCHANGED <<row, data>>

\* reg_importer.  A second registration of a job is refused.
RegisterJob(s) ==
  /\ At(s, "register")
  /\ Call(s, owner[JobOf[M(s)]] = "nobody", RegisterEffect(JobOf[M(s)], "user"),
          To(s, "succeeded"), Failed(s))
  /\ UNCHANGED <<mail, archive>>

\* The PS takes an upload of a registered job unless the file is stored or an
\* upload of it has not expired.
Free(f) == row[f].st = "absent" \/ (row[f].st = "uploading" /\ row[f].left = -1)
Startable(f) == owner[f[1]] # "nobody" /\ Free(f)
StartEffect(f) ==
  /\ row' = [row EXCEPT ![f] = [st |-> "uploading", left |-> UploadTTL]]
  /\ UNCHANGED <<owner, data>>

StartUpload(s) ==
  LET f == FileOf(M(s)) IN
  /\ At(s, "start")
  /\ Call(s, Startable(f), StartEffect(f),
          [slave[s] EXCEPT !.pc = "open", !.dest = f], To(s, "check"))
  /\ UNCHANGED <<mail, archive>>

\* The sandbox importer goes on after a fault: with NULL, or, when there was no
\* connection at all, with what the uninitialized variable happens to hold.
SandboxStart(s) ==
  LET f == FileOf(M(s)) IN
  /\ At(s, "sandbox_start")
  /\ \/ Call(s, Startable(f), StartEffect(f),
             [slave[s] EXCEPT !.pc = "open", !.dest = f], To(s, "open"))
     \/ /\ slave[s].old # None
        /\ Fault /\ UNCHANGED psVars
        /\ Becomes(s, [slave[s] EXCEPT !.pc = "open", !.dest = slave[s].old])
  /\ UNCHANGED <<mail, archive>>

\* GetJobAttributes: an answer that cannot be decoded (-2) counts as "job not
\* found".
CheckJob(s) ==
  LET known == owner[JobOf[M(s)]] # "nobody" IN
  /\ At(s, "check")
  /\ \/ known /\ Fine /\ Becomes(s, Failed(s))
     \/ ~known /\ Fine /\ Goto(s, "failsafe")
     \/ Fault /\ Becomes(s, Failed(s))
     \/ Fault /\ Goto(s, "failsafe")
  /\ UNCHANGED <<mail, archive, psVars>>

\* Mutant: the job is not registered, only reported.
FailsafeRegister_Skipped(s) ==
  /\ At(s, "failsafe")
  /\ Becomes(s, Failed(s))
  /\ UNCHANGED <<mail, archive, psVars, faults>>

\* The job is registered with the importer as its owner, then StartUpload is
\* repeated once.
FailsafeRegister(s) ==
  LET n == slave[s].retry - 1 IN
  /\ At(s, "failsafe")
  /\ Call(s, owner[JobOf[M(s)]] = "nobody", RegisterEffect(JobOf[M(s)], "importer"),
          IF n > 0 THEN [slave[s] EXCEPT !.pc = "start", !.retry = n] ELSE Failed(s),
          Failed(s))
  /\ UNCHANGED <<mail, archive>>

OpenFile(s) ==
  /\ At(s, "open")
  /\ \/ archive[M(s)] # "absent" /\ slave[s].dest # None /\ Goto(s, "put")
     \* gftp_put_file fails twice without reading when there is no destination
     \/ (archive[M(s)] = "absent" \/ slave[s].dest = None) /\ Becomes(s, Failed(s))
  /\ UNCHANGED <<mail, archive, psVars, faults>>

Authorized(f) == row[f].st = "uploading"

\* Mutant: a transfer is repeated without a limit.
PutFails_Endless(s) ==
  \E p \in Min2(slave[s].pos + 1, Chunks) .. Chunks :
    Becomes(s, [slave[s] EXCEPT !.puts = @ + 1, !.pos = p])

\* An attempt that fails is repeated once, from the position in the file the
\* attempt has got to: at least one buffer is read before an error is seen.
PutFails(s) ==
  \/ /\ slave[s].puts = 0
     /\ \E p \in Min2(slave[s].pos + 1, Chunks) .. Chunks :
          Becomes(s, [slave[s] EXCEPT !.puts = 1, !.pos = p])
  \/ slave[s].puts = 1 /\ Becomes(s, Failed(s))

PutFile(s) ==
  LET f == slave[s].dest IN
  /\ At(s, "put")
  /\ \/ /\ Authorized(f) /\ Fine
        /\ data' = [data EXCEPT ![f] =
             [of |-> M(s), whole |-> slave[s].pos = 0 /\ archive[M(s)] # "open"]]
        /\ Becomes(s, [slave[s] EXCEPT !.pc = "commit", !.pos = Chunks])
     \/ /\ Authorized(f) /\ Fault
        /\ data' = [data EXCEPT ![f] = [of |-> M(s), whole |-> FALSE]]
        /\ PutFails(s)
     \/ ~Authorized(f) /\ Fine /\ UNCHANGED data /\ PutFails(s)
  /\ UNCHANGED <<mail, archive, owner, row>>

Committable(f) == row[f].st = "uploading"
CommitEffect(f) ==
  /\ row' = [row EXCEPT ![f] = [st |-> "committed", left |-> 0]]
  /\ UNCHANGED <<owner, data>>

\* Mutant: the answer to CommitUpload is not looked at.
CommitUpload_NoCheck(s) ==
  LET f == slave[s].dest IN
  /\ At(s, "commit")
  /\ Call(s, Committable(f), CommitEffect(f), To(s, "remove"), To(s, "remove"))
  /\ UNCHANGED <<mail, archive>>

CommitUpload(s) ==
  LET f == slave[s].dest IN
  /\ At(s, "commit")
  /\ Call(s, Committable(f), CommitEffect(f),
          To(s, IF Serves[s] = "dump" THEN "remove" ELSE "succeeded"), Failed(s))
  /\ UNCHANGED <<mail, archive>>

\* The dump is unlinked, or moved to the store directory; an error is only printed.
RemoveDump(s) ==
  /\ At(s, "remove")
  /\ \/ Fine /\ archive' = [archive EXCEPT ![M(s)] = "absent"]
     \/ Fault /\ UNCHANGED archive
  /\ Goto(s, "succeeded")
  /\ UNCHANGED <<mail, psVars>>

-----------------------------------------------------------------------------
(* Processes and time *)

\* A slave is killed, or cannot read its queue and exits; the master forks a new
\* one for the same queue.
Restart(s) ==
  /\ slave[s] # Fresh
  /\ Fault
  /\ Becomes(s, Fresh)
  /\ UNCHANGED <<mail, archive, psVars>>

\* MAX_REG_CONNS: a slave ends between two messages.
Retire(s) ==
  /\ At(s, "idle")
  /\ slave[s] # Fresh
  /\ Becomes(s, Fresh)
  /\ UNCHANGED <<mail, archive, psVars, faults>>

Step(s) ==
  \/ \E m \in Msg : TransStart(s, m)
  \/ TransEnd(s) \/ RegisterJob(s) \/ StartUpload(s) \/ CheckJob(s)
  \/ FailsafeRegister(s) \/ OpenFile(s) \/ PutFile(s) \/ CommitUpload(s)
  \/ RemoveDump(s)

Resting(s) == At(s, "idle") /\ New(Serves[s]) \cup Repeated(Serves[s]) = {}

\* Time passes while all slaves sleep; that it passes while one of them is at
\* work counts as a fault.
Tick ==
  /\ \/ (\A s \in Slave : Resting(s)) /\ Fine
     \/ (\E s \in Slave : ~Resting(s)) /\ Fault
  /\ mail' = [m \in Msg |->
       IF mail[m].st # "work" THEN mail[m]
       ELSE [mail[m] EXCEPT !.age = Min2(@ + 1, GivUp), !.last = Min2(@ + 1, Repeat)]]
  /\ row' = [f \in File |->
       IF row[f].st = "uploading" /\ row[f].left >= 0
       THEN [row[f] EXCEPT !.left = @ - 1] ELSE row[f]]
  /\ UNCHANGED <<archive, slave, owner, data>>

\* Registrations and dumps.
Next ==
  \/ \E m \in Msg : Announce(m)
  \/ \E s \in Slave : Step(s) \/ Restart(s) \/ Retire(s)
  \/ Tick

Spec == Init /\ [][Next]_vars

\* Sandboxes too.
SandboxNext ==
  \/ Next
  \/ \E m \in Msg : UploadFiles(m) \/ TarClose(m)
  \/ \E s \in Slave : SandboxStart(s)

SandboxSpec == Init /\ [][SandboxNext]_vars

(***************************************************************************)
(* Slaves go on, the master restarts them, and time passes.                *)
(***************************************************************************)
FairSpec == Spec /\ WF_vars(Tick) /\ \A s \in Slave : WF_vars(Step(s))

-----------------------------------------------------------------------------
(* Properties *)

\* Every variable holds a value of its type; a slave at work has a message of
\* its queue.
TypeOK ==
  /\ mail \in [Msg -> Mail]
  /\ archive \in [Msg -> {"absent", "open", "complete"}]
  /\ slave \in [Slave -> Local]
  /\ \A s \in Slave : ~At(s, "idle") =>
       M(s) \in Msg /\ QueueOf[M(s)] = Serves[s]
  /\ owner \in [Job -> {"nobody", "user", "importer"}]
  /\ row \in [File -> Row]
  /\ data \in [File -> Data]
  /\ faults \in 0 .. MaxFaults

Wellformed(q) == {m \in Msg \ Malformed : QueueOf[m] = q}

\* What the PS has of a message.
Stored(m) ==
  \/ QueueOf[m] = "reg" /\ owner[JobOf[m]] # "nobody"
  \/ QueueOf[m] # "reg" /\ row[FileOf(m)].st = "committed"

\* A message leaves its queue, and a dump the disk of the importer, only after the
\* PS has acknowledged what it is about: the registration with the owner the
\* message names, the commit of the dump.  However slaves die, two of them work on
\* one message, or answers are lost (dump_importer, reg_importer).
GoneMeansStored ==
  /\ \A m \in Wellformed("reg") : mail[m].st = "done" => owner[JobOf[m]] = "user"
  /\ \A m \in Wellformed("dump") :
       mail[m].st = "done" \/ (mail[m].st = "work" /\ archive[m] = "absent")
         => row[FileOf(m)].st = "committed"

\* Every announced job is registered and every announced dump is committed in the
\* end, before the time limit of the queue drops the message, as long as there
\* are fewer faults, crashes and delays than repetitions in that time.  An upload left by a failed
\* attempt has expired when the message is repeated, and a dump of a job nobody
\* registered registers it.
Delivered ==
  \A m \in Wellformed("reg") \cup Wellformed("dump") :
    mail[m].st # "unsent" ~> Stored(m)

\* A file whose message has left the queue is stored for its job, and whole: the
\* users' files like the dumps.
GoneMeansWhole ==
  \A m \in Wellformed("dump") \cup Wellformed("sandbox") :
    mail[m].st = "done" =>
      /\ row[FileOf(m)].st = "committed"
      /\ data[FileOf(m)] = [of |-> m, whole |-> TRUE]
=============================================================================
