--------------------------- MODULE ImporterProofs ---------------------------
(***************************************************************************)
(* Proofs about Importer for every set of slaves, messages and jobs, and   *)
(* any time limits and number of faults: its types, and that nothing       *)
(* leaves a queue or the disk before the Primary Storage has acknowledged  *)
(* it.  They are made for the importer with its sandbox slaves             *)
(* (SandboxSpec), whose behaviours include those of Spec.                  *)
(***************************************************************************)
EXTENDS Importer, TLAPS

\* Where a slave of a queue can be.
Stages ==
  [reg |-> {"idle", "register", "succeeded"},
   dump |-> {"idle", "start", "check", "failsafe", "open", "put", "commit", "remove",
             "succeeded"},
   sandbox |-> {"idle", "sandbox_start", "open", "put", "commit", "succeeded"}]

\* What slave s may hold: a message of its queue, and, when it imports dumps, no
\* destination but that of the message.
Proper(s, l) ==
  /\ l \in Local
  /\ l.pc \in Stages[Serves[s]]
  /\ l.pc # "idle" => l.msg \in Msg /\ QueueOf[l.msg] = Serves[s]
  /\ l.pc \in {"put", "commit"} => l.dest \in File
  /\ Serves[s] = "dump" /\ l.pc # "idle" => l.dest \in {None, FileOf(l.msg)}

\* A slave that has done with a message has the acknowledgement of the PS: owners o
\* and rows r hold what the message is about.
Acked(s, l, o, r) ==
  l.msg \notin Malformed =>
    /\ Serves[s] = "reg" /\ l.pc = "succeeded" => o[JobOf[l.msg]] = "user"
    /\ Serves[s] = "dump" /\ l.pc \in {"remove", "succeeded"} =>
         r[FileOf(l.msg)].st = "committed"

\* The dump of a message that has been announced leaves the disk after its commit.
Unlinked ==
  \A m \in Wellformed("dump") :
    mail[m].st # "unsent" /\ archive[m] = "absent" => row[FileOf(m)].st = "committed"

TypeInv == TypeOK /\ \A s \in Slave : Proper(s, slave[s])

ImporterInv ==
  /\ TypeInv
  /\ \A s \in Slave : Acked(s, slave[s], owner, row)
  /\ Unlinked
  /\ GoneMeansStored

-----------------------------------------------------------------------------
(* Steps and their effects.                                                 *)

\* A step is an announcement, a step of a slave or the passing of time.
LEMMA StepCases ==
  ASSUME [SandboxNext]_vars
  PROVE  \/ \E m \in Msg : Announce(m)
         \/ \E m \in Msg : UploadFiles(m)
         \/ \E m \in Msg : TarClose(m)
         \/ \E s \in Slave, m \in Msg : TransStart(s, m)
         \/ \E s \in Slave : TransEnd(s)
         \/ \E s \in Slave : RegisterJob(s)
         \/ \E s \in Slave : StartUpload(s)
         \/ \E s \in Slave : SandboxStart(s)
         \/ \E s \in Slave : CheckJob(s)
         \/ \E s \in Slave : FailsafeRegister(s)
         \/ \E s \in Slave : OpenFile(s)
         \/ \E s \in Slave : PutFile(s)
         \/ \E s \in Slave : CommitUpload(s)
         \/ \E s \in Slave : RemoveDump(s)
         \/ \E s \in Slave : Restart(s)
         \/ \E s \in Slave : Retire(s)
         \/ Tick
         \/ UNCHANGED vars
BY DEF SandboxNext, Next, Step

LEMMA FileTypes ==
  /\ \A m \in Msg : JobOf[m] \in Job /\ QueueOf[m] \in Queue
  /\ \A m \in Msg : QueueOf[m] # "reg" => FileOf(m) \in File /\ FileOf(m) # None
BY ImporterAssumption DEF FileOf, File

LEMMA SlaveTypes ==
  \A s \in Slave : Serves[s] \in {"reg", "dump", "sandbox"}
BY ImporterAssumption DEF Queue

\* A slave between two messages, with what is left of the last one.
LEMMA FreshType ==
  /\ Fresh \in Local /\ Fresh.pc = "idle" /\ Fresh.dest = None
  /\ Chunks \in Nat
<1>1. Chunks \in Nat
  BY ImporterAssumption
<1> QED
  BY <1>1 DEF Fresh, Local, PC

LEMMA FreshProper ==
  ASSUME NEW s \in Slave PROVE Proper(s, Fresh) /\ Fresh.pc = "idle"
BY FreshType, SlaveTypes DEF Proper, Stages

LEMMA IdleProper ==
  ASSUME NEW s \in Slave, NEW b \in BOOLEAN, NEW d \in File \cup {None},
         NEW l, l = [Fresh EXCEPT !.readnew = b, !.old = d]
  PROVE  Proper(s, l) /\ l.pc = "idle"
<1>1. l \in Local /\ l.pc = "idle"
  BY FreshType DEF Local
<1> QED
  BY <1>1, SlaveTypes DEF Proper, Stages

LEMMA AfterProper ==
  ASSUME NEW s \in Slave, Proper(s, slave[s])
  PROVE  Proper(s, After(s)) /\ After(s).pc = "idle"
<1>1. slave[s].readnew \in BOOLEAN /\ {slave[s].dest, slave[s].old} \subseteq File \cup {None}
  BY DEF Proper, Local
<1> DEFINE b == slave[s].readnew
           d == IF Serves[s] # "sandbox" THEN None
                ELSE IF slave[s].dest # None THEN slave[s].dest ELSE slave[s].old
<1>2. b \in BOOLEAN /\ d \in File \cup {None}
  BY <1>1
<1>3. After(s) = [Fresh EXCEPT !.readnew = b, !.old = d]
  BY DEF After
<1> HIDE DEF b, d
<1> QED
  BY <1>2, <1>3, IdleProper

-----------------------------------------------------------------------------
(* What a step of a slave leaves: the slave, the PS and the queues.         *)

\* The PS forgets no registration and no commit.
PSKeeps ==
  /\ owner' \in [Job -> {"nobody", "user", "importer"}]
  /\ row' \in [File -> Row]
  /\ data' \in [File -> Data]
  /\ \A j \in Job : owner[j] # "nobody" => owner'[j] = owner[j]
  /\ \A f \in File : row[f].st = "committed" => row'[f].st = "committed"

\* The slave goes on with something proper, acknowledged as far as it says.
Moves(s) ==
  /\ \E l : Becomes(s, l) /\ Proper(s, l) /\ Acked(s, l, owner', row')
  /\ faults' \in 0 .. MaxFaults

LEMMA PSUnchanged ==
  ASSUME TypeOK, UNCHANGED psVars
  PROVE  PSKeeps
BY DEF TypeOK, PSKeeps, psVars

LEMMA Faulty ==
  ASSUME TypeOK, Fine \/ Fault
  PROVE  faults' \in 0 .. MaxFaults
BY ImporterAssumption DEF TypeOK, Fine, Fault

LEMMA Registered ==
  ASSUME TypeOK, NEW j \in Job, NEW o \in {"user", "importer"},
         owner[j] = "nobody", RegisterEffect(j, o)
  PROVE  PSKeeps /\ owner'[j] = o
BY DEF TypeOK, PSKeeps, RegisterEffect

LEMMA Started ==
  ASSUME TypeOK, NEW f \in File, Startable(f), StartEffect(f)
  PROVE  PSKeeps
<1>1. [st |-> "uploading", left |-> UploadTTL] \in Row
  BY ImporterAssumption DEF Row
<1>2. row[f].st # "committed"
  BY DEF Startable, Free
<1> QED
  BY <1>1, <1>2 DEF TypeOK, PSKeeps, StartEffect

LEMMA Committed ==
  ASSUME TypeOK, NEW f \in File, CommitEffect(f)
  PROVE  PSKeeps /\ row'[f].st = "committed"
<1>1. [st |-> "committed", left |-> 0] \in Row
  BY ImporterAssumption DEF Row
<1> QED
  BY <1>1 DEF TypeOK, PSKeeps, CommitEffect

\* A slave that goes back to its queue has nothing to show.
LEMMA MovesIdle ==
  ASSUME NEW s \in Slave, NEW l, Becomes(s, l), Proper(s, l), l.pc = "idle",
         faults' \in 0 .. MaxFaults
  PROVE  Moves(s)
<1>1. Acked(s, l, owner', row')
  BY DEF Acked
<1> QED
  BY <1>1 DEF Moves

LEMMA MovesAfter ==
  ASSUME NEW s \in Slave, Proper(s, slave[s]), Becomes(s, Failed(s)), faults' \in 0 .. MaxFaults
  PROVE  Moves(s)
<1>1. Proper(s, After(s)) /\ After(s).pc = "idle"
  BY AfterProper
<1> PICK l : l = After(s)
  OBVIOUS
<1> QED
  BY <1>1, MovesIdle DEF Failed

LEMMA StageTypes == \A q \in Queue : Stages[q] \subseteq PC
<1>1. {"register", "start", "sandbox_start"} \subseteq PC
  BY DEF PC, First, Queue
<1> QED
  BY <1>1 DEF Stages, Queue, PC

\* A slave that goes on with its message.
LEMMA GoesOn ==
  ASSUME NEW s \in Slave, Proper(s, slave[s]), slave[s].pc # "idle",
         NEW label \in Stages[Serves[s]], label # "idle",
         label \in {"put", "commit"} => slave[s].dest \in File,
         NEW l, l = To(s, label)
  PROVE  Proper(s, l) /\ l.pc = label /\ l.msg = slave[s].msg /\ l.dest = slave[s].dest
<1>1. label \in PC /\ slave[s] \in Local
  BY StageTypes, SlaveTypes DEF Queue, Proper
<1>2. l \in Local /\ l.pc = label /\ l.msg = slave[s].msg /\ l.dest = slave[s].dest
  BY <1>1 DEF To, Local
<1> QED
  BY <1>2 DEF Proper

LEMMA RegisterJobStep ==
  ASSUME TypeInv, NEW s \in Slave, RegisterJob(s)
  PROVE  Moves(s) /\ PSKeeps
<1>0. TypeOK /\ Proper(s, slave[s]) /\ slave[s].pc = "register"
  BY DEF TypeInv, RegisterJob, At
<1>1. Serves[s] = "reg" /\ slave[s].msg \in Msg
  BY <1>0, SlaveTypes DEF Proper, Stages
<1> PICK m \in Msg : m = slave[s].msg
  BY <1>1
<1> PICK j \in Job : j = JobOf[m]
  BY FileTypes
<1>2. \/ owner[j] = "nobody" /\ RegisterEffect(j, "user") /\ Fine /\ Becomes(s, To(s, "succeeded"))
      \/ owner[j] = "nobody" /\ RegisterEffect(j, "user") /\ Fault /\ Becomes(s, Failed(s))
      \/ UNCHANGED psVars /\ (Fine \/ Fault) /\ Becomes(s, Failed(s))
  BY DEF RegisterJob, Call, M
<1>3. PSKeeps /\ faults' \in 0 .. MaxFaults
  BY <1>0, <1>2, PSUnchanged, Registered, Faulty
<1>4. CASE owner[j] = "nobody" /\ RegisterEffect(j, "user") /\ Becomes(s, To(s, "succeeded"))
  <2> PICK l : l = To(s, "succeeded")
    OBVIOUS
  <2>1. Proper(s, l) /\ l.pc = "succeeded" /\ l.msg = m
    BY <1>0, <1>1, GoesOn DEF Stages
  <2>2. owner'[j] = "user"
    BY <1>0, <1>4, Registered
  <2>3. Acked(s, l, owner', row')
    BY <1>1, <2>1, <2>2 DEF Acked
  <2> QED
    BY <1>3, <1>4, <2>1, <2>3 DEF Moves
<1>5. CASE Becomes(s, Failed(s))
  BY <1>0, <1>3, <1>5, MovesAfter
<1> QED
  BY <1>2, <1>3, <1>4, <1>5

\* A slave that has got a destination for the dump or the sandbox.
LEMMA GetsDest ==
  ASSUME NEW s \in Slave, Proper(s, slave[s]), slave[s].pc \in {"start", "sandbox_start"},
         NEW d \in File, Serves[s] = "dump" => d = FileOf(slave[s].msg),
         NEW l, l = [slave[s] EXCEPT !.pc = "open", !.dest = d]
  PROVE  Proper(s, l) /\ l.pc = "open"
<1>1. Serves[s] \in {"dump", "sandbox"}
  BY SlaveTypes DEF Proper, Stages
<1>2. l \in Local /\ l.pc = "open" /\ l.msg = slave[s].msg /\ l.dest = d
  BY DEF Proper, Local, PC
<1> QED
  BY <1>1, <1>2 DEF Proper, Stages

\* A slave that has not done with its message yet has nothing to show.
LEMMA MovesOn ==
  ASSUME NEW s \in Slave, NEW l, Becomes(s, l), Proper(s, l),
         l.pc \notin {"remove", "succeeded"}, faults' \in 0 .. MaxFaults
  PROVE  Moves(s)
<1>1. Acked(s, l, owner', row')
  BY DEF Acked
<1> QED
  BY <1>1 DEF Moves

LEMMA StartUploadStep ==
  ASSUME TypeInv, NEW s \in Slave, StartUpload(s)
  PROVE  Moves(s) /\ PSKeeps
<1>0. TypeOK /\ Proper(s, slave[s]) /\ slave[s].pc = "start"
  BY DEF TypeInv, StartUpload, At
<1>1. Serves[s] = "dump" /\ slave[s].msg \in Msg /\ QueueOf[slave[s].msg] = "dump"
  BY <1>0, SlaveTypes DEF Proper, Stages
<1> PICK f \in File : f = FileOf(slave[s].msg)
  BY <1>1, FileTypes
<1> DEFINE o == [slave[s] EXCEPT !.pc = "open", !.dest = f]
<1>2. \/ Startable(f) /\ StartEffect(f) /\ Fine /\ Becomes(s, o)
      \/ Startable(f) /\ StartEffect(f) /\ Fault /\ Becomes(s, To(s, "check"))
      \/ UNCHANGED psVars /\ (Fine \/ Fault) /\ Becomes(s, To(s, "check"))
  BY DEF StartUpload, Call, M
<1>3. PSKeeps /\ faults' \in 0 .. MaxFaults
  BY <1>0, <1>2, PSUnchanged, Started, Faulty
<1>4. CASE Becomes(s, o)
  <2> PICK l : l = o
    OBVIOUS
  <2>1. Proper(s, l) /\ l.pc = "open"
    BY <1>0, GetsDest
  <2> QED
    BY <1>3, <1>4, <2>1, MovesOn
<1>5. CASE Becomes(s, To(s, "check"))
  <2> PICK l : l = To(s, "check")
    OBVIOUS
  <2>1. Proper(s, l) /\ l.pc = "check"
    BY <1>0, <1>1, GoesOn DEF Stages
  <2> QED
    BY <1>3, <1>5, <2>1, MovesOn
<1> QED
  BY <1>2, <1>3, <1>4, <1>5

LEMMA SandboxStartStep ==
  ASSUME TypeInv, NEW s \in Slave, SandboxStart(s)
  PROVE  Moves(s) /\ PSKeeps
<1>0. TypeOK /\ Proper(s, slave[s]) /\ slave[s].pc = "sandbox_start"
  BY DEF TypeInv, SandboxStart, At
<1>1. Serves[s] = "sandbox" /\ slave[s].msg \in Msg /\ QueueOf[slave[s].msg] = "sandbox"
  BY <1>0, SlaveTypes DEF Proper, Stages
<1> PICK f \in File : f = FileOf(slave[s].msg)
  BY <1>1, FileTypes
<1>2. \/ Startable(f) /\ StartEffect(f) /\ (Fine \/ Fault)
      \/ UNCHANGED psVars /\ (Fine \/ Fault)
  BY DEF SandboxStart, Call, M
<1>3. PSKeeps /\ faults' \in 0 .. MaxFaults
  BY <1>0, <1>2, PSUnchanged, Started, Faulty
<1>4. ASSUME NEW d \in File, Becomes(s, [slave[s] EXCEPT !.pc = "open", !.dest = d])
      PROVE  Moves(s)
  <2> PICK l : l = [slave[s] EXCEPT !.pc = "open", !.dest = d]
    OBVIOUS
  <2>1. Proper(s, l) /\ l.pc = "open"
    BY <1>0, <1>1, GetsDest
  <2> QED
    BY <1>3, <1>4, <2>1, MovesOn
<1>5. CASE Becomes(s, To(s, "open"))
  <2> PICK l : l = To(s, "open")
    OBVIOUS
  <2>1. Proper(s, l) /\ l.pc = "open"
    BY <1>0, <1>1, GoesOn DEF Stages
  <2> QED
    BY <1>3, <1>5, <2>1, MovesOn
<1>6. \/ Becomes(s, To(s, "open"))
      \/ Becomes(s, [slave[s] EXCEPT !.pc = "open", !.dest = f])
      \/ slave[s].old # None /\ Becomes(s, [slave[s] EXCEPT !.pc = "open", !.dest = slave[s].old])
  BY DEF SandboxStart, Call, M
<1>7. slave[s].old \in File \cup {None}
  BY <1>0 DEF Proper, Local
<1> QED
  BY <1>3, <1>4, <1>5, <1>6, <1>7

LEMMA CheckJobStep ==
  ASSUME TypeInv, NEW s \in Slave, CheckJob(s)
  PROVE  Moves(s) /\ PSKeeps
<1>0. TypeOK /\ Proper(s, slave[s]) /\ slave[s].pc = "check" /\ UNCHANGED psVars /\ (Fine \/ Fault)
  BY DEF TypeInv, CheckJob, At
<1>1. Serves[s] = "dump"
  BY <1>0, SlaveTypes DEF Proper, Stages
<1>2. PSKeeps /\ faults' \in 0 .. MaxFaults
  BY <1>0, PSUnchanged, Faulty
<1>3. CASE Becomes(s, Failed(s))
  BY <1>0, <1>2, <1>3, MovesAfter
<1>4. CASE Becomes(s, To(s, "failsafe"))
  <2> PICK l : l = To(s, "failsafe")
    OBVIOUS
  <2>1. Proper(s, l) /\ l.pc = "failsafe"
    BY <1>0, <1>1, GoesOn DEF Stages
  <2> QED
    BY <1>2, <1>4, <2>1, MovesOn
<1> QED
  BY <1>2, <1>3, <1>4 DEF CheckJob, Goto, To

LEMMA FailsafeRegisterStep ==
  ASSUME TypeInv, NEW s \in Slave, FailsafeRegister(s)
  PROVE  Moves(s) /\ PSKeeps
<1>0. TypeOK /\ Proper(s, slave[s]) /\ slave[s].pc = "failsafe"
  BY DEF TypeInv, FailsafeRegister, At
<1>1. Serves[s] = "dump" /\ slave[s].msg \in Msg
  BY <1>0, SlaveTypes DEF Proper, Stages
<1> PICK j \in Job : j = JobOf[slave[s].msg]
  BY <1>1, FileTypes
<1> DEFINE n == slave[s].retry - 1
           o == [slave[s] EXCEPT !.pc = "start", !.retry = n]
<1>2. \/ owner[j] = "nobody" /\ RegisterEffect(j, "importer") /\ (Fine \/ Fault)
      \/ UNCHANGED psVars /\ (Fine \/ Fault)
  BY DEF FailsafeRegister, Call, M
<1>3. PSKeeps /\ faults' \in 0 .. MaxFaults
  BY <1>0, <1>2, PSUnchanged, Registered, Faulty
<1>4. CASE Becomes(s, Failed(s))
  BY <1>0, <1>3, <1>4, MovesAfter
<1>5. CASE n > 0 /\ Becomes(s, o)
  <2>1. n \in 0 .. 2
    BY <1>0, <1>5 DEF Proper, Local
  <2> HIDE DEF n
  <2> PICK l : l = o
    OBVIOUS
  <2>2. "start" \in PC
    BY <1>1, StageTypes DEF Stages, Queue
  <2>3. l \in Local /\ l.pc = "start" /\ l.msg = slave[s].msg /\ l.dest = slave[s].dest
    BY <1>0, <2>1, <2>2 DEF Proper, Local
  <2>4. Proper(s, l)
    BY <1>0, <1>1, <2>3 DEF Proper, Stages
  <2> QED
    BY <1>3, <1>5, <2>3, <2>4, MovesOn
<1> QED
  BY <1>3, <1>4, <1>5 DEF FailsafeRegister, Call

LEMMA OpenFileStep ==
  ASSUME TypeInv, NEW s \in Slave, OpenFile(s)
  PROVE  Moves(s) /\ PSKeeps
<1>0. TypeOK /\ Proper(s, slave[s]) /\ slave[s].pc = "open" /\ UNCHANGED psVars /\ Fine
  BY DEF TypeInv, OpenFile, At, Fine
<1>1. Serves[s] \in {"dump", "sandbox"} /\ slave[s].dest \in File \cup {None}
  BY <1>0, SlaveTypes DEF Proper, Stages, Local
<1>2. PSKeeps /\ faults' \in 0 .. MaxFaults
  BY <1>0, PSUnchanged, Faulty
<1>3. CASE Becomes(s, Failed(s))
  BY <1>0, <1>2, <1>3, MovesAfter
<1>4. CASE slave[s].dest # None /\ Becomes(s, To(s, "put"))
  <2> PICK l : l = To(s, "put")
    OBVIOUS
  <2>1. "put" \in Stages[Serves[s]]
    BY <1>1 DEF Stages
  <2>2. Proper(s, l) /\ l.pc = "put"
    BY <1>0, <1>1, <1>4, <2>1, GoesOn
  <2> QED
    BY <1>2, <1>4, <2>2, MovesOn
<1> QED
  BY <1>2, <1>3, <1>4 DEF OpenFile, Goto, To

LEMMA PutLocal ==
  ASSUME NEW s \in Slave, Proper(s, slave[s]), slave[s].pc = "put",
         NEW p \in 0 .. Chunks, NEW n \in 0 .. 1, NEW l,
         \/ l = [slave[s] EXCEPT !.pc = "commit", !.pos = p]
         \/ l = [slave[s] EXCEPT !.puts = n, !.pos = p]
  PROVE  Proper(s, l) /\ l.pc \in {"put", "commit"}
<1> PICK x \in Local : x = slave[s]
  BY DEF Proper
<1>1. CASE l = [x EXCEPT !.pc = "commit", !.pos = p]
  <2>1. l \in Local /\ l.pc = "commit" /\ l.msg = x.msg /\ l.dest = x.dest
    BY <1>1 DEF Local, PC
  <2> QED
    BY <2>1, SlaveTypes DEF Proper, Stages
<1>2. CASE l = [x EXCEPT !.puts = n, !.pos = p]
  <2>1. l \in Local /\ l.pc = x.pc /\ l.msg = x.msg /\ l.dest = x.dest
    BY <1>2 DEF Local
  <2> QED
    BY <2>1 DEF Proper
<1> QED
  BY <1>1, <1>2

LEMMA PutFileStep ==
  ASSUME TypeInv, NEW s \in Slave, PutFile(s)
  PROVE  Moves(s) /\ PSKeeps
<1>0. /\ TypeOK /\ Proper(s, slave[s]) /\ slave[s].pc = "put" /\ (Fine \/ Fault)
      /\ UNCHANGED <<owner, row>>
  BY DEF TypeInv, PutFile, At
<1>1. /\ Serves[s] \in {"dump", "sandbox"} /\ slave[s].dest \in File /\ slave[s].msg \in Msg
      /\ slave[s].puts \in 0 .. 1 /\ slave[s].pos \in 0 .. Chunks /\ slave[s] \in Local
  BY <1>0, SlaveTypes DEF Proper, Stages, Local
<1>2. Chunks \in Nat /\ faults' \in 0 .. MaxFaults
  BY <1>0, ImporterAssumption, Faulty
<1>3. data' \in [File -> Data]
  <2>1. \A b \in BOOLEAN : [of |-> slave[s].msg, whole |-> b] \in Data
    BY <1>1 DEF Data
  <2> DEFINE w == slave[s].pos = 0 /\ archive[slave[s].msg] # "open"
  <2>2. w \in BOOLEAN
    OBVIOUS
  <2>3. \/ data' = data
        \/ data' = [data EXCEPT ![slave[s].dest] = [of |-> slave[s].msg, whole |-> w]]
        \/ data' = [data EXCEPT ![slave[s].dest] = [of |-> slave[s].msg, whole |-> FALSE]]
    BY DEF PutFile, M
  <2> HIDE DEF w
  <2> QED
    BY <1>0, <1>1, <2>1, <2>2, <2>3 DEF TypeOK
<1>4. PSKeeps
  BY <1>0, <1>3 DEF PSKeeps, TypeOK
<1>5. CASE Becomes(s, Failed(s))
  BY <1>0, <1>2, <1>4, <1>5, MovesAfter
<1>6. ASSUME NEW p \in 0 .. Chunks, NEW n \in 0 .. 1,
             \/ Becomes(s, [slave[s] EXCEPT !.pc = "commit", !.pos = p])
             \/ Becomes(s, [slave[s] EXCEPT !.puts = n, !.pos = p])
      PROVE  Moves(s)
  <2> PICK l : /\ Becomes(s, l)
               /\ \/ l = [slave[s] EXCEPT !.pc = "commit", !.pos = p]
                  \/ l = [slave[s] EXCEPT !.puts = n, !.pos = p]
    BY <1>6
  <2>1. CASE l = [slave[s] EXCEPT !.pc = "commit", !.pos = p]
    <3>1. Proper(s, l) /\ l.pc \in {"put", "commit"}
      BY <1>0, <2>1, PutLocal
    <3> QED
      BY <1>2, <3>1, MovesOn
  <2>2. CASE l = [slave[s] EXCEPT !.puts = n, !.pos = p]
    <3>1. Proper(s, l) /\ l.pc \in {"put", "commit"}
      BY <1>0, <2>2, PutLocal
    <3> QED
      BY <1>2, <3>1, MovesOn
  <2> QED
    BY <2>1, <2>2
<1>7. Chunks \in 0 .. Chunks
  BY <1>2
<1>8. \A p \in Min2(slave[s].pos + 1, Chunks) .. Chunks : p \in 0 .. Chunks
  BY <1>1, <1>2 DEF Min2
<1>9. CASE Becomes(s, [slave[s] EXCEPT !.pc = "commit", !.pos = Chunks])
  <2> PICK p \in 0 .. Chunks, n \in 0 .. 1 : p = Chunks /\ n = 1
    BY <1>7
  <2> QED
    BY <1>4, <1>6, <1>9
<1>10. CASE PutFails(s)
  <2> PICK n \in 0 .. 1 : n = 1
    OBVIOUS
  <2>1. \/ Becomes(s, Failed(s))
        \/ \E p \in 0 .. Chunks : Becomes(s, [slave[s] EXCEPT !.puts = n, !.pos = p])
    BY <1>8, <1>10 DEF PutFails
  <2> QED
    BY <1>4, <1>5, <1>6, <2>1
<1> QED
  BY <1>9, <1>10 DEF PutFile

LEMMA CommitUploadStep ==
  ASSUME TypeInv, NEW s \in Slave, CommitUpload(s)
  PROVE  Moves(s) /\ PSKeeps
<1>0. TypeOK /\ Proper(s, slave[s]) /\ slave[s].pc = "commit"
  BY DEF TypeInv, CommitUpload, At
<1>1. Serves[s] \in {"dump", "sandbox"} /\ slave[s].dest \in File
  BY <1>0, SlaveTypes DEF Proper, Stages
<1> PICK f \in File : f = slave[s].dest
  BY <1>1
<1> PICK label : label = IF Serves[s] = "dump" THEN "remove" ELSE "succeeded"
  OBVIOUS
<1>2. \/ CommitEffect(f) /\ Fine /\ Becomes(s, To(s, label))
      \/ CommitEffect(f) /\ Fault /\ Becomes(s, Failed(s))
      \/ UNCHANGED psVars /\ (Fine \/ Fault) /\ Becomes(s, Failed(s))
  BY DEF CommitUpload, Call
<1>3. PSKeeps /\ faults' \in 0 .. MaxFaults
  BY <1>0, <1>2, PSUnchanged, Committed, Faulty
<1>4. CASE CommitEffect(f) /\ Becomes(s, To(s, label))
  <2> PICK l : l = To(s, label)
    OBVIOUS
  <2>1. label \in Stages[Serves[s]] /\ label \in {"remove", "succeeded"}
    BY <1>1 DEF Stages
  <2>2. Proper(s, l) /\ l.pc = label /\ l.msg = slave[s].msg /\ l.dest = slave[s].dest
    BY <1>0, <2>1, GoesOn
  <2>3. row'[f].st = "committed"
    BY <1>0, <1>4, Committed
  <2>4. Serves[s] = "dump" => f = FileOf(l.msg)
    BY <1>0, <2>2, ImporterAssumption DEF Proper
  <2>5. Acked(s, l, owner', row')
    BY <1>1, <2>3, <2>4 DEF Acked
  <2> QED
    BY <1>3, <1>4, <2>2, <2>5 DEF Moves
<1>5. CASE Becomes(s, Failed(s))
  BY <1>0, <1>3, <1>5, MovesAfter
<1> QED
  BY <1>2, <1>3, <1>4, <1>5

LEMMA TransStartStep ==
  ASSUME TypeInv, NEW s \in Slave, NEW m \in Msg, TransStart(s, m)
  PROVE  Moves(s) /\ PSKeeps
<1>0. TypeOK /\ Proper(s, slave[s]) /\ UNCHANGED psVars /\ Fine
  BY DEF TypeInv, TransStart, Fine
<1>1. PSKeeps /\ faults' \in 0 .. MaxFaults
  BY <1>0, PSUnchanged, Faulty
<1> PICK q \in {"reg", "dump", "sandbox"} : q = Serves[s]
  BY SlaveTypes
<1> DEFINE b == IF Offered(q, slave[s].readnew) # {} THEN slave[s].readnew ELSE ~slave[s].readnew
           c == IF ParseMsg(m) THEN First[q] ELSE "succeeded"
           d == slave[s].old
<1>2. b \in BOOLEAN /\ d \in File \cup {None}
  BY <1>0 DEF Proper, Local
<1>3. /\ c \in PC /\ c \in Stages[q] /\ c \notin {"idle", "put", "commit", "remove"}
      /\ c = "succeeded" => m \in Malformed
  BY DEF PC, First, Queue, Stages, ParseMsg
<1>4. QueueOf[m] = q
  BY DEF TransStart, Offered, New, Repeated
<1>5. Becomes(s, [Fresh EXCEPT !.pc = c, !.readnew = b, !.msg = m, !.old = d])
  BY DEF TransStart
<1> HIDE DEF b, c, d
<1> PICK l : l = [Fresh EXCEPT !.pc = c, !.readnew = b, !.msg = m, !.old = d]
  OBVIOUS
<1>6. l \in Local /\ l.pc = c /\ l.msg = m /\ l.dest = None
  BY <1>2, <1>3, FreshType DEF Local
<1>7. Proper(s, l)
  BY <1>3, <1>4, <1>6 DEF Proper
<1>8. Acked(s, l, owner', row')
  BY <1>3, <1>6 DEF Acked
<1> QED
  BY <1>1, <1>5, <1>7, <1>8 DEF Moves

LEMMA TransEndStep ==
  ASSUME TypeInv, NEW s \in Slave, TransEnd(s)
  PROVE  Moves(s) /\ PSKeeps
<1>0. TypeOK /\ Proper(s, slave[s]) /\ UNCHANGED psVars /\ Fine /\ Becomes(s, Failed(s))
  BY DEF TypeInv, TransEnd, Fine, Failed
<1>1. PSKeeps /\ faults' \in 0 .. MaxFaults
  BY <1>0, PSUnchanged, Faulty
<1> QED
  BY <1>0, <1>1, MovesAfter

LEMMA RemoveDumpStep ==
  ASSUME TypeInv, NEW s \in Slave, Acked(s, slave[s], owner, row), RemoveDump(s)
  PROVE  Moves(s) /\ PSKeeps
<1>0. /\ TypeOK /\ Proper(s, slave[s]) /\ slave[s].pc = "remove" /\ UNCHANGED psVars
      /\ (Fine \/ Fault) /\ Becomes(s, To(s, "succeeded"))
  BY DEF TypeInv, RemoveDump, Goto, To, At
<1>1. Serves[s] = "dump"
  BY <1>0, SlaveTypes DEF Proper, Stages
<1>2. PSKeeps /\ faults' \in 0 .. MaxFaults
  BY <1>0, PSUnchanged, Faulty
<1> PICK l : l = To(s, "succeeded")
  OBVIOUS
<1>3. Proper(s, l) /\ l.pc = "succeeded" /\ l.msg = slave[s].msg
  BY <1>0, <1>1, GoesOn DEF Stages
<1>4. Acked(s, l, owner', row')
  BY <1>0, <1>1, <1>3 DEF Acked, psVars
<1> QED
  BY <1>0, <1>2, <1>3, <1>4 DEF Moves

LEMMA FreshStep ==
  ASSUME TypeInv, NEW s \in Slave, Restart(s) \/ Retire(s)
  PROVE  Moves(s) /\ PSKeeps /\ UNCHANGED <<mail, archive>>
<1>0. /\ TypeOK /\ UNCHANGED psVars /\ (Fine \/ Fault) /\ Becomes(s, Fresh)
      /\ UNCHANGED <<mail, archive>>
  BY DEF TypeInv, Restart, Retire, Fine
<1>1. PSKeeps /\ faults' \in 0 .. MaxFaults
  BY <1>0, PSUnchanged, Faulty
<1> QED
  BY <1>0, <1>1, FreshProper, MovesIdle

-----------------------------------------------------------------------------
(* The inductive invariant.                                                 *)

\* A slave that does nothing keeps its acknowledgement.
LEMMA SlaveKept ==
  ASSUME ImporterInv, PSKeeps, NEW t \in Slave, slave'[t] = slave[t]
  PROVE  Proper(t, slave'[t]) /\ Acked(t, slave'[t], owner', row')
<1>1. Proper(t, slave[t]) /\ Acked(t, slave[t], owner, row)
  BY DEF ImporterInv, TypeInv
<1> PICK x : x = slave[t]
  OBVIOUS
<1>2. CASE x.pc \in {"remove", "succeeded"}
  <2>1. x.msg \in Msg /\ QueueOf[x.msg] = Serves[t]
    BY <1>1, <1>2 DEF Proper
  <2>2. JobOf[x.msg] \in Job /\ (Serves[t] = "dump" => FileOf(x.msg) \in File)
    BY <2>1, FileTypes
  <2>3. Acked(t, x, owner', row')
    BY <1>1, <2>2 DEF Acked, PSKeeps
  <2> QED
    BY <1>1, <2>3
<1>3. CASE x.pc \notin {"remove", "succeeded"}
  BY <1>1, <1>3 DEF Acked
<1> QED
  BY <1>2, <1>3

\* The slaves after a step of one of them.
LEMMA SlavesStep ==
  ASSUME ImporterInv, NEW s \in Slave, Moves(s), PSKeeps
  PROVE  /\ slave' \in [Slave -> Local] /\ faults' \in 0 .. MaxFaults
         /\ \A t \in Slave : Proper(t, slave'[t]) /\ Acked(t, slave'[t], owner', row')
<1> PICK l : Becomes(s, l) /\ Proper(s, l) /\ Acked(s, l, owner', row')
  BY DEF Moves
<1>1. slave \in [Slave -> Local] /\ l \in Local
  BY DEF ImporterInv, TypeInv, TypeOK, Proper
<1>2. slave' = [slave EXCEPT ![s] = l]
  BY DEF Becomes
<1>3. \A t \in Slave \ {s} : Proper(t, slave'[t]) /\ Acked(t, slave'[t], owner', row')
  BY <1>1, <1>2, SlaveKept
<1>4. Proper(s, slave'[s]) /\ Acked(s, slave'[s], owner', row')
  BY <1>1, <1>2
<1> QED
  BY <1>1, <1>2, <1>3, <1>4 DEF Moves

\* A message that leaves its queue now, a dump that leaves the disk now.
LEMMA QueuesStep ==
  ASSUME ImporterInv, PSKeeps,
         \A m \in Msg \ Malformed :
           /\ mail'[m].st = "done" =>
                \/ mail[m].st = "done"
                \/ /\ QueueOf[m] = "reg" => owner'[JobOf[m]] = "user"
                   /\ QueueOf[m] = "dump" => row'[FileOf(m)].st = "committed"
           /\ mail'[m].st # "unsent" /\ archive'[m] = "absent" =>
                \/ mail[m].st # "unsent" /\ archive[m] = "absent"
                \/ QueueOf[m] = "dump" => row'[FileOf(m)].st = "committed"
  PROVE  Unlinked' /\ GoneMeansStored'
<1>1. ASSUME NEW m \in Wellformed("dump"), row[FileOf(m)].st = "committed"
      PROVE  row'[FileOf(m)].st = "committed"
  BY <1>1, FileTypes DEF Wellformed, PSKeeps
<1>2. ASSUME NEW m \in Wellformed("reg"), owner[JobOf[m]] = "user"
      PROVE  owner'[JobOf[m]] = "user"
  BY <1>2, FileTypes DEF Wellformed, PSKeeps
<1>3. ASSUME NEW m \in Wellformed("dump"), mail'[m].st # "unsent" /\ archive'[m] = "absent"
      PROVE  row'[FileOf(m)].st = "committed"
  BY <1>1, <1>3 DEF ImporterInv, Unlinked, Wellformed
<1>4. ASSUME NEW m \in Wellformed("dump"), mail'[m].st = "done"
      PROVE  row'[FileOf(m)].st = "committed"
  BY <1>1, <1>4 DEF ImporterInv, GoneMeansStored, Wellformed
<1>5. ASSUME NEW m \in Wellformed("reg"), mail'[m].st = "done"
      PROVE  owner'[JobOf[m]] = "user"
  BY <1>2, <1>5 DEF ImporterInv, GoneMeansStored, Wellformed
<1>6. Unlinked'
  BY <1>3 DEF Unlinked, Wellformed, FileOf
<1>7. GoneMeansStored'
  BY <1>3, <1>4, <1>5 DEF GoneMeansStored, Wellformed, FileOf
<1> QED
  BY <1>6, <1>7

LEMMA TypesStep ==
  ASSUME mail' \in [Msg -> Mail], archive' \in [Msg -> {"absent", "open", "complete"}], PSKeeps,
         slave' \in [Slave -> Local], faults' \in 0 .. MaxFaults,
         \A t \in Slave : Proper(t, slave'[t])
  PROVE  TypeInv'
<1>1. \A t \in Slave : slave'[t].pc # "idle" =>
        slave'[t].msg \in Msg /\ QueueOf[slave'[t].msg] = Serves[t]
  BY DEF Proper
<1>2. TypeOK'
  BY <1>1 DEF TypeOK, PSKeeps, At, M
<1> QED
  BY <1>2 DEF TypeInv

\* A step of a slave that leaves the queues and the disk alone.
LEMMA CallKeepsInv ==
  ASSUME ImporterInv, NEW s \in Slave, Moves(s), PSKeeps, UNCHANGED <<mail, archive>>
  PROVE  ImporterInv'
<1>1. Unlinked' /\ GoneMeansStored'
  BY QueuesStep
<1>2. TypeInv'
  BY SlavesStep, TypesStep DEF ImporterInv, TypeInv, TypeOK
<1> QED
  BY <1>1, <1>2, SlavesStep DEF ImporterInv

LEMMA AnnounceKeepsInv ==
  ASSUME ImporterInv, NEW m \in Msg, Announce(m) \/ UploadFiles(m) \/ TarClose(m)
  PROVE  ImporterInv'
<1>0. TypeOK /\ UNCHANGED <<slave, faults>> /\ UNCHANGED psVars
  BY DEF ImporterInv, TypeInv, Announce, UploadFiles, TarClose
<1>1. PSKeeps
  BY <1>0, PSUnchanged
<1>2. /\ mail' = mail \/ mail' = [mail EXCEPT ![m].st = "new"]
      /\ archive' = [archive EXCEPT ![m] = "open"] \/ archive' = [archive EXCEPT ![m] = "complete"]
  BY DEF Announce, UploadFiles, TarClose
<1>3. mail' \in [Msg -> Mail] /\ archive' \in [Msg -> {"absent", "open", "complete"}]
  <2>1. mail' \in [Msg -> Mail]
    BY <1>0, <1>2 DEF TypeOK, Mail
  <2>2. archive' \in [Msg -> {"absent", "open", "complete"}]
    BY <1>0, <1>2 DEF TypeOK
  <2> QED
    BY <2>1, <2>2
<1>4. /\ \A n \in Msg \ {m} : mail'[n] = mail[n] /\ archive'[n] = archive[n]
      /\ archive'[m] # "absent" /\ (mail'[m].st = "done" => mail[m].st = "done")
  BY <1>0, <1>2 DEF TypeOK, Mail
<1>5. Unlinked' /\ GoneMeansStored'
  BY <1>1, <1>4, QueuesStep
<1>6. \A t \in Slave : Proper(t, slave'[t]) /\ Acked(t, slave'[t], owner', row')
  BY <1>0, <1>1, SlaveKept
<1>7. TypeInv'
  BY <1>0, <1>1, <1>3, <1>6, TypesStep DEF TypeOK
<1> QED
  BY <1>5, <1>6, <1>7 DEF ImporterInv

LEMMA TransStartKeepsInv ==
  ASSUME ImporterInv, NEW s \in Slave, NEW m \in Msg, TransStart(s, m)
  PROVE  ImporterInv'
<1>0. TypeOK /\ TypeInv /\ archive' = archive
  BY DEF ImporterInv, TypeInv, TransStart
<1>1. Moves(s) /\ PSKeeps
  BY <1>0, TransStartStep
<1>2. mail' = [mail EXCEPT ![m] = [mail[m] EXCEPT !.st = "work", !.last = 0]]
  BY <1>0 DEF TransStart, TypeOK
<1>3. [mail[m] EXCEPT !.st = "work", !.last = 0] \in Mail
  <2> PICK x \in Mail, n \in 0 .. Repeat : x = mail[m] /\ n = 0
    BY <1>0, ImporterAssumption DEF TypeOK
  <2>1. [x EXCEPT !.st = "work", !.last = n] \in Mail
    BY DEF Mail
  <2> QED
    BY <2>1
<1>4. mail' \in [Msg -> Mail] /\ mail'[m].st = "work" /\ \A n \in Msg \ {m} : mail'[n] = mail[n]
  BY <1>0, <1>2, <1>3 DEF TypeOK, Mail
<1>5. mail[m].st # "unsent"
  BY DEF TransStart, Offered, New, Repeated
<1>6. Unlinked' /\ GoneMeansStored'
  BY <1>0, <1>1, <1>4, <1>5, QueuesStep
<1>7. TypeInv'
  BY <1>0, <1>1, <1>4, SlavesStep, TypesStep DEF TypeOK
<1> QED
  BY <1>1, <1>6, <1>7, SlavesStep DEF ImporterInv

LEMMA TransEndKeepsInv ==
  ASSUME ImporterInv, NEW s \in Slave, TransEnd(s)
  PROVE  ImporterInv'
<1>0. /\ TypeOK /\ TypeInv /\ archive' = archive /\ UNCHANGED psVars /\ slave[s].pc = "succeeded"
      /\ Proper(s, slave[s]) /\ Acked(s, slave[s], owner, row)
  BY DEF ImporterInv, TypeInv, TransEnd, At
<1>1. Moves(s) /\ PSKeeps
  BY <1>0, TransEndStep
<1> PICK m \in Msg : m = slave[s].msg /\ QueueOf[m] = Serves[s]
  BY <1>0 DEF Proper
<1>2. mail' = [mail EXCEPT ![m].st = "done"]
  BY DEF TransEnd, M
<1>3. mail' \in [Msg -> Mail] /\ \A n \in Msg \ {m} : mail'[n] = mail[n]
  BY <1>0, <1>2, SMTT(30) DEF TypeOK, Mail
<1>4. m \notin Malformed => /\ QueueOf[m] = "reg" => owner'[JobOf[m]] = "user"
                            /\ QueueOf[m] = "dump" => row'[FileOf(m)].st = "committed"
  BY <1>0 DEF Acked, psVars
<1>5. Unlinked' /\ GoneMeansStored'
  BY <1>0, <1>1, <1>3, <1>4, QueuesStep
<1>6. TypeInv'
  BY <1>0, <1>1, <1>3, SlavesStep, TypesStep DEF TypeOK
<1> QED
  BY <1>1, <1>5, <1>6, SlavesStep DEF ImporterInv

LEMMA RemoveDumpKeepsInv ==
  ASSUME ImporterInv, NEW s \in Slave, RemoveDump(s)
  PROVE  ImporterInv'
<1>0. /\ TypeOK /\ TypeInv /\ mail' = mail /\ UNCHANGED psVars /\ slave[s].pc = "remove"
      /\ Proper(s, slave[s]) /\ Acked(s, slave[s], owner, row)
  BY DEF ImporterInv, TypeInv, RemoveDump, At
<1>1. Moves(s) /\ PSKeeps
  BY <1>0, RemoveDumpStep
<1> PICK m \in Msg : m = slave[s].msg /\ QueueOf[m] = Serves[s]
  BY <1>0 DEF Proper
<1>2. /\ archive' \in [Msg -> {"absent", "open", "complete"}]
      /\ \A n \in Msg \ {m} : archive'[n] = archive[n]
  BY <1>0 DEF RemoveDump, TypeOK, M
<1>3. m \notin Malformed /\ QueueOf[m] = "dump" => row'[FileOf(m)].st = "committed"
  BY <1>0 DEF Acked, psVars
<1>4. Unlinked' /\ GoneMeansStored'
  BY <1>0, <1>1, <1>2, <1>3, QueuesStep
<1>5. TypeInv'
  BY <1>0, <1>1, <1>2, SlavesStep, TypesStep DEF TypeOK
<1> QED
  BY <1>1, <1>4, <1>5, SlavesStep DEF ImporterInv

LEMMA TickKeepsInv ==
  ASSUME ImporterInv, Tick
  PROVE  ImporterInv'
<1>0. TypeOK /\ UNCHANGED <<archive, slave, owner, data>> /\ (Fine \/ Fault)
  BY DEF ImporterInv, TypeInv, Tick
<1>1. faults' \in 0 .. MaxFaults /\ {Repeat, GivUp, UploadTTL} \subseteq Nat
  BY <1>0, ImporterAssumption, Faulty
<1>2. mail' \in [Msg -> Mail] /\ \A m \in Msg : mail'[m].st = mail[m].st
  <2>1. ASSUME NEW m \in Msg
        PROVE  mail'[m] \in Mail /\ mail'[m].st = mail[m].st
    <3> PICK x \in Mail : x = mail[m]
      BY <1>0 DEF TypeOK
    <3> DEFINE a == Min2(x.age + 1, GivUp)
               b == Min2(x.last + 1, Repeat)
    <3>1. a \in 0 .. GivUp /\ b \in 0 .. Repeat
      BY <1>1 DEF Min2, Mail
    <3>2. mail'[m] = x \/ mail'[m] = [x EXCEPT !.age = a, !.last = b]
      BY DEF Tick
    <3> HIDE DEF a, b
    <3> QED
      BY <3>1, <3>2 DEF Mail
  <2>2. mail' = [m \in Msg |-> mail'[m]]
    BY DEF Tick
  <2> QED
    BY <2>1, <2>2
<1>3. row' \in [File -> Row] /\ \A f \in File : row'[f].st = row[f].st
  <2>1. ASSUME NEW f \in File
        PROVE  row'[f] \in Row /\ row'[f].st = row[f].st
    <3> PICK x \in Row : x = row[f]
      BY <1>0 DEF TypeOK
    <3> DEFINE n == x.left - 1
    <3>1. x.left >= 0 => n \in -1 .. UploadTTL
      BY <1>1 DEF Row
    <3>2. row'[f] = x \/ (x.left >= 0 /\ row'[f] = [x EXCEPT !.left = n])
      BY DEF Tick
    <3> HIDE DEF n
    <3> QED
      BY <3>1, <3>2 DEF Row
  <2>2. row' = [f \in File |-> row'[f]]
    BY DEF Tick
  <2> QED
    BY <2>1, <2>2
<1>4. PSKeeps
  BY <1>0, <1>3 DEF PSKeeps, TypeOK
<1>5. Unlinked' /\ GoneMeansStored'
  BY <1>0, <1>2, <1>4, QueuesStep
<1>6. \A t \in Slave : Proper(t, slave'[t]) /\ Acked(t, slave'[t], owner', row')
  BY <1>0, <1>4, SlaveKept
<1>7. TypeInv'
  BY <1>0, <1>1, <1>2, <1>4, <1>6, TypesStep DEF TypeOK
<1> QED
  BY <1>5, <1>6, <1>7 DEF ImporterInv

LEMMA InvInit == Init => ImporterInv
<1> SUFFICES ASSUME Init PROVE ImporterInv
  OBVIOUS
<1>1. {Repeat, GivUp, UploadTTL, MaxFaults} \subseteq Nat
  BY ImporterAssumption
<1>2. \A s \in Slave : slave[s] = Fresh /\ Proper(s, slave[s]) /\ slave[s].pc = "idle"
  BY FreshProper DEF Init
<1>3. TypeOK
  <2>1. mail \in [Msg -> Mail] /\ row \in [File -> Row] /\ data \in [File -> Data]
    <3>1. [st |-> "unsent", age |-> 0, last |-> 0] \in Mail
      BY <1>1 DEF Mail
    <3>2. [st |-> "absent", left |-> 0] \in Row
      BY <1>1 DEF Row
    <3>3. [of |-> None, whole |-> FALSE] \in Data
      BY DEF Data
    <3> QED
      BY <3>1, <3>2, <3>3 DEF Init
  <2>2. slave \in [Slave -> Local] /\ \A s \in Slave : At(s, "idle")
    BY <1>2, FreshType DEF Init, At
  <2>3. archive \in [Msg -> {"absent", "open", "complete"}] /\ faults \in 0 .. MaxFaults
    BY <1>1 DEF Init
  <2>4. owner \in [Job -> {"nobody", "user", "importer"}]
    BY DEF Init
  <2> QED
    BY <2>1, <2>2, <2>3, <2>4 DEF TypeOK
<1>4. \A s \in Slave : Acked(s, slave[s], owner, row)
  BY <1>2 DEF Acked
<1>5. Unlinked /\ GoneMeansStored
  BY DEF Init, Unlinked, GoneMeansStored, Wellformed
<1> QED
  BY <1>2, <1>3, <1>4, <1>5 DEF ImporterInv, TypeInv

LEMMA InvStep == ImporterInv /\ [SandboxNext]_vars => ImporterInv'
<1> SUFFICES ASSUME ImporterInv, [SandboxNext]_vars PROVE ImporterInv'
  OBVIOUS
<1>0. TypeInv
  BY DEF ImporterInv
<1>1. CASE \E m \in Msg : Announce(m) \/ UploadFiles(m) \/ TarClose(m)
  BY <1>1, AnnounceKeepsInv
<1>2. CASE \E s \in Slave, m \in Msg : TransStart(s, m)
  BY <1>2, TransStartKeepsInv
<1>3. CASE \E s \in Slave : TransEnd(s)
  BY <1>3, TransEndKeepsInv
<1>4. CASE \E s \in Slave : RegisterJob(s)
  BY <1>0, <1>4, RegisterJobStep, CallKeepsInv DEF RegisterJob
<1>5. CASE \E s \in Slave : StartUpload(s)
  BY <1>0, <1>5, StartUploadStep, CallKeepsInv DEF StartUpload
<1>6. CASE \E s \in Slave : SandboxStart(s)
  BY <1>0, <1>6, SandboxStartStep, CallKeepsInv DEF SandboxStart
<1>7. CASE \E s \in Slave : CheckJob(s)
  BY <1>0, <1>7, CheckJobStep, CallKeepsInv DEF CheckJob
<1>8. CASE \E s \in Slave : FailsafeRegister(s)
  BY <1>0, <1>8, FailsafeRegisterStep, CallKeepsInv DEF FailsafeRegister
<1>9. CASE \E s \in Slave : OpenFile(s)
  BY <1>0, <1>9, OpenFileStep, CallKeepsInv DEF OpenFile
<1>10. CASE \E s \in Slave : PutFile(s)
  BY <1>0, <1>10, PutFileStep, CallKeepsInv DEF PutFile
<1>11. CASE \E s \in Slave : CommitUpload(s)
  BY <1>0, <1>11, CommitUploadStep, CallKeepsInv DEF CommitUpload
<1>12. CASE \E s \in Slave : RemoveDump(s)
  BY <1>12, RemoveDumpKeepsInv
<1>13. CASE \E s \in Slave : Restart(s) \/ Retire(s)
  BY <1>0, <1>13, FreshStep, CallKeepsInv
<1>14. CASE Tick
  BY <1>14, TickKeepsInv
<1>15. CASE UNCHANGED vars
  BY <1>15 DEF ImporterInv, TypeInv, TypeOK, Unlinked, GoneMeansStored, At, M, vars
<1> QED
  BY StepCases, <1>1, <1>2, <1>3, <1>4, <1>5, <1>6, <1>7, <1>8, <1>9, <1>10, <1>11, <1>12,
     <1>13, <1>14, <1>15

\* The importer of registrations and dumps is one without sandboxes.
LEMMA WithSandboxes == Spec => SandboxSpec
<1>1. [Next]_vars => [SandboxNext]_vars
  BY DEF SandboxNext
<1> QED
  BY <1>1, PTL DEF Spec, SandboxSpec

LEMMA Invariant == SandboxSpec => []ImporterInv
  BY InvInit, InvStep, PTL DEF SandboxSpec

\* The queues, the slaves and what the Primary Storage holds are always well typed,
\* and a slave at work has a message of its own queue (jpimporter.c), with or without
\* the sandbox slaves.
THEOREM TypeCorrect == (Spec \/ SandboxSpec) => []TypeOK
<1>1. ImporterInv => TypeOK
  BY DEF ImporterInv, TypeInv
<1> QED
  BY <1>1, WithSandboxes, Invariant, PTL

\* A registration leaves its queue only after the PS has registered the job with its
\* owner, a dump leaves its queue or the disk only after the PS has committed it
\* (reg_importer, dump_importer): for any number of slaves on a queue, of crashes,
\* lost answers and repetitions, and with sandbox slaves at work.
THEOREM NothingIsDropped == (Spec \/ SandboxSpec) => []GoneMeansStored
<1>1. ImporterInv => GoneMeansStored
  BY DEF ImporterInv
<1> QED
  BY <1>1, WithSandboxes, Invariant, PTL
=============================================================================
