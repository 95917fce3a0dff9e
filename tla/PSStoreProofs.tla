---------------------------- MODULE PSStoreProofs ----------------------------
(***************************************************************************)
(* Proofs about PSStore for every set of slaves, clients, jobs and names,  *)
(* every UploadTTL and an unbounded number of requests.                    *)
(***************************************************************************)
EXTENDS PSStore, TLAPS

\* A step of the specification is one of the actions; the statements of the
\* lemmas below split on this disjunction.
LEMMA StepCases ==
  ASSUME [Next]_vars
  PROVE  \/ \E s \in Slave, p \in Peer, j \in Job, o \in Peer : RegisterJob(s, p, j, o)
         \/ \E s \in Slave, p \in Peer, f \in File : StartUpload(s, p, f)
         \/ \E s \in Slave, p \in Peer, f \in File : CommitUpload(s, p, f)
         \/ \E s \in Slave : RegStoreUser(s)
         \/ \E s \in Slave : RegInsertJob(s)
         \/ \E s \in Slave : RegMkdir(s)
         \/ \E s \in Slave : UpStoreUser(s)
         \/ \E s \in Slave : UpDeleteExpired(s)
         \/ \E s \in Slave : UpInsert(s)
         \/ \E s \in Slave : ComUpdate(s)
         \/ \E s \in Slave : ComDestinationInfo(s)
         \/ \E s \in Slave : RegMatch(s) \/ ComMatch(s) \/ Restart(s) \/ Abandon(s)
         \/ Tick
         \/ UNCHANGED vars
BY DEF Next, Call, SlaveStep

\* Rows are well typed.
LEMMA RowTypes ==
  /\ NoRow \in Row
  /\ \A d \in Nat, p \in Peer : Uploading(d, p) \in Row
  /\ \A r \in Row : Committed(r) \in Row
BY DEF NoRow, Uploading, Committed, Row, NULL

LEMMA IdleType == Idle \in Local /\ Idle \in Serving
BY RowTypes DEF Idle, Local, Serving, PC, RegPC, UpPC, ComPC

\* What a slave in the middle of an operation holds.
LEMMA Inputs ==
  ASSUME NEW l \in Serving
  PROVE  /\ l.pc \in RegPC => l.job \in Job /\ l.owner \in Peer
         /\ l.pc \in UpPC \cup ComPC => l.file \in File /\ l.peer \in Peer
         /\ l.deadline \in Nat /\ l.now \in Nat /\ l.updated \in Nat /\ l.seen \in Row
BY DEF Serving, Local

-----------------------------------------------------------------------------
(* What the steps do to the slaves, without EXCEPT: the moving slave holds  *)
(* the values listed and the other slaves are as before.                    *)

Moved(s) == /\ slave' \in [Slave -> Serving]
            /\ \A t \in Slave : t # s => slave'[t] = slave[t]

LEMMA BecomesEffect ==
  ASSUME TypeOK, NEW s \in Slave, NEW l \in Serving, Becomes(s, l)
  PROVE  Moved(s) /\ slave'[s] = l
BY DEF TypeOK, Becomes, Moved

LEMMA DoneEffect ==
  ASSUME TypeOK, NEW s \in Slave, Done(s)
  PROVE  Moved(s) /\ slave'[s] = Idle /\ slave'[s].pc = "idle"
BY BecomesEffect, IdleType DEF Done, Idle

LEMMA GotoEffect ==
  ASSUME TypeOK, NEW s \in Slave, NEW c \in PC,
         c \in RegPC => slave[s].pc \in RegPC,
         c \in UpPC \cup ComPC => slave[s].pc \in UpPC \cup ComPC,
         Goto(s, c)
  PROVE  /\ Moved(s)
         /\ slave'[s].pc = c
         /\ slave'[s].peer = slave[s].peer /\ slave'[s].owner = slave[s].owner
         /\ slave'[s].job = slave[s].job /\ slave'[s].file = slave[s].file
         /\ slave'[s].seen = slave[s].seen /\ slave'[s].updated = slave[s].updated
<1> DEFINE l == [slave[s] EXCEPT !.pc = c]
<1>1. slave[s] \in Serving
  BY DEF TypeOK
<1>2. /\ l \in Serving
      /\ l.pc = c /\ l.peer = slave[s].peer /\ l.owner = slave[s].owner
      /\ l.job = slave[s].job /\ l.file = slave[s].file
      /\ l.seen = slave[s].seen /\ l.updated = slave[s].updated
  BY <1>1 DEF Serving, Local
<1>3. Becomes(s, l)
  BY DEF Goto
<1> HIDE DEF l
<1> QED
  BY <1>2, <1>3, BecomesEffect

LEMMA RegisterJobEffect ==
  ASSUME TypeOK, NEW s \in Slave, NEW p \in Peer, NEW j \in Job, NEW o \in Peer,
         RegisterJob(s, p, j, o)
  PROVE  Moved(s) /\ slave'[s].pc = "reg_user" /\ slave'[s].owner = o /\ slave'[s].job = j
<1> DEFINE l == [Idle EXCEPT !.pc = "reg_user", !.owner = o, !.job = j]
<1>1. l \in Serving /\ l.pc = "reg_user" /\ l.owner = o /\ l.job = j
  BY RowTypes DEF Idle, Local, Serving, PC, RegPC, UpPC, ComPC
<1>2. Becomes(s, l)
  BY DEF RegisterJob
<1> HIDE DEF l
<1> QED
  BY <1>1, <1>2, BecomesEffect

LEMMA StartUploadEffect ==
  ASSUME TypeOK, NEW s \in Slave, NEW p \in Peer, NEW f \in File, StartUpload(s, p, f)
  PROVE  Moved(s) /\ slave'[s].pc = "up_user" /\ slave'[s].peer = p /\ slave'[s].file = f
<1> DEFINE l == [Idle EXCEPT !.pc = "up_user", !.peer = p, !.file = f,
                             !.deadline = clock + UploadTTL]
<1>1. clock + UploadTTL \in Nat
  BY StoreAssumption DEF TypeOK
<1>2. l \in Serving /\ l.pc = "up_user" /\ l.peer = p /\ l.file = f
  BY <1>1, RowTypes DEF Idle, Local, Serving, PC, RegPC, UpPC, ComPC
<1>3. Becomes(s, l)
  BY DEF StartUpload
<1> HIDE DEF l
<1> QED
  BY <1>2, <1>3, BecomesEffect

LEMMA CommitUploadEffect ==
  ASSUME TypeOK, NEW s \in Slave, NEW p \in Peer, NEW f \in File, CommitUpload(s, p, f)
  PROVE  /\ Moved(s) /\ slave'[s].pc = "com_update" /\ slave'[s].peer = p
         /\ slave'[s].file = f /\ slave'[s].seen = files[f]
<1> DEFINE l == [Idle EXCEPT !.pc = "com_update", !.peer = p, !.file = f, !.seen = files[f]]
<1>1. files[f] \in Row
  BY DEF TypeOK
<1>2. l \in Serving /\ l.pc = "com_update" /\ l.peer = p /\ l.file = f /\ l.seen = files[f]
  BY <1>1, RowTypes DEF Idle, Local, Serving, PC, RegPC, UpPC, ComPC
<1>3. Becomes(s, l)
  BY DEF CommitUpload
<1> HIDE DEF l
<1> QED
  BY <1>2, <1>3, BecomesEffect

LEMMA UpStoreUserEffect ==
  ASSUME TypeOK, NEW s \in Slave, UpStoreUser(s)
  PROVE  /\ Moved(s) /\ slave'[s].pc = "up_expire" /\ slave'[s].now = clock
         /\ slave'[s].peer = slave[s].peer /\ slave'[s].file = slave[s].file
<1> DEFINE l == [slave[s] EXCEPT !.pc = "up_expire", !.now = clock]
<1>1. slave[s] \in Serving /\ clock \in Nat /\ slave[s].pc = "up_user"
  BY DEF TypeOK, UpStoreUser, At
<1>2. /\ l \in Serving /\ l.pc = "up_expire" /\ l.now = clock
      /\ l.peer = slave[s].peer /\ l.file = slave[s].file
  BY <1>1 DEF Local, Serving, PC, RegPC, UpPC, ComPC
<1>3. Becomes(s, l)
  BY DEF UpStoreUser
<1> HIDE DEF l
<1> QED
  BY <1>2, <1>3, BecomesEffect

LEMMA ComUpdateEffect ==
  ASSUME TypeOK, NEW s \in Slave, ComUpdate(s)
  PROVE  /\ Moved(s) /\ slave'[s].pc = "com_info" /\ slave'[s].updated = clock
         /\ slave'[s].file = slave[s].file /\ slave'[s].seen = slave[s].seen
<1> DEFINE l == [slave[s] EXCEPT !.pc = "com_info", !.updated = clock]
<1>1. slave[s] \in Serving /\ clock \in Nat /\ slave[s].pc = "com_update"
  BY DEF TypeOK, ComUpdate, At
<1>2. /\ l \in Serving /\ l.pc = "com_info" /\ l.updated = clock
      /\ l.file = slave[s].file /\ l.seen = slave[s].seen
  BY <1>1 DEF Local, Serving, PC, RegPC, UpPC, ComPC
<1>3. Becomes(s, l)
  BY DEF ComUpdate
<1> HIDE DEF l
<1> QED
  BY <1>2, <1>3, BecomesEffect

-----------------------------------------------------------------------------
(* Type correctness *)

LEMMA TypeInit == Init => TypeOK
BY StoreAssumption, RowTypes, IdleType DEF Init, TypeOK

LEMMA TypeStep == TypeOK /\ [Next]_vars => TypeOK'
<1> SUFFICES ASSUME TypeOK, [Next]_vars PROVE TypeOK'
  OBVIOUS
<1> USE StoreAssumption, RowTypes, Inputs DEF At, PC, RegPC, UpPC, ComPC
<1>1. CASE \E s \in Slave, p \in Peer, j \in Job, o \in Peer : RegisterJob(s, p, j, o)
  BY <1>1, RegisterJobEffect DEF TypeOK, RegisterJob, Moved
<1>2. CASE \E s \in Slave, p \in Peer, f \in File : StartUpload(s, p, f)
  BY <1>2, StartUploadEffect, ZenonT(30) DEF TypeOK, StartUpload, Moved
<1>3. CASE \E s \in Slave, p \in Peer, f \in File : CommitUpload(s, p, f)
  <2> PICK s \in Slave, p \in Peer, f \in File : CommitUpload(s, p, f)
    BY <1>3
  <2>1. Moved(s)
    BY CommitUploadEffect
  <2> QED
    BY <2>1 DEF TypeOK, CommitUpload, Moved
<1>4. CASE \E s \in Slave : RegStoreUser(s)
  BY <1>4, GotoEffect DEF TypeOK, RegStoreUser, Moved
<1>5. CASE \E s \in Slave : RegInsertJob(s)
  <2> PICK s \in Slave : RegInsertJob(s)
    BY <1>5
  <2>1. slave[s] \in Serving /\ slave[s].pc = "reg_insert"
    BY DEF TypeOK, RegInsertJob
  <2>2. Moved(s)
    BY <2>1, GotoEffect, DoneEffect DEF RegInsertJob
  <2> QED
    BY <2>1, <2>2 DEF TypeOK, RegInsertJob, Moved
<1>6. CASE \E s \in Slave : RegMkdir(s)
  <2> PICK s \in Slave : RegMkdir(s)
    BY <1>6
  <2>1. slave[s] \in Serving /\ slave[s].pc = "reg_mkdir"
    BY DEF TypeOK, RegMkdir
  <2>2. Moved(s)
    BY <2>1, GotoEffect, DoneEffect DEF RegMkdir
  <2> QED
    BY <2>1, <2>2 DEF TypeOK, RegMkdir, Moved
<1>7. CASE \E s \in Slave : UpStoreUser(s)
  BY <1>7, UpStoreUserEffect, ZenonT(30) DEF TypeOK, UpStoreUser, Moved
<1>8. CASE \E s \in Slave : UpDeleteExpired(s)
  BY <1>8, GotoEffect DEF TypeOK, UpDeleteExpired, Moved
<1>9. CASE \E s \in Slave : UpInsert(s)
  BY <1>9, DoneEffect DEF TypeOK, UpInsert, Moved
<1>10. CASE \E s \in Slave : ComUpdate(s)
  <2> PICK s \in Slave : ComUpdate(s)
    BY <1>10
  <2>1. slave[s] \in Serving /\ slave[s].pc = "com_update"
    BY DEF TypeOK, ComUpdate
  <2>2. Moved(s)
    BY ComUpdateEffect
  <2> QED
    BY <2>1, <2>2 DEF TypeOK, ComUpdate, Moved
<1>11. CASE \E s \in Slave : ComDestinationInfo(s)
  <2> PICK s \in Slave : ComDestinationInfo(s)
    BY <1>11
  <2>1. Moved(s)
    BY GotoEffect DEF ComDestinationInfo
  <2> QED
    BY <2>1 DEF TypeOK, ComDestinationInfo, Moved
<1>12. CASE \E s \in Slave : RegMatch(s) \/ ComMatch(s) \/ Restart(s) \/ Abandon(s)
  BY <1>12, DoneEffect DEF TypeOK, RegMatch, ComMatch, Restart, Abandon, Moved
<1>13. CASE Tick
  BY <1>13 DEF TypeOK, Tick
<1>14. CASE UNCHANGED vars
  BY <1>14 DEF TypeOK, vars
<1> QED
  BY StepCases, <1>1, <1>2, <1>3, <1>4, <1>5, <1>6, <1>7, <1>8, <1>9, <1>10, <1>11,
     <1>12, <1>13, <1>14

\* The tables and the slaves' variables keep their types.
THEOREM TypeCorrect == Spec => []TypeOK
BY TypeInit, TypeStep, PTL DEF Spec

-----------------------------------------------------------------------------
(* Referential integrity *)

LEMMA FileJob == \A f \in File : f[1] \in Job
BY DEF File

LEMMA ReferencesInit == Init => References /\ StepReferences
BY DEF Init, References, StepReferences, NoRow, Idle, UpPC

\* Rows of users and jobs are only ever added, so it is enough that a step
\* adds them before it relies on them.
LEMMA ReferencesStep ==
  ASSUME TypeOK, References, StepReferences, [Next]_vars
  PROVE  References' /\ StepReferences'
<1> USE StoreAssumption, FileJob DEF UpPC
<1>1. CASE \E s \in Slave, p \in Peer, j \in Job, o \in Peer : RegisterJob(s, p, j, o)
  <2> PICK s \in Slave, p \in Peer, j \in Job, o \in Peer : RegisterJob(s, p, j, o)
    BY <1>1
  <2>1. Moved(s) /\ slave'[s].pc = "reg_user"
    BY RegisterJobEffect
  <2> QED
    BY <2>1 DEF References, StepReferences, RegisterJob, Moved
<1>2. CASE \E s \in Slave, p \in Peer, f \in File : StartUpload(s, p, f)
  <2> PICK s \in Slave, p \in Peer, f \in File : StartUpload(s, p, f)
    BY <1>2
  <2>1. Moved(s) /\ slave'[s].pc = "up_user" /\ slave'[s].file = f
    BY StartUploadEffect
  <2> QED
    BY <2>1 DEF References, StepReferences, StartUpload, Moved
<1>3. CASE \E s \in Slave, p \in Peer, f \in File : CommitUpload(s, p, f)
  <2> PICK s \in Slave, p \in Peer, f \in File : CommitUpload(s, p, f)
    BY <1>3
  <2>1. Moved(s) /\ slave'[s].pc = "com_update"
    BY CommitUploadEffect
  <2> QED
    BY <2>1 DEF References, StepReferences, CommitUpload, Moved
<1>4. CASE \E s \in Slave : RegStoreUser(s)
  <2> PICK s \in Slave : RegStoreUser(s)
    BY <1>4
  <2>1. Moved(s) /\ slave'[s].pc = "reg_insert" /\ slave'[s].owner = slave[s].owner
    BY GotoEffect DEF RegStoreUser, At, PC, RegPC, ComPC
  <2> QED
    BY <2>1 DEF References, StepReferences, RegStoreUser, Moved
<1>5. CASE \E s \in Slave : RegInsertJob(s)
  <2> PICK s \in Slave : RegInsertJob(s)
    BY <1>5
  <2> DEFINE j == slave[s].job
             o == slave[s].owner
  <2>1. j \in Job /\ o \in Peer /\ o \in users
    BY Inputs DEF RegInsertJob, At, TypeOK, StepReferences, RegPC
  <2>2. Moved(s) /\ slave'[s].pc \in {"reg_mkdir", "idle"}
    BY GotoEffect, DoneEffect DEF RegInsertJob, At, PC, RegPC, ComPC
  <2>3. /\ jobs' = [jobs EXCEPT ![j] = o] \/ jobs' = jobs
        /\ users' = users /\ files' = files
    BY DEF RegInsertJob
  <2>4. \A k \in Job : jobs'[k] = jobs[k] \/ jobs'[k] = o
    BY <2>3 DEF TypeOK
  <2> HIDE DEF j, o
  <2> QED
    BY <2>1, <2>2, <2>3, <2>4, Inputs
    DEF References, StepReferences, Moved, TypeOK
<1>6. CASE \E s \in Slave : RegMkdir(s)
  <2> PICK s \in Slave : RegMkdir(s)
    BY <1>6
  <2>1. Moved(s) /\ slave'[s].pc \in {"reg_match", "idle"}
    BY GotoEffect, DoneEffect DEF RegMkdir, At, PC, RegPC, ComPC
  <2> QED
    BY <2>1 DEF References, StepReferences, RegMkdir, Moved
<1>7. CASE \E s \in Slave : UpStoreUser(s)
  <2> PICK s \in Slave : UpStoreUser(s)
    BY <1>7
  <2>1. /\ Moved(s) /\ slave'[s].pc = "up_expire"
        /\ slave'[s].peer = slave[s].peer /\ slave'[s].file = slave[s].file
    BY UpStoreUserEffect
  <2> QED
    BY <2>1 DEF References, StepReferences, UpStoreUser, At, Moved
<1>8. CASE \E s \in Slave : UpDeleteExpired(s)
  <2> PICK s \in Slave : UpDeleteExpired(s)
    BY <1>8
  <2>1. /\ Moved(s) /\ slave'[s].pc = "up_insert"
        /\ slave'[s].peer = slave[s].peer /\ slave'[s].file = slave[s].file
    BY GotoEffect DEF UpDeleteExpired, At, PC, RegPC, ComPC
  <2>2. \A f \in File : files'[f] = NoRow \/ files'[f] = files[f]
    BY DEF UpDeleteExpired
  <2> QED
    BY <2>1, <2>2 DEF References, StepReferences, UpDeleteExpired, At, Moved, NoRow
<1>9. CASE \E s \in Slave : UpInsert(s)
  <2> PICK s \in Slave : UpInsert(s)
    BY <1>9
  <2>1. Moved(s) /\ slave'[s].pc = "idle"
    BY DoneEffect DEF UpInsert
  <2>2. slave[s].file \in File /\ slave[s].peer \in users /\ jobs[slave[s].file[1]] # None
    BY Inputs DEF UpInsert, At, TypeOK, StepReferences
  <2>3. \A f \in File : \/ files'[f] = files[f]
                        \/ /\ f = slave[s].file
                           /\ files'[f] = Uploading(slave[s].deadline, slave[s].peer)
    BY <2>2 DEF UpInsert, TypeOK
  <2>4. users' = users /\ jobs' = jobs
    BY DEF UpInsert
  <2> QED
    BY <2>1, <2>2, <2>3, <2>4 DEF References, StepReferences, Moved, Uploading
<1>10. CASE \E s \in Slave : ComUpdate(s)
  <2> PICK s \in Slave : ComUpdate(s)
    BY <1>10
  <2>1. Moved(s) /\ slave'[s].pc = "com_info"
    BY ComUpdateEffect
  <2>2. slave[s].file \in File
    BY Inputs DEF ComUpdate, At, TypeOK, ComPC
  <2>3. \A f \in File : \/ files'[f] = files[f]
                        \/ files[f].state # "absent" /\ files'[f] = Committed(files[f])
    BY <2>2 DEF ComUpdate, TypeOK
  <2>4. users' = users /\ jobs' = jobs
    BY DEF ComUpdate
  <2>5. \A f \in File : /\ files'[f].uploader = files[f].uploader
                        /\ files'[f].state # "absent" => files[f].state # "absent"
    <3> SUFFICES ASSUME NEW f \in File
                 PROVE  /\ files'[f].uploader = files[f].uploader
                        /\ files'[f].state # "absent" => files[f].state # "absent"
      OBVIOUS
    <3>1. CASE files'[f] = files[f]
      BY <3>1
    <3>2. CASE files[f].state # "absent" /\ files'[f] = Committed(files[f])
      BY <3>2 DEF Committed
    <3> QED
      BY <2>3, <3>1, <3>2
  <2>6. References'
    BY <2>4, <2>5 DEF References
  <2>7. StepReferences'
    BY <2>1, <2>4 DEF StepReferences, Moved
  <2> QED
    BY <2>6, <2>7
<1>11. CASE \E s \in Slave : ComDestinationInfo(s)
  <2> PICK s \in Slave : ComDestinationInfo(s)
    BY <1>11
  <2>1. Moved(s) /\ slave'[s].pc \in {"com_match", "aborted"}
    BY GotoEffect DEF ComDestinationInfo, At, PC, RegPC, ComPC
  <2> QED
    BY <2>1 DEF References, StepReferences, ComDestinationInfo, Moved
<1>12. CASE \E s \in Slave : RegMatch(s) \/ ComMatch(s) \/ Restart(s) \/ Abandon(s)
  <2> PICK s \in Slave : RegMatch(s) \/ ComMatch(s) \/ Restart(s) \/ Abandon(s)
    BY <1>12
  <2>1. Moved(s) /\ slave'[s].pc = "idle"
    BY DoneEffect DEF RegMatch, ComMatch, Restart, Abandon
  <2>2. jobs' = jobs /\ users' = users /\ files' = files
    BY DEF RegMatch, ComMatch, Restart, Abandon
  <2> QED
    BY <2>1, <2>2 DEF References, StepReferences, Moved
<1>13. CASE Tick
  BY <1>13 DEF References, StepReferences, Tick
<1>14. CASE UNCHANGED vars
  BY <1>14 DEF References, StepReferences, vars
<1> QED
  BY StepCases, <1>1, <1>2, <1>3, <1>4, <1>5, <1>6, <1>7, <1>8, <1>9, <1>10, <1>11,
     <1>12, <1>13, <1>14

\* The joins of the backend never lose a row.
THEOREM ReferentialIntegrity == Spec => []References
<1>1. TypeOK /\ References /\ StepReferences /\ [Next]_vars =>
        (TypeOK /\ References /\ StepReferences)'
  BY TypeStep, ReferencesStep
<1>2. Init => TypeOK /\ References /\ StepReferences
  BY TypeInit, ReferencesInit
<1> QED
  BY <1>1, <1>2, PTL DEF Spec

-----------------------------------------------------------------------------
(* One registration per job *)

LEMMA OneRegistrationInit == Init => OneRegistration
BY DEF Init, OneRegistration, Idle

\* Only RegInsertJob brings a slave past the insert, and only for a job that
\* has no row: no other slave can be past the insert of the same job.
LEMMA OneRegistrationStep ==
  ASSUME TypeOK, OneRegistration, [Next]_vars
  PROVE  OneRegistration'
<1> USE DEF OneRegistration
<1>1. CASE \E s \in Slave : RegInsertJob(s)
  <2> PICK s \in Slave : RegInsertJob(s)
    BY <1>1
  <2> DEFINE j == slave[s].job
             o == slave[s].owner
  <2>1. j \in Job /\ o \in Peer /\ slave[s].pc = "reg_insert"
    BY Inputs DEF RegInsertJob, At, TypeOK, RegPC
  <2>2. CASE jobs[j] # None
    <3>1. Moved(s) /\ slave'[s].pc = "idle" /\ jobs' = jobs
      BY <2>2, DoneEffect DEF RegInsertJob
    <3> QED
      BY <3>1 DEF Moved
  <2>3. CASE jobs[j] = None
    <3>1. /\ Moved(s) /\ slave'[s].pc = "reg_mkdir"
          /\ slave'[s].job = j /\ slave'[s].owner = o
      BY <2>1, <2>3, GotoEffect DEF RegInsertJob, PC, RegPC, UpPC, ComPC
    <3>2. jobs' = [jobs EXCEPT ![j] = o]
      BY <2>3 DEF RegInsertJob
    <3>3. \A t \in Slave : slave[t].pc \in {"reg_mkdir", "reg_match"} =>
             slave[t].job \in Job /\ slave[t].job # j
      BY <2>3, Inputs, StoreAssumption DEF TypeOK, RegPC
    <3> HIDE DEF j, o
    <3>4. /\ jobs'[j] = o
          /\ \A k \in Job : k # j => jobs'[k] = jobs[k]
      BY <2>1, <3>2 DEF TypeOK
    <3> QED
      BY <3>1, <3>3, <3>4 DEF Moved
  <2> QED
    BY <2>2, <2>3
<1>2. CASE \E s \in Slave : RegMkdir(s)
  <2> PICK s \in Slave : RegMkdir(s)
    BY <1>2
  <2>1. /\ Moved(s) /\ slave[s].pc = "reg_mkdir"
        /\ \/ slave'[s].pc = "idle"
           \/ slave'[s].pc = "reg_match" /\ slave'[s].job = slave[s].job
                /\ slave'[s].owner = slave[s].owner
    BY GotoEffect, DoneEffect DEF RegMkdir, At, PC, RegPC, UpPC, ComPC
  <2>2. jobs' = jobs
    BY DEF RegMkdir
  <2> QED
    BY <2>1, <2>2 DEF Moved
<1>3. ASSUME NEW s \in Slave, Moved(s), jobs' = jobs,
             slave'[s].pc \notin {"reg_mkdir", "reg_match"}
      PROVE  OneRegistration'
  BY <1>3 DEF Moved
<1>4. CASE \E s \in Slave, p \in Peer, j \in Job, o \in Peer : RegisterJob(s, p, j, o)
  BY <1>4, <1>3, RegisterJobEffect DEF RegisterJob
<1>5. CASE \E s \in Slave, p \in Peer, f \in File : StartUpload(s, p, f)
  BY <1>5, <1>3, StartUploadEffect, ZenonT(30) DEF StartUpload
<1>6. CASE \E s \in Slave, p \in Peer, f \in File : CommitUpload(s, p, f)
  BY <1>6, <1>3, CommitUploadEffect DEF CommitUpload
<1>7. CASE \E s \in Slave : RegStoreUser(s)
  BY <1>7, <1>3, GotoEffect DEF RegStoreUser, At, PC, RegPC, UpPC, ComPC
<1>8. CASE \E s \in Slave : UpStoreUser(s)
  BY <1>8, <1>3, UpStoreUserEffect DEF UpStoreUser
<1>9. CASE \E s \in Slave : UpDeleteExpired(s)
  BY <1>9, <1>3, GotoEffect DEF UpDeleteExpired, At, PC, RegPC, UpPC, ComPC
<1>10. CASE \E s \in Slave : UpInsert(s)
  BY <1>10, <1>3, DoneEffect DEF UpInsert
<1>11. CASE \E s \in Slave : ComUpdate(s)
  BY <1>11, <1>3, ComUpdateEffect DEF ComUpdate
<1>12. CASE \E s \in Slave : ComDestinationInfo(s)
  BY <1>12, <1>3, GotoEffect DEF ComDestinationInfo, At, PC, RegPC, UpPC, ComPC
<1>13. CASE \E s \in Slave : RegMatch(s) \/ ComMatch(s) \/ Restart(s) \/ Abandon(s)
  BY <1>13, <1>3, DoneEffect DEF RegMatch, ComMatch, Restart, Abandon
<1>14. CASE Tick \/ UNCHANGED vars
  BY <1>14 DEF Tick, vars
<1> QED
  BY StepCases, <1>1, <1>2, <1>4, <1>5, <1>6, <1>7, <1>8, <1>9, <1>10, <1>11,
     <1>12, <1>13, <1>14

\* However many slaves race to register a job, one of them at most succeeds
\* and the owner it was given is the one on record.
THEOREM RegistrationIsExclusive == Spec => []OneRegistration
<1>1. TypeOK /\ OneRegistration /\ [Next]_vars => (TypeOK /\ OneRegistration)'
  BY TypeStep, OneRegistrationStep
<1>2. Init => TypeOK /\ OneRegistration
  BY TypeInit, OneRegistrationInit
<1> QED
  BY <1>1, <1>2, PTL DEF Spec

-----------------------------------------------------------------------------
(* The rows of the table files *)

\* What any step may do to a row: nothing, expire an upload, start one where
\* there is no row, or commit the row that is there.
RowStep(f) ==
  \/ files'[f] = files[f]
  \/ /\ files[f].state = "uploading" /\ files[f].deadline < clock
     /\ files'[f] = NoRow
  \/ /\ files[f].state = "absent"
     /\ \E d \in Nat, p \in Peer : files'[f] = Uploading(d, p)
  \/ /\ files[f].state # "absent"
     /\ files'[f] = Committed(files[f])

LEMMA RowSteps ==
  ASSUME TypeOK, StepRows, [Next]_vars, NEW f \in File
  PROVE  RowStep(f)
<1>1. CASE \E s \in Slave : UpDeleteExpired(s)
  <2> PICK s \in Slave : UpDeleteExpired(s)
    BY <1>1
  <2>1. slave[s].now <= clock /\ slave[s].now \in Nat /\ clock \in Nat
    BY Inputs DEF UpDeleteExpired, At, StepRows, TypeOK
  <2>2. files[f] \in Row
    BY DEF TypeOK
  <2>3. CASE Expired(files[f], slave[s].now) /\ f[1] = slave[s].file[1]
    <3>1. files'[f] = NoRow
      BY <2>3 DEF UpDeleteExpired
    <3>2. files[f].state = "uploading" /\ files[f].deadline < clock
      BY <2>1, <2>2, <2>3 DEF Expired, Row, NULL
    <3> QED
      BY <3>1, <3>2 DEF RowStep
  <2>4. CASE ~(Expired(files[f], slave[s].now) /\ f[1] = slave[s].file[1])
    BY <2>4 DEF UpDeleteExpired, RowStep
  <2> QED
    BY <2>3, <2>4
<1>2. CASE \E s \in Slave : UpInsert(s)
  <2> PICK s \in Slave : UpInsert(s)
    BY <1>2
  <2>1. slave[s].file \in File /\ slave[s].deadline \in Nat /\ slave[s].peer \in Peer
    BY Inputs DEF UpInsert, At, TypeOK, UpPC
  <2>2. CASE f # slave[s].file \/ files[slave[s].file].state # "absent"
    BY <2>1, <2>2 DEF UpInsert, RowStep, TypeOK
  <2>3. CASE f = slave[s].file /\ files[f].state = "absent"
    <3>1. files'[f] = Uploading(slave[s].deadline, slave[s].peer)
      BY <2>1, <2>3 DEF UpInsert, TypeOK
    <3> QED
      BY <2>1, <2>3, <3>1 DEF RowStep
  <2> QED
    BY <2>2, <2>3
<1>3. CASE \E s \in Slave : ComUpdate(s)
  <2> PICK s \in Slave : ComUpdate(s)
    BY <1>3
  <2>1. slave[s].file \in File
    BY Inputs DEF ComUpdate, At, TypeOK, ComPC
  <2>2. CASE f # slave[s].file \/ files[f].state = "absent"
    BY <2>1, <2>2 DEF ComUpdate, RowStep, TypeOK
  <2>3. CASE f = slave[s].file /\ files[f].state # "absent"
    BY <2>1, <2>3 DEF ComUpdate, RowStep, TypeOK
  <2> QED
    BY <2>2, <2>3
<1>4. ASSUME files' = files PROVE RowStep(f)
  BY <1>4 DEF RowStep
<1> QED
  BY StepCases, <1>1, <1>2, <1>3, <1>4
  DEF RegisterJob, StartUpload, CommitUpload, RegStoreUser, RegInsertJob, RegMkdir,
      UpStoreUser, ComDestinationInfo, RegMatch, ComMatch, Restart, Abandon, Tick, vars

LEMMA RowsInit == Init => Deadlines /\ StepRows /\ InTimeCommit
BY DEF Init, Deadlines, StepRows, InTimeCommit, NoRow, Idle, ComPC

LEMMA DeadlinesStep ==
  ASSUME TypeOK, Deadlines, StepRows, [Next]_vars
  PROVE  Deadlines'
<1> SUFFICES ASSUME NEW f \in File
             PROVE  /\ files'[f].state = "uploading" => files'[f].deadline \in Nat
                    /\ files'[f].state = "committed" => files'[f].deadline = NULL
  BY DEF Deadlines
<1>1. CASE files'[f] = files[f]
  BY <1>1 DEF Deadlines
<1>2. CASE files'[f] = NoRow
  BY <1>2 DEF NoRow
<1>3. CASE \E d \in Nat, p \in Peer : files'[f] = Uploading(d, p)
  BY <1>3 DEF Uploading
<1>4. CASE files'[f] = Committed(files[f])
  BY <1>4 DEF Committed
<1> QED
  BY RowSteps, <1>1, <1>2, <1>3, <1>4 DEF RowStep

\* The clock only moves forward.
LEMMA ClockStep ==
  ASSUME TypeOK, [Next]_vars
  PROVE  clock' \in Nat /\ clock <= clock' /\ clock \in Nat
<1>1. clock \in Nat
  BY DEF TypeOK
<1>2. CASE Tick
  BY <1>1, <1>2 DEF Tick
<1>3. CASE clock' = clock
  BY <1>1, <1>3
<1> QED
  BY StepCases, <1>2, <1>3
  DEF RegisterJob, StartUpload, CommitUpload, RegStoreUser, RegInsertJob, RegMkdir,
      UpStoreUser, UpDeleteExpired, UpInsert, ComUpdate, ComDestinationInfo, RegMatch,
      ComMatch, Restart, Abandon, vars

\* How a slave gets into, or stays in, the steps of CommitUpload: it selects
\* a row, its update runs, it goes on with what it held, or it did not move.
CommitStep(t) ==
  \/ slave'[t] = slave[t]
  \/ slave'[t].pc \notin ComPC
  \/ /\ slave'[t].pc = "com_update"
     /\ slave'[t].file \in File
     /\ files[slave'[t].file].state = "uploading"
     /\ slave'[t].seen = files[slave'[t].file]
     /\ files' = files /\ clock' = clock
  \/ /\ slave[t].pc = "com_update" /\ slave'[t].pc = "com_info"
     /\ slave'[t].file = slave[t].file /\ slave'[t].seen = slave[t].seen
     /\ slave'[t].updated = clock /\ clock' = clock
     /\ files[slave[t].file].state # "absent" =>
          files'[slave[t].file] = Committed(files[slave[t].file])
  \/ /\ slave[t].pc = "com_info" /\ slave'[t].pc = "com_match"
     /\ slave'[t].file = slave[t].file /\ slave'[t].seen = slave[t].seen
     /\ slave'[t].updated = slave[t].updated
     /\ files' = files /\ clock' = clock

LEMMA CommitSteps ==
  ASSUME TypeOK, [Next]_vars, NEW t \in Slave
  PROVE  CommitStep(t)
<1>1. ASSUME NEW s \in Slave, Moved(s), slave'[s].pc \notin ComPC
      PROVE  CommitStep(t)
  BY <1>1 DEF Moved, CommitStep
<1>2. CASE \E s \in Slave, p \in Peer, j \in Job, o \in Peer : RegisterJob(s, p, j, o)
  BY <1>2, <1>1, RegisterJobEffect DEF ComPC
<1>3. CASE \E s \in Slave, p \in Peer, f \in File : StartUpload(s, p, f)
  BY <1>3, <1>1, StartUploadEffect DEF ComPC
<1>4. CASE \E s \in Slave, p \in Peer, f \in File : CommitUpload(s, p, f)
  <2> PICK s \in Slave, p \in Peer, f \in File : CommitUpload(s, p, f)
    BY <1>4
  <2>1. /\ Moved(s) /\ slave'[s].pc = "com_update"
        /\ slave'[s].file = f /\ slave'[s].seen = files[f]
    BY CommitUploadEffect
  <2>2. files[f].state = "uploading" /\ files' = files /\ clock' = clock
    BY DEF CommitUpload, MayCommit
  <2> QED
    BY <2>1, <2>2 DEF Moved, CommitStep
<1>5. CASE \E s \in Slave : RegStoreUser(s)
  BY <1>5, <1>1, GotoEffect DEF RegStoreUser, At, PC, RegPC, UpPC, ComPC
<1>6. CASE \E s \in Slave : RegInsertJob(s)
  <2> PICK s \in Slave : RegInsertJob(s)
    BY <1>6
  <2>1. Moved(s) /\ slave'[s].pc \in {"reg_mkdir", "idle"}
    BY GotoEffect, DoneEffect DEF RegInsertJob, At, PC, RegPC, UpPC, ComPC
  <2> QED
    BY <2>1, <1>1 DEF ComPC
<1>7. CASE \E s \in Slave : RegMkdir(s)
  <2> PICK s \in Slave : RegMkdir(s)
    BY <1>7
  <2>1. Moved(s) /\ slave'[s].pc \in {"reg_match", "idle"}
    BY GotoEffect, DoneEffect DEF RegMkdir, At, PC, RegPC, UpPC, ComPC
  <2> QED
    BY <2>1, <1>1 DEF ComPC
<1>8. CASE \E s \in Slave : UpStoreUser(s)
  BY <1>8, <1>1, UpStoreUserEffect DEF ComPC
<1>9. CASE \E s \in Slave : UpDeleteExpired(s)
  BY <1>9, <1>1, GotoEffect DEF UpDeleteExpired, At, PC, RegPC, UpPC, ComPC
<1>10. CASE \E s \in Slave : UpInsert(s)
  BY <1>10, <1>1, DoneEffect DEF UpInsert, ComPC
<1>11. CASE \E s \in Slave : ComUpdate(s)
  <2> PICK s \in Slave : ComUpdate(s)
    BY <1>11
  <2>1. /\ Moved(s) /\ slave'[s].pc = "com_info" /\ slave'[s].updated = clock
        /\ slave'[s].file = slave[s].file /\ slave'[s].seen = slave[s].seen
    BY ComUpdateEffect
  <2>2. slave[s].file \in File /\ slave[s].pc = "com_update" /\ clock' = clock
    BY Inputs DEF ComUpdate, At, TypeOK, ComPC
  <2>3. files[slave[s].file].state # "absent" =>
          files'[slave[s].file] = Committed(files[slave[s].file])
    BY <2>2 DEF ComUpdate, TypeOK
  <2>4. CASE t = s
    BY <2>1, <2>2, <2>3, <2>4 DEF CommitStep
  <2>5. CASE t # s
    BY <2>1, <2>5 DEF CommitStep, Moved
  <2> QED
    BY <2>4, <2>5
<1>12. CASE \E s \in Slave : ComDestinationInfo(s)
  <2> PICK s \in Slave : ComDestinationInfo(s)
    BY <1>12
  <2>1. /\ Moved(s) /\ slave[s].pc = "com_info" /\ slave'[s].pc \in {"com_match", "aborted"}
        /\ slave'[s].file = slave[s].file /\ slave'[s].seen = slave[s].seen
        /\ slave'[s].updated = slave[s].updated
    BY GotoEffect DEF ComDestinationInfo, At, PC, RegPC, UpPC, ComPC
  <2>2. files' = files /\ clock' = clock
    BY DEF ComDestinationInfo
  <2> QED
    BY <2>1, <2>2 DEF CommitStep, Moved, ComPC
<1>13. CASE \E s \in Slave : RegMatch(s) \/ ComMatch(s) \/ Restart(s) \/ Abandon(s)
  BY <1>13, <1>1, DoneEffect DEF RegMatch, ComMatch, Restart, Abandon, ComPC
<1>14. CASE Tick \/ UNCHANGED vars
  BY <1>14 DEF Tick, vars, CommitStep
<1> QED
  BY StepCases, <1>2, <1>3, <1>4, <1>5, <1>6, <1>7, <1>8, <1>9, <1>10, <1>11,
     <1>12, <1>13, <1>14

\* The time read by start_upload is past when the delete uses it.
LEMMA ExpiryTimeStep ==
  ASSUME TypeOK, StepRows, [Next]_vars, NEW t \in Slave, slave'[t].pc = "up_expire"
  PROVE  slave'[t].now <= clock'
<1>1. clock' \in Nat /\ clock <= clock' /\ clock \in Nat
  BY ClockStep
<1>2. slave[t] \in Serving /\ slave[t].now \in Nat
  BY Inputs DEF TypeOK
<1>3. CASE slave'[t] = slave[t]
  BY <1>1, <1>2, <1>3 DEF StepRows
<1>4. CASE slave'[t].now = clock
  BY <1>1, <1>4
<1>5. ASSUME NEW s \in Slave, Moved(s), slave'[s].pc # "up_expire"
      PROVE  slave'[t] = slave[t]
  BY <1>5 DEF Moved
<1>6. ASSUME \E s \in Slave : UpStoreUser(s)
      PROVE  slave'[t] = slave[t] \/ slave'[t].now = clock
  BY <1>6, UpStoreUserEffect DEF Moved
<1>7. CASE \E s \in Slave : RegInsertJob(s)
  <2> PICK s \in Slave : RegInsertJob(s)
    BY <1>7
  <2>1. Moved(s) /\ slave'[s].pc \in {"reg_mkdir", "idle"}
    BY GotoEffect, DoneEffect DEF RegInsertJob, At, PC, RegPC, UpPC, ComPC
  <2> QED
    BY <2>1, <1>3, <1>5
<1>8. CASE \E s \in Slave : RegMkdir(s)
  <2> PICK s \in Slave : RegMkdir(s)
    BY <1>8
  <2>1. Moved(s) /\ slave'[s].pc \in {"reg_match", "idle"}
    BY GotoEffect, DoneEffect DEF RegMkdir, At, PC, RegPC, UpPC, ComPC
  <2> QED
    BY <2>1, <1>3, <1>5
<1>9. CASE \E s \in Slave : ComDestinationInfo(s)
  <2> PICK s \in Slave : ComDestinationInfo(s)
    BY <1>9
  <2>1. Moved(s) /\ slave'[s].pc \in {"com_match", "aborted"}
    BY GotoEffect DEF ComDestinationInfo, At, PC, RegPC, UpPC, ComPC
  <2> QED
    BY <2>1, <1>3, <1>5
<1>10. CASE \E s \in Slave : RegStoreUser(s) \/ UpDeleteExpired(s)
  <2> PICK s \in Slave : RegStoreUser(s) \/ UpDeleteExpired(s)
    BY <1>10
  <2>1. Moved(s) /\ slave'[s].pc \in {"reg_insert", "up_insert"}
    BY GotoEffect DEF RegStoreUser, UpDeleteExpired, At, PC, RegPC, UpPC, ComPC
  <2> QED
    BY <2>1, <1>3, <1>5
<1>11. CASE \E s \in Slave : UpInsert(s) \/ RegMatch(s) \/ ComMatch(s) \/ Restart(s) \/ Abandon(s)
  BY <1>11, <1>3, <1>5, DoneEffect DEF UpInsert, RegMatch, ComMatch, Restart, Abandon
<1>12. CASE \/ \E s \in Slave, p \in Peer, j \in Job, o \in Peer : RegisterJob(s, p, j, o)
            \/ \E s \in Slave, p \in Peer, f \in File : StartUpload(s, p, f)
            \/ \E s \in Slave, p \in Peer, f \in File : CommitUpload(s, p, f)
            \/ \E s \in Slave : ComUpdate(s)
  BY <1>12, <1>3, <1>5, RegisterJobEffect, StartUploadEffect, CommitUploadEffect,
     ComUpdateEffect
<1>13. CASE Tick \/ UNCHANGED vars
  BY <1>13, <1>3 DEF Tick, vars
<1> QED
  BY StepCases, <1>3, <1>4, <1>6, <1>7, <1>8, <1>9, <1>10, <1>11, <1>12, <1>13

LEMMA StepRowsStep ==
  ASSUME TypeOK, Deadlines, StepRows, [Next]_vars
  PROVE  StepRows'
<1> SUFFICES ASSUME NEW t \in Slave
             PROVE  /\ slave'[t].pc \in ComPC =>
                         slave'[t].seen.state = "uploading" /\ slave'[t].seen.deadline \in Nat
                    /\ slave'[t].pc = "up_expire" => slave'[t].now <= clock'
  BY DEF StepRows
<1>1. ASSUME slave'[t].pc \in ComPC
      PROVE  slave'[t].seen.state = "uploading" /\ slave'[t].seen.deadline \in Nat
  <2>1. CASE slave'[t] = slave[t]
    BY <1>1, <2>1 DEF StepRows
  <2>2. CASE /\ slave'[t].file \in File
             /\ files[slave'[t].file].state = "uploading"
             /\ slave'[t].seen = files[slave'[t].file]
    BY <2>2 DEF Deadlines
  <2>3. CASE slave[t].pc \in {"com_update", "com_info"} /\ slave'[t].seen = slave[t].seen
    BY <2>3 DEF StepRows, ComPC
  <2> QED
    BY CommitSteps, <1>1, <2>1, <2>2, <2>3 DEF CommitStep
<1> QED
  BY <1>1, ExpiryTimeStep

\* A commit of a committed row changes nothing, and a row has one commit.
LEMMA CommittedTwice ==
  ASSUME NEW r
  PROVE  /\ Committed(Committed(r)) = Committed(r)
         /\ Committed(r).state = "committed"
BY DEF Committed

LEMMA CommittedRow ==
  ASSUME NEW r \in Row, r.state = "committed", r.deadline = NULL
  PROVE  Committed(r) = r
BY DEF Committed, Row

\* An expiry spares an upload whose deadline has not passed and every
\* committed row, an insert needs an absent one, and an update of the row
\* commits it: so the row a commit selected is there as long as it is in
\* time, and once committed it stays.
LEMMA InTimeCommitStep ==
  ASSUME TypeOK, Deadlines, StepRows, InTimeCommit, [Next]_vars
  PROVE  InTimeCommit'
<1> SUFFICES ASSUME NEW t \in Slave
      PROVE  /\ slave'[t].pc = "com_update" /\ clock' <= slave'[t].seen.deadline =>
                  files'[slave'[t].file] \in {slave'[t].seen, Committed(slave'[t].seen)}
             /\ slave'[t].pc \in {"com_info", "com_match"}
                  /\ slave'[t].updated <= slave'[t].seen.deadline =>
                  files'[slave'[t].file] = Committed(slave'[t].seen)
  BY DEF InTimeCommit
<1>1. clock' \in Nat /\ clock <= clock' /\ clock \in Nat
  BY ClockStep
<1>2. slave[t] \in Serving
  BY DEF TypeOK
<1>3. ASSUME NEW f \in File, NEW r, r.state = "uploading", r.deadline \in Nat,
             files[f] = r \/ files[f] = Committed(r),
             clock <= r.deadline \/ files[f] = Committed(r)
      PROVE  /\ files'[f] = r \/ files'[f] = Committed(r)
             /\ files[f] = Committed(r) => files'[f] = Committed(r)
  <2>1. RowStep(f)
    BY RowSteps
  <2>2. files[f].state = "uploading" => files[f] = r
    BY <1>3, CommittedTwice
  <2>3. files[f].state # "absent"
    BY <1>3, CommittedTwice
  <2>4. ~(files[f].state = "uploading" /\ files[f].deadline < clock)
    <3> SUFFICES ASSUME files[f].state = "uploading" PROVE ~(files[f].deadline < clock)
      OBVIOUS
    <3>1. files[f] = r /\ files[f] # Committed(r)
      BY <2>2, CommittedTwice
    <3>2. clock <= r.deadline
      BY <1>3, <3>1
    <3> QED
      BY <3>1, <3>2, <1>1, <1>3
  <2>5. files'[f] = files[f] \/ files'[f] = Committed(files[f])
    BY <2>1, <2>3, <2>4 DEF RowStep
  <2> QED
    BY <2>5, <1>3, CommittedTwice
<1>4. CASE slave'[t] = slave[t]
  <2> DEFINE f == slave[t].file
             r == slave[t].seen
  <2> SUFFICES ASSUME slave[t].pc \in ComPC
        PROVE  /\ slave[t].pc = "com_update" /\ clock' <= r.deadline =>
                    files'[f] \in {r, Committed(r)}
               /\ slave[t].pc \in {"com_info", "com_match"} /\ slave[t].updated <= r.deadline =>
                    files'[f] = Committed(r)
    BY <1>4 DEF ComPC
  <2>1. f \in File /\ r.state = "uploading" /\ r.deadline \in Nat
    BY <1>2, Inputs DEF StepRows
  <2>2. ASSUME slave[t].pc = "com_update", clock' <= r.deadline
        PROVE  files'[f] \in {r, Committed(r)}
    <3>1. clock <= r.deadline
      BY <1>1, <2>1, <2>2
    <3>2. files[f] \in {r, Committed(r)}
      BY <2>2, <3>1 DEF InTimeCommit
    <3> HIDE DEF f, r
    <3> QED
      BY <1>3, <2>1, <3>1, <3>2
  <2>3. ASSUME slave[t].pc \in {"com_info", "com_match"}, slave[t].updated <= r.deadline
        PROVE  files'[f] = Committed(r)
    <3>1. files[f] = Committed(r)
      BY <2>3 DEF InTimeCommit
    <3> HIDE DEF f, r
    <3> QED
      BY <1>3, <2>1, <3>1
  <2> QED
    BY <2>2, <2>3
<1>5. CASE slave'[t].pc \notin ComPC
  BY <1>5 DEF ComPC
<1>6. CASE /\ slave'[t].pc = "com_update"
           /\ slave'[t].seen = files[slave'[t].file]
           /\ files' = files
  BY <1>6
<1>7. CASE /\ slave[t].pc = "com_update" /\ slave'[t].pc = "com_info"
           /\ slave'[t].file = slave[t].file /\ slave'[t].seen = slave[t].seen
           /\ slave'[t].updated = clock
           /\ files[slave[t].file].state # "absent" =>
                files'[slave[t].file] = Committed(files[slave[t].file])
  <2> DEFINE f == slave[t].file
             r == slave[t].seen
  <2> SUFFICES ASSUME clock <= r.deadline PROVE files'[f] = Committed(r)
    BY <1>7
  <2>1. files[f] \in {r, Committed(r)} /\ r.state = "uploading"
    BY <1>7 DEF InTimeCommit, StepRows, ComPC
  <2>2. files[f].state # "absent"
    BY <2>1, CommittedTwice
  <2> QED
    BY <1>7, <2>1, <2>2, CommittedTwice
<1>8. CASE /\ slave[t].pc = "com_info" /\ slave'[t].pc = "com_match"
           /\ slave'[t].file = slave[t].file /\ slave'[t].seen = slave[t].seen
           /\ slave'[t].updated = slave[t].updated
           /\ files' = files
  BY <1>8 DEF InTimeCommit
<1> QED
  BY CommitSteps, <1>4, <1>5, <1>6, <1>7, <1>8 DEF CommitStep

\* The inductive invariant of the rows.
RowsInv == TypeOK /\ Deadlines /\ StepRows /\ InTimeCommit

LEMMA RowsInvariant == Spec => []RowsInv
<1>1. Init => RowsInv
  BY TypeInit, RowsInit DEF RowsInv
<1>2. RowsInv /\ [Next]_vars => RowsInv'
  BY TypeStep, DeadlinesStep, StepRowsStep, InTimeCommitStep DEF RowsInv
<1> QED
  BY <1>1, <1>2, PTL DEF Spec

\* A commit that is in time commits the upload it was authorized for,
\* whatever the other slaves do between its select and its update.
THEOREM CommitInTimeSucceeds == Spec => []InTimeCommit
<1>1. RowsInv => InTimeCommit
  BY DEF RowsInv
<1> QED
  BY <1>1, RowsInvariant, PTL

\* No step of any slave undoes a commit or changes the owner of a job.
THEOREM CommitsAreDurable == Spec => CommittedForever
<1>1. ASSUME RowsInv, [Next]_vars, NEW f \in File, files[f].state = "committed"
      PROVE  files'[f] = files[f]
  <2>1. RowStep(f)
    BY <1>1, RowSteps DEF RowsInv
  <2>2. files[f] \in Row /\ files[f].deadline = NULL
    BY <1>1 DEF RowsInv, TypeOK, Deadlines
  <2>3. Committed(files[f]) = files[f]
    BY <1>1, <2>2, CommittedRow
  <2> QED
    BY <1>1, <2>1, <2>3 DEF RowStep
<1>2. ASSUME RowsInv, [Next]_vars, NEW j \in Job, jobs[j] # None
      PROVE  jobs'[j] = jobs[j]
  <2>1. CASE \E s \in Slave : RegInsertJob(s)
    <3> PICK s \in Slave : RegInsertJob(s)
      BY <2>1
    <3>1. CASE jobs' = jobs
      BY <3>1
    <3>2. CASE /\ jobs[slave[s].job] = None
               /\ jobs' = [jobs EXCEPT ![slave[s].job] = slave[s].owner]
      BY <1>2, <3>2 DEF RowsInv, TypeOK
    <3> QED
      BY <3>1, <3>2 DEF RegInsertJob
  <2>2. CASE jobs' = jobs
    BY <2>2
  <2> QED
    BY <1>2, StepCases, <2>1, <2>2
    DEF RegisterJob, StartUpload, CommitUpload, RegStoreUser, RegMkdir, UpStoreUser,
        UpDeleteExpired, UpInsert, ComUpdate, ComDestinationInfo, RegMatch, ComMatch,
        Restart, Abandon, Tick, vars
<1>3. RowsInv /\ [Next]_vars =>
        [/\ \A f \in File : files[f].state = "committed" => files'[f] = files[f]
         /\ \A j \in Job : jobs[j] # None => jobs'[j] = jobs[j]]_vars
  BY <1>1, <1>2
<1> QED
  BY <1>3, RowsInvariant, PTL DEF Spec, CommittedForever
=============================================================================
